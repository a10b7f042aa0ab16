------------------------ MODULE ProviderTurn_proofs -------------------------
(***************************************************************************)
(* The safety properties of ProviderTurn, for any set of senders and any   *)
(* number of turns and Stops.  IInv strengthens them to an inductive       *)
(* invariant with what the code's numbering and locks maintain.            *)
(***************************************************************************)
EXTENDS ProviderTurn, TLAPS

(* Only a Stop advances the generation. *)
GenerationsGrow == \A s \in Senders : sendGen[s] <= generation

(* The checkout lock is held by one sender. *)
OneCheckoutHolder ==
  \A s, r \in Senders :
    sendPc[s] \in {"relaunch", "started"} /\ sendPc[r] \in {"relaunch", "started"} => s = r

(* A turn that has no Pending entry yet has no spawn task and no process. *)
Unclaimed(t) == t > lastTurn \/ (t = lastTurn /\ ~GenerationFree)
FreshTurns == \A t \in Turns : Unclaimed(t) => spawn[t] = "unused" /\ process[t] = "none"

IInv ==
  /\ TypeOK
  /\ GenerationsGrow
  /\ OneCheckoutHolder
  /\ FreshTurns
  /\ StopExcludesSend
  /\ RelaunchNeverClobbers
  /\ StopSettlesTurn
  /\ NoOrphanProcess

-----------------------------------------------------------------------------
(* Types                                                                   *)

(* Dropping a handle ends its own process if it is alive and changes no    *)
(* other.                                                                  *)
LEMMA DroppedProcess ==
  ASSUME process \in [Turns -> ProcessStates], NEW entry
  PROVE  /\ Dropped(entry) \in [Turns -> ProcessStates]
         /\ \A t \in Turns :
              /\ Dropped(entry)[t] = "alive" => process[t] = "alive" /\ entry # Resolved(t)
              /\ process[t] = "none" => Dropped(entry)[t] = "none"
BY DEF Dropped, ProcessStates

(* The initial state is well typed. *)
LEMMA InitTypeOK == Init => TypeOK
<1> SUFFICES ASSUME Init PROVE TypeOK
  OBVIOUS
<1>1. exitOk \in [Turns -> BOOLEAN] /\ terminating \in BOOLEAN
  BY Zenon DEF Init
<1>2. handle \in Entries /\ jobEntry \in Entries
  BY DEF Init, Entries
<1>3. {invocation, lastTurn} \subseteq 0..MaxTurns /\ generation \in Nat
  BY BoundsAssumption DEF BoundsAssumption, Init
<1>4. /\ spawn \in [Turns -> SpawnPhases] /\ process \in [Turns -> ProcessStates]
      /\ exitPc \in [Turns -> ExitPhases]
      /\ sendPc \in [Senders -> SendPhases] /\ sendGen \in [Senders -> Nat]
  BY DEF Init, SpawnPhases, ProcessStates, ExitPhases, SendPhases
<1>5. state \in SessionStates /\ job \in JobPhases
  BY DEF Init, SessionStates, JobPhases
<1> QED
  BY <1>1, <1>2, <1>3, <1>4, <1>5 DEF TypeOK

(* Every step of every task keeps the types. *)
LEMMA NextTypeOK == TypeOK /\ [Next]_vars => TypeOK'
<1> SUFFICES ASSUME TypeOK, [Next]_vars PROVE TypeOK'
  OBVIOUS
<1> USE DEF TypeOK
<1>1. ASSUME NEW s \in Senders, SendBegin(s) \/ SendRoute(s) \/ SendAborts(s)
      PROVE  TypeOK'
  BY <1>1 DEF SendBegin, SendRoute, SendAborts, SendPhases, turnVars, exitVars, stopVars
<1>2. ASSUME NEW s \in Senders, SendStartTurn(s) PROVE TypeOK'
  BY <1>2, BoundsAssumption DEF BoundsAssumption, SendStartTurn, SendPhases, SessionStates, exitVars, stopVars
<1>3. ASSUME NEW s \in Senders, SendClaim(s) PROVE TypeOK'
  BY <1>3, DroppedProcess DEF SendClaim, SendPhases, SpawnPhases, Entries, exitVars, stopVars
<1>4. ASSUME NEW t \in Turns, SpawnTask(t) PROVE TypeOK'
  <2>1. CASE SpawnLaunch(t)
    BY <2>1 DEF SpawnLaunch, SpawnPhases, exitVars, stopVars, sendVars
  <2>5. CASE ProcessStart(t)
    BY <2>5 DEF ProcessStart, ProcessStates, exitVars, stopVars, sendVars
  <2>6. CASE SpawnRecordFailure(t)
    BY <2>6, BoundsAssumption DEF BoundsAssumption, SpawnRecordFailure, SpawnPhases,
       SessionStates, exitVars, stopVars, sendVars
  <2>2. CASE SpawnError(t)
    BY <2>2, DroppedProcess DEF SpawnError, SpawnPhases, Entries, exitVars, stopVars, sendVars
  <2>3. CASE SpawnSwap(t)
    BY <2>3, DroppedProcess DEF SpawnSwap, SpawnPhases, Entries, exitVars, stopVars, sendVars
  <2>4. CASE SpawnDispose(t)
    BY <2>4, DroppedProcess DEF SpawnDispose, SpawnPhases, exitVars, stopVars, sendVars
  <2> QED
    BY <1>4, <2>1, <2>2, <2>3, <2>4, <2>5, <2>6 DEF SpawnTask
<1>5. ASSUME NEW t \in Turns, ExitTask(t) \/ ProcessExit(t) PROVE TypeOK'
  <2>1. CASE ExitAdmit(t)
    BY <2>1 DEF ExitAdmit, ExitPhases, turnVars, stopVars, sendVars
  <2>4. CASE ExitCheck(t)
    BY <2>4 DEF ExitCheck, ExitPhases, turnVars, stopVars, sendVars
  <2>5. CASE ExitCommit(t)
    BY <2>5 DEF ExitCommit, ExitPhases, SessionStates, turnVars, stopVars, sendVars
  <2>6. CASE ExitDeleteFlush(t)
    BY <2>6, BoundsAssumption DEF BoundsAssumption, ExitDeleteFlush, ExitPhases,
       turnVars, stopVars, sendVars
  <2>2. CASE ExitRemoveHandle(t)
    BY <2>2, DroppedProcess DEF ExitRemoveHandle, ExitPhases, Entries, stopVars, sendVars
  <2>3. CASE ProcessExit(t)
    BY <2>3 DEF ProcessExit, ExitPhases, ProcessStates, stopVars, sendVars
  <2> QED
    BY <1>5, <2>1, <2>2, <2>3, <2>4, <2>5, <2>6 DEF ExitTask
<1>6. CASE StopBegin \/ StopTask
  <2>1. CASE StopDispose
    BY <2>1, DroppedProcess DEF StopDispose, JobPhases, Entries, exitVars, sendVars
  <2>2. CASE StopBegin
    <3>1. CASE job = "none"
      BY <2>2, <3>1 DEF StopBegin, JobPhases, turnVars, exitVars, sendVars
    <3>2. CASE job # "none"
      BY <2>2, <3>2 DEF StopBegin, turnVars, exitVars, sendVars
    <3> QED
      BY <3>1, <3>2
  <2>3. CASE StopClaim
    BY <2>3 DEF StopClaim, JobPhases, Entries, turnVars, exitVars, sendVars
  <2>4. CASE StopPersist
    BY <2>4, BoundsAssumption DEF BoundsAssumption, StopPersist, JobPhases, SessionStates,
       turnVars, exitVars, sendVars
  <2>5. CASE StopUnmark
    BY <2>5 DEF StopUnmark, JobPhases, turnVars, exitVars, sendVars
  <2>6. CASE StopRetire
    BY <2>6 DEF StopRetire, JobPhases, turnVars, exitVars, sendVars
  <2> QED
    BY <1>6, <2>1, <2>2, <2>3, <2>4, <2>5, <2>6 DEF StopTask
<1>7. CASE UNCHANGED vars
  BY <1>7 DEF vars, turnVars, exitVars, stopVars, sendVars
<1> QED
  BY <1>1, <1>2, <1>3, <1>4, <1>5, <1>6, <1>7 DEF Next, SendStep

(* Every state the service can reach is well typed: in particular the      *)
(* current invocation is always a turn that was started, or none.          *)
THEOREM TypeCorrect == Spec => []TypeOK
BY InitTypeOK, NextTypeOK, PTL DEF Spec

-----------------------------------------------------------------------------
(* What each task leaves alone                                             *)

(* Spawn tasks, exits and processes neither send nor stop, add no entry    *)
(* where there is none, and start no turn.                                 *)
LEMMA TurnFrame ==
  ASSUME NEW t \in Turns, SpawnTask(t) \/ ExitTask(t) \/ ProcessExit(t)
  PROVE  /\ UNCHANGED <<sendPc, sendGen, generation, terminating, job, jobEntry, lastTurn>>
         /\ handle = NoEntry => handle' = NoEntry
         /\ state' = "running" => state = "running"
<1> USE DEF stopVars, sendVars, turnVars, NoEntry, Pending
<1>1. CASE SpawnTask(t)
  BY <1>1 DEF SpawnTask, SpawnLaunch, ProcessStart, SpawnError, SpawnRecordFailure, SpawnSwap,
     SpawnDispose
<1>2. CASE ExitTask(t)
  BY <1>2 DEF ExitTask, ExitAdmit, ExitCheck, ExitCommit, ExitRemoveHandle, ExitDeleteFlush
<1>3. CASE ProcessExit(t)
  BY <1>3 DEF ProcessExit
<1> QED
  BY <1>1, <1>2, <1>3

(* The termination job takes entries only, advances no generation, and     *)
(* goes through "unmarking" only after it has settled the session.         *)
LEMMA StopFrame ==
  ASSUME StopTask
  PROVE  /\ UNCHANGED <<sendPc, sendGen, generation, lastTurn, spawn>>
         /\ job # "none"
         /\ handle = NoEntry => handle' = NoEntry
         /\ job' \in {"unmarking", "retiring"} =>
              state' # "running" \/ (state' = state /\ job \in {"unmarking", "retiring"})
BY DEF StopTask, StopClaim, StopDispose, StopPersist, StopUnmark, StopRetire, turnVars, sendVars

-----------------------------------------------------------------------------
(* The generation and the checkout lock                                    *)

(* A send captures the current generation, and Stop only raises it. *)
LEMMA NextGenerations == IInv /\ [Next]_vars => GenerationsGrow'
<1> SUFFICES ASSUME IInv, [Next]_vars PROVE GenerationsGrow'
  OBVIOUS
<1> USE DEF IInv, TypeOK, GenerationsGrow
<1>1. ASSUME NEW s \in Senders, SendBegin(s) PROVE GenerationsGrow'
  BY <1>1 DEF SendBegin, stopVars
<1>2. ASSUME NEW s \in Senders, SendRoute(s) \/ SendAborts(s) \/ SendStartTurn(s) \/ SendClaim(s)
      PROVE  GenerationsGrow'
  BY <1>2 DEF SendRoute, SendAborts, SendStartTurn, SendClaim, stopVars
<1>3. ASSUME NEW t \in Turns, SpawnTask(t) \/ ExitTask(t) \/ ProcessExit(t)
      PROVE  GenerationsGrow'
  BY <1>3, TurnFrame
<1>4. CASE StopBegin
  BY <1>4 DEF StopBegin, sendVars
<1>5. CASE StopTask
  BY <1>5, StopFrame
<1>6. CASE UNCHANGED vars
  BY <1>6 DEF vars, stopVars, sendVars
<1> QED
  BY <1>1, <1>2, <1>3, <1>4, <1>5, <1>6 DEF Next, SendStep

(* A sender passes the routing decision only while no other one is past it. *)
LEMMA NextCheckout == IInv /\ [Next]_vars => OneCheckoutHolder'
<1> SUFFICES ASSUME IInv, [Next]_vars PROVE OneCheckoutHolder'
  OBVIOUS
<1> USE DEF IInv, TypeOK, OneCheckoutHolder
<1>1. ASSUME NEW s \in Senders, SendBegin(s) \/ SendAborts(s) \/ SendStartTurn(s) \/ SendClaim(s)
      PROVE  OneCheckoutHolder'
  BY <1>1 DEF SendBegin, SendAborts, SendStartTurn, SendClaim
<1>2. ASSUME NEW s \in Senders, SendRoute(s) PROVE OneCheckoutHolder'
  BY <1>2 DEF SendRoute, CheckoutFree
<1>3. ASSUME NEW t \in Turns, SpawnTask(t) \/ ExitTask(t) \/ ProcessExit(t)
      PROVE  OneCheckoutHolder'
  BY <1>3, TurnFrame
<1>4. CASE StopBegin \/ StopTask
  BY <1>4, StopFrame DEF StopBegin, sendVars
<1>5. CASE UNCHANGED vars
  BY <1>5 DEF vars, sendVars
<1> QED
  BY <1>1, <1>2, <1>3, <1>4, <1>5 DEF Next, SendStep

-----------------------------------------------------------------------------
(* Sends against Stops                                                     *)

(* A Stop outdates every send in flight in the step that publishes it.     *)
LEMMA NextStopExcludesSend == IInv /\ [Next]_vars => StopExcludesSend'
<1> SUFFICES ASSUME IInv, [Next]_vars PROVE StopExcludesSend'
  OBVIOUS
<1> USE DEF IInv, TypeOK, StopExcludesSend, SendCancelled
<1>1. ASSUME NEW s \in Senders, SendBegin(s) PROVE StopExcludesSend'
  BY <1>1 DEF SendBegin, stopVars
<1>2. ASSUME NEW s \in Senders, SendRoute(s) \/ SendAborts(s) \/ SendStartTurn(s) \/ SendClaim(s)
      PROVE  StopExcludesSend'
  BY <1>2 DEF SendRoute, SendAborts, SendStartTurn, SendClaim, stopVars
<1>3. ASSUME NEW t \in Turns, SpawnTask(t) \/ ExitTask(t) \/ ProcessExit(t)
      PROVE  StopExcludesSend'
  BY <1>3, TurnFrame
<1>4. CASE StopBegin
  <2>1. \A s \in Senders : sendGen'[s] # generation'
    BY <1>4 DEF StopBegin, sendVars, GenerationsGrow
  <2> QED
    BY <2>1
<1>5. CASE StopTask
  BY <1>5, StopFrame
<1>6. CASE UNCHANGED vars
  BY <1>6 DEF vars, stopVars, sendVars
<1> QED
  BY <1>1, <1>2, <1>3, <1>4, <1>5, <1>6 DEF Next, SendStep

(* Only the holder of the checkout inserts an entry where there is none.   *)
LEMMA NextRelaunchNeverClobbers == IInv /\ [Next]_vars => RelaunchNeverClobbers'
<1> SUFFICES ASSUME IInv, [Next]_vars PROVE RelaunchNeverClobbers'
  OBVIOUS
<1> USE DEF IInv, TypeOK, RelaunchNeverClobbers
<1>1. ASSUME NEW s \in Senders, SendBegin(s) \/ SendRoute(s) \/ SendAborts(s) \/ SendStartTurn(s)
      PROVE  RelaunchNeverClobbers'
  BY <1>1 DEF SendBegin, SendRoute, SendAborts, SendStartTurn
<1>2. ASSUME NEW s \in Senders, SendClaim(s) PROVE RelaunchNeverClobbers'
  BY <1>2 DEF SendClaim, OneCheckoutHolder
<1>3. ASSUME NEW t \in Turns, SpawnTask(t) \/ ExitTask(t) \/ ProcessExit(t)
      PROVE  RelaunchNeverClobbers'
  BY <1>3, TurnFrame
<1>4. CASE StopBegin \/ StopTask
  BY <1>4, StopFrame DEF StopBegin, sendVars
<1>5. CASE UNCHANGED vars
  BY <1>5 DEF vars, sendVars
<1> QED
  BY <1>1, <1>2, <1>3, <1>4, <1>5 DEF Next, SendStep

(* A turn cannot start while a Stop is winding up: its send would be       *)
(* current, and no current send meets a job.                               *)
LEMMA NextStopSettlesTurn == IInv /\ [Next]_vars => StopSettlesTurn'
<1> SUFFICES ASSUME IInv, [Next]_vars PROVE StopSettlesTurn'
  OBVIOUS
<1> USE DEF IInv, TypeOK, StopSettlesTurn
<1>1. ASSUME NEW s \in Senders, SendBegin(s) \/ SendRoute(s) \/ SendAborts(s) \/ SendClaim(s)
      PROVE  StopSettlesTurn'
  BY <1>1 DEF SendBegin, SendRoute, SendAborts, SendClaim, stopVars
<1>2. ASSUME NEW s \in Senders, SendStartTurn(s) PROVE StopSettlesTurn'
  BY <1>2 DEF SendStartTurn, StopExcludesSend, stopVars
<1>3. ASSUME NEW t \in Turns, SpawnTask(t) \/ ExitTask(t) \/ ProcessExit(t)
      PROVE  StopSettlesTurn'
  BY <1>3, TurnFrame
<1>4. CASE StopBegin
  BY <1>4 DEF StopBegin
<1>5. CASE StopTask
  BY <1>5, StopFrame
<1>6. CASE UNCHANGED vars
  BY <1>6 DEF vars, stopVars
<1> QED
  BY <1>1, <1>2, <1>3, <1>4, <1>5, <1>6 DEF Next, SendStep

-----------------------------------------------------------------------------
(* Processes                                                               *)

(* Turns are numbered as they start, and spawned only once claimed. *)
LEMMA NextFreshTurns == IInv /\ [Next]_vars => FreshTurns'
<1> SUFFICES ASSUME IInv, [Next]_vars PROVE FreshTurns'
  OBVIOUS
<1> USE DEF IInv, TypeOK, FreshTurns, Unclaimed, GenerationFree
<1>1. ASSUME NEW s \in Senders, SendBegin(s) \/ SendRoute(s) \/ SendAborts(s)
      PROVE  FreshTurns'
  BY <1>1 DEF SendBegin, SendRoute, SendAborts, turnVars
<1>2. ASSUME NEW s \in Senders, SendStartTurn(s) PROVE FreshTurns'
  BY <1>2 DEF SendStartTurn, Turns
<1>3. ASSUME NEW s \in Senders, SendClaim(s) PROVE FreshTurns'
  <2>1. GenerationFree'
    BY <1>3 DEF SendClaim, OneCheckoutHolder
  <2>2. ASSUME NEW t \in Turns, t > lastTurn PROVE spawn'[t] = "unused" /\ process'[t] = "none"
    <3>1. spawn[t] = "unused" /\ process[t] = "none" /\ t # lastTurn
      BY <2>2 DEF Turns
    <3>2. spawn'[t] = spawn[t]
      BY <1>3, <3>1 DEF SendClaim
    <3>3. process' = process \/ process' = Dropped(handle)
      BY <1>3 DEF SendClaim
    <3> QED
      BY <3>1, <3>2, <3>3, DroppedProcess
  <2> QED
    BY <1>3, <2>1, <2>2 DEF SendClaim, Turns
<1>4. ASSUME NEW t \in Turns, SpawnTask(t) \/ ExitTask(t) \/ ProcessExit(t)
      PROVE  FreshTurns'
  <2>1. ~Unclaimed(t) \/ UNCHANGED spawn
    BY <1>4 DEF SpawnTask, SpawnLaunch, ProcessStart, SpawnError, SpawnRecordFailure, SpawnSwap,
       SpawnDispose, ExitTask, ExitAdmit, ExitCheck, ExitCommit, ExitRemoveHandle,
       ExitDeleteFlush, ProcessExit, turnVars
  <2>2. \A u \in Turns : u # t => spawn'[u] = spawn[u]
    BY <1>4 DEF SpawnTask, SpawnLaunch, ProcessStart, SpawnError, SpawnRecordFailure, SpawnSwap,
       SpawnDispose, ExitTask, ExitAdmit, ExitCheck, ExitCommit, ExitRemoveHandle,
       ExitDeleteFlush, ProcessExit, turnVars
  <2>3. \A u \in Turns : Unclaimed(u) => process'[u] = "none"
    <3>1. CASE SpawnTask(t)
      BY <3>1, DroppedProcess DEF SpawnTask, SpawnLaunch, ProcessStart, SpawnError,
         SpawnRecordFailure, SpawnSwap, SpawnDispose
    <3>2. CASE ExitTask(t)
      BY <3>2, DroppedProcess DEF ExitTask, ExitAdmit, ExitCheck, ExitCommit, ExitRemoveHandle,
         ExitDeleteFlush, turnVars
    <3>3. CASE ProcessExit(t)
      BY <3>3 DEF ProcessExit
    <3> QED
      BY <1>4, <3>1, <3>2, <3>3
  <2> QED
    BY <1>4, <2>1, <2>2, <2>3, TurnFrame
<1>5. CASE StopBegin
  BY <1>5 DEF StopBegin, turnVars, sendVars
<1>6. CASE StopTask
  <2>1. \A u \in Turns : process[u] = "none" => process'[u] = "none"
    BY <1>6, DroppedProcess DEF StopTask, StopClaim, StopDispose, StopPersist, StopUnmark,
       StopRetire, turnVars
  <2> QED
    BY <1>6, <2>1, StopFrame
<1>7. CASE UNCHANGED vars
  BY <1>7 DEF vars, turnVars, sendVars
<1> QED
  BY <1>1, <1>2, <1>3, <1>4, <1>5, <1>6, <1>7 DEF Next, SendStep

(* An entry leaves the map into the job or is dropped, which ends its      *)
(* process; a spawn task that cannot register its process disposes of it.  *)
LEMMA NextNoOrphanProcess == IInv /\ [Next]_vars => NoOrphanProcess'
<1> SUFFICES ASSUME IInv, [Next]_vars, NEW u \in Turns, process'[u] = "alive"
             PROVE  (\/ spawn[u] \in {"launching", "disposing"}
                     \/ handle = Resolved(u)
                     \/ job = "disposing" /\ jobEntry = Resolved(u))'
  BY DEF NoOrphanProcess
<1> DEFINE Reachable == \/ spawn[u] \in {"launching", "disposing"}
                        \/ handle = Resolved(u)
                        \/ job = "disposing" /\ jobEntry = Resolved(u)
<1> SUFFICES Reachable'
  OBVIOUS
<1>a. process[u] = "alive" => Reachable
  BY DEF IInv, NoOrphanProcess
<1>b. /\ spawn \in [Turns -> SpawnPhases] /\ process \in [Turns -> ProcessStates]
      /\ lastTurn \in 0..MaxTurns /\ handle \in Entries
  BY DEF IInv, TypeOK
<1>1. ASSUME NEW s \in Senders, SendBegin(s) \/ SendRoute(s) \/ SendAborts(s) \/ SendStartTurn(s)
      PROVE  Reachable'
  BY <1>1, <1>a DEF SendBegin, SendRoute, SendAborts, SendStartTurn, turnVars, stopVars
<1>2. ASSUME NEW s \in Senders, SendClaim(s) PROVE Reachable'
  <2>1. (process[u] = "alive" /\ handle # Resolved(u)) \/ UNCHANGED <<handle, spawn, process>>
    BY <1>2, <1>b, DroppedProcess DEF SendClaim
  <2>2. process[lastTurn] = "none" \/ lastTurn \notin Turns
    BY <1>2, <1>b DEF IInv, FreshTurns, Unclaimed, GenerationFree, SendClaim
  <2> QED
    BY <1>2, <1>a, <1>b, <2>1, <2>2 DEF SendClaim, stopVars
<1>3. ASSUME NEW t \in Turns, SpawnTask(t) PROVE Reachable'
  <2>1. CASE SpawnLaunch(t) \/ ProcessStart(t) \/ SpawnRecordFailure(t)
    BY <1>a, <1>b, <2>1 DEF SpawnLaunch, ProcessStart, SpawnRecordFailure, stopVars
  <2>2. CASE SpawnError(t)
    BY <1>a, <1>b, <2>2, DroppedProcess DEF SpawnError, stopVars
  <2>3. CASE SpawnSwap(t)
    BY <1>a, <1>b, <2>3, DroppedProcess DEF SpawnSwap, stopVars
  <2>4. CASE SpawnDispose(t)
    BY <1>a, <1>b, <2>4, DroppedProcess DEF SpawnDispose, stopVars
  <2> QED
    BY <1>3, <2>1, <2>2, <2>3, <2>4 DEF SpawnTask
<1>4. ASSUME NEW t \in Turns, ExitTask(t) \/ ProcessExit(t) PROVE Reachable'
  <2>1. CASE ExitRemoveHandle(t)
    BY <1>a, <1>b, <2>1, DroppedProcess DEF ExitRemoveHandle, stopVars
  <2>2. CASE ProcessExit(t)
    BY <1>a, <1>b, <2>2 DEF ProcessExit, stopVars
  <2>3. CASE ExitAdmit(t) \/ ExitCheck(t) \/ ExitCommit(t) \/ ExitDeleteFlush(t)
    BY <1>a, <2>3 DEF ExitAdmit, ExitCheck, ExitCommit, ExitDeleteFlush, turnVars, stopVars
  <2> QED
    BY <1>4, <2>1, <2>2, <2>3 DEF ExitTask
<1>5. CASE StopBegin
  BY <1>5, <1>a DEF StopBegin, turnVars
<1>6. CASE StopTask
  <2>1. CASE StopDispose
    BY <1>a, <1>b, <2>1, DroppedProcess DEF StopDispose
  <2>2. CASE StopClaim \/ StopPersist \/ StopUnmark \/ StopRetire
    BY <1>a, <2>2 DEF StopClaim, StopPersist, StopUnmark, StopRetire, turnVars
  <2> QED
    BY <1>6, <2>1, <2>2 DEF StopTask
<1>7. CASE UNCHANGED vars
  BY <1>7, <1>a DEF vars, turnVars, stopVars
<1> QED
  BY <1>1, <1>2, <1>3, <1>4, <1>5, <1>6, <1>7 DEF Next, SendStep

-----------------------------------------------------------------------------
(* The theorems                                                            *)

(* IInv holds initially. *)
LEMMA InitIInv == Init => IInv
<1> SUFFICES ASSUME Init PROVE IInv
  OBVIOUS
<1>1. TypeOK
  BY InitTypeOK
<1>2. GenerationsGrow /\ OneCheckoutHolder /\ FreshTurns
  BY DEF Init, GenerationsGrow, OneCheckoutHolder, FreshTurns
<1>3. StopExcludesSend /\ RelaunchNeverClobbers /\ StopSettlesTurn /\ NoOrphanProcess
  BY DEF Init, StopExcludesSend, RelaunchNeverClobbers, StopSettlesTurn, NoOrphanProcess
<1> QED
  BY <1>1, <1>2, <1>3 DEF IInv

(* Every reachable state satisfies the inductive invariant: a step of any  *)
(* of the sends, spawns, exits and Stops keeps it.                         *)
THEOREM Inductive == Spec => []IInv
<1>1. IInv /\ [Next]_vars => IInv'
  <2> SUFFICES ASSUME IInv, [Next]_vars PROVE IInv'
    OBVIOUS
  <2>1. TypeOK'
    BY NextTypeOK DEF IInv
  <2> QED
    BY <2>1, NextGenerations, NextCheckout, NextFreshTurns, NextStopExcludesSend,
       NextRelaunchNeverClobbers, NextStopSettlesTurn, NextNoOrphanProcess DEF IInv
<1> QED
  BY InitIInv, <1>1, PTL DEF Spec

(* A send whose generation is current never meets a Stop, so a turn is     *)
(* never written and then refused by send_input_scoped's second check.     *)
THEOREM StopsExcludeSends == Spec => []StopExcludesSend
<1>1. IInv => StopExcludesSend
  BY DEF IInv
<1> QED
  BY Inductive, <1>1, PTL

(* A relaunching send never replaces the handle entry of another turn. *)
THEOREM RelaunchesNeverClobber == Spec => []RelaunchNeverClobbers
<1>1. IInv => RelaunchNeverClobbers
  BY DEF IInv
<1> QED
  BY Inductive, <1>1, PTL

(* When finish_termination wakes its waiters the session is not running. *)
THEOREM StopsSettleTurns == Spec => []StopSettlesTurn
<1>1. IInv => StopSettlesTurn
  BY DEF IInv
<1> QED
  BY Inductive, <1>1, PTL

(* Every live provider process has an owner that will end it or its turn. *)
THEOREM NoOrphans == Spec => []NoOrphanProcess
<1>1. IInv => NoOrphanProcess
  BY DEF IInv
<1> QED
  BY Inductive, <1>1, PTL
=============================================================================
