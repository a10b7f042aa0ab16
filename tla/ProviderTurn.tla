---------------------------- MODULE ProviderTurn ----------------------------
(***************************************************************************)
(* The life of one session's provider turns in                             *)
(* src/src-tauri/src/providers/session_service.rs: sends that relaunch an  *)
(* idle session, the background spawn of the provider process, the exit    *)
(* event of that process, and Stop with its owned termination job.         *)
(*                                                                         *)
(* Every step is one critical section of the code: what happens between    *)
(* two lock acquisitions or two awaits of the same task may interleave     *)
(* with every other task.  The maps of the service are keyed by session,   *)
(* so one session is enough.  A turn stands for one provider invocation id *)
(* and the turns of a session are numbered in the order they start.        *)
(***************************************************************************)
EXTENDS Naturals, FiniteSets

CONSTANTS Senders,    \* callers that may be inside send_input at a time
          MaxTurns,   \* bound on the turns a behaviour starts
          MaxStops    \* bound on the Stops a behaviour contains

ASSUME BoundsAssumption == MaxTurns \in Nat /\ MaxStops \in Nat

VARIABLES
  handle,       \* handles[session]: no entry, Pending, or Resolved(turn)
  invocation,   \* flush_queue's current provider_invocation_id (0: none)
  state,        \* sessions.state in SQLite
  lastTurn,     \* number of turns started so far
  spawn,        \* per turn: progress of spawn_provider_in_background
  process,      \* per turn: the provider process
  exitPc,       \* per turn: progress of handle_lifecycle_event
  exitOk,       \* per turn: whether the process exited with code 0
  generation,   \* send_generations[session]
  terminating,  \* the session is in the `terminating` set
  job,          \* termination_jobs[session] and finish_termination's progress
  jobEntry,     \* the handle entry start_termination took out of the map
  sendPc,       \* per sender: progress of send_input_scoped
  sendGen       \* per sender: the generation it captured

turnVars == <<lastTurn, spawn, process>>
exitVars == <<exitPc, exitOk>>
stopVars == <<generation, terminating, job, jobEntry>>
sendVars == <<sendPc, sendGen>>
vars == <<handle, invocation, state, turnVars, exitVars, stopVars, sendVars>>

Turns == 1..MaxTurns

NoEntry     == [kind |-> "none",     turn |-> 0]
Pending     == [kind |-> "pending",  turn |-> 0]
Resolved(t) == [kind |-> "resolved", turn |-> t]

Entries == {NoEntry, Pending} \cup {Resolved(t) : t \in Turns}

SpawnPhases   == {"unused", "capturing", "launching", "failing", "disposing", "done"}
ProcessStates == {"none", "alive", "exited", "gone"}
ExitPhases    == {"none", "emitted", "current", "running", "cancelled", "removed",
                   "committed", "closing", "done"}
JobPhases     == {"none", "starting", "disposing", "persisting", "unmarking", "retiring"}
SendPhases    == {"idle", "routed", "relaunch", "started"}
SessionStates == {"running", "complete", "failed", "cancelled"}

-----------------------------------------------------------------------------
(* Dropping the last reference to a handle kills its process, and the      *)
(* disposed flag keeps the exit event of that process from being emitted.  *)
Dropped(entry) ==
  [t \in Turns |-> IF entry = Resolved(t) /\ process[t] = "alive"
                     THEN "gone" ELSE process[t]]

TypeOK ==
  /\ handle \in Entries
  /\ invocation \in 0..MaxTurns
  /\ state \in SessionStates
  /\ lastTurn \in 0..MaxTurns
  /\ spawn \in [Turns -> SpawnPhases]
  /\ process \in [Turns -> ProcessStates]
  /\ exitPc \in [Turns -> ExitPhases]
  /\ exitOk \in [Turns -> BOOLEAN]
  /\ generation \in Nat
  /\ terminating \in BOOLEAN
  /\ job \in JobPhases
  /\ jobEntry \in Entries
  /\ sendPc \in [Senders -> SendPhases]
  /\ sendGen \in [Senders -> Nat]

(* A settled session with nothing in flight. *)
Init ==
  /\ handle = NoEntry
  /\ invocation = 0
  /\ state = "complete"
  /\ lastTurn = 0
  /\ spawn = [t \in Turns |-> "unused"]
  /\ process = [t \in Turns |-> "none"]
  /\ exitPc = [t \in Turns |-> "none"]
  /\ exitOk = [t \in Turns |-> FALSE]
  /\ generation = 0
  /\ terminating = FALSE
  /\ job = "none"
  /\ jobEntry = NoEntry
  /\ sendPc = [s \in Senders |-> "idle"]
  /\ sendGen = [s \in Senders |-> 0]

-----------------------------------------------------------------------------
(* Locks held across steps                                                 *)

(* checkout_write_lock: from the routing decision of a send to its Pending *)
(* entry, across the awaits in between.                                    *)
CheckoutFreeNoLock == TRUE
CheckoutFree == \A s \in Senders : sendPc[s] \notin {"relaunch", "started"}

(* The send_generations mutex: from the first write of a turn to its       *)
(* Pending entry.                                                          *)
GenerationFree == \A s \in Senders : sendPc[s] # "started"

(* The database writer: from the commit of an exit to the end of its       *)
(* teardown.                                                               *)
WriterFree == \A t \in Turns : exitPc[t] \notin {"committed", "closing"}

-----------------------------------------------------------------------------
(* send_input_scoped                                                       *)

(* A send captures the Stop generation and is refused with                 *)
(* PROVIDER_TERMINATING while a Stop is in progress.  A Stop that runs     *)
(* between the two reads leaves the same states as one that runs after.    *)
SendBegin(s) ==
  /\ sendPc[s] = "idle"
  /\ GenerationFree
  /\ job = "none"
  /\ ~terminating
  /\ sendPc' = [sendPc EXCEPT ![s] = "routed"]
  /\ sendGen' = [sendGen EXCEPT ![s] = generation]
  /\ UNCHANGED <<handle, invocation, state, turnVars, exitVars, stopVars>>

SendCancelled(s) == sendGen[s] # generation

(* Under the checkout lock and the generation lock: a cancelled send       *)
(* fails, one that finds any handle entry queues or steers, and one that   *)
(* finds none goes on to relaunch, keeping only the checkout lock.         *)
SendRoute(s) ==
  /\ sendPc[s] = "routed"
  /\ CheckoutFree
  /\ sendPc' = [sendPc EXCEPT ![s] =
                  IF SendCancelled(s) \/ handle # NoEntry THEN "idle" ELSE "relaunch"]
  /\ UNCHANGED <<sendGen, handle, invocation, state, turnVars, exitVars, stopVars>>

(* The generation lock is taken again after routing the turn's model.      *)
SendAborts(s) ==
  /\ sendPc[s] = "relaunch"
  /\ SendCancelled(s)
  /\ sendPc' = [sendPc EXCEPT ![s] = "idle"]
  /\ UNCHANGED <<sendGen, handle, invocation, state, turnVars, exitVars, stopVars>>

(* The user message and the running state are committed.                   *)
SendStartTurnUnchecked(s) ==
  /\ sendPc[s] = "relaunch"
  /\ WriterFree
  /\ lastTurn < MaxTurns
  /\ lastTurn' = lastTurn + 1
  /\ state' = "running"
  /\ sendPc' = [sendPc EXCEPT ![s] = "started"]
  /\ UNCHANGED <<sendGen, handle, invocation, spawn, process, exitVars, stopVars>>

SendStartTurn(s) ==
  /\ sendPc[s] = "relaunch"
  /\ ~SendCancelled(s)
  /\ WriterFree
  /\ lastTurn < MaxTurns
  /\ lastTurn' = lastTurn + 1
  /\ state' = "running"
  /\ sendPc' = [sendPc EXCEPT ![s] = "started"]
  /\ UNCHANGED <<sendGen, handle, invocation, spawn, process, exitVars, stopVars>>

(* The flush queue gets the turn's invocation id and the Pending entry is  *)
(* inserted, or, if a Stop is in progress, the send fails with its turn    *)
(* already written.                                                        *)
SendClaim(s) ==
  /\ sendPc[s] = "started"
  /\ invocation' = lastTurn
  /\ IF terminating \/ job # "none"
       THEN UNCHANGED <<handle, spawn, process>>
       ELSE /\ handle' = Pending
            /\ spawn' = [spawn EXCEPT ![lastTurn] = "capturing"]
            /\ process' = Dropped(handle)
  /\ sendPc' = [sendPc EXCEPT ![s] = "idle"]
  /\ UNCHANGED <<sendGen, state, lastTurn, exitVars, stopVars>>

-----------------------------------------------------------------------------
(* spawn_provider_in_background(turn t)                                    *)

(* The checkpoint has been captured; launch only if the entry is Pending.  *)
SpawnLaunch(t) ==
  /\ spawn[t] = "capturing"
  /\ handle = Pending
  /\ spawn' = [spawn EXCEPT ![t] = "launching"]
  /\ UNCHANGED <<handle, invocation, state, lastTurn, process, exitVars, stopVars, sendVars>>

(* The launcher starts the process; its events may run before launch()     *)
(* has returned to the spawn task.                                         *)
ProcessStart(t) ==
  /\ spawn[t] = "launching"
  /\ process[t] = "none"
  /\ process' = [process EXCEPT ![t] = "alive"]
  /\ UNCHANGED <<handle, invocation, state, lastTurn, spawn, exitVars, stopVars, sendVars>>

(* The capture failed, the entry is no longer Pending, or the launcher     *)
(* rejected the launch: the entry is removed whatever it is, and only a    *)
(* Pending one goes on to record a launch failure.                         *)
SpawnError(t) ==
  /\ \/ spawn[t] = "capturing"
     \/ spawn[t] = "launching" /\ process[t] = "none"
  /\ handle' = NoEntry
  /\ process' = Dropped(handle)
  /\ spawn' = [spawn EXCEPT ![t] = IF handle = Pending THEN "failing" ELSE "done"]
  /\ UNCHANGED <<invocation, state, lastTurn, exitVars, stopVars, sendVars>>

(* record_launch_failure *)
SpawnRecordFailure(t) ==
  /\ spawn[t] = "failing"
  /\ WriterFree
  /\ state' = "failed"
  /\ invocation' = 0
  /\ spawn' = [spawn EXCEPT ![t] = "done"]
  /\ UNCHANGED <<handle, lastTurn, process, exitVars, stopVars, sendVars>>

(* launch() returned: swap the Pending entry for the resolved handle, or,  *)
(* if there is none, take the insertion back and dispose of the process.   *)
SpawnSwapLeaks(t) ==
  /\ spawn[t] = "launching"
  /\ process[t] # "none"
  /\ handle' = IF handle = Pending THEN Resolved(t) ELSE NoEntry
  /\ process' = Dropped(handle)
  /\ spawn' = [spawn EXCEPT ![t] = "done"]
  /\ UNCHANGED <<invocation, state, lastTurn, exitVars, stopVars, sendVars>>

SpawnSwap(t) ==
  /\ spawn[t] = "launching"
  /\ process[t] # "none"
  /\ handle' = IF handle = Pending THEN Resolved(t) ELSE NoEntry
  /\ process' = Dropped(handle)
  /\ spawn' = [spawn EXCEPT ![t] = IF handle = Pending THEN "done" ELSE "disposing"]
  /\ UNCHANGED <<invocation, state, lastTurn, exitVars, stopVars, sendVars>>

(* handle.terminate() of a process that was cancelled during its spawn.    *)
SpawnDispose(t) ==
  /\ spawn[t] = "disposing"
  /\ spawn' = [spawn EXCEPT ![t] = "done"]
  /\ process' = Dropped(Resolved(t))
  /\ UNCHANGED <<handle, invocation, state, lastTurn, exitVars, stopVars, sendVars>>

-----------------------------------------------------------------------------
(* The provider process and handle_lifecycle_event                         *)

(* The wait thread marks the handle disposed and emits the exit event.     *)
ProcessExit(t) ==
  /\ process[t] = "alive"
  /\ process' = [process EXCEPT ![t] = "exited"]
  /\ exitPc' = [exitPc EXCEPT ![t] = "emitted"]
  /\ \E ok \in BOOLEAN : exitOk' = [exitOk EXCEPT ![t] = ok]
  /\ UNCHANGED <<handle, invocation, state, lastTurn, spawn, stopVars, sendVars>>

(* handle_provider_event drops the event of any other invocation.          *)
ExitAdmit(t) ==
  /\ exitPc[t] = "emitted"
  /\ exitPc' = [exitPc EXCEPT ![t] = IF invocation = t THEN "current" ELSE "done"]
  /\ UNCHANGED <<handle, invocation, state, turnVars, exitOk, stopVars, sendVars>>

(* handle_lifecycle_event reads the `terminating` set a first time.        *)
ExitCheck(t) ==
  /\ exitPc[t] = "current"
  /\ exitPc' = [exitPc EXCEPT ![t] = IF terminating THEN "cancelled" ELSE "running"]
  /\ UNCHANGED <<handle, invocation, state, turnVars, exitOk, stopVars, sendVars>>

(* The terminal state is committed with the `terminating` lock held, so    *)
(* the marker is read a second time.  The database writer stays held.      *)
ExitCommitNever(t) ==
  /\ exitPc[t] = "running"
  /\ WriterFree
  /\ exitPc' = [exitPc EXCEPT ![t] = "committed"]
  /\ UNCHANGED <<handle, invocation, state, turnVars, exitOk, stopVars, sendVars>>

ExitCommit(t) ==
  /\ exitPc[t] = "running"
  /\ IF terminating
       THEN /\ exitPc' = [exitPc EXCEPT ![t] = "done"]
            /\ state' = state
       ELSE /\ WriterFree
            /\ exitPc' = [exitPc EXCEPT ![t] = "committed"]
            /\ state' = IF exitOk[t] THEN "complete" ELSE "failed"
  /\ UNCHANGED <<handle, invocation, turnVars, exitOk, stopVars, sendVars>>

(* After the commit, or at once when a Stop owns the outcome, the entry is *)
(* removed whatever it is, and then the flush session.                     *)
ExitRemoveHandle(t) ==
  /\ exitPc[t] \in {"cancelled", "committed"}
  /\ handle' = NoEntry
  /\ process' = Dropped(handle)
  /\ exitPc' = [exitPc EXCEPT ![t] = IF @ = "committed" THEN "closing" ELSE "removed"]
  /\ UNCHANGED <<invocation, state, lastTurn, spawn, exitOk, stopVars, sendVars>>

ExitDeleteFlush(t) ==
  /\ exitPc[t] \in {"removed", "closing"}
  /\ invocation' = 0
  /\ exitPc' = [exitPc EXCEPT ![t] = "done"]
  /\ UNCHANGED <<handle, state, turnVars, exitOk, stopVars, sendVars>>

-----------------------------------------------------------------------------
(* Stop: start_termination and finish_termination                          *)

(* The generation and the marker are published under one lock.  A second   *)
(* Stop finds the first one's job and only advances the generation.        *)
StopBeginKeepsGeneration ==
  /\ generation < MaxStops
  /\ GenerationFree
  /\ job = "none"
  /\ terminating' = TRUE
  /\ job' = "starting"
  /\ UNCHANGED <<generation, jobEntry, handle, invocation, state, turnVars, exitVars, sendVars>>

StopBegin ==
  /\ generation < MaxStops
  /\ GenerationFree
  /\ generation' = generation + 1
  /\ IF job = "none"
       THEN terminating' = TRUE /\ job' = "starting"
       ELSE UNCHANGED <<terminating, job>>
  /\ UNCHANGED <<jobEntry, handle, invocation, state, turnVars, exitVars, sendVars>>

(* The entry moves into the job, which then owns its disposal.             *)
StopClaim ==
  /\ job = "starting"
  /\ job' = "disposing"
  /\ jobEntry' = handle
  /\ handle' = NoEntry
  /\ UNCHANGED <<generation, terminating, invocation, state, turnVars, exitVars, sendVars>>

(* handle.terminate(), bounded by the handle's own timeout *)
StopDispose ==
  /\ job = "disposing"
  /\ job' = "persisting"
  /\ process' = Dropped(jobEntry)
  /\ jobEntry' = NoEntry
  /\ UNCHANGED <<generation, terminating, handle, invocation, state, lastTurn, spawn,
                 exitVars, sendVars>>

(* cancel_session does nothing to a session that is no longer active.      *)
StopPersist ==
  /\ job = "persisting"
  /\ WriterFree
  /\ job' = "unmarking"
  /\ IF state = "running"
       THEN state' = "cancelled" /\ invocation' = 0
       ELSE UNCHANGED <<state, invocation>>
  /\ UNCHANGED <<generation, terminating, jobEntry, handle, turnVars, exitVars, sendVars>>

StopUnmarkForgotten ==
  /\ job = "unmarking"
  /\ job' = "retiring"
  /\ UNCHANGED <<generation, terminating, jobEntry, handle, invocation, state, turnVars,
                 exitVars, sendVars>>

StopUnmark ==
  /\ job = "unmarking"
  /\ job' = "retiring"
  /\ terminating' = FALSE
  /\ UNCHANGED <<generation, jobEntry, handle, invocation, state, turnVars, exitVars, sendVars>>

(* The job leaves the map before its waiters are woken. *)
StopRetire ==
  /\ job = "retiring"
  /\ job' = "none"
  /\ UNCHANGED <<generation, terminating, jobEntry, handle, invocation, state, turnVars,
                 exitVars, sendVars>>

-----------------------------------------------------------------------------
SendStep  == \E s \in Senders : \/ SendBegin(s) \/ SendRoute(s) \/ SendAborts(s)
                                \/ SendStartTurn(s) \/ SendClaim(s)
SpawnTask(t) == \/ SpawnLaunch(t) \/ ProcessStart(t) \/ SpawnError(t)
                \/ SpawnRecordFailure(t) \/ SpawnSwap(t) \/ SpawnDispose(t)
ExitTask(t)  == \/ ExitAdmit(t) \/ ExitCheck(t) \/ ExitCommit(t)
                \/ ExitRemoveHandle(t) \/ ExitDeleteFlush(t)
StopTask     == StopClaim \/ StopDispose \/ StopPersist \/ StopUnmark \/ StopRetire

Next ==
  \/ SendStep
  \/ \E t \in Turns : SpawnTask(t) \/ ExitTask(t) \/ ProcessExit(t)
  \/ StopBegin
  \/ StopTask

Spec == Init /\ [][Next]_vars

(* Spawned tasks, the wait thread's callback and the termination job run   *)
(* to completion on the runtime whatever their callers do, and each await  *)
(* in them is bounded by a timeout.  Nothing is assumed of the user, who   *)
(* need neither send nor stop, nor of a send waiting to be routed.         *)
TaskFairness ==
  /\ WF_vars(StopTask)
  /\ \A t \in Turns : WF_vars(SpawnTask(t)) /\ WF_vars(ExitTask(t))
  /\ \A s \in Senders : WF_vars(SendClaim(s))

FairSpec == Spec /\ TaskFairness

(* A provider's own turn is finite: it exits by itself sooner or later.    *)
ProviderExits == \A t \in Turns : WF_vars(ProcessExit(t))

SettlingSpec == FairSpec /\ ProviderExits

-----------------------------------------------------------------------------
(* Safety                                                                  *)

(* A Stop publishes its marker and the new generation together, so a send  *)
(* whose generation is still current never meets a Stop: the second        *)
(* PROVIDER_TERMINATING check of send_input_scoped, which would leave a    *)
(* running turn without a provider, cannot fire.                           *)
StopExcludesSend ==
  \A s \in Senders :
    sendPc[s] \in {"routed", "relaunch", "started"} /\ ~SendCancelled(s)
      => ~terminating /\ job = "none"

(* The handles map is read before an await and written after it.  The      *)
(* checkout lock keeps a second send from inserting its own entry in       *)
(* between, so a relaunch never replaces the entry of another turn.        *)
RelaunchNeverClobbers ==
  \A s \in Senders : sendPc[s] \in {"relaunch", "started"} => handle = NoEntry

(* When the waiters of a Stop may be woken the session is settled, whoever *)
(* else wrote its state meanwhile and whether or not it had a process.     *)
StopSettlesTurn == job \in {"unmarking", "retiring"} => state # "running"

(* A live process can always be reached: from the handles map, from the    *)
(* Stop that took its entry, or from the spawn task that started it.       *)
NoOrphanProcess ==
  \A t \in Turns : process[t] = "alive" =>
    \/ spawn[t] \in {"launching", "disposing"}
    \/ handle = Resolved(t)
    \/ job = "disposing" /\ jobEntry = Resolved(t)

-----------------------------------------------------------------------------
(* Liveness                                                                *)

(* The `terminating` marker, which makes every send fail, is always        *)
(* cleared: the termination job is owned and no waiter can drop it.        *)
StopCompletes == terminating ~> ~terminating

(* A session does not stay running: its process exits, its launch fails,   *)
(* or a Stop settles it, in any order of the three, as long as neither the *)
(* spawn task nor the exit handler of a turn outlives the start of the     *)
(* next one, whose entry and invocation id they would take away.           *)
TurnsOverlap ==
  \E t \in Turns : t < lastTurn /\ (spawn[t] \notin {"unused", "done"}
                                    \/ exitPc[t] \notin {"none", "done"})
EveryTurnSettles ==
  []~TurnsOverlap => ((state = "running") ~> (state # "running"))

-----------------------------------------------------------------------------
(* What the comments of session_service.rs say of Stop and of the exit     *)
(* window, and the interleavings that break it.                            *)

(* spawn_provider_in_background: "terminate removes that entry, which this *)
(* task treats as cancellation and disposes the child."  The resolved      *)
(* handle is then always the one of the newest turn.                       *)
ServesNewestTurn == handle.kind = "resolved" => handle.turn = lastTurn

(* handle_lifecycle_event: "an exit that passed the first check cannot     *)
(* overwrite Stop."                                                        *)
StopNotOverwrittenByExit ==
  [][\A t \in Turns : ExitCommit(t) /\ state = "cancelled" => state' = state]_vars

(* spawn_provider_in_background: "if terminate already removed the entry,  *)
(* it's cancelled and must not be overwritten with a failure."             *)
StopNotOverwrittenByFailure ==
  [][\A t \in Turns : SpawnRecordFailure(t) /\ state = "cancelled" => state' = state]_vars

(* send_input_scoped must not relaunch in the exit window, where "the      *)
(* teardown then removes that fresh entry and its flush queue, dropping    *)
(* every event of the new turn."                                           *)
TeardownSparesNewTurn ==
  [][\A t \in Turns : ExitRemoveHandle(t) => handle \in {NoEntry, Resolved(t)} \/ t = lastTurn]_vars
=============================================================================
