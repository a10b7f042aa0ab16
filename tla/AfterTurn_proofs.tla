-------------------------- MODULE AfterTurn_proofs --------------------------
(***************************************************************************)
(* The after-turn slot for any calls, follow-ups and bounds: types, a      *)
(* promise that is on disk and in hand until it is kept or called off, and *)
(* no follow-up queued behind one.                                         *)
(***************************************************************************)
EXTENDS AfterTurn, TLAPS

-----------------------------------------------------------------------------
(* The inductive invariant                                                 *)

(* Steps of a task that has the slot, and of the boot before it may. *)
Owning == {"checking", "recording", "waiting", "due", "copying", "closing", "seaming",
           "finishing", "clearing"}
Early == {"listing", "judging", "adopting"}

Holds(t) == task[t].pc \in Owning /\ task[t].told # "dropped"
MapHeldBy(t) == task[t].pc \in {"inserting", "clearing"}

(* The map's mutex has one holder, which found what it is about to change. *)
OneMapHolder ==
  /\ \A t, u \in Tasks : MapHeldBy(t) /\ MapHeldBy(u) => t = u
  /\ abort = "clearing" => \A t \in Tasks : ~MapHeldBy(t)
InsertingIsFree == \A c \in Calls : task[c].pc = "inserting" => slot = Free /\ row = "none"
AbortSeesRow == abort \in {"releasing", "clearing"} /\ slot = Free => row = "none"

(* A free slot has not been signalled, calls and the boot keep to their    *)
(* own steps, and whatever is in hand has a kind.                          *)
FreeShape == slot.by = NoTask => slot = Free
OwnSteps ==
  /\ \A c \in Calls : task[c].pc \notin Early
  /\ task[Boot].pc \notin {"idle", "inserting", "checking", "recording"}
KindsKnown ==
  \A t \in Tasks : task[t].pc \in Owning \cup {"inserting", "judging", "adopting"} => task[t].kind \in Kinds

Locks == OneMapHolder /\ InsertingIsFree /\ AbortSeesRow /\ FreeShape /\ OwnSteps /\ KindsKnown

(* Entry, row and owner agree; the boot has the row before the entry. *)
CallsHold == \A c \in Calls : Holds(c) => slot.by = c /\ row = task[c].kind
BootHolds ==
  /\ Holds(Boot) => slot.by \in {Boot, NoTask} /\ row = task[Boot].kind
  /\ Holds(Boot) /\ task[Boot].pc = "waiting" => slot.by = Boot
  /\ task[Boot].pc \in {"judging", "adopting"} => slot = Free /\ row = task[Boot].kind
OwnerHolds == slot # Free => Holds(slot.by)
DroppedIsOver == \A t \in Tasks : task[t].told = "dropped" => task[t].pc \in {"waiting", "continuing", "done"}

(* A promise has an owner that holds the slot, or a row the boot will read. *)
PromiseKept ==
  promise # NoPromise =>
    /\ promise.by \in Tasks /\ promise.kind \in Kinds /\ row = promise.kind
    /\ Holds(promise.by) \/ (promise.by = Boot /\ task[Boot].pc \in Early /\ slot = Free)
QueueEmpty ==
  promise.by \in Calls \/ (\E c \in Calls : task[c].pc = "recording") =>
    \A f \in FollowUps : followUp[f] # "queued"

Ownership == CallsHold /\ BootHolds /\ OwnerHolds /\ DroppedIsOver /\ PromiseKept /\ QueueEmpty

IInv == TypeOK /\ Locks /\ (~overtaken => Ownership)

-----------------------------------------------------------------------------
(* Types                                                                   *)

TaskRecs == [pc : TaskPcs, kind : Kinds \cup {"none"},
             told : {"nothing", "settled", "dropped"}, then : {"done", "continuing"}]
Slots == [by : Tasks \cup {NoTask}, signalled : BOOLEAN]
Promises == [by : Tasks \cup {NoTask}, kind : Kinds \cup {"none"}, from : Nat]

LEMMA Sorts ==
  /\ Boot \in Tasks /\ Calls \subseteq Tasks /\ Boot \notin Calls /\ NoTask \notin Tasks
  /\ NewTask \in TaskRecs /\ Free \in Slots /\ NoPromise \in Promises
  /\ \A t \in Tasks : [by |-> t, signalled |-> FALSE] \in Slots
  /\ \A t \in Tasks : t # Boot => t \in Calls
<1>1. NewTask \in TaskRecs
  BY DEF NewTask, TaskRecs, TaskPcs
<1>2. NoPromise \in Promises
  BY DEF NoPromise, Promises
<1> QED
  BY <1>1, <1>2, ConstantsAssumption DEF ConstantsAssumption, Tasks, Free, Slots

(* A step of one task is a step of that task alone. *)
LEMMA GoesEffect ==
  ASSUME task \in [Tasks -> TaskRecs], NEW t \in Tasks, NEW pc \in TaskPcs, Goes(t, pc)
  PROVE  /\ task' \in [Tasks -> TaskRecs]
         /\ task'[t] = [task[t] EXCEPT !.pc = pc]
         /\ \A u \in Tasks \ {t} : task'[u] = task[u]
BY DEF Goes, TaskRecs

(* What a program counter's step leaves alone *)
LEMMA PcOnly ==
  ASSUME NEW r \in TaskRecs, NEW pc \in TaskPcs
  PROVE  LET q == [r EXCEPT !.pc = pc]
         IN  q.pc = pc /\ q.kind = r.kind /\ q.told = r.told /\ q.then = r.then /\ q \in TaskRecs
BY DEF TaskRecs

LEMMA SpendType ==
  ASSUME TypeOK, NEW kind \in {"stops", "crashes"}, Spend(kind)
  PROVE  budget' \in [{"stops", "crashes"} -> Nat]
BY DEF TypeOK, Spend

(* Closing the channel of the slot's owner changes what it is told. *)
LEMMA CloseChannel ==
  ASSUME NEW tasks \in [Tasks -> TaskRecs]
  PROVE  /\ WithClosedChannel(tasks) \in [Tasks -> TaskRecs]
         /\ \A t \in Tasks :
              /\ WithClosedChannel(tasks)[t].pc = tasks[t].pc
              /\ WithClosedChannel(tasks)[t].kind = tasks[t].kind
              /\ WithClosedChannel(tasks)[t].then = tasks[t].then
              /\ WithClosedChannel(tasks)[t].told = IF ChannelClosed(t) THEN "dropped" ELSE tasks[t].told
<1>1. \A t \in Tasks : [tasks[t] EXCEPT !.told = "dropped"] \in TaskRecs
  BY DEF TaskRecs
<1>2. WithClosedChannel(tasks) \in [Tasks -> TaskRecs]
  BY <1>1 DEF WithClosedChannel
<1>3. \A t \in Tasks : WithClosedChannel(tasks)[t] =
        IF ChannelClosed(t) THEN [tasks[t] EXCEPT !.told = "dropped"] ELSE tasks[t]
  BY DEF WithClosedChannel
<1> QED
  BY <1>2, <1>3 DEF TaskRecs

(* The start of a chat is well typed. *)
LEMMA InitTypeOK == Init => TypeOK
<1> SUFFICES ASSUME Init PROVE TypeOK
  OBVIOUS
<1>1. task \in [Tasks -> TaskRecs]
  <2>1. [NewTask EXCEPT !.pc = "done"] \in TaskRecs
    BY Sorts, PcOnly DEF TaskPcs
  <2> QED
    BY <2>1, Sorts DEF Init
<1>2. slot \in Slots /\ promise \in Promises
  BY Sorts DEF Init
<1>3. budget \in [{"stops", "crashes"} -> Nat]
  BY ConstantsAssumption DEF Init, ConstantsAssumption
<1>4. followUp \in [FollowUps -> FollowUpStates]
  BY DEF Init, FollowUpStates
<1> QED
  BY <1>1, <1>2, <1>3, <1>4 DEF Init, TypeOK, TaskRecs, Slots, Promises

(* Types, with the records under their names *)
NamedTypes ==
  /\ slot \in Slots
  /\ row \in Kinds \cup {"none"}
  /\ task \in [Tasks -> TaskRecs]
  /\ followUp \in [FollowUps -> FollowUpStates]
  /\ {running, token, open, seam, opened, overtaken} \subseteq BOOLEAN
  /\ copies \in Nat /\ settles \in Nat
  /\ abort \in {"none", "looking", "releasing", "clearing"}
  /\ budget \in [{"stops", "crashes"} -> Nat]
  /\ promise \in Promises

LEMMA Named == TypeOK <=> NamedTypes
BY DEF TypeOK, NamedTypes, Slots, TaskRecs, Promises

(* A call's steps keep the types. *)
LEMMA CallTypes ==
  ASSUME NamedTypes, NEW c \in Calls, Schedule(c) \/ CallStep(c)
  PROVE  NamedTypes'
<1> USE Sorts DEF NamedTypes, slotVars, turnVars, moveVars, stopVars, histVars
<1>1. CASE Schedule(c)
  <2>1. task' \in [Tasks -> TaskRecs]
    BY <1>1 DEF Schedule, TaskRecs, TaskPcs
  <2> QED
    BY <1>1, <2>1 DEF Schedule
<1>2. CASE Insert(c)
  <2>1. task' \in [Tasks -> TaskRecs] /\ row' \in Kinds \cup {"none"}
    BY <1>2, GoesEffect DEF Insert, TaskPcs, TaskRecs
  <2>2. slot' \in Slots
    BY <1>2 DEF Insert
  <2> QED
    BY <1>2, <2>1, <2>2 DEF Insert
<1>3. CASE CheckQueue(c)
  <2>1. task' \in [Tasks -> TaskRecs]
    BY <1>3, GoesEffect DEF CheckQueue, TaskPcs
  <2> QED
    BY <1>3, <2>1 DEF CheckQueue
<1>4. CASE Promise(c)
  <2>1. task' \in [Tasks -> TaskRecs]
    BY <1>4, GoesEffect DEF Promise, TaskPcs
  <2>2. promise' \in Promises
    BY <1>4 DEF Promise, Promises, TaskRecs
  <2> QED
    BY <1>4, <2>1, <2>2 DEF Promise
<1> QED
  BY <1>1, <1>2, <1>3, <1>4 DEF CallStep

(* So do those of a disposal. *)
LEMMA DisposalTypes ==
  ASSUME NamedTypes, NEW t \in Tasks, DisposalStep(t)
  PROVE  NamedTypes'
<1> USE Sorts DEF NamedTypes, slotVars, turnVars, moveVars, stopVars, histVars
<1>1. Archives => {running', token', open'} \subseteq BOOLEAN /\ settles' \in Nat
  <2>1. {running, token, open} \subseteq BOOLEAN /\ settles \in Nat
    OBVIOUS
  <2>2. Archives => settles' \in Nat
    <3>1. Archives => settles' = settles \/ settles' = settles + 1 \/ settles' = settles + 0
      <4>1. CASE running
        BY <4>1 DEF Archives, turnVars
      <4>2. CASE ~running
        BY <4>2 DEF Archives, turnVars
      <4> QED
        BY <4>1, <4>2
    <3> QED
      BY <2>1, <3>1
  <2>3. Archives => {running', token', open'} \subseteq BOOLEAN
    BY <2>1 DEF Archives
  <2> QED
    BY <2>2, <2>3
<1>2. CASE Told(t)
  <2>1. task' \in [Tasks -> TaskRecs]
    BY <1>2, GoesEffect DEF Told, TaskPcs
  <2> QED
    BY <1>2, <2>1 DEF Told
<1>3. CASE RunArchive(t)
  <2>1. task' \in [Tasks -> TaskRecs]
    BY <1>3, GoesEffect DEF RunArchive, TaskPcs
  <2> QED
    BY <1>1, <1>3, <2>1 DEF RunArchive
<1>4. CASE MoveBegins(t)
  <2>1. task' \in [Tasks -> TaskRecs]
    BY <1>4, GoesEffect DEF MoveBegins, TaskPcs
  <2> QED
    BY <1>4, <2>1 DEF MoveBegins
<1>5. CASE MoveCopies(t)
  <2>1. task' \in [Tasks -> TaskRecs]
    BY <1>5, GoesEffect DEF MoveCopies, TaskPcs
  <2>2. copies' \in Nat
    <3>1. copies' \in {copies, copies + 1}
      BY <1>5 DEF MoveCopies
    <3> QED
      BY <3>1
  <2>3. opened' \in BOOLEAN
    BY <1>5 DEF MoveCopies
  <2> QED
    BY <1>5, <2>1, <2>2, <2>3 DEF MoveCopies
<1>6. CASE MoveArchives(t)
  <2>1. task' \in [Tasks -> TaskRecs]
    BY <1>6, GoesEffect DEF MoveArchives, TaskPcs
  <2> QED
    BY <1>1, <1>6, <2>1 DEF MoveArchives
<1>7. CASE MoveRecords(t)
  <2>1. task' \in [Tasks -> TaskRecs]
    <3>1. [task[t] EXCEPT !.pc = "finishing", !.then = "continuing"] \in TaskRecs
      BY DEF TaskRecs, TaskPcs
    <3> QED
      BY <1>7, <3>1 DEF MoveRecords
  <2> QED
    BY <1>7, <2>1 DEF MoveRecords
<1>8. CASE ReleaseTakesMap(t)
  <2>1. task' \in [Tasks -> TaskRecs]
    BY <1>8, GoesEffect DEF ReleaseTakesMap, TaskPcs
  <2> QED
    BY <1>8, <2>1 DEF ReleaseTakesMap
<1>9. CASE ReleaseClears(t)
  <2>1. task[t].then \in TaskPcs
    BY DEF TaskRecs, TaskPcs
  <2>2. [task EXCEPT ![t].pc = task[t].then] \in [Tasks -> TaskRecs]
    BY <2>1, PcOnly
  <2>3. task' \in [Tasks -> TaskRecs]
    BY <1>9, <2>2, CloseChannel DEF ReleaseClears
  <2> QED
    BY <1>9, <2>3 DEF ReleaseClears, Released
<1>10. CASE Continue(t)
  <2>1. task' \in [Tasks -> TaskRecs]
    BY <1>10, GoesEffect DEF Continue, TaskPcs
  <2> QED
    BY <1>10, <2>1 DEF Continue
<1> QED
  BY <1>2, <1>3, <1>4, <1>5, <1>6, <1>7, <1>8, <1>9, <1>10 DEF DisposalStep

(* The end of a turn and a failed Stop *)
LEMMA TurnTypes ==
  ASSUME NamedTypes, TurnExits \/ Stop \/ TurnStep
  PROVE  NamedTypes'
<1> USE Sorts DEF NamedTypes, slotVars, turnVars, moveVars, stopVars, histVars
<1>1. CASE TurnExits
  <2>1. settles' \in Nat
    <3>1. settles' = settles + 1
      BY <1>1 DEF TurnExits
    <3> QED
      BY <3>1
  <2>2. running' = FALSE /\ UNCHANGED <<slot, row, task, followUp, token, moveVars, stopVars, histVars>>
    BY <1>1 DEF TurnExits
  <2> QED
    BY <2>1, <2>2
<1>2. CASE Stop
  <2>1. budget' \in [{"stops", "crashes"} -> Nat]
    BY <1>2 DEF Stop, Spend
  <2>2. followUp' \in [FollowUps -> FollowUpStates]
    BY <1>2 DEF Stop, FollowUpStates
  <2>3. settles' \in Nat
    <3>1. settles' \in {settles, settles + 1}
      BY <1>2 DEF Stop
    <3> QED
      BY <3>1
  <2>4. running' = FALSE /\ abort' \in {abort, "looking"}
        /\ UNCHANGED <<slot, row, task, token, moveVars, histVars>>
    BY <1>2 DEF Stop
  <2> QED
    BY <2>1, <2>2, <2>3, <2>4
<1>3. CASE Settle
  <2>1. slot' \in Slots
    BY <1>3 DEF Settle, Slots
  <2>2. task' \in [Tasks -> TaskRecs]
    BY <1>3 DEF Settle, TaskRecs
  <2> QED
    BY <1>3, <2>1, <2>2 DEF Settle
<1>4. CASE AbortLooks \/ AbortTakesMap
  BY <1>4 DEF AbortLooks, AbortTakesMap
<1>5. CASE AbortClears
  <2>1. task' \in [Tasks -> TaskRecs]
    BY <1>5, CloseChannel DEF AbortClears
  <2>2. overtaken' \in BOOLEAN
    BY <1>5, Zenon DEF AbortClears
  <2> QED
    BY <1>5, <2>1, <2>2 DEF AbortClears, Released
<1> QED
  BY <1>1, <1>2, <1>3, <1>4, <1>5 DEF TurnStep

(* Follow-ups *)
LEMMA FollowUpTypes ==
  ASSUME NamedTypes, NEW f \in FollowUps, Submit(f) \/ Claim(f) \/ FollowUpStep(f)
  PROVE  NamedTypes'
<1> USE DEF NamedTypes, slotVars, turnVars, moveVars, stopVars, histVars, Becomes, FollowUpStates
<1>1. followUp' \in [FollowUps -> FollowUpStates]
  BY DEF Submit, Claim, FollowUpStep, RouteQueues, RouteStarts, Enqueue, SendClaimed
<1>2. CASE RouteStarts(f)
  <2>1. {running', token'} \subseteq BOOLEAN
    BY <1>2 DEF RouteStarts
  <2> QED
    BY <1>1, <1>2, <2>1 DEF RouteStarts
<1>3. CASE ~RouteStarts(f)
  BY <1>1, <1>3 DEF Submit, Claim, FollowUpStep, RouteQueues, Enqueue, SendClaimed
<1> QED
  BY <1>2, <1>3

(* A crash and what the next launch makes of it *)
LEMMA LifeTypes ==
  ASSUME NamedTypes, Crash \/ BootStep
  PROVE  NamedTypes'
<1> USE Sorts DEF NamedTypes, slotVars, turnVars, moveVars, stopVars, histVars
<1>1. CASE Crash
  <2>1. budget' \in [{"stops", "crashes"} -> Nat]
    BY <1>1 DEF Crash, Spend
  <2>2. followUp' \in [FollowUps -> FollowUpStates]
    BY <1>1 DEF Crash, FollowUpStates
  <2>3. task' \in [Tasks -> TaskRecs]
    <3>1. [NewTask EXCEPT !.pc = "listing"] \in TaskRecs /\ [NewTask EXCEPT !.pc = "done"] \in TaskRecs
      BY PcOnly DEF TaskPcs
    <3> QED
      BY <1>1, <3>1 DEF Crash
  <2>4. promise' \in Promises
    BY <1>1 DEF Crash, Promises
  <2> QED
    BY <1>1, <2>1, <2>2, <2>3, <2>4 DEF Crash
<1>2. CASE BootLists
  <2>1. task' \in [Tasks -> TaskRecs]
    BY <1>2 DEF BootLists, TaskRecs, TaskPcs
  <2>2. overtaken' \in BOOLEAN
    BY <1>2, Zenon DEF BootLists
  <2> QED
    BY <1>2, <2>1, <2>2 DEF BootLists
<1>3. CASE BootDrops
  <2>1. task' \in [Tasks -> TaskRecs]
    BY <1>3, GoesEffect DEF BootDrops, TaskPcs
  <2> QED
    BY <1>3, <2>1 DEF BootDrops
<1>4. CASE BootJudges
  <2>1. task' \in [Tasks -> TaskRecs]
    BY <1>4, GoesEffect DEF BootJudges, TaskPcs
  <2> QED
    BY <1>4, <2>1 DEF BootJudges
<1>5. CASE BootAdopts
  <2>1. task' \in [Tasks -> TaskRecs]
    BY <1>5, GoesEffect DEF BootAdopts, TaskPcs
  <2> QED
    BY <1>5, <2>1 DEF BootAdopts
<1> QED
  BY <1>1, <1>2, <1>3, <1>4, <1>5 DEF BootStep

LEMMA TypesKept == TypeOK /\ Next => TypeOK'
<1>1. ASSUME NamedTypes, Next PROVE NamedTypes'
  BY <1>1, CallTypes, DisposalTypes, TurnTypes, FollowUpTypes, LifeTypes DEF Next
<1>2. TypeOK' <=> NamedTypes'
  BY DEF TypeOK, NamedTypes, Slots, TaskRecs, Promises
<1> QED
  BY <1>1, <1>2, Named

-----------------------------------------------------------------------------
(* What the steps do to the tasks                                          *)

Alone(t) == \A u \in Tasks \ {t} : task'[u] = task[u]
Keeps(t) == task'[t].kind = task[t].kind /\ task'[t].told = task[t].told
SlotStands == UNCHANGED <<slot, row, abort, followUp, promise, overtaken>>

LEMMA GoesShape ==
  ASSUME task \in [Tasks -> TaskRecs], NEW t \in Tasks, NEW pc \in TaskPcs, Goes(t, pc)
  PROVE  Alone(t) /\ Keeps(t) /\ task'[t].pc = pc
<1>1. task'[t] = [task[t] EXCEPT !.pc = pc] /\ Alone(t)
  BY GoesEffect DEF Alone
<1>2. task[t] \in TaskRecs
  OBVIOUS
<1>3. task'[t].pc = pc /\ Keeps(t)
  BY <1>1, <1>2 DEF TaskRecs, Keeps
<1> QED
  BY <1>1, <1>3

(* A disposal goes on with the slot in hand, or is over without it. *)
LEMMA Progress ==
  ASSUME NamedTypes, NEW t \in Tasks,
         \/ Told(t) \/ RunArchive(t) \/ MoveBegins(t) \/ MoveCopies(t) \/ MoveArchives(t)
         \/ MoveRecords(t) \/ ReleaseTakesMap(t) \/ Continue(t)
  PROVE  /\ Alone(t) /\ Keeps(t) /\ SlotStands
         /\ \/ /\ task[t].pc \in Owning /\ (task[t].pc = "waiting" => task[t].told # "dropped")
               /\ task'[t].pc \in {"due", "copying", "closing", "seaming", "finishing", "clearing"}
            \/ /\ task[t].pc = "continuing" \/ (task[t].pc = "waiting" /\ task[t].told = "dropped")
               /\ task'[t].pc = "done"
         /\ task'[t].pc = "clearing" => ~HoldsMap
<1> USE DEF NamedTypes, Alone, Keeps, SlotStands, slotVars, stopVars, histVars, Owning
<1>1. \A pc \in TaskPcs : Goes(t, pc) => Alone(t) /\ Keeps(t) /\ task'[t].pc = pc
  BY GoesShape, Sorts
<1>2. {"due", "done", "copying", "closing", "seaming", "finishing", "clearing"} \subseteq TaskPcs
  BY DEF TaskPcs
<1>3. CASE Told(t)
  <2>1. task[t].told \in {"settled", "dropped"}
    BY <1>3 DEF Told, TaskRecs
  <2> QED
    BY <1>1, <1>2, <1>3, <2>1 DEF Told
<1>4. CASE RunArchive(t)
  BY <1>1, <1>2, <1>4 DEF RunArchive
<1>5. CASE MoveBegins(t)
  BY <1>1, <1>2, <1>5 DEF MoveBegins
<1>6. CASE MoveCopies(t)
  BY <1>1, <1>2, <1>6 DEF MoveCopies
<1>7. CASE MoveArchives(t)
  BY <1>1, <1>2, <1>7 DEF MoveArchives
<1>8. CASE MoveRecords(t)
  <2>1. task'[t] = [task[t] EXCEPT !.pc = "finishing", !.then = "continuing"] /\ Alone(t)
    BY <1>8 DEF MoveRecords
  <2>2. task'[t].pc = "finishing" /\ Keeps(t)
    BY <2>1 DEF TaskRecs
  <2> QED
    BY <1>8, <2>1, <2>2 DEF MoveRecords
<1>9. CASE ReleaseTakesMap(t)
  BY <1>1, <1>2, <1>9 DEF ReleaseTakesMap
<1>10. CASE Continue(t)
  BY <1>1, <1>2, <1>10 DEF Continue
<1> QED
  BY <1>3, <1>4, <1>5, <1>6, <1>7, <1>8, <1>9, <1>10

(* A call asks for the slot, takes it, looks at the queue, promises. *)
LEMMA CallEffects ==
  ASSUME NamedTypes, NEW c \in Calls
  PROVE  /\ Schedule(c) =>
              /\ Alone(c) /\ SlotStands /\ ~HoldsMap /\ task[c].pc = "idle"
              /\ task'[c].told = task[c].told /\ task'[c].kind \in Kinds
              /\ task'[c].pc = IF Occupied THEN "done" ELSE "inserting"
         /\ Insert(c) =>
              /\ Alone(c) /\ Keeps(c) /\ task[c].pc = "inserting" /\ task'[c].pc = "checking"
              /\ slot' = [by |-> c, signalled |-> FALSE] /\ row' = task[c].kind
              /\ UNCHANGED <<abort, followUp, promise, overtaken>>
         /\ CheckQueue(c) =>
              /\ Alone(c) /\ Keeps(c) /\ SlotStands /\ task[c].pc = "checking"
              /\ \/ task'[c].pc = "finishing"
                 \/ task'[c].pc = "recording" /\ \A f \in FollowUps : followUp[f] # "queued"
         /\ Promise(c) =>
              /\ Alone(c) /\ Keeps(c) /\ task[c].pc = "recording"
              /\ UNCHANGED <<slot, row, abort, followUp, overtaken>>
              /\ \/ task'[c].pc = "waiting" /\ promise' = [by |-> c, kind |-> task[c].kind, from |-> copies]
                 \/ task'[c].pc = "finishing" /\ UNCHANGED promise
<1> USE Sorts DEF NamedTypes, Alone, Keeps, SlotStands, slotVars, stopVars, histVars
<1>1. c \in Tasks /\ \A pc \in TaskPcs : Goes(c, pc) => Alone(c) /\ Keeps(c) /\ task'[c].pc = pc
  BY GoesShape, Sorts
<1>2. {"checking", "recording", "waiting", "finishing"} \subseteq TaskPcs
  BY DEF TaskPcs
<1>3. ASSUME Schedule(c)
      PROVE  /\ Alone(c) /\ SlotStands /\ ~HoldsMap /\ task[c].pc = "idle"
             /\ task'[c].told = task[c].told /\ task'[c].kind \in Kinds
             /\ task'[c].pc = IF Occupied THEN "done" ELSE "inserting"
  <2>1. PICK kind \in Kinds :
          task' = [task EXCEPT ![c].kind = kind, ![c].pc = IF Occupied THEN "done" ELSE "inserting"]
    BY <1>3 DEF Schedule
  <2>2. task'[c] = [task[c] EXCEPT !.kind = kind, !.pc = IF Occupied THEN "done" ELSE "inserting"] /\ Alone(c)
    BY <1>1, <2>1
  <2>3. task'[c].told = task[c].told /\ task'[c].kind = kind
        /\ task'[c].pc = IF Occupied THEN "done" ELSE "inserting"
    BY <1>1, <2>2 DEF TaskRecs
  <2> QED
    BY <1>3, <2>2, <2>3 DEF Schedule
<1>4. Insert(c) => /\ Alone(c) /\ Keeps(c) /\ task[c].pc = "inserting" /\ task'[c].pc = "checking"
                   /\ slot' = [by |-> c, signalled |-> FALSE] /\ row' = task[c].kind
                   /\ UNCHANGED <<abort, followUp, promise, overtaken>>
  BY <1>1, <1>2 DEF Insert
<1>5. CheckQueue(c) => /\ Alone(c) /\ Keeps(c) /\ SlotStands /\ task[c].pc = "checking"
                       /\ \/ task'[c].pc = "finishing"
                          \/ task'[c].pc = "recording" /\ \A f \in FollowUps : followUp[f] # "queued"
  BY <1>1, <1>2 DEF CheckQueue
<1>6. Promise(c) => /\ Alone(c) /\ Keeps(c) /\ task[c].pc = "recording"
                    /\ UNCHANGED <<slot, row, abort, followUp, overtaken>>
                    /\ \/ /\ task'[c].pc = "waiting"
                          /\ promise' = [by |-> c, kind |-> task[c].kind, from |-> copies]
                       \/ task'[c].pc = "finishing" /\ UNCHANGED promise
  BY <1>1, <1>2 DEF Promise
<1> QED
  BY <1>3, <1>4, <1>5, <1>6

(* Releasing the slot moves its releaser on and closes the owner's channel. *)
LEMMA ReleaseEffects ==
  ASSUME NamedTypes, NEW t \in Tasks, ReleaseClears(t)
  PROVE  /\ task[t].pc = "clearing" /\ slot' = Free /\ row' = "none"
         /\ task'[t].pc \in {"done", "continuing"}
         /\ \A u \in Tasks : /\ task'[u].kind = task[u].kind
                             /\ task'[u].told = IF ChannelClosed(u) THEN "dropped" ELSE task[u].told
                             /\ u # t => task'[u].pc = task[u].pc
         /\ promise' = IF promise.by = t THEN NoPromise ELSE promise
         /\ UNCHANGED <<abort, followUp, overtaken>>
<1> USE DEF NamedTypes, stopVars
<1>1. task[t].then \in TaskPcs /\ task[t].then \in {"done", "continuing"}
  BY DEF TaskRecs, TaskPcs
<1>2. [task EXCEPT ![t].pc = task[t].then] \in [Tasks -> TaskRecs]
  BY <1>1, PcOnly
<1>3. /\ [task EXCEPT ![t].pc = task[t].then][t].pc = task[t].then
      /\ \A u \in Tasks : /\ [task EXCEPT ![t].pc = task[t].then][u].kind = task[u].kind
                          /\ [task EXCEPT ![t].pc = task[t].then][u].told = task[u].told
                          /\ u # t => [task EXCEPT ![t].pc = task[t].then][u].pc = task[u].pc
  BY <1>1, PcOnly
<1>4. task' = WithClosedChannel([task EXCEPT ![t].pc = task[t].then])
  BY DEF ReleaseClears
<1>5. /\ task'[t].pc = task[t].then
      /\ \A u \in Tasks : /\ task'[u].kind = task[u].kind
                          /\ task'[u].told = IF ChannelClosed(u) THEN "dropped" ELSE task[u].told
                          /\ u # t => task'[u].pc = task[u].pc
  BY <1>2, <1>3, <1>4, CloseChannel
<1> QED
  BY <1>1, <1>5 DEF ReleaseClears, Released

(* A signal and a failed Stop tell the owner, and move no task. *)
LEMMA TellEffects ==
  ASSUME NamedTypes
  PROVE  /\ Settle => \A u \in Tasks :
              /\ task'[u].kind = task[u].kind /\ task'[u].pc = task[u].pc
              /\ task'[u].told = IF ChannelClosed(u) THEN "settled" ELSE task[u].told
         /\ AbortClears => \A u \in Tasks :
              /\ task'[u].kind = task[u].kind /\ task'[u].pc = task[u].pc
              /\ task'[u].told = IF ChannelClosed(u) THEN "dropped" ELSE task[u].told
<1> USE DEF NamedTypes
<1>1. ASSUME Settle, NEW u \in Tasks
      PROVE  /\ task'[u].kind = task[u].kind /\ task'[u].pc = task[u].pc
             /\ task'[u].told = IF ChannelClosed(u) THEN "settled" ELSE task[u].told
  <2>1. task'[u] = IF ChannelClosed(u) THEN [task[u] EXCEPT !.told = "settled"] ELSE task[u]
    BY <1>1 DEF Settle
  <2> QED
    BY <2>1 DEF TaskRecs
<1>2. AbortClears => task' = WithClosedChannel(task)
  BY DEF AbortClears
<1> QED
  BY <1>1, <1>2, CloseChannel

(* The boot's steps *)
LEMMA BootEffects ==
  ASSUME NamedTypes
  PROVE  /\ BootStep => Alone(Boot) /\ task'[Boot].told = task[Boot].told /\ UNCHANGED <<abort, followUp>>
         /\ BootLists =>
              /\ task[Boot].pc = "listing" /\ task'[Boot].kind = row
              /\ task'[Boot].pc = IF row = "none" THEN "done" ELSE "judging"
              /\ overtaken' = (overtaken \/ slot # Free)
              /\ UNCHANGED <<slot, row, promise>>
         /\ BootDrops =>
              /\ task[Boot].pc = "judging" /\ task'[Boot].pc = "done" /\ task'[Boot].kind = task[Boot].kind
              /\ row' = "none" /\ promise' = (IF promise.by = Boot THEN NoPromise ELSE promise)
              /\ UNCHANGED <<slot, overtaken>>
         /\ BootJudges =>
              /\ task[Boot].pc = "judging" /\ task'[Boot].pc \in {"adopting", "due"}
              /\ task'[Boot].kind = task[Boot].kind /\ UNCHANGED <<slot, row, promise, overtaken>>
         /\ BootAdopts =>
              /\ task[Boot].pc = "adopting" /\ task'[Boot].kind = task[Boot].kind
              /\ UNCHANGED <<row, promise, overtaken>>
              /\ \/ slot # Free /\ task'[Boot].pc = "done" /\ UNCHANGED slot
                 \/ slot = Free /\ task'[Boot].pc = "waiting" /\ slot' = [by |-> Boot, signalled |-> FALSE]
<1> USE Sorts DEF NamedTypes, Alone, Keeps, slotVars, stopVars, histVars
<1>1. \A pc \in TaskPcs : Goes(Boot, pc) => Alone(Boot) /\ Keeps(Boot) /\ task'[Boot].pc = pc
  BY GoesShape, Sorts
<1>2. {"done", "judging", "adopting", "due", "waiting"} \subseteq TaskPcs
  BY DEF TaskPcs
<1>3. BootLists => /\ Alone(Boot) /\ task'[Boot].told = task[Boot].told /\ task'[Boot].kind = row
                   /\ task'[Boot].pc = IF row = "none" THEN "done" ELSE "judging"
  <2> SUFFICES ASSUME BootLists
               PROVE  /\ Alone(Boot) /\ task'[Boot].told = task[Boot].told /\ task'[Boot].kind = row
                      /\ task'[Boot].pc = IF row = "none" THEN "done" ELSE "judging"
    OBVIOUS
  <2>1. /\ task'[Boot] = [task[Boot] EXCEPT !.kind = row, !.pc = IF row = "none" THEN "done" ELSE "judging"]
        /\ Alone(Boot)
    BY DEF BootLists
  <2> QED
    BY <2>1 DEF TaskRecs
<1>4. BootLists => /\ task[Boot].pc = "listing" /\ overtaken' = (overtaken \/ slot # Free)
                   /\ UNCHANGED <<slot, row, promise, abort, followUp>>
  BY Zenon DEF BootLists, slotVars, stopVars
<1>5. BootDrops => /\ Alone(Boot) /\ Keeps(Boot) /\ UNCHANGED <<abort, followUp, slot, overtaken>>
                   /\ task[Boot].pc = "judging" /\ task'[Boot].pc = "done" /\ row' = "none"
                   /\ promise' = (IF promise.by = Boot THEN NoPromise ELSE promise)
  BY <1>1, <1>2 DEF BootDrops
<1>6. BootJudges => /\ Alone(Boot) /\ Keeps(Boot) /\ SlotStands
                    /\ task[Boot].pc = "judging" /\ task'[Boot].pc \in {"adopting", "due"}
  BY <1>1, <1>2 DEF BootJudges, SlotStands
<1>7. BootAdopts => /\ Alone(Boot) /\ Keeps(Boot) /\ UNCHANGED <<row, promise, overtaken, abort, followUp>>
                    /\ task[Boot].pc = "adopting"
                    /\ \/ slot # Free /\ task'[Boot].pc = "done" /\ UNCHANGED slot
                       \/ slot = Free /\ task'[Boot].pc = "waiting" /\ slot' = [by |-> Boot, signalled |-> FALSE]
  BY <1>1, <1>2 DEF BootAdopts
<1> QED
  BY <1>3, <1>4, <1>5, <1>6, <1>7 DEF BootStep, SlotStands

(* Steps that move no task and leave the slot alone *)
LEMMA BystanderEffects ==
  ASSUME \/ TurnExits \/ Stop \/ AbortLooks \/ AbortTakesMap
         \/ \E f \in FollowUps : Submit(f) \/ Claim(f) \/ FollowUpStep(f)
  PROVE  UNCHANGED <<slot, row, task, promise, overtaken>>
BY DEF TurnExits, Stop, AbortLooks, AbortTakesMap, Submit, Claim, FollowUpStep, RouteQueues,
   RouteStarts, Enqueue, SendClaimed, slotVars, histVars

-----------------------------------------------------------------------------
(* The locks                                                               *)

LEMMA MapHolders == HoldsMap <=> (\E t \in Tasks : MapHeldBy(t)) \/ abort = "clearing"
BY DEF HoldsMap, MapHeldBy

(* A step of one task that leaves slot, row and the failed Stop alone *)
LEMMA LocksAlone ==
  ASSUME Locks, NEW t \in Tasks, Alone(t), UNCHANGED abort,
         task'[t].pc \in {"inserting", "clearing"} => task[t].pc = task'[t].pc \/ ~HoldsMap,
         task'[t].pc = "inserting" => slot' = Free /\ row' = "none",
         task'[t].pc \in Early => t = Boot,
         t = Boot => task'[t].pc \notin {"idle", "inserting", "checking", "recording"},
         task'[t].pc \in Owning \cup {"inserting", "judging", "adopting"} => task'[t].kind \in Kinds,
         UNCHANGED <<slot, row>>
  PROVE  Locks'
<1> USE Sorts, MapHolders DEF Locks, Alone
<1>1. OneMapHolder'
  BY DEF OneMapHolder, MapHeldBy
<1>2. InsertingIsFree'
  BY DEF InsertingIsFree
<1>3. AbortSeesRow' /\ FreeShape'
  BY DEF AbortSeesRow, FreeShape
<1>4. OwnSteps'
  BY DEF OwnSteps
<1>5. KindsKnown'
  BY DEF KindsKnown
<1> QED
  BY <1>1, <1>2, <1>3, <1>4, <1>5

(* A step that leaves the slot free and the row gone, and moves no task    *)
(* towards the map *)
LEMMA LocksFreed ==
  ASSUME Locks, slot' = Free, row' = "none", abort' \in {abort, "none"},
         \A t \in Tasks : /\ task'[t].kind = task[t].kind
                          /\ task'[t].pc = task[t].pc \/ task'[t].pc \in {"done", "continuing"}
  PROVE  Locks'
<1> USE Sorts DEF Locks
<1>1. OneMapHolder'
  BY DEF OneMapHolder, MapHeldBy
<1>2. InsertingIsFree' /\ AbortSeesRow' /\ FreeShape'
  BY DEF InsertingIsFree, AbortSeesRow, FreeShape
<1>3. OwnSteps'
  BY DEF OwnSteps, Early
<1>4. KindsKnown'
  BY DEF KindsKnown, Owning
<1> QED
  BY <1>1, <1>2, <1>3, <1>4

LEMMA LocksKept ==
  ASSUME NamedTypes, Locks, Next
  PROVE  Locks'
<1> USE Sorts
<1>1. ASSUME NEW c \in Calls, Schedule(c) PROVE Locks'
  <2>1. task'[c].pc = "inserting" => slot' = Free /\ row' = "none"
    BY <1>1, CallEffects DEF SlotStands, Occupied, NamedTypes
  <2> QED
    BY <1>1, <2>1, CallEffects, LocksAlone DEF SlotStands, Early, Owning
<1>2. ASSUME NEW c \in Calls, Insert(c) PROVE Locks'
  <2>0. /\ Alone(c) /\ Keeps(c) /\ task[c].pc = "inserting" /\ task'[c].pc = "checking"
        /\ slot' = [by |-> c, signalled |-> FALSE] /\ row' = task[c].kind /\ UNCHANGED abort
    BY <1>2, CallEffects
  <2> USE DEF Locks, Alone, Keeps
  <2>1. OneMapHolder'
    BY <2>0 DEF OneMapHolder, MapHeldBy
  <2>2. InsertingIsFree'
    BY <2>0 DEF InsertingIsFree, OneMapHolder, MapHeldBy
  <2>3. slot' # Free /\ slot'.by # NoTask
    BY <2>0 DEF Free
  <2>4. AbortSeesRow' /\ FreeShape'
    BY <2>3 DEF AbortSeesRow, FreeShape
  <2>5. OwnSteps' /\ KindsKnown'
    BY <2>0 DEF OwnSteps, Early, KindsKnown, Owning
  <2> QED
    BY <2>1, <2>2, <2>4, <2>5
<1>3. ASSUME NEW c \in Calls, CheckQueue(c) \/ Promise(c) PROVE Locks'
  <2>1. task'[c].kind \in Kinds
    BY <1>3, CallEffects DEF Keeps, Locks, KindsKnown, Owning
  <2> QED
    BY <1>3, <2>1, CallEffects, LocksAlone DEF SlotStands, Early
<1>4. ASSUME NEW t \in Tasks, DisposalStep(t), ~ReleaseClears(t) PROVE Locks'
  <2>1. /\ Alone(t) /\ Keeps(t) /\ SlotStands
        /\ \/ /\ task[t].pc \in Owning
              /\ task'[t].pc \in {"due", "copying", "closing", "seaming", "finishing", "clearing"}
           \/ task'[t].pc = "done"
        /\ task'[t].pc = "clearing" => ~HoldsMap
    BY <1>4, Progress DEF DisposalStep
  <2>2. task'[t].pc \in Owning => task'[t].kind \in Kinds
    BY <2>1 DEF Keeps, Locks, KindsKnown, Owning
  <2> QED
    BY <2>1, <2>2, LocksAlone DEF SlotStands, Early, Owning
<1>5. ASSUME NEW t \in Tasks, ReleaseClears(t) PROVE Locks'
  BY <1>5, ReleaseEffects, LocksFreed
<1>6. CASE AbortClears
  BY <1>6, TellEffects, LocksFreed DEF AbortClears, Released
<1>7. CASE Settle
  <2>1. /\ UNCHANGED <<row, abort>>
        /\ \A u \in Tasks : task'[u].kind = task[u].kind /\ task'[u].pc = task[u].pc
    BY <1>7, TellEffects DEF Settle, stopVars
  <2>2. slot'.by = slot.by /\ (slot' = Free <=> slot = Free)
    BY <1>7 DEF Settle, NamedTypes, Slots, Free, Locks, FreeShape
  <2> QED
    BY <2>1, <2>2 DEF Locks, OneMapHolder, MapHeldBy, InsertingIsFree, AbortSeesRow, FreeShape,
       OwnSteps, KindsKnown
<1>8. CASE UNCHANGED <<slot, row, task>> /\ (abort' \in {abort, "none", "looking"} \/ AbortLooks \/ AbortTakesMap)
  <2>1. InsertingIsFree' /\ FreeShape' /\ OwnSteps' /\ KindsKnown'
    BY <1>8 DEF Locks, InsertingIsFree, FreeShape, OwnSteps, KindsKnown
  <2>2. abort' = "clearing" => abort = "clearing" \/ \A t \in Tasks : ~MapHeldBy(t)
    BY <1>8, MapHolders DEF AbortLooks, AbortTakesMap
  <2>3. OneMapHolder'
    BY <1>8, <2>2 DEF Locks, OneMapHolder, MapHeldBy
  <2>4. AbortSeesRow'
    BY <1>8 DEF Locks, AbortSeesRow, AbortLooks, AbortTakesMap
  <2> QED
    BY <2>1, <2>3, <2>4 DEF Locks
<1>9. CASE Crash
  <2>1. /\ slot' = Free /\ abort' = "none"
        /\ \A t \in Tasks : task'[t].pc = IF t = Boot THEN "listing"
                                          ELSE IF task[t].pc = "idle" THEN "idle" ELSE "done"
    <3>1. \A pc \in TaskPcs : [NewTask EXCEPT !.pc = pc].pc = pc
      BY Sorts, PcOnly
    <3> QED
      BY <1>9, <3>1 DEF Crash, TaskPcs
  <2> QED
    BY <2>1 DEF Locks, OneMapHolder, MapHeldBy, InsertingIsFree, AbortSeesRow, FreeShape,
       OwnSteps, KindsKnown, Early, Owning
<1>10. CASE BootLists \/ BootJudges
  <2>1. Alone(Boot) /\ UNCHANGED <<slot, row, abort>> /\ task'[Boot].pc \in {"done", "judging", "adopting", "due"}
        /\ (task'[Boot].pc # "done" => task'[Boot].kind \in Kinds)
    BY <1>10, BootEffects DEF BootStep, Locks, KindsKnown, NamedTypes
  <2> QED
    BY <2>1, LocksAlone DEF Early, Owning
<1>11. CASE BootDrops
  <2>1. /\ Alone(Boot) /\ UNCHANGED <<slot, abort>> /\ row' = "none" /\ task'[Boot].pc = "done"
    BY <1>11, BootEffects DEF BootStep
  <2> QED
    BY <2>1 DEF Alone, Locks, OneMapHolder, MapHeldBy, InsertingIsFree, AbortSeesRow, FreeShape,
       OwnSteps, KindsKnown, Early, Owning
<1>12. CASE BootAdopts
  <2>1. /\ Alone(Boot) /\ UNCHANGED <<row, abort>> /\ task[Boot].pc = "adopting"
        /\ task'[Boot].kind = task[Boot].kind
        /\ task'[Boot].pc \in {"done", "waiting"} /\ ~HoldsMap
        /\ UNCHANGED slot \/ slot' = [by |-> Boot, signalled |-> FALSE]
    BY <1>12, BootEffects DEF BootStep, BootAdopts
  <2>2. slot' = [by |-> Boot, signalled |-> FALSE] => slot' # Free /\ slot'.by # NoTask
    BY DEF Free
  <2> USE MapHolders DEF Alone, Locks
  <2>3. OneMapHolder'
    BY <2>1 DEF OneMapHolder, MapHeldBy
  <2>4. InsertingIsFree'
    BY <2>1 DEF InsertingIsFree, MapHeldBy
  <2>5. AbortSeesRow' /\ FreeShape'
    BY <2>1, <2>2 DEF AbortSeesRow, FreeShape
  <2>6. OwnSteps' /\ KindsKnown'
    BY <2>1 DEF OwnSteps, KindsKnown, Early, Owning
  <2> QED
    BY <2>3, <2>4, <2>5, <2>6
<1>13. ASSUME \/ TurnExits \/ Stop \/ \E f \in FollowUps : Submit(f) \/ Claim(f) \/ FollowUpStep(f)
       PROVE  abort' \in {abort, "looking"}
  BY <1>13 DEF TurnExits, Stop, Submit, Claim, FollowUpStep, RouteQueues, RouteStarts, Enqueue,
     SendClaimed, stopVars
<1> QED
  BY <1>1, <1>2, <1>3, <1>4, <1>5, <1>6, <1>7, <1>8, <1>9, <1>10, <1>11, <1>12, <1>13, BystanderEffects
     DEF Next, CallStep, TurnStep, BootStep

-----------------------------------------------------------------------------
(* Who owns the slot                                                       *)

QueueGrows == \E f \in FollowUps : followUp[f] # "queued" /\ followUp'[f] = "queued"

(* At most one task holds the slot, and a promise is its own. *)
LEMMA SlotOwner ==
  ASSUME NamedTypes, Locks, OwnerHolds, slot # Free
  PROVE  slot.by \in Tasks /\ Holds(slot.by)
BY DEF NamedTypes, Slots, Locks, FreeShape, OwnerHolds

LEMMA SoleHolder ==
  ASSUME Locks, Ownership, NEW t \in Tasks, Holds(t)
  PROVE  /\ \A u \in Tasks : Holds(u) => u = t
         /\ t \in Calls => slot.by = t /\ slot # Free /\ task[Boot].pc \notin {"judging", "adopting"}
         /\ promise # NoPromise => promise.by = t
<1> USE Sorts DEF Locks, Ownership
<1>1. \A u \in Tasks : Holds(u) => u = t
  BY DEF CallsHold, BootHolds
<1>2. t \in Calls => slot.by = t /\ slot # Free
  BY DEF CallsHold, Free
<1>3. t \in Calls => task[Boot].pc \notin {"judging", "adopting"}
  BY <1>2 DEF BootHolds
<1>4. promise # NoPromise => promise.by = t
  <2>1. CASE t \in Calls
    BY <1>1, <1>2, <2>1 DEF PromiseKept
  <2>2. CASE t = Boot
    BY <1>1, <2>2 DEF PromiseKept
  <2> QED
    BY <2>1, <2>2
<1> QED
  BY <1>1, <1>2, <1>3, <1>4

(* A slot that is free, with no row: nobody holds it, nothing is promised.  *)
LEMMA NobodyHolds ==
  ASSUME Locks, Ownership, slot = Free, row = "none"
  PROVE  /\ \A u \in Tasks : ~Holds(u)
         /\ promise = NoPromise /\ task[Boot].pc \notin {"judging", "adopting"}
<1> USE Sorts DEF Locks, Ownership
<1>1. "none" \notin Kinds
  BY DEF Kinds
<1>2. \A u \in Calls : ~Holds(u)
  BY DEF CallsHold, Free
<1>3. ~Holds(Boot) /\ task[Boot].pc \notin {"judging", "adopting"}
  BY <1>1 DEF BootHolds, KindsKnown, Holds
<1>4. promise = NoPromise
  BY <1>1 DEF PromiseKept
<1> QED
  BY <1>2, <1>3, <1>4

(* A task without the slot that comes no nearer to it *)
LEMMA OwnershipAside ==
  ASSUME NamedTypes, Locks, Ownership, NEW t \in Tasks, Alone(t), UNCHANGED <<slot, row, followUp, promise>>,
         ~Holds(t), task[t].pc \notin Early, task'[t].told = task[t].told,
         task'[t].pc \in {"done", "inserting"},
         task'[t].pc = "inserting" => task[t].pc = "idle"
  PROVE  Ownership'
<1> USE Sorts DEF Ownership, Alone
<1>1. ~Holds(t)' /\ task'[t].pc \notin Early
  BY DEF Holds, Owning, Early
<1>2. \A u \in Tasks : u # t => (Holds(u)' <=> Holds(u))
  BY DEF Holds
<1>3. CallsHold' /\ BootHolds'
  BY <1>1, <1>2 DEF CallsHold, BootHolds, Early
<1>4. OwnerHolds'
  <2>1. slot # Free => slot.by \in Tasks /\ slot.by # t /\ Holds(slot.by)
    BY SlotOwner
  <2> QED
    BY <1>2, <2>1 DEF OwnerHolds, Holds
<1>5. DroppedIsOver'
  BY DEF DroppedIsOver
<1>6. PromiseKept'
  BY <1>1, <1>2 DEF PromiseKept
<1>7. QueueEmpty'
  BY DEF QueueEmpty
<1> QED
  BY <1>3, <1>4, <1>5, <1>6, <1>7

(* The holder goes on with its disposal. *)
LEMMA OwnershipProgress ==
  ASSUME NamedTypes, Locks, Ownership, NEW t \in Tasks, Alone(t), Keeps(t),
         UNCHANGED <<slot, row, followUp, promise>>,
         Holds(t), task'[t].pc \in Owning \ {"checking", "waiting"},
         task'[t].pc = "recording" => \A f \in FollowUps : followUp[f] # "queued"
  PROVE  Ownership'
<1> USE Sorts DEF Ownership, Alone, Keeps
<1>1. \A u \in Tasks : Holds(u)' <=> Holds(u)
  BY DEF Holds
<1>2. CallsHold' /\ DroppedIsOver'
  BY <1>1 DEF CallsHold, DroppedIsOver, Holds
<1>3. BootHolds'
  BY <1>1 DEF BootHolds, Owning
<1>4. OwnerHolds'
  BY <1>1, SlotOwner DEF OwnerHolds
<1>5. PromiseKept'
  BY <1>1, SoleHolder DEF PromiseKept
<1>6. QueueEmpty'
  BY DEF QueueEmpty
<1> QED
  BY <1>2, <1>3, <1>4, <1>5, <1>6

(* A call takes the slot it found free. *)
LEMMA OwnershipInsert ==
  ASSUME NamedTypes, Locks, Ownership, NEW c \in Calls, Insert(c)
  PROVE  Ownership'
<1> USE Sorts DEF Ownership, Alone, Keeps
<1>1. /\ Alone(c) /\ Keeps(c) /\ task[c].pc = "inserting" /\ task'[c].pc = "checking"
      /\ slot' = [by |-> c, signalled |-> FALSE] /\ row' = task[c].kind
      /\ UNCHANGED <<followUp, promise>>
  BY CallEffects
<1>2. slot = Free /\ row = "none"
  BY <1>1 DEF Locks, InsertingIsFree
<1>3. /\ \A u \in Tasks : ~Holds(u)
      /\ promise = NoPromise /\ task[Boot].pc \notin {"judging", "adopting"}
  BY <1>2, NobodyHolds
<1>4. task[c].told # "dropped"
  BY <1>1 DEF DroppedIsOver
<1>5. Holds(c)' /\ \A u \in Tasks : u # c => ~Holds(u)'
  BY <1>1, <1>3, <1>4 DEF Holds, Owning
<1>6. CallsHold' /\ BootHolds' /\ OwnerHolds'
  BY <1>1, <1>3, <1>5 DEF CallsHold, BootHolds, OwnerHolds
<1>7. DroppedIsOver' /\ PromiseKept'
  BY <1>1, <1>3, <1>4 DEF DroppedIsOver, PromiseKept
<1>8. QueueEmpty'
  BY <1>1 DEF QueueEmpty
<1> QED
  BY <1>6, <1>7, <1>8

(* A call promises what its row says. *)
LEMMA OwnershipPromise ==
  ASSUME NamedTypes, Locks, Ownership, NEW c \in Calls, Promise(c)
  PROVE  Ownership'
<1> USE Sorts DEF Ownership
<1>1. Holds(c)
  BY CallEffects DEF DroppedIsOver, Holds, Owning
<1>2. CASE UNCHANGED promise /\ task'[c].pc = "finishing"
  BY <1>1, <1>2, CallEffects, OwnershipProgress DEF Owning
<1>3. CASE task'[c].pc = "waiting" /\ promise' = [by |-> c, kind |-> task[c].kind, from |-> copies]
  <2> USE DEF Alone, Keeps
  <2>1. Alone(c) /\ Keeps(c) /\ UNCHANGED <<slot, row, followUp>> /\ task[c].pc = "recording"
    BY CallEffects
  <2>2. \A u \in Tasks : Holds(u)' <=> Holds(u)
    BY <1>1, <1>3, <2>1 DEF Holds, Owning
  <2>3. CallsHold' /\ BootHolds' /\ DroppedIsOver'
    BY <1>3, <2>1, <2>2 DEF CallsHold, BootHolds, DroppedIsOver
  <2>4. OwnerHolds'
    BY <2>1, <2>2, SlotOwner DEF OwnerHolds
  <2>5. task[c].kind \in Kinds /\ row = task[c].kind
    BY <1>1, <2>1 DEF CallsHold, Locks, KindsKnown, Owning
  <2>6. PromiseKept'
    BY <1>1, <1>3, <2>1, <2>2, <2>5 DEF PromiseKept
  <2>7. QueueEmpty'
    BY <2>1 DEF QueueEmpty
  <2> QED
    BY <2>3, <2>4, <2>6, <2>7
<1> QED
  BY <1>2, <1>3, CallEffects

(* The holder gives the slot back, or a failed Stop takes it from a task    *)
(* that only waits for its turn to end: nobody holds it afterwards.         *)
LEMMA OwnershipFreed ==
  ASSUME NamedTypes, Locks, Ownership, NEW t \in Tasks, Holds(t),
         slot' = Free, row' = "none", UNCHANGED followUp,
         \A u \in Tasks : /\ u # t => task'[u].pc = task[u].pc
                          /\ task'[u].told = IF ChannelClosed(u) THEN "dropped" ELSE task[u].told,
         task'[t].pc \in {"done", "continuing"} \/ (task'[t].pc = "waiting" /\ ChannelClosed(t)),
         t = Boot \/ slot # Free,
         promise' = IF promise.by = t THEN NoPromise ELSE promise
  PROVE  Ownership'
<1> USE Sorts DEF Ownership
<1>1. \A u \in Tasks : Holds(u) => u = t
  BY SoleHolder
<1>2. \A u \in Tasks : ChannelClosed(u) => u = t
  BY <1>1, SlotOwner DEF ChannelClosed, Free
<1>3. \A u \in Tasks : ~Holds(u)'
  BY <1>1, <1>2 DEF Holds, Owning
<1>4. promise' = NoPromise
  BY SoleHolder
<1>5. task'[Boot].pc \notin {"judging", "adopting"}
  BY SoleHolder
<1>6. CallsHold' /\ BootHolds' /\ OwnerHolds' /\ PromiseKept'
  BY <1>3, <1>4, <1>5 DEF CallsHold, BootHolds, OwnerHolds, PromiseKept
<1>7. DroppedIsOver'
  BY <1>2 DEF DroppedIsOver, Holds
<1>8. QueueEmpty'
  BY <1>4 DEF QueueEmpty, NoPromise
<1> QED
  BY <1>6, <1>7, <1>8

LEMMA OwnershipRelease ==
  ASSUME NamedTypes, Locks, Ownership, NEW t \in Tasks, ReleaseClears(t)
  PROVE  Ownership'
<1>1. Holds(t)
  BY ReleaseEffects DEF Ownership, DroppedIsOver, Holds, Owning
<1>2. t = Boot \/ slot # Free
  BY <1>1, SoleHolder, Sorts
<1> QED
  BY <1>1, <1>2, ReleaseEffects, OwnershipFreed

LEMMA OwnershipAborted ==
  ASSUME NamedTypes, Locks, Ownership, AbortClears, ~overtaken'
  PROVE  Ownership'
<1> USE Sorts
<1>1. slot' = Free /\ row' = "none" /\ UNCHANGED followUp
      /\ promise' = (IF promise.by = slot.by THEN NoPromise ELSE promise)
  BY DEF AbortClears, Released
<1>2. CASE slot = Free
  <2>1. row = "none"
    BY <1>2 DEF AbortClears, Locks, AbortSeesRow
  <2>2. \A u \in Tasks : ~ChannelClosed(u)
    BY <1>2 DEF ChannelClosed, Free
  <2>3. \A u \in Tasks : task'[u].pc = task[u].pc /\ task'[u].told = task[u].told
    BY <2>2, TellEffects
  <2>4. /\ \A u \in Tasks : ~Holds(u)'
        /\ promise = NoPromise /\ promise' = NoPromise /\ task'[Boot].pc \notin {"judging", "adopting"}
    BY <1>1, <1>2, <2>1, <2>3, NobodyHolds DEF Holds
  <2>5. CallsHold' /\ BootHolds' /\ OwnerHolds' /\ PromiseKept'
    BY <1>1, <2>4 DEF CallsHold, BootHolds, OwnerHolds, PromiseKept
  <2>6. DroppedIsOver' /\ QueueEmpty'
    BY <1>1, <2>3, <2>4 DEF Ownership, DroppedIsOver, QueueEmpty
  <2> QED
    BY <2>5, <2>6 DEF Ownership
<1>3. CASE slot # Free
  <2>1. slot.by \in Tasks /\ Holds(slot.by)
    BY <1>3, SlotOwner DEF Ownership
  <2>2. ~slot.signalled /\ task[slot.by].pc = "waiting"
    BY <1>3, Zenon DEF AbortClears
  <2>3. ChannelClosed(slot.by)
    BY <2>2 DEF ChannelClosed
  <2> QED
    BY <1>1, <1>3, <2>1, <2>2, <2>3, TellEffects, OwnershipFreed
<1> QED
  BY <1>2, <1>3

(* The turn's end tells the holder, and nobody else. *)
LEMMA OwnershipSettled ==
  ASSUME NamedTypes, Locks, Ownership, Settle
  PROVE  Ownership'
<1> USE Sorts DEF Ownership
<1>1. UNCHANGED <<row, followUp, promise>>
  BY DEF Settle, histVars
<1>2. slot'.by = slot.by /\ (slot' = Free <=> slot = Free)
  BY DEF Settle, NamedTypes, Slots, Free, Locks, FreeShape
<1>3. \A u \in Tasks :
        /\ task'[u].kind = task[u].kind /\ task'[u].pc = task[u].pc
        /\ task'[u].told = IF ChannelClosed(u) THEN "settled" ELSE task[u].told
  BY TellEffects
<1>4. \A u \in Tasks : ChannelClosed(u) => Holds(u)
  BY SlotOwner DEF ChannelClosed, Free
<1>5. \A u \in Tasks : Holds(u)' <=> Holds(u)
  BY <1>3, <1>4 DEF Holds
<1>6. CallsHold' /\ BootHolds' /\ DroppedIsOver'
  BY <1>1, <1>2, <1>3, <1>5 DEF CallsHold, BootHolds, DroppedIsOver
<1>7. OwnerHolds'
  BY <1>2, <1>5, SlotOwner DEF OwnerHolds
<1>8. PromiseKept' /\ QueueEmpty'
  BY <1>1, <1>2, <1>3, <1>5 DEF PromiseKept, QueueEmpty
<1> QED
  BY <1>6, <1>7, <1>8

(* Follow-ups, Stops and locks leave the slot; only a free slot lets a      *)
(* follow-up into the queue.                                                *)
LEMMA OwnershipBystander ==
  ASSUME Locks, Ownership, UNCHANGED <<slot, row, task, promise>>, QueueGrows => slot = Free
  PROVE  Ownership'
<1> USE Sorts DEF Ownership
<1>1. CallsHold' /\ BootHolds' /\ OwnerHolds' /\ DroppedIsOver' /\ PromiseKept'
  BY DEF CallsHold, BootHolds, OwnerHolds, DroppedIsOver, PromiseKept, Holds
<1>2. \A c \in Calls : task[c].pc = "recording" => Holds(c)
  BY DEF DroppedIsOver, Holds, Owning
<1>3. promise.by \in Calls => Holds(promise.by)
  BY DEF PromiseKept, NoPromise
<1>4. QueueEmpty'
  BY <1>2, <1>3, SoleHolder DEF QueueEmpty, QueueGrows
<1> QED
  BY <1>1, <1>4

LEMMA Bystanders ==
  ASSUME NamedTypes,
         \/ TurnExits \/ Stop \/ AbortLooks \/ AbortTakesMap
         \/ \E f \in FollowUps : Submit(f) \/ Claim(f) \/ FollowUpStep(f)
  PROVE  QueueGrows => slot = Free
<1> USE DEF QueueGrows, NamedTypes
<1>1. CASE TurnExits \/ AbortLooks \/ AbortTakesMap
  BY <1>1 DEF TurnExits, AbortLooks, AbortTakesMap
<1>2. CASE Stop
  BY <1>2 DEF Stop
<1>3. ASSUME NEW f \in FollowUps, Submit(f) \/ Claim(f) \/ FollowUpStep(f)
      PROVE  QueueGrows => slot = Free
  BY <1>3 DEF Submit, Claim, FollowUpStep, RouteQueues, RouteStarts, Enqueue, SendClaimed, Becomes
<1> QED
  BY <1>1, <1>2, <1>3

(* A crash leaves the row and its promise to the next launch. *)
LEMMA OwnershipCrash ==
  ASSUME NamedTypes, Ownership, Crash
  PROVE  Ownership'
<1> USE Sorts DEF Ownership, NamedTypes
<1>1. /\ slot' = Free /\ UNCHANGED row
      /\ promise' = IF promise = NoPromise THEN NoPromise ELSE [promise EXCEPT !.by = Boot]
  BY DEF Crash
<1>2. \A pc \in TaskPcs : [NewTask EXCEPT !.pc = pc].pc = pc /\ [NewTask EXCEPT !.pc = pc].told = "nothing"
  BY DEF NewTask
<1>3. \A t \in Tasks : /\ task'[t].pc = IF t = Boot THEN "listing"
                                        ELSE IF task[t].pc = "idle" THEN "idle" ELSE "done"
                       /\ task'[t].told = IF t # Boot /\ task[t].pc = "idle" THEN task[t].told ELSE "nothing"
  BY <1>2 DEF Crash, TaskPcs
<1>4. \A t \in Tasks : ~Holds(t)'
  BY <1>3 DEF Holds, Owning
<1>5. CallsHold' /\ BootHolds' /\ OwnerHolds' /\ DroppedIsOver'
  BY <1>1, <1>3, <1>4 DEF CallsHold, BootHolds, OwnerHolds, DroppedIsOver
<1>6. promise' # NoPromise => promise # NoPromise /\ promise'.by = Boot /\ promise'.kind = promise.kind
  BY <1>1 DEF Promises
<1>7. PromiseKept'
  BY <1>1, <1>3, <1>6 DEF PromiseKept, Early
<1>8. promise'.by \notin Calls
  BY <1>6 DEF NoPromise
<1>9. QueueEmpty'
  BY <1>3, <1>8 DEF QueueEmpty
<1> QED
  BY <1>5, <1>7, <1>9

(* The boot finds a row nobody holds, and keeps it or drops it. *)
LEMMA OwnershipBoot ==
  ASSUME NamedTypes, Locks, Ownership, BootStep, ~overtaken'
  PROVE  Ownership'
<1> USE Sorts DEF Ownership, Alone
<1>0. Alone(Boot) /\ task'[Boot].told = task[Boot].told /\ UNCHANGED followUp
  BY BootEffects
<1>1. slot = Free /\ task[Boot].pc \in Early /\ task[Boot].told # "dropped"
  <2>1. BootLists => slot = Free
    BY BootEffects
  <2>2. task[Boot].pc \in Early
    BY BootEffects DEF BootStep, Early
  <2>3. slot = Free
    BY <2>1, BootEffects DEF BootStep, BootHolds
  <2> QED
    BY <2>2, <2>3 DEF DroppedIsOver, Early
<1>2. \A u \in Tasks : ~Holds(u)
  BY <1>1 DEF CallsHold, Free, Holds, Owning, Early
<1>3. \A c \in Calls : ~Holds(c)' /\ task'[c] = task[c]
  BY <1>0, <1>2 DEF Holds
<1>4. promise # NoPromise => promise.by = Boot /\ promise.kind \in Kinds /\ row = promise.kind
  BY <1>2 DEF PromiseKept
<1>5. DroppedIsOver'
  BY <1>0, <1>1, <1>3 DEF DroppedIsOver
<1>6. QueueEmpty' /\ CallsHold'
  <2>1. promise' = promise \/ promise' = NoPromise
    BY BootEffects DEF BootStep
  <2> QED
    BY <1>0, <1>3, <1>4, <2>1 DEF QueueEmpty, CallsHold, NoPromise
<1>7. CASE BootLists
  <2>1. /\ task'[Boot].kind = row /\ task'[Boot].pc = IF row = "none" THEN "done" ELSE "judging"
        /\ UNCHANGED <<slot, row, promise>>
    BY <1>7, BootEffects
  <2>2. BootHolds' /\ OwnerHolds' /\ PromiseKept'
    BY <1>1, <1>4, <2>1 DEF BootHolds, OwnerHolds, PromiseKept, Holds, Owning, Early, Kinds
  <2> QED
    BY <1>5, <1>6, <2>2
<1>8. CASE BootDrops
  <2>1. task'[Boot].pc = "done" /\ row' = "none" /\ UNCHANGED slot
        /\ promise' = IF promise.by = Boot THEN NoPromise ELSE promise
    BY <1>8, BootEffects
  <2>2. BootHolds' /\ OwnerHolds' /\ PromiseKept'
    BY <1>1, <1>4, <2>1 DEF BootHolds, OwnerHolds, PromiseKept, Holds, Owning
  <2> QED
    BY <1>5, <1>6, <2>2
<1>9. CASE BootJudges
  <2>1. task'[Boot].pc \in {"adopting", "due"} /\ task'[Boot].kind = task[Boot].kind
        /\ UNCHANGED <<slot, row, promise>> /\ row = task[Boot].kind
    BY <1>9, BootEffects DEF BootHolds
  <2>2. BootHolds' /\ OwnerHolds' /\ PromiseKept'
    BY <1>0, <1>1, <1>4, <2>1 DEF BootHolds, OwnerHolds, PromiseKept, Holds, Owning, Early, Free
  <2> QED
    BY <1>5, <1>6, <2>2
<1>10. CASE BootAdopts
  <2>1. task'[Boot].pc = "waiting" /\ task'[Boot].kind = task[Boot].kind
        /\ slot' = [by |-> Boot, signalled |-> FALSE] /\ UNCHANGED <<row, promise>> /\ row = task[Boot].kind
    BY <1>1, <1>10, BootEffects DEF BootHolds
  <2>2. Holds(Boot)'
    BY <1>0, <1>1, <2>1 DEF Holds, Owning
  <2>3. BootHolds' /\ OwnerHolds' /\ PromiseKept'
    BY <1>4, <2>1, <2>2 DEF BootHolds, OwnerHolds, PromiseKept
  <2> QED
    BY <1>5, <1>6, <2>3
<1> QED
  BY <1>7, <1>8, <1>9, <1>10 DEF BootStep

LEMMA OwnershipKept ==
  ASSUME NamedTypes, Locks, ~overtaken => Ownership, Next, ~overtaken'
  PROVE  Ownership'
<1>1. ~overtaken /\ Ownership
  <2>1. ASSUME overtaken PROVE FALSE
    BY <2>1, Zenon, CallEffects, Progress, ReleaseEffects, BootEffects, BystanderEffects
       DEF Next, CallStep, DisposalStep, TurnStep, BootStep, SlotStands, Settle, AbortClears, Crash, histVars
  <2> QED
    BY <2>1
<1> USE <1>1
<1>2. ASSUME NEW c \in Calls, Schedule(c) PROVE Ownership'
  BY <1>2, CallEffects, OwnershipAside, Sorts DEF SlotStands, Holds, Owning, Early
<1>3. ASSUME NEW c \in Calls, CheckQueue(c) PROVE Ownership'
  <2>1. Holds(c)
    BY <1>3, CallEffects, Sorts DEF Ownership, DroppedIsOver, Holds, Owning
  <2> QED
    BY <1>3, <2>1, CallEffects, OwnershipProgress, Sorts DEF SlotStands, Owning
<1>4. ASSUME NEW t \in Tasks, DisposalStep(t), ~ReleaseClears(t) PROVE Ownership'
  <2>1. /\ Alone(t) /\ Keeps(t) /\ SlotStands
        /\ \/ /\ task[t].pc \in Owning /\ (task[t].pc = "waiting" => task[t].told # "dropped")
              /\ task'[t].pc \in {"due", "copying", "closing", "seaming", "finishing", "clearing"}
           \/ /\ task[t].pc = "continuing" \/ (task[t].pc = "waiting" /\ task[t].told = "dropped")
              /\ task'[t].pc = "done"
    BY <1>4, Progress DEF DisposalStep
  <2>2. CASE task'[t].pc = "done"
    BY <2>1, <2>2, OwnershipAside DEF SlotStands, Holds, Owning, Early, Keeps
  <2>3. CASE task'[t].pc # "done"
    <3>1. Holds(t)
      BY <2>1, <2>3 DEF Ownership, DroppedIsOver, Holds, Owning
    <3> QED
      BY <2>1, <2>3, <3>1, OwnershipProgress DEF SlotStands, Owning
  <2> QED
    BY <2>2, <2>3
<1>5. CASE \/ TurnExits \/ Stop \/ AbortLooks \/ AbortTakesMap
           \/ \E f \in FollowUps : Submit(f) \/ Claim(f) \/ FollowUpStep(f)
  BY <1>5, BystanderEffects, Bystanders, OwnershipBystander
<1> QED
  BY <1>2, <1>3, <1>4, <1>5, OwnershipInsert, OwnershipPromise, OwnershipRelease, OwnershipAborted,
     OwnershipSettled, OwnershipCrash, OwnershipBoot DEF Next, CallStep, TurnStep

-----------------------------------------------------------------------------
(* Theorems                                                                *)

LEMMA InitIInv == Init => IInv
<1> SUFFICES ASSUME Init PROVE IInv
  OBVIOUS
<1> USE Sorts DEF Init
<1>1. \A t \in Tasks : task[t].pc \in {"idle", "done"} /\ task[t].told = "nothing"
                       /\ (t = Boot => task[t].pc = "done")
  <2>1. [NewTask EXCEPT !.pc = "done"].pc = "done" /\ [NewTask EXCEPT !.pc = "done"].told = "nothing"
        /\ NewTask.pc = "idle" /\ NewTask.told = "nothing"
    BY DEF NewTask
  <2> QED
    BY <2>1
<1>2. Locks
  BY <1>1 DEF Locks, OneMapHolder, MapHeldBy, InsertingIsFree, AbortSeesRow, FreeShape, OwnSteps,
     KindsKnown, Owning, Early
<1>3. Ownership
  BY <1>1 DEF Ownership, CallsHold, BootHolds, OwnerHolds, DroppedIsOver, PromiseKept, QueueEmpty,
     Holds, Owning, NoPromise
<1> QED
  BY <1>2, <1>3, InitTypeOK DEF IInv

LEMMA Inductive == IInv /\ [Next]_vars => IInv'
<1>1. ASSUME IInv, Next PROVE IInv'
  BY <1>1, TypesKept, LocksKept, OwnershipKept, Named DEF IInv
<1>2. ASSUME IInv, UNCHANGED vars PROVE IInv'
  <2> USE <1>2 DEF IInv, vars, slotVars, turnVars, moveVars, stopVars, histVars
  <2>1. TypeOK'
    BY DEF TypeOK
  <2>2. Locks'
    BY DEF Locks, OneMapHolder, MapHeldBy, InsertingIsFree, AbortSeesRow, FreeShape, OwnSteps, KindsKnown
  <2>3. ~overtaken => Ownership'
    BY DEF Ownership, CallsHold, BootHolds, OwnerHolds, DroppedIsOver, PromiseKept, QueueEmpty, Holds
  <2> QED
    BY <2>1, <2>2, <2>3
<1> QED
  BY <1>1, <1>2

(* Whatever agents, users, exits, Stops and crashes do, a pending slot has  *)
(* one holder, and while no abort overtook its owner, what was promised is  *)
(* held by a task or by the boot (SessionLaunchRegistry, run_after_turn).   *)
THEOREM Invariant == Spec => []IInv
BY InitIInv, Inductive, PTL DEF Spec

(* Slot, row, tasks and follow-ups keep their types. *)
THEOREM TypeCorrect == Spec => []TypeOK
<1>1. IInv => TypeOK
  BY DEF IInv
<1> QED
  BY <1>1, Invariant, PTL

(* What an agent was told is scheduled is on disk and in the hands of a     *)
(* task or of the boot, until it is done or called off (schedule_after_turn,*)
(* finish_after_turn, resume_after_turn_actions).                           *)
THEOREM PromisesAreHeld == Spec => []PromiseHeld
<1>1. IInv => PromiseHeld
  <2> SUFFICES ASSUME IInv, promise # NoPromise, ~overtaken
               PROVE  row = promise.kind /\ task[promise.by].pc \notin {"idle", "done"}
    BY DEF PromiseHeld
  <2> QED
    BY DEF IInv, Ownership, PromiseKept, Holds, Owning, Early
<1> QED
  BY <1>1, Invariant, PTL

(* No promise of this launch stands with a follow-up queued behind it       *)
(* (ensure_after_turn_schedulable, enqueue_pending_message).                *)
THEOREM NothingIsQueuedBehind == Spec => []NothingQueuedBehind
<1>1. IInv => NothingQueuedBehind
  BY DEF IInv, Ownership, QueueEmpty, NothingQueuedBehind
<1> QED
  BY <1>1, Invariant, PTL
=============================================================================
