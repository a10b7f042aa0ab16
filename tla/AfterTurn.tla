----------------------------- MODULE AfterTurn ------------------------------
(***************************************************************************)
(* The disposal an agent schedules for the end of its own turn: archive    *)
(* this workspace, or move this chat (session_control/registry.rs,         *)
(* actions/move_archive.rs, actions/resume.rs, persistence/after_turn.rs). *)
(*                                                                         *)
(* One session.  Its one slot is kept twice, as an entry of the map        *)
(* pending_after_turn and as a row of session_after_turn, so that the next *)
(* launch of the app can keep what this one promised.  The slot is taken   *)
(* by a tool call, signalled when the turn settles, given back by the task *)
(* that ran the disposal or by a Stop that failed, and found on disk by    *)
(* the boot.  Follow-ups of the user are refused while it is taken.        *)
(*                                                                         *)
(* Two mutexes matter and are read off the program counters: the map's,    *)
(* held while its owner waits for the database writer, and the writer's,   *)
(* held by a follow-up being queued while it asks the map.  How an archive *)
(* goes is WorkspaceArchive's subject, how a queued row is delivered       *)
(* FollowUpDelivery's: here the former is one step and a queued row may be *)
(* taken at any time.  SQLite is assumed to write, but for the event a     *)
(* call adds to the timeline.                                              *)
(***************************************************************************)
EXTENDS Naturals

CONSTANTS
  Calls,      \* tool calls of agents: session_move, workspace_archive, pr_cleanup
  Boot,       \* resume_after_turn_actions, once per launch of the app
  FollowUps,  \* what the user sends to the chat
  NoTask,     \* nobody: the slot is free
  MaxStops,   \* bound on the user's Stops
  MaxCrashes  \* bound on crashes of the app

ASSUME ConstantsAssumption ==
  /\ Boot \notin Calls /\ NoTask \notin Calls \cup {Boot}
  /\ {MaxStops, MaxCrashes} \subseteq Nat

Tasks == Calls \cup {Boot}
Kinds == {"archive", "move"}

VARIABLES
  slot,       \* pending_after_turn[session]: whose it is, and whether its sender was taken
  row,        \* session_after_turn: none, or the kind of disposal
  task,       \* per call and for the boot: progress, kind, what its channel told it
  followUp,   \* per follow-up: how far it got
  running,    \* the session has a turn
  token,      \* its agent's processes hold a credential of this launch of the app
  open,       \* the workspace is not archived
  seam,       \* a session.moved event of direction source is in the timeline
  copies,     \* destinations the chat was copied to
  opened,     \* the last of them got the prompt of the move
  settles,    \* ends of turns that have yet to signal the slot
  abort,      \* progress of abort_session_after_turn
  budget,     \* what is left of MaxStops and MaxCrashes
  promise,    \* history: the promise an agent was given that is neither kept nor off
  overtaken   \* history: a slot was released under its owner, or taken before the boot looked

slotVars == <<slot, row>>
turnVars == <<running, token, settles>>
moveVars == <<open, seam, copies, opened>>
stopVars == <<abort, budget>>
histVars == <<promise, overtaken>>
vars == <<slotVars, task, followUp, turnVars, moveVars, stopVars, histVars>>

TaskPcs == {"idle", "inserting", "checking", "recording", "waiting", "due", "copying",
            "closing", "seaming", "finishing", "clearing", "continuing",
            "listing", "judging", "adopting", "done"}
FollowUpStates == {"new", "passed", "queueing", "queued", "claimed", "restored",
                   "sent", "refused", "dropped"}

Free == [by |-> NoTask, signalled |-> FALSE]
NoPromise == [by |-> NoTask, kind |-> "none", from |-> 0]
NewTask == [pc |-> "idle", kind |-> "none", told |-> "nothing", then |-> "done"]

TypeOK ==
  /\ slot \in [by : Tasks \cup {NoTask}, signalled : BOOLEAN]
  /\ row \in Kinds \cup {"none"}
  /\ task \in [Tasks -> [pc : TaskPcs, kind : Kinds \cup {"none"},
                         told : {"nothing", "settled", "dropped"}, then : {"done", "continuing"}]]
  /\ followUp \in [FollowUps -> FollowUpStates]
  /\ {running, token, open, seam, opened, overtaken} \subseteq BOOLEAN
  /\ copies \in Nat /\ settles \in Nat
  /\ abort \in {"none", "looking", "releasing", "clearing"}
  /\ budget \in [{"stops", "crashes"} -> Nat]
  /\ promise \in [by : Tasks \cup {NoTask}, kind : Kinds \cup {"none"}, from : Nat]

(* A chat whose agent is working, or idle. *)
Init ==
  /\ slot = Free /\ row = "none"
  /\ task = [t \in Tasks |-> IF t = Boot THEN [NewTask EXCEPT !.pc = "done"] ELSE NewTask]
  /\ followUp = [f \in FollowUps |-> "new"]
  /\ running \in BOOLEAN /\ token = running /\ settles = 0
  /\ open = TRUE /\ seam = FALSE /\ copies = 0 /\ opened = FALSE
  /\ abort = "none"
  /\ budget = [stops |-> MaxStops, crashes |-> MaxCrashes]
  /\ promise = NoPromise /\ overtaken = FALSE

-----------------------------------------------------------------------------
(* Locks, and the slot's two halves                                        *)

HoldsMap == (\E t \in Tasks : task[t].pc \in {"inserting", "clearing"}) \/ abort = "clearing"
HoldsWriter == \E f \in FollowUps : followUp[f] = "queueing"

Goes(t, pc) == task' = [task EXCEPT ![t].pc = pc]
Spend(kind) == budget[kind] > 0 /\ budget' = [budget EXCEPT ![kind] = @ - 1]
Becomes(f, s) == followUp' = [followUp EXCEPT ![f] = s]

(* occupied_by: the row counts too, before the boot has adopted it. *)
OccupiedInMemory == slot # Free
Occupied == slot # Free \/ row # "none"

(* release_after_turn, with both locks held.  The sender goes with the      *)
(* entry: a task that was not signalled finds its channel closed.           *)
Released == slot' = Free /\ row' = "none"
ChannelClosed(t) == slot.by = t /\ ~slot.signalled
WithClosedChannel(tasks) ==
  [t \in Tasks |-> IF ChannelClosed(t) THEN [tasks[t] EXCEPT !.told = "dropped"] ELSE tasks[t]]

-----------------------------------------------------------------------------
(* A tool call takes the slot                                              *)

(* schedule_after_turn, up to the wait for the writer.  Whoever holds the  *)
(* token may call, a process the agent left behind included.               *)
Schedule(c) ==
  /\ task[c].pc = "idle"
  /\ token /\ open
  /\ ~HoldsMap
  /\ \E kind \in Kinds :
       task' = [task EXCEPT ![c].kind = kind, ![c].pc = IF Occupied THEN "done" ELSE "inserting"]
  /\ UNCHANGED <<slotVars, followUp, turnVars, moveVars, stopVars, histVars>>

(* The row goes in first, then the entry, with the map held throughout. *)
Insert(c) ==
  /\ task[c].pc = "inserting"
  /\ ~HoldsWriter
  /\ row' = task[c].kind
  /\ slot' = [by |-> c, signalled |-> FALSE]
  /\ Goes(c, "checking")
  /\ UNCHANGED <<followUp, turnVars, moveVars, stopVars, histVars>>

(* ensure_after_turn_schedulable: a queued follow-up cancels the promise. *)
CheckQueue(c) ==
  /\ task[c].pc = "checking"
  /\ Goes(c, IF \E f \in FollowUps : followUp[f] \in {"queued", "restored"}
               THEN "finishing" ELSE "recording")
  /\ UNCHANGED <<slotVars, followUp, turnVars, moveVars, stopVars, histVars>>

(* The request is written to the timeline and the agent told that it is    *)
(* scheduled; if SQLite refuses the event, the promise is cancelled.       *)
Promise(c) ==
  /\ task[c].pc = "recording"
  /\ ~HoldsWriter
  /\ \/ Goes(c, "waiting") /\ promise' = [by |-> c, kind |-> task[c].kind, from |-> copies]
     \/ Goes(c, "finishing") /\ UNCHANGED promise
  /\ UNCHANGED <<slotVars, followUp, turnVars, moveVars, stopVars, overtaken>>

(* settled_rx.await in the task the call spawned, or the boot. *)
Told(t) ==
  /\ task[t].pc = "waiting"
  /\ task[t].told # "nothing"
  /\ Goes(t, IF task[t].told = "settled" THEN "due" ELSE "done")
  /\ UNCHANGED <<slotVars, followUp, turnVars, moveVars, stopVars, histVars>>

CallStep(c) == Insert(c) \/ CheckQueue(c) \/ Promise(c)

-----------------------------------------------------------------------------
(* run_after_turn                                                          *)

(* The archive of the session's workspace stops its turn, revokes its      *)
(* token, and either moves the checkout away or keeps the workspace; or    *)
(* the gate refuses it.                                                    *)
Archives ==
  \/ /\ open' \in {FALSE, open}
     /\ running' = FALSE /\ token' = FALSE
     /\ settles' = settles + IF running THEN 1 ELSE 0
  \/ UNCHANGED <<open, turnVars>>

RunArchive(t) ==
  /\ task[t].pc = "due" /\ task[t].kind = "archive"
  /\ Archives
  /\ Goes(t, "finishing")
  /\ UNCHANGED <<slotVars, followUp, seam, copies, opened, stopVars, histVars>>

(* move_session refuses a chat that is still working, and creates the      *)
(* destination's workspace.                                                *)
MoveBegins(t) ==
  /\ task[t].pc = "due" /\ task[t].kind = "move"
  /\ ~HoldsWriter
  /\ Goes(t, IF running THEN "finishing" ELSE "copying")
  /\ UNCHANGED <<slotVars, followUp, turnVars, moveVars, stopVars, histVars>>

(* One transaction copies the session, with its seam, to the destination;  *)
(* or the destination cannot be built.                                     *)
MoveCopies(t) ==
  /\ task[t].pc = "copying"
  /\ ~HoldsWriter
  /\ \/ copies' = copies + 1 /\ opened' = FALSE /\ Goes(t, "closing")
     \/ UNCHANGED <<copies, opened>> /\ Goes(t, "finishing")
  /\ UNCHANGED <<slotVars, followUp, turnVars, open, seam, stopVars, histVars>>

(* Unless the source is to be kept, it is archived if that can be done. *)
MoveArchives(t) ==
  /\ task[t].pc = "closing"
  /\ Archives
  /\ Goes(t, "seaming")
  /\ UNCHANGED <<slotVars, followUp, seam, copies, opened, stopVars, histVars>>

MoveRecords(t) ==
  /\ task[t].pc = "seaming"
  /\ ~HoldsWriter
  /\ seam' = TRUE
  /\ task' = [task EXCEPT ![t].pc = "finishing", ![t].then = "continuing"]
  /\ UNCHANGED <<slotVars, followUp, turnVars, open, copies, opened, stopVars, histVars>>

(* finish_after_turn, and cancel_after_turn of a call: the map first. *)
ReleaseTakesMap(t) ==
  /\ task[t].pc = "finishing"
  /\ ~HoldsMap
  /\ Goes(t, "clearing")
  /\ UNCHANGED <<slotVars, followUp, turnVars, moveVars, stopVars, histVars>>

ReleaseClears(t) ==
  /\ task[t].pc = "clearing"
  /\ ~HoldsWriter
  /\ Released
  /\ task' = WithClosedChannel([task EXCEPT ![t].pc = task[t].then])
  /\ promise' = IF promise.by = t THEN NoPromise ELSE promise
  /\ UNCHANGED <<followUp, turnVars, moveVars, stopVars, overtaken>>

(* continue_moved_session: the prompt starts a turn in the destination, or *)
(* a note there says why not.                                              *)
Continue(t) ==
  /\ task[t].pc = "continuing"
  /\ opened' = TRUE
  /\ Goes(t, "done")
  /\ UNCHANGED <<slotVars, followUp, turnVars, open, seam, copies, stopVars, histVars>>

DisposalStep(t) ==
  \/ Told(t) \/ RunArchive(t) \/ MoveBegins(t) \/ MoveCopies(t) \/ MoveArchives(t)
  \/ MoveRecords(t) \/ ReleaseTakesMap(t) \/ ReleaseClears(t) \/ Continue(t)

-----------------------------------------------------------------------------
(* The turn ends                                                           *)

(* The session is settled first and the slot signalled later, when a new   *)
(* turn may have begun.                                                    *)
TurnExits ==
  /\ running
  /\ running' = FALSE /\ settles' = settles + 1
  /\ UNCHANGED <<slotVars, task, followUp, token, moveVars, stopVars, histVars>>

(* A Stop, of the user or of Send now, which keeps the queue.  The         *)
(* provider may refuse to die.                                             *)
Stop ==
  /\ Spend("stops")
  /\ abort = "none"
  /\ running' = FALSE
  /\ \/ settles' = settles + 1 /\ UNCHANGED abort
     \/ running /\ abort' = "looking" /\ UNCHANGED settles
  /\ \/ UNCHANGED followUp
     \/ followUp' = [f \in FollowUps |-> IF followUp[f] \in {"queued", "restored"} THEN "dropped"
                                         ELSE followUp[f]]
  /\ UNCHANGED <<slotVars, task, token, moveVars, histVars>>

(* signal_turn_settled *)
Settle ==
  /\ settles > 0
  /\ ~HoldsMap
  /\ settles' = settles - 1
  /\ slot' = [slot EXCEPT !.signalled = slot # Free]
  /\ task' = [t \in Tasks |-> IF ChannelClosed(t) THEN [task[t] EXCEPT !.told = "settled"] ELSE task[t]]
  /\ UNCHANGED <<row, followUp, running, token, moveVars, stopVars, histVars>>

(* abort_session_after_turn: look, then cancel_after_turn, then a note. *)
AbortLooks ==
  /\ abort = "looking"
  /\ ~HoldsMap
  /\ abort' = IF slot = Free THEN "none" ELSE "releasing"
  /\ UNCHANGED <<slotVars, task, followUp, turnVars, moveVars, budget, histVars>>

AbortTakesMap ==
  /\ abort = "releasing"
  /\ ~HoldsMap
  /\ abort' = "clearing"
  /\ UNCHANGED <<slotVars, task, followUp, turnVars, moveVars, budget, histVars>>

(* The release does not ask what the slot's owner is at: a call about to   *)
(* promise goes on, and so does a disposal under way.                      *)
AbortClears ==
  /\ abort = "clearing"
  /\ ~HoldsWriter
  /\ Released
  /\ task' = WithClosedChannel(task)
  /\ promise' = IF promise.by = slot.by THEN NoPromise ELSE promise
  /\ overtaken' = (overtaken \/ (slot # Free /\ (slot.signalled \/ task[slot.by].pc # "waiting")))
  /\ abort' = "none"
  /\ UNCHANGED <<followUp, turnVars, moveVars, budget>>

TurnStep == Settle \/ AbortLooks \/ AbortTakesMap \/ AbortClears

-----------------------------------------------------------------------------
(* Follow-ups                                                              *)

(* send_input asks the map once, before it does anything. *)
Submit(f) ==
  /\ followUp[f] = "new"
  /\ ~HoldsMap
  /\ Becomes(f, IF slot # Free \/ ~open THEN "refused" ELSE "passed")
  /\ UNCHANGED <<slotVars, task, turnVars, moveVars, stopVars, histVars>>

(* An idle chat starts a turn; a working one takes the writer to queue it. *)
RouteQueues(f) ==
  /\ followUp[f] = "passed"
  /\ running
  /\ ~HoldsWriter
  /\ Becomes(f, "queueing")
  /\ UNCHANGED <<slotVars, task, turnVars, moveVars, stopVars, histVars>>

RouteStarts(f) ==
  /\ followUp[f] = "passed"
  /\ ~running
  /\ Becomes(f, IF open THEN "sent" ELSE "refused")
  /\ running' = open /\ token' = (token \/ open)
  /\ UNCHANGED <<slotVars, task, settles, moveVars, stopVars, histVars>>

(* enqueue_pending_message asks the map again with the writer held. *)
EnqueueUnasked(f) ==
  /\ followUp[f] = "queueing"
  /\ Becomes(f, "queued")
  /\ UNCHANGED <<slotVars, task, turnVars, moveVars, stopVars, histVars>>

Enqueue(f) ==
  /\ followUp[f] = "queueing"
  /\ ~HoldsMap
  /\ Becomes(f, IF slot # Free THEN "refused" ELSE "queued")
  /\ UNCHANGED <<slotVars, task, turnVars, moveVars, stopVars, histVars>>

(* A drain or a Send now takes the row out of the queue. *)
Claim(f) ==
  /\ followUp[f] \in {"queued", "restored"}
  /\ Becomes(f, "claimed")
  /\ UNCHANGED <<slotVars, task, turnVars, moveVars, stopVars, histVars>>

(* It is sent as any other, and put back when that is refused. *)
SendClaimed(f) ==
  /\ followUp[f] = "claimed"
  /\ ~HoldsMap
  /\ Becomes(f, IF slot # Free \/ ~open THEN "restored" ELSE "passed")
  /\ UNCHANGED <<slotVars, task, turnVars, moveVars, stopVars, histVars>>

FollowUpStep(f) == RouteQueues(f) \/ RouteStarts(f) \/ Enqueue(f) \/ SendClaimed(f)

-----------------------------------------------------------------------------
(* The app dies, and the next launch resumes                               *)

(* The rows survive.  Sessions are settled and follow-ups in flight gone   *)
(* before anything else runs, the queued ones shown for the user to send.  *)
Crash ==
  /\ Spend("crashes")
  /\ slot' = Free
  /\ task' = [t \in Tasks |->
                IF t = Boot THEN [NewTask EXCEPT !.pc = "listing"]
                ELSE IF task[t].pc = "idle" THEN task[t] ELSE [NewTask EXCEPT !.pc = "done"]]
  /\ followUp' = [f \in FollowUps |->
                    CASE followUp[f] \in {"passed", "queueing"} -> "refused"
                      [] followUp[f] \in {"queued", "claimed"} -> "restored"
                      [] OTHER -> followUp[f]]
  /\ running' = FALSE /\ token' = FALSE /\ settles' = 0 /\ abort' = "none"
  /\ promise' = IF promise = NoPromise THEN NoPromise ELSE [promise EXCEPT !.by = Boot]
  /\ UNCHANGED <<row, moveVars, overtaken>>

(* list_after_turn does not know which rows this launch has written. *)
BootLists ==
  /\ task[Boot].pc = "listing"
  /\ task' = [task EXCEPT ![Boot].kind = row,
                          ![Boot].pc = IF row = "none" THEN "done" ELSE "judging"]
  /\ overtaken' = (overtaken \/ slot # Free)
  /\ UNCHANGED <<slotVars, followUp, turnVars, moveVars, stopVars, promise>>

(* judge: what was done already is dropped, the rest waits for the turn    *)
(* there may be, or runs now, without an entry in the map.                 *)
Obsolete == ~open \/ (task[Boot].kind = "move" /\ seam)

BootDrops ==
  /\ task[Boot].pc = "judging" /\ Obsolete
  /\ ~HoldsWriter
  /\ row' = "none"
  /\ promise' = IF promise.by = Boot THEN NoPromise ELSE promise
  /\ Goes(Boot, "done")
  /\ UNCHANGED <<slot, followUp, turnVars, moveVars, stopVars, overtaken>>

BootJudges ==
  /\ task[Boot].pc = "judging" /\ ~Obsolete
  /\ Goes(Boot, IF running THEN "adopting" ELSE "due")
  /\ UNCHANGED <<slotVars, followUp, turnVars, moveVars, stopVars, histVars>>

(* adopt_after_turn *)
BootAdopts ==
  /\ task[Boot].pc = "adopting"
  /\ ~HoldsMap
  /\ IF slot # Free
       THEN Goes(Boot, "done") /\ UNCHANGED slot
       ELSE Goes(Boot, "waiting") /\ slot' = [by |-> Boot, signalled |-> FALSE]
  /\ UNCHANGED <<row, followUp, turnVars, moveVars, stopVars, histVars>>

BootStep == BootLists \/ BootDrops \/ BootJudges \/ BootAdopts

-----------------------------------------------------------------------------
Next ==
  \/ \E c \in Calls : Schedule(c) \/ CallStep(c)
  \/ \E t \in Tasks : DisposalStep(t)
  \/ TurnExits \/ Stop \/ TurnStep
  \/ \E f \in FollowUps : Submit(f) \/ Claim(f) \/ FollowUpStep(f)
  \/ Crash \/ BootStep

Spec == Init /\ [][Next]_vars

-----------------------------------------------------------------------------
(* Properties                                                              *)

(* docs/agent-tools.md: what an agent was told is scheduled, and is neither *)
(* done nor called off, is on disk whenever the app dies, and a task of    *)
(* this launch has it in hand, so that it is not left to the next one.     *)
PromiseHeld ==
  promise # NoPromise /\ ~overtaken
    => row = promise.kind /\ task[promise.by].pc \notin {"idle", "done"}

(* ensure_after_turn_schedulable and the enqueue keep each other out: no   *)
(* promise of this launch stands with a follow-up typed behind it.         *)
NothingQueuedBehind ==
  promise.by \in Calls /\ ~overtaken => \A f \in FollowUps : followUp[f] # "queued"

-----------------------------------------------------------------------------
(* Stated by comments and documentation, and refuted by the code           *)

(* registry.rs: nothing takes a database connection and then reaches for   *)
(* the registry, so that the order map, connection cannot invert.          *)
LocksNeverCross == ~(HoldsMap /\ HoldsWriter)

(* agent-tools.md: while either is pending, follow-ups are refused.        *)
NoTurnWhilePending ==
  [][promise # NoPromise /\ promise' = promise /\ ~running => ~running']_vars

(* agent-tools.md: a move that already happened is not run again.          *)
MovesOnce == [][promise.kind = "move" /\ copies' > copies => copies = promise.from]_vars

(* agent-tools.md: the promise survives a restart unless there is nothing  *)
(* left to do.                                                             *)
DroppedWasDone == [][promise.kind = "move" /\ BootDrops /\ open => copies > promise.from]_vars

(* after_turn.rs: a move that arrived without its prompt would strand the  *)
(* chat in the destination, so it is persisted with the rest.              *)
MovedChatIsOpened ==
  copies > 0 /\ ~opened => row # "none" \/ \E t \in Tasks : task[t].pc \notin {"idle", "done"}
=============================================================================
