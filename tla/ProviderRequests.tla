-------------------------- MODULE ProviderRequests --------------------------
(***************************************************************************)
(* What a provider asks in the middle of a turn: the approvals of          *)
(* src/src-tauri/src/approvals/service.rs and the questions of             *)
(* questions/service.rs, against the user's answer, the provider's own     *)
(* cancellation, the exit of the turn, a Stop, the next turn and a crash.  *)
(*                                                                         *)
(* Every call of the two services holds their map and the database's       *)
(* writer throughout, so it is one step.  The callers (the adapters'       *)
(* drivers, handle_lifecycle_event, finish_termination) hold nothing       *)
(* between two calls, and a task that is being polled when it is aborted   *)
(* still runs to its next await.  A decision is recorded first and then    *)
(* sent to the request's task, which has yet to tell the provider.  A      *)
(* provider that takes no more answers counts as one whose driver ends.    *)
(***************************************************************************)
EXTENDS Naturals, FiniteSets

CONSTANTS
  Requests,   \* requests that the provider may make, over all turns
  Questions,  \* those among them that are blocking questions; the rest are approvals
  Adapters,   \* adapters the session's provider may use: "claude", "opencode", "codex", "acp"
  MaxTurns,   \* bound on the turns
  MaxCrashes  \* bound on the crashes of the app

ASSUME QuestionsAssumption == Questions \subseteq Requests
ASSUME AdaptersAssumption  == Adapters \subseteq {"claude", "opencode", "codex", "acp"}
ASSUME BoundsAssumption    == {MaxTurns, MaxCrashes} \subseteq Nat

Turns     == 1..MaxTurns
Approvals == Requests \ Questions
Active    == {"running", "waiting"}

(* What the user may decide: approve or reject, answer or dismiss.          *)
Decisions == {"granted", "denied"}

VARIABLES
  adapter,    \* the adapter of the session's provider
  session,    \* the state of the session's row; "ended": complete, failed or cancelled
  turn,       \* the latest turn; 0: none yet
  handle,     \* the turn whose entry is in `handles'; 0: none
  invocation, \* the invocation whose events the flush queue accepts; 0: none
  driver,     \* per turn: progress of the adapter's driver
  obey,       \* turns whose driver was told to cancel
  task,       \* per request: the turn that made it, progress of the task that serves it,
              \* the decision it was sent
  row,        \* per request: its approval row, or its card in the timeline
  senders,    \* native_requests and pending: requests with a responder
  told,       \* per request: what the provider was told; "none": nothing, or an error
  exit,       \* per turn: progress of its exit event
  stop,       \* progress of a Stop, the turn it took, the requests it found waiting
  up,         \* the app runs and has recovered its sessions
  crashes,    \* crashes so far
  left        \* history: cards open at a crash that found the session ended

cards  == <<row, senders, told>>
turnsV == <<turn, handle, invocation, driver, obey>>
faults == <<up, crashes, left>>
vars   == <<adapter, session, turnsV, task, cards, exit, stop, faults>>

DriverPcs == {"none", "running", "ending", "cleared", "gone"}
TaskPcs   == {"none", "asked", "aborted", "waiting", "answered", "withdrawn", "over"}
TaskStates == [turn : 0..MaxTurns, pc : TaskPcs, heard : Decisions \union {"none"}]
RowStates == {"none", "pending", "cancelled"} \union Decisions
ExitPcs   == {"none", "checked", "stopping", "committed", "removed", "questions", "done"}
StopPcs   == {"idle", "approvals", "questions", "dispose", "waiting",
              "cancel", "approvals2", "questions2"}

NoStop == [pc |-> "idle", entry |-> 0, found |-> {}]

Init ==
  /\ adapter \in Adapters
  /\ session = "idle" /\ turn = 0 /\ handle = 0 /\ invocation = 0
  /\ driver = [t \in Turns |-> "none"] /\ obey = {}
  /\ task = [r \in Requests |-> [turn |-> 0, pc |-> "none", heard |-> "none"]]
  /\ row = [r \in Requests |-> "none"] /\ senders = {}
  /\ told = [r \in Requests |-> "none"]
  /\ exit = [t \in Turns |-> "none"]
  /\ stop = NoStop
  /\ up = TRUE /\ crashes = 0 /\ left = {}

terminating == stop.pc # "idle"
Open        == {r \in Requests : row[r] = "pending"}
Waiters     == {r \in Requests : task[r].pc = "waiting"}
Repliers    == {r \in Requests : task[r].pc = "answered"}

(***************************************************************************)
(* The two services.                                                       *)
(***************************************************************************)

(* Mutated: the update lacks status = 'pending'.                            *)
CloseCardsAnswered(s) ==
  /\ row' = [r \in Requests |-> IF r \in s /\ row[r] # "none" THEN "cancelled" ELSE row[r]]
  /\ senders' = senders \ s
  /\ task' = [r \in Requests |-> IF r \in s \intersect senders \intersect Waiters
                                 THEN [task[r] EXCEPT !.pc = "over"] ELSE task[r]]
  /\ UNCHANGED told

(* Every pending card of s is cancelled and its responder dropped, which    *)
(* wakes the task that waits for it with an error.                          *)
CloseCards(s) ==
  /\ row' = [r \in Requests |-> IF r \in s \intersect Open THEN "cancelled" ELSE row[r]]
  /\ senders' = senders \ s
  /\ task' = [r \in Requests |-> IF r \in s \intersect senders \intersect Waiters
                                 THEN [task[r] EXCEPT !.pc = "over"] ELSE task[r]]
  /\ UNCHANGED told

(* cancel_session_pending of either service.                                *)
CancelApprovals == CloseCards(Approvals)
CancelQuestions == CloseCards(Questions)

(* Mutated: the responder stays in the map.                                 *)
CancelNativeRowOnly(s) ==
  /\ row' = [r \in Requests |-> IF r \in s \intersect Open THEN "cancelled" ELSE row[r]]
  /\ session' = IF s \intersect Open # {} /\ session = "waiting" /\ Open \subseteq s
                THEN "running" ELSE session
  /\ UNCHANGED <<senders, task, told>>

(* cancel_native_request for some approvals: the session goes on running    *)
(* when the last of its cards was among them.                               *)
CancelNative(s) ==
  /\ CloseCards(s)
  /\ session' = IF s \intersect Open # {} /\ session = "waiting" /\ Open \subseteq s
                THEN "running" ELSE session

(* register_native of either service: the session must be in a turn, of     *)
(* whichever invocation.  A task that was aborted while it got here leaves  *)
(* its card behind and drops its end of the channel.                        *)
Register(r) ==
  /\ task[r].pc \in {"asked", "aborted"}
  /\ IF session \in Active
     THEN /\ row' = [row EXCEPT ![r] = "pending"]
          /\ senders' = senders \union {r}
          /\ session' = "waiting"
          /\ task' = [task EXCEPT ![r].pc = IF @ = "asked" THEN "waiting" ELSE "over"]
     ELSE /\ task' = [task EXCEPT ![r].pc = "over"]
          /\ UNCHANGED <<row, senders, session>>
  /\ UNCHANGED <<adapter, turnsV, told, exit, stop, faults>>

(* The responder is there and its task still listens.                       *)
Connected(r) == r \in senders /\ task[r].pc = "waiting"

(* Mutated: the responder is dropped, not used.                             *)
AnsweredUnsent(r, d) ==
  /\ row' = [row EXCEPT ![r] = d]
  /\ senders' = senders \ {r}
  /\ task' = [task EXCEPT ![r].pc = "over"]
  /\ UNCHANGED <<adapter, turnsV, told, exit, stop, faults>>

(* The decision is committed, then sent to the task.                        *)
Answered(r, d) ==
  /\ row' = [row EXCEPT ![r] = d]
  /\ senders' = senders \ {r}
  /\ task' = [task EXCEPT ![r].pc = "answered", ![r].heard = d]
  /\ UNCHANGED <<adapter, turnsV, told, exit, stop, faults>>

(* Mutated: the session is set running whatever its state.                  *)
ResolveApprovalReviving(r, d) ==
  /\ r \in Approvals /\ row[r] = "pending" /\ Connected(r)
  /\ session' = IF Open = {r} THEN "running" ELSE session
  /\ Answered(r, d)

(* ApprovalService::resolve: accepted in any state of the session, which    *)
(* goes on only if it was waiting and nothing else is open.                 *)
ResolveApproval(r, d) ==
  /\ r \in Approvals /\ row[r] = "pending" /\ Connected(r)
  /\ session' = IF session = "waiting" /\ Open = {r} THEN "running" ELSE session
  /\ Answered(r, d)

(* QuestionService::resolve: refused once the turn is over; other questions *)
(* count while they have a responder.                                       *)
ResolveQuestion(r, d) ==
  /\ r \in Questions /\ Connected(r)
  /\ session \in Active
  /\ session' = IF /\ session = "waiting"
                   /\ senders \intersect Questions = {r}
                   /\ Open \intersect Approvals = {}
                THEN "running" ELSE session
  /\ Answered(r, d)

(***************************************************************************)
(* A turn and its driver.                                                  *)
(***************************************************************************)
StartTurn ==
  /\ turn < MaxTurns /\ handle = 0 /\ session \notin Active /\ ~terminating
  /\ turn' = turn + 1
  /\ handle' = turn' /\ invocation' = turn'
  /\ driver' = [driver EXCEPT ![turn'] = "running"]
  /\ session' = "running"
  /\ UNCHANGED <<adapter, obey, task, cards, exit, stop, faults>>

(* The provider asks; Claude's driver serves no questions.                  *)
Ask(t, r) ==
  /\ driver[t] = "running"
  /\ task[r].pc = "none"
  /\ adapter = "claude" => r \in Approvals
  /\ task' = [task EXCEPT ![r] = [turn |-> t, pc |-> "asked", heard |-> "none"]]
  /\ UNCHANGED <<adapter, session, turnsV, cards, exit, stop, faults>>

(* The task hands the decision on and the provider hears it, unless the     *)
(* driver has left its loop: then its process may be gone, or Claude's      *)
(* writer aborted, before the answer is written.                            *)
Replies(r) ==
  /\ task[r].pc = "answered"
  /\ task' = [task EXCEPT ![r].pc = "over"]
  /\ \/ driver[task[r].turn] # "gone" /\ told' = [told EXCEPT ![r] = task[r].heard]
     \/ driver[task[r].turn] # "running" /\ UNCHANGED told
  /\ UNCHANGED <<adapter, session, turnsV, row, senders, exit, stop, faults>>

(* Claude takes a request back (control_cancel_request): the task is        *)
(* aborted, then its approval cancelled.  A decision that it was sent is    *)
(* lost with it unless the task has handed it on.                           *)
Withdraw(r) ==
  /\ adapter = "claude"
  /\ task[r].pc \in {"asked", "waiting", "answered"} /\ driver[task[r].turn] = "running"
  /\ \/ /\ task[r].pc = "asked"
        /\ \E pc \in {"over", "aborted"} : task' = [task EXCEPT ![r].pc = pc]
        /\ UNCHANGED <<session, cards>>
     \/ task[r].pc = "waiting" /\ CancelNative({r})
     \/ /\ task[r].pc = "answered"
        /\ task' = [task EXCEPT ![r].pc = "withdrawn"]
        /\ UNCHANGED <<session, cards>>
  /\ UNCHANGED <<adapter, turnsV, exit, stop, faults>>

(* The driver leaves its loop.  Claude's and OpenCode's abort the tasks of  *)
(* the turn's requests; a task that is being polled is aborted later, when  *)
(* it has its card or has handed its answer on.                             *)
Aborts  == adapter \in {"claude", "opencode"}
Polling == {r \in Requests : task[r].pc = "asked"}

LeaveLoop(t) ==
  /\ driver[t] = "running"
  /\ driver' = [driver EXCEPT ![t] = "ending"]
  /\ \E polled \in SUBSET (Polling \union Repliers) :
       task' = [r \in Requests |->
                  IF ~Aborts \/ task[r].turn # t \/ r \notin Polling \union Waiters \union Repliers
                    THEN task[r]
                  ELSE [task[r] EXCEPT !.pc = IF r \notin polled THEN "over"
                                              ELSE IF r \in Polling THEN "aborted" ELSE @]]
  /\ obey' = obey \ {t}
  /\ UNCHANGED <<adapter, session, turn, handle, invocation, cards, exit, stop, faults>>

(* Of its own accord: the turn is complete, or the provider died.           *)
DriverEnds(t) == LeaveLoop(t)

(* Because it was told to.  An ACP agent does not finish session/cancel     *)
(* before its requests are answered.                                        *)
DriverObeys(t) ==
  /\ t \in obey
  /\ adapter = "acp" => \A r \in Waiters \union Repliers : task[r].turn # t
  /\ LeaveLoop(t)

(* Claude's driver cancels every approval of the session, OpenCode's those  *)
(* of its turn, the others none.                                            *)
DriverClears(t) ==
  /\ driver[t] = "ending"
  /\ driver' = [driver EXCEPT ![t] = "cleared"]
  /\ CASE adapter = "claude"   -> CancelApprovals /\ UNCHANGED session
       [] adapter = "opencode" -> CancelNative({r \in Approvals : task[r].turn = t})
       [] OTHER                -> UNCHANGED <<session, task, cards>>
  /\ UNCHANGED <<adapter, turn, handle, invocation, obey, exit, stop, faults>>

(***************************************************************************)
(* The exit event of turn t: handle_lifecycle_event.                       *)
(***************************************************************************)
ExitGoes(t, from, to) ==
  /\ exit[t] = from
  /\ exit' = [exit EXCEPT ![t] = to]
  /\ UNCHANGED <<adapter, turn, obey, stop, faults>>

(* An event of another invocation is dropped.                               *)
ExitArrives(t) ==
  /\ driver[t] = "cleared"
  /\ driver' = [driver EXCEPT ![t] = "gone"]
  /\ ExitGoes(t, "none", IF invocation # t THEN "done"
                         ELSE IF terminating THEN "stopping" ELSE "checked")
  /\ UNCHANGED <<session, handle, invocation, task, cards>>

(* The second look at the marker, and the session's outcome.                *)
ExitCommits(t) ==
  /\ ExitGoes(t, "checked", IF terminating THEN "done" ELSE "committed")
  /\ session' = IF terminating THEN session ELSE "ended"
  /\ UNCHANGED <<handle, invocation, driver, task, cards>>

ExitRemovesEntry(t) ==
  /\ \/ ExitGoes(t, "committed", "removed")
     \/ ExitGoes(t, "stopping", "removed")
  /\ handle' = 0 /\ invocation' = 0
  /\ UNCHANGED <<session, driver, task, cards>>

(* cancel_pending_interactions, one service after the other.                *)
ExitCancelsApprovals(t) ==
  /\ ExitGoes(t, "removed", "questions")
  /\ CancelApprovals
  /\ UNCHANGED <<session, handle, invocation, driver>>

ExitCancelsQuestions(t) ==
  /\ ExitGoes(t, "questions", "done")
  /\ CancelQuestions
  /\ UNCHANGED <<session, handle, invocation, driver>>

(***************************************************************************)
(* A Stop: start_termination and finish_termination.                       *)
(***************************************************************************)
StopGoes(from, to) ==
  /\ stop.pc = from
  /\ stop' = [stop EXCEPT !.pc = to]
  /\ UNCHANGED <<adapter, turn, driver, exit, faults>>

StopBegins ==
  /\ stop.pc = "idle" /\ session \in Active
  /\ stop' = [pc |-> "approvals", entry |-> handle, found |-> Waiters]
  /\ handle' = 0
  /\ UNCHANGED <<adapter, session, turn, invocation, driver, obey, task, cards, exit, faults>>

(* Mutated: the provider's waiters are not released before it is cancelled. *)
StopSkipsApprovals ==
  /\ StopGoes("approvals", "questions")
  /\ UNCHANGED <<session, handle, invocation, obey, task, cards>>

StopCancelsApprovals ==
  /\ StopGoes("approvals", "questions") /\ CancelApprovals
  /\ UNCHANGED <<session, handle, invocation, obey>>

StopCancelsQuestions ==
  /\ StopGoes("questions", "dispose") /\ CancelQuestions
  /\ UNCHANGED <<session, handle, invocation, obey>>

(* The handle's terminate(), with its timeout.                              *)
StopDisposes ==
  /\ StopGoes("dispose", IF stop.entry = 0 THEN "cancel" ELSE "waiting")
  /\ obey' = obey \union {t \in Turns : t = stop.entry /\ driver[t] = "running"}
  /\ UNCHANGED <<session, handle, invocation, task, cards>>

(* Mutated: no timeout.                                                     *)
StopWaitedForever ==
  /\ stop.pc = "waiting" /\ driver[stop.entry] = "gone"
  /\ stop' = [stop EXCEPT !.pc = "cancel", !.found = {}]
  /\ UNCHANGED <<adapter, turn, driver, exit, faults>>
  /\ UNCHANGED <<session, handle, invocation, obey, task, cards>>

StopWaited ==
  /\ stop.pc = "waiting"
  /\ stop' = [stop EXCEPT !.pc = "cancel", !.found = {}]
  /\ UNCHANGED <<adapter, turn, driver, exit, faults>>
  /\ UNCHANGED <<session, handle, invocation, obey, task, cards>>

(* cancel_session leaves a session that has ended as it is.                 *)
StopCancelsSession ==
  /\ StopGoes("cancel", "approvals2")
  /\ IF session \in Active THEN session' = "ended" /\ invocation' = 0
                           ELSE UNCHANGED <<session, invocation>>
  /\ UNCHANGED <<handle, obey, task, cards>>

(* Mutated: the second round is left out.                                   *)
StopCancelsOnce ==
  /\ StopGoes("approvals2", "questions2")
  /\ UNCHANGED <<session, handle, invocation, obey, task, cards>>

StopCancelsApprovalsAgain ==
  /\ StopGoes("approvals2", "questions2") /\ CancelApprovals
  /\ UNCHANGED <<session, handle, invocation, obey>>

StopEnds ==
  /\ stop.pc = "questions2" /\ stop' = NoStop
  /\ CancelQuestions
  /\ UNCHANGED <<adapter, session, turnsV, exit, faults>>

(***************************************************************************)
(* The app dies, and recover_orphaned_sessions closes what it finds.       *)
(***************************************************************************)
Crash ==
  /\ crashes < MaxCrashes /\ crashes' = crashes + 1
  /\ up' = FALSE
  /\ left' = IF session \in Active THEN left ELSE left \union Open
  /\ senders' = {} /\ handle' = 0 /\ invocation' = 0 /\ obey' = {} /\ stop' = NoStop
  /\ driver' = [t \in Turns |-> IF driver[t] = "none" THEN "none" ELSE "gone"]
  /\ exit' = [t \in Turns |-> IF driver[t] = "none" THEN "none" ELSE "done"]
  /\ task' = [r \in Requests |-> IF task[r].pc \in {"asked", "aborted", "waiting", "answered"}
                                 THEN [task[r] EXCEPT !.pc = "over"] ELSE task[r]]
  /\ UNCHANGED <<adapter, session, turn, row, told>>

(* Only sessions in the middle of a turn are looked at.                     *)
Recover ==
  /\ up' = TRUE
  /\ IF session \in Active
     THEN session' = "ended" /\ CloseCards(Requests)
     ELSE UNCHANGED <<session, task, cards>>
  /\ UNCHANGED <<adapter, turnsV, exit, stop, crashes, left>>

(***************************************************************************)
ExitStep(t) ==
  \/ ExitArrives(t) \/ ExitCommits(t) \/ ExitRemovesEntry(t)
  \/ ExitCancelsApprovals(t) \/ ExitCancelsQuestions(t)

StopStep ==
  \/ StopCancelsApprovals \/ StopCancelsQuestions \/ StopDisposes \/ StopWaited
  \/ StopCancelsSession \/ StopCancelsApprovalsAgain \/ StopEnds

Answer(r) == \E d \in Decisions : ResolveApproval(r, d) \/ ResolveQuestion(r, d)

Running ==
  \/ StartTurn \/ StopBegins \/ StopStep \/ Crash
  \/ \E t \in Turns : DriverEnds(t) \/ DriverObeys(t) \/ DriverClears(t) \/ ExitStep(t)
  \/ \E t \in Turns, r \in Requests : Ask(t, r)
  \/ \E r \in Requests : Register(r) \/ Answer(r) \/ Replies(r) \/ Withdraw(r)

Next == \/ up /\ Running
        \/ ~up /\ Recover

Spec == Init /\ [][Next]_vars

(* The steps of exits, Stops and the recovery are scheduled.  No more is     *)
(* assumed: neither that a driver goes on or a task is polled, nor that the *)
(* provider finishes or the user answers.                                   *)
Fairness ==
  /\ \A t \in Turns : WF_vars(up /\ ExitStep(t))
  /\ WF_vars(up /\ StopStep)
  /\ WF_vars(~up /\ Recover)

FairSpec == Spec /\ Fairness

(***************************************************************************)
(* Properties.                                                             *)
(***************************************************************************)
TypeOK ==
  /\ adapter \in Adapters
  /\ session \in Active \union {"idle", "ended"}
  /\ turn \in 0..MaxTurns /\ {handle, invocation} \subseteq 0..turn
  /\ driver \in [Turns -> DriverPcs] /\ obey \subseteq Turns
  /\ task \in [Requests -> TaskStates]
  /\ row \in [Requests -> RowStates] /\ senders \subseteq Requests
  /\ told \in [Requests -> Decisions \union {"none"}]
  /\ exit \in [Turns -> ExitPcs]
  /\ stop \in [pc : StopPcs, entry : 0..MaxTurns, found : SUBSET Requests]
  /\ up \in BOOLEAN /\ crashes \in 0..MaxCrashes /\ left \subseteq Requests

(* The provider is told nothing but what the audit trail shows: a card that *)
(* was cancelled, is open or never existed was not answered, and a decision *)
(* on its way to the provider is not overtaken by a cancellation, a Stop,   *)
(* the exit or the recovery (ApprovalService::resolve,                      *)
(* QuestionService::resolve).                                               *)
ToldWhatIsRecorded ==
  \A r \in Requests :
    /\ told[r] # "none" => row[r] = told[r]
    /\ r \in Repliers => row[r] = task[r].heard /\ told[r] = "none"

(* A decision that is recorded gets to the provider as long as the turn's   *)
(* driver serves it, unless Claude took the request back.  Once the driver  *)
(* leaves its loop this may fail: the row is granted and nobody was told.   *)
AnswersGetThrough ==
  \A r \in Requests :
    row[r] \in Decisions /\ driver[task[r].turn] = "running" =>
      told[r] = row[r] \/ task[r].pc \in {"answered", "withdrawn"}

(* A task that waits can be woken: its card is open and its responder is in *)
(* the map, so an answer, the end of the turn or a Stop will find it.       *)
WaitersCanBeWoken ==
  Waiters \subseteq Open \intersect senders

(* Nobody is tearing a turn down.                                           *)
Quiet ==
  /\ up /\ ~terminating
  /\ \A t \in Turns : exit[t] \in {"none", "done"}

(* Once the session has ended and its cleanup has run, no card is left that *)
(* looks answerable (approvals/service.rs:333-336, 367-369), except one     *)
(* that was open when the app died after the session had ended.             *)
NoCardOutlivesItsTurn ==
  Quiet /\ session \notin Active => Open \subseteq left

(* The same without the exception: recover_orphaned_sessions looks only at  *)
(* sessions in the middle of a turn, so this fails.                         *)
NothingActionableAfterRestart ==
  Quiet /\ crashes > 0 /\ session \notin Active => Open = {}

(* A session that has ended is never brought back by an answer, a           *)
(* withdrawal or a late request (approvals/service.rs:261-264): only a new  *)
(* turn makes it active.                                                    *)
EndedStaysEnded ==
  [][session = "ended" /\ session' \in Active => turn' = turn + 1]_vars

(* Whoever waited when a Stop began is released before the Stop waits for   *)
(* the provider, which may itself be waiting for that answer                *)
(* (session_service.rs:2328-2329).                                          *)
ReleasedBeforeWaiting ==
  stop.pc = "waiting" => stop.found \intersect Waiters = {}

(* Fails: a request that registers after that release is waited for until   *)
(* the timeout, for the session is still active.                            *)
NobodyHoldsTheStop ==
  stop.pc = "waiting" /\ stop.entry \notin {t \in Turns : driver[t] = "gone"}
    => \A r \in Waiters : task[r].turn # stop.entry

(* No task hangs on a session that has ended or is being stopped: every     *)
(* waiter is answered or released, also one that registered while the       *)
(* cleanup was under way and for which the Stop's provider waits in turn.   *)
WaitersAreReleased ==
  \A r \in Requests :
    (task[r].pc = "waiting" /\ (terminating \/ session \notin Active))
      ~> (task[r].pc # "waiting")
=============================================================================
