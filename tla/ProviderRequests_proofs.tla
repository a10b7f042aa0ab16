----------------------- MODULE ProviderRequests_proofs ----------------------
(***************************************************************************)
(* Approvals and questions for any requests, adapters and bounds: types,   *)
(* an audit trail that contradicts nothing the provider was told, answers  *)
(* that reach a provider that serves them, no waiter out of reach, no card *)
(* that outlives its turn, waiters released before a Stop waits for their  *)
(* provider, and ended sessions that stay ended.                           *)
(***************************************************************************)
EXTENDS ProviderRequests, TLAPS

-----------------------------------------------------------------------------
(* The inductive invariant                                                 *)

(* A request that is not registered yet has no card and no responder. *)
Fresh ==
  \A r \in Requests : task[r].pc \in {"none", "asked", "aborted"} => row[r] = "none" /\ r \notin senders

(* A driver that runs is that of a turn that has started, and so is the turn *)
(* of every task.                                                          *)
TurnsHaveStarted ==
  /\ \A t \in Turns : driver[t] = "running" => t <= turn
  /\ \A r \in Requests : task[r].pc # "none" => task[r].turn \in 1..turn

(* Progress of a task that has registered its request. *)
Registered == {"waiting", "answered", "withdrawn", "over"}

(* Steps of a Stop after which it still cancels the approvals. *)
Stopping == {"approvals", "questions", "dispose", "waiting", "cancel", "approvals2"}

(* Whoever ended the session has yet to close the approvals that are open. *)
ApprovalsHaveAnEnd ==
  session \notin Active /\ ~(Open \cap Approvals \subseteq left) =>
    up /\ (stop.pc \in Stopping \/ \E t \in Turns : exit[t] \in {"committed", "removed"})

QuestionsHaveAnEnd ==
  session \notin Active /\ ~(Open \cap Questions \subseteq left) =>
    up /\ (terminating \/ \E t \in Turns : exit[t] \in {"committed", "removed", "questions"})

(* What a Stop found waiting is registered, and released kind by kind. *)
FoundAreReleased ==
  /\ \A r \in stop.found : task[r].pc \in Registered
  /\ stop.pc = "questions" => stop.found \cap Waiters \cap Approvals = {}
  /\ stop.pc \in {"dispose", "waiting"} => stop.found \cap Waiters = {}

CardsOK == ToldWhatIsRecorded /\ WaitersCanBeWoken /\ Fresh

ServedOK == TurnsHaveStarted /\ AnswersGetThrough

IInv == TypeOK /\ CardsOK /\ ApprovalsHaveAnEnd /\ QuestionsHaveAnEnd /\ FoundAreReleased /\ ServedOK

-----------------------------------------------------------------------------
(* Closing cards                                                           *)

(* CloseCards closes exactly the open cards of s and wakes their waiters.  *)
LEMMA CloseEffects ==
  ASSUME TypeOK, CardsOK, NEW s \in SUBSET Requests, CloseCards(s)
  PROVE  /\ row' \in [Requests -> RowStates] /\ senders' \subseteq Requests
         /\ task' \in [Requests -> TaskStates] /\ told' = told
         /\ Open' = Open \ s /\ Waiters' = Waiters \ s
         /\ \A r \in Requests : task'[r].turn = task[r].turn /\ task'[r].heard = task[r].heard
         /\ \A r \in Requests : task'[r].pc = task[r].pc \/ (task[r].pc = "waiting" /\ task'[r].pc = "over")
         /\ \A r \in Requests : row'[r] = row[r] \/ row'[r] = "cancelled"
         /\ CardsOK'
<1> USE DEF TypeOK, CardsOK, Open, Waiters
<1>1. /\ row' \in [Requests -> RowStates] /\ senders' \subseteq Requests /\ told' = told
      /\ Open' = Open \ s
      /\ \A r \in Requests : row'[r] = IF r \in s \cap Open THEN "cancelled" ELSE row[r]
  BY DEF CloseCards, RowStates
<1>2. \A r \in Requests : task'[r] = IF r \in s \cap senders \cap Waiters
                                     THEN [task[r] EXCEPT !.pc = "over"] ELSE task[r]
  BY DEF CloseCards
<1>3. task' \in [Requests -> TaskStates]
  BY DEF CloseCards, TaskPcs, TaskStates
<1>4. \A r \in Requests : task'[r].pc = IF r \in s \cap senders \cap Waiters THEN "over" ELSE task[r].pc
  BY <1>2 DEF TaskStates
<1>9. \A r \in Requests : task'[r].turn = task[r].turn /\ task'[r].heard = task[r].heard
  BY <1>2 DEF TaskStates
<1>5. Waiters' = Waiters \ s
  BY <1>4 DEF WaitersCanBeWoken
<1>6. Fresh'
  BY <1>1, <1>4 DEF Fresh, CloseCards
<1>7. WaitersCanBeWoken'
  BY <1>1, <1>5 DEF WaitersCanBeWoken, CloseCards
<1>8. ToldWhatIsRecorded'
  <2>1. \A r \in Requests : told[r] # "none" \/ r \in Repliers => r \notin Open
    <3>1. \A r \in Requests : task[r].heard # "pending" /\ told[r] # "pending"
      BY DEF TaskStates, Decisions
    <3> QED
      BY <3>1 DEF ToldWhatIsRecorded, Repliers
  <2>2. Repliers' = Repliers
    BY <1>4 DEF Repliers
  <2> QED
    BY <1>1, <1>9, <2>1, <2>2 DEF ToldWhatIsRecorded, Repliers
<1>10. \A r \in Requests : task'[r].pc = task[r].pc \/ (task[r].pc = "waiting" /\ task'[r].pc = "over")
  <2> SUFFICES ASSUME NEW r \in Requests
               PROVE  task'[r].pc = task[r].pc \/ (task[r].pc = "waiting" /\ task'[r].pc = "over")
    OBVIOUS
  <2>1. CASE r \in s \cap senders \cap Waiters
    BY <1>4, <2>1
  <2>2. CASE r \notin s \cap senders \cap Waiters
    BY <1>4, <2>2
  <2> QED
    BY <2>1, <2>2
<1>11. \A r \in Requests : row'[r] = row[r] \/ row'[r] = "cancelled"
  BY <1>1
<1> QED
  BY <1>1, <1>3, <1>5, <1>6, <1>7, <1>8, <1>9, <1>10, <1>11

(* The cancellations close cards, and touch the session at most where it   *)
(* waits.                                                                  *)
LEMMA CancelEffects ==
  ASSUME TypeOK
  PROVE  /\ CancelApprovals => CloseCards(Approvals)
         /\ CancelQuestions => CloseCards(Questions)
         /\ \A s \in SUBSET Requests : CancelNative(s) =>
              /\ CloseCards(s)
              /\ session' = session \/ (session = "waiting" /\ session' = "running")
         /\ Approvals \in SUBSET Requests /\ Questions \in SUBSET Requests
         /\ Approvals \cap Questions = {} /\ Requests = Approvals \cup Questions
BY QuestionsAssumption DEF CancelApprovals, CancelQuestions, CancelNative, Approvals, QuestionsAssumption

-----------------------------------------------------------------------------
(* Cards, responders and the tasks that wait                               *)

TasksOK == task \in [Requests -> TaskStates]
CardTypes == row \in [Requests -> RowStates] /\ senders \subseteq Requests
               /\ told \in [Requests -> Decisions \cup {"none"}] /\ TasksOK

(* Most steps close some cards or leave them all alone. *)
OnlyCloses == UNCHANGED <<task, cards>> \/ \E s \in SUBSET Requests : CloseCards(s)

(* The steps of a Stop, of an exit, the start of a turn and a recovery. *)
LEMMA OtherStepsOnlyClose ==
  ASSUME TypeOK,
         \/ StartTurn \/ StopBegins \/ StopStep \/ Recover
         \/ \E t \in Turns : DriverClears(t) \/ ExitStep(t)
  PROVE  OnlyCloses
<1> USE CancelEffects DEF OnlyCloses, cards
<1>1. CASE StartTurn \/ StopBegins
  BY <1>1 DEF StartTurn, StopBegins, cards
<1>2. CASE StopStep
  BY <1>2 DEF StopStep, StopCancelsApprovals, StopCancelsQuestions, StopDisposes, StopWaited,
       StopCancelsSession, StopCancelsApprovalsAgain, StopEnds
<1>3. CASE Recover
  BY <1>3 DEF Recover
<1>4. ASSUME NEW t \in Turns, ExitStep(t) PROVE OnlyCloses
  BY <1>4 DEF ExitStep, ExitArrives, ExitCommits, ExitRemovesEntry, ExitCancelsApprovals,
       ExitCancelsQuestions
<1>5. ASSUME NEW t \in Turns, DriverClears(t) PROVE OnlyCloses
  <2>1. {r \in Approvals : task[r].turn = t} \in SUBSET Requests
    BY DEF Approvals
  <2> QED
    BY <1>5, <2>1 DEF DriverClears
<1> QED
  BY <1>1, <1>2, <1>3, <1>4, <1>5

(* Leaving the loop only ends or aborts tasks that have not registered, or *)
(* ends those that wait or have an answer to hand on.                      *)
LEMMA LoopEffects ==
  ASSUME TypeOK, NEW t \in Turns, LeaveLoop(t)
  PROVE  /\ TasksOK'
         /\ \A r \in Requests :
              /\ task'[r].turn = task[r].turn /\ task'[r].heard = task[r].heard
              /\ \/ task'[r].pc = task[r].pc
                 \/ task[r].pc = "asked" /\ task'[r].pc \in {"aborted", "over"}
                 \/ task[r].pc \in {"waiting", "answered"} /\ task[r].turn = t /\ task'[r].pc = "over"
<1>1. PICK polled \in SUBSET (Polling \union Repliers) :
        task' = [r \in Requests |->
                  IF ~Aborts \/ task[r].turn # t \/ r \notin Polling \union Waiters \union Repliers
                    THEN task[r]
                  ELSE [task[r] EXCEPT !.pc = IF r \notin polled THEN "over"
                                              ELSE IF r \in Polling THEN "aborted" ELSE @]]
  BY DEF LeaveLoop
<1>2. ASSUME NEW r \in Requests
      PROVE  /\ task'[r] \in TaskStates
             /\ task'[r].turn = task[r].turn /\ task'[r].heard = task[r].heard
             /\ \/ task'[r].pc = task[r].pc
                \/ task[r].pc = "asked" /\ task'[r].pc \in {"aborted", "over"}
                \/ task[r].pc \in {"waiting", "answered"} /\ task[r].turn = t /\ task'[r].pc = "over"
  <2>1. task[r] \in TaskStates
    BY DEF TypeOK
  <2>2. CASE task'[r] = task[r]
    BY <2>1, <2>2
  <2>3. CASE /\ task[r].turn = t /\ r \in Polling \union Waiters \union Repliers
             /\ task'[r] = [task[r] EXCEPT !.pc = IF r \notin polled THEN "over"
                                                ELSE IF r \in Polling THEN "aborted" ELSE @]
    <3>1. /\ task'[r] \in TaskStates
          /\ task'[r].turn = task[r].turn /\ task'[r].heard = task[r].heard
          /\ task'[r].pc = IF r \notin polled THEN "over"
                           ELSE IF r \in Polling THEN "aborted" ELSE task[r].pc
      BY <2>1, <2>3 DEF TaskStates, TaskPcs
    <3> QED
      BY <2>3, <3>1 DEF Polling, Waiters, Repliers
  <2> QED
    BY <1>1, <2>2, <2>3
<1>3. TasksOK'
  BY <1>1, <1>2 DEF TasksOK
<1> QED
  BY <1>2, <1>3

(* A task that stops waiting or replying, asks or is aborted disturbs no   *)
(* card.                                                                   *)
LEMMA TasksAlone ==
  ASSUME TypeOK, CardsOK, TasksOK', UNCHANGED <<row, told>>, senders' \subseteq senders,
         \A r \in Requests : task'[r].pc = "waiting" => task[r].pc = "waiting" /\ r \in senders',
         \A r \in Requests : task'[r].pc = "answered" =>
                               task[r].pc = "answered" /\ task'[r].heard = task[r].heard,
         \A r \in Requests : task'[r].pc \in {"none", "asked", "aborted"} =>
                               task[r].pc \in {"none", "asked", "aborted"}
  PROVE  CardTypes' /\ CardsOK'
<1>1. CardTypes' /\ Fresh' /\ WaitersCanBeWoken'
  BY DEF TypeOK, CardsOK, CardTypes, Fresh, WaitersCanBeWoken, Waiters, Open
<1>2. ToldWhatIsRecorded'
  BY DEF CardsOK, ToldWhatIsRecorded, Repliers
<1> QED
  BY <1>1, <1>2 DEF CardsOK

(* An answer sends what it records to a task whose provider knows nothing. *)
LEMMA AnswerKeepsCards ==
  ASSUME TypeOK, CardsOK, NEW r \in Requests, NEW d \in Decisions, Connected(r), Answered(r, d)
  PROVE  CardTypes' /\ CardsOK'
<1>1. /\ row' = [row EXCEPT ![r] = d] /\ senders' = senders \ {r} /\ told' = told
      /\ task' = [task EXCEPT ![r].pc = "answered", ![r].heard = d]
  BY DEF Answered
<1>2. /\ row \in [Requests -> RowStates] /\ task \in [Requests -> TaskStates]
      /\ senders \subseteq Requests /\ told \in [Requests -> Decisions \cup {"none"}]
  BY DEF TypeOK
<1>3. task' \in [Requests -> TaskStates]
  <2>1. [task[r] EXCEPT !.pc = "answered", !.heard = d] \in TaskStates
    BY <1>2 DEF TaskStates, TaskPcs
  <2>2. task' = [task EXCEPT ![r] = [task[r] EXCEPT !.pc = "answered", !.heard = d]]
    BY <1>1, <1>2 DEF TaskStates
  <2> QED
    BY <1>2, <2>1, <2>2
<1>4. task'[r].pc = "answered" /\ task'[r].heard = d /\ \A q \in Requests \ {r} : task'[q] = task[q]
  BY <1>1, <1>2 DEF TaskStates
<1>5. row'[r] = d /\ \A q \in Requests \ {r} : row'[q] = row[q]
  BY <1>1, <1>2
<1>6. CardTypes'
  BY <1>1, <1>2, <1>3 DEF CardTypes, TasksOK, RowStates
<1>7. told[r] = "none"
  <2>1. row[r] = "pending"
    BY DEF Connected, CardsOK, WaitersCanBeWoken, Waiters, Open
  <2> QED
    BY <1>2, <2>1 DEF CardsOK, ToldWhatIsRecorded, Decisions
<1>8. ToldWhatIsRecorded'
  BY <1>1, <1>4, <1>5, <1>7 DEF CardsOK, ToldWhatIsRecorded, Repliers
<1>9. WaitersCanBeWoken' /\ Fresh'
  BY <1>1, <1>4, <1>5 DEF CardsOK, WaitersCanBeWoken, Waiters, Open, Fresh
<1> QED
  BY <1>6, <1>8, <1>9 DEF CardsOK

(* A reply says what is recorded, or nothing.                              *)
LEMMA ReplyKeepsCards ==
  ASSUME TypeOK, CardsOK, NEW r \in Requests, Replies(r)
  PROVE  CardTypes' /\ CardsOK'
<1>1. /\ task[r].pc = "answered" /\ task' = [task EXCEPT ![r].pc = "over"]
      /\ told' = [told EXCEPT ![r] = task[r].heard] \/ told' = told
      /\ row' = row /\ senders' = senders
  BY DEF Replies
<1>2. /\ row \in [Requests -> RowStates] /\ task \in [Requests -> TaskStates]
      /\ senders \subseteq Requests /\ told \in [Requests -> Decisions \cup {"none"}]
  BY DEF TypeOK
<1>3. task' \in [Requests -> TaskStates]
  BY <1>1, <1>2 DEF TaskStates, TaskPcs
<1>4. task'[r].pc = "over" /\ \A q \in Requests \ {r} : task'[q] = task[q]
  BY <1>1, <1>2 DEF TaskStates
<1>5. task[r].heard \in Decisions \cup {"none"}
  BY <1>2 DEF TaskStates
<1>6. CardTypes'
  BY <1>1, <1>2, <1>3, <1>5 DEF CardTypes, TasksOK
<1>7. row[r] = task[r].heard
  BY <1>1 DEF CardsOK, ToldWhatIsRecorded, Repliers
<1>8. \A q \in Requests : told'[q] = told[q] \/ (q = r /\ told'[q] = task[r].heard)
  <2>1. CASE told' = [told EXCEPT ![r] = task[r].heard]
    BY <1>2, <2>1
  <2>2. CASE told' = told
    BY <2>2
  <2> QED
    BY <1>1, <2>1, <2>2
<1>10. \A q \in Requests : told'[q] # "none" => row'[q] = told'[q]
  BY <1>1, <1>7, <1>8 DEF CardsOK, ToldWhatIsRecorded
<1>11. \A q \in Repliers' : row'[q] = task'[q].heard /\ told'[q] = "none"
  BY <1>1, <1>4, <1>8 DEF CardsOK, ToldWhatIsRecorded, Repliers
<1>12. ToldWhatIsRecorded'
  BY <1>10, <1>11 DEF ToldWhatIsRecorded
<1>9. WaitersCanBeWoken' /\ Fresh'
  BY <1>1, <1>4 DEF CardsOK, WaitersCanBeWoken, Waiters, Open, Fresh
<1> QED
  BY <1>6, <1>12, <1>9 DEF CardsOK

(* A request is registered with its card, its responder and its waiter. *)
LEMMA RegisterKeepsCards ==
  ASSUME TypeOK, CardsOK, NEW r \in Requests, Register(r)
  PROVE  CardTypes' /\ CardsOK'
<1> USE DEF TypeOK, CardsOK, Register
<1>1. row[r] = "none" /\ r \notin senders
  BY DEF Fresh
<1>2. CardTypes'
  <2>1. row' \in [Requests -> RowStates]
    BY DEF RowStates
  <2>2. senders' \subseteq Requests /\ told' = told
    OBVIOUS
  <2>3. task' \in [Requests -> TaskStates]
    <3>1. task[r] \in TaskStates /\ task \in [Requests -> TaskStates]
      OBVIOUS
    <3>2. PICK pc \in TaskPcs : task' = [task EXCEPT ![r] = [task[r] EXCEPT !.pc = pc]]
      BY DEF TaskPcs
    <3> HIDE DEF TypeOK, CardsOK, Register
    <3>3. [task[r] EXCEPT !.pc = pc] \in TaskStates
      BY <3>1 DEF TaskStates
    <3> QED
      BY <3>1, <3>2, <3>3
  <2> QED
    BY <2>1, <2>2, <2>3 DEF CardTypes, TasksOK
<1>3. task'[r].pc \in {"waiting", "over"} /\ (task'[r].pc = "waiting" => row'[r] = "pending" /\ r \in senders')
  <2>1. CASE session \in Active
    BY <2>1 DEF TaskStates
  <2>2. CASE session \notin Active
    BY <2>2 DEF TaskStates
  <2> QED
    BY <2>1, <2>2
<1>4. \A q \in Requests : q # r => task'[q] = task[q] /\ row'[q] = row[q]
  OBVIOUS
<1>5. ToldWhatIsRecorded'
  <2>1. told' = told /\ told[r] = "none"
    BY <1>1 DEF ToldWhatIsRecorded, Decisions
  <2> QED
    BY <1>3, <1>4, <2>1 DEF ToldWhatIsRecorded, Repliers
<1>6. WaitersCanBeWoken' /\ Fresh'
  BY <1>3, <1>4 DEF WaitersCanBeWoken, Waiters, Open, Fresh
<1> QED
  BY <1>2, <1>5, <1>6

(* Every step keeps the cards, the responders and the waiters together. *)
LEMMA CardsKept ==
  ASSUME TypeOK, CardsOK, Next
  PROVE  CardTypes' /\ CardsOK'
<1>1. CASE OnlyCloses
  <2>1. CASE UNCHANGED <<task, cards>>
    BY <2>1 DEF TypeOK, CardsOK, CardTypes, TasksOK, cards, Fresh, WaitersCanBeWoken, Waiters, Open,
         ToldWhatIsRecorded, Repliers
  <2>2. ASSUME NEW s \in SUBSET Requests, CloseCards(s) PROVE CardTypes' /\ CardsOK'
    BY <2>2, CloseEffects DEF CardTypes, TasksOK, TypeOK
  <2> QED
    BY <1>1, <2>1, <2>2 DEF OnlyCloses
<1>2. ASSUME NEW r \in Requests, Register(r) PROVE CardTypes' /\ CardsOK'
  BY <1>2, RegisterKeepsCards
<1>3. ASSUME NEW r \in Requests, Answer(r) PROVE CardTypes' /\ CardsOK'
  BY <1>3, AnswerKeepsCards DEF Answer, ResolveApproval, ResolveQuestion, Connected, CardsOK
<1>4. ASSUME NEW r \in Requests, Withdraw(r) PROVE CardTypes' /\ CardsOK'
  <2>1. CASE task[r].pc = "asked"
    <3>1. UNCHANGED cards /\ task'[r].pc \in {"over", "aborted"} /\ TasksOK'
          /\ \A q \in Requests : q # r => task'[q] = task[q]
      BY <1>4, <2>1 DEF Withdraw, TypeOK, TasksOK, TaskPcs, TaskStates
    <3> QED
      BY <2>1, <3>1, TasksAlone DEF cards, CardsOK, WaitersCanBeWoken, Waiters
  <2>2. CASE task[r].pc = "waiting"
    <3>1. {r} \in SUBSET Requests /\ CancelNative({r})
      BY <1>4, <2>2 DEF Withdraw
    <3> QED
      BY <1>1, <3>1, CancelEffects DEF OnlyCloses
  <2>3. CASE task[r].pc = "answered"
    <3>1. UNCHANGED cards /\ task'[r].pc = "withdrawn" /\ TasksOK'
          /\ \A q \in Requests : q # r => task'[q] = task[q]
      BY <1>4, <2>3 DEF Withdraw, TypeOK, TasksOK, TaskPcs, TaskStates
    <3> QED
      BY <2>3, <3>1, TasksAlone DEF cards, CardsOK, WaitersCanBeWoken, Waiters
  <2> QED
    BY <1>4, <2>1, <2>2, <2>3 DEF Withdraw
<1>5. ASSUME NEW t \in Turns, NEW r \in Requests, Ask(t, r) PROVE CardTypes' /\ CardsOK'
  <2>1. TasksOK' /\ UNCHANGED cards /\ task[r].pc = "none" /\ task'[r].pc = "asked"
        /\ \A q \in Requests : q # r => task'[q] = task[q]
    BY <1>5, BoundsAssumption DEF Ask, TypeOK, TasksOK, TaskPcs, TaskStates, Turns, BoundsAssumption
  <2> QED
    BY <2>1, TasksAlone DEF cards, CardsOK, WaitersCanBeWoken, Waiters
<1>6. ASSUME NEW t \in Turns, LeaveLoop(t) PROVE CardTypes' /\ CardsOK'
  <2>1. UNCHANGED cards
    BY <1>6 DEF LeaveLoop
  <2> QED
    BY <1>6, <2>1, LoopEffects, TasksAlone DEF cards, CardsOK, WaitersCanBeWoken, Waiters
<1>7. CASE Crash
  <2>1. UNCHANGED <<row, told>> /\ senders' = {} /\ TasksOK'
        /\ \A r \in Requests : task'[r].pc \in {"none", "withdrawn", "over"}
                               /\ (task'[r].pc = "none" => task[r].pc = "none")
    BY <1>7 DEF Crash, TypeOK, TasksOK, TaskPcs, TaskStates
  <2> QED
    BY <2>1, TasksAlone
<1>8. ASSUME NEW r \in Requests, Replies(r) PROVE CardTypes' /\ CardsOK'
  BY <1>8, ReplyKeepsCards
<1> QED
  BY <1>1, <1>2, <1>3, <1>4, <1>5, <1>6, <1>7, <1>8, OtherStepsOnlyClose
     DEF Next, Running, DriverEnds, DriverObeys

-----------------------------------------------------------------------------
(* Types                                                                   *)

RestTypes ==
  /\ adapter \in Adapters
  /\ session \in Active \union {"idle", "ended"}
  /\ turn \in 0..MaxTurns /\ {handle, invocation} \subseteq 0..turn
  /\ driver \in [Turns -> DriverPcs] /\ obey \subseteq Turns
  /\ exit \in [Turns -> ExitPcs]
  /\ stop \in [pc : StopPcs, entry : 0..MaxTurns, found : SUBSET Requests]
  /\ up \in BOOLEAN /\ crashes \in 0..MaxCrashes /\ left \subseteq Requests

(* A Stop and its steps keep the types of what is not a card. *)
LEMMA StopTypes ==
  ASSUME TypeOK, StopBegins \/ StopStep
  PROVE  RestTypes'
<1> USE DEF TypeOK, RestTypes, turnsV, faults, cards
<1>1. CASE StopBegins
  <2>1. handle \in 0..MaxTurns /\ Waiters \subseteq Requests
    BY BoundsAssumption DEF BoundsAssumption, Waiters
  <2>2. stop' \in [pc : StopPcs, entry : 0..MaxTurns, found : SUBSET Requests]
    BY <1>1, <2>1 DEF StopBegins, StopPcs
  <2> QED
    BY <1>1, <2>2 DEF StopBegins
<1>2. CASE StopCancelsApprovals \/ StopCancelsQuestions \/ StopCancelsApprovalsAgain
  BY <1>2 DEF StopCancelsApprovals, StopCancelsQuestions, StopCancelsApprovalsAgain, StopGoes, StopPcs
<1>6. CASE StopWaited
  <2>1. stop' \in [pc : StopPcs, entry : 0..MaxTurns, found : SUBSET Requests]
    BY <1>6 DEF StopWaited, StopPcs
  <2> QED
    BY <1>6, <2>1 DEF StopWaited
<1>3. CASE StopDisposes
  BY <1>3 DEF StopDisposes, StopGoes, StopPcs
<1>4. CASE StopCancelsSession
  BY <1>4 DEF StopCancelsSession, StopGoes, StopPcs
<1>5. CASE StopEnds
  BY <1>5, BoundsAssumption DEF StopEnds, NoStop, StopPcs, BoundsAssumption
<1> QED
  BY <1>1, <1>2, <1>3, <1>4, <1>5, <1>6 DEF StopStep

(* So do a driver and an exit. *)
LEMMA TurnTypes ==
  ASSUME TypeOK, NEW t \in Turns, DriverEnds(t) \/ DriverObeys(t) \/ DriverClears(t) \/ ExitStep(t)
  PROVE  RestTypes'
<1> USE DEF TypeOK, RestTypes, faults, cards, DriverPcs
<1>1. CASE LeaveLoop(t)
  BY <1>1 DEF LeaveLoop
<1>2. CASE DriverClears(t)
  <2>1. session' \in Active \cup {"idle", "ended"}
    BY <1>2 DEF DriverClears, CancelNative, Active
  <2> QED
    BY <1>2, <2>1 DEF DriverClears
<1>3. CASE ExitStep(t)
  <2>1. exit' \in [Turns -> ExitPcs] /\ UNCHANGED <<adapter, turn, obey, stop, faults>>
    BY <1>3 DEF ExitStep, ExitArrives, ExitCommits, ExitRemovesEntry, ExitCancelsApprovals,
         ExitCancelsQuestions, ExitGoes, ExitPcs
  <2>2. session' \in Active \cup {"idle", "ended"} /\ driver' \in [Turns -> DriverPcs]
        /\ {handle', invocation'} \subseteq 0..turn
    BY <1>3 DEF ExitStep, ExitArrives, ExitCommits, ExitRemovesEntry, ExitCancelsApprovals,
         ExitCancelsQuestions
  <2> QED
    BY <2>1, <2>2
<1> QED
  BY <1>1, <1>2, <1>3 DEF DriverEnds, DriverObeys

(* And what happens to a single request. *)
LEMMA RequestTypes ==
  ASSUME TypeOK, NEW r \in Requests,
         Register(r) \/ Answer(r) \/ Replies(r) \/ Withdraw(r) \/ \E t \in Turns : Ask(t, r)
  PROVE  RestTypes'
<1> USE DEF TypeOK, RestTypes, turnsV, faults, cards, Active
<1>1. session' \in Active \cup {"idle", "ended"}
  BY DEF Register, Answer, ResolveApproval, ResolveQuestion, Replies, Withdraw, CancelNative, Ask
<1>2. UNCHANGED <<adapter, turnsV, exit, stop, faults>>
  BY DEF Register, Answer, ResolveApproval, ResolveQuestion, Answered, Replies, Withdraw, Ask
<1> QED
  BY <1>1, <1>2

(* The start of a turn, a crash and a recovery *)
LEMMA LifeTypes ==
  ASSUME TypeOK, StartTurn \/ Crash \/ Recover
  PROVE  RestTypes'
<1> USE BoundsAssumption DEF TypeOK, RestTypes, turnsV, faults, cards, Active, BoundsAssumption
<1>1. CASE StartTurn
  BY <1>1 DEF StartTurn, Turns, DriverPcs
<1>2. CASE Crash
  <2>1. driver' \in [Turns -> DriverPcs] /\ exit' \in [Turns -> ExitPcs]
    BY <1>2 DEF Crash, DriverPcs, ExitPcs
  <2>2. stop' \in [pc : StopPcs, entry : 0..MaxTurns, found : SUBSET Requests]
    BY <1>2 DEF Crash, NoStop, StopPcs
  <2>3. up' \in BOOLEAN /\ crashes' \in 0..MaxCrashes /\ left' \subseteq Requests
    <3>1. Open \subseteq Requests /\ left' \in {left, left \cup Open}
      BY <1>2 DEF Crash, Open
    <3>2. up' = FALSE /\ crashes' = crashes + 1 /\ crashes < MaxCrashes
      BY <1>2 DEF Crash
    <3>3. crashes' \in 0..MaxCrashes
      BY <3>2
    <3>4. left' \subseteq Requests
      BY <3>1
    <3> QED
      BY <3>2, <3>3, <3>4
  <2> QED
    BY <1>2, <2>1, <2>2, <2>3 DEF Crash
<1>3. CASE Recover
  BY <1>3 DEF Recover
<1> QED
  BY <1>1, <1>2, <1>3

LEMMA TypesKept ==
  ASSUME TypeOK, CardsOK, Next
  PROVE  TypeOK'
<1>1. RestTypes'
  BY StopTypes, TurnTypes, RequestTypes, LifeTypes DEF Next, Running
<1>2. CardTypes'
  BY CardsKept
<1> QED
  BY <1>1, <1>2 DEF TypeOK, RestTypes, CardTypes, TasksOK

-----------------------------------------------------------------------------
(* The end of a session and its cards                                      *)

(* Only registrations open cards, and only in the middle of a turn. *)
LEMMA OpenGrows ==
  ASSUME TypeOK, CardsOK, Next
  PROVE  Open' \subseteq Open \/ session' \in Active
<1> USE DEF TypeOK
<1>1. CASE OnlyCloses
  BY <1>1, CloseEffects DEF OnlyCloses, cards, Open
<1>2. ASSUME NEW r \in Requests, Register(r) PROVE Open' \subseteq Open \/ session' \in Active
  BY <1>2 DEF Register, Open, Active
<1>3. ASSUME NEW r \in Requests, Answer(r) PROVE Open' \subseteq Open
  BY <1>3 DEF Answer, ResolveApproval, ResolveQuestion, Answered, Open, Decisions
<1>4. ASSUME NEW r \in Requests, Withdraw(r) PROVE Open' \subseteq Open
  BY <1>4, CancelEffects, CloseEffects DEF Withdraw, cards, Open
<1>5. ASSUME NEW t \in Turns, NEW r \in Requests, Ask(t, r) PROVE Open' \subseteq Open
  BY <1>5 DEF Ask, cards, Open
<1>6. ASSUME NEW t \in Turns, LeaveLoop(t) PROVE Open' \subseteq Open
  BY <1>6 DEF LeaveLoop, cards, Open
<1>7. CASE Crash
  BY <1>7 DEF Crash, Open
<1>8. ASSUME NEW r \in Requests, Replies(r) PROVE Open' \subseteq Open
  BY <1>8 DEF Replies, Open
<1> QED
  BY <1>1, <1>2, <1>3, <1>4, <1>5, <1>6, <1>7, <1>8, OtherStepsOnlyClose
     DEF Next, Running, DriverEnds, DriverObeys

(* Whoever ends a session has the cards still to close, or closes them.    *)
LEMMA WhoEnds ==
  ASSUME TypeOK, Next, session \in Active, session' \notin Active
  PROVE  \/ \E t \in Turns : exit'[t] = "committed" /\ up /\ up'
         \/ stop'.pc = "approvals2" /\ up /\ up'
         \/ ~up
<1> USE DEF TypeOK, Active
<1>1. ASSUME NEW r \in Requests, Register(r) \/ Answer(r) \/ Replies(r) \/ Withdraw(r) PROVE FALSE
  BY <1>1 DEF Register, Answer, ResolveApproval, ResolveQuestion, Replies, Withdraw, CancelNative
<1>2. ASSUME NEW t \in Turns, NEW r \in Requests, Ask(t, r) PROVE FALSE
  BY <1>2 DEF Ask
<1>3. ASSUME NEW t \in Turns, DriverEnds(t) \/ DriverObeys(t) \/ DriverClears(t) PROVE FALSE
  BY <1>3 DEF DriverEnds, DriverObeys, LeaveLoop, DriverClears, CancelNative
<1>4. ASSUME up, NEW t \in Turns, ExitStep(t) PROVE exit'[t] = "committed" /\ up'
  BY <1>4 DEF ExitStep, ExitArrives, ExitCommits, ExitRemovesEntry, ExitCancelsApprovals,
       ExitCancelsQuestions, ExitGoes, faults
<1>5. ASSUME up, StopStep PROVE stop'.pc = "approvals2" /\ up'
  BY <1>5 DEF StopStep, StopCancelsApprovals, StopCancelsQuestions, StopDisposes, StopWaited,
       StopCancelsSession, StopCancelsApprovalsAgain, StopEnds, StopGoes, faults
<1>6. CASE StartTurn \/ StopBegins \/ Crash
  BY <1>6 DEF StartTurn, StopBegins, Crash
<1> QED
  BY <1>1, <1>2, <1>3, <1>4, <1>5, <1>6 DEF Next, Running

(* A cleanup goes on until it has closed the cards.                        *)
LEMMA CleanupGoesOn ==
  ASSUME TypeOK, CardsOK, Next, up, ~Crash
  PROVE  /\ up' /\ left' = left
         /\ stop.pc \in Stopping => stop'.pc \in Stopping \/ Open' \cap Approvals = {}
         /\ terminating => terminating' \/ Open' \cap Questions = {}
         /\ \A t \in Turns : exit[t] \in {"committed", "removed"} =>
              exit'[t] \in {"committed", "removed"} \/ Open' \cap Approvals = {}
         /\ \A t \in Turns : exit[t] \in {"committed", "removed", "questions"} =>
              exit'[t] \in {"committed", "removed", "questions"} \/ Open' \cap Questions = {}
<1> USE DEF TypeOK, turnsV, faults, cards, terminating
<1>1. CASE UNCHANGED <<exit, stop, up, left>>
  BY <1>1
<1>2. CASE StopStep
  <2>1. UNCHANGED <<exit, up, left>>
    BY <1>2 DEF StopStep, StopCancelsApprovals, StopCancelsQuestions, StopDisposes, StopWaited,
         StopCancelsSession, StopCancelsApprovalsAgain, StopEnds, StopGoes
  <2>2. stop.pc \in Stopping => stop'.pc \in Stopping \/ Open' \cap Approvals = {}
    <3>1. CASE StopCancelsApprovalsAgain
      BY <3>1, CloseEffects, CancelEffects DEF StopCancelsApprovalsAgain
    <3>2. CASE ~StopCancelsApprovalsAgain
      BY <1>2, <3>2 DEF StopStep, StopCancelsApprovals, StopCancelsQuestions, StopDisposes, StopWaited,
         StopCancelsSession, StopEnds, StopGoes, Stopping
    <3> QED
      BY <3>1, <3>2
  <2>3. terminating => terminating' \/ Open' \cap Questions = {}
    <3>1. CASE StopEnds
      BY <3>1, CloseEffects, CancelEffects DEF StopEnds
    <3>2. CASE ~StopEnds
      BY <1>2, <3>2 DEF StopStep, StopCancelsApprovals, StopCancelsQuestions, StopDisposes, StopWaited,
         StopCancelsSession, StopCancelsApprovalsAgain, StopGoes
    <3> QED
      BY <3>1, <3>2
  <2> QED
    BY <2>1, <2>2, <2>3
<1>3. ASSUME NEW t \in Turns, ExitStep(t)
      PROVE  /\ UNCHANGED <<stop, up, left>> /\ \A u \in Turns \ {t} : exit'[u] = exit[u]
             /\ exit[t] \in {"committed", "removed"} =>
                  exit'[t] \in {"committed", "removed"} \/ Open' \cap Approvals = {}
             /\ exit[t] \in {"committed", "removed", "questions"} =>
                  exit'[t] \in {"committed", "removed", "questions"} \/ Open' \cap Questions = {}
  <2>1. UNCHANGED <<stop, up, left>> /\ \A u \in Turns \ {t} : exit'[u] = exit[u]
    BY <1>3 DEF ExitStep, ExitArrives, ExitCommits, ExitRemovesEntry, ExitCancelsApprovals,
       ExitCancelsQuestions, ExitGoes
  <2>2. CASE ExitArrives(t) \/ ExitCommits(t) \/ ExitRemovesEntry(t)
    BY <2>1, <2>2 DEF ExitArrives, ExitCommits, ExitRemovesEntry, ExitGoes
  <2>3. CASE ExitCancelsApprovals(t)
    BY <2>1, <2>3, CloseEffects, CancelEffects DEF ExitCancelsApprovals, ExitGoes
  <2>4. CASE ExitCancelsQuestions(t)
    BY <2>1, <2>4, CloseEffects, CancelEffects DEF ExitCancelsQuestions, ExitGoes
  <2> QED
    BY <1>3, <2>1, <2>2, <2>3, <2>4 DEF ExitStep
<1>4. CASE StopBegins
  BY <1>4 DEF StopBegins, Stopping
<1>5. StartTurn => UNCHANGED <<exit, stop, up, left>>
  BY DEF StartTurn
<1>6. \A t \in Turns : DriverEnds(t) \/ DriverObeys(t) \/ DriverClears(t) => UNCHANGED <<exit, stop, up, left>>
  BY DEF DriverEnds, DriverObeys, LeaveLoop, DriverClears
<1>7. \A r \in Requests : Register(r) \/ Answer(r) \/ Replies(r) \/ Withdraw(r) => UNCHANGED <<exit, stop, up, left>>
  BY DEF Register, Answer, ResolveApproval, ResolveQuestion, Answered, Replies, Withdraw
<1>8. \A t \in Turns, r \in Requests : Ask(t, r) => UNCHANGED <<exit, stop, up, left>>
  BY DEF Ask
<1> QED
  BY <1>1, <1>2, <1>3, <1>4, <1>5, <1>6, <1>7, <1>8 DEF Next, Running

-----------------------------------------------------------------------------
(* What is kept                                                            *)

(* The approvals and the questions of an ended session are closed by        *)
(* whoever ended it; the two arguments differ in where the cleanup stops.   *)
LEMMA EndsKept ==
  ASSUME IInv, Next
  PROVE  ApprovalsHaveAnEnd' /\ QuestionsHaveAnEnd'
<1> USE DEF IInv
<1>1. CASE Crash
  BY <1>1 DEF Crash, Open, ApprovalsHaveAnEnd, QuestionsHaveAnEnd
<1>2. CASE ~up
  <2>1. Recover
    BY <1>2 DEF Next
  <2>2. CASE session \in Active
    BY <2>1, <2>2, CloseEffects DEF Recover, TypeOK, ApprovalsHaveAnEnd, QuestionsHaveAnEnd, Open
  <2>3. CASE session \notin Active
    BY <1>2, <2>1, <2>3 DEF Recover, ApprovalsHaveAnEnd, QuestionsHaveAnEnd, Open, cards
  <2> QED
    BY <2>2, <2>3
<1>3. CASE up /\ ~Crash /\ session' \notin Active
  <2>1. Open' \subseteq Open
    BY <1>3, OpenGrows
  <2>2. up' /\ left' = left
    BY <1>3, CleanupGoesOn DEF TypeOK
  <2>3. CASE session \in Active
    <3>1. (\E t \in Turns : exit'[t] = "committed") \/ stop'.pc = "approvals2"
      BY <1>3, <2>2, <2>3, WhoEnds
    <3> QED
      BY <2>2, <3>1 DEF ApprovalsHaveAnEnd, QuestionsHaveAnEnd, Stopping, terminating
  <2>4. CASE session \notin Active
    BY <1>3, <2>1, <2>2, <2>4, CleanupGoesOn DEF ApprovalsHaveAnEnd, QuestionsHaveAnEnd
  <2> QED
    BY <2>3, <2>4
<1>4. CASE session' \in Active
  BY <1>4 DEF ApprovalsHaveAnEnd, QuestionsHaveAnEnd
<1> QED
  BY <1>1, <1>2, <1>3, <1>4 DEF IInv, TypeOK

(* Once registered, a request never waits anew. *)
LEMMA WaitersOnlyLeave ==
  ASSUME TypeOK, CardsOK, Next
  PROVE  \A r \in Requests : task[r].pc \in Registered =>
           /\ task'[r].pc \in Registered
           /\ r \notin Waiters => r \notin Waiters'
<1>0. ASSUME OnlyCloses
      PROVE  \A r \in Requests : task'[r].pc = task[r].pc \/ (task[r].pc = "waiting" /\ task'[r].pc = "over")
  <2>1. CASE UNCHANGED <<task, cards>>
    BY <2>1
  <2>2. ASSUME NEW s \in SUBSET Requests, CloseCards(s)
        PROVE  \A r \in Requests : task'[r].pc = task[r].pc \/ (task[r].pc = "waiting" /\ task'[r].pc = "over")
    BY <2>2, CloseEffects
  <2> QED
    BY <1>0, <2>1, <2>2 DEF OnlyCloses
<1> USE DEF TypeOK, Waiters, Registered
<1> DEFINE Onward == \A r \in Requests : task[r].pc \in Registered =>
                       /\ task'[r].pc \in Registered
                       /\ task'[r].pc = "waiting" => task[r].pc = "waiting"
<1>1. ASSUME OnlyCloses PROVE Onward
  BY <1>0, <1>1
<1>2. ASSUME NEW q \in Requests, Register(q) PROVE Onward
  BY <1>2 DEF Register
<1>3. ASSUME NEW q \in Requests, Answer(q) PROVE Onward
  <2>1. \A r \in Requests : task'[r].pc \in {task[r].pc, "answered"}
    <3>1. PICK d \in Decisions : task' = [task EXCEPT ![q].pc = "answered", ![q].heard = d]
      BY <1>3 DEF Answer, ResolveApproval, ResolveQuestion, Answered
    <3> QED
      BY <3>1 DEF TaskStates
  <2> QED
    BY <2>1
<1>4. ASSUME NEW q \in Requests, Withdraw(q) PROVE Onward
  <2>1. CASE task[q].pc = "asked"
    BY <1>4, <2>1 DEF Withdraw
  <2>2. CASE task[q].pc = "waiting"
    <3>1. {q} \in SUBSET Requests /\ CancelNative({q})
      BY <1>4, <2>2 DEF Withdraw
    <3> QED
      BY <1>1, <3>1, CancelEffects DEF OnlyCloses
  <2>3. CASE task[q].pc = "answered"
    <3>1. task' = [task EXCEPT ![q].pc = "withdrawn"]
      BY <1>4, <2>3 DEF Withdraw
    <3> QED
      BY <2>3, <3>1 DEF TaskStates
  <2> QED
    BY <1>4, <2>1, <2>2, <2>3 DEF Withdraw
<1>5. ASSUME NEW t \in Turns, NEW q \in Requests, Ask(t, q) PROVE Onward
  BY <1>5 DEF Ask
<1>6. ASSUME NEW t \in Turns, LeaveLoop(t) PROVE Onward
  BY <1>6, LoopEffects
<1>7. ASSUME Crash PROVE Onward
  BY <1>7 DEF Crash
<1>8. ASSUME NEW q \in Requests, Replies(q) PROVE Onward
  BY <1>8 DEF Replies
<1>9. Onward => \A r \in Requests : task[r].pc \in Registered =>
                  /\ task'[r].pc \in Registered
                  /\ r \notin Waiters => r \notin Waiters'
  OBVIOUS
<1> HIDE DEF Onward, TypeOK, Waiters, Registered
<1>10. Onward
  BY <1>1, <1>2, <1>3, <1>4, <1>5, <1>6, <1>7, <1>8, OtherStepsOnlyClose
     DEF Next, Running, DriverEnds, DriverObeys
<1> QED
  BY <1>9, <1>10

(* A Stop releases first the approvals, then the questions it found.       *)
LEMMA FoundKept ==
  ASSUME IInv, Next
  PROVE  FoundAreReleased'
<1> USE DEF IInv, TypeOK
<1>1. CASE UNCHANGED stop
  BY <1>1, WaitersOnlyLeave DEF FoundAreReleased
<1>2. CASE StopBegins
  BY <1>2 DEF StopBegins, FoundAreReleased, Waiters, Registered
<1>3. CASE StopCancelsApprovals
  BY <1>3, WaitersOnlyLeave, CloseEffects, CancelEffects DEF StopCancelsApprovals, StopGoes, FoundAreReleased
<1>4. CASE StopCancelsQuestions
  <2>1. Waiters' = Waiters \ Questions
    BY <1>4, CloseEffects, CancelEffects DEF StopCancelsQuestions
  <2>2. stop.pc = "questions" /\ stop'.found = stop.found /\ stop'.pc = "dispose"
    BY <1>4 DEF StopCancelsQuestions, StopGoes
  <2>3. stop.found \cap Waiters' = {}
    BY <2>1, <2>2, CancelEffects DEF FoundAreReleased, Waiters
  <2> QED
    BY <2>2, <2>3, WaitersOnlyLeave DEF FoundAreReleased
<1>5. CASE StopDisposes
  BY <1>5, WaitersOnlyLeave DEF StopDisposes, StopGoes, FoundAreReleased, Waiters
<1>6. CASE StopWaited \/ StopEnds \/ Crash
  <2>1. stop'.found = {}
    <3>1. CASE StopWaited
      BY <3>1 DEF StopWaited, StopPcs
    <3>2. CASE StopEnds \/ Crash
      BY <3>2 DEF StopEnds, Crash, NoStop
    <3> QED
      BY <1>6, <3>1, <3>2
  <2> QED
    BY <2>1 DEF FoundAreReleased
<1>7. CASE StopCancelsSession \/ StopCancelsApprovalsAgain
  BY <1>7, WaitersOnlyLeave DEF StopCancelsSession, StopCancelsApprovalsAgain, StopGoes, FoundAreReleased
<1>8. \A t \in Turns : DriverEnds(t) \/ DriverObeys(t) \/ DriverClears(t) \/ ExitStep(t) => UNCHANGED stop
  BY DEF DriverEnds, DriverObeys, LeaveLoop, DriverClears, ExitStep, ExitArrives, ExitCommits,
     ExitRemovesEntry, ExitCancelsApprovals, ExitCancelsQuestions, ExitGoes
<1>9. \A r \in Requests :
        Register(r) \/ Answer(r) \/ Replies(r) \/ Withdraw(r) \/ (\E t \in Turns : Ask(t, r)) => UNCHANGED stop
  BY DEF Register, Answer, ResolveApproval, ResolveQuestion, Answered, Replies, Withdraw, Ask
<1>10. StartTurn \/ Recover => UNCHANGED stop
  BY DEF StartTurn, Recover
<1> QED
  BY <1>1, <1>2, <1>3, <1>4, <1>5, <1>6, <1>7, <1>8, <1>9, <1>10 DEF Next, Running, StopStep

-----------------------------------------------------------------------------
(* Answers on their way                                                    *)

(* Most steps start no turn and no task, and either leave a decision, or    *)
(* the task that serves it, as it is, or hand the decision on.             *)
Serves ==
  /\ turn' = turn
  /\ \A t \in Turns : driver'[t] = "running" => driver[t] = "running"
  /\ \A r \in Requests : task'[r].turn = task[r].turn /\ (task'[r].pc # "none" => task[r].pc # "none")
  /\ \A r \in Requests :
       \/ row'[r] \notin Decisions
       \/ driver'[task[r].turn] # "running"
       \/ told'[r] = row'[r]
       \/ task'[r].pc \in {"answered", "withdrawn"}
       \/ row'[r] = row[r] /\ told'[r] = told[r] /\ task[r].pc \notin {"answered", "withdrawn"}

LEMMA ServesKeeps ==
  ASSUME IInv, CardsOK', Serves
  PROVE  ServedOK'
<1>1. TurnsHaveStarted'
  BY DEF IInv, ServedOK, TurnsHaveStarted, Serves
<1>2. ASSUME NEW r \in Requests, row'[r] \in Decisions, driver'[task'[r].turn] = "running"
      PROVE  told'[r] = row'[r] \/ task'[r].pc \in {"answered", "withdrawn"}
  <2>1. task'[r].pc # "none" /\ task'[r].turn = task[r].turn /\ task[r].pc # "none"
    BY <1>2 DEF CardsOK, Fresh, Decisions, Serves
  <2>2. task[r].turn \in Turns
    <3>1. turn \in 0..MaxTurns /\ task[r].turn \in 1..turn
      BY <2>1 DEF IInv, TypeOK, ServedOK, TurnsHaveStarted
    <3> QED
      BY <3>1, BoundsAssumption DEF Turns, BoundsAssumption
  <2>3. driver[task[r].turn] = "running"
    BY <1>2, <2>1, <2>2 DEF Serves
  <2>4. row[r] \in Decisions => told[r] = row[r] \/ task[r].pc \in {"answered", "withdrawn"}
    BY <2>3 DEF IInv, ServedOK, AnswersGetThrough
  <2> QED
    BY <1>2, <2>1, <2>4 DEF Serves
<1> QED
  BY <1>1, <1>2 DEF ServedOK, AnswersGetThrough

(* No answer is lost as long as the driver that serves it runs.            *)
LEMMA ServedKept ==
  ASSUME IInv, Next
  PROVE  ServedOK'
<1>0. TypeOK /\ CardsOK /\ CardsOK' /\ ServedOK
  BY CardsKept DEF IInv
<1>1. CASE StartTurn
  <2>1. /\ turn < MaxTurns /\ turn' = turn + 1 /\ UNCHANGED <<task, row, told>>
        /\ driver' = [driver EXCEPT ![turn'] = "running"] /\ turn \in 0..MaxTurns
    BY <1>0, <1>1 DEF StartTurn, cards, TypeOK
  <2>2. turn + 1 \in Turns /\ driver \in [Turns -> DriverPcs]
    BY <1>0, <2>1, BoundsAssumption DEF Turns, BoundsAssumption, TypeOK
  <2>3. TurnsHaveStarted'
    <3>1. \A t \in Turns : driver'[t] = "running" => t <= turn'
      BY <1>0, <2>1, <2>2 DEF ServedOK, TurnsHaveStarted, Turns
    <3>2. 1..turn \subseteq 1..turn'
      BY <2>1
    <3> QED
      BY <1>0, <2>1, <3>1, <3>2 DEF ServedOK, TurnsHaveStarted
  <2>4. ASSUME NEW r \in Requests, row[r] \in Decisions PROVE driver'[task[r].turn] = driver[task[r].turn]
    <3>1. task[r].turn \in 1..turn
      BY <1>0, <2>4 DEF CardsOK, Fresh, Decisions, ServedOK, TurnsHaveStarted
    <3>2. task[r].turn \in Turns /\ task[r].turn # turn + 1
      BY <2>1, <3>1, BoundsAssumption DEF Turns, BoundsAssumption
    <3> QED
      BY <2>1, <2>2, <3>2
  <2> QED
    BY <1>0, <2>1, <2>3, <2>4 DEF ServedOK, AnswersGetThrough
<1>2. ASSUME NEW t \in Turns, NEW r \in Requests, Ask(t, r) PROVE ServedOK'
  <2>1. /\ driver[t] = "running" /\ task[r].pc = "none" /\ UNCHANGED <<turn, driver, row, told>>
        /\ task' = [task EXCEPT ![r] = [turn |-> t, pc |-> "asked", heard |-> "none"]]
    BY <1>2 DEF Ask, turnsV, cards
  <2>2. /\ task'[r] = [turn |-> t, pc |-> "asked", heard |-> "none"]
        /\ \A q \in Requests \ {r} : task'[q] = task[q]
    BY <1>0, <2>1 DEF TypeOK
  <2>3. t \in 1..turn
    BY <1>0, <2>1 DEF ServedOK, TurnsHaveStarted, Turns, TypeOK
  <2>4. row[r] \notin Decisions
    BY <1>0, <2>1 DEF CardsOK, Fresh, Decisions
  <2> QED
    BY <1>0, <2>1, <2>2, <2>3, <2>4 DEF ServedOK, TurnsHaveStarted, AnswersGetThrough
<1>3. CASE OnlyCloses /\ turn' = turn /\ \A t \in Turns : driver'[t] = "running" => driver[t] = "running"
  <2>1. CASE UNCHANGED <<task, cards>>
    <3>1. turn' = turn /\ UNCHANGED <<task, row, told>>
      BY <1>3, <2>1 DEF cards
    <3>2. TurnsHaveStarted'
      BY <1>0, <1>3, <3>1 DEF ServedOK, TurnsHaveStarted
    <3>3. ASSUME NEW r \in Requests, row[r] \in Decisions, driver'[task[r].turn] = "running"
          PROVE  driver[task[r].turn] = "running"
      <4>1. task[r].turn \in 1..turn /\ turn \in 0..MaxTurns
        BY <1>0, <3>3 DEF CardsOK, Fresh, Decisions, ServedOK, TurnsHaveStarted, TypeOK
      <4>2. task[r].turn \in Turns
        BY <4>1, BoundsAssumption DEF Turns, BoundsAssumption
      <4> QED
        BY <1>3, <3>3, <4>2
    <3> QED
      BY <1>0, <3>1, <3>2, <3>3 DEF ServedOK, AnswersGetThrough
  <2>2. ASSUME NEW s \in SUBSET Requests, CloseCards(s) PROVE ServedOK'
    <3>1. told' = told
      BY <2>2 DEF CloseCards
    <3>2. /\ \A r \in Requests : task'[r].turn = task[r].turn
          /\ \A r \in Requests : task'[r].pc = task[r].pc \/ (task[r].pc = "waiting" /\ task'[r].pc = "over")
          /\ \A r \in Requests : row'[r] = row[r] \/ row'[r] = "cancelled"
      BY <1>0, <2>2, CloseEffects
    <3>3. ASSUME NEW r \in Requests
          PROVE  /\ task'[r].turn = task[r].turn /\ (task'[r].pc # "none" => task[r].pc # "none")
                 /\ \/ row'[r] \notin Decisions
                    \/ task'[r].pc \in {"answered", "withdrawn"}
                    \/ row'[r] = row[r] /\ told'[r] = told[r] /\ task[r].pc \notin {"answered", "withdrawn"}
      <4>1. CASE task'[r].pc = task[r].pc
        BY <3>1, <3>2, <4>1 DEF Decisions
      <4>2. CASE task[r].pc = "waiting" /\ task'[r].pc = "over"
        BY <3>1, <3>2, <4>2 DEF Decisions
      <4> QED
        BY <3>2, <4>1, <4>2
    <3>4. Serves
      BY <1>3, <3>3 DEF Serves
    <3> QED
      BY <1>0, <3>4, ServesKeeps
  <2> QED
    BY <1>3, <2>1, <2>2 DEF OnlyCloses
<1>4. StopBegins \/ StopStep \/ Recover => turn' = turn /\ driver' = driver
  BY DEF StopBegins, StopStep, StopCancelsApprovals, StopCancelsQuestions, StopDisposes, StopWaited,
     StopCancelsSession, StopCancelsApprovalsAgain, StopEnds, StopGoes, Recover, turnsV
<1>5. ASSUME NEW t \in Turns, DriverClears(t) \/ ExitStep(t)
      PROVE  turn' = turn /\ \A u \in Turns : driver'[u] = "running" => driver[u] = "running"
  BY <1>0, <1>5 DEF TypeOK, DriverClears, ExitStep, ExitArrives, ExitCommits, ExitRemovesEntry,
     ExitCancelsApprovals, ExitCancelsQuestions, ExitGoes
<1>6. ASSUME NEW r \in Requests, Register(r) \/ Answer(r) \/ Replies(r) \/ Withdraw(r) PROVE ServedOK'
  <2>0. turn' = turn /\ driver' = driver
    BY <1>6 DEF Register, Answer, ResolveApproval, ResolveQuestion, Answered, Replies, Withdraw, turnsV
  <2>1. CASE Register(r)
    <3>1. /\ told' = told /\ task[r].pc \in {"asked", "aborted"}
          /\ row' = [row EXCEPT ![r] = "pending"] \/ row' = row
          /\ \E pc \in {"waiting", "over"} : task' = [task EXCEPT ![r].pc = pc]
      BY <2>1 DEF Register
    <3>2. row'[r] \notin Decisions /\ \A q \in Requests \ {r} : row'[q] = row[q]
      BY <1>0, <3>1 DEF TypeOK, CardsOK, Fresh, Decisions
    <3>3. /\ task'[r].turn = task[r].turn /\ task'[r].pc \in {"waiting", "over"}
          /\ \A q \in Requests \ {r} : task'[q] = task[q]
      BY <1>0, <3>1 DEF TypeOK, TaskStates
    <3>4. Serves
      BY <2>0, <3>1, <3>2, <3>3 DEF Serves
    <3> QED
      BY <1>0, <3>4, ServesKeeps
  <2>2. CASE Answer(r)
    <3>1. PICK d \in Decisions : Answered(r, d) /\ task[r].pc = "waiting"
      BY <2>2 DEF Answer, ResolveApproval, ResolveQuestion, Connected
    <3>2. /\ told' = told /\ \A q \in Requests \ {r} : row'[q] = row[q] /\ task'[q] = task[q]
          /\ task'[r].turn = task[r].turn /\ task'[r].pc = "answered"
      BY <1>0, <3>1 DEF Answered, TypeOK, TaskStates
    <3>3. Serves
      BY <2>0, <3>1, <3>2 DEF Serves
    <3> QED
      BY <1>0, <3>3, ServesKeeps
  <2>3. CASE Replies(r)
    <3>1. /\ task[r].pc = "answered" /\ row' = row /\ task' = [task EXCEPT ![r].pc = "over"]
          /\ \/ told' = [told EXCEPT ![r] = task[r].heard]
             \/ driver[task[r].turn] # "running" /\ told' = told
      BY <2>3 DEF Replies
    <3>2. row[r] = task[r].heard
      BY <1>0, <3>1 DEF CardsOK, ToldWhatIsRecorded, Repliers
    <3>3. /\ task'[r].turn = task[r].turn /\ task'[r].pc = "over"
          /\ \A q \in Requests \ {r} : task'[q] = task[q]
      BY <1>0, <3>1 DEF TypeOK, TaskStates
    <3>4. /\ \A q \in Requests \ {r} : told'[q] = told[q]
          /\ told'[r] = row[r] \/ driver[task[r].turn] # "running"
      BY <1>0, <3>1, <3>2 DEF TypeOK
    <3>5. Serves
      BY <2>0, <3>1, <3>3, <3>4 DEF Serves
    <3> QED
      BY <1>0, <3>5, ServesKeeps
  <2>4. CASE Withdraw(r)
    <3>1. CASE task[r].pc = "waiting"
      <4>1. {r} \in SUBSET Requests /\ CancelNative({r})
        BY <2>4, <3>1 DEF Withdraw
      <4>2. OnlyCloses
        BY <1>0, <4>1, CancelEffects DEF OnlyCloses
      <4> QED
        BY <1>3, <2>0, <4>2
    <3>2. CASE task[r].pc \in {"asked", "answered"}
      <4>1. UNCHANGED <<row, told>> /\ \E pc \in {"over", "aborted", "withdrawn"} :
              task' = [task EXCEPT ![r].pc = pc] /\ (task[r].pc = "answered" => pc = "withdrawn")
        BY <2>4, <3>2 DEF Withdraw, cards
      <4>2. /\ task'[r].turn = task[r].turn
            /\ task[r].pc = "answered" => task'[r].pc = "withdrawn"
            /\ \A q \in Requests \ {r} : task'[q] = task[q]
        BY <1>0, <4>1 DEF TypeOK, TaskStates
      <4>3. task[r].pc = "asked" => row'[r] \notin Decisions
        BY <1>0, <4>1 DEF CardsOK, Fresh, Decisions
      <4>4. Serves
        BY <2>0, <3>2, <4>1, <4>2, <4>3 DEF Serves
      <4> QED
        BY <1>0, <4>4, ServesKeeps
    <3> QED
      BY <2>4, <3>1, <3>2 DEF Withdraw
  <2> QED
    BY <1>6, <2>1, <2>2, <2>3, <2>4
<1>7. ASSUME NEW t \in Turns, LeaveLoop(t) PROVE ServedOK'
  <2>1. turn' = turn /\ driver' = [driver EXCEPT ![t] = "ending"] /\ UNCHANGED <<row, told>>
    BY <1>7 DEF LeaveLoop, cards
  <2>2. driver'[t] # "running" /\ \A u \in Turns : driver'[u] = "running" => driver[u] = "running"
    BY <1>0, <2>1 DEF TypeOK
  <2>3. \A r \in Requests :
          /\ task'[r].turn = task[r].turn
          /\ \/ task'[r].pc = task[r].pc
             \/ task[r].pc = "asked" /\ task'[r].pc \in {"aborted", "over"}
             \/ task[r].pc \in {"waiting", "answered"} /\ task[r].turn = t /\ task'[r].pc = "over"
    BY <1>0, <1>7, LoopEffects
  <2>4. Serves
    BY <2>1, <2>2, <2>3 DEF Serves
  <2> QED
    BY <1>0, <2>4, ServesKeeps
<1>8. CASE Crash
  <2>1. /\ turn' = turn /\ \A u \in Turns : driver'[u] # "running"
        /\ UNCHANGED <<row, told>>
    BY <1>8 DEF Crash
  <2>2. \A r \in Requests : task'[r].turn = task[r].turn /\ (task'[r].pc # "none" => task[r].pc # "none")
    BY <1>0, <1>8 DEF Crash, TypeOK, TaskStates
  <2>3. ASSUME NEW r \in Requests, row[r] \in Decisions PROVE driver'[task'[r].turn] # "running"
    <3>1. task[r].turn \in 1..turn /\ turn \in 0..MaxTurns
      BY <1>0, <2>3 DEF CardsOK, Fresh, Decisions, ServedOK, TurnsHaveStarted, TypeOK
    <3>2. task[r].turn \in Turns
      BY <3>1, BoundsAssumption DEF Turns, BoundsAssumption
    <3> QED
      BY <2>1, <2>2, <3>2
  <2> QED
    BY <1>0, <2>1, <2>2, <2>3 DEF ServedOK, TurnsHaveStarted, AnswersGetThrough
<1>9. CASE \/ StopBegins \/ StopStep \/ Recover
           \/ \E t \in Turns : DriverClears(t) \/ ExitStep(t)
  BY <1>0, <1>3, <1>4, <1>5, <1>9, OtherStepsOnlyClose
<1> QED
  BY <1>1, <1>2, <1>6, <1>7, <1>8, <1>9 DEF Next, Running, DriverEnds, DriverObeys

-----------------------------------------------------------------------------
(* The invariant                                                           *)

LEMMA InitIInv == Init => IInv
<1> SUFFICES ASSUME Init PROVE IInv
  OBVIOUS
<1> USE BoundsAssumption DEF Init, BoundsAssumption
<1>1. driver \in [Turns -> DriverPcs] /\ exit \in [Turns -> ExitPcs]
  BY DEF DriverPcs, ExitPcs
<1>2. row \in [Requests -> RowStates] /\ told \in [Requests -> Decisions \cup {"none"}]
      /\ task \in [Requests -> TaskStates]
  BY DEF RowStates, TaskPcs, TaskStates
<1>3. stop \in [pc : StopPcs, entry : 0..MaxTurns, found : SUBSET Requests]
  BY DEF NoStop, StopPcs
<1>4. TypeOK
  BY <1>1, <1>2, <1>3 DEF TypeOK
<1>5. CardsOK
  BY DEF CardsOK, ToldWhatIsRecorded, WaitersCanBeWoken, Waiters, Fresh, Decisions, Repliers
<1>6. ApprovalsHaveAnEnd /\ QuestionsHaveAnEnd
  BY DEF ApprovalsHaveAnEnd, QuestionsHaveAnEnd, Open
<1>7. FoundAreReleased
  BY DEF FoundAreReleased, NoStop
<1>8. ServedOK
  BY DEF ServedOK, TurnsHaveStarted, AnswersGetThrough, Decisions
<1> QED
  BY <1>4, <1>5, <1>6, <1>7, <1>8 DEF IInv

LEMMA Stutters == ASSUME IInv, UNCHANGED vars PROVE IInv'
<1> USE DEF vars, turnsV, cards, faults, IInv
<1>1. TypeOK' /\ CardsOK'
  BY DEF TypeOK, CardsOK, ToldWhatIsRecorded, Repliers, WaitersCanBeWoken, Waiters, Open, Fresh
<1>2. ApprovalsHaveAnEnd' /\ QuestionsHaveAnEnd' /\ FoundAreReleased'
  BY DEF ApprovalsHaveAnEnd, QuestionsHaveAnEnd, FoundAreReleased, Open, Waiters, terminating
<1>3. ServedOK'
  BY DEF ServedOK, TurnsHaveStarted, AnswersGetThrough
<1> QED
  BY <1>1, <1>2, <1>3

LEMMA Inductive == IInv /\ [Next]_vars => IInv'
BY TypesKept, CardsKept, EndsKept, FoundKept, ServedKept, Stutters DEF IInv

-----------------------------------------------------------------------------
(* Theorems                                                                *)

(* Records, waiters and what the provider was told agree, and what a        *)
(* session's end finds it releases, whichever request, answer or cleanup    *)
(* comes first (ApprovalService, QuestionService).                          *)
THEOREM Invariant == Spec => []IInv
BY InitIInv, Inductive, PTL DEF Spec

(* Whatever the provider asks and whoever answers or cancels, the state of  *)
(* the two services is well typed.                                          *)
THEOREM TypeCorrect == Spec => []TypeOK
<1>1. IInv => TypeOK
  BY DEF IInv
<1> QED
  BY <1>1, Invariant, PTL

(* Whatever the provider hears is what the card shows as decided, and no    *)
(* cancellation overtakes a decision that is on its way to the provider     *)
(* (ApprovalService::resolve, QuestionService::resolve).                    *)
THEOREM AuditIsTrue == Spec => []ToldWhatIsRecorded
<1>1. IInv => ToldWhatIsRecorded
  BY DEF IInv, CardsOK
<1> QED
  BY <1>1, Invariant, PTL

(* A recorded decision reaches the provider as long as the driver of the    *)
(* turn serves it and the provider has not taken the request back           *)
(* (the drivers' request tasks).                                            *)
THEOREM AnswersAreServed == Spec => []AnswersGetThrough
<1>1. IInv => AnswersGetThrough
  BY DEF IInv, ServedOK
<1> QED
  BY <1>1, Invariant, PTL

(* No request waits out of reach of an answer and of every cleanup          *)
(* (register_native, cancel_session_pending).                               *)
THEOREM NobodyHangs == Spec => []WaitersCanBeWoken
<1>1. IInv => WaitersCanBeWoken
  BY DEF IInv, CardsOK
<1> QED
  BY <1>1, Invariant, PTL

(* When an exit, a Stop or a recovery has torn a turn down, no card is left *)
(* to answer, but one that was open when the app died after the session had *)
(* ended (cancel_pending_interactions, recover_orphaned_sessions).          *)
THEOREM CardsEndWithTheirTurn == Spec => []NoCardOutlivesItsTurn
<1>1. IInv => NoCardOutlivesItsTurn
  <2> SUFFICES ASSUME IInv, Quiet, session \notin Active PROVE Open \subseteq left
    BY DEF NoCardOutlivesItsTurn
  <2>1. stop.pc \notin Stopping /\ ~terminating
        /\ \A t \in Turns : exit[t] \notin {"committed", "removed", "questions"}
    BY DEF Quiet, terminating, Stopping
  <2>2. Open \cap Approvals \subseteq left /\ Open \cap Questions \subseteq left
    BY <2>1 DEF IInv, ApprovalsHaveAnEnd, QuestionsHaveAnEnd
  <2> QED
    BY <2>2 DEF Open, Approvals
<1> QED
  BY <1>1, Invariant, PTL

(* Whoever waited when a Stop began is released before the Stop waits for   *)
(* the provider (finish_termination).                                       *)
THEOREM ReleasedFirst == Spec => []ReleasedBeforeWaiting
<1>1. IInv => ReleasedBeforeWaiting
  BY DEF IInv, FoundAreReleased, ReleasedBeforeWaiting
<1> QED
  BY <1>1, Invariant, PTL

(* Neither an answer, nor a withdrawal, nor a late request revives a        *)
(* session that has ended: the next turn does (ApprovalService::resolve).   *)
THEOREM EndIsFinal == Spec => EndedStaysEnded
<1>1. ASSUME Next, session = "ended", session' \in Active PROVE turn' = turn + 1
  <2> USE <1>1 DEF Active
  <2>1. ASSUME NEW r \in Requests, Register(r) \/ Answer(r) \/ Replies(r) \/ Withdraw(r) PROVE FALSE
    BY <2>1 DEF Register, Answer, ResolveApproval, ResolveQuestion, Replies, Withdraw, CancelNative, cards
  <2>2. ASSUME NEW t \in Turns, DriverEnds(t) \/ DriverObeys(t) \/ DriverClears(t) PROVE FALSE
    BY <2>2 DEF DriverEnds, DriverObeys, LeaveLoop, DriverClears, CancelNative
  <2>3. ASSUME NEW t \in Turns, ExitStep(t) PROVE FALSE
    BY <2>3 DEF ExitStep, ExitArrives, ExitCommits, ExitRemovesEntry, ExitCancelsApprovals,
       ExitCancelsQuestions
  <2>4. ASSUME StopStep PROVE FALSE
    BY <2>4 DEF StopStep, StopCancelsApprovals, StopCancelsQuestions, StopDisposes, StopWaited,
       StopCancelsSession, StopCancelsApprovalsAgain, StopEnds
  <2>5. ASSUME NEW t \in Turns, NEW r \in Requests, Ask(t, r) PROVE FALSE
    BY <2>5 DEF Ask
  <2>6. ASSUME StopBegins \/ Crash \/ Recover PROVE FALSE
    BY <2>6 DEF StopBegins, Crash, Recover
  <2>7. CASE StartTurn
    BY <2>7 DEF StartTurn
  <2> QED
    BY <1>1, <2>1, <2>2, <2>3, <2>4, <2>5, <2>6, <2>7 DEF Next, Running
<1>2. [Next]_vars => [session = "ended" /\ session' \in Active => turn' = turn + 1]_vars
  BY <1>1
<1> QED
  BY <1>2, PTL DEF Spec, EndedStaysEnded
=============================================================================
