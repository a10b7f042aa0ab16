-------------------------- MODULE FollowUpDelivery --------------------------
(***************************************************************************)
(* How a message sent to a busy session reaches it: the pending_messages   *)
(* journal of src/src-tauri/src/persistence/pending_messages.rs, its       *)
(* owners in providers/session_service.rs (enqueue, drain, Send now,       *)
(* steer, multitask, cancel, Stop, /clear), and the session_messages inbox *)
(* an agent collects from mid-turn.                                        *)
(*                                                                         *)
(* One session.  A row of the journal is visible (pending, recovered or    *)
(* delivery-unknown), launching, or deleted; the queue in memory holds the *)
(* visible rows, since every operation changes both with the database      *)
(* writer held.  A message queued again while it was being delivered gets  *)
(* a fresh row, hence the numbered copies.  Positions are left out: a      *)
(* drain takes any pending row.  Turns are as in ProviderTurn, with the    *)
(* steps of a relaunch, of an exit and of a Stop taken together where the  *)
(* locks of the code keep the queue out.                                   *)
(***************************************************************************)
EXTENDS Naturals, FiniteSets

CONSTANTS
  Msgs,          \* messages that may be sent to the session
  InboxMsgs,     \* those another session sent, which have an inbox row
  MaxCopies,     \* bound on the journal rows of one message
  UserModes,     \* what the user does with a queued row: promote, steer, multitask
  AgentSteers,   \* whether the provider takes an agent's message as steering
  SendsRefused,  \* whether a send may be refused: an archiving workspace, say
  MaxActions,    \* bound on the queued rows the user or an agent picks
  MaxStops,      \* bound on the user's Stops
  MaxCrashes     \* bound on crashes of the app

ASSUME ConstantsAssumption ==
  /\ InboxMsgs \subseteq Msgs
  /\ UserModes \subseteq {"promote", "steer", "multitask"}
  /\ {AgentSteers, SendsRefused} \subseteq BOOLEAN
  /\ MaxCopies \in Nat \ {0}
  /\ {MaxActions, MaxStops, MaxCrashes} \subseteq Nat

Rows == Msgs \X (1..MaxCopies)
Msg(r) == r[1]

VARIABLES
  row,         \* pending_messages.delivery_state
  inbox,       \* session_messages.delivered_at: none, open or delivered
  claim,       \* per row: the task that marked it launching, and its progress
  promotion,   \* the session is in queue_promotions
  drains,      \* drain_queue_after_complete calls that have yet to pop
  rechecks,    \* drain_queue_if_turn_ended calls that have yet to look
  collected,   \* messages an inbox_read took and has yet to reconcile
  sendPc,      \* per message: progress of its sender
  sendGen,     \* per message: the generation its sender captured
  handle,      \* handles[session]: none, Pending or a live provider
  running,     \* the session's state is active
  generation,  \* send_generations[session]
  job,         \* the termination job: none, clearing the queue, or stopping
  budget,      \* what is left of MaxActions, MaxStops and MaxCrashes
  got,         \* history: how each message reached a model, in order
  settled      \* history: what a person decided about a message

queueVars == <<row, inbox, claim, promotion, collected>>
callVars  == <<drains, rechecks>>
sendVars  == <<sendPc, sendGen>>
turnVars  == <<handle, running>>
stopVars  == <<generation, job>>
histVars  == <<got, settled>>
vars == <<queueVars, callVars, sendVars, turnVars, stopVars, budget, histVars>>

Visible   == {"pending", "recovered", "unknown"}
RowStates == Visible \cup {"none", "launching", "deleted"}
Promoters == {"promote", "steer", "agentSteer", "multitask"}
ClaimPcs  == {"none", "claimed", "admitted", "steering", "lost", "accepted", "waiting",
              "ready", "sending", "queueing", "sent", "requeued", "launching", "launched"}
SendPcs   == {"new", "captured", "queueing", "steer", "started", "done"}
Routes    == {"turn", "steer", "inbox", "sibling"}
Verdicts  == {"dropped", "resent", "parked", "uncertain"}

NoClaim == [by |-> "none", pc |-> "none", gen |-> 0, prior |-> "pending"]

TypeOK ==
  /\ row \in [Rows -> RowStates]
  /\ inbox \in [Msgs -> {"none", "open", "delivered"}]
  /\ claim \in [Rows -> [by : Promoters \cup {"none", "drain"}, pc : ClaimPcs,
                         gen : Nat, prior : Visible]]
  /\ promotion \in BOOLEAN
  /\ drains \in Nat /\ rechecks \in Nat
  /\ collected \subseteq InboxMsgs
  /\ sendPc \in [Msgs -> SendPcs] /\ sendGen \in [Msgs -> Nat]
  /\ handle \in {"none", "pending", "live"} /\ running \in BOOLEAN
  /\ generation \in Nat /\ job \in {"none", "clearing", "stopping"}
  /\ budget \in [{"actions", "stops", "crashes"} -> Nat]
  /\ settled \in [Msgs -> SUBSET Verdicts]
  /\ got \in [Msgs -> [Routes -> 0..2]]

(* A chat in its first turn, or idle after one, with nothing queued. *)
Init ==
  /\ row = [r \in Rows |-> "none"]
  /\ inbox = [m \in Msgs |-> "none"]
  /\ claim = [r \in Rows |-> NoClaim]
  /\ promotion = FALSE
  /\ drains = 0 /\ rechecks = 0
  /\ collected = {}
  /\ sendPc = [m \in Msgs |-> "new"] /\ sendGen = [m \in Msgs |-> 0]
  /\ handle \in {"none", "live"} /\ running = (handle = "live")
  /\ generation = 0 /\ job = "none"
  /\ budget = [actions |-> MaxActions, stops |-> MaxStops, crashes |-> MaxCrashes]
  /\ got = [m \in Msgs |-> [via \in Routes |-> 0]]
  /\ settled = [m \in Msgs |-> {}]

-----------------------------------------------------------------------------
(* Shared pieces                                                           *)

Spend(kind) == budget[kind] > 0 /\ budget' = [budget EXCEPT ![kind] = @ - 1]

Reaches(m, via) == got' = [got EXCEPT ![m][via] = IF @ < 2 THEN @ + 1 ELSE @]
IsDelivered(m) == inbox[m] = "delivered"
Settle(ms, verdict) == settled' = [m \in Msgs |-> settled[m] \cup IF m \in ms THEN {verdict} ELSE {}]

(* The send_generations mutex and the checkout lock, held while a send     *)
(* that found a handle adds its row.                                       *)
SendLockFree ==
  /\ \A m \in Msgs : sendPc[m] # "queueing"
  /\ \A r \in Rows : claim[r].pc # "queueing"

StartsTurn == handle = "none" /\ handle' = "pending" /\ running' = TRUE

(* mark_message_launching and the queue_promotions guard *)
Claimed(r, by) ==
  /\ row' = [row EXCEPT ![r] = "launching"]
  /\ claim' = [claim EXCEPT ![r] = [NoClaim EXCEPT !.by = by, !.pc = "claimed", !.prior = row[r]]]
  /\ promotion' = (promotion \/ by \in Promoters)

Resent(r) == IF row[r] = "unknown" THEN {"resent"} ELSE {}

Advance(r, pc) == claim' = [claim EXCEPT ![r].pc = pc]

(* restore_launching_message: a row that is gone stays gone. *)
Restored(r, status) == [row EXCEPT ![r] = IF @ = "launching" THEN status ELSE @]

(* A promotion ends by giving up the guard, whoever took it since. *)
ReleasedKept(r) == promotion
Released(r) == promotion /\ claim[r].by \notin Promoters

EndClaim(r, status) ==
  /\ row' = IF status = "deleted" THEN [row EXCEPT ![r] = "deleted"] ELSE Restored(r, status)
  /\ claim' = [claim EXCEPT ![r] = NoClaim]
  /\ promotion' = Released(r)

(* start_termination *)
StopStarts(preserve) ==
  /\ SendLockFree /\ job # "clearing"
  /\ generation' = generation + 1
  /\ IF job # "none" THEN UNCHANGED <<job, handle>>
     ELSE IF preserve THEN job' = "stopping" /\ handle' = "none"
     ELSE job' = "clearing" /\ UNCHANGED handle

-----------------------------------------------------------------------------
(* A sender: session_message or the composer, then send_input_scoped       *)

(* The inbox row is written before the send; a send during a Stop fails.   *)
Submit(m) ==
  /\ sendPc[m] = "new"
  /\ inbox' = [inbox EXCEPT ![m] = IF m \in InboxMsgs THEN "open" ELSE @]
  /\ sendGen' = [sendGen EXCEPT ![m] = generation]
  /\ IF job = "none"
       THEN sendPc' = [sendPc EXCEPT ![m] = "captured"] /\ UNCHANGED settled
       ELSE sendPc' = [sendPc EXCEPT ![m] = "done"] /\ Settle({m}, "dropped")
  /\ UNCHANGED <<row, claim, promotion, collected, callVars, turnVars, stopVars, budget, got>>

SendFails(m) ==
  /\ sendPc[m] = "captured"
  /\ sendGen[m] # generation \/ SendsRefused
  /\ sendPc' = [sendPc EXCEPT ![m] = "done"]
  /\ Settle({m}, "dropped")
  /\ UNCHANGED <<queueVars, callVars, sendGen, turnVars, stopVars, budget, got>>

SendStartsTurn(m) ==
  /\ sendPc[m] = "captured" /\ SendLockFree
  /\ sendGen[m] = generation
  /\ StartsTurn
  /\ Reaches(m, "turn")
  /\ sendPc' = [sendPc EXCEPT ![m] = "started"]
  /\ UNCHANGED <<queueVars, callVars, sendGen, stopVars, budget, settled>>

SendFindsHandle(m) ==
  /\ sendPc[m] = "captured" /\ SendLockFree
  /\ sendGen[m] = generation
  /\ handle # "none"
  /\ sendPc' = [sendPc EXCEPT ![m] = "queueing"]
  /\ UNCHANGED <<queueVars, callVars, sendGen, turnVars, stopVars, budget, histVars>>

(* enqueue_pending_message, and the look for a turn that ended meanwhile.  *)
(* A sender that wants to steer tries that instead of looking; whether its *)
(* provider was live when it was routed is left open.                      *)
SteersAtOnce(m) == IF m \in InboxMsgs THEN AgentSteers ELSE "steer" \in UserModes

SendEnqueueUnchecked(m) ==
  /\ sendPc[m] = "queueing"
  /\ row' = [row EXCEPT ![<<m, 1>>] = "pending"]
  /\ sendPc' = [sendPc EXCEPT ![m] = "done"]
  /\ UNCHANGED <<inbox, claim, promotion, collected, callVars, sendGen, turnVars, stopVars,
                 budget, histVars>>

SendEnqueue(m) ==
  /\ sendPc[m] = "queueing"
  /\ IF IsDelivered(m)
       THEN sendPc' = [sendPc EXCEPT ![m] = "done"] /\ UNCHANGED <<row, rechecks>>
       ELSE /\ row' = [row EXCEPT ![<<m, 1>>] = "pending"]
            /\ \/ sendPc' = [sendPc EXCEPT ![m] = "done"] /\ rechecks' = rechecks + 1
               \/ SteersAtOnce(m) /\ sendPc' = [sendPc EXCEPT ![m] = "steer"] /\ UNCHANGED rechecks
  /\ UNCHANGED <<inbox, claim, promotion, collected, drains, sendGen, turnVars, stopVars,
                 budget, histVars>>

(* promote_queued_message by the sender itself; it does not look again if  *)
(* another promotion is under way or a drain has taken the row.            *)
SendSteers(m) ==
  /\ sendPc[m] = "steer"
  /\ sendPc' = [sendPc EXCEPT ![m] = "done"]
  /\ IF promotion \/ row[<<m, 1>>] \notin Visible
       THEN UNCHANGED <<row, claim, promotion, settled>>
       ELSE /\ Claimed(<<m, 1>>, IF m \in InboxMsgs THEN "agentSteer" ELSE "steer")
            /\ settled' = [settled EXCEPT ![m] = @ \cup Resent(<<m, 1>>)]
  /\ UNCHANGED <<inbox, collected, callVars, sendGen, turnVars, stopVars, budget, got>>

(* The sender of a message that started a turn closes its inbox row. *)
SendCloses(m) ==
  /\ sendPc[m] = "started"
  /\ sendPc' = [sendPc EXCEPT ![m] = "done"]
  /\ inbox' = [inbox EXCEPT ![m] = IF @ = "open" THEN "delivered" ELSE @]
  /\ UNCHANGED <<row, claim, promotion, collected, callVars, sendGen, turnVars, stopVars,
                 budget, histVars>>

-----------------------------------------------------------------------------
(* drain_queue_if_turn_ended and drain_queue_after_complete                *)

Recheck ==
  /\ rechecks > 0
  /\ rechecks' = rechecks - 1
  /\ drains' = IF handle = "none" /\ ~running THEN drains + 1 ELSE drains
  /\ UNCHANGED <<queueVars, sendVars, turnVars, stopVars, budget, histVars>>

(* pop_next_undelivered skips what a failure or a restart parked. *)
DrainPopParked(r) ==
  /\ drains > 0 /\ ~promotion
  /\ row[r] \in Visible
  /\ Claimed(r, "drain")
  /\ drains' = drains - 1
  /\ UNCHANGED <<inbox, collected, rechecks, sendVars, turnVars, stopVars, budget, histVars>>

DrainPop(r) ==
  /\ drains > 0 /\ ~promotion
  /\ row[r] = "pending"
  /\ Claimed(r, "drain")
  /\ drains' = drains - 1
  /\ UNCHANGED <<inbox, collected, rechecks, sendVars, turnVars, stopVars, budget, histVars>>

DrainNothing ==
  /\ drains > 0
  /\ promotion \/ \A r \in Rows : row[r] # "pending"
  /\ drains' = drains - 1
  /\ UNCHANGED <<queueVars, rechecks, sendVars, turnVars, stopVars, budget, histVars>>

(* A row whose message was collected meanwhile is dropped for the next one. *)
DrainAdmit(r) ==
  /\ claim[r].by = "drain" /\ claim[r].pc = "claimed"
  /\ IF IsDelivered(Msg(r))
       THEN EndClaim(r, "deleted") /\ drains' = drains + 1
       ELSE Advance(r, "ready") /\ UNCHANGED <<row, promotion, drains>>
  /\ UNCHANGED <<inbox, collected, rechecks, sendVars, turnVars, stopVars, budget, histVars>>

DrainFinishOpen(r) ==
  /\ claim[r].by = "drain" /\ claim[r].pc \in {"sent", "requeued"}
  /\ EndClaim(r, "deleted")
  /\ UNCHANGED <<inbox, collected, callVars, sendVars, turnVars, stopVars, budget, histVars>>

DrainFinish(r) ==
  /\ claim[r].by = "drain" /\ claim[r].pc \in {"sent", "requeued"}
  /\ EndClaim(r, "deleted")
  /\ inbox' = [inbox EXCEPT ![Msg(r)] =
                 IF claim[r].pc = "sent" /\ @ = "open" THEN "delivered" ELSE @]
  /\ UNCHANGED <<collected, callVars, sendVars, turnVars, stopVars, budget, histVars>>

-----------------------------------------------------------------------------
(* send_input_scoped for a claimed row: drains and Send now                *)

ClaimCapture(r) ==
  /\ claim[r].pc = "ready"
  /\ IF job # "none"
       THEN EndClaim(r, claim[r].prior)
       ELSE /\ claim' = [claim EXCEPT ![r].pc = "sending", ![r].gen = generation]
            /\ UNCHANGED <<row, promotion>>
  /\ UNCHANGED <<inbox, collected, callVars, sendVars, turnVars, stopVars, budget, histVars>>

ClaimFailsDropped(r) ==
  /\ claim[r].pc = "sending"
  /\ claim[r].gen # generation \/ SendsRefused
  /\ EndClaim(r, "deleted")
  /\ UNCHANGED <<inbox, collected, callVars, sendVars, turnVars, stopVars, budget, histVars>>

ClaimFails(r) ==
  /\ claim[r].pc = "sending"
  /\ claim[r].gen # generation \/ SendsRefused
  /\ EndClaim(r, claim[r].prior)
  /\ UNCHANGED <<inbox, collected, callVars, sendVars, turnVars, stopVars, budget, histVars>>

ClaimStartsTurn(r) ==
  /\ claim[r].pc = "sending" /\ SendLockFree
  /\ claim[r].gen = generation
  /\ StartsTurn
  /\ Reaches(Msg(r), "turn")
  /\ Advance(r, "sent")
  /\ UNCHANGED <<row, inbox, promotion, collected, callVars, sendVars, stopVars, budget, settled>>

SpareRows(m) == {r \in Rows : Msg(r) = m /\ row[r] = "none"}

ClaimFindsHandle(r) ==
  /\ claim[r].pc = "sending" /\ SendLockFree
  /\ claim[r].gen = generation
  /\ handle # "none"
  /\ SpareRows(Msg(r)) # {}
  /\ Advance(r, "queueing")
  /\ UNCHANGED <<row, inbox, promotion, collected, callVars, sendVars, turnVars, stopVars,
                 budget, histVars>>

(* The message waits under a fresh row, unless it was collected meanwhile. *)
ClaimRequeue(r) ==
  /\ claim[r].pc = "queueing"
  /\ IF IsDelivered(Msg(r))
       THEN Advance(r, "sent") /\ UNCHANGED <<row, rechecks>>
       ELSE /\ \E q \in SpareRows(Msg(r)) :
                 /\ \A spare \in SpareRows(Msg(r)) : q[2] <= spare[2]
                 /\ row' = [row EXCEPT ![q] = "pending"]
            /\ Advance(r, "requeued")
            /\ rechecks' = rechecks + 1
  /\ UNCHANGED <<inbox, promotion, collected, drains, sendVars, turnVars, stopVars, budget,
                 histVars>>

-----------------------------------------------------------------------------
(* What a person does with a visible row                                   *)

Pick(r, by) ==
  /\ by \in UserModes
  /\ ~promotion
  /\ row[r] \in Visible
  /\ Spend("actions")
  /\ Claimed(r, by)
  /\ settled' = [settled EXCEPT ![Msg(r)] = (@ \ {"parked"}) \cup Resent(r)]
  /\ UNCHANGED <<inbox, collected, callVars, sendVars, turnVars, stopVars, got>>

CancelQueued(r) ==
  /\ row[r] \in Visible
  /\ row' = [row EXCEPT ![r] = "deleted"]
  /\ Settle({Msg(r)}, "dropped")
  /\ UNCHANGED <<inbox, claim, promotion, collected, callVars, sendVars, turnVars, stopVars,
                 budget, got>>

(* promote_queued_message: stop the turn but keep the queue, then send.    *)
PromoteAdmit(r) ==
  /\ claim[r].by = "promote" /\ claim[r].pc = "claimed"
  /\ IF IsDelivered(Msg(r))
       THEN EndClaim(r, "deleted") /\ UNCHANGED <<handle, stopVars>>
       ELSE StopStarts(TRUE) /\ Advance(r, "waiting") /\ UNCHANGED <<row, promotion>>
  /\ UNCHANGED <<inbox, collected, callVars, sendVars, running, budget, histVars>>

(* A Stop takes the guard away while the promotion waits. *)
PromoteResumeGuarded(r) ==
  /\ claim[r].pc = "waiting"
  /\ job = "none" /\ promotion
  /\ Advance(r, "ready")
  /\ UNCHANGED <<row, inbox, promotion, collected, callVars, sendVars, turnVars, stopVars,
                 budget, histVars>>

PromoteResume(r) ==
  /\ claim[r].pc = "waiting"
  /\ job = "none"
  /\ IF promotion
       THEN Advance(r, "ready") /\ UNCHANGED <<row, promotion>>
       ELSE EndClaim(r, claim[r].prior)
  /\ UNCHANGED <<inbox, collected, callVars, sendVars, turnVars, stopVars, budget, histVars>>

PromoteFinish(r) ==
  /\ claim[r].by = "promote" /\ claim[r].pc \in {"sent", "requeued"}
  /\ EndClaim(r, "deleted")
  /\ IF promotion THEN UNCHANGED <<handle, stopVars>> ELSE StopStarts(FALSE)
  /\ UNCHANGED <<inbox, collected, callVars, sendVars, running, budget, histVars>>

(* dispatch_queued: the row's text opens a sibling chat instead.           *)
MultitaskAdmit(r) ==
  /\ claim[r].by = "multitask" /\ claim[r].pc = "claimed"
  /\ IF IsDelivered(Msg(r)) THEN EndClaim(r, "deleted")
     ELSE Advance(r, "launching") /\ UNCHANGED <<row, promotion>>
  /\ UNCHANGED <<inbox, collected, callVars, sendVars, turnVars, stopVars, budget, histVars>>

MultitaskLaunch(r) ==
  /\ claim[r].pc = "launching"
  /\ Reaches(Msg(r), "sibling")
  /\ Advance(r, "launched")
  /\ UNCHANGED <<row, inbox, promotion, collected, callVars, sendVars, turnVars, stopVars,
                 budget, settled>>

(* finish_queued_message_multitask, and restore_ when nothing was launched *)
MultitaskEnd(r) ==
  /\ \/ claim[r].pc = "launched" /\ EndClaim(r, "deleted")
     \/ claim[r].pc = "launching" /\ EndClaim(r, claim[r].prior)
  /\ UNCHANGED <<inbox, collected, callVars, sendVars, turnVars, stopVars, budget, histVars>>

-----------------------------------------------------------------------------
(* Steering: the row is pushed into the running turn                       *)

SteerAdmit(r) ==
  /\ claim[r].by \in {"steer", "agentSteer"} /\ claim[r].pc = "claimed"
  /\ IF IsDelivered(Msg(r)) THEN EndClaim(r, "deleted")
     ELSE Advance(r, "admitted") /\ UNCHANGED <<row, promotion>>
  /\ UNCHANGED <<inbox, collected, callVars, sendVars, turnVars, stopVars, budget, histVars>>

(* A refused steer parks a person's row and requeues an agent's; either    *)
(* way the turn may have ended while the guard kept the drain out.         *)
SteerEnds(r, status) == EndClaim(r, status) /\ rechecks' = rechecks + 1
RefusedTo(r) == IF claim[r].by = "agentSteer" THEN "pending" ELSE "recovered"

SteerRefused(r) ==
  /\ claim[r].pc = "admitted"
  /\ SteerEnds(r, RefusedTo(r))
  /\ UNCHANGED <<inbox, collected, drains, sendVars, turnVars, stopVars, budget, histVars>>

(* The inbox row is claimed before the provider is asked. *)
SteerAskUnclaimed(r) ==
  /\ claim[r].pc = "admitted"
  /\ running /\ handle = "live"
  /\ claim' = [claim EXCEPT ![r].pc = "steering", ![r].gen = generation]
  /\ UNCHANGED <<row, promotion, inbox, collected, callVars, sendVars, turnVars, stopVars,
                 budget, histVars>>

SteerAsk(r) ==
  /\ claim[r].pc = "admitted"
  /\ running /\ handle = "live"
  /\ IF IsDelivered(Msg(r)) THEN SteerEnds(r, "deleted") /\ UNCHANGED inbox
     ELSE /\ claim' = [claim EXCEPT ![r].pc = "steering", ![r].gen = generation]
          /\ inbox' = [inbox EXCEPT ![Msg(r)] = IF @ = "open" THEN "delivered" ELSE @]
          /\ UNCHANGED <<row, promotion, rechecks>>
  /\ UNCHANGED <<collected, drains, sendVars, turnVars, stopVars, budget, histVars>>

SteerAccepted(r) ==
  /\ claim[r].pc = "steering"
  /\ Reaches(Msg(r), "steer")
  /\ Advance(r, "accepted")
  /\ UNCHANGED <<row, inbox, promotion, collected, callVars, sendVars, turnVars, stopVars,
                 budget, settled>>

SteerRejected(r) ==
  /\ claim[r].pc \in {"steering", "lost"}
  /\ inbox' = [inbox EXCEPT ![Msg(r)] = IF @ = "delivered" THEN "open" ELSE @]
  /\ SteerEnds(r, RefusedTo(r))
  /\ UNCHANGED <<collected, drains, sendVars, turnVars, stopVars, budget, histVars>>

(* The acknowledgement is lost: the model may have the message or not. *)
SteerUnanswered(r) ==
  /\ claim[r].pc \in {"steering", "lost"}
  /\ Reaches(Msg(r), "steer") \/ UNCHANGED got
  /\ Settle({Msg(r)}, "uncertain")
  /\ SteerEnds(r, "unknown")
  /\ UNCHANGED <<inbox, collected, drains, sendVars, turnVars, stopVars, budget>>

(* The timeline records the guidance unless a Stop came in between. *)
SteerSettle(r) ==
  /\ claim[r].pc = "accepted" /\ SendLockFree
  /\ SteerEnds(r, IF claim[r].gen = generation THEN "deleted" ELSE "unknown")
  /\ UNCHANGED <<inbox, collected, drains, sendVars, turnVars, stopVars, budget, histVars>>

-----------------------------------------------------------------------------
(* The agent collects its inbox: inbox_read, then the queue copies go      *)

CollectTake ==
  /\ handle = "live"
  /\ \E ms \in SUBSET {m \in InboxMsgs : inbox[m] = "open"} \ {{}} :
       /\ inbox' = [m \in Msgs |-> IF m \in ms THEN "delivered" ELSE inbox[m]]
       /\ got' = [m \in Msgs |-> IF m \in ms
                    THEN [got[m] EXCEPT !["inbox"] = IF @ < 2 THEN @ + 1 ELSE @] ELSE got[m]]
       /\ collected' = collected \cup ms
  /\ UNCHANGED <<row, claim, promotion, callVars, sendVars, turnVars, stopVars, budget, settled>>

CollectReconcile ==
  /\ collected # {}
  /\ row' = [r \in Rows |-> IF Msg(r) \in collected /\ row[r] \in Visible THEN "deleted" ELSE row[r]]
  /\ collected' = {}
  /\ UNCHANGED <<inbox, claim, promotion, callVars, sendVars, turnVars, stopVars, budget, histVars>>

-----------------------------------------------------------------------------
(* Turns, the user's Stop and /clear, and a crash of the app               *)

Launched ==
  /\ handle = "pending"
  /\ handle' = "live"
  /\ UNCHANGED <<queueVars, callVars, sendVars, running, stopVars, budget, histVars>>

(* Nobody answers a steer once its provider is gone. *)
SteersLost == [r \in Rows |-> IF claim[r].pc = "steering"
                                THEN [claim[r] EXCEPT !.pc = "lost"] ELSE claim[r]]

PendingMsgs == {Msg(r) : r \in {q \in Rows : row[q] = "pending"}}

(* pause_queue_with_connection *)
QueuePaused ==
  /\ row' = [r \in Rows |-> IF row[r] = "pending" THEN "recovered" ELSE row[r]]
  /\ Settle(PendingMsgs, "parked")

TurnOver == handle' = "none" /\ running' = FALSE

LaunchFails ==
  /\ handle = "pending" /\ job = "none"
  /\ TurnOver /\ QueuePaused
  /\ UNCHANGED <<inbox, claim, promotion, collected, callVars, sendVars, stopVars, budget, got>>

(* handle_lifecycle_event: a turn that ends well drains the queue, one that *)
(* fails pauses it.                                                         *)
TurnEnds ==
  /\ handle = "live" /\ job = "none"
  /\ TurnOver
  /\ claim' = SteersLost
  /\ \/ drains' = drains + 1 /\ UNCHANGED <<row, settled>>
     \/ QueuePaused /\ UNCHANGED drains
  /\ UNCHANGED <<inbox, promotion, collected, rechecks, sendVars, stopVars, budget, got>>

StopBegin ==
  /\ Spend("stops")
  /\ promotion' = FALSE
  /\ StopStarts(FALSE)
  /\ UNCHANGED <<row, inbox, claim, collected, callVars, sendVars, running, histVars>>

(* clear_queue deletes the launching rows too. *)
QueueCleared ==
  /\ row' = [r \in Rows |-> IF row[r] = "none" THEN "none" ELSE "deleted"]
  /\ Settle({Msg(r) : r \in {q \in Rows : row[q] \notin {"none", "deleted"}}}, "dropped")

StopClear ==
  /\ job = "clearing"
  /\ QueueCleared
  /\ job' = "stopping" /\ handle' = "none"
  /\ UNCHANGED <<inbox, claim, promotion, collected, callVars, sendVars, running, generation,
                 budget, got>>

StopFinish ==
  /\ job = "stopping"
  /\ job' = "none" /\ running' = FALSE
  /\ claim' = SteersLost
  /\ UNCHANGED <<row, inbox, promotion, collected, callVars, sendVars, handle, generation,
                 budget, histVars>>

ClearIdle ==
  /\ ~running
  /\ Spend("stops")
  /\ QueueCleared
  /\ UNCHANGED <<inbox, claim, promotion, collected, callVars, sendVars, turnVars, stopVars, got>>

(* recover_pending_messages: nothing is sent again on its own. *)
RecoveredUnsent(r) ==
  IF row[r] = "unknown" THEN "unknown"
  ELSE IF row[r] = "launching" THEN "recovered"
  ELSE IF row[r] \in Visible THEN (IF IsDelivered(Msg(r)) THEN "deleted" ELSE "recovered")
  ELSE row[r]
Recovered(r) ==
  IF row[r] \in {"launching", "unknown"} THEN "unknown"
  ELSE IF row[r] \in Visible THEN (IF IsDelivered(Msg(r)) THEN "deleted" ELSE "recovered")
  ELSE row[r]

(* Everything but the database is lost; recover_orphaned_sessions settles. *)
Crash ==
  /\ Spend("crashes")
  /\ row' = [r \in Rows |-> Recovered(r)]
  /\ settled' = [m \in Msgs |-> settled[m]
       \cup (IF sendPc[m] \in {"captured", "queueing"} THEN {"dropped"} ELSE {})
       \cup (IF \E r \in Rows : Msg(r) = m /\ claim[r].pc \in {"steering", "lost"}
               THEN {"uncertain"} ELSE {})]
  /\ sendPc' = [m \in Msgs |-> IF sendPc[m] = "new" THEN "new" ELSE "done"]
  /\ sendGen' = [m \in Msgs |-> 0] /\ generation' = 0
  /\ claim' = [r \in Rows |-> NoClaim]
  /\ promotion' = FALSE /\ collected' = {}
  /\ drains' = 0 /\ rechecks' = 0
  /\ handle' = "none" /\ running' = FALSE /\ job' = "none"
  /\ UNCHANGED <<inbox, got>>

-----------------------------------------------------------------------------
SenderStep(m) == SendFails(m) \/ SendStartsTurn(m) \/ SendFindsHandle(m) \/ SendEnqueue(m)
                 \/ SendSteers(m) \/ SendCloses(m)

SendClaimed(r) == ClaimCapture(r) \/ ClaimFails(r) \/ ClaimStartsTurn(r) \/ ClaimFindsHandle(r)
                  \/ ClaimRequeue(r)

Steer(r) == SteerAdmit(r) \/ SteerRefused(r) \/ SteerAsk(r) \/ SteerAccepted(r)
            \/ SteerRejected(r) \/ SteerUnanswered(r) \/ SteerSettle(r)

ClaimStep(r) ==
  \/ DrainAdmit(r) \/ DrainFinish(r) \/ SendClaimed(r)
  \/ PromoteAdmit(r) \/ PromoteResume(r) \/ PromoteFinish(r)
  \/ MultitaskAdmit(r) \/ MultitaskLaunch(r) \/ MultitaskEnd(r)
  \/ Steer(r)

DrainStep == DrainNothing \/ \E r \in Rows : DrainPop(r)

Next ==
  \/ \E m \in Msgs : Submit(m) \/ SenderStep(m)
  \/ \E r \in Rows : ClaimStep(r) \/ CancelQueued(r) \/ \E by \in Promoters : Pick(r, by)
  \/ Recheck \/ DrainStep
  \/ CollectTake \/ CollectReconcile
  \/ Launched \/ LaunchFails \/ TurnEnds
  \/ StopBegin \/ StopClear \/ StopFinish \/ ClearIdle
  \/ Crash

Spec == Init /\ [][Next]_vars

(* The app's own tasks run to their end, and what they await is answered or *)
(* timed out.  Nothing is asked of users, agents, turns, or crashes.        *)
FairSpec ==
  /\ Spec
  /\ \A m \in Msgs : WF_vars(SenderStep(m))
  /\ \A r \in Rows : WF_vars(ClaimStep(r))
  /\ WF_vars(Recheck) /\ WF_vars(DrainStep) /\ WF_vars(CollectReconcile)
  /\ WF_vars(StopClear) /\ WF_vars(StopFinish)

-----------------------------------------------------------------------------
(* Properties                                                              *)

(* What keeps a delivery out has an owner: a hidden row, some task of this  *)
(* run of the app that will delete it or put it back; the Send-now guard, a *)
(* promotion under way, so that a drain is never kept out by nobody.        *)
ClaimsOwned ==
  /\ \A r \in Rows : row[r] = "launching" => claim[r].by # "none"
  /\ promotion => \E r \in Rows : claim[r].by \in Promoters

(* No message is lost: once its sender has returned, it has reached a      *)
(* model, or a person dropped it, or it waits in the journal or the inbox; *)
(* all but a steer whose outcome nobody knows, and what was sent again     *)
(* after one.                                                              *)
Reached(m) == \E via \in Routes : got[m][via] > 0
Waits(m) == inbox[m] = "open" \/ \E r \in Rows : Msg(r) = m /\ row[r] \notin {"none", "deleted"}
KeptUnless(verdicts) ==
  \A m \in Msgs : sendPc[m] = "done" => Reached(m) \/ Waits(m) \/ settled[m] \cap verdicts # {}
Retained == KeptUnless({"dropped", "uncertain", "resent"})

(* A person's message reaches a model once, crashes included, unless a row  *)
(* marked delivery-unknown is sent again.                                   *)
TimesGot(m) == got[m]["turn"] + got[m]["steer"] + got[m]["inbox"] + got[m]["sibling"]
PersonOnce == \A m \in Msgs \ InboxMsgs : TimesGot(m) <= 1 \/ "resent" \in settled[m]

(* A message steered into a turn is not also collected from the inbox.      *)
SteerXorInbox == \A m \in InboxMsgs : got[m]["steer"] = 0 \/ got[m]["inbox"] = 0

(* A person's message that a failed turn parked starts no turn until it is  *)
(* picked, unless a delivery-unknown row of it was sent again as well.      *)
ParkedStays ==
  [][\A m \in Msgs \ InboxMsgs :
       "parked" \in settled[m] /\ "resent" \notin settled[m] => got'[m]["turn"] = got[m]["turn"]]_vars

(* No pending row stays behind in an idle session, until a person picks one *)
(* or the app crashes.                                                      *)
Undisturbed == budget.actions = MaxActions /\ budget.crashes = MaxCrashes
Stranded(r) == row[r] = "pending" /\ handle = "none" /\ ~running /\ job = "none"
QueueDrains == \A r \in Rows : []<>~(Stranded(r) /\ Undisturbed)

(* A row taken for delivery does not stay hidden.                           *)
HiddenRowsReappear == \A r \in Rows : row[r] = "launching" ~> row[r] # "launching"

(* Once the delivery of an agent's message as a turn, or as a sibling's, is  *)
(* over, the inbox no longer offers it.  Drains see to it; promotions do not, *)
(* and a crash may come first.                                                *)
Delivering(m) == sendPc[m] # "done" \/ \E r \in Rows : Msg(r) = m /\ claim[r].by # "none"
TakenClosesInbox ==
  \A m \in InboxMsgs : got[m]["turn"] + got[m]["sibling"] > 0 /\ ~Delivering(m)
                         => inbox[m] # "open" \/ ~Undisturbed

(* Stated by the documentation and refuted by the code, see README.         *)
(* An agent's message is delivered once, whichever path wins.               *)
DeliveredOnce == \A m \in InboxMsgs : TimesGot(m) <= 1 \/ "resent" \in settled[m]

(* A Stop or /clear deletes the queue: what it discarded starts no turn.    *)
DiscardedStays == [][\A m \in Msgs : "dropped" \in settled[m] =>
                                        got'[m]["turn"] = got[m]["turn"]]_vars

(* A steer of unknown outcome leaves a row the person may send again.       *)
UncertainKept == KeptUnless({"dropped"})

(* What a person sends again is not lost either. *)
ResentKept == KeptUnless({"dropped", "uncertain"})
=============================================================================
