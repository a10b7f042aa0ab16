----------------------- MODULE FollowUpDelivery_proofs -----------------------
(***************************************************************************)
(* The follow-up queue for any messages, modes and bounds: types, owners   *)
(* of what keeps a delivery out, a person's message delivered at most once, *)
(* an agent's either steered or collected and closed once it was taken,    *)
(* nothing lost, and what a failed turn parked at rest.                    *)
(***************************************************************************)
EXTENDS FollowUpDelivery, TLAPS

-----------------------------------------------------------------------------
(* Types                                                                   *)

ClaimRecs == [by : Promoters \cup {"none", "drain"}, pc : ClaimPcs, gen : Nat, prior : Visible]
Budgets   == [{"actions", "stops", "crashes"} -> Nat]
Gots      == [Msgs -> [Routes -> 0..2]]
Decisions == [Msgs -> SUBSET Verdicts]

LEMMA Sorts ==
  /\ NoClaim \in ClaimRecs
  /\ \A r \in Rows : Msg(r) \in Msgs
  /\ \A m \in Msgs : <<m, 1>> \in Rows /\ Msg(<<m, 1>>) = m
<1>1. NoClaim \in ClaimRecs
  BY DEF NoClaim, ClaimRecs, ClaimPcs, Visible
<1>2. \A r \in Rows : Msg(r) \in Msgs
  BY DEF Rows, Msg
<1>3. \A m \in Msgs : <<m, 1>> \in Rows /\ Msg(<<m, 1>>) = m
  BY ConstantsAssumption DEF ConstantsAssumption, Rows, Msg
<1> QED
  BY <1>1, <1>2, <1>3

(* A step of one claim is a step of that claim alone. *)
LEMMA AdvanceEffect ==
  ASSUME claim \in [Rows -> ClaimRecs], NEW r \in Rows, NEW pc \in ClaimPcs, Advance(r, pc)
  PROVE  /\ claim' \in [Rows -> ClaimRecs]
         /\ claim'[r].pc = pc /\ claim'[r].by = claim[r].by /\ claim'[r].prior = claim[r].prior
         /\ \A q \in Rows \ {r} : claim'[q] = claim[q]
BY DEF Advance, ClaimRecs

LEMMA AdvanceGenEffect ==
  ASSUME claim \in [Rows -> ClaimRecs], NEW r \in Rows, NEW pc \in ClaimPcs, generation \in Nat,
         claim' = [claim EXCEPT ![r].pc = pc, ![r].gen = generation]
  PROVE  /\ claim' \in [Rows -> ClaimRecs]
         /\ claim'[r].pc = pc /\ claim'[r].by = claim[r].by /\ claim'[r].prior = claim[r].prior
         /\ \A q \in Rows \ {r} : claim'[q] = claim[q]
<1>1. [claim[r] EXCEPT !.pc = pc, !.gen = generation] \in ClaimRecs
  BY DEF ClaimRecs
<1>2. [claim[r] EXCEPT !.pc = pc, !.gen = generation].pc = pc
  BY DEF ClaimRecs
<1>3. /\ [claim[r] EXCEPT !.pc = pc, !.gen = generation].by = claim[r].by
      /\ [claim[r] EXCEPT !.pc = pc, !.gen = generation].prior = claim[r].prior
  BY DEF ClaimRecs
<1>4. claim' = [claim EXCEPT ![r] = [claim[r] EXCEPT !.pc = pc, !.gen = generation]]
  OBVIOUS
<1> QED
  BY <1>1, <1>2, <1>3, <1>4

(* A claim takes the row out of sight, and the guard if it is a promotion. *)
LEMMA ClaimedEffect ==
  ASSUME claim \in [Rows -> ClaimRecs], row \in [Rows -> RowStates], promotion \in BOOLEAN,
         NEW r \in Rows, NEW by \in Promoters \cup {"drain"}, row[r] \in Visible, Claimed(r, by)
  PROVE  /\ claim' \in [Rows -> ClaimRecs] /\ row' \in [Rows -> RowStates] /\ promotion' \in BOOLEAN
         /\ claim'[r].by = by /\ claim'[r].pc = "claimed" /\ claim'[r].prior = row[r]
         /\ row'[r] = "launching"
         /\ \A q \in Rows \ {r} : claim'[q] = claim[q] /\ row'[q] = row[q]
         /\ promotion' = (promotion \/ by \in Promoters)
<1> DEFINE c == [NoClaim EXCEPT !.by = by, !.pc = "claimed", !.prior = row[r]]
<1>1. c \in ClaimRecs /\ c.by = by /\ c.pc = "claimed" /\ c.prior = row[r]
  BY DEF NoClaim, ClaimRecs, ClaimPcs
<1>2. claim' = [claim EXCEPT ![r] = c]
  BY DEF Claimed
<1> HIDE DEF c
<1>3. row' = [row EXCEPT ![r] = "launching"]
  BY DEF Claimed
<1>4. promotion' = (promotion \/ by \in Promoters)
  BY DEF Claimed
<1>5. promotion' \in BOOLEAN
  BY <1>4
<1> QED
  BY <1>1, <1>2, <1>3, <1>4, <1>5 DEF RowStates

(* A claim ends: the row goes, or comes back unless it went meanwhile. *)
LEMMA EndClaimEffect ==
  ASSUME claim \in [Rows -> ClaimRecs], row \in [Rows -> RowStates], promotion \in BOOLEAN,
         NEW r \in Rows, NEW status \in Visible \cup {"deleted"}, EndClaim(r, status)
  PROVE  /\ claim' \in [Rows -> ClaimRecs] /\ row' \in [Rows -> RowStates] /\ promotion' \in BOOLEAN
         /\ claim'[r] = NoClaim
         /\ row'[r] = IF status = "deleted" THEN "deleted"
                      ELSE IF row[r] = "launching" THEN status ELSE row[r]
         /\ \A q \in Rows \ {r} : claim'[q] = claim[q] /\ row'[q] = row[q]
         /\ promotion' = Released(r)
<1>1. claim' = [claim EXCEPT ![r] = NoClaim] /\ promotion' = Released(r)
  BY DEF EndClaim
<1>2. row' = [row EXCEPT ![r] = IF status = "deleted" THEN "deleted"
                                ELSE IF row[r] = "launching" THEN status ELSE row[r]]
  BY DEF EndClaim, Restored
<1>3. Released(r) \in BOOLEAN
  BY DEF Released
<1> QED
  BY <1>1, <1>2, <1>3, Sorts DEF RowStates, Visible

(* A message that reaches a model is counted on its route, up to two. *)
LEMMA ReachesEffect ==
  ASSUME got \in Gots, NEW m \in Msgs, NEW via \in Routes, Reaches(m, via)
  PROVE  /\ got' \in Gots
         /\ got'[m][via] \in {got[m][via], got[m][via] + 1}
         /\ \A other \in Routes \ {via} : got'[m][other] = got[m][other]
         /\ \A n \in Msgs \ {m} : got'[n] = got[n]
<1>1. got' = [got EXCEPT ![m][via] = IF got[m][via] < 2 THEN got[m][via] + 1 ELSE got[m][via]]
  BY DEF Reaches
<1>2. (IF got[m][via] < 2 THEN got[m][via] + 1 ELSE got[m][via]) \in 0..2
  BY DEF Gots
<1> QED
  BY <1>1, <1>2 DEF Gots

LEMMA SpendType ==
  ASSUME budget \in Budgets, NEW kind \in {"actions", "stops", "crashes"}, Spend(kind)
  PROVE  budget' \in Budgets
BY DEF Spend, Budgets

(* Verdicts only come, except that a pick takes "parked" back.             *)
SameResent == \A m \in Msgs : "resent" \in settled'[m] <=> "resent" \in settled[m]
Recalls    == \A m \in Msgs : settled[m] \ {"parked"} \subseteq settled'[m]
NoneParked == \A m \in Msgs : "parked" \in settled'[m] => "parked" \in settled[m]
Judged     == SameResent /\ Recalls /\ NoneParked

LEMMA SettleEffect ==
  ASSUME settled \in Decisions, NEW ms, NEW v \in Verdicts, Settle(ms, v)
  PROVE  /\ settled' \in Decisions
         /\ \A m \in Msgs : settled'[m] = settled[m] \cup IF m \in ms THEN {v} ELSE {}
         /\ v # "resent" => SameResent
         /\ Recalls
         /\ v # "parked" => NoneParked
<1>1. settled' = [m \in Msgs |-> settled[m] \cup IF m \in ms THEN {v} ELSE {}]
  BY DEF Settle
<1>2. settled' \in Decisions
  BY <1>1 DEF Decisions
<1>3. \A m \in Msgs : settled'[m] = settled[m] \cup IF m \in ms THEN {v} ELSE {}
  BY <1>1
<1> QED
  BY <1>2, <1>3 DEF SameResent, Recalls, NoneParked

(* A row that is swept is parked or deleted; nothing else happens to it.   *)
Swept(r) ==
  \/ row'[r] = row[r]
  \/ row[r] \in Visible \cup {"launching"} /\ row'[r] = "deleted"
  \/ row[r] = "pending" /\ row'[r] = "recovered"
SweptRows == row' \in [Rows -> RowStates] /\ \A r \in Rows : Swept(r)

(* What is deleted was dropped or collected, what was parked is parked.    *)
Excused == \A r \in Rows : row'[r] = "deleted" /\ row[r] # "deleted" =>
             \/ "dropped" \in settled'[Msg(r)]
             \/ row[r] \in Visible /\ Msg(r) \in collected
Parking == /\ \A r \in Rows : row'[r] = IF row[r] = "pending" THEN "recovered" ELSE row[r]
           /\ \A m \in Msgs : "parked" \in settled'[m] =>
                "parked" \in settled[m] \/ \E r \in Rows : Msg(r) = m /\ row[r] = "pending"
SweptVerdicts == SameResent /\ Recalls /\ Excused /\ (NoneParked \/ Parking)

LEMMA PauseEffect ==
  ASSUME row \in [Rows -> RowStates], settled \in Decisions, QueuePaused
  PROVE  SweptRows /\ settled' \in Decisions /\ SweptVerdicts
<1>1. Settle(PendingMsgs, "parked") /\ row' = [r \in Rows |-> IF row[r] = "pending" THEN "recovered" ELSE row[r]]
  BY DEF QueuePaused
<1>2. settled' \in Decisions /\ SameResent /\ Recalls
  BY <1>1, SettleEffect DEF Verdicts
<1>3. \A m \in Msgs : settled'[m] = settled[m] \cup IF m \in PendingMsgs THEN {"parked"} ELSE {}
  BY <1>1, SettleEffect DEF Verdicts
<1>4. SweptRows /\ Excused
  BY <1>1 DEF SweptRows, Swept, Excused, RowStates, Visible
<1>5. Parking
  BY <1>1, <1>3 DEF Parking, PendingMsgs
<1> QED
  BY <1>2, <1>4, <1>5 DEF SweptVerdicts

LEMMA ClearEffect ==
  ASSUME row \in [Rows -> RowStates], settled \in Decisions, QueueCleared
  PROVE  SweptRows /\ settled' \in Decisions /\ SweptVerdicts
<1> DEFINE Cleared == {Msg(r) : r \in {q \in Rows : row[q] \notin {"none", "deleted"}}}
<1>1. row' = [r \in Rows |-> IF row[r] = "none" THEN "none" ELSE "deleted"] /\ Settle(Cleared, "dropped")
  BY DEF QueueCleared
<1>2. \A r \in Rows : row[r] \notin {"none", "deleted"} => Msg(r) \in Cleared
  OBVIOUS
<1> HIDE DEF Cleared
<1>3. settled' \in Decisions /\ SameResent /\ Recalls /\ NoneParked
  BY <1>1, SettleEffect DEF Verdicts
<1>4. \A m \in Msgs : settled'[m] = settled[m] \cup IF m \in Cleared THEN {"dropped"} ELSE {}
  BY <1>1, SettleEffect DEF Verdicts
<1>5. SweptRows
  BY <1>1 DEF SweptRows, Swept, RowStates, Visible
<1>6. Excused
  BY <1>1, <1>2, <1>4, Sorts DEF Excused
<1> QED
  BY <1>3, <1>5, <1>6 DEF SweptVerdicts

(* A steer whose provider is gone is lost and still asked. *)
SweptClaims ==
  /\ claim' \in [Rows -> ClaimRecs]
  /\ \A r \in Rows : \/ claim'[r] = claim[r]
                     \/ /\ claim[r].pc = "steering" /\ claim'[r].pc = "lost"
                        /\ claim'[r].by = claim[r].by /\ claim'[r].prior = claim[r].prior

LEMMA LoseEffect ==
  ASSUME claim \in [Rows -> ClaimRecs], claim' = SteersLost
  PROVE  SweptClaims
BY DEF SteersLost, SweptClaims, ClaimRecs, ClaimPcs

LEMMA StopStartsType ==
  ASSUME generation \in Nat, handle \in {"none", "pending", "live"}, job \in {"none", "clearing", "stopping"},
         NEW preserve \in BOOLEAN, StopStarts(preserve)
  PROVE  generation' \in Nat /\ handle' \in {"none", "pending", "live"}
         /\ job' \in {"none", "clearing", "stopping"}
BY DEF StopStarts

(* Types, with the sets under their names *)
NamedTypes ==
  /\ row \in [Rows -> RowStates]
  /\ inbox \in [Msgs -> {"none", "open", "delivered"}]
  /\ claim \in [Rows -> ClaimRecs]
  /\ promotion \in BOOLEAN
  /\ drains \in Nat /\ rechecks \in Nat
  /\ collected \subseteq InboxMsgs
  /\ sendPc \in [Msgs -> SendPcs] /\ sendGen \in [Msgs -> Nat]
  /\ handle \in {"none", "pending", "live"} /\ running \in BOOLEAN
  /\ generation \in Nat /\ job \in {"none", "clearing", "stopping"}
  /\ budget \in Budgets
  /\ settled \in Decisions
  /\ got \in Gots

LEMMA TypesNamed == TypeOK <=> NamedTypes
BY DEF TypeOK, NamedTypes, ClaimRecs, Budgets, Decisions, Gots

LEMMA InitTypeOK == Init => NamedTypes
<1> SUFFICES ASSUME Init PROVE NamedTypes
  OBVIOUS
<1>1. claim \in [Rows -> ClaimRecs]
  BY Sorts DEF Init
<1>2. budget \in Budgets
  BY ConstantsAssumption DEF Init, Budgets, ConstantsAssumption
<1>3. got \in Gots
  BY DEF Init, Gots
<1>4. sendPc \in [Msgs -> SendPcs] /\ sendGen \in [Msgs -> Nat]
  BY DEF Init, SendPcs
<1> QED
  BY <1>1, <1>2, <1>3, <1>4 DEF Init, NamedTypes, RowStates, Decisions

-----------------------------------------------------------------------------
(* Every step keeps the types                                              *)

LEMMA SenderTypes ==
  ASSUME NamedTypes, NEW m \in Msgs, Submit(m) \/ SenderStep(m)
  PROVE  NamedTypes'
<1> USE DEF queueVars, callVars, sendVars, turnVars, stopVars, histVars
<1>1. CASE Submit(m)
  <2>1. settled' \in Decisions
    BY <1>1, SettleEffect DEF Submit, NamedTypes, Verdicts
  <2>2. sendPc' \in [Msgs -> SendPcs] /\ sendGen' \in [Msgs -> Nat]
    BY <1>1 DEF Submit, NamedTypes, SendPcs
  <2>3. inbox' \in [Msgs -> {"none", "open", "delivered"}]
    BY <1>1 DEF Submit, NamedTypes
  <2> QED
    BY <1>1, <2>1, <2>2, <2>3 DEF Submit, NamedTypes
<1>2. CASE SendFails(m)
  <2>1. settled' \in Decisions
    BY <1>2, SettleEffect DEF SendFails, NamedTypes, Verdicts
  <2>2. sendPc' \in [Msgs -> SendPcs]
    BY <1>2 DEF SendFails, NamedTypes, SendPcs
  <2> QED
    BY <1>2, <2>1, <2>2 DEF SendFails, NamedTypes
<1>3. CASE SendStartsTurn(m)
  <2>1. got' \in Gots
    BY <1>3, ReachesEffect DEF SendStartsTurn, NamedTypes, Routes
  <2>2. sendPc' \in [Msgs -> SendPcs]
    BY <1>3 DEF SendStartsTurn, NamedTypes, SendPcs
  <2> QED
    BY <1>3, <2>1, <2>2 DEF SendStartsTurn, StartsTurn, NamedTypes
<1>4. CASE SendFindsHandle(m)
  BY <1>4 DEF SendFindsHandle, NamedTypes, SendPcs
<1>5. CASE SendEnqueue(m)
  <2>1. sendPc' \in [Msgs -> SendPcs]
    BY <1>5 DEF SendEnqueue, NamedTypes, SendPcs
  <2>2. row' \in [Rows -> RowStates] /\ rechecks' \in Nat
    BY <1>5, Sorts DEF SendEnqueue, NamedTypes, RowStates, Visible
  <2> QED
    BY <1>5, <2>1, <2>2 DEF SendEnqueue, NamedTypes
<1>6. CASE SendSteers(m)
  <2>1. sendPc' \in [Msgs -> SendPcs]
    BY <1>6 DEF SendSteers, NamedTypes, SendPcs
  <2>2. CASE promotion \/ row[<<m, 1>>] \notin Visible
    BY <1>6, <2>1, <2>2 DEF SendSteers, NamedTypes
  <2>3. CASE ~(promotion \/ row[<<m, 1>>] \notin Visible)
    <3>1. PICK by \in Promoters : Claimed(<<m, 1>>, by)
      BY <1>6, <2>3 DEF SendSteers, Promoters
    <3>2. settled' \in Decisions
      BY <1>6, <2>3 DEF SendSteers, NamedTypes, Decisions, Verdicts, Resent
    <3> QED
      BY <1>6, <2>1, <2>3, <3>1, <3>2, ClaimedEffect, Sorts DEF SendSteers, NamedTypes
  <2> QED
    BY <2>2, <2>3
<1>7. CASE SendCloses(m)
  BY <1>7 DEF SendCloses, NamedTypes, SendPcs
<1> QED
  BY <1>1, <1>2, <1>3, <1>4, <1>5, <1>6, <1>7 DEF SenderStep

LEMMA DrainTypes ==
  ASSUME NamedTypes, Recheck \/ DrainStep \/ \E r \in Rows : DrainAdmit(r) \/ DrainFinish(r)
  PROVE  NamedTypes'
<1> USE DEF queueVars, callVars, sendVars, turnVars, stopVars, histVars
<1>1. CASE Recheck
  BY <1>1 DEF Recheck, NamedTypes
<1>2. CASE DrainNothing
  BY <1>2 DEF DrainNothing, NamedTypes
<1>3. ASSUME NEW r \in Rows, DrainPop(r) PROVE NamedTypes'
  <2>1. row[r] \in Visible /\ drains' \in Nat
    BY <1>3 DEF DrainPop, Visible, NamedTypes
  <2> QED
    BY <1>3, <2>1, ClaimedEffect DEF DrainPop, NamedTypes
<1>4. ASSUME NEW r \in Rows, DrainAdmit(r) PROVE NamedTypes'
  BY <1>4, EndClaimEffect, AdvanceEffect DEF DrainAdmit, NamedTypes, ClaimPcs
<1>5. ASSUME NEW r \in Rows, DrainFinish(r) PROVE NamedTypes'
  BY <1>5, EndClaimEffect DEF DrainFinish, NamedTypes
<1> QED
  BY <1>1, <1>2, <1>3, <1>4, <1>5 DEF DrainStep

(* A claim that goes back goes to a status that a person can see. *)
LEMMA PriorVisible == ASSUME NamedTypes, NEW r \in Rows PROVE claim[r].prior \in Visible
BY DEF NamedTypes, ClaimRecs

LEMMA SendTypes ==
  ASSUME NamedTypes, NEW r \in Rows, SendClaimed(r)
  PROVE  NamedTypes'
<1> USE DEF queueVars, callVars, sendVars, turnVars, stopVars, histVars
<1>1. CASE ClaimCapture(r)
  BY <1>1, EndClaimEffect, AdvanceGenEffect, PriorVisible DEF ClaimCapture, NamedTypes, ClaimPcs
<1>2. CASE ClaimFails(r)
  BY <1>2, EndClaimEffect, PriorVisible DEF ClaimFails, NamedTypes
<1>3. CASE ClaimStartsTurn(r)
  <2>1. got' \in Gots
    BY <1>3, ReachesEffect, Sorts DEF ClaimStartsTurn, NamedTypes, Routes
  <2>2. claim' \in [Rows -> ClaimRecs]
    BY <1>3, AdvanceEffect DEF ClaimStartsTurn, NamedTypes, ClaimPcs
  <2> QED
    BY <1>3, <2>1, <2>2 DEF ClaimStartsTurn, StartsTurn, NamedTypes
<1>4. CASE ClaimFindsHandle(r)
  BY <1>4, AdvanceEffect DEF ClaimFindsHandle, NamedTypes, ClaimPcs
<1>5. CASE ClaimRequeue(r)
  <2>1. claim' \in [Rows -> ClaimRecs]
    BY <1>5, AdvanceEffect DEF ClaimRequeue, NamedTypes, ClaimPcs
  <2>2. row' \in [Rows -> RowStates] /\ rechecks' \in Nat
    BY <1>5 DEF ClaimRequeue, NamedTypes, SpareRows, RowStates, Visible
  <2> QED
    BY <1>5, <2>1, <2>2 DEF ClaimRequeue, NamedTypes
<1> QED
  BY <1>1, <1>2, <1>3, <1>4, <1>5 DEF SendClaimed

LEMMA PersonTypes ==
  ASSUME NamedTypes, NEW r \in Rows,
         \/ CancelQueued(r) \/ (\E by \in Promoters : Pick(r, by))
         \/ PromoteAdmit(r) \/ PromoteResume(r) \/ PromoteFinish(r)
         \/ MultitaskAdmit(r) \/ MultitaskLaunch(r) \/ MultitaskEnd(r)
  PROVE  NamedTypes'
<1> USE DEF queueVars, callVars, sendVars, turnVars, stopVars, histVars
<1>1. CASE CancelQueued(r)
  <2>1. settled' \in Decisions
    BY <1>1, SettleEffect DEF CancelQueued, NamedTypes, Verdicts
  <2> QED
    BY <1>1, <2>1 DEF CancelQueued, NamedTypes, RowStates
<1>2. ASSUME NEW by \in Promoters, Pick(r, by) PROVE NamedTypes'
  <2>1. settled' \in Decisions
    BY <1>2, Sorts DEF Pick, NamedTypes, Decisions, Verdicts, Resent
  <2>2. budget' \in Budgets
    BY <1>2, SpendType DEF Pick, NamedTypes
  <2> QED
    BY <1>2, <2>1, <2>2, ClaimedEffect DEF Pick, NamedTypes
<1>3. CASE PromoteAdmit(r)
  BY <1>3, EndClaimEffect, AdvanceEffect, StopStartsType DEF PromoteAdmit, NamedTypes, ClaimPcs
<1>4. CASE PromoteResume(r)
  BY <1>4, EndClaimEffect, AdvanceEffect, PriorVisible DEF PromoteResume, NamedTypes, ClaimPcs
<1>5. CASE PromoteFinish(r)
  BY <1>5, EndClaimEffect, StopStartsType DEF PromoteFinish, NamedTypes
<1>6. CASE MultitaskAdmit(r)
  BY <1>6, EndClaimEffect, AdvanceEffect DEF MultitaskAdmit, NamedTypes, ClaimPcs
<1>7. CASE MultitaskLaunch(r)
  <2>1. got' \in Gots
    BY <1>7, ReachesEffect, Sorts DEF MultitaskLaunch, NamedTypes, Routes
  <2>2. claim' \in [Rows -> ClaimRecs]
    BY <1>7, AdvanceEffect DEF MultitaskLaunch, NamedTypes, ClaimPcs
  <2> QED
    BY <1>7, <2>1, <2>2 DEF MultitaskLaunch, NamedTypes
<1>8. CASE MultitaskEnd(r)
  BY <1>8, EndClaimEffect, PriorVisible DEF MultitaskEnd, NamedTypes
<1> QED
  BY <1>1, <1>2, <1>3, <1>4, <1>5, <1>6, <1>7, <1>8

LEMMA SteerTypes ==
  ASSUME NamedTypes, NEW r \in Rows, Steer(r)
  PROVE  NamedTypes'
<1> USE DEF queueVars, callVars, sendVars, turnVars, stopVars, histVars
<1>1. CASE SteerAdmit(r)
  BY <1>1, EndClaimEffect, AdvanceEffect DEF SteerAdmit, NamedTypes, ClaimPcs
<1>2. CASE SteerRefused(r)
  BY <1>2, EndClaimEffect DEF SteerRefused, SteerEnds, RefusedTo, NamedTypes, Visible
<1>3. CASE SteerAsk(r)
  <2>1. CASE IsDelivered(Msg(r))
    BY <1>3, <2>1, EndClaimEffect DEF SteerAsk, SteerEnds, NamedTypes
  <2>2. CASE ~IsDelivered(Msg(r))
    <3>1. claim' \in [Rows -> ClaimRecs]
      BY <1>3, <2>2, AdvanceGenEffect DEF SteerAsk, NamedTypes, ClaimPcs
    <3>2. inbox' \in [Msgs -> {"none", "open", "delivered"}]
      BY <1>3, <2>2 DEF SteerAsk, NamedTypes
    <3> QED
      BY <1>3, <2>2, <3>1, <3>2 DEF SteerAsk, NamedTypes
  <2> QED
    BY <2>1, <2>2
<1>4. CASE SteerAccepted(r)
  <2>1. got' \in Gots
    BY <1>4, ReachesEffect, Sorts DEF SteerAccepted, NamedTypes, Routes
  <2>2. claim' \in [Rows -> ClaimRecs]
    BY <1>4, AdvanceEffect DEF SteerAccepted, NamedTypes, ClaimPcs
  <2> QED
    BY <1>4, <2>1, <2>2 DEF SteerAccepted, NamedTypes
<1>5. CASE SteerRejected(r)
  <2>1. inbox' \in [Msgs -> {"none", "open", "delivered"}]
    BY <1>5 DEF SteerRejected, NamedTypes
  <2>2. RefusedTo(r) \in Visible
    BY DEF RefusedTo, Visible
  <2> QED
    BY <1>5, <2>1, <2>2, EndClaimEffect DEF SteerRejected, SteerEnds, NamedTypes
<1>6. CASE SteerUnanswered(r)
  <2>1. got' \in Gots
    BY <1>6, ReachesEffect, Sorts DEF SteerUnanswered, NamedTypes, Routes
  <2>2. settled' \in Decisions
    BY <1>6, SettleEffect DEF SteerUnanswered, NamedTypes, Verdicts
  <2> QED
    BY <1>6, <2>1, <2>2, EndClaimEffect DEF SteerUnanswered, SteerEnds, NamedTypes, Visible
<1>7. CASE SteerSettle(r)
  BY <1>7, EndClaimEffect DEF SteerSettle, SteerEnds, NamedTypes, Visible
<1> QED
  BY <1>1, <1>2, <1>3, <1>4, <1>5, <1>6, <1>7 DEF Steer

LEMMA TurnTypes ==
  ASSUME NamedTypes,
         \/ CollectTake \/ CollectReconcile \/ Launched \/ LaunchFails \/ TurnEnds
         \/ StopBegin \/ StopClear \/ StopFinish \/ ClearIdle \/ Crash
  PROVE  NamedTypes'
<1> USE DEF queueVars, callVars, sendVars, turnVars, stopVars, histVars
<1>1. CASE CollectTake
  <2>1. inbox' \in [Msgs -> {"none", "open", "delivered"}] /\ collected' \subseteq InboxMsgs
    BY <1>1 DEF CollectTake, NamedTypes
  <2>2. got' \in Gots
    <3>1. PICK ms : got' = [m \in Msgs |-> IF m \in ms
                    THEN [got[m] EXCEPT !["inbox"] = IF @ < 2 THEN @ + 1 ELSE @] ELSE got[m]]
      BY <1>1 DEF CollectTake
    <3>2. ASSUME NEW m \in Msgs PROVE [got[m] EXCEPT !["inbox"] = IF @ < 2 THEN @ + 1 ELSE @] \in [Routes -> 0..2]
      <4>1. got[m] \in [Routes -> 0..2]
        BY DEF NamedTypes, Gots
      <4> QED
        BY <4>1 DEF Routes
    <3> QED
      BY <3>1, <3>2 DEF NamedTypes, Gots
  <2> QED
    BY <1>1, <2>1, <2>2 DEF CollectTake, NamedTypes
<1>2. CASE CollectReconcile
  BY <1>2 DEF CollectReconcile, NamedTypes, RowStates
<1>3. CASE Launched
  BY <1>3 DEF Launched, NamedTypes
<1>4. CASE LaunchFails
  BY <1>4, PauseEffect DEF LaunchFails, TurnOver, NamedTypes, SweptRows
<1>5. CASE TurnEnds
  <2>1. claim' \in [Rows -> ClaimRecs]
    BY <1>5, LoseEffect DEF TurnEnds, NamedTypes, SweptClaims
  <2>2. /\ row' \in [Rows -> RowStates] /\ settled' \in Decisions
    BY <1>5, PauseEffect DEF TurnEnds, NamedTypes, SweptRows
  <2>3. drains' \in Nat
    BY <1>5 DEF TurnEnds, NamedTypes
  <2> QED
    BY <1>5, <2>1, <2>2, <2>3 DEF TurnEnds, TurnOver, NamedTypes
<1>6. CASE StopBegin
  BY <1>6, StopStartsType, SpendType DEF StopBegin, NamedTypes
<1>7. CASE StopClear
  BY <1>7, ClearEffect DEF StopClear, NamedTypes, SweptRows
<1>8. CASE StopFinish
  BY <1>8, LoseEffect DEF StopFinish, NamedTypes, SweptClaims
<1>9. CASE ClearIdle
  BY <1>9, ClearEffect, SpendType DEF ClearIdle, NamedTypes, SweptRows
<1>10. CASE Crash
  <2>1. row' \in [Rows -> RowStates]
    BY <1>10 DEF Crash, Recovered, NamedTypes, RowStates, Visible
  <2>2. settled' \in Decisions
    BY <1>10 DEF Crash, NamedTypes, Decisions, Verdicts
  <2>3. claim' \in [Rows -> ClaimRecs]
    BY <1>10, Sorts DEF Crash
  <2>4. sendPc' \in [Msgs -> SendPcs] /\ sendGen' \in [Msgs -> Nat]
    BY <1>10 DEF Crash, SendPcs
  <2>5. budget' \in Budgets
    BY <1>10, SpendType DEF Crash, NamedTypes
  <2> QED
    BY <1>10, <2>1, <2>2, <2>3, <2>4, <2>5 DEF Crash, NamedTypes
<1> QED
  BY <1>1, <1>2, <1>3, <1>4, <1>5, <1>6, <1>7, <1>8, <1>9, <1>10

LEMMA NextTypes == NamedTypes /\ [Next]_vars => NamedTypes'
<1> SUFFICES ASSUME NamedTypes, [Next]_vars PROVE NamedTypes'
  OBVIOUS
<1>1. ASSUME NEW m \in Msgs, Submit(m) \/ SenderStep(m) PROVE NamedTypes'
  BY <1>1, SenderTypes
<1>2. ASSUME NEW r \in Rows, ClaimStep(r) \/ CancelQueued(r) \/ \E by \in Promoters : Pick(r, by)
      PROVE  NamedTypes'
  BY <1>2, DrainTypes, SendTypes, PersonTypes, SteerTypes DEF ClaimStep
<1>3. CASE Recheck \/ DrainStep
  BY <1>3, DrainTypes
<1>4. CASE \/ CollectTake \/ CollectReconcile \/ Launched \/ LaunchFails \/ TurnEnds
           \/ StopBegin \/ StopClear \/ StopFinish \/ ClearIdle \/ Crash
  BY <1>4, TurnTypes
<1>5. CASE UNCHANGED vars
  BY <1>5 DEF vars, queueVars, callVars, sendVars, turnVars, stopVars, histVars, NamedTypes
<1> QED
  BY <1>1, <1>2, <1>3, <1>4, <1>5 DEF Next

(* Every variable stays within its type, whatever senders, users and turns do. *)
THEOREM TypeCorrect == Spec => []TypeOK
<1>1. NamedTypes => TypeOK
  BY TypesNamed
<1> QED
  BY <1>1, InitTypeOK, NextTypes, PTL DEF Spec

-----------------------------------------------------------------------------
(* The inductive invariant                                                 *)

(* A delivery that has yet to come, one that the provider was asked for,   *)
(* and one that is over but for its bookkeeping.                           *)
Unasked == {"claimed", "admitted", "waiting", "ready", "sending", "queueing", "launching"}
Spent   == {"sent", "requeued", "launched", "accepted"}
Asked(r) == claim[r].pc \in {"steering", "lost"}
Early(m) == sendPc[m] \in {"new", "captured", "queueing"}
Of(m) == {r \in Rows : Msg(r) = m}

(* Nothing of a message is in the journal before its sender put it there,  *)
(* and an inbox row is there once it is sent.                              *)
SenderFirst == \A m \in Msgs : Early(m) => \A r \in Of(m) : row[r] = "none" /\ claim[r] = NoClaim
InboxOpened ==
  \A m \in Msgs : IF m \in InboxMsgs THEN sendPc[m] = "new" <=> inbox[m] = "none" ELSE inbox[m] = "none"

(* A claimed row is hidden, or was deleted under its claim. *)
ClaimShape ==
  \A r \in Rows : /\ claim[r].by = "none" <=> claim[r].pc = "none"
                  /\ claim[r].by # "none" => row[r] \in {"launching", "deleted"}

(* The inbox row of a message is closed before its steer is asked, and one *)
(* steer at a time is.                                                     *)
Untouched(m) == got[m]["steer"] = 0 /\ got[m]["inbox"] = 0
SteeredOnce ==
  \A m \in InboxMsgs :
    /\ inbox[m] # "delivered" => Untouched(m)
    /\ \A r \in Of(m) : Asked(r) => inbox[m] = "delivered" /\ Untouched(m)
    /\ \A r, q \in Of(m) : Asked(r) /\ Asked(q) => r = q

(* What may yet deliver a message, unless a person sends an uncertain one   *)
(* again: its sender, or one row or claim of it.  Before it has, a person's *)
(* message reached no model, and an agent's started no turn or sibling.     *)
Carries(r) == row[r] \in {"pending", "recovered"} \/ claim[r].pc \in Unasked \/ Asked(r)
Tally(m) == IF m \in InboxMsgs THEN got[m]["turn"] + got[m]["sibling"] ELSE TimesGot(m)
OneCarrier ==
  \A m \in Msgs : "resent" \notin settled[m] =>
    /\ \A r, q \in Of(m) : Carries(r) /\ Carries(q) => r = q
    /\ Early(m) \/ (\E r \in Of(m) : Carries(r)) => Tally(m) = 0
    /\ Tally(m) <= 1

IInv == /\ NamedTypes /\ SenderFirst /\ InboxOpened /\ ClaimShape /\ ClaimsOwned
        /\ SteeredOnce /\ SteerXorInbox /\ OneCarrier

-----------------------------------------------------------------------------
(* The kinds of step, as rows, claims, senders and models see them         *)

OnlyRow(r)    == \A q \in Rows \ {r} : row'[q] = row[q]
OnlyClaim(r)  == \A q \in Rows \ {r} : claim'[q] = claim[q]
OnlySender(m) == \A n \in Msgs \ {m} : sendPc'[n] = sendPc[n]
OnlyInbox(m)  == \A n \in Msgs \ {m} : inbox'[n] = inbox[n]
SameQueue     == UNCHANGED <<row, claim, promotion>>
InboxCloses   == \A n \in Msgs : inbox'[n] = inbox[n] \/ (inbox[n] = "open" /\ inbox'[n] = "delivered")

Quiets ==
  UNCHANGED <<row, inbox, claim, sendPc, got>> /\ promotion' \in {promotion, FALSE} /\ Judged

(* A sender begins, goes on, starts a turn, or puts its row in. *)
Begins(m) ==
  /\ sendPc[m] = "new" /\ sendPc'[m] \in {"captured", "done"} /\ OnlySender(m)
  /\ inbox'[m] = (IF m \in InboxMsgs THEN "open" ELSE inbox[m]) /\ OnlyInbox(m)
  /\ sendPc'[m] = "done" => "dropped" \in settled'[m]
  /\ SameQueue /\ UNCHANGED got /\ Judged
Leaves(m) ==
  /\ sendPc[m] # "new" /\ sendPc'[m] \in {"queueing", "done"} /\ (Early(m)' => Early(m)) /\ OnlySender(m)
  /\ Early(m) /\ ~Early(m)' => "dropped" \in settled'[m] \/ inbox[m] = "delivered"
  /\ sendPc[m] = "started" => inbox'[m] # "open"
  /\ sendPc[m] # "started" => inbox'[m] = inbox[m]
  /\ InboxCloses /\ OnlyInbox(m) /\ SameQueue /\ UNCHANGED got /\ Judged
Starts(m) ==
  /\ sendPc[m] = "captured" /\ sendPc'[m] = "started" /\ OnlySender(m)
  /\ Reaches(m, "turn") /\ SameQueue /\ UNCHANGED inbox /\ Judged
Enqueues(m) ==
  /\ sendPc[m] = "queueing" /\ sendPc'[m] \in {"done", "steer"} /\ OnlySender(m)
  /\ row'[<<m, 1>>] = "pending" /\ OnlyRow(<<m, 1>>)
  /\ UNCHANGED <<inbox, claim, promotion, got>> /\ Judged

(* A row is claimed by a drain, a person or its sender; its claim goes on,  *)
(* delivers, asks the provider, or leaves the message to a fresh row.       *)
Steerers == {"steer", "agentSteer"}
ByDrain(r, by)  == by = "drain" /\ row[r] = "pending" /\ UNCHANGED sendPc
ByPerson(r, by) == /\ by \in {"promote", "steer", "multitask"} /\ "parked" \notin settled'[Msg(r)]
                   /\ budget'["actions"] < budget["actions"] /\ UNCHANGED sendPc
BySender(r, by) == /\ by = (IF Msg(r) \in InboxMsgs THEN "agentSteer" ELSE "steer")
                   /\ sendPc[Msg(r)] = "steer" /\ sendPc'[Msg(r)] = "done" /\ OnlySender(Msg(r))
                   /\ r = <<Msg(r), 1>>
Takes(r, by) ==
  /\ row[r] \in Visible /\ row'[r] = "launching" /\ OnlyRow(r)
  /\ claim'[r].by = by /\ claim'[r].pc = "claimed" /\ claim'[r].prior = row[r] /\ OnlyClaim(r)
  /\ promotion' = (promotion \/ by \in Promoters)
  /\ \A m \in Msgs : sendPc'[m] = sendPc[m] \/ (sendPc[m] = "steer" /\ sendPc'[m] = "done")
  /\ \A m \in Msgs : "resent" \in settled'[m] <=>
                       "resent" \in settled[m] \/ (m = Msg(r) /\ row[r] = "unknown")
  /\ Recalls /\ NoneParked
  /\ ByDrain(r, by) \/ ByPerson(r, by) \/ BySender(r, by)
  /\ UNCHANGED <<inbox, got>>
ClaimGoes(r, pcs) ==
  /\ claim'[r].pc \in pcs /\ claim'[r].by = claim[r].by /\ claim'[r].prior = claim[r].prior
  /\ OnlyClaim(r) /\ UNCHANGED <<promotion, sendPc>>
Progresses(r) ==
  /\ claim[r].pc \in Unasked /\ ClaimGoes(r, Unasked \cup Spent)
  /\ claim'[r].pc = "admitted" <=> claim[r].pc = "claimed" /\ claim[r].by \in Steerers
  /\ claim[r].pc # "admitted" /\ claim'[r].pc # "claimed"
  /\ claim'[r].pc \in Spent => claim'[r].pc = "sent" /\ inbox[Msg(r)] = "delivered"
  /\ claim'[r].pc = "sent" => claim[r].pc = "queueing"
  /\ claim'[r].pc = "launching" => claim[r].by = "multitask"
  /\ UNCHANGED <<row, inbox, got>> /\ Judged
Route(via, from, to) ==
  \/ via = "turn" /\ from = "sending" /\ to = "sent"
  \/ via = "sibling" /\ from = "launching" /\ to = "launched"
  \/ via = "steer" /\ from = "steering" /\ to = "accepted"
Delivers(r, via) ==
  /\ claim[r].pc \in Unasked \/ Asked(r)
  /\ via = "steer" <=> Asked(r)
  /\ Route(via, claim[r].pc, claim'[r].pc)
  /\ ClaimGoes(r, Spent) /\ Reaches(Msg(r), via)
  /\ UNCHANGED <<row, inbox>> /\ Judged
Asks(r) ==
  /\ claim[r].pc \in Unasked /\ claim[r].pc = "admitted" /\ ClaimGoes(r, {"steering"})
  /\ inbox[Msg(r)] # "delivered"
  /\ inbox'[Msg(r)] = (IF inbox[Msg(r)] = "open" THEN "delivered" ELSE inbox[Msg(r)])
  /\ OnlyInbox(Msg(r))
  /\ UNCHANGED <<row, got>> /\ Judged
Requeues(r, q) ==
  /\ claim[r].pc = "queueing" /\ ClaimGoes(r, {"requeued"})
  /\ Msg(q) = Msg(r) /\ row[q] = "none" /\ row'[q] = "pending" /\ OnlyRow(q)
  /\ UNCHANGED <<inbox, got>> /\ Judged

(* A claim ends: its row is offered again, or it is done with. *)
ClaimEnds(r) ==
  /\ claim[r].by # "none" /\ claim'[r] = NoClaim /\ OnlyClaim(r) /\ OnlyRow(r)
  /\ promotion' = Released(r) /\ UNCHANGED sendPc /\ Judged
Offered(r) ==
  \/ claim[r].pc \in {"ready", "sending", "waiting", "launching"} /\ row'[r] = claim[r].prior
  \/ (claim[r].pc = "admitted" \/ Asked(r)) /\ row'[r] = RefusedTo(r)
Restores(r) ==
  /\ ClaimEnds(r)
  /\ claim[r].pc \in Unasked \/ Asked(r)
  /\ IF row[r] = "launching" THEN row'[r] \in Visible /\ Offered(r) ELSE row'[r] = row[r]
  /\ \/ inbox'[Msg(r)] = inbox[Msg(r)]
     \/ Asked(r) /\ inbox[Msg(r)] = "delivered" /\ inbox'[Msg(r)] = "open"
  /\ Asked(r) => inbox'[Msg(r)] # "delivered"
  /\ OnlyInbox(Msg(r))
  /\ UNCHANGED got
Over(r) ==
  \/ claim[r].pc \in Spent
  \/ claim[r].pc \in Unasked /\ inbox[Msg(r)] = "delivered"
  \/ Asked(r) /\ "uncertain" \in settled'[Msg(r)]
Retires(r) ==
  /\ ClaimEnds(r)
  /\ row'[r] \in {"deleted", "unknown"}
  /\ row'[r] = "unknown" => Asked(r) \/ claim[r].pc = "accepted"
  /\ Over(r)
  /\ InboxCloses /\ OnlyInbox(Msg(r))
  /\ inbox'[Msg(r)] # inbox[Msg(r)] => claim[r].pc = "sent"
  /\ claim[r].by = "drain" /\ claim[r].pc = "sent" => inbox'[Msg(r)] # "open"
  /\ UNCHANGED got \/ (Asked(r) /\ Reaches(Msg(r), "steer"))

Sweeps == SweptRows /\ SweptClaims /\ UNCHANGED <<inbox, promotion, sendPc, got>> /\ SweptVerdicts

SenderKind(m) == Begins(m) \/ Leaves(m) \/ Starts(m) \/ Enqueues(m)
ClaimKind(r) ==
  \/ Progresses(r) \/ Asks(r) \/ Restores(r) \/ Retires(r)
  \/ \E via \in Routes \ {"inbox"} : Delivers(r, via)
  \/ \E q \in Rows : Requeues(r, q)
TakeKind(r) == \E by \in Promoters \cup {"drain"} : Takes(r, by)
StepKind ==
  \/ Quiets \/ Sweeps \/ CollectTake \/ Crash
  \/ \E m \in Msgs : SenderKind(m)
  \/ \E r \in Rows : ClaimKind(r) \/ TakeKind(r)

LEMMA Unjudged == UNCHANGED settled => Judged
BY DEF Judged, SameResent, Recalls, NoneParked

LEMMA SenderKinds ==
  ASSUME NamedTypes, NEW m \in Msgs, Submit(m) \/ SenderStep(m)
  PROVE  SenderKind(m) \/ TakeKind(<<m, 1>>)
<1> USE DEF queueVars, callVars, sendVars, turnVars, stopVars, histVars
<1>0. ASSUME Settle({m}, "dropped") PROVE Judged /\ "dropped" \in settled'[m]
  BY <1>0, SettleEffect DEF NamedTypes, Verdicts, Judged
<1>1. CASE Submit(m)
  <2>1. Judged /\ (sendPc'[m] = "done" => "dropped" \in settled'[m])
    <3>1. CASE job = "none"
      BY <1>1, <3>1, Unjudged DEF Submit, NamedTypes
    <3>2. CASE job # "none"
      BY <1>0, <1>1, <3>2 DEF Submit
    <3> QED
      BY <3>1, <3>2
  <2> QED
    BY <1>1, <2>1 DEF Submit, NamedTypes, SenderKind, Begins, OnlySender, OnlyInbox, SameQueue
<1>2. CASE SendFails(m)
  <2>1. Judged /\ "dropped" \in settled'[m]
    BY <1>0, <1>2 DEF SendFails
  <2> QED
    BY <1>2, <2>1 DEF SendFails, NamedTypes, SenderKind, Leaves, Early, OnlySender, OnlyInbox, SameQueue, InboxCloses
<1>3. CASE SendStartsTurn(m)
  BY <1>3, Unjudged DEF SendStartsTurn, NamedTypes, SenderKind, Starts, OnlySender, SameQueue
<1>4. CASE SendFindsHandle(m)
  BY <1>4, Unjudged DEF SendFindsHandle, NamedTypes, SenderKind, Leaves, Early, OnlySender, OnlyInbox, SameQueue, InboxCloses
<1>5. CASE SendEnqueue(m)
  <2>1. CASE IsDelivered(m)
    BY <1>5, <2>1, Unjudged DEF SendEnqueue, IsDelivered, NamedTypes, SenderKind, Leaves, Early, OnlySender, OnlyInbox, SameQueue, InboxCloses
  <2>2. CASE ~IsDelivered(m)
    BY <1>5, <2>2, Sorts, Unjudged DEF SendEnqueue, NamedTypes, SenderKind, Enqueues, OnlySender, OnlyRow
  <2> QED
    BY <2>1, <2>2
<1>6. CASE SendSteers(m)
  <2>1. CASE promotion \/ row[<<m, 1>>] \notin Visible
    BY <1>6, <2>1, Unjudged DEF SendSteers, NamedTypes, SenderKind, Leaves, Early, OnlySender, OnlyInbox, SameQueue, InboxCloses
  <2>2. CASE ~(promotion \/ row[<<m, 1>>] \notin Visible)
    <3> DEFINE by == IF m \in InboxMsgs THEN "agentSteer" ELSE "steer"
    <3>1. Claimed(<<m, 1>>, by) /\ by \in Promoters
      BY <1>6, <2>2 DEF SendSteers, Promoters
    <3>2. settled' = [settled EXCEPT ![m] = @ \cup Resent(<<m, 1>>)]
      BY <1>6, <2>2 DEF SendSteers
    <3>3. \A n \in Msgs : "resent" \in settled'[n] <=>
                            "resent" \in settled[n] \/ (n = Msg(<<m, 1>>) /\ row[<<m, 1>>] = "unknown")
      BY <3>2, Sorts DEF NamedTypes, Decisions, Resent
    <3>4. Recalls /\ NoneParked
      BY <3>2 DEF NamedTypes, Decisions, Resent, Recalls, NoneParked
    <3>5. /\ \A n \in Msgs : sendPc'[n] = sendPc[n] \/ (sendPc[n] = "steer" /\ sendPc'[n] = "done")
          /\ sendPc[m] = "steer" /\ sendPc'[m] = "done" /\ OnlySender(m)
      BY <1>6 DEF SendSteers, NamedTypes, OnlySender
    <3>6. UNCHANGED <<inbox, got>>
      BY <1>6 DEF SendSteers
    <3>7. BySender(<<m, 1>>, by)
      BY <3>5, Sorts DEF BySender
    <3> HIDE DEF by
    <3>8. Takes(<<m, 1>>, by)
      BY <2>2, <3>1, <3>3, <3>4, <3>5, <3>6, <3>7, ClaimedEffect, Sorts DEF NamedTypes, Takes, OnlyRow, OnlyClaim
    <3> QED
      BY <3>1, <3>8 DEF TakeKind
  <2> QED
    BY <2>1, <2>2
<1>7. CASE SendCloses(m)
  BY <1>7, Unjudged DEF SendCloses, NamedTypes, SenderKind, Leaves, Early, OnlySender, OnlyInbox, SameQueue, InboxCloses
<1> QED
  BY <1>1, <1>2, <1>3, <1>4, <1>5, <1>6, <1>7 DEF SenderStep

LEMMA TakeKinds ==
  ASSUME NamedTypes, NEW r \in Rows, DrainPop(r) \/ \E by \in Promoters : Pick(r, by)
  PROVE  TakeKind(r)
<1> USE DEF queueVars, callVars, sendVars, turnVars, stopVars, histVars
<1>1. CASE DrainPop(r)
  <2>1. row[r] \in Visible /\ row[r] = "pending" /\ Claimed(r, "drain")
    BY <1>1 DEF DrainPop, Visible
  <2>2. UNCHANGED <<inbox, got, sendPc, settled>>
    BY <1>1 DEF DrainPop
  <2>3. Recalls /\ NoneParked /\ ByDrain(r, "drain")
    BY <2>1, <2>2 DEF Recalls, NoneParked, ByDrain
  <2>4. Takes(r, "drain")
    BY <2>1, <2>2, <2>3, ClaimedEffect DEF NamedTypes, Takes, OnlyRow, OnlyClaim
  <2> QED
    BY <2>4 DEF TakeKind
<1>2. ASSUME NEW by \in Promoters, Pick(r, by) PROVE TakeKind(r)
  <2>1. row[r] \in Visible /\ Claimed(r, by)
    BY <1>2 DEF Pick
  <2>2. UNCHANGED <<inbox, got, sendPc>>
    BY <1>2 DEF Pick
  <2>3. settled' = [settled EXCEPT ![Msg(r)] = (settled[Msg(r)] \ {"parked"}) \cup Resent(r)]
    BY <1>2 DEF Pick
  <2>4. \A m \in Msgs : settled'[m] = IF m = Msg(r) THEN (settled[m] \ {"parked"}) \cup Resent(r) ELSE settled[m]
    BY <2>3, Sorts DEF NamedTypes, Decisions
  <2>5. \A m \in Msgs : "resent" \in settled'[m] <=>
                          "resent" \in settled[m] \/ (m = Msg(r) /\ row[r] = "unknown")
    BY <2>4 DEF Resent
  <2>6. Recalls /\ NoneParked
    <3>1. ASSUME NEW m \in Msgs
          PROVE  /\ settled[m] \ {"parked"} \subseteq settled'[m]
                 /\ "parked" \in settled'[m] => "parked" \in settled[m]
      <4>1. CASE m = Msg(r)
        <5>1. settled'[m] = (settled[m] \ {"parked"}) \cup Resent(r)
          BY <2>4, <4>1
        <5> QED
          BY <5>1 DEF Resent
      <4>2. CASE m # Msg(r)
        BY <2>4, <4>2
      <4> QED
        BY <4>1, <4>2
    <3> QED
      BY <3>1 DEF Recalls, NoneParked
  <2>7. ByPerson(r, by)
    <3>1. by \in {"promote", "steer", "multitask"}
      BY <1>2, ConstantsAssumption DEF Pick, ConstantsAssumption
    <3>2. budget'["actions"] < budget["actions"]
      BY <1>2 DEF Pick, Spend, NamedTypes, Budgets
    <3>3. settled'[Msg(r)] = (settled[Msg(r)] \ {"parked"}) \cup Resent(r)
      BY <2>4, Sorts
    <3>4. "parked" \notin settled'[Msg(r)]
      BY <3>3 DEF Resent
    <3> QED
      BY <2>2, <3>1, <3>2, <3>4 DEF ByPerson
  <2>8. Takes(r, by)
    BY <2>1, <2>2, <2>5, <2>6, <2>7, ClaimedEffect DEF NamedTypes, Takes, OnlyRow, OnlyClaim
  <2> QED
    BY <2>8 DEF TakeKind
<1> QED
  BY <1>1, <1>2

(* The two ways in which a claim ends *)
LEMMA EndKind ==
  ASSUME NamedTypes, ClaimShape, NEW r \in Rows, NEW status \in Visible \cup {"deleted"},
         EndClaim(r, status), claim[r].pc # "none", UNCHANGED sendPc, Judged
  PROVE  /\ ClaimEnds(r)
         /\ status \in {"deleted", "unknown"} => row'[r] \in {"deleted", "unknown"}
         /\ row'[r] = "unknown" => status = "unknown"
         /\ status # "deleted" => row'[r] = IF row[r] = "launching" THEN status ELSE row[r]
<1>1. claim[r].by # "none"
  BY DEF ClaimShape
<1>2. ClaimEnds(r)
  BY <1>1, EndClaimEffect DEF NamedTypes, ClaimEnds, OnlyRow, OnlyClaim
<1> QED
  BY <1>1, <1>2, EndClaimEffect DEF NamedTypes, ClaimShape

LEMMA RetiresKind ==
  ASSUME NamedTypes, ClaimShape, NEW r \in Rows, NEW status \in {"deleted", "unknown"},
         EndClaim(r, status), claim[r].pc # "none", UNCHANGED <<sendPc, inbox, got>>, Judged, Over(r),
         ~(claim[r].by = "drain" /\ claim[r].pc = "sent"),
         status = "unknown" => claim[r].pc = "accepted"
  PROVE  ClaimKind(r)
<1>1. status \in Visible \cup {"deleted"}
  BY DEF Visible
<1>2. InboxCloses /\ OnlyInbox(Msg(r))
  BY DEF InboxCloses, OnlyInbox
<1> QED
  BY <1>1, <1>2, EndKind DEF ClaimKind, Retires

(* A claim that ends because the message was collected, before it was asked. *)
LEMMA CollectedKind ==
  ASSUME NamedTypes, ClaimShape, NEW r \in Rows, EndClaim(r, "deleted"), IsDelivered(Msg(r)),
         claim[r].pc \in {"claimed", "admitted"}, UNCHANGED <<sendPc, inbox, got>>, Judged
  PROVE  ClaimKind(r)
BY RetiresKind DEF Over, IsDelivered, Unasked

LEMMA RestoresKind ==
  ASSUME NamedTypes, ClaimShape, NEW r \in Rows, NEW status \in Visible, EndClaim(r, status),
         \/ claim[r].pc \in {"ready", "sending", "waiting", "launching"} /\ status = claim[r].prior
         \/ claim[r].pc = "admitted" /\ status = RefusedTo(r),
         UNCHANGED <<sendPc, got, inbox>>, Judged
  PROVE  ClaimKind(r)
<1>1. claim[r].pc # "none" /\ status # "deleted" /\ claim[r].pc \in Unasked /\ ~Asked(r)
  BY DEF Unasked, Visible, Asked
<1>2. OnlyInbox(Msg(r))
  BY DEF OnlyInbox
<1> QED
  BY <1>1, <1>2, EndKind DEF ClaimKind, Restores, Offered

(* How a claim comes to its delivery *)
Path(r, pc) ==
  \/ claim[r].pc = "claimed" /\ claim[r].by = "drain" /\ pc = "ready"
  \/ claim[r].pc = "claimed" /\ claim[r].by = "promote" /\ pc = "waiting"
  \/ claim[r].pc = "claimed" /\ claim[r].by = "multitask" /\ pc = "launching"
  \/ claim[r].pc = "claimed" /\ claim[r].by \in Steerers /\ pc = "admitted"
  \/ claim[r].pc = "waiting" /\ pc = "ready"
  \/ claim[r].pc = "ready" /\ pc = "sending"
  \/ claim[r].pc = "sending" /\ pc = "queueing"
  \/ claim[r].pc = "queueing" /\ pc = "sent" /\ IsDelivered(Msg(r))

LEMMA ProgressesKind ==
  ASSUME NamedTypes, NEW r \in Rows, NEW pc \in Unasked \cup Spent,
         \/ Advance(r, pc)
         \/ claim' = [claim EXCEPT ![r].pc = pc, ![r].gen = generation],
         Path(r, pc),
         UNCHANGED <<row, inbox, promotion, sendPc, got>>, Judged
  PROVE  ClaimKind(r)
<1>1. pc \in ClaimPcs
  BY DEF Unasked, Spent, ClaimPcs
<1>2. claim'[r].pc = pc /\ claim'[r].by = claim[r].by /\ claim'[r].prior = claim[r].prior /\ OnlyClaim(r)
  BY <1>1, AdvanceEffect, AdvanceGenEffect DEF NamedTypes, OnlyClaim
<1>3. /\ claim[r].pc \in Unasked /\ claim[r].pc # "admitted" /\ pc # "claimed"
      /\ pc = "admitted" <=> claim[r].pc = "claimed" /\ claim[r].by \in Steerers
      /\ pc \in Spent => pc = "sent" /\ inbox[Msg(r)] = "delivered"
      /\ pc = "sent" => claim[r].pc = "queueing"
      /\ pc = "launching" => claim[r].by = "multitask"
  BY DEF Path, Spent, Unasked, Steerers, IsDelivered
<1> QED
  BY <1>2, <1>3 DEF ClaimKind, Progresses, ClaimGoes

LEMMA DeliversKind ==
  ASSUME NamedTypes, NEW r \in Rows, NEW pc \in Spent, NEW via \in Routes \ {"inbox"},
         Advance(r, pc), Reaches(Msg(r), via), Route(via, claim[r].pc, pc),
         UNCHANGED <<row, inbox, promotion, sendPc>>, Judged
  PROVE  ClaimKind(r)
<1>1. pc \in ClaimPcs
  BY DEF Spent, ClaimPcs
<1>2. claim'[r].pc = pc /\ claim'[r].by = claim[r].by /\ claim'[r].prior = claim[r].prior /\ OnlyClaim(r)
  BY <1>1, AdvanceEffect DEF NamedTypes, OnlyClaim
<1>3. (claim[r].pc \in Unasked \/ Asked(r)) /\ (via = "steer" <=> Asked(r))
  BY DEF Route, Unasked, Asked
<1>4. Delivers(r, via)
  BY <1>2, <1>3 DEF Delivers, ClaimGoes
<1> QED
  BY <1>4 DEF ClaimKind

LEMMA ClaimKinds ==
  ASSUME NamedTypes, ClaimShape, NEW r \in Rows, ClaimStep(r)
  PROVE  ClaimKind(r)
<1> USE Unjudged DEF queueVars, callVars, sendVars, turnVars, stopVars, histVars
<1>1. CASE DrainAdmit(r)
  <2>1. UNCHANGED <<inbox, sendPc, got>> /\ Judged /\ claim[r].pc = "claimed" /\ claim[r].by = "drain"
    BY <1>1 DEF DrainAdmit
  <2>2. \/ IsDelivered(Msg(r)) /\ EndClaim(r, "deleted")
        \/ Advance(r, "ready") /\ UNCHANGED <<row, promotion>>
    BY <1>1 DEF DrainAdmit
  <2> QED
    BY <2>1, <2>2, CollectedKind, ProgressesKind DEF Unasked, Path
<1>2. CASE DrainFinish(r)
  <2>1. /\ UNCHANGED <<sendPc, got>> /\ Judged /\ EndClaim(r, "deleted")
        /\ claim[r].pc \in {"sent", "requeued"}
    BY <1>2 DEF DrainFinish
  <2>2. /\ inbox'[Msg(r)] = IF claim[r].pc = "sent" /\ inbox[Msg(r)] = "open" THEN "delivered" ELSE inbox[Msg(r)]
        /\ InboxCloses /\ OnlyInbox(Msg(r))
    BY <1>2, Sorts DEF DrainFinish, InboxCloses, OnlyInbox, NamedTypes
  <2>3. Over(r) /\ claim[r].pc # "none"
    BY <2>1 DEF Over, Spent
  <2>4. ClaimEnds(r) /\ row'[r] \in {"deleted", "unknown"} /\ row'[r] # "unknown"
    BY <2>1, <2>3, EndKind
  <2> QED
    BY <2>1, <2>2, <2>3, <2>4 DEF ClaimKind, Retires
<1>3. CASE ClaimCapture(r)
  <2>1. UNCHANGED <<inbox, sendPc, got>> /\ Judged /\ claim[r].pc = "ready"
    BY <1>3 DEF ClaimCapture
  <2>2. \/ EndClaim(r, claim[r].prior)
        \/ claim' = [claim EXCEPT ![r].pc = "sending", ![r].gen = generation] /\ UNCHANGED <<row, promotion>>
    BY <1>3 DEF ClaimCapture
  <2> QED
    BY <2>1, <2>2, RestoresKind, ProgressesKind, PriorVisible DEF Unasked, Path
<1>4. CASE ClaimFails(r)
  BY <1>4, RestoresKind, PriorVisible DEF ClaimFails
<1>5. CASE ClaimStartsTurn(r)
  BY <1>5, DeliversKind DEF ClaimStartsTurn, Route, Spent, Routes
<1>6. CASE ClaimFindsHandle(r)
  BY <1>6, ProgressesKind DEF ClaimFindsHandle, Unasked, Path
<1>7. CASE ClaimRequeue(r)
  <2>1. UNCHANGED <<inbox, sendPc, got, promotion>> /\ Judged /\ claim[r].pc = "queueing"
    BY <1>7 DEF ClaimRequeue
  <2>2. CASE IsDelivered(Msg(r))
    BY <1>7, <2>1, <2>2, ProgressesKind DEF ClaimRequeue, Spent, Path
  <2>3. CASE ~IsDelivered(Msg(r))
    <3>1. PICK q \in SpareRows(Msg(r)) : row' = [row EXCEPT ![q] = "pending"]
      BY <1>7, <2>3 DEF ClaimRequeue
    <3>2. Advance(r, "requeued") /\ "requeued" \in ClaimPcs
      BY <1>7, <2>3 DEF ClaimRequeue, ClaimPcs
    <3>3. q \in Rows /\ Msg(q) = Msg(r) /\ row[q] = "none" /\ row'[q] = "pending" /\ OnlyRow(q)
      BY <3>1 DEF SpareRows, NamedTypes, OnlyRow
    <3>4. Requeues(r, q)
      BY <2>1, <3>2, <3>3, AdvanceEffect DEF Requeues, ClaimGoes, OnlyClaim, NamedTypes
    <3> QED
      BY <3>3, <3>4 DEF ClaimKind
  <2> QED
    BY <2>2, <2>3
<1>8. CASE PromoteAdmit(r)
  <2>1. UNCHANGED <<inbox, sendPc, got>> /\ Judged /\ claim[r].pc = "claimed" /\ claim[r].by = "promote"
    BY <1>8 DEF PromoteAdmit
  <2>2. \/ IsDelivered(Msg(r)) /\ EndClaim(r, "deleted")
        \/ Advance(r, "waiting") /\ UNCHANGED <<row, promotion>>
    BY <1>8 DEF PromoteAdmit
  <2> QED
    BY <2>1, <2>2, CollectedKind, ProgressesKind DEF Unasked, Path
<1>9. CASE PromoteResume(r)
  <2>1. UNCHANGED <<inbox, sendPc, got>> /\ Judged /\ claim[r].pc = "waiting"
    BY <1>9 DEF PromoteResume
  <2>2. EndClaim(r, claim[r].prior) \/ (Advance(r, "ready") /\ UNCHANGED <<row, promotion>>)
    BY <1>9 DEF PromoteResume
  <2> QED
    BY <2>1, <2>2, RestoresKind, ProgressesKind, PriorVisible DEF Unasked, Path
<1>10. CASE PromoteFinish(r)
  <2>1. /\ UNCHANGED <<sendPc, got, inbox>> /\ Judged /\ EndClaim(r, "deleted")
        /\ claim[r].pc \in {"sent", "requeued"} /\ claim[r].by = "promote"
    BY <1>10 DEF PromoteFinish
  <2> QED
    BY <2>1, RetiresKind DEF Over, Spent
<1>11. CASE MultitaskAdmit(r)
  <2>1. UNCHANGED <<inbox, sendPc, got>> /\ Judged /\ claim[r].pc = "claimed" /\ claim[r].by = "multitask"
    BY <1>11 DEF MultitaskAdmit
  <2>2. \/ IsDelivered(Msg(r)) /\ EndClaim(r, "deleted")
        \/ Advance(r, "launching") /\ UNCHANGED <<row, promotion>>
    BY <1>11 DEF MultitaskAdmit
  <2> QED
    BY <2>1, <2>2, CollectedKind, ProgressesKind DEF Unasked, Path
<1>12. CASE MultitaskLaunch(r)
  BY <1>12, DeliversKind DEF MultitaskLaunch, Route, Spent, Routes
<1>13. CASE MultitaskEnd(r)
  <2>1. UNCHANGED <<inbox, sendPc, got>> /\ Judged
    BY <1>13 DEF MultitaskEnd
  <2>2. \/ claim[r].pc = "launched" /\ EndClaim(r, "deleted")
        \/ claim[r].pc = "launching" /\ EndClaim(r, claim[r].prior)
    BY <1>13 DEF MultitaskEnd
  <2> QED
    BY <2>1, <2>2, RetiresKind, RestoresKind, PriorVisible DEF Over, Spent
<1>14. CASE SteerAdmit(r)
  <2>1. UNCHANGED <<inbox, sendPc, got>> /\ Judged /\ claim[r].pc = "claimed" /\ claim[r].by \in Steerers
    BY <1>14 DEF SteerAdmit, Steerers
  <2>2. \/ IsDelivered(Msg(r)) /\ EndClaim(r, "deleted")
        \/ Advance(r, "admitted") /\ UNCHANGED <<row, promotion>>
    BY <1>14 DEF SteerAdmit
  <2> QED
    BY <2>1, <2>2, CollectedKind, ProgressesKind DEF Unasked, Path
<1>15. CASE SteerRefused(r)
  <2>1. RefusedTo(r) \in Visible
    BY DEF RefusedTo, Visible
  <2> QED
    BY <1>15, <2>1, RestoresKind DEF SteerRefused, SteerEnds
<1>16. CASE SteerAsk(r)
  <2>1. UNCHANGED <<sendPc, got>> /\ Judged /\ claim[r].pc = "admitted"
    BY <1>16 DEF SteerAsk
  <2>2. CASE IsDelivered(Msg(r))
    BY <1>16, <2>1, <2>2, CollectedKind DEF SteerAsk, SteerEnds
  <2>3. CASE ~IsDelivered(Msg(r))
    <3>1. /\ claim' = [claim EXCEPT ![r].pc = "steering", ![r].gen = generation]
          /\ inbox' = [inbox EXCEPT ![Msg(r)] = IF @ = "open" THEN "delivered" ELSE @]
          /\ UNCHANGED <<row, promotion>>
      BY <1>16, <2>3 DEF SteerAsk
    <3>2. /\ claim'[r].pc = "steering" /\ claim'[r].by = claim[r].by /\ claim'[r].prior = claim[r].prior
          /\ OnlyClaim(r)
      BY <3>1, AdvanceGenEffect DEF NamedTypes, OnlyClaim, ClaimPcs
    <3>3. /\ inbox'[Msg(r)] = (IF inbox[Msg(r)] = "open" THEN "delivered" ELSE inbox[Msg(r)])
          /\ OnlyInbox(Msg(r))
      BY <3>1, Sorts DEF NamedTypes, OnlyInbox
    <3>4. Asks(r)
      BY <2>1, <2>3, <3>1, <3>2, <3>3 DEF Asks, ClaimGoes, IsDelivered, Unasked
    <3> QED
      BY <3>4 DEF ClaimKind
  <2> QED
    BY <2>2, <2>3
<1>17. CASE SteerAccepted(r)
  BY <1>17, DeliversKind DEF SteerAccepted, Route, Spent, Routes
<1>18. CASE SteerRejected(r)
  <2>1. UNCHANGED <<sendPc, got>> /\ Judged /\ Asked(r) /\ claim[r].pc # "none"
    BY <1>18 DEF SteerRejected, Asked
  <2>2. EndClaim(r, RefusedTo(r)) /\ RefusedTo(r) \in Visible /\ RefusedTo(r) # "deleted"
    BY <1>18 DEF SteerRejected, SteerEnds, RefusedTo, Visible
  <2>3. /\ inbox'[Msg(r)] = (IF inbox[Msg(r)] = "delivered" THEN "open" ELSE inbox[Msg(r)])
        /\ OnlyInbox(Msg(r))
    BY <1>18, Sorts DEF SteerRejected, OnlyInbox, NamedTypes
  <2>4. Restores(r)
    BY <2>1, <2>2, <2>3, EndKind DEF Restores, Offered
  <2> QED
    BY <2>4 DEF ClaimKind
<1>19. CASE SteerUnanswered(r)
  <2>1. UNCHANGED <<sendPc, inbox>> /\ Asked(r) /\ claim[r].pc # "none" /\ claim[r].pc # "sent"
    BY <1>19 DEF SteerUnanswered, Asked
  <2>2. Judged /\ "uncertain" \in settled'[Msg(r)]
    BY <1>19, SettleEffect, Sorts DEF SteerUnanswered, NamedTypes, Verdicts, Judged
  <2>3. EndClaim(r, "unknown") /\ "unknown" \in Visible /\ (Reaches(Msg(r), "steer") \/ UNCHANGED got)
    BY <1>19 DEF SteerUnanswered, SteerEnds, Visible
  <2>4. InboxCloses /\ OnlyInbox(Msg(r)) /\ Over(r)
    BY <2>1, <2>2 DEF InboxCloses, OnlyInbox, Over
  <2>5. Retires(r)
    BY <2>1, <2>2, <2>3, <2>4, EndKind DEF Retires
  <2> QED
    BY <2>5 DEF ClaimKind
<1>20. CASE SteerSettle(r)
  BY <1>20, RetiresKind DEF SteerSettle, SteerEnds, Over, Spent
<1> QED
  BY <1>1, <1>2, <1>3, <1>4, <1>5, <1>6, <1>7, <1>8, <1>9, <1>10, <1>11, <1>12, <1>13, <1>14,
     <1>15, <1>16, <1>17, <1>18, <1>19, <1>20 DEF ClaimStep, SendClaimed, Steer

LEMMA Kinds ==
  ASSUME NamedTypes, ClaimShape, [Next]_vars
  PROVE  StepKind
<1> USE DEF queueVars, callVars, sendVars, turnVars, stopVars, histVars
<1>0. ASSUME UNCHANGED <<row, settled>> PROVE SweptRows /\ SweptVerdicts
  <2>1. SweptRows /\ Excused
    BY <1>0 DEF NamedTypes, SweptRows, Swept, Excused
  <2> QED
    BY <1>0, <2>1, Unjudged DEF SweptVerdicts, Judged
<1>1. ASSUME NEW m \in Msgs, Submit(m) \/ SenderStep(m) PROVE StepKind
  BY <1>1, SenderKinds, Sorts DEF StepKind
<1>2. ASSUME NEW r \in Rows, ClaimStep(r) PROVE StepKind
  BY <1>2, ClaimKinds DEF StepKind
<1>3. ASSUME NEW r \in Rows, DrainPop(r) \/ \E by \in Promoters : Pick(r, by) PROVE StepKind
  BY <1>3, TakeKinds DEF StepKind
<1>4. CASE Recheck \/ DrainNothing \/ Launched \/ StopBegin \/ UNCHANGED vars
  <2>1. Quiets
    BY <1>4, Unjudged DEF Recheck, DrainNothing, Launched, StopBegin, vars, Quiets
  <2> QED
    BY <2>1 DEF StepKind
<1>5. ASSUME NEW r \in Rows, CancelQueued(r) PROVE StepKind
  <2>1. SameResent /\ Recalls /\ NoneParked /\ "dropped" \in settled'[Msg(r)]
    BY <1>5, SettleEffect, Sorts DEF CancelQueued, NamedTypes, Verdicts
  <2>2. SweptRows
    BY <1>5 DEF CancelQueued, NamedTypes, SweptRows, Swept, RowStates
  <2>3. Excused
    BY <1>5, <2>1 DEF CancelQueued, NamedTypes, Excused
  <2> QED
    BY <1>5, <2>1, <2>2, <2>3 DEF CancelQueued, StepKind, Sweeps, SweptVerdicts, SweptClaims, NamedTypes
<1>6. CASE CollectReconcile
  <2>1. SweptRows /\ Excused
    BY <1>6 DEF CollectReconcile, NamedTypes, SweptRows, Swept, RowStates, Excused
  <2>2. Judged
    BY <1>6, Unjudged DEF CollectReconcile
  <2> QED
    BY <1>6, <2>1, <2>2 DEF CollectReconcile, StepKind, Sweeps, SweptVerdicts, SweptClaims, NamedTypes, Judged
<1>7. CASE LaunchFails
  BY <1>7, PauseEffect DEF LaunchFails, NamedTypes, StepKind, Sweeps, SweptClaims
<1>8. CASE TurnEnds
  <2>1. SweptClaims
    BY <1>8, LoseEffect DEF TurnEnds, NamedTypes
  <2>2. SweptRows /\ SweptVerdicts
    BY <1>0, <1>8, PauseEffect DEF TurnEnds, NamedTypes
  <2> QED
    BY <1>8, <2>1, <2>2 DEF TurnEnds, StepKind, Sweeps
<1>9. CASE StopClear
  BY <1>9, ClearEffect DEF StopClear, NamedTypes, StepKind, Sweeps, SweptClaims
<1>10. CASE StopFinish
  BY <1>0, <1>10, LoseEffect DEF StopFinish, NamedTypes, StepKind, Sweeps
<1>11. CASE ClearIdle
  BY <1>11, ClearEffect DEF ClearIdle, NamedTypes, StepKind, Sweeps, SweptClaims
<1>12. CASE CollectTake \/ Crash
  BY <1>12 DEF StepKind
<1> QED
  BY <1>1, <1>2, <1>3, <1>4, <1>5, <1>6, <1>7, <1>8, <1>9, <1>10, <1>11, <1>12 DEF Next, DrainStep

-----------------------------------------------------------------------------
(* Every kind of step keeps each part of the invariant                     *)

LEMMA NoClaimIs == NoClaim.by = "none" /\ NoClaim.pc = "none"
BY DEF NoClaim

LEMMA SenderFirstKept == IInv /\ NamedTypes' /\ StepKind => SenderFirst'
<1> SUFFICES ASSUME IInv, NamedTypes', StepKind, NEW m \in Msgs, Early(m)', NEW r \in Of(m)
             PROVE  row'[r] = "none" /\ claim'[r] = NoClaim
  BY DEF SenderFirst, Of
<1>1. r \in Rows /\ Msg(r) = m
  BY DEF Of
<1>2. Early(m) => row[r] = "none" /\ claim[r] = NoClaim
  BY DEF IInv, SenderFirst
<1>3. CASE Quiets
  BY <1>1, <1>2, <1>3 DEF Quiets, Early
<1>4. CASE Sweeps
  BY <1>1, <1>2, <1>4, NoClaimIs DEF Sweeps, SweptRows, Swept, SweptClaims, Early, Visible
<1>5. CASE CollectTake
  BY <1>1, <1>2, <1>5 DEF CollectTake, sendVars, Early
<1>6. CASE Crash
  BY <1>1, <1>2, <1>6 DEF Crash, Recovered, Visible, Early
<1>7. ASSUME NEW n \in Msgs, SenderKind(n) PROVE row'[r] = "none" /\ claim'[r] = NoClaim
  <2>1. CASE Begins(n) \/ Leaves(n) \/ Starts(n)
    BY <1>1, <1>2, <2>1 DEF Begins, Leaves, Starts, SameQueue, OnlySender, Early
  <2>2. CASE Enqueues(n)
    <3>1. n # m /\ Early(m)
      BY <2>2 DEF Enqueues, OnlySender, Early
    <3> QED
      BY <1>1, <1>2, <2>2, <3>1, Sorts DEF Enqueues, OnlyRow
  <2> QED
    BY <1>7, <2>1, <2>2 DEF SenderKind
<1>8. ASSUME NEW q \in Rows, ClaimKind(q) PROVE row'[r] = "none" /\ claim'[r] = NoClaim
  <2>1. claim[q].pc # "none" \/ claim[q].by # "none"
    BY <1>8 DEF ClaimKind, Progresses, Asks, Restores, Retires, ClaimEnds, Delivers, Requeues, Unasked, Asked
  <2>2. sendPc' = sendPc
    BY <1>8 DEF ClaimKind, Progresses, Asks, Restores, Retires, ClaimEnds, Delivers, Requeues, ClaimGoes
  <2>3. Early(m) /\ Msg(q) # m
    BY <2>1, <2>2, NoClaimIs DEF Early, IInv, SenderFirst, Of
  <2>4. claim'[r] = claim[r]
    BY <1>1, <1>8, <2>3 DEF ClaimKind, Progresses, Asks, Restores, Retires, ClaimEnds, Delivers, Requeues, ClaimGoes, OnlyClaim
  <2>5. row'[r] = row[r]
    BY <1>1, <1>8, <2>3 DEF ClaimKind, Progresses, Asks, Restores, Retires, ClaimEnds, Delivers, Requeues, OnlyRow
  <2> QED
    BY <1>2, <2>3, <2>4, <2>5
<1>9. ASSUME NEW q \in Rows, TakeKind(q) PROVE row'[r] = "none" /\ claim'[r] = NoClaim
  <2>1. PICK by \in Promoters \cup {"drain"} : Takes(q, by)
    BY <1>9 DEF TakeKind
  <2>2. Early(m)
    BY <2>1 DEF Takes, Early
  <2>3. q # r
    BY <1>2, <2>1, <2>2 DEF Takes, Visible
  <2> QED
    BY <1>1, <1>2, <2>1, <2>2, <2>3 DEF Takes, OnlyRow, OnlyClaim
<1> QED
  BY <1>3, <1>4, <1>5, <1>6, <1>7, <1>8, <1>9 DEF StepKind

LEMMA InboxOpenedKept == IInv /\ NamedTypes' /\ StepKind => InboxOpened'
<1> DEFINE Opened(m) == IF m \in InboxMsgs THEN sendPc[m] = "new" <=> inbox[m] = "none" ELSE inbox[m] = "none"
<1> SUFFICES ASSUME IInv, NamedTypes', StepKind, NEW m \in Msgs PROVE Opened(m)'
  BY DEF InboxOpened
<1>1. Opened(m)
  BY DEF IInv, InboxOpened
<1>2. CASE Quiets \/ Sweeps
  BY <1>1, <1>2 DEF Quiets, Sweeps
<1>3. CASE CollectTake
  BY <1>1, <1>3 DEF CollectTake, sendVars
<1>4. CASE Crash
  BY <1>1, <1>4 DEF Crash
<1>5. ASSUME NEW n \in Msgs, SenderKind(n) PROVE Opened(m)'
  BY <1>1, <1>5 DEF SenderKind, Begins, Leaves, Starts, Enqueues, OnlySender, OnlyInbox, InboxCloses
<1>6. ASSUME NEW q \in Rows, ClaimKind(q) PROVE Opened(m)'
  <2>1. sendPc' = sendPc
    BY <1>6 DEF ClaimKind, Progresses, Asks, Restores, Retires, ClaimEnds, Delivers, Requeues, ClaimGoes
  <2>2. inbox'[m] = inbox[m] \/ (inbox[m] # "none" /\ inbox'[m] # "none")
    BY <1>6 DEF ClaimKind, Progresses, Asks, Restores, Retires, Delivers, Requeues, OnlyInbox, InboxCloses
  <2> QED
    BY <1>1, <2>1, <2>2
<1>7. ASSUME NEW q \in Rows, TakeKind(q) PROVE Opened(m)'
  BY <1>1, <1>7 DEF TakeKind, Takes
<1> QED
  BY <1>2, <1>3, <1>4, <1>5, <1>6, <1>7 DEF StepKind

LEMMA ClaimShapeKept == IInv /\ NamedTypes' /\ StepKind => ClaimShape'
<1> SUFFICES ASSUME IInv, NamedTypes', StepKind, NEW r \in Rows
             PROVE  (/\ claim[r].by = "none" <=> claim[r].pc = "none"
                     /\ claim[r].by # "none" => row[r] \in {"launching", "deleted"})'
  BY DEF ClaimShape
<1> DEFINE Shape == /\ claim[r].by = "none" <=> claim[r].pc = "none"
                    /\ claim[r].by # "none" => row[r] \in {"launching", "deleted"}
<1>1. Shape
  BY DEF IInv, ClaimShape
<1>2. CASE Quiets
  BY <1>1, <1>2 DEF Quiets
<1>3. CASE Sweeps
  BY <1>1, <1>3 DEF Sweeps, SweptRows, Swept, SweptClaims
<1>4. CASE CollectTake
  BY <1>1, <1>4 DEF CollectTake
<1>5. CASE Crash
  BY <1>5, NoClaimIs DEF Crash
<1>6. ASSUME NEW n \in Msgs, SenderKind(n) PROVE Shape'
  <2>1. claim' = claim
    BY <1>6 DEF SenderKind, Begins, Leaves, Starts, Enqueues, SameQueue
  <2>2. claim[r].by # "none" => row'[r] = row[r]
    <3>1. CASE Enqueues(n)
      <4>1. claim[<<n, 1>>].by = "none"
        BY <3>1, Sorts, NoClaimIs DEF Enqueues, Early, IInv, SenderFirst, Of
      <4> QED
        BY <3>1, <4>1 DEF Enqueues, OnlyRow
    <3> QED
      BY <1>6, <3>1 DEF SenderKind, Begins, Leaves, Starts, SameQueue
  <2> QED
    BY <1>1, <2>1, <2>2
<1>7. ASSUME NEW q \in Rows, ClaimKind(q) PROVE Shape'
  <2>1. CASE Progresses(q) \/ Asks(q) \/ \E via \in Routes \ {"inbox"} : Delivers(q, via)
    BY <1>1, <2>1 DEF Progresses, Asks, Delivers, ClaimGoes, OnlyClaim, Unasked, Spent, Asked, IInv, ClaimShape
  <2>2. CASE Restores(q) \/ Retires(q)
    BY <1>1, <2>2, NoClaimIs DEF Restores, Retires, ClaimEnds, OnlyClaim, OnlyRow
  <2>3. ASSUME NEW p \in Rows, Requeues(q, p) PROVE Shape'
    <3>1. claim[p].by = "none" /\ p # q
      BY <2>3 DEF Requeues, IInv, ClaimShape
    <3> QED
      BY <1>1, <2>3, <3>1 DEF Requeues, ClaimGoes, OnlyClaim, OnlyRow, IInv, ClaimShape
  <2> QED
    BY <1>7, <2>1, <2>2, <2>3 DEF ClaimKind
<1>8. ASSUME NEW q \in Rows, TakeKind(q) PROVE Shape'
  BY <1>1, <1>8 DEF TakeKind, Takes, OnlyClaim, OnlyRow, Promoters
<1> QED
  BY <1>2, <1>3, <1>4, <1>5, <1>6, <1>7, <1>8 DEF StepKind

LEMMA ClaimsOwnedKept == IInv /\ NamedTypes' /\ StepKind => ClaimsOwned'
<1> SUFFICES ASSUME IInv, NamedTypes', StepKind PROVE ClaimsOwned'
  OBVIOUS
<1> USE DEF ClaimsOwned
<1>1. ClaimsOwned /\ ClaimShape
  BY DEF IInv
<1>2. CASE Quiets
  <2>1. row' = row /\ claim' = claim /\ promotion' \in {promotion, FALSE}
    BY <1>2 DEF Quiets
  <2>2. promotion' => promotion
    BY <2>1
  <2> QED
    BY <1>1, <2>1, <2>2
<1>3. CASE Sweeps
  <2>1. \A r \in Rows : row'[r] = "launching" => row[r] = "launching"
    BY <1>3 DEF Sweeps, SweptRows, Swept
  <2>2. \A r \in Rows : claim'[r].by = claim[r].by
    BY <1>3 DEF Sweeps, SweptClaims
  <2> QED
    BY <1>1, <1>3, <2>1, <2>2 DEF Sweeps
<1>4. CASE CollectTake
  BY <1>1, <1>4 DEF CollectTake
<1>5. CASE Crash
  <2>1. \A r \in Rows : row'[r] # "launching"
    BY <1>5 DEF Crash, Recovered, Visible
  <2> QED
    BY <1>5, <2>1 DEF Crash
<1>6. ASSUME NEW n \in Msgs, SenderKind(n) PROVE ClaimsOwned'
  <2>1. claim' = claim /\ promotion' = promotion
    BY <1>6 DEF SenderKind, Begins, Leaves, Starts, Enqueues, SameQueue
  <2>2. \A r \in Rows : row'[r] = "launching" => row[r] = "launching"
    BY <1>6 DEF SenderKind, Begins, Leaves, Starts, Enqueues, SameQueue, OnlyRow
  <2> QED
    BY <1>1, <2>1, <2>2
<1>7. ASSUME NEW q \in Rows, ClaimKind(q) PROVE ClaimsOwned'
  <2>1. CASE Restores(q) \/ Retires(q)
    <3>1. ClaimEnds(q) /\ row'[q] # "launching"
      BY <2>1 DEF Restores, Retires, Visible
    <3>2. \A r \in Rows : row'[r] = "launching" => claim'[r].by # "none"
      BY <1>1, <3>1 DEF ClaimEnds, OnlyClaim, OnlyRow
    <3>3. promotion' => promotion /\ claim[q].by \notin Promoters
      BY <3>1 DEF ClaimEnds, Released
    <3>4. promotion' => \E r \in Rows : claim'[r].by \in Promoters
      BY <1>1, <3>1, <3>3 DEF ClaimEnds, OnlyClaim
    <3> QED
      BY <3>2, <3>4
  <2>2. CASE Progresses(q) \/ Asks(q) \/ (\E via \in Routes \ {"inbox"} : Delivers(q, via))
             \/ \E p \in Rows : Requeues(q, p)
    <3>1. (\A r \in Rows : claim'[r].by = claim[r].by) /\ promotion' = promotion
      BY <2>2 DEF Progresses, Asks, Delivers, Requeues, ClaimGoes, OnlyClaim
    <3>2. \A r \in Rows : row'[r] = "launching" => row[r] = "launching"
      BY <2>2 DEF Progresses, Asks, Delivers, Requeues, OnlyRow
    <3> QED
      BY <1>1, <3>1, <3>2
  <2> QED
    BY <1>7, <2>1, <2>2 DEF ClaimKind
<1>8. ASSUME NEW q \in Rows, TakeKind(q) PROVE ClaimsOwned'
  <2>1. PICK by \in Promoters \cup {"drain"} : Takes(q, by)
    BY <1>8 DEF TakeKind
  <2>2. \A r \in Rows : row'[r] = "launching" => claim'[r].by # "none"
    BY <1>1, <2>1 DEF Takes, OnlyRow, OnlyClaim, Promoters
  <2>3. claim[q].by = "none"
    BY <1>1, <2>1 DEF Takes, ClaimShape, Visible
  <2>4. promotion => \E r \in Rows \ {q} : claim[r].by \in Promoters
    BY <1>1, <2>3 DEF Promoters
  <2>5. promotion' => promotion \/ by \in Promoters
    BY <2>1 DEF Takes
  <2>6. promotion' => \E r \in Rows : claim'[r].by \in Promoters
    BY <2>1, <2>4, <2>5 DEF Takes, OnlyClaim
  <2> QED
    BY <2>2, <2>6
<1> QED
  BY <1>2, <1>3, <1>4, <1>5, <1>6, <1>7, <1>8 DEF StepKind

(* Another message, or another route, leaves steering and inbox alone. *)
LEMMA UntouchedKept ==
  ASSUME got \in Gots, NEW m \in Msgs, NEW n \in Msgs, NEW via \in Routes \ {"inbox"},
         Reaches(n, via), n # m \/ via # "steer", Untouched(m)
  PROVE  Untouched(m)'
<1>1. \A other \in Routes \ {via} : got'[n][other] = got[n][other]
  BY ReachesEffect
<1>2. \A other \in Msgs \ {n} : got'[other] = got[other]
  BY ReachesEffect
<1> QED
  BY <1>1, <1>2 DEF Untouched, Routes

LEMMA SteeredOnceKept == IInv /\ NamedTypes' /\ StepKind => SteeredOnce'
<1> DEFINE Once(m) == /\ inbox[m] # "delivered" => Untouched(m)
                      /\ \A r \in Of(m) : Asked(r) => inbox[m] = "delivered" /\ Untouched(m)
                      /\ \A r, q \in Of(m) : Asked(r) /\ Asked(q) => r = q
<1> SUFFICES ASSUME IInv, NamedTypes', StepKind, NEW m \in InboxMsgs PROVE Once(m)'
  BY DEF SteeredOnce
<1>1. Once(m) /\ m \in Msgs /\ got \in Gots
  BY ConstantsAssumption DEF IInv, SteeredOnce, ConstantsAssumption, NamedTypes
<1>2. ASSUME inbox'[m] = inbox[m] \/ (inbox[m] = "open" /\ inbox'[m] = "delivered"),
             Untouched(m) => Untouched(m)', \A r \in Of(m) : Asked(r)' => Asked(r)
      PROVE  Once(m)'
  BY <1>1, <1>2 DEF Of
<1>3. CASE Quiets
  BY <1>2, <1>3 DEF Quiets, Untouched, Asked
<1>4. CASE Sweeps
  BY <1>2, <1>4 DEF Sweeps, SweptClaims, Untouched, Asked, Of
<1>5. CASE CollectTake
  <2>1. PICK ms \in SUBSET {n \in InboxMsgs : inbox[n] = "open"} :
          /\ inbox' = [n \in Msgs |-> IF n \in ms THEN "delivered" ELSE inbox[n]]
          /\ got' = [n \in Msgs |-> IF n \in ms
                    THEN [got[n] EXCEPT !["inbox"] = IF @ < 2 THEN @ + 1 ELSE @] ELSE got[n]]
    BY <1>5 DEF CollectTake
  <2>2. claim' = claim
    BY <1>5 DEF CollectTake
  <2>3. CASE m \in ms
    BY <1>1, <2>1, <2>2, <2>3 DEF Asked, Of
  <2>4. CASE m \notin ms
    BY <1>1, <1>2, <2>1, <2>2, <2>4 DEF Asked, Untouched
  <2> QED
    BY <2>3, <2>4
<1>6. CASE Crash
  <2>1. \A r \in Of(m) : ~Asked(r)'
    BY <1>6, NoClaimIs DEF Crash, Asked, Of
  <2> QED
    BY <1>2, <1>6, <2>1 DEF Crash, Untouched
<1>7. ASSUME NEW n \in Msgs, SenderKind(n) PROVE Once(m)'
  <2>1. claim' = claim
    BY <1>7 DEF SenderKind, Begins, Leaves, Starts, Enqueues, SameQueue
  <2>2. CASE Begins(n)
    <3>1. CASE n = m
      <4>1. inbox[m] = "none" /\ inbox'[m] = "open" /\ got' = got
        BY <1>1, <2>2, <3>1 DEF Begins, IInv, InboxOpened
      <4>2. \A r \in Of(m) : ~Asked(r)
        BY <1>1, <4>1
      <4> QED
        BY <1>1, <2>1, <4>1, <4>2 DEF Asked, Untouched, Of
    <3>2. CASE n # m
      BY <1>1, <1>2, <2>1, <2>2, <3>2 DEF Begins, OnlyInbox, Asked, Untouched
    <3> QED
      BY <3>1, <3>2
  <2>3. CASE Leaves(n) \/ Enqueues(n)
    BY <1>1, <1>2, <2>1, <2>3 DEF Leaves, Enqueues, InboxCloses, Asked, Untouched
  <2>4. CASE Starts(n)
    BY <1>1, <1>2, <2>1, <2>4, UntouchedKept DEF Starts, Asked, Routes
  <2> QED
    BY <1>7, <2>2, <2>3, <2>4 DEF SenderKind
<1>8. ASSUME NEW q \in Rows, ClaimKind(q) PROVE Once(m)'
  <2>1. \A r \in Of(m) \ {q} : Asked(r)' <=> Asked(r)
    BY <1>8 DEF ClaimKind, Progresses, Asks, Restores, Retires, ClaimEnds, Delivers, Requeues,
                ClaimGoes, OnlyClaim, Asked, Of
  <2>2. Msg(q) = m => q \in Of(m)
    BY DEF Of
  <2>3. CASE Progresses(q) \/ \E p \in Rows : Requeues(q, p)
    <3>1. ~Asked(q)' /\ inbox' = inbox /\ got' = got
      BY <2>3 DEF Progresses, Requeues, ClaimGoes, Unasked, Spent, Asked
    <3> QED
      BY <1>2, <2>1, <3>1 DEF Untouched
  <2>4. CASE Asks(q)
    <3>1. CASE Msg(q) = m
      <4>1. claim[q].by # "none"
        BY <2>4 DEF Asks, IInv, ClaimShape, Unasked
      <4>2. ~Early(m)
        BY <1>1, <2>2, <3>1, <4>1, NoClaimIs DEF IInv, SenderFirst
      <4>3. inbox[m] = "open"
        BY <1>1, <2>4, <3>1, <4>2 DEF Asks, Early, IInv, InboxOpened, NamedTypes
      <4>4. inbox'[m] = "delivered" /\ Untouched(m)'
        BY <1>1, <2>4, <3>1, <4>3 DEF Asks, Untouched
      <4>5. \A r \in Of(m) : Asked(r)' => r = q
        BY <1>1, <2>1, <4>3
      <4> QED
        BY <4>4, <4>5 DEF Of
    <3>2. CASE Msg(q) # m
      <4>1. \A r \in Of(m) : Asked(r)' => Asked(r)
        BY <2>1, <3>2 DEF Of
      <4> QED
        BY <1>1, <1>2, <2>4, <3>2, <4>1 DEF Asks, OnlyInbox, Untouched
    <3> QED
      BY <3>1, <3>2
  <2>5. CASE Restores(q)
    <3>1. ~Asked(q)' /\ got' = got
      BY <2>5, NoClaimIs DEF Restores, ClaimEnds, Asked
    <3>2. CASE inbox'[m] = inbox[m]
      BY <1>2, <2>1, <3>1, <3>2 DEF Untouched
    <3>3. CASE inbox'[m] # inbox[m]
      <4>1. Asked(q) /\ Msg(q) = m
        BY <1>1, <2>5, <3>3 DEF Restores, OnlyInbox
      <4>2. \A r \in Of(m) : ~Asked(r)'
        BY <1>1, <2>1, <2>2, <3>1, <4>1
      <4>3. Untouched(m)'
        BY <1>1, <2>2, <3>1, <4>1 DEF Untouched
      <4> QED
        BY <4>2, <4>3 DEF Of
    <3> QED
      BY <3>2, <3>3
  <2>6. CASE Retires(q)
    <3>1. ~Asked(q)' /\ (inbox'[m] = inbox[m] \/ (inbox[m] = "open" /\ inbox'[m] = "delivered"))
      BY <1>1, <2>6, NoClaimIs DEF Retires, ClaimEnds, InboxCloses, Asked
    <3>2. CASE got' = got
      BY <1>2, <2>1, <3>1, <3>2 DEF Untouched
    <3>3. CASE Asked(q) /\ Reaches(Msg(q), "steer")
      <4>1. CASE Msg(q) = m
        <5>1. \A r \in Of(m) : ~Asked(r)'
          BY <1>1, <2>1, <2>2, <3>1, <3>3, <4>1
        <5>2. inbox'[m] = "delivered"
          BY <1>1, <2>2, <3>1, <3>3, <4>1
        <5> QED
          BY <5>1, <5>2 DEF Of
      <4>2. CASE Msg(q) # m
        BY <1>1, <1>2, <2>1, <3>1, <3>3, <4>2, UntouchedKept, Sorts DEF Routes
      <4> QED
        BY <4>1, <4>2
    <3> QED
      BY <2>6, <3>2, <3>3 DEF Retires
  <2>7. ASSUME NEW via \in Routes \ {"inbox"}, Delivers(q, via) PROVE Once(m)'
    <3>1. ~Asked(q)' /\ inbox' = inbox /\ Reaches(Msg(q), via) /\ (via = "steer" <=> Asked(q))
      BY <2>7 DEF Delivers, ClaimGoes, Spent, Asked
    <3>2. CASE Msg(q) = m /\ via = "steer"
      <4>1. \A r \in Of(m) : ~Asked(r)'
        BY <1>1, <2>1, <2>2, <3>1, <3>2
      <4>2. inbox'[m] = "delivered"
        BY <1>1, <2>2, <3>1, <3>2
      <4> QED
        BY <4>1, <4>2 DEF Of
    <3>3. CASE ~(Msg(q) = m /\ via = "steer")
      BY <1>1, <1>2, <2>1, <3>1, <3>3, UntouchedKept, Sorts
    <3> QED
      BY <3>2, <3>3
  <2> QED
    BY <1>8, <2>3, <2>4, <2>5, <2>6, <2>7 DEF ClaimKind
<1>9. ASSUME NEW q \in Rows, TakeKind(q) PROVE Once(m)'
  <2>1. \A r \in Of(m) : Asked(r)' => Asked(r)
    BY <1>9 DEF TakeKind, Takes, OnlyClaim, Asked, Of
  <2> QED
    BY <1>1, <1>2, <1>9, <2>1 DEF TakeKind, Takes, Untouched
<1> QED
  BY <1>3, <1>4, <1>5, <1>6, <1>7, <1>8, <1>9 DEF StepKind

LEMMA SteerXorInboxKept == IInv /\ NamedTypes' /\ StepKind => SteerXorInbox'
<1> DEFINE Xor(m) == got[m]["steer"] = 0 \/ got[m]["inbox"] = 0
<1> SUFFICES ASSUME IInv, NamedTypes', StepKind, NEW m \in InboxMsgs PROVE Xor(m)'
  BY DEF SteerXorInbox
<1>1. Xor(m) /\ m \in Msgs /\ got \in Gots
  BY ConstantsAssumption DEF IInv, SteerXorInbox, ConstantsAssumption, NamedTypes
<1>2. CASE got'[m] = got[m]
  BY <1>1, <1>2
<1>3. CASE CollectTake
  <2>1. PICK ms \in SUBSET {n \in InboxMsgs : inbox[n] = "open"} :
          got' = [n \in Msgs |-> IF n \in ms
                    THEN [got[n] EXCEPT !["inbox"] = IF @ < 2 THEN @ + 1 ELSE @] ELSE got[n]]
    BY <1>3 DEF CollectTake
  <2>2. m \in ms => got[m]["steer"] = 0
    BY <1>1 DEF IInv, SteeredOnce, Untouched
  <2>3. m \in ms => got'[m]["steer"] = got[m]["steer"]
    BY <1>1, <2>1 DEF Gots, Routes
  <2>4. m \notin ms => got'[m] = got[m]
    BY <1>1, <2>1
  <2> QED
    BY <1>1, <2>2, <2>3, <2>4
(* A route other than the inbox changes the inbox count of nobody. *)
<1>4. ASSUME NEW n \in Msgs, NEW via \in Routes \ {"inbox"}, Reaches(n, via),
             n = m /\ via = "steer" => Untouched(m)
      PROVE  Xor(m)'
  <2>1. /\ \A other \in Routes \ {via} : got'[n][other] = got[n][other]
        /\ \A o \in Msgs \ {n} : got'[o] = got[o]
    BY <1>1, <1>4, ReachesEffect
  <2>2. got'[m]["inbox"] = got[m]["inbox"]
    BY <1>1, <1>4, <2>1 DEF Routes
  <2>3. ~(n = m /\ via = "steer") => got'[m]["steer"] = got[m]["steer"]
    BY <1>1, <1>4, <2>1 DEF Routes
  <2> QED
    BY <1>1, <1>4, <2>2, <2>3 DEF Untouched
<1>5. ASSUME NEW q \in Rows, Asked(q), Msg(q) = m PROVE Untouched(m)
  BY <1>1, <1>5 DEF IInv, SteeredOnce, Of
<1>6. CASE Quiets \/ Sweeps \/ Crash
  BY <1>2, <1>6 DEF Quiets, Sweeps, Crash
<1>7. ASSUME NEW n \in Msgs, SenderKind(n) PROVE Xor(m)'
  BY <1>2, <1>4, <1>7 DEF SenderKind, Begins, Leaves, Starts, Enqueues, Routes
<1>8. ASSUME NEW q \in Rows, ClaimKind(q) PROVE Xor(m)'
  <2>1. CASE got' = got
    BY <1>2, <2>1
  <2>2. CASE Asked(q) /\ Reaches(Msg(q), "steer")
    BY <1>4, <1>5, <2>2, Sorts DEF Routes
  <2>3. ASSUME NEW via \in Routes \ {"inbox"}, Delivers(q, via) PROVE Xor(m)'
    BY <1>4, <1>5, <2>3, Sorts DEF Delivers
  <2> QED
    BY <1>8, <2>1, <2>2, <2>3 DEF ClaimKind, Progresses, Asks, Restores, Retires, Requeues
<1>9. ASSUME NEW q \in Rows, TakeKind(q) PROVE Xor(m)'
  BY <1>2, <1>9 DEF TakeKind, Takes
<1> QED
  BY <1>3, <1>6, <1>7, <1>8, <1>9 DEF StepKind

(* A message that had not been delivered has now been once. *)
LEMMA FirstTime ==
  ASSUME got \in Gots, NEW m \in Msgs, NEW via \in Routes, Reaches(m, via), Tally(m) = 0
  PROVE  Tally(m)' <= 1
<1> DEFINE g == got[m]
           h == got'[m]
<1>1. /\ h[via] \in {g[via], g[via] + 1}
      /\ \A other \in Routes \ {via} : h[other] = g[other]
  BY ReachesEffect
<1>2. \A other \in Routes : g[other] \in 0..2 /\ h[other] \in 0..2
  BY ReachesEffect DEF Gots
<1>3. g["turn"] = 0 /\ g["sibling"] = 0 /\ (m \notin InboxMsgs => g["steer"] = 0 /\ g["inbox"] = 0)
  BY <1>2 DEF Tally, TimesGot, Routes
<1>4. Tally(m)' = IF m \in InboxMsgs THEN h["turn"] + h["sibling"]
                  ELSE h["turn"] + h["steer"] + h["inbox"] + h["sibling"]
  BY DEF Tally, TimesGot
<1> HIDE DEF g, h
<1> QED
  BY <1>1, <1>2, <1>3, <1>4 DEF Routes

LEMMA OneCarrierKept == IInv /\ NamedTypes' /\ StepKind => OneCarrier'
<1> DEFINE One(m) == /\ \A r, q \in Of(m) : Carries(r) /\ Carries(q) => r = q
                     /\ Early(m) \/ (\E r \in Of(m) : Carries(r)) => Tally(m) = 0
                     /\ Tally(m) <= 1
<1> SUFFICES ASSUME IInv, NamedTypes', StepKind, NEW m \in Msgs, "resent" \notin settled'[m]
             PROVE  One(m)'
  BY DEF OneCarrier
<1>1. "resent" \notin settled[m]
  <2>1. CASE SameResent
    BY <2>1 DEF SameResent
  <2>2. CASE CollectTake \/ Crash
    BY <2>2 DEF CollectTake, Crash
  <2>3. ASSUME NEW q \in Rows, TakeKind(q) PROVE "resent" \notin settled[m]
    BY <2>3 DEF TakeKind, Takes
  <2> QED
    BY <2>1, <2>2, <2>3 DEF StepKind, Judged, SweptVerdicts, Quiets, Sweeps, SenderKind, Begins, Leaves, Starts, Enqueues,
       ClaimKind, Progresses, Asks, Restores, Retires, ClaimEnds, Delivers, Requeues
<1>2. One(m) /\ got \in Gots
  BY <1>1 DEF IInv, OneCarrier, NamedTypes
<1>3. ASSUME Early(m)' => Early(m), \A r \in Of(m) : Carries(r)' => Carries(r),
             got'[m] = got[m] \/ Tally(m)' = Tally(m)
      PROVE  One(m)'
  BY <1>2, <1>3 DEF Of, Tally, TimesGot
<1>4. CASE Quiets
  BY <1>3, <1>4 DEF Quiets, Early, Carries, Asked
<1>5. CASE Sweeps
  <2>1. \A r \in Of(m) : Carries(r)' => Carries(r)
    BY <1>5 DEF Sweeps, SweptRows, Swept, SweptClaims, Carries, Asked, Unasked, Of
  <2> QED
    BY <1>3, <1>5, <2>1 DEF Sweeps, Early
<1>6. CASE CollectTake
  <2>1. CASE m \in InboxMsgs
    <3>1. got'[m]["turn"] = got[m]["turn"] /\ got'[m]["sibling"] = got[m]["sibling"]
      BY <1>2, <1>6 DEF CollectTake, Gots, Routes
    <3>2. Tally(m)' = Tally(m)
      BY <2>1, <3>1 DEF Tally
    <3> QED
      BY <1>3, <1>6, <3>2 DEF CollectTake, sendVars, Early, Carries, Asked
  <2>2. CASE m \notin InboxMsgs
    <3>1. got'[m] = got[m]
      BY <1>6, <2>2 DEF CollectTake
    <3> QED
      BY <1>3, <1>6, <3>1 DEF CollectTake, sendVars, Early, Carries, Asked, Tally, TimesGot
  <2> QED
    BY <2>1, <2>2
<1>7. CASE Crash
  <2>1. \A r \in Of(m) : Carries(r)' => Carries(r)
    BY <1>7, NoClaimIs DEF Crash, Recovered, Visible, Carries, Asked, Unasked, Of
  <2> QED
    BY <1>3, <1>7, <2>1 DEF Crash, Early
<1>8. ASSUME NEW n \in Msgs, SenderKind(n) PROVE One(m)'
  <2>1. claim' = claim
    BY <1>8 DEF SenderKind, Begins, Leaves, Starts, Enqueues, SameQueue
  <2>2. CASE Begins(n) \/ Leaves(n)
    BY <1>3, <2>1, <2>2 DEF Begins, Leaves, SameQueue, OnlySender, Early, Carries, Asked
  <2>3. CASE Starts(n)
    <3>1. row' = row /\ Reaches(n, "turn")
      BY <2>3 DEF Starts, SameQueue
    <3>2. CASE n = m
      <4>1. Early(m) /\ ~Early(m)'
        BY <2>3, <3>2 DEF Starts, Early
      <4>2. \A r \in Of(m) : ~Carries(r)'
        BY <2>1, <3>1, <4>1, NoClaimIs DEF IInv, SenderFirst, Carries, Asked, Unasked
      <4>3. Tally(m)' <= 1
        BY <1>2, <3>1, <3>2, <4>1, FirstTime DEF Routes
      <4> QED
        BY <4>1, <4>2, <4>3 DEF Of
    <3>3. CASE n # m
      <4>1. got'[m] = got[m]
        BY <1>2, <3>1, <3>3, ReachesEffect DEF Routes
      <4> QED
        BY <1>3, <2>1, <2>3, <3>1, <3>3, <4>1 DEF Starts, OnlySender, Early, Carries, Asked
    <3> QED
      BY <3>2, <3>3
  <2>4. CASE Enqueues(n)
    <3>1. CASE n = m
      <4>1. Early(m) /\ ~Early(m)'
        BY <2>4, <3>1 DEF Enqueues, Early
      <4>2. \A r \in Of(m) : Carries(r)' => r = <<m, 1>>
        BY <2>1, <2>4, <3>1, <4>1, NoClaimIs DEF Enqueues, OnlyRow, IInv, SenderFirst, Carries, Asked, Unasked, Of
      <4>3. Tally(m)' = 0
        BY <1>2, <2>4, <4>1 DEF Enqueues, Tally, TimesGot
      <4> QED
        BY <4>2, <4>3 DEF Of
    <3>2. CASE n # m
      <4>1. \A r \in Of(m) : row'[r] = row[r]
        BY <2>4, <3>2, Sorts DEF Enqueues, OnlyRow, Of
      <4> QED
        BY <1>3, <2>1, <2>4, <3>2, <4>1 DEF Enqueues, OnlySender, Early, Carries, Asked
    <3> QED
      BY <3>1, <3>2
  <2> QED
    BY <1>8, <2>2, <2>3, <2>4 DEF SenderKind
<1>9. ASSUME NEW q \in Rows, ClaimKind(q) PROVE One(m)'
  <2>1. Early(m)' <=> Early(m)
    BY <1>9 DEF ClaimKind, Progresses, Asks, Restores, Retires, ClaimEnds, Delivers, Requeues, ClaimGoes, Early
  <2>2. Msg(q) = m => q \in Of(m) /\ ~Early(m)
    <3>1. claim[q] # NoClaim
      BY <1>9, NoClaimIs DEF ClaimKind, Progresses, Asks, Restores, Retires, ClaimEnds, Delivers, Requeues, Unasked, Asked
    <3> QED
      BY <3>1 DEF Of, IInv, SenderFirst
  <2>3. claim[q].by # "none" => row[q] \in {"launching", "deleted"}
    BY DEF IInv, ClaimShape
  <2>4. claim[q].by = "none" <=> claim[q].pc = "none"
    BY DEF IInv, ClaimShape
  <2>5. CASE Progresses(q) \/ Asks(q)
    <3>1. \A r \in Of(m) : Carries(r)' => Carries(r)
      BY <2>5 DEF Progresses, Asks, ClaimGoes, OnlyClaim, Carries, Of, Asked
    <3> QED
      BY <1>3, <2>1, <2>5, <3>1 DEF Progresses, Asks
  <2>6. CASE Restores(q)
    <3>1. \A r \in Of(m) : Carries(r)' => Carries(r)
      BY <2>6, NoClaimIs DEF Restores, ClaimEnds, OnlyClaim, OnlyRow, Carries, Of, Asked, Unasked
    <3> QED
      BY <1>3, <2>1, <2>6, <3>1 DEF Restores
  <2>7. CASE Retires(q)
    <3>1. \A r \in Of(m) : Carries(r)' => Carries(r) /\ r # q
      BY <2>7, NoClaimIs DEF Retires, ClaimEnds, OnlyClaim, OnlyRow, Carries, Of, Asked, Unasked
    <3>2. CASE got' = got
      BY <1>3, <2>1, <3>1, <3>2
    <3>3. CASE Asked(q) /\ Reaches(Msg(q), "steer") /\ Msg(q) = m
      <4>1. \A r \in Of(m) : ~Carries(r)'
        BY <1>2, <2>2, <3>1, <3>3 DEF Carries
      <4>2. Tally(m)' <= 1
        BY <1>2, <2>2, <3>3, FirstTime DEF Carries, Routes
      <4> QED
        BY <2>1, <2>2, <3>3, <4>1, <4>2 DEF Of
    <3>4. CASE Reaches(Msg(q), "steer") /\ Msg(q) # m
      <4>1. got'[m] = got[m]
        BY <1>2, <3>4, ReachesEffect, Sorts DEF Routes
      <4> QED
        BY <1>3, <2>1, <3>1, <4>1
    <3> QED
      BY <2>7, <3>2, <3>3, <3>4 DEF Retires
  <2>8. ASSUME NEW via \in Routes \ {"inbox"}, Delivers(q, via) PROVE One(m)'
    <3>1. claim[q].by # "none" /\ Carries(q) /\ Reaches(Msg(q), via)
      BY <2>4, <2>8 DEF Delivers, Unasked, Asked, Carries
    <3>2. \A r \in Of(m) : Carries(r)' => Carries(r) /\ r # q
      BY <2>3, <2>8, <3>1 DEF Delivers, ClaimGoes, OnlyClaim, Carries, Asked, Of, Spent, Unasked
    <3>3. CASE Msg(q) = m
      <4>1. \A r \in Of(m) : ~Carries(r)'
        BY <1>2, <2>2, <3>1, <3>2, <3>3
      <4>2. Tally(m)' <= 1
        BY <1>2, <2>2, <3>1, <3>3, FirstTime
      <4> QED
        BY <2>1, <2>2, <3>3, <4>1, <4>2 DEF Of
    <3>4. CASE Msg(q) # m
      <4>1. got'[m] = got[m]
        BY <1>2, <3>1, <3>4, ReachesEffect, Sorts
      <4> QED
        BY <1>3, <2>1, <3>2, <4>1
    <3> QED
      BY <3>3, <3>4
  <2>9. ASSUME NEW p \in Rows, Requeues(q, p) PROVE One(m)'
    <3>1. claim[q].by # "none" /\ Carries(q) /\ claim[p].by = "none" /\ p # q
      BY <2>4, <2>9 DEF Requeues, Unasked, Asked, Carries, IInv, ClaimShape
    <3>2. \A r \in Rows \ {p} : Carries(r)' => Carries(r) /\ r # q
      BY <2>3, <2>9, <3>1 DEF Requeues, ClaimGoes, OnlyClaim, OnlyRow, Carries, Asked, Unasked
    <3>3. got'[m] = got[m]
      BY <2>9 DEF Requeues
    <3>4. CASE Msg(q) = m
      <4>1. \A r \in Of(m) : Carries(r)' => r = p
        BY <1>2, <2>2, <3>1, <3>2, <3>4 DEF Of
      <4>2. Tally(m)' = 0
        BY <1>2, <2>2, <3>1, <3>3, <3>4 DEF Tally, TimesGot
      <4> QED
        BY <4>1, <4>2 DEF Of
    <3>5. CASE Msg(q) # m
      <4>1. \A r \in Of(m) : Carries(r)' => Carries(r)
        BY <2>9, <3>2, <3>5 DEF Requeues, Of
      <4> QED
        BY <1>3, <2>1, <3>3, <4>1
    <3> QED
      BY <3>4, <3>5
  <2> QED
    BY <1>9, <2>5, <2>6, <2>7, <2>8, <2>9 DEF ClaimKind
<1>10. ASSUME NEW q \in Rows, TakeKind(q) PROVE One(m)'
  <2>1. PICK by \in Promoters \cup {"drain"} : Takes(q, by)
    BY <1>10 DEF TakeKind
  <2>2. Msg(q) = m => row[q] \in {"pending", "recovered"}
    BY <2>1 DEF Takes, Visible
  <2>3. \A r \in Of(m) : Carries(r)' => Carries(r)
    BY <2>1, <2>2 DEF Takes, OnlyRow, OnlyClaim, Carries, Asked, Of
  <2>4. (Early(m)' => Early(m)) /\ got'[m] = got[m]
    BY <2>1 DEF Takes, Early
  <2> QED
    BY <1>3, <2>3, <2>4
<1> QED
  BY <1>4, <1>5, <1>6, <1>7, <1>8, <1>9, <1>10 DEF StepKind

-----------------------------------------------------------------------------
(* The theorems                                                            *)

LEMMA InitIInv == Init => IInv
<1> SUFFICES ASSUME Init PROVE IInv
  OBVIOUS
<1>1. SenderFirst /\ ClaimShape /\ ClaimsOwned
  BY NoClaimIs DEF Init, SenderFirst, ClaimShape, ClaimsOwned, Of
<1>2. InboxOpened
  BY DEF Init, InboxOpened
<1>3. \A m \in Msgs : \A via \in Routes : got[m][via] = 0
  BY DEF Init
<1>4. \A m \in Msgs : Untouched(m) /\ Tally(m) = 0
  BY <1>3 DEF Untouched, Tally, TimesGot, Routes
<1>5. \A r \in Rows : ~Asked(r) /\ ~Carries(r)
  BY NoClaimIs DEF Init, Asked, Carries, Unasked
<1>6. SteeredOnce
  BY <1>4, <1>5, ConstantsAssumption DEF SteeredOnce, Of, ConstantsAssumption
<1>7. OneCarrier
  BY <1>4, <1>5 DEF OneCarrier, Of
<1>8. SteerXorInbox
  BY <1>4, ConstantsAssumption DEF SteerXorInbox, Untouched, ConstantsAssumption
<1> QED
  BY <1>1, <1>2, <1>6, <1>7, <1>8, InitTypeOK DEF IInv

LEMMA Inductive == IInv /\ [Next]_vars => IInv'
<1> SUFFICES ASSUME IInv, [Next]_vars PROVE IInv'
  OBVIOUS
<1>1. NamedTypes' /\ StepKind
  BY NextTypes, Kinds DEF IInv
<1> QED
  BY <1>1, SenderFirstKept, InboxOpenedKept, ClaimShapeKept, ClaimsOwnedKept, SteeredOnceKept,
     SteerXorInboxKept, OneCarrierKept DEF IInv

(* Senders go first, one claim holds a row, one carrier holds a person's    *)
(* message: what every step of a drain, a pick, a Stop or a crash keeps.    *)
THEOREM Invariant == Spec => []IInv
BY InitIInv, Inductive, PTL DEF Spec

(* A hidden row has a task of this run of the app that will delete it or   *)
(* put it back, and the guard that keeps drains out a promotion under way. *)
THEOREM HiddenIsOwned == Spec => []ClaimsOwned
<1>1. IInv => ClaimsOwned
  BY DEF IInv
<1> QED
  BY <1>1, Invariant, PTL

(* A message steered into a turn is not also collected from the inbox: the *)
(* inbox row is closed before the provider is asked (steer_queued), and    *)
(* reopened only by the one steer that was refused.                        *)
THEOREM SteeredOrCollected == Spec => []SteerXorInbox
<1>1. IInv => SteerXorInbox
  BY DEF IInv
<1> QED
  BY <1>1, Invariant, PTL

(* A person's message reaches a model once, by whatever route, over drains, *)
(* Send now, steering, multitask, Stops, refusals and crashes, unless a     *)
(* person sends a delivery-unknown row again.                               *)
THEOREM OncePerPerson == Spec => []PersonOnce
<1>1. IInv => PersonOnce
  BY DEF IInv, OneCarrier, Tally, PersonOnce
<1> QED
  BY <1>1, Invariant, PTL

-----------------------------------------------------------------------------
(* No message is lost, parked ones rest, and taken ones close their inbox  *)

(* A claim keeps to the path of the one who made it. *)
SteerPcs == {"admitted", "steering", "lost", "accepted"}
OnPath(r) ==
  /\ claim[r].pc \in SteerPcs => claim[r].by \in Steerers
  /\ claim[r].by \in Steerers => claim[r].pc \in SteerPcs \cup {"claimed"}
  /\ claim[r].by = "agentSteer" => Msg(r) \in InboxMsgs
  /\ claim[r].by = "drain" => claim[r].prior = "pending"
  /\ claim[r].pc \in {"launching", "launched"} => claim[r].by = "multitask"
OnPaths == \A r \in Rows : OnPath(r)

(* A message that no model has, and that nobody dropped, sent again or is  *)
(* unsure of, has a row that stands for it once its sender has left; its   *)
(* claims are alive, and its inbox row is closed only by a steer that is   *)
(* being asked.                                                            *)
Excuses == {"dropped", "uncertain", "resent"}
Safe(m) == Reached(m) \/ settled[m] \cap Excuses # {}
Backs(r) == row[r] \in Visible \/ (row[r] = "launching" /\ claim[r].pc \notin Spent)
Kept(m) ==
  /\ \A r \in Of(m) : /\ claim[r].pc \in Spent => claim[r].pc = "requeued"
                      /\ claim[r].by # "none" => row[r] = "launching"
  /\ inbox[m] = "delivered" => \E r \in Of(m) : Asked(r)
  /\ m \notin collected
  /\ sendPc[m] # "started"
  /\ ~Early(m) => \E r \in Of(m) : Backs(r)

(* What a failed turn parked waits for a person, or is steered by its       *)
(* sender, who does not send it.                                            *)
Rests(m) ==
  /\ ~Early(m)
  /\ \A r \in Of(m) : /\ row[r] # "pending"
                      /\ claim[r].pc \in Unasked \/ Asked(r) => claim[r].by = "steer"
ParkedRests == \A m \in Msgs \ InboxMsgs : "parked" \in settled[m] /\ "resent" \notin settled[m] => Rests(m)

(* Until a person picks a row or the app crashes, drains and senders are    *)
(* the only ones to deliver an agent's message, and whoever started a turn  *)
(* with it has yet to close its inbox row, or has closed it.                *)
Closing(m) == \/ sendPc[m] = "started"
              \/ \E r \in Of(m) : claim[r].by = "drain" /\ claim[r].pc = "sent"
Calm(m) ==
  /\ "resent" \notin settled[m]
  /\ got[m]["sibling"] = 0
  /\ \A r \in Of(m) : claim[r].by \in {"none", "drain", "agentSteer"}
  /\ Early(m) \/ sendPc[m] = "steer" => \A r \in Of(m) : row[r] # "unknown" /\ claim[r].by \in {"none", "drain"}
  /\ got[m]["turn"] > 0 => inbox[m] # "open" \/ Closing(m)
Bounded == budget["actions"] <= MaxActions /\ budget["crashes"] <= MaxCrashes
CalmUntil == Undisturbed => \A m \in InboxMsgs : Calm(m)

Ledger == /\ OnPaths /\ (\A m \in Msgs : Safe(m) \/ Kept(m))
          /\ ParkedRests /\ Bounded /\ CalmUntil

LEMMA OnPathsKept == IInv /\ OnPaths /\ NamedTypes' /\ StepKind => OnPaths'
<1> SUFFICES ASSUME IInv, OnPaths, NamedTypes', StepKind, NEW r \in Rows PROVE OnPath(r)'
  BY DEF OnPaths
<1>1. OnPath(r) /\ (claim[r].by = "none" <=> claim[r].pc = "none")
  BY DEF OnPaths, IInv, ClaimShape
<1>2. ASSUME claim'[r].by = claim[r].by, claim'[r].prior = claim[r].prior,
             claim'[r].pc \in SteerPcs <=> claim[r].by \in Steerers,
             claim'[r].pc \in {"launching", "launched"} => claim[r].by = "multitask"
      PROVE  OnPath(r)'
  BY <1>1, <1>2 DEF OnPath, Steerers
<1>3. CASE claim'[r] = claim[r]
  BY <1>1, <1>3 DEF OnPath
<1>4. CASE claim'[r] = NoClaim
  BY <1>4, NoClaimIs DEF OnPath, SteerPcs, Steerers
<1>5. CASE Quiets \/ CollectTake
  BY <1>3, <1>5 DEF Quiets, CollectTake
<1>6. CASE Sweeps
  BY <1>1, <1>2, <1>3, <1>6 DEF Sweeps, SweptClaims, OnPath, SteerPcs
<1>7. CASE Crash
  BY <1>4, <1>7 DEF Crash
<1>8. ASSUME NEW n \in Msgs, SenderKind(n) PROVE OnPath(r)'
  BY <1>3, <1>8 DEF SenderKind, Begins, Leaves, Starts, Enqueues, SameQueue
<1>9. ASSUME NEW q \in Rows, ClaimKind(q) PROVE OnPath(r)'
  <2>1. CASE q # r
    BY <1>3, <1>9, <2>1 DEF ClaimKind, Progresses, Asks, Restores, Retires, Delivers, Requeues,
       ClaimEnds, ClaimGoes, OnlyClaim
  <2>2. CASE q = r
    <3>1. CASE Restores(r) \/ Retires(r)
      BY <1>4, <3>1 DEF Restores, Retires, ClaimEnds
    <3>2. CASE Progresses(r)
      <4>1. claim'[r].pc \in SteerPcs <=> claim'[r].pc = "admitted"
        BY <3>2 DEF Progresses, ClaimGoes, SteerPcs, Unasked, Spent
      <4>2. claim[r].by \in Steerers <=> claim[r].pc = "claimed" /\ claim[r].by \in Steerers
        BY <1>1, <3>2 DEF Progresses, OnPath, SteerPcs, Unasked
      <4>3. claim'[r].pc \in {"launching", "launched"} => claim[r].by = "multitask"
        BY <3>2 DEF Progresses, ClaimGoes, Spent
      <4> QED
        BY <1>2, <3>2, <4>1, <4>2, <4>3 DEF Progresses, ClaimGoes
    <3>3. CASE Asks(r)
      BY <1>1, <1>2, <3>3 DEF Asks, ClaimGoes, OnPath, SteerPcs
    <3>4. ASSUME NEW via \in Routes \ {"inbox"}, Delivers(r, via) PROVE OnPath(r)'
      BY <1>1, <1>2, <3>4 DEF Delivers, Route, ClaimGoes, OnPath, SteerPcs
    <3>5. ASSUME NEW p \in Rows, Requeues(r, p) PROVE OnPath(r)'
      BY <1>1, <1>2, <3>5 DEF Requeues, ClaimGoes, OnPath, SteerPcs
    <3> QED
      BY <1>9, <2>2, <3>1, <3>2, <3>3, <3>4, <3>5 DEF ClaimKind
  <2> QED
    BY <2>1, <2>2
<1>10. ASSUME NEW q \in Rows, TakeKind(q) PROVE OnPath(r)'
  <2>1. PICK by \in Promoters \cup {"drain"} : Takes(q, by)
    BY <1>10 DEF TakeKind
  <2>2. CASE q # r
    BY <1>3, <2>1, <2>2 DEF Takes, OnlyClaim
  <2>3. CASE q = r
    <3>1. claim'[r].by = by /\ claim'[r].pc = "claimed" /\ claim'[r].prior = row[r]
      BY <2>1, <2>3 DEF Takes
    <3>2. by = "agentSteer" => Msg(r) \in InboxMsgs
      BY <2>1, <2>3 DEF Takes, ByDrain, ByPerson, BySender
    <3>3. by = "drain" => row[r] = "pending"
      BY <2>1, <2>3 DEF Takes, ByDrain, ByPerson, BySender
    <3> QED
      BY <3>1, <3>2, <3>3 DEF OnPath, SteerPcs
  <2> QED
    BY <2>2, <2>3
<1> QED
  BY <1>5, <1>6, <1>7, <1>8, <1>9, <1>10 DEF StepKind

(* Budgets and what was collected only go down, but for a collection, and  *)
(* a crash is paid for.                                                    *)
Falls ==
  /\ budget'["actions"] <= budget["actions"] /\ budget'["crashes"] <= budget["crashes"]
  /\ Crash => budget'["crashes"] < budget["crashes"]
  /\ collected' \subseteq collected \/ CollectTake

LEMMA NextFalls == NamedTypes /\ [Next]_vars => Falls
<1> SUFFICES ASSUME NamedTypes, [Next]_vars PROVE Falls
  OBVIOUS
<1> USE DEF queueVars, callVars, sendVars, turnVars, stopVars, histVars
<1>0. budget["actions"] \in Nat /\ budget["crashes"] \in Nat
  BY DEF NamedTypes, Budgets
<1>s. ASSUME NEW kind \in {"actions", "stops", "crashes"}, Spend(kind)
      PROVE  /\ budget'["actions"] <= budget["actions"] /\ budget'["crashes"] <= budget["crashes"]
             /\ kind = "crashes" => budget'["crashes"] < budget["crashes"]
  BY <1>s DEF Spend, NamedTypes, Budgets
<1>c. ASSUME UNCHANGED <<budget, collected>>, ~Crash PROVE Falls
  BY <1>0, <1>c DEF Falls
<1>x. CASE Crash
  BY <1>s, <1>x DEF Crash, Falls
<1>1. ASSUME NEW m \in Msgs, Submit(m) \/ SenderStep(m), ~Crash PROVE Falls
  BY <1>c, <1>1 DEF Submit, SenderStep, SendFails, SendStartsTurn, SendFindsHandle, SendEnqueue,
     SendSteers, SendCloses
<1>2. ASSUME NEW r \in Rows, ClaimStep(r), ~Crash PROVE Falls
  BY <1>c, <1>2 DEF ClaimStep, DrainAdmit, DrainFinish, SendClaimed, ClaimCapture, ClaimFails,
     ClaimStartsTurn, ClaimFindsHandle, ClaimRequeue, PromoteAdmit, PromoteResume, PromoteFinish,
     MultitaskAdmit, MultitaskLaunch, MultitaskEnd, Steer, SteerAdmit, SteerRefused, SteerAsk,
     SteerAccepted, SteerRejected, SteerUnanswered, SteerSettle
<1>3. ASSUME NEW r \in Rows, CancelQueued(r) \/ \E by \in Promoters : Pick(r, by), ~Crash PROVE Falls
  BY <1>c, <1>s, <1>3 DEF CancelQueued, Pick, Falls
<1>4. ASSUME Recheck \/ DrainStep \/ Launched \/ LaunchFails \/ TurnEnds \/ StopClear \/ StopFinish
             \/ UNCHANGED vars, ~Crash
      PROVE  Falls
  BY <1>c, <1>4 DEF Recheck, DrainStep, DrainNothing, DrainPop, Launched, LaunchFails, TurnEnds,
     StopClear, StopFinish, vars
<1>5. ASSUME CollectTake \/ CollectReconcile, ~Crash PROVE Falls
  <2>1. budget' = budget
    BY <1>5 DEF CollectTake, CollectReconcile
  <2>2. collected' \subseteq collected \/ CollectTake
    BY <1>5 DEF CollectReconcile
  <2> QED
    BY <1>0, <1>5, <2>1, <2>2 DEF Falls
<1>6. ASSUME StopBegin \/ ClearIdle, ~Crash PROVE Falls
  BY <1>s, <1>6 DEF StopBegin, ClearIdle, Falls
<1> QED
  BY <1>x, <1>1, <1>2, <1>3, <1>4, <1>5, <1>6 DEF Next

(* A message that reached a model stays reached, a verdict but "parked"    *)
(* stays given.                                                            *)
LEMMA ReachesMakes ==
  ASSUME got \in Gots, NEW m \in Msgs, NEW via \in Routes, Reaches(m, via)
  PROVE  got'[m][via] > 0 /\ \A n \in Msgs : Reached(n) => Reached(n)'
<1>1. got' = [got EXCEPT ![m][via] = IF got[m][via] < 2 THEN got[m][via] + 1 ELSE got[m][via]]
  BY DEF Reaches
<1>2. got[m][via] \in 0..2
  BY DEF Gots
<1>3. got'[m][via] > 0
  BY <1>1, <1>2 DEF Gots
<1>4. ASSUME NEW n \in Msgs, NEW w \in Routes, got[n][w] > 0 PROVE got'[n][w] > 0
  BY <1>3, <1>4, ReachesEffect
<1> QED
  BY <1>3, <1>4 DEF Reached

LEMMA ReachedStays == IInv /\ StepKind => \A m \in Msgs : Reached(m) => Reached(m)'
<1> SUFFICES ASSUME IInv, StepKind, NEW m \in Msgs, Reached(m) PROVE Reached(m)'
  OBVIOUS
<1>0. got \in Gots
  BY DEF IInv, NamedTypes
<1>1. CASE got' = got
  BY <1>1 DEF Reached
<1>2. ASSUME NEW n \in Msgs, NEW via \in Routes, Reaches(n, via) PROVE Reached(m)'
  BY <1>0, <1>2, ReachesMakes
<1>3. CASE CollectTake
  <2>1. PICK via \in Routes : got[m][via] > 0
    BY DEF Reached
  <2>2. got'[m][via] > 0
    BY <1>0, <1>3, <2>1 DEF CollectTake, Gots
  <2> QED
    BY <2>2 DEF Reached
<1>4. ASSUME NEW r \in Rows, ClaimKind(r) \/ TakeKind(r) PROVE Reached(m)'
  <2>1. Msg(r) \in Msgs
    BY Sorts
  <2>2. "steer" \in Routes
    BY DEF Routes
  <2> QED
    BY <1>1, <1>2, <1>4, <2>1, <2>2 DEF ClaimKind, TakeKind, Takes, Progresses, Asks, Restores, Retires, Delivers, Requeues
<1>5. ASSUME NEW n \in Msgs, SenderKind(n) PROVE Reached(m)'
  <2>1. "turn" \in Routes
    BY DEF Routes
  <2> QED
    BY <1>1, <1>2, <1>5, <2>1 DEF SenderKind, Begins, Leaves, Starts, Enqueues
<1>6. CASE Quiets \/ Sweeps \/ Crash
  BY <1>1, <1>6 DEF Quiets, Sweeps, Crash
<1> QED
  BY <1>3, <1>4, <1>5, <1>6 DEF StepKind

LEMMA RecallsAlways == StepKind => Recalls
<1> SUFFICES ASSUME StepKind PROVE Recalls
  OBVIOUS
<1>1. CASE CollectTake \/ Crash
  BY <1>1 DEF CollectTake, Crash, Recalls
<1>2. ASSUME NEW r \in Rows, ClaimKind(r) \/ TakeKind(r) PROVE Recalls
  BY <1>2 DEF ClaimKind, TakeKind, Takes, Progresses, Asks, Restores, Retires, ClaimEnds, Delivers, Requeues, Judged
<1>3. ASSUME NEW n \in Msgs, SenderKind(n) PROVE Recalls
  BY <1>3 DEF SenderKind, Begins, Leaves, Starts, Enqueues, Judged
<1>4. CASE Quiets \/ Sweeps
  BY <1>4 DEF Quiets, Sweeps, Judged, SweptVerdicts
<1> QED
  BY <1>1, <1>2, <1>3, <1>4 DEF StepKind

LEMMA SafeStays == IInv /\ StepKind => \A m \in Msgs : Safe(m) => Safe(m)'
<1> SUFFICES ASSUME IInv, StepKind, NEW m \in Msgs, Safe(m) PROVE Safe(m)'
  OBVIOUS
<1>1. CASE Reached(m)
  BY <1>1, ReachedStays DEF Safe
<1>2. ASSUME NEW v \in Excuses, v \in settled[m] PROVE Safe(m)'
  BY <1>2, RecallsAlways DEF Recalls, Excuses, Safe
<1> QED
  BY <1>1, <1>2 DEF Safe

(* A message nobody has and nobody answers for keeps a row that backs it. *)
LEMMA KeptOn ==
  ASSUME IInv, OnPaths, NamedTypes', StepKind, Falls, NEW m \in Msgs, ~Safe(m), ~Safe(m)', Kept(m)
  PROVE  Kept(m)'
<1>1. /\ \A r, q \in Of(m) : Carries(r) /\ Carries(q) => r = q
      /\ Early(m) => \A r \in Of(m) : row[r] = "none" /\ claim[r] = NoClaim
      /\ \A r \in Of(m) : claim[r].by = "none" <=> claim[r].pc = "none"
      /\ \A r \in Of(m) : claim[r].by # "none" => row[r] \in {"launching", "deleted"}
      /\ got \in Gots
  BY DEF Safe, Excuses, IInv, OneCarrier, SenderFirst, ClaimShape, NamedTypes, Of
<1>2. /\ \A r \in Of(m) : /\ claim[r].pc \in Spent => claim[r].pc = "requeued"
                          /\ claim[r].by # "none" => row[r] = "launching"
      /\ inbox[m] = "delivered" => \E r \in Of(m) : Asked(r)
      /\ sendPc[m] # "started"
      /\ ~Early(m) => \E r \in Of(m) : Backs(r)
  BY DEF Kept
<1>3. \A r \in Of(m) : claim[r].pc \in Unasked => inbox[m] # "delivered"
  BY <1>1, <1>2 DEF Carries, Asked, Unasked
<1>4. "dropped" \notin settled'[m] /\ "uncertain" \notin settled'[m]
  BY DEF Safe, Excuses
<1>5. m \notin collected'
  <2>1. ASSUME CollectTake, m \in collected' PROVE FALSE
    <3>1. m \notin collected
      BY DEF Kept
    <3>2. got'[m]["inbox"] > 0
      BY <1>1, <2>1, <3>1 DEF CollectTake, Gots, Routes
    <3> QED
      BY <3>2 DEF Safe, Reached, Routes
  <2> QED
    BY <2>1 DEF Falls, Kept
<1>6. ASSUME NEW via \in Routes, Reaches(m, via) PROVE FALSE
  BY <1>1, <1>6, ReachesMakes DEF Safe, Reached
<1>7. ASSUME \A r \in Of(m) : row'[r] = row[r] /\ claim'[r] = claim[r], inbox'[m] = inbox[m],
             sendPc'[m] # "started", Early(m) => Early(m)'
      PROVE  Kept(m)'
  BY <1>2, <1>5, <1>7 DEF Kept, Of, Asked, Backs
<1>8. CASE Quiets
  BY <1>2, <1>7, <1>8 DEF Quiets, Early
<1>9. CASE Sweeps
  <2>1. \A r \in Of(m) : row[r] # "deleted" => row'[r] # "deleted"
    BY <1>4, <1>9 DEF Sweeps, SweptVerdicts, Excused, Of, Kept
  <2>2. \A r \in Of(m) : row'[r] = row[r] \/ (row[r] = "pending" /\ row'[r] = "recovered")
    BY <1>9, <2>1 DEF Sweeps, SweptRows, Swept, Of, Visible
  <2>3. \A r \in Of(m) : \/ claim'[r] = claim[r]
                         \/ claim[r].pc = "steering" /\ claim'[r].pc = "lost" /\ claim'[r].by = claim[r].by
    BY <1>9 DEF Sweeps, SweptClaims, Of
  <2>4. \A r \in Of(m) : /\ claim'[r].pc \in Spent => claim'[r].pc = "requeued"
                         /\ claim'[r].by # "none" => row'[r] = "launching"
    BY <1>2, <2>2, <2>3 DEF Spent
  <2>5. \A r \in Of(m) : (Asked(r) => Asked(r)') /\ (Backs(r) => Backs(r)')
    BY <2>2, <2>3 DEF Asked, Backs, Visible, Spent
  <2>6. inbox' = inbox /\ sendPc' = sendPc
    BY <1>9 DEF Sweeps
  <2> QED
    BY <1>2, <1>5, <2>4, <2>5, <2>6 DEF Kept, Of, Early
<1>10. CASE CollectTake
  <2>1. inbox'[m] = inbox[m]
    BY <1>5, <1>10 DEF CollectTake
  <2> QED
    BY <1>2, <1>7, <1>10, <2>1 DEF CollectTake, sendVars, Early
<1>11. CASE Crash
  <2>1. ~(sendPc[m] \in {"captured", "queueing"})
    BY <1>4, <1>11 DEF Crash
  <2>2. \A r \in Of(m) : ~Asked(r)
    BY <1>4, <1>11 DEF Crash, Asked, Of
  <2>3. inbox'[m] # "delivered"
    BY <1>2, <1>11, <2>2 DEF Crash
  <2>4. \A r \in Of(m) : claim'[r] = NoClaim
    BY <1>11 DEF Crash, Of
  <2>5. \A r \in Of(m) : Backs(r) => Backs(r)'
    BY <1>2, <1>11, <2>2 DEF Crash, Recovered, IsDelivered, Of, Backs, Visible
  <2>6. sendPc'[m] # "started" /\ (~Early(m)' => ~Early(m))
    BY <1>11, <2>1 DEF Crash, Early
  <2> QED
    BY <1>2, <1>5, <2>3, <2>4, <2>5, <2>6, NoClaimIs DEF Kept, Spent, Of
<1>12. ASSUME NEW n \in Msgs, SenderKind(n) PROVE Kept(m)'
  <2>0. claim' = claim
    BY <1>12 DEF SenderKind, Begins, Leaves, Starts, Enqueues, SameQueue
  <2>1. CASE n # m
    <3>1. \A r \in Of(m) : row'[r] = row[r]
      BY <1>12, <2>1, Sorts DEF SenderKind, Begins, Leaves, Starts, Enqueues, SameQueue, OnlyRow, Of
    <3>2. inbox'[m] = inbox[m] /\ sendPc'[m] = sendPc[m]
      BY <1>12, <2>1 DEF SenderKind, Begins, Leaves, Starts, Enqueues, OnlySender, OnlyInbox
    <3> QED
      BY <1>2, <1>7, <2>0, <3>1, <3>2 DEF Early
  <2>2. CASE n = m /\ Begins(n)
    <3>1. sendPc[m] = "new" /\ sendPc'[m] = "captured" /\ row' = row
      BY <1>4, <2>2 DEF Begins, SameQueue
    <3>2. inbox'[m] # "delivered"
      BY <2>2 DEF Begins, IInv, InboxOpened
    <3> QED
      BY <1>2, <1>5, <2>0, <3>1, <3>2 DEF Kept, Early, Of
  <2>3. CASE n = m /\ Leaves(n)
    <3>1. row' = row /\ inbox'[m] = inbox[m] /\ sendPc'[m] # "started"
      BY <1>2, <2>3 DEF Leaves, SameQueue
    <3>2. Early(m) => inbox[m] # "delivered"
      BY <1>1, <1>2, NoClaimIs DEF Asked
    <3>3. Early(m) => Early(m)'
      BY <1>4, <2>3, <3>2 DEF Leaves
    <3> QED
      BY <1>7, <2>0, <3>1, <3>3
  <2>4. CASE n = m /\ Starts(n)
    BY <1>6, <2>4 DEF Starts, Routes
  <2>5. CASE n = m /\ Enqueues(n)
    <3>1. Early(m) /\ inbox' = inbox /\ sendPc'[m] \in {"done", "steer"} /\ row'[<<m, 1>>] = "pending"
      BY <2>5 DEF Enqueues, Early
    <3>2. <<m, 1>> \in Of(m)
      BY Sorts DEF Of
    <3>3. \A r \in Of(m) : claim'[r].by = "none" /\ claim'[r].pc = "none" /\ ~Asked(r)
      BY <1>1, <2>0, <3>1, NoClaimIs DEF Asked
    <3>4. inbox'[m] # "delivered" /\ Backs(<<m, 1>>)'
      BY <1>2, <3>1, <3>3 DEF Backs, Visible
    <3> QED
      BY <1>5, <3>1, <3>2, <3>3, <3>4 DEF Kept, Spent, Of
  <2> QED
    BY <1>12, <2>1, <2>2, <2>3, <2>4, <2>5 DEF SenderKind
<1>13. ASSUME NEW q \in Rows, ClaimKind(q) PROVE Kept(m)'
  <2>1. sendPc' = sendPc
    BY <1>13 DEF ClaimKind, Progresses, Asks, Restores, Retires, ClaimEnds, Delivers, Requeues, ClaimGoes
  <2>2. CASE Msg(q) # m
    <3>1. \A r \in Of(m) : claim'[r] = claim[r]
      BY <1>13, <2>2 DEF ClaimKind, Progresses, Asks, Restores, Retires, ClaimEnds, Delivers, Requeues,
         ClaimGoes, OnlyClaim, Of
    <3>2. \A r \in Of(m) : row'[r] = row[r]
      BY <1>13, <2>2 DEF ClaimKind, Progresses, Asks, Restores, Retires, ClaimEnds, Delivers, Requeues,
         OnlyRow, Of
    <3>3. inbox'[m] = inbox[m]
      BY <1>13, <2>2 DEF ClaimKind, Progresses, Asks, Restores, Retires, Delivers, Requeues, OnlyInbox
    <3> QED
      BY <1>2, <1>7, <2>1, <3>1, <3>2, <3>3 DEF Early
  <2>3. CASE Msg(q) = m
    <3>0. q \in Of(m)
      BY <2>3 DEF Of
    <3>1. CASE Progresses(q)
      <4>1. claim'[q].pc \in Unasked /\ claim'[q].by = claim[q].by
        BY <1>3, <2>3, <3>0, <3>1 DEF Progresses, ClaimGoes
      <4>2. row' = row /\ inbox' = inbox /\ claim[q].pc \in Unasked /\ OnlyClaim(q)
        BY <3>1 DEF Progresses, ClaimGoes
      <4>3. \A r \in Of(m) : /\ claim'[r].pc \in Spent => claim'[r].pc = "requeued"
                             /\ claim'[r].by # "none" => row'[r] = "launching"
        BY <1>2, <4>1, <4>2 DEF OnlyClaim, Of, Spent, Unasked
      <4>4. \A r \in Of(m) : (Asked(r) => Asked(r)') /\ (Backs(r) => Backs(r)')
        BY <4>1, <4>2 DEF OnlyClaim, Of, Asked, Backs, Spent, Unasked
      <4> QED
        BY <1>2, <1>5, <2>1, <4>2, <4>3, <4>4 DEF Kept, Of, Early
    <3>2. CASE Asks(q)
      <4>1. claim'[q].pc = "steering" /\ claim'[q].by = claim[q].by /\ OnlyClaim(q) /\ row' = row
        BY <3>2 DEF Asks, ClaimGoes
      <4>2. \A r \in Of(m) : /\ claim'[r].pc \in Spent => claim'[r].pc = "requeued"
                             /\ claim'[r].by # "none" => row'[r] = "launching"
        BY <1>2, <4>1 DEF OnlyClaim, Of, Spent
      <4>3. Asked(q)' /\ \A r \in Of(m) : Backs(r) => Backs(r)'
        BY <4>1 DEF OnlyClaim, Of, Asked, Backs, Spent
      <4> QED
        BY <1>2, <1>5, <2>1, <3>0, <4>2, <4>3 DEF Kept, Of, Early
    <3>3. CASE Restores(q)
      <4>1. claim'[q] = NoClaim /\ OnlyClaim(q) /\ OnlyRow(q) /\ claim[q].by # "none"
        BY <3>3 DEF Restores, ClaimEnds
      <4>2. row'[q] \in Visible
        BY <1>2, <3>0, <3>3, <4>1 DEF Restores
      <4>3. inbox'[m] = "delivered" => \E r \in Of(m) : Asked(r)'
        <5>1. Asked(q) => inbox'[m] # "delivered"
          BY <2>3, <3>3 DEF Restores
        <5>2. ~Asked(q) => inbox'[m] = inbox[m]
          BY <2>3, <3>3 DEF Restores
        <5> QED
          BY <1>2, <3>0, <4>1, <5>1, <5>2 DEF OnlyClaim, Of, Asked
      <4>4. \A r \in Of(m) : /\ claim'[r].pc \in Spent => claim'[r].pc = "requeued"
                             /\ claim'[r].by # "none" => row'[r] = "launching"
        BY <1>2, <4>1, NoClaimIs DEF OnlyClaim, OnlyRow, Of, Spent
      <4>5. Backs(q)'
        BY <4>2 DEF Backs
      <4> QED
        BY <1>2, <1>5, <2>1, <3>0, <4>3, <4>4, <4>5 DEF Kept, Of
    <3>4. CASE Retires(q)
      <4>1. claim'[q] = NoClaim /\ OnlyClaim(q) /\ OnlyRow(q) /\ claim[q].by # "none"
        BY <3>4 DEF Retires, ClaimEnds
      <4>2. claim[q].pc = "requeued"
        BY <1>2, <1>3, <1>4, <2>3, <3>0, <3>4 DEF Retires, Over
      <4>3. inbox'[m] = inbox[m]
        BY <2>3, <3>4, <4>2 DEF Retires
      <4>4. row[q] = "launching" /\ ~Backs(q) /\ ~Asked(q)
        BY <1>2, <3>0, <4>1, <4>2 DEF Backs, Visible, Spent, Asked
      <4>5. \A r \in Of(m) : (Asked(r) => Asked(r)') /\ (Backs(r) => Backs(r)')
        BY <4>1, <4>4 DEF OnlyClaim, OnlyRow, Of, Asked, Backs
      <4>6. \A r \in Of(m) : /\ claim'[r].pc \in Spent => claim'[r].pc = "requeued"
                             /\ claim'[r].by # "none" => row'[r] = "launching"
        BY <1>2, <4>1, NoClaimIs DEF OnlyClaim, OnlyRow, Of, Spent
      <4> QED
        BY <1>2, <1>5, <2>1, <4>3, <4>5, <4>6 DEF Kept, Of, Early
    <3>5. ASSUME NEW via \in Routes \ {"inbox"}, Delivers(q, via) PROVE FALSE
      BY <1>6, <2>3, <3>5 DEF Delivers
    <3>6. ASSUME NEW p \in Rows, Requeues(q, p) PROVE Kept(m)'
      <4>1. /\ claim[q].pc = "queueing" /\ claim'[q].pc = "requeued" /\ claim'[q].by = claim[q].by
            /\ OnlyClaim(q) /\ row[p] = "none" /\ row'[p] = "pending" /\ OnlyRow(p) /\ inbox' = inbox
        BY <3>6 DEF Requeues, ClaimGoes
      <4>2. p \in Of(m) /\ p # q /\ claim[p].by = "none"
        <5>1. p \in Of(m)
          BY <2>3, <3>6 DEF Requeues, Of
        <5> QED
          BY <1>1, <3>0, <4>1, <5>1
      <4>3. inbox'[m] # "delivered"
        BY <1>3, <3>0, <4>1 DEF Unasked
      <4>4. \A r \in Of(m) : /\ claim'[r].pc \in Spent => claim'[r].pc = "requeued"
                             /\ claim'[r].by # "none" => row'[r] = "launching"
        BY <1>2, <3>0, <4>1, <4>2 DEF OnlyClaim, OnlyRow, Of
      <4>5. Backs(p)'
        BY <4>1 DEF Backs, Visible
      <4> QED
        BY <1>2, <1>5, <2>1, <4>2, <4>3, <4>4, <4>5 DEF Kept, Of
    <3> QED
      BY <1>13, <3>1, <3>2, <3>3, <3>4, <3>5, <3>6 DEF ClaimKind
  <2> QED
    BY <2>2, <2>3
<1>14. ASSUME NEW q \in Rows, TakeKind(q) PROVE Kept(m)'
  <2>1. PICK by \in Promoters \cup {"drain"} : Takes(q, by)
    BY <1>14 DEF TakeKind
  <2>2. /\ row[q] \in Visible /\ row'[q] = "launching" /\ OnlyRow(q)
        /\ claim'[q].pc = "claimed" /\ OnlyClaim(q) /\ inbox' = inbox
        /\ sendPc'[m] # "started" /\ (Early(m) => Early(m)')
    BY <1>2, <2>1 DEF Takes, Early
  <2>3. CASE Msg(q) # m
    BY <1>7, <2>2, <2>3 DEF OnlyRow, OnlyClaim, Of
  <2>4. CASE Msg(q) = m
    <3>1. q \in Of(m) /\ claim[q].by = "none" /\ claim[q].pc = "none"
      <4>1. q \in Of(m)
        BY <2>4 DEF Of
      <4> QED
        BY <1>1, <2>2, <4>1 DEF Visible
    <3>2. \A r \in Of(m) : /\ claim'[r].pc \in Spent => claim'[r].pc = "requeued"
                           /\ claim'[r].by # "none" => row'[r] = "launching"
      BY <1>2, <2>2 DEF OnlyRow, OnlyClaim, Of, Spent
    <3>3. Backs(q)' /\ \A r \in Of(m) : Asked(r) => Asked(r)'
      BY <2>2, <3>1 DEF OnlyClaim, Of, Asked, Backs, Spent
    <3> QED
      BY <1>2, <1>5, <2>2, <3>1, <3>2, <3>3 DEF Kept, Of
  <2> QED
    BY <2>3, <2>4
<1> QED
  BY <1>8, <1>9, <1>10, <1>11, <1>12, <1>13, <1>14 DEF StepKind

(* What is parked is picked by a person, or steered, before it moves. *)
LEMMA ParkedRestsKept == IInv /\ OnPaths /\ ParkedRests /\ NamedTypes' /\ StepKind => ParkedRests'
<1> SUFFICES ASSUME IInv, OnPaths, ParkedRests, NamedTypes', StepKind, NEW m \in Msgs \ InboxMsgs,
                    "parked" \in settled'[m], "resent" \notin settled'[m]
             PROVE  Rests(m)'
  BY DEF ParkedRests
<1>1. "resent" \notin settled[m]
  BY RecallsAlways DEF Recalls
<1>2. "parked" \in settled[m] => Rests(m)
  BY <1>1 DEF ParkedRests
<1>3. NoneParked => Rests(m)
  BY <1>2 DEF NoneParked
<1>4. /\ \A r, q \in Of(m) : Carries(r) /\ Carries(q) => r = q
      /\ Early(m) => \A r \in Of(m) : row[r] = "none" /\ claim[r] = NoClaim
      /\ \A r \in Of(m) : claim[r].by = "none" <=> claim[r].pc = "none"
      /\ \A r \in Of(m) : claim[r].by # "none" => row[r] \in {"launching", "deleted"}
      /\ \A r \in Of(m) : OnPath(r)
  BY <1>1 DEF IInv, OneCarrier, SenderFirst, ClaimShape, OnPaths, Of
<1>5. ASSUME Rests(m), \A r \in Of(m) : row'[r] = row[r] /\ claim'[r] = claim[r], Early(m)' => Early(m)
      PROVE  Rests(m)'
  BY <1>5 DEF Rests, Of, Asked
<1>6. CASE Quiets
  BY <1>3, <1>5, <1>6 DEF Quiets, Judged, Early
<1>7. CASE Sweeps
  <2>1. /\ \A r \in Of(m) : row[r] # "pending" => row'[r] # "pending"
        /\ \A r \in Of(m) : \/ claim'[r] = claim[r]
                            \/ claim[r].pc = "steering" /\ claim'[r].pc = "lost" /\ claim'[r].by = claim[r].by
        /\ sendPc' = sendPc
    BY <1>7 DEF Sweeps, SweptRows, Swept, SweptClaims, Of
  <2>2. CASE Rests(m)
    BY <2>1, <2>2 DEF Rests, Of, Early, Asked, Unasked
  <2>3. CASE ~Rests(m)
    <3>1. /\ \A r \in Rows : row'[r] = IF row[r] = "pending" THEN "recovered" ELSE row[r]
          /\ \E r \in Rows : Msg(r) = m /\ row[r] = "pending"
      BY <1>2, <1>3, <1>7, <2>3 DEF Sweeps, SweptVerdicts, Parking
    <3>2. PICK p \in Of(m) : row[p] = "pending"
      BY <3>1 DEF Of
    <3>3. ~Early(m)
      BY <1>4, <3>2
    <3>4. \A r \in Of(m) : ~(claim[r].pc \in Unasked \/ Asked(r))
      <4>1. claim[p].pc = "none"
        BY <1>4, <3>2
      <4> QED
        BY <1>4, <3>2, <4>1 DEF Carries, Asked, Unasked
    <3>5. \A r \in Of(m) : row'[r] # "pending"
      BY <3>1 DEF Of
    <3> QED
      BY <2>1, <3>3, <3>4, <3>5 DEF Rests, Of, Early, Asked, Unasked
  <2> QED
    BY <2>2, <2>3
<1>8. CASE CollectTake
  BY <1>2, <1>5, <1>8 DEF CollectTake, sendVars, Early
<1>9. CASE Crash
  <2>1. "parked" \in settled[m]
    BY <1>9 DEF Crash
  <2>2. ~Early(m)'
    BY <1>2, <1>9, <2>1 DEF Crash, Rests, Early
  <2>3. \A r \in Of(m) : row'[r] # "pending" /\ claim'[r] = NoClaim
    BY <1>9 DEF Crash, Recovered, Visible, Of
  <2> QED
    BY <2>2, <2>3, NoClaimIs DEF Rests, Of, Asked, Unasked
<1>10. ASSUME NEW n \in Msgs, SenderKind(n) PROVE Rests(m)'
  <2>0. claim' = claim /\ Rests(m)
    BY <1>3, <1>10 DEF SenderKind, Begins, Leaves, Starts, Enqueues, SameQueue, Judged
  <2>1. CASE n # m
    <3>1. \A r \in Of(m) : row'[r] = row[r]
      BY <1>10, <2>1, Sorts DEF SenderKind, Begins, Leaves, Starts, Enqueues, SameQueue, OnlyRow, Of
    <3>2. sendPc'[m] = sendPc[m]
      BY <1>10, <2>1 DEF SenderKind, Begins, Leaves, Starts, Enqueues, OnlySender
    <3> QED
      BY <1>5, <2>0, <3>1, <3>2 DEF Early
  <2>2. CASE n = m
    BY <1>5, <1>10, <2>0, <2>2 DEF SenderKind, Begins, Leaves, Starts, Enqueues, SameQueue, Rests, Early
  <2> QED
    BY <2>1, <2>2
<1>11. ASSUME NEW q \in Rows, ClaimKind(q) PROVE Rests(m)'
  <2>1. sendPc' = sendPc /\ Rests(m)
    BY <1>3, <1>11 DEF ClaimKind, Progresses, Asks, Restores, Retires, ClaimEnds, Delivers, Requeues, ClaimGoes, Judged
  <2>2. CASE Msg(q) # m
    <3>1. \A r \in Of(m) : claim'[r] = claim[r]
      BY <1>11, <2>2 DEF ClaimKind, Progresses, Asks, Restores, Retires, ClaimEnds, Delivers, Requeues,
         ClaimGoes, OnlyClaim, Of
    <3>2. \A r \in Of(m) : row'[r] = row[r]
      BY <1>11, <2>2 DEF ClaimKind, Progresses, Asks, Restores, Retires, ClaimEnds, Delivers, Requeues,
         OnlyRow, Of
    <3> QED
      BY <1>5, <2>1, <3>1, <3>2 DEF Early
  <2>3. CASE Msg(q) = m
    <3>0. q \in Of(m)
      BY <2>3 DEF Of
    <3>1. /\ \A r \in Of(m) : row[r] # "pending"
          /\ \A r \in Of(m) : claim[r].pc \in Unasked \/ Asked(r) => claim[r].by = "steer"
          /\ ~Early(m)'
      BY <2>1 DEF Rests, Early
    <3>2. CASE Progresses(q) \/ Asks(q)
      <4>1. claim[q].pc \in Unasked /\ claim'[q].by = claim[q].by /\ OnlyClaim(q) /\ row' = row
        BY <3>2 DEF Progresses, Asks, ClaimGoes
      <4> QED
        BY <3>0, <3>1, <4>1 DEF Rests, OnlyClaim, Of, Asked
    <3>3. CASE Restores(q)
      <4>1. claim'[q] = NoClaim /\ OnlyClaim(q) /\ OnlyRow(q) /\ claim[q].by = "steer"
        BY <3>0, <3>1, <3>3 DEF Restores, ClaimEnds
      <4>2. claim[q].pc \in SteerPcs \cup {"claimed"}
        BY <1>4, <3>0, <4>1 DEF OnPath, Steerers
      <4>3. row'[q] # "pending"
        BY <3>0, <3>1, <3>3, <4>1, <4>2 DEF Restores, Offered, RefusedTo, SteerPcs
      <4> QED
        BY <3>1, <4>1, <4>3, NoClaimIs DEF Rests, OnlyClaim, OnlyRow, Of, Asked, Unasked
    <3>4. CASE Retires(q)
      <4>1. claim'[q] = NoClaim /\ OnlyClaim(q) /\ OnlyRow(q) /\ row'[q] \in {"deleted", "unknown"}
        BY <3>4 DEF Retires, ClaimEnds
      <4> QED
        BY <3>1, <4>1, NoClaimIs DEF Rests, OnlyClaim, OnlyRow, Of, Asked, Unasked
    <3>5. ASSUME NEW via \in Routes \ {"inbox"}, Delivers(q, via) PROVE Rests(m)'
      <4>1. claim'[q].pc \in Spent /\ OnlyClaim(q) /\ row' = row
        BY <3>5 DEF Delivers, ClaimGoes
      <4> QED
        BY <3>1, <4>1 DEF Rests, OnlyClaim, Of, Asked, Unasked, Spent
    <3>6. ASSUME NEW p \in Rows, Requeues(q, p) PROVE FALSE
      <4>1. claim[q].pc = "queueing" /\ claim[q].by = "steer"
        BY <3>0, <3>1, <3>6 DEF Requeues, Unasked
      <4> QED
        BY <1>4, <3>0, <4>1 DEF OnPath, Steerers, SteerPcs
    <3> QED
      BY <1>11, <3>2, <3>3, <3>4, <3>5, <3>6 DEF ClaimKind
  <2> QED
    BY <2>2, <2>3
<1>12. ASSUME NEW q \in Rows, TakeKind(q) PROVE Rests(m)'
  <2>1. PICK by \in Promoters \cup {"drain"} : Takes(q, by)
    BY <1>12 DEF TakeKind
  <2>2. /\ row'[q] = "launching" /\ OnlyRow(q) /\ claim'[q].by = by /\ OnlyClaim(q)
        /\ (Early(m)' => Early(m)) /\ Rests(m)
    BY <1>3, <2>1 DEF Takes, Early
  <2>3. CASE Msg(q) # m
    BY <1>5, <2>2, <2>3 DEF OnlyRow, OnlyClaim, Of
  <2>4. CASE Msg(q) = m
    <3>1. by = "steer"
      <4>1. ~ByPerson(q, by)
        BY <2>4 DEF ByPerson
      <4>2. ~ByDrain(q, by)
        BY <2>2, <2>4 DEF ByDrain, Rests, Of
      <4> QED
        BY <2>1, <2>4, <4>1, <4>2 DEF Takes, BySender
    <3> QED
      BY <2>2, <3>1 DEF Rests, OnlyRow, OnlyClaim, Of, Asked
  <2> QED
    BY <2>3, <2>4
<1> QED
  BY <1>6, <1>7, <1>8, <1>9, <1>10, <1>11, <1>12 DEF StepKind

LEMMA BoundedKept == NamedTypes /\ NamedTypes' /\ Bounded /\ Falls => Bounded'
BY ConstantsAssumption DEF NamedTypes, Budgets, Bounded, Falls, ConstantsAssumption

(* While nobody picked a row and nothing crashed, nobody does in this step. *)
LEMMA StillCalm ==
  ASSUME NamedTypes, NamedTypes', Bounded, Falls, Undisturbed'
  PROVE  Undisturbed /\ ~Crash /\ \A r \in Rows, by \in Promoters \cup {"drain"} : ~ByPerson(r, by)
<1>1. /\ budget["actions"] \in Nat /\ budget["crashes"] \in Nat
      /\ budget'["actions"] = MaxActions /\ budget'["crashes"] = MaxCrashes
      /\ MaxActions \in Nat /\ MaxCrashes \in Nat
  BY ConstantsAssumption DEF NamedTypes, Budgets, Undisturbed, ConstantsAssumption
<1>2. budget["actions"] = MaxActions /\ budget["crashes"] = MaxCrashes
  BY <1>1 DEF Bounded, Falls
<1> QED
  BY <1>1, <1>2 DEF Undisturbed, Falls, ByPerson

(* A turn that took an agent's message leaves its inbox row closed, or is   *)
(* about to close it.                                                       *)
LEMMA CalmKept ==
  ASSUME IInv, OnPaths, NamedTypes', StepKind, ~Crash,
         \A r \in Rows, by \in Promoters \cup {"drain"} : ~ByPerson(r, by),
         NEW m \in InboxMsgs, Calm(m)
  PROVE  Calm(m)'
<1> DEFINE Barred == \A r \in Of(m) : row[r] # "unknown" /\ claim[r].by \in {"none", "drain"}
           Taken == got[m]["turn"] > 0 => inbox[m] # "open" \/ Closing(m)
           Claimants == \A r \in Of(m) : claim[r].by \in {"none", "drain", "agentSteer"}
           Ahead == Early(m) \/ sendPc[m] = "steer"
<1>0. m \in Msgs
  BY ConstantsAssumption DEF ConstantsAssumption
<1>1. "resent" \notin settled[m] /\ got[m]["sibling"] = 0 /\ Claimants /\ (Ahead => Barred) /\ Taken
  BY DEF Calm
<1>2. /\ Early(m) \/ (\E r \in Of(m) : Carries(r)) => Tally(m) = 0
      /\ Early(m) => \A r \in Of(m) : row[r] = "none" /\ claim[r] = NoClaim
      /\ \A r \in Of(m) : claim[r].by = "none" <=> claim[r].pc = "none"
      /\ \A r \in Of(m) : claim[r].by # "none" => row[r] \in {"launching", "deleted"}
      /\ \A r \in Of(m) : OnPath(r)
      /\ got \in Gots
  BY <1>0, <1>1 DEF IInv, OneCarrier, SenderFirst, ClaimShape, OnPaths, NamedTypes, Of
<1>3. Tally(m) = 0 => got[m]["turn"] = 0
  BY <1>2, <1>0 DEF Tally, Gots, Routes
<1>4. ASSUME "resent" \notin settled'[m], got'[m]["sibling"] = 0, Claimants', Ahead' => Barred', Taken'
      PROVE  Calm(m)'
  BY <1>4 DEF Calm
<1> HIDE DEF Barred, Taken, Claimants, Ahead
<1>5. ASSUME SameResent, got'[m] = got[m], inbox'[m] = inbox[m],
             \A r \in Of(m) : (row'[r] = row[r] \/ row'[r] # "unknown") /\ claim'[r] = claim[r],
             sendPc'[m] = sendPc[m]
      PROVE  Calm(m)'
  <2>1. Claimants' /\ (Ahead' => Barred')
    BY <1>1, <1>5 DEF Claimants, Ahead, Barred, Early, Of
  <2>2. Taken'
    BY <1>1, <1>5 DEF Taken, Closing, Of
  <2> QED
    BY <1>0, <1>1, <1>4, <1>5, <2>1, <2>2 DEF SameResent
<1>6. CASE Quiets
  BY <1>5, <1>6 DEF Quiets, Judged
<1>7. CASE Sweeps
  <2>1. SameResent /\ inbox' = inbox /\ sendPc' = sendPc /\ got' = got
    BY <1>7 DEF Sweeps, SweptVerdicts
  <2>2. \A r \in Of(m) : row'[r] = row[r] \/ row'[r] # "unknown"
    BY <1>7 DEF Sweeps, SweptRows, Swept, Of
  <2>3. \A r \in Of(m) : /\ claim'[r].by = claim[r].by
                         /\ claim[r].pc = "sent" => claim'[r].pc = "sent"
    BY <1>7 DEF Sweeps, SweptClaims, Of
  <2>4. Claimants' /\ (Ahead' => Barred')
    BY <1>1, <2>1, <2>2, <2>3 DEF Claimants, Ahead, Barred, Early, Of
  <2>5. Taken'
    BY <1>1, <2>1, <2>3 DEF Taken, Closing, Of
  <2> QED
    BY <1>0, <1>1, <1>4, <2>1, <2>4, <2>5 DEF SameResent
<1>8. CASE CollectTake
  <2>1. UNCHANGED <<row, claim, sendPc, settled>>
    BY <1>8 DEF CollectTake, sendVars
  <2>2. got'[m]["turn"] = got[m]["turn"] /\ got'[m]["sibling"] = got[m]["sibling"]
    BY <1>0, <1>2, <1>8 DEF CollectTake, Gots, Routes
  <2>3. inbox'[m] = inbox[m] \/ inbox'[m] = "delivered"
    BY <1>0, <1>8 DEF CollectTake
  <2>4. Claimants' /\ (Ahead' => Barred')
    BY <1>1, <2>1 DEF Claimants, Ahead, Barred, Early, Of
  <2>5. Taken'
    BY <1>1, <2>1, <2>2, <2>3 DEF Taken, Closing, Of
  <2> QED
    BY <1>1, <1>4, <2>1, <2>2, <2>4, <2>5
<1>9. ASSUME NEW n \in Msgs, SenderKind(n) PROVE Calm(m)'
  <2>0. claim' = claim /\ SameResent
    BY <1>9 DEF SenderKind, Begins, Leaves, Starts, Enqueues, SameQueue, Judged
  <2>r. "resent" \notin settled'[m]
    BY <1>0, <1>1, <2>0 DEF SameResent
  <2>c. Claimants'
    BY <1>1, <2>0 DEF Claimants, Of
  <2>1. CASE n # m
    <3>1. \A r \in Of(m) : row'[r] = row[r]
      BY <1>9, <2>1, Sorts DEF SenderKind, Begins, Leaves, Starts, Enqueues, SameQueue, OnlyRow, Of
    <3>2. sendPc'[m] = sendPc[m] /\ inbox'[m] = inbox[m]
      BY <1>0, <1>9, <2>1 DEF SenderKind, Begins, Leaves, Starts, Enqueues, OnlySender, OnlyInbox
    <3>3. got'[m] = got[m]
      <4>1. CASE Starts(n)
        BY <1>0, <1>2, <2>1, <4>1, ReachesEffect DEF Starts, Routes
      <4> QED
        BY <1>9, <4>1 DEF SenderKind, Begins, Leaves, Enqueues
    <3> QED
      BY <1>5, <2>0, <3>1, <3>2, <3>3
  <2>2. CASE n = m /\ Begins(m)
    <3>1. Early(m) /\ row' = row /\ got' = got
      BY <2>2 DEF Begins, Early, SameQueue
    <3>2. Taken'
      BY <1>2, <1>3, <3>1 DEF Taken
    <3>3. Barred'
      BY <1>2, <2>0, <3>1, NoClaimIs DEF Barred, Of
    <3> QED
      BY <1>1, <1>4, <2>r, <2>c, <3>1, <3>2, <3>3
  <2>3. CASE n = m /\ Leaves(m)
    <3>1. row' = row /\ got' = got /\ (Ahead' => Ahead)
      BY <2>3 DEF Leaves, SameQueue, Ahead, Early
    <3>2. Taken'
      <4>1. CASE sendPc[m] = "started"
        BY <2>3, <4>1 DEF Leaves, Taken
      <4>2. CASE sendPc[m] # "started"
        BY <1>1, <2>0, <2>3, <3>1, <4>2 DEF Leaves, Taken, Closing, Of
      <4> QED
        BY <4>1, <4>2
    <3>3. Ahead' => Barred'
      BY <1>1, <2>0, <3>1 DEF Barred, Of
    <3> QED
      BY <1>1, <1>4, <2>r, <2>c, <3>1, <3>2, <3>3
  <2>4. CASE n = m /\ Starts(m)
    <3>1. sendPc'[m] = "started" /\ got'[m]["sibling"] = got[m]["sibling"]
      BY <1>0, <1>2, <2>4, ReachesEffect DEF Starts, Routes
    <3>2. Taken' /\ ~Ahead'
      BY <3>1 DEF Taken, Closing, Ahead, Early
    <3> QED
      BY <1>1, <1>4, <2>r, <2>c, <3>1, <3>2
  <2>5. CASE n = m /\ Enqueues(m)
    <3>1. Early(m) /\ got' = got /\ row'[<<m, 1>>] = "pending" /\ OnlyRow(<<m, 1>>)
      BY <2>5 DEF Enqueues, Early
    <3>2. Taken'
      BY <1>2, <1>3, <3>1 DEF Taken
    <3>3. Barred'
      BY <1>2, <2>0, <3>1, NoClaimIs DEF Barred, OnlyRow, Of
    <3> QED
      BY <1>1, <1>4, <2>r, <2>c, <3>1, <3>2, <3>3
  <2> QED
    BY <1>9, <2>1, <2>2, <2>3, <2>4, <2>5 DEF SenderKind
<1>10. ASSUME NEW q \in Rows, ClaimKind(q) PROVE Calm(m)'
  <2>0. sendPc' = sendPc /\ SameResent /\ OnlyClaim(q)
    BY <1>10 DEF ClaimKind, Progresses, Asks, Restores, Retires, ClaimEnds, Delivers, Requeues, ClaimGoes, Judged
  <2>r. "resent" \notin settled'[m]
    BY <1>0, <1>1, <2>0 DEF SameResent
  <2>1. CASE Msg(q) # m
    <3>1. \A r \in Of(m) : claim'[r] = claim[r]
      BY <2>0, <2>1 DEF OnlyClaim, Of
    <3>2. \A r \in Of(m) : row'[r] = row[r]
      BY <1>10, <2>1 DEF ClaimKind, Progresses, Asks, Restores, Retires, ClaimEnds, Delivers, Requeues,
         OnlyRow, Of
    <3>3. inbox'[m] = inbox[m]
      BY <1>0, <1>10, <2>1 DEF ClaimKind, Progresses, Asks, Restores, Retires, Delivers, Requeues, OnlyInbox
    <3>4. got'[m] = got[m]
      <4>1. ASSUME NEW via \in Routes, Reaches(Msg(q), via) PROVE got'[m] = got[m]
        BY <1>0, <1>2, <2>1, <4>1, ReachesEffect, Sorts
      <4>2. "steer" \in Routes
        BY DEF Routes
      <4> QED
        BY <1>10, <4>1, <4>2 DEF ClaimKind, Progresses, Asks, Restores, Retires, Delivers, Requeues
    <3> QED
      BY <1>5, <2>0, <3>1, <3>2, <3>3, <3>4
  <2>2. CASE Msg(q) = m
    <3>0. q \in Of(m) /\ OnPath(q) /\ claim[q].by \in {"none", "drain", "agentSteer"}
      <4>1. q \in Of(m)
        BY <2>2 DEF Of
      <4> QED
        BY <1>1, <1>2, <4>1 DEF Claimants
    <3>1. ASSUME claim'[q].by = claim[q].by, claim[q].pc # "sent", \A r \in Of(m) : row'[r] # "unknown" \/ row'[r] = row[r]
          PROVE  Claimants' /\ (Ahead' => Barred') /\ (Closing(m) => Closing(m)')
      BY <1>1, <2>0, <3>1 DEF Claimants, Ahead, Barred, Closing, Early, OnlyClaim, Of
    <3>2. CASE Progresses(q) \/ Asks(q)
      <4>1. row' = row /\ got' = got /\ claim'[q].by = claim[q].by /\ claim[q].pc # "sent"
        BY <3>2 DEF Progresses, Asks, ClaimGoes, Unasked
      <4>2. inbox'[m] = inbox[m] \/ inbox'[m] # "open"
        BY <2>2, <3>2 DEF Progresses, Asks
      <4>3. Taken'
        BY <1>1, <3>1, <4>1, <4>2 DEF Taken
      <4> QED
        BY <1>1, <1>4, <2>r, <3>1, <4>1, <4>3
    <3>3. CASE Restores(q)
      <4>1. claim'[q] = NoClaim /\ OnlyRow(q) /\ got' = got /\ (claim[q].pc \in Unasked \/ Asked(q))
        BY <3>3 DEF Restores, ClaimEnds
      <4>2. Claimants'
        BY <1>1, <2>0, <4>1, NoClaimIs DEF Claimants, OnlyClaim, Of
      <4>3. claim[q].by \in {"none", "drain"} => row'[q] # "unknown"
        <5>1. claim[q].by = "drain" => claim[q].prior = "pending"
          BY <3>0 DEF OnPath
        <5>2. claim[q].by \in {"none", "drain"} => claim[q].pc # "admitted" /\ ~Asked(q)
          BY <3>0 DEF OnPath, SteerPcs, Steerers, Asked
        <5>3. claim[q].by # "none" /\ row[q] \in {"launching", "deleted"}
          BY <1>2, <3>0, <4>1 DEF Unasked, Asked
        <5> QED
          BY <3>3, <5>1, <5>2, <5>3 DEF Restores, Offered
      <4>4. Ahead' => Barred'
        BY <1>1, <2>0, <4>1, <4>3, NoClaimIs DEF Ahead, Barred, Early, OnlyClaim, OnlyRow, Of
      <4>5. Taken'
        <5>1. Tally(m) = 0
          BY <1>2, <3>0, <4>1 DEF Carries
        <5> QED
          BY <1>3, <4>1, <5>1 DEF Taken
      <4> QED
        BY <1>1, <1>4, <2>r, <4>1, <4>2, <4>4, <4>5
    <3>4. CASE Retires(q)
      <4>1. claim'[q] = NoClaim /\ OnlyRow(q) /\ claim[q].by # "none"
        BY <3>4 DEF Retires, ClaimEnds
      <4>2. Claimants'
        BY <1>1, <2>0, <4>1, NoClaimIs DEF Claimants, OnlyClaim, Of
      <4>3. claim[q].by \in {"none", "drain"} => row'[q] # "unknown"
        BY <3>0, <3>4 DEF Retires, OnPath, SteerPcs, Steerers, Asked
      <4>4. Ahead' => Barred'
        BY <1>1, <2>0, <4>1, <4>3, NoClaimIs DEF Ahead, Barred, Early, OnlyClaim, OnlyRow, Of
      <4>5. got'[m]["turn"] = got[m]["turn"] /\ got'[m]["sibling"] = got[m]["sibling"]
        <5>1. CASE got' = got
          BY <5>1
        <5>2. CASE Reaches(m, "steer")
          BY <1>0, <1>2, <5>2, ReachesEffect DEF Routes
        <5> QED
          BY <2>2, <3>4, <5>1, <5>2 DEF Retires
      <4>6. Taken'
        <5>1. CASE claim[q].by = "drain" /\ claim[q].pc = "sent"
          BY <2>2, <3>4, <5>1 DEF Retires, Taken
        <5>2. CASE ~(claim[q].by = "drain" /\ claim[q].pc = "sent")
          <6>1. Closing(m) => Closing(m)'
            BY <2>0, <5>2 DEF Closing, OnlyClaim, Of
          <6>2. inbox'[m] = inbox[m] \/ inbox'[m] # "open"
            BY <1>0, <3>4 DEF Retires, InboxCloses
          <6> QED
            BY <1>1, <4>5, <6>1, <6>2 DEF Taken
        <5> QED
          BY <5>1, <5>2
      <4> QED
        BY <1>1, <1>4, <2>r, <4>2, <4>4, <4>5, <4>6
    <3>5. ASSUME NEW via \in Routes \ {"inbox"}, Delivers(q, via) PROVE Calm(m)'
      <4>1. /\ row' = row /\ inbox' = inbox /\ claim'[q].by = claim[q].by
            /\ Route(via, claim[q].pc, claim'[q].pc) /\ Reaches(m, via)
        BY <2>2, <3>5 DEF Delivers, ClaimGoes
      <4>2. claim[q].pc \in {"sending", "launching", "steering"}
        BY <4>1 DEF Route
      <4>3. claim[q].by # "none"
        BY <1>2, <3>0, <4>2
      <4>4. via # "sibling"
        BY <3>0, <4>1, <4>2 DEF Route, OnPath
      <4>5. got'[m]["sibling"] = 0
        BY <1>0, <1>1, <1>2, <4>1, <4>4, ReachesEffect DEF Routes
      <4>6. Taken'
        <5>1. CASE via = "turn"
          <6>1. claim[q].by = "drain" /\ claim'[q].pc = "sent"
            BY <3>0, <4>1, <4>3, <5>1 DEF Route, OnPath, Steerers, SteerPcs
          <6> QED
            BY <3>0, <4>1, <6>1 DEF Taken, Closing, Of
        <5>2. CASE via # "turn"
          <6>1. got'[m]["turn"] = got[m]["turn"]
            BY <1>0, <1>2, <4>1, <5>2, ReachesEffect DEF Routes
          <6> QED
            BY <1>1, <3>1, <4>1, <4>2, <6>1 DEF Taken
        <5> QED
          BY <5>1, <5>2
      <4> QED
        BY <1>4, <2>r, <3>1, <4>1, <4>2, <4>5, <4>6
    <3>6. ASSUME NEW p \in Rows, Requeues(q, p) PROVE Calm(m)'
      <4>1. /\ claim'[q].by = claim[q].by /\ claim[q].pc = "queueing"
            /\ row'[p] = "pending" /\ OnlyRow(p) /\ inbox' = inbox /\ got' = got
        BY <3>6 DEF Requeues, ClaimGoes
      <4>2. \A r \in Of(m) : row'[r] # "unknown" \/ row'[r] = row[r]
        BY <4>1 DEF OnlyRow, Of
      <4>3. Taken'
        BY <1>1, <3>1, <4>1, <4>2 DEF Taken
      <4> QED
        BY <1>1, <1>4, <2>r, <3>1, <4>1, <4>2, <4>3
    <3> QED
      BY <1>10, <3>2, <3>3, <3>4, <3>5, <3>6 DEF ClaimKind
  <2> QED
    BY <2>1, <2>2
<1>11. ASSUME NEW q \in Rows, TakeKind(q) PROVE Calm(m)'
  <2>1. PICK by \in Promoters \cup {"drain"} : Takes(q, by)
    BY <1>11 DEF TakeKind
  <2>2. /\ row[q] \in Visible /\ row'[q] = "launching" /\ OnlyRow(q) /\ claim'[q].by = by /\ OnlyClaim(q)
        /\ inbox' = inbox /\ got' = got
        /\ "resent" \in settled'[m] => "resent" \in settled[m] \/ (m = Msg(q) /\ row[q] = "unknown")
        /\ ByDrain(q, by) \/ BySender(q, by)
    BY <1>0, <2>1 DEF Takes
  <2>3. CASE Msg(q) # m
    <3>1. \A r \in Of(m) : row'[r] = row[r] /\ claim'[r] = claim[r]
      BY <2>2, <2>3 DEF OnlyRow, OnlyClaim, Of
    <3>2. sendPc'[m] = sendPc[m]
      BY <1>0, <2>2, <2>3 DEF ByDrain, BySender, OnlySender
    <3>3. "resent" \notin settled'[m]
      BY <1>1, <2>2, <2>3
    <3>4. Claimants' /\ (Ahead' => Barred') /\ Taken'
      BY <1>1, <2>2, <3>1, <3>2 DEF Claimants, Ahead, Barred, Taken, Closing, Early, Of
    <3> QED
      BY <1>1, <1>4, <2>2, <3>3, <3>4
  <2>4. CASE Msg(q) = m
    <3>0. q \in Of(m) /\ claim[q].by = "none"
      <4>1. q \in Of(m)
        BY <2>4 DEF Of
      <4> QED
        BY <1>2, <2>2, <4>1 DEF Visible
    <3>1. by \in {"drain", "agentSteer"}
      BY <2>2, <2>4 DEF ByDrain, BySender
    <3>2. row[q] # "unknown"
      BY <1>1, <2>2, <2>4, <3>0 DEF ByDrain, BySender, Ahead, Barred
    <3>3. Claimants'
      BY <1>1, <2>2, <3>1 DEF Claimants, OnlyClaim, Of
    <3>4. Ahead' => Barred'
      <4>1. CASE ByDrain(q, by)
        BY <1>1, <2>2, <4>1 DEF ByDrain, Ahead, Barred, Early, OnlyRow, OnlyClaim, Of
      <4>2. CASE BySender(q, by)
        BY <2>4, <4>2 DEF BySender, Ahead, Early
      <4> QED
        BY <2>2, <4>1, <4>2
    <3>5. Taken'
      <4>1. Closing(m) => Closing(m)'
        BY <2>2, <2>4, <3>0 DEF Closing, ByDrain, BySender, OnlyClaim, Of
      <4> QED
        BY <1>1, <2>2, <4>1 DEF Taken
    <3> QED
      BY <1>1, <1>4, <2>2, <3>2, <3>3, <3>4, <3>5
  <2> QED
    BY <2>3, <2>4
<1> QED
  BY <1>6, <1>7, <1>8, <1>9, <1>10, <1>11 DEF StepKind

LEMMA InitLedger == Init => Ledger
<1> SUFFICES ASSUME Init PROVE Ledger
  OBVIOUS
<1>1. \A r \in Rows : claim[r].by = "none" /\ claim[r].pc = "none" /\ row[r] = "none"
  BY NoClaimIs DEF Init
<1>2. \A m \in Msgs : settled[m] = {} /\ inbox[m] = "none" /\ Early(m) /\ sendPc[m] # "started"
  BY DEF Init, Early
<1>3. OnPaths
  BY <1>1 DEF OnPaths, OnPath, SteerPcs, Steerers
<1>4. \A m \in Msgs : Kept(m)
  BY <1>1, <1>2 DEF Init, Kept, Of, Spent
<1>5. ParkedRests
  BY <1>2 DEF ParkedRests
<1>6. Bounded
  BY ConstantsAssumption DEF Init, Bounded, ConstantsAssumption
<1>7. CalmUntil
  <2>1. \A m \in Msgs : \A via \in Routes : got[m][via] = 0
    BY DEF Init
  <2>2. \A m \in Msgs : Calm(m)
    BY <1>1, <1>2, <2>1 DEF Calm, Of, Routes
  <2> QED
    BY <2>2, ConstantsAssumption DEF CalmUntil, ConstantsAssumption
<1> QED
  BY <1>3, <1>4, <1>5, <1>6, <1>7 DEF Ledger

LEMMA LedgerKept == IInv /\ Ledger /\ [Next]_vars => Ledger'
<1> SUFFICES ASSUME IInv, Ledger, [Next]_vars PROVE Ledger'
  OBVIOUS
<1>1. NamedTypes /\ NamedTypes' /\ StepKind /\ Falls
  BY NextTypes, Kinds, NextFalls DEF IInv
<1>2. OnPaths /\ ParkedRests /\ Bounded /\ CalmUntil
  BY DEF Ledger
<1>3. OnPaths' /\ ParkedRests' /\ Bounded'
  BY <1>1, <1>2, OnPathsKept, ParkedRestsKept, BoundedKept
<1>4. ASSUME NEW m \in Msgs PROVE Safe(m)' \/ Kept(m)'
  BY <1>1, <1>2, SafeStays, KeptOn DEF Ledger
<1>5. CalmUntil'
  <2>1. ASSUME Undisturbed', NEW m \in InboxMsgs PROVE Calm(m)'
    BY <1>1, <1>2, <2>1, StillCalm, CalmKept DEF CalmUntil
  <2> QED
    BY <2>1 DEF CalmUntil
<1> QED
  BY <1>3, <1>4, <1>5 DEF Ledger

(* What every message, row and claim owes: a message nobody has is backed  *)
(* by a row, a parked one rests, and a turn closes the inbox row it took.   *)
THEOREM LedgerHolds == Spec => []Ledger
BY Invariant, InitLedger, LedgerKept, PTL DEF Spec

(* No message is lost: once its sender returned it reached a model, was     *)
(* dropped, or waits in the journal or the inbox, over drains, picks,       *)
(* refused sends, collections, Stops and crashes at any point.              *)
THEOREM MessagesAreRetained == Spec => []Retained
<1>1. IInv /\ Ledger => Retained
  <2> SUFFICES ASSUME IInv, Ledger, NEW m \in Msgs, sendPc[m] = "done"
               PROVE  Reached(m) \/ Waits(m) \/ settled[m] \cap {"dropped", "uncertain", "resent"} # {}
    BY DEF Retained, KeptUnless
  <2>1. Safe(m) \/ Kept(m)
    BY DEF Ledger
  <2>2. CASE Safe(m)
    BY <2>2 DEF Safe, Excuses
  <2>3. CASE Kept(m)
    <3>1. PICK r \in Of(m) : Backs(r)
      BY <2>3 DEF Kept, Early
    <3> QED
      BY <3>1 DEF Waits, Of, Backs, Visible
  <2> QED
    BY <2>1, <2>2, <2>3
<1> QED
  BY <1>1, Invariant, LedgerHolds, PTL

(* What a failed turn parked (pause_queue_with_connection) starts no turn   *)
(* before a person picks it: drains pass it by, and its sender only steers. *)
THEOREM ParkedMessagesRest == Spec => ParkedStays
<1>1. IInv /\ Ledger /\ [Next]_vars =>
        [\A m \in Msgs \ InboxMsgs :
           "parked" \in settled[m] /\ "resent" \notin settled[m] => got'[m]["turn"] = got[m]["turn"]]_vars
  <2> SUFFICES ASSUME IInv, Ledger, [Next]_vars, NEW m \in Msgs \ InboxMsgs,
                      "parked" \in settled[m], "resent" \notin settled[m]
               PROVE  got'[m]["turn"] = got[m]["turn"]
    OBVIOUS
  <2>1. StepKind /\ Rests(m) /\ OnPaths /\ got \in Gots
    BY Kinds DEF IInv, Ledger, ParkedRests, NamedTypes
  <2>2. CASE got' = got
    BY <2>2
  <2>3. CASE CollectTake
    BY <2>3 DEF CollectTake
  <2>4. ASSUME NEW n \in Msgs, Starts(n) PROVE got'[m]["turn"] = got[m]["turn"]
    <3>1. n # m
      BY <2>1, <2>4 DEF Starts, Rests, Early
    <3> QED
      BY <2>1, <2>4, <3>1, ReachesEffect DEF Starts, Routes
  <2>5. ASSUME NEW q \in Rows, NEW via \in Routes \ {"turn"}, Reaches(Msg(q), via)
        PROVE  got'[m]["turn"] = got[m]["turn"]
    BY <2>1, <2>5, ReachesEffect, Sorts DEF Routes
  <2>6. ASSUME NEW q \in Rows, NEW via \in Routes \ {"inbox"}, Delivers(q, via)
        PROVE  got'[m]["turn"] = got[m]["turn"]
    <3>1. Reaches(Msg(q), via) /\ Route(via, claim[q].pc, claim'[q].pc)
      BY <2>6 DEF Delivers
    <3>2. CASE via # "turn"
      BY <2>5, <3>1, <3>2
    <3>3. CASE via = "turn"
      <4>1. claim[q].pc = "sending"
        BY <3>1, <3>3 DEF Route
      <4>2. Msg(q) # m
        BY <2>1, <4>1 DEF Rests, Of, Unasked, OnPaths, OnPath, Steerers, SteerPcs
      <4> QED
        BY <2>1, <3>1, <4>2, ReachesEffect, Sorts
    <3> QED
      BY <3>2, <3>3
  <2>7. ASSUME NEW q \in Rows, ClaimKind(q) \/ TakeKind(q) PROVE got'[m]["turn"] = got[m]["turn"]
    <3>1. "steer" \in Routes \ {"turn"}
      BY DEF Routes
    <3> QED
      BY <2>2, <2>5, <2>6, <2>7, <3>1 DEF ClaimKind, TakeKind, Takes, Progresses, Asks, Restores, Retires, Requeues
  <2>8. ASSUME NEW n \in Msgs, SenderKind(n) PROVE got'[m]["turn"] = got[m]["turn"]
    BY <2>2, <2>4, <2>8 DEF SenderKind, Begins, Leaves, Enqueues
  <2>9. CASE Quiets \/ Sweeps \/ Crash
    BY <2>2, <2>9 DEF Quiets, Sweeps, Crash
  <2> QED
    BY <2>1, <2>3, <2>7, <2>8, <2>9 DEF StepKind
<1> QED
  BY <1>1, Invariant, LedgerHolds, PTL DEF Spec, ParkedStays

(* Until a person picks a row or the app crashes, an agent's message that a *)
(* turn took is no longer offered by its inbox once its sender and its      *)
(* drains are done with it, however they and the agent's inbox_read meet.   *)
THEOREM TakenMessagesClose == Spec => []TakenClosesInbox
<1>1. IInv /\ Ledger => TakenClosesInbox
  <2> SUFFICES ASSUME IInv, Ledger, NEW m \in InboxMsgs, Undisturbed,
                      got[m]["turn"] + got[m]["sibling"] > 0, ~Delivering(m)
               PROVE  inbox[m] # "open"
    BY DEF TakenClosesInbox
  <2>1. Calm(m) /\ m \in Msgs
    BY ConstantsAssumption DEF Ledger, CalmUntil, ConstantsAssumption
  <2>2. got[m]["turn"] > 0
    BY <2>1 DEF Calm, IInv, NamedTypes, Gots, Routes
  <2>3. ~Closing(m)
    BY DEF Delivering, Closing, Of
  <2> QED
    BY <2>1, <2>2, <2>3 DEF Calm
<1> QED
  BY <1>1, Invariant, LedgerHolds, PTL
=============================================================================
