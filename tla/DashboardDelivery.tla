------------------------- MODULE DashboardDelivery -------------------------
(***************************************************************************)
(* How a committed change reaches the window: DashboardDelivery of         *)
(* src/src-tauri/src/lib.rs, the worker that batches its queue, and the    *)
(* reads of src/src/renderer/hooks/useDashboardSession.ts.                 *)
(*                                                                         *)
(* A change is committed to the database before it is published, and what  *)
(* is published is a hint: which session, or the dashboard, to read again. *)
(* A full queue sets a resync flag instead, which makes the worker throw   *)
(* the queue away and tell the window to read everything.  Every atomic    *)
(* load, swap and channel call is a step; a hint names one feed.           *)
(***************************************************************************)
EXTENDS Naturals, Sequences

CONSTANTS
  Producers,    \* tasks and threads that publish deltas
  Sessions,     \* chats whose transcript the window shows
  Dashboard,    \* the feed of projects, workspaces, sessions and approvals
  Capacity,     \* DASHBOARD_DELIVERY_ITEMS
  MaxUpdates,   \* bound on the changes published
  MaxRefusals,  \* bound on deltas the byte budget refuses
  MaxFailures   \* bound on reads that fail

ASSUME ConstantsAssumption ==
  /\ Dashboard \notin Sessions
  /\ Capacity \in Nat \ {0}
  /\ {MaxUpdates, MaxRefusals, MaxFailures} \subseteq Nat

Feeds == Sessions \cup {Dashboard}

VARIABLES
  committed,       \* the revision of each feed in the database
  prod,            \* per producer: where it is in send, for which feed, under which tag
  queue,           \* the mpsc channel
  resyncRequired,
  generation,
  workerPc,        \* where the worker is in its loop and in prepare_dashboard_batch
  held,            \* the item it started from
  seen,            \* the generation it loaded
  batch,           \* the delta it assembles
  deferred,        \* the item left for its next batch: at most one
  read,            \* per feed: the read under way in the window
  dirty,           \* per feed: it was asked for again meanwhile
  valid,           \* per feed: no recovery has invalidated that read
  answer,          \* per feed: the revision it was answered with
  recovery,        \* recoverDashboard: idle, due, or the phase it is in
  requested,       \* it was asked for again meanwhile
  shown,           \* the revision of each feed the window shows
  budget,          \* what is left of the bounds
  wakeLost         \* history: the Wake of an overflow whose flag is down came to nothing

queueVars    == <<queue, resyncRequired, generation>>
workerVars   == <<workerPc, held, seen, batch, deferred>>
readVars     == <<read, dirty, valid, answer>>
recoveryVars == <<recovery, requested>>
windowVars   == <<readVars, recoveryVars, shown>>
vars == <<committed, prod, queueVars, workerVars, windowVars, budget, wakeLost>>

(* A Wake remembers, for wakeLost, whether its sender advanced the generation. *)
Wake(bumped) == [wake |-> TRUE, bumped |-> bumped]
Hint(f, g) == [wake |-> FALSE, feed |-> f, gen |-> g]
Items == [wake : {TRUE}, bumped : BOOLEAN] \cup [wake : {FALSE}, feed : Feeds, gen : Nat]

NoBatch == [feeds |-> {}, resync |-> FALSE]
ResyncMarker == [feeds |-> {}, resync |-> TRUE]

ProducerPcs == {"idle", "look", "tag", "check", "compare", "put", "flag", "bump", "wake"}
WorkerPcs   == {"recv", "first", "drain", "load", "conflate", "recheck", "redrain", "emit"}

TypeOK ==
  /\ committed \in [Feeds -> Nat] /\ shown \in [Feeds -> Nat]
  /\ prod \in [Producers -> [pc : ProducerPcs, feed : Feeds, gen : Nat, bumped : BOOLEAN]]
  /\ queue \in Seq(Items) /\ Len(queue) <= Capacity
  /\ resyncRequired \in BOOLEAN /\ generation \in Nat
  /\ workerPc \in WorkerPcs /\ held \in Items /\ seen \in Nat
  /\ batch \in [feeds : SUBSET Feeds, resync : BOOLEAN]
  /\ deferred \in Seq(Items) /\ Len(deferred) <= 1
  /\ read \in [Feeds -> {"idle", "waiting", "asked", "answered"}]
  /\ dirty \in [Feeds -> BOOLEAN] /\ valid \in [Feeds -> BOOLEAN] /\ answer \in [Feeds -> Nat]
  /\ recovery \in {"idle", "due", "metadata", "transcripts"} /\ requested \in BOOLEAN
  /\ budget \in [{"updates", "refusals", "failures"} -> Nat]
  /\ wakeLost \in BOOLEAN

Init ==
  /\ committed = [f \in Feeds |-> 0] /\ shown = [f \in Feeds |-> 0]
  /\ prod = [p \in Producers |-> [pc |-> "idle", feed |-> Dashboard, gen |-> 0, bumped |-> FALSE]]
  /\ queue = <<>> /\ resyncRequired = FALSE /\ generation = 0
  /\ workerPc = "recv" /\ held = Wake(FALSE) /\ seen = 0
  /\ batch = NoBatch /\ deferred = <<>>
  /\ read = [f \in Feeds |-> "idle"]
  /\ dirty = [f \in Feeds |-> FALSE] /\ valid = [f \in Feeds |-> TRUE]
  /\ answer = [f \in Feeds |-> 0]
  /\ recovery = "idle" /\ requested = FALSE
  /\ budget = [updates |-> MaxUpdates, refusals |-> MaxRefusals, failures |-> MaxFailures]
  /\ wakeLost = FALSE

Spend(kind) == budget[kind] > 0 /\ budget' = [budget EXCEPT ![kind] = @ - 1]

-----------------------------------------------------------------------------
(* DashboardDelivery::send                                                 *)

At(p, pc) == prod[p].pc = pc
Goes(p, pc) == prod' = [prod EXCEPT ![p].pc = pc]

(* The change is durable before its hint is published. *)
Publish(p) ==
  /\ At(p, "idle")
  /\ Spend("updates")
  /\ \E f \in Feeds :
       /\ committed' = [committed EXCEPT ![f] = @ + 1]
       /\ prod' = [prod EXCEPT ![p].pc = "look", ![p].feed = f]
  /\ UNCHANGED <<queueVars, workerVars, windowVars, wakeLost>>

SendLooks(p) ==
  /\ At(p, "look")
  /\ Goes(p, IF resyncRequired THEN "idle" ELSE "tag")
  /\ UNCHANGED <<committed, queueVars, workerVars, windowVars, budget, wakeLost>>

SendTags(p) ==
  /\ At(p, "tag")
  /\ \/ prod' = [prod EXCEPT ![p].pc = "check", ![p].gen = generation] /\ UNCHANGED budget
     \/ Spend("refusals") /\ Goes(p, "flag")
  /\ UNCHANGED <<committed, queueVars, workerVars, windowVars, wakeLost>>

SendChecks(p) ==
  /\ At(p, "check")
  /\ Goes(p, IF resyncRequired THEN "idle" ELSE "compare")
  /\ UNCHANGED <<committed, queueVars, workerVars, windowVars, budget, wakeLost>>

SendCompares(p) ==
  /\ At(p, "compare")
  /\ Goes(p, IF generation = prod[p].gen THEN "put" ELSE "idle")
  /\ UNCHANGED <<committed, queueVars, workerVars, windowVars, budget, wakeLost>>

SendPutsUnbounded(p) ==
  /\ At(p, "put")
  /\ queue' = Append(queue, Hint(prod[p].feed, prod[p].gen))
  /\ Goes(p, "idle")
  /\ UNCHANGED <<committed, resyncRequired, generation, workerVars, windowVars, budget, wakeLost>>

SendPuts(p) ==
  /\ At(p, "put")
  /\ IF Len(queue) < Capacity
       THEN queue' = Append(queue, Hint(prod[p].feed, prod[p].gen)) /\ Goes(p, "idle")
       ELSE Goes(p, "flag") /\ UNCHANGED queue
  /\ UNCHANGED <<committed, resyncRequired, generation, workerVars, windowVars, budget, wakeLost>>

(* require_resync: swap the flag, advance the generation, wake the worker. *)
ResyncFlags(p) ==
  /\ At(p, "flag")
  /\ resyncRequired' = TRUE
  /\ prod' = [prod EXCEPT ![p].pc = IF resyncRequired THEN "wake" ELSE "bump",
                          ![p].bumped = ~resyncRequired]
  /\ UNCHANGED <<committed, queue, generation, workerVars, windowVars, budget, wakeLost>>

ResyncBumps(p) ==
  /\ At(p, "bump")
  /\ generation' = generation + 1
  /\ Goes(p, "wake")
  /\ UNCHANGED <<committed, queue, resyncRequired, workerVars, windowVars, budget, wakeLost>>

ResyncWakes(p) ==
  /\ At(p, "wake")
  /\ IF Len(queue) < Capacity
       THEN queue' = Append(queue, Wake(prod[p].bumped)) /\ UNCHANGED wakeLost
       ELSE /\ wakeLost' = (wakeLost \/ (prod[p].bumped /\ ~resyncRequired))
            /\ UNCHANGED queue
  /\ prod' = [prod EXCEPT ![p].pc = "idle", ![p].bumped = FALSE]
  /\ UNCHANGED <<committed, resyncRequired, generation, workerVars, windowVars, budget>>

-----------------------------------------------------------------------------
(* The worker: take an item, prepare_dashboard_batch, emit                 *)

Tagged(item, g) == IF item.wake THEN FALSE ELSE item.gen = g
Popped == queue # <<>> /\ queue' = Tail(queue)

WorkerReceives ==
  /\ workerPc = "recv"
  /\ \/ deferred # <<>> /\ held' = Head(deferred) /\ deferred' = <<>> /\ UNCHANGED queue
     \/ deferred = <<>> /\ Popped /\ held' = Head(queue) /\ UNCHANGED deferred
  /\ workerPc' = "first"
  /\ UNCHANGED <<committed, prod, resyncRequired, generation, seen, batch, windowVars, budget, wakeLost>>

WorkerLooks ==
  /\ workerPc = "first"
  /\ resyncRequired' = FALSE
  /\ IF resyncRequired THEN workerPc' = "drain" /\ held' = Wake(FALSE)
                       ELSE workerPc' = "load" /\ UNCHANGED held
  /\ UNCHANGED <<committed, prod, queue, generation, seen, batch, deferred, windowVars, budget, wakeLost>>

WorkerDrains ==
  /\ \/ workerPc \in {"drain", "redrain"} /\ Popped /\ UNCHANGED workerPc
     \/ workerPc = "drain" /\ queue = <<>> /\ workerPc' = "load" /\ UNCHANGED queue
     \/ workerPc = "redrain" /\ queue = <<>> /\ workerPc' = "emit" /\ UNCHANGED queue
  /\ UNCHANGED <<committed, prod, resyncRequired, generation, held, seen, batch, deferred,
                 windowVars, budget, wakeLost>>

(* A hint tagged before the last overflow is dropped. *)
WorkerLoads ==
  /\ workerPc = "load"
  /\ seen' = generation
  /\ IF held.wake THEN batch' = ResyncMarker /\ workerPc' = "conflate"
     ELSE IF Tagged(held, generation)
       THEN batch' = [feeds |-> {held.feed}, resync |-> FALSE] /\ workerPc' = "conflate"
       ELSE workerPc' = "recv" /\ UNCHANGED batch
  /\ UNCHANGED <<committed, prod, queueVars, held, deferred, windowVars, budget, wakeLost>>

(* Hints are folded into the batch until it is large enough, or until the  *)
(* next one, kept for later, would make it too large.  Hints of another    *)
(* generation are passed over, and so is a Wake: a batch that is no marker *)
(* does not become one.                                                    *)
WorkerConflates ==
  /\ workerPc = "conflate"
  /\ Popped
  /\ LET item == Head(queue) IN
       \/ ~Tagged(item, seen) /\ UNCHANGED <<batch, deferred, workerPc>>
       \/ /\ Tagged(item, seen)
          /\ \/ /\ batch' = [batch EXCEPT !.feeds = @ \cup {item.feed}]
                /\ UNCHANGED <<deferred, workerPc>>
             \/ /\ batch.feeds # {}
                /\ deferred' = <<item>> /\ workerPc' = "recheck"
                /\ UNCHANGED batch
  /\ wakeLost' = (wakeLost \/ (Head(queue) = Wake(TRUE) /\ ~batch.resync /\ ~resyncRequired))
  /\ UNCHANGED <<committed, prod, resyncRequired, generation, held, seen, windowVars, budget>>

WorkerHasBatch ==
  /\ workerPc = "conflate"
  /\ queue = <<>> \/ batch.feeds # {}
  /\ workerPc' = "recheck"
  /\ UNCHANGED <<committed, prod, queueVars, held, seen, batch, deferred, windowVars, budget, wakeLost>>

WorkerRechecksUnmarked ==
  /\ workerPc = "recheck"
  /\ resyncRequired' = FALSE
  /\ IF resyncRequired THEN workerPc' = "redrain" /\ deferred' = <<>>
                       ELSE workerPc' = "emit" /\ UNCHANGED deferred
  /\ UNCHANGED <<committed, prod, queue, generation, held, seen, batch, windowVars, budget, wakeLost>>

WorkerRechecks ==
  /\ workerPc = "recheck"
  /\ resyncRequired' = FALSE
  /\ IF resyncRequired
       THEN workerPc' = "redrain" /\ batch' = ResyncMarker /\ deferred' = <<>>
       ELSE workerPc' = "emit" /\ UNCHANGED <<batch, deferred>>
  /\ UNCHANGED <<committed, prod, queue, generation, held, seen, windowVars, budget, wakeLost>>

-----------------------------------------------------------------------------
(* The window                                                              *)

(* loadMetadata and loadHintedSession: one read of a feed at a time; asked  *)
(* for again meanwhile, it is repeated.  loadMetadata waits 100 ms first.   *)
FirstState(f) == IF f = Dashboard THEN "waiting" ELSE "asked"
Asks(feeds) ==
  /\ read'  = [f \in Feeds |-> IF f \in feeds /\ read[f] = "idle" THEN FirstState(f) ELSE read[f]]
  /\ dirty' = [f \in Feeds |-> dirty[f] \/ (f \in feeds /\ read[f] # "idle")]

(* recoverDashboard runs to its first await within the call that asks for   *)
(* it; here its start is a step of its own.                                 *)
RecoveryAsked ==
  /\ recovery'  = IF recovery = "idle" THEN "due" ELSE recovery
  /\ requested' = (requested \/ recovery \in {"metadata", "transcripts"})

(* onDelta.  A marker's dashboard read is left to the recovery.  What the   *)
(* worker emitted it forgets.                                               *)
Emit ==
  /\ workerPc = "emit"
  /\ workerPc' = "recv" /\ held' = Wake(FALSE) /\ seen' = 0 /\ batch' = NoBatch
  /\ Asks(IF batch.resync THEN batch.feeds \ {Dashboard} ELSE batch.feeds)
  /\ IF batch.resync THEN RecoveryAsked ELSE UNCHANGED recoveryVars
  /\ UNCHANGED <<committed, prod, queueVars, deferred, valid, answer, shown, budget, wakeLost>>

MetadataWaited ==
  /\ read[Dashboard] = "waiting"
  /\ read' = [read EXCEPT ![Dashboard] = "asked"]
  /\ dirty' = [dirty EXCEPT ![Dashboard] = FALSE]
  /\ UNCHANGED <<committed, prod, queueVars, workerVars, valid, answer, recoveryVars, shown, budget, wakeLost>>

ReadAnswered(f) ==
  /\ read[f] = "asked"
  /\ read' = [read EXCEPT ![f] = "answered"]
  /\ answer' = [answer EXCEPT ![f] = committed[f]]
  /\ UNCHANGED <<committed, prod, queueVars, workerVars, dirty, valid, recoveryVars, shown, budget, wakeLost>>

(* finishRead rejects the answer to an invalidated read. *)
ReadApplied(f) ==
  /\ read[f] = "answered"
  /\ shown' = [shown EXCEPT ![f] = IF valid[f] THEN answer[f] ELSE @]
  /\ read' = [read EXCEPT ![f] = IF dirty[f] THEN FirstState(f) ELSE "idle"]
  /\ dirty' = [dirty EXCEPT ![f] = FALSE]
  /\ valid' = [valid EXCEPT ![f] = TRUE]
  /\ UNCHANGED <<committed, prod, queueVars, workerVars, answer, recoveryVars, budget, wakeLost>>

(* Whoever waits for a failed read recovers: the recovery itself is tried   *)
(* again after a second, a hint asks for one.                               *)
AwaitedByRecovery(f) == recovery = IF f = Dashboard THEN "metadata" ELSE "transcripts"

ReadFailsUnnoticed(f) ==
  /\ read[f] = "asked"
  /\ Spend("failures")
  /\ read' = [read EXCEPT ![f] = "idle"] /\ dirty' = [dirty EXCEPT ![f] = FALSE]
  /\ valid' = [valid EXCEPT ![f] = TRUE]
  /\ UNCHANGED <<committed, prod, queueVars, workerVars, answer, recoveryVars, shown, wakeLost>>

ReadFails(f) ==
  /\ read[f] = "asked"
  /\ Spend("failures")
  /\ read' = [read EXCEPT ![f] = "idle"] /\ dirty' = [dirty EXCEPT ![f] = FALSE]
  /\ valid' = [valid EXCEPT ![f] = TRUE]
  /\ IF AwaitedByRecovery(f) THEN recovery' = "due" /\ UNCHANGED requested ELSE RecoveryAsked
  /\ UNCHANGED <<committed, prod, queueVars, workerVars, answer, shown, wakeLost>>

(* Reads of transcripts begun before the recovery are rejected. *)
RecoveryBegins ==
  /\ recovery = "due" \/ (recovery = "transcripts" /\ requested /\ \A f \in Sessions : read[f] = "idle")
  /\ recovery' = "metadata" /\ requested' = FALSE
  /\ valid' = [f \in Feeds |-> f = Dashboard \/ read[f] = "idle"]
  /\ Asks({Dashboard})
  /\ UNCHANGED <<committed, prod, queueVars, workerVars, answer, shown, budget, wakeLost>>

RecoveryReads ==
  /\ recovery = "metadata" /\ read[Dashboard] = "idle"
  /\ recovery' = "transcripts"
  /\ Asks(Sessions)
  /\ UNCHANGED <<committed, prod, queueVars, workerVars, valid, answer, requested, shown, budget, wakeLost>>

RecoveryEnds ==
  /\ recovery = "transcripts" /\ ~requested
  /\ \A f \in Sessions : read[f] = "idle"
  /\ recovery' = "idle"
  /\ UNCHANGED <<committed, prod, queueVars, workerVars, readVars, requested, shown, budget, wakeLost>>

-----------------------------------------------------------------------------
SendStep(p) == SendLooks(p) \/ SendTags(p) \/ SendChecks(p) \/ SendCompares(p) \/ SendPuts(p)
               \/ ResyncFlags(p) \/ ResyncBumps(p) \/ ResyncWakes(p)

WorkerStep == WorkerReceives \/ WorkerLooks \/ WorkerDrains \/ WorkerLoads \/ WorkerConflates
              \/ WorkerHasBatch \/ WorkerRechecks \/ Emit

ReadStep(f) == ReadAnswered(f) \/ ReadApplied(f)
RecoveryStep == RecoveryBegins \/ RecoveryReads \/ RecoveryEnds

Next ==
  \/ \E p \in Producers : Publish(p) \/ SendStep(p)
  \/ WorkerStep
  \/ \E f \in Feeds : ReadStep(f) \/ ReadFails(f)
  \/ MetadataWaited \/ RecoveryStep

Spec == Init /\ [][Next]_vars

(* A send, the worker and the window's reads and recovery run to their end; *)
(* nothing is published and nothing fails for fairness' sake.               *)
FairSpec ==
  /\ Spec
  /\ \A p \in Producers : WF_vars(SendStep(p))
  /\ WF_vars(WorkerStep)
  /\ \A f \in Feeds : WF_vars(ReadStep(f))
  /\ WF_vars(MetadataWaited) /\ WF_vars(RecoveryStep)

-----------------------------------------------------------------------------
(* Properties                                                              *)

(* Nothing is under way between the database and the window. *)
Quiet ==
  /\ \A p \in Producers : At(p, "idle")
  /\ queue = <<>> /\ workerPc = "recv" /\ deferred = <<>>
  /\ \A f \in Feeds : read[f] = "idle"
  /\ recovery = "idle"

CaughtUp == \A f \in Feeds : shown[f] = committed[f]

(* Once the queue and the window are quiet, the window shows what the       *)
(* database holds, whatever overflowed, went stale or failed on the way;    *)
(* except after the accidents of the README, a Wake that is lost and a flag *)
(* that stays up.                                                           *)
QuietCaughtUp == Quiet /\ ~resyncRequired /\ ~wakeLost => CaughtUp

(* The same as progress: the window catches up in the end.                  *)
Stuck == Quiet /\ resyncRequired
WindowCatchesUp == <>[](CaughtUp \/ Stuck \/ wakeLost)

(* Stated by the documentation and refuted by the code, see README.         *)
(* An overflow is recoverable: its flag is taken down by the marker.        *)
OverflowRecovers == resyncRequired ~> ~resyncRequired
=============================================================================
