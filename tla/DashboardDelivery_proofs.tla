---------------------- MODULE DashboardDelivery_proofs ----------------------
(***************************************************************************)
(* The dashboard push for any producers, feeds, queue length and bounds:   *)
(* types, and that a window at rest shows what is committed.               *)
(***************************************************************************)
EXTENDS DashboardDelivery, TLAPS

-----------------------------------------------------------------------------
(* Types                                                                   *)

Prods   == [pc : ProducerPcs, feed : Feeds, gen : Nat, bumped : BOOLEAN]
Batches == [feeds : SUBSET Feeds, resync : BOOLEAN]
Budgets == [{"updates", "refusals", "failures"} -> Nat]
Reads   == {"idle", "waiting", "asked", "answered"}

LEMMA WakeType == \A b \in BOOLEAN : Wake(b) \in Items /\ Wake(b).wake
BY DEF Wake, Items

LEMMA HintType == \A f \in Feeds, g \in Nat : Hint(f, g) \in Items /\ Hint(f, g).wake = FALSE
BY DEF Hint, Items

(* What a queue holds, after an item came or went *)
In(s, item) == \E i \in 1..Len(s) : s[i] = item

LEMMA AppendIn ==
  ASSUME NEW s \in Seq(Items), NEW item \in Items
  PROVE  /\ Append(s, item) \in Seq(Items) /\ Len(Append(s, item)) = Len(s) + 1
         /\ In(Append(s, item), item)
         /\ \A x : In(s, x) => In(Append(s, item), x)
BY DEF In

LEMMA ShortSeqs ==
  /\ <<>> \in Seq(Items) /\ Len(<<>>) <= 1
  /\ \A item \in Items : <<item>> \in Seq(Items) /\ Len(<<item>>) <= 1
OBVIOUS

LEMMA BatchTypes == NoBatch \in Batches /\ ResyncMarker \in Batches
BY DEF NoBatch, ResyncMarker, Batches

LEMMA TailIn ==
  ASSUME NEW s \in Seq(Items), s # <<>>
  PROVE  /\ Tail(s) \in Seq(Items) /\ Len(Tail(s)) = Len(s) - 1 /\ Len(s) > 0 /\ Head(s) \in Items
         /\ \A x : In(s, x) => x = Head(s) \/ In(Tail(s), x)
<1>1. Tail(s) \in Seq(Items) /\ Len(Tail(s)) = Len(s) - 1 /\ Len(s) > 0 /\ Head(s) \in Items /\ Head(s) = s[1]
  OBVIOUS
<1>2. ASSUME NEW x, NEW i \in 1..Len(s), s[i] = x, i # 1 PROVE In(Tail(s), x)
  <2>1. i - 1 \in 1..Len(Tail(s)) /\ Tail(s)[i - 1] = s[i]
    BY <1>1, <1>2
  <2> QED
    BY <1>2, <2>1 DEF In
<1> QED
  BY <1>1, <1>2 DEF In

(* A producer moves on, and only that producer. *)
OnlyProd(p) == \A q \in Producers \ {p} : prod'[q] = prod[q]
Moves(p, pc) ==
  /\ prod' \in [Producers -> Prods] /\ OnlyProd(p)
  /\ prod'[p].pc = pc

LEMMA GoesEffect ==
  ASSUME prod \in [Producers -> Prods], NEW p \in Producers, NEW pc \in ProducerPcs, Goes(p, pc)
  PROVE  Moves(p, pc) /\ prod'[p].feed = prod[p].feed /\ prod'[p].gen = prod[p].gen
         /\ prod'[p].bumped = prod[p].bumped
BY DEF Goes, Moves, OnlyProd, Prods

LEMMA PublishEffect ==
  ASSUME prod \in [Producers -> Prods], NEW p \in Producers, NEW f \in Feeds,
         prod' = [prod EXCEPT ![p].pc = "look", ![p].feed = f]
  PROVE  Moves(p, "look") /\ prod'[p].feed = f
BY DEF Moves, OnlyProd, Prods, ProducerPcs

LEMMA TagEffect ==
  ASSUME prod \in [Producers -> Prods], NEW p \in Producers, NEW g \in Nat,
         prod' = [prod EXCEPT ![p].pc = "check", ![p].gen = g]
  PROVE  Moves(p, "check") /\ prod'[p].feed = prod[p].feed /\ prod'[p].gen = g
BY DEF Moves, OnlyProd, Prods, ProducerPcs

LEMMA BumpedEffect ==
  ASSUME prod \in [Producers -> Prods], NEW p \in Producers, NEW pc \in ProducerPcs, NEW b \in BOOLEAN,
         prod' = [prod EXCEPT ![p].pc = pc, ![p].bumped = b]
  PROVE  Moves(p, pc) /\ prod'[p].bumped = b
BY DEF Moves, OnlyProd, Prods

LEMMA SpendType ==
  ASSUME budget \in Budgets, NEW kind \in {"updates", "refusals", "failures"}, Spend(kind)
  PROVE  budget' \in Budgets
BY DEF Spend, Budgets

(* Types, with the sets under their names *)
QueueTypes ==
  /\ committed \in [Feeds -> Nat] /\ prod \in [Producers -> Prods]
  /\ queue \in Seq(Items) /\ Len(queue) <= Capacity
  /\ resyncRequired \in BOOLEAN /\ generation \in Nat
  /\ budget \in Budgets /\ wakeLost \in BOOLEAN
WorkerTypes ==
  /\ workerPc \in WorkerPcs /\ held \in Items /\ seen \in Nat /\ batch \in Batches
  /\ deferred \in Seq(Items) /\ Len(deferred) <= 1
WindowTypes ==
  /\ read \in [Feeds -> Reads] /\ dirty \in [Feeds -> BOOLEAN] /\ valid \in [Feeds -> BOOLEAN]
  /\ answer \in [Feeds -> Nat] /\ shown \in [Feeds -> Nat]
  /\ recovery \in {"idle", "due", "metadata", "transcripts"} /\ requested \in BOOLEAN
NamedTypes == QueueTypes /\ WorkerTypes /\ WindowTypes

LEMMA TypesNamed == TypeOK <=> NamedTypes
BY DEF TypeOK, NamedTypes, QueueTypes, WorkerTypes, WindowTypes, Prods, Batches, Budgets, Reads

LEMMA InitTypes == Init => NamedTypes
<1> SUFFICES ASSUME Init PROVE NamedTypes
  OBVIOUS
<1>0. Dashboard \in Feeds
  BY DEF Feeds
<1>1. QueueTypes
  <2>1. prod \in [Producers -> Prods]
    BY <1>0 DEF Init, Prods, ProducerPcs
  <2>2. queue \in Seq(Items) /\ Len(queue) <= Capacity
    BY ConstantsAssumption DEF Init, ConstantsAssumption
  <2>3. budget \in Budgets
    BY ConstantsAssumption DEF Init, Budgets, ConstantsAssumption
  <2> QED
    BY <2>1, <2>2, <2>3 DEF Init, QueueTypes
<1>2. WorkerTypes
  <2>1. held \in Items
    BY WakeType DEF Init
  <2>2. deferred \in Seq(Items) /\ Len(deferred) <= 1
    BY DEF Init
  <2>3. batch \in Batches /\ workerPc \in WorkerPcs /\ seen \in Nat
    BY DEF Init, Batches, NoBatch, WorkerPcs
  <2> QED
    BY <2>1, <2>2, <2>3 DEF WorkerTypes
<1>3. WindowTypes
  BY DEF Init, WindowTypes, Reads
<1> QED
  BY <1>1, <1>2, <1>3 DEF NamedTypes

LEMMA ProducerTypes ==
  ASSUME NamedTypes, NEW p \in Producers, Publish(p) \/ SendStep(p)
  PROVE  NamedTypes'
<1> USE DEF queueVars, workerVars, readVars, recoveryVars, windowVars
<1>0. /\ prod \in [Producers -> Prods] /\ queue \in Seq(Items) /\ generation \in Nat /\ Len(queue) <= Capacity
      /\ committed \in [Feeds -> Nat] /\ budget \in Budgets /\ resyncRequired \in BOOLEAN /\ wakeLost \in BOOLEAN
      /\ prod[p].feed \in Feeds /\ prod[p].gen \in Nat /\ prod[p].bumped \in BOOLEAN
  BY DEF NamedTypes, QueueTypes, Prods
<1>1. (WorkerTypes /\ WindowTypes)'
  <2>1. UNCHANGED <<workerVars, windowVars>>
    BY DEF Publish, SendStep, SendLooks, SendTags, SendChecks, SendCompares, SendPuts, ResyncFlags,
       ResyncBumps, ResyncWakes
  <2> QED
    BY <2>1 DEF NamedTypes, WorkerTypes, WindowTypes
<1>2. ASSUME NEW pc \in ProducerPcs, Goes(p, pc) PROVE prod' \in [Producers -> Prods]
  BY <1>0, <1>2, GoesEffect DEF Moves
<1>3. CASE Publish(p)
  <2>1. PICK f \in Feeds : /\ committed' = [committed EXCEPT ![f] = @ + 1]
                           /\ prod' = [prod EXCEPT ![p].pc = "look", ![p].feed = f]
    BY <1>3 DEF Publish
  <2>2. prod' \in [Producers -> Prods]
    BY <1>0, <2>1, PublishEffect DEF Moves
  <2>c. committed' \in [Feeds -> Nat]
    BY <1>0, <2>1
  <2>3. budget' \in Budgets
    BY <1>0, <1>3, SpendType DEF Publish
  <2> QED
    BY <1>0, <1>1, <1>3, <2>2, <2>c, <2>3 DEF Publish, NamedTypes, QueueTypes
<1>4. CASE SendLooks(p) \/ SendChecks(p) \/ SendCompares(p)
  <2>1. prod' \in [Producers -> Prods]
    BY <1>2, <1>4 DEF SendLooks, SendChecks, SendCompares, ProducerPcs
  <2> QED
    BY <1>0, <1>1, <1>4, <2>1 DEF SendLooks, SendChecks, SendCompares, NamedTypes, QueueTypes
<1>5. CASE SendTags(p)
  <2>1. prod' \in [Producers -> Prods]
    BY <1>0, <1>2, <1>5, TagEffect DEF SendTags, ProducerPcs, Moves
  <2>2. budget' \in Budgets
    BY <1>0, <1>5, SpendType DEF SendTags
  <2> QED
    BY <1>0, <1>1, <1>5, <2>1, <2>2 DEF SendTags, NamedTypes, QueueTypes
<1>6. CASE SendPuts(p)
  <2>1. prod' \in [Producers -> Prods]
    BY <1>2, <1>6 DEF SendPuts, ProducerPcs
  <2>2. queue' \in Seq(Items) /\ Len(queue') <= Capacity
    <3>1. Hint(prod[p].feed, prod[p].gen) \in Items
      BY <1>0, HintType
    <3>2. CASE Len(queue) < Capacity
      <4>1. queue' = Append(queue, Hint(prod[p].feed, prod[p].gen))
        BY <1>6, <3>2 DEF SendPuts
      <4> QED
        BY <1>0, <3>1, <3>2, <4>1, AppendIn, ConstantsAssumption DEF ConstantsAssumption
    <3>3. CASE ~(Len(queue) < Capacity)
      BY <1>0, <1>6, <3>3 DEF SendPuts
    <3> QED
      BY <3>2, <3>3
  <2> QED
    BY <1>0, <1>1, <1>6, <2>1, <2>2 DEF SendPuts, NamedTypes, QueueTypes
<1>7. CASE ResyncFlags(p)
  <2>1. prod' \in [Producers -> Prods]
    <3>1. (IF resyncRequired THEN "wake" ELSE "bump") \in ProducerPcs /\ (~resyncRequired) \in BOOLEAN
      BY DEF ProducerPcs
    <3> QED
      BY <1>0, <1>7, <3>1, BumpedEffect DEF ResyncFlags, Moves
  <2> QED
    BY <1>0, <1>1, <1>7, <2>1 DEF ResyncFlags, NamedTypes, QueueTypes
<1>8. CASE ResyncBumps(p)
  <2>1. prod' \in [Producers -> Prods]
    BY <1>2, <1>8 DEF ResyncBumps, ProducerPcs
  <2> QED
    BY <1>0, <1>1, <1>8, <2>1 DEF ResyncBumps, NamedTypes, QueueTypes
<1>9. CASE ResyncWakes(p)
  <2>1. prod' \in [Producers -> Prods]
    BY <1>0, <1>9, BumpedEffect DEF ResyncWakes, ProducerPcs, Moves
  <2>2. queue' \in Seq(Items) /\ Len(queue') <= Capacity
    <3>1. Wake(prod[p].bumped) \in Items
      BY <1>0, WakeType
    <3>2. CASE Len(queue) < Capacity
      <4>1. queue' = Append(queue, Wake(prod[p].bumped))
        BY <1>9, <3>2 DEF ResyncWakes
      <4> QED
        BY <1>0, <3>1, <3>2, <4>1, AppendIn, ConstantsAssumption DEF ConstantsAssumption
    <3>3. CASE ~(Len(queue) < Capacity)
      BY <1>0, <1>9, <3>3 DEF ResyncWakes
    <3> QED
      BY <3>2, <3>3
  <2> QED
    BY <1>0, <1>1, <1>9, <2>1, <2>2 DEF ResyncWakes, NamedTypes, QueueTypes
<1> QED
  BY <1>3, <1>4, <1>5, <1>6, <1>7, <1>8, <1>9 DEF SendStep

(* What asking for feeds does to the reads *)
LEMMA AsksEffect ==
  ASSUME WindowTypes, NEW feeds, Asks(feeds)
  PROVE  /\ read' \in [Feeds -> Reads] /\ dirty' \in [Feeds -> BOOLEAN]
         /\ \A f \in Feeds : read'[f] = IF f \in feeds /\ read[f] = "idle" THEN FirstState(f) ELSE read[f]
         /\ \A f \in Feeds : dirty'[f] = (dirty[f] \/ (f \in feeds /\ read[f] # "idle"))
<1>1. \A f \in Feeds : FirstState(f) \in Reads
  BY DEF FirstState, Reads
<1> QED
  BY <1>1 DEF Asks, WindowTypes

LEMMA WorkerStepTypes ==
  ASSUME NamedTypes, WorkerStep
  PROVE  NamedTypes'
<1> USE DEF queueVars, workerVars, readVars, recoveryVars, windowVars
<1>0. /\ queue \in Seq(Items) /\ Len(queue) <= Capacity /\ generation \in Nat /\ resyncRequired \in BOOLEAN
      /\ workerPc \in WorkerPcs /\ held \in Items /\ seen \in Nat /\ batch \in Batches
      /\ deferred \in Seq(Items) /\ Len(deferred) <= 1 /\ wakeLost \in BOOLEAN /\ WindowTypes
  BY DEF NamedTypes, QueueTypes, WorkerTypes
<1>1. ASSUME Popped PROVE queue' \in Seq(Items) /\ Len(queue') <= Capacity /\ Head(queue) \in Items
  BY <1>0, <1>1, TailIn, ConstantsAssumption DEF Popped, ConstantsAssumption
<1>2. ASSUME UNCHANGED <<committed, prod, generation, budget, wakeLost>>, UNCHANGED windowVars,
             queue' \in Seq(Items), Len(queue') <= Capacity, resyncRequired' \in BOOLEAN, WorkerTypes'
      PROVE  NamedTypes'
  BY <1>2 DEF NamedTypes, QueueTypes, WindowTypes
<1>3. CASE WorkerReceives
  <2>1. queue' \in Seq(Items) /\ Len(queue') <= Capacity /\ held' \in Items
    BY <1>0, <1>1, <1>3, TailIn DEF WorkerReceives
  <2>2. deferred' \in Seq(Items) /\ Len(deferred') <= 1
    BY <1>0, <1>3, ShortSeqs DEF WorkerReceives
  <2> QED
    BY <1>0, <1>2, <1>3, <2>1, <2>2 DEF WorkerReceives, WorkerTypes, WorkerPcs
<1>4. CASE WorkerLooks
  <2>1. held' \in Items /\ workerPc' \in WorkerPcs
    BY <1>0, <1>4, WakeType DEF WorkerLooks, WorkerPcs
  <2> QED
    BY <1>0, <1>2, <1>4, <2>1 DEF WorkerLooks, WorkerTypes
<1>5. CASE WorkerDrains
  <2>1. queue' \in Seq(Items) /\ Len(queue') <= Capacity
    BY <1>0, <1>1, <1>5 DEF WorkerDrains
  <2> QED
    BY <1>0, <1>2, <1>5, <2>1 DEF WorkerDrains, WorkerTypes, WorkerPcs
<1>6. CASE WorkerLoads
  <2>1. batch' \in Batches /\ workerPc' \in WorkerPcs
    <3>1. CASE held.wake
      BY <1>6, <3>1, BatchTypes DEF WorkerLoads, WorkerPcs
    <3>2. CASE ~held.wake
      <4>1. held.feed \in Feeds
        BY <1>0, <3>2 DEF Items
      <4>2. [feeds |-> {held.feed}, resync |-> FALSE] \in Batches
        BY <4>1 DEF Batches
      <4> QED
        BY <1>0, <1>6, <3>2, <4>2 DEF WorkerLoads, WorkerPcs
    <3> QED
      BY <3>1, <3>2
  <2> QED
    BY <1>0, <1>2, <1>6, <2>1 DEF WorkerLoads, WorkerTypes
<1>7. CASE WorkerConflates
  <2>1. queue' \in Seq(Items) /\ Len(queue') <= Capacity /\ Head(queue) \in Items
    BY <1>1, <1>7 DEF WorkerConflates
  <2>2. Tagged(Head(queue), seen) => Head(queue).feed \in Feeds
    BY <2>1 DEF Tagged, Items
  <2>3. batch' \in Batches
    BY <1>0, <1>7, <2>2 DEF WorkerConflates, Batches
  <2>4. deferred' \in Seq(Items) /\ Len(deferred') <= 1
    BY <1>0, <1>7, <2>1, ShortSeqs DEF WorkerConflates
  <2>w. workerPc' \in WorkerPcs
    BY <1>0, <1>7 DEF WorkerConflates, WorkerPcs
  <2>5. wakeLost' \in BOOLEAN /\ UNCHANGED <<committed, prod, generation, budget, resyncRequired, held, seen, windowVars>>
    BY <1>0, <1>7 DEF WorkerConflates
  <2> QED
    BY <1>0, <2>1, <2>3, <2>4, <2>w, <2>5 DEF NamedTypes, QueueTypes, WorkerTypes, WindowTypes
<1>8. CASE WorkerHasBatch
  BY <1>0, <1>2, <1>8 DEF WorkerHasBatch, WorkerTypes, WorkerPcs
<1>9. CASE WorkerRechecks
  <2>1. batch' \in Batches /\ workerPc' \in WorkerPcs
    BY <1>0, <1>9, BatchTypes DEF WorkerRechecks, WorkerPcs
  <2>2. deferred' \in Seq(Items) /\ Len(deferred') <= 1
    BY <1>0, <1>9, ShortSeqs DEF WorkerRechecks
  <2> QED
    BY <1>0, <1>2, <1>9, <2>1, <2>2 DEF WorkerRechecks, WorkerTypes
<1>10. CASE Emit
  <2>1. read' \in [Feeds -> Reads] /\ dirty' \in [Feeds -> BOOLEAN]
    BY <1>0, <1>10, AsksEffect DEF Emit
  <2>2. recovery' \in {"idle", "due", "metadata", "transcripts"} /\ requested' \in BOOLEAN
    BY <1>0, <1>10 DEF Emit, RecoveryAsked, WindowTypes
  <2>3. batch' \in Batches /\ held' \in Items /\ workerPc' \in WorkerPcs /\ seen' \in Nat
    BY <1>10, WakeType DEF Emit, Batches, NoBatch, WorkerPcs
  <2> QED
    BY <1>0, <1>10, <2>1, <2>2, <2>3 DEF Emit, NamedTypes, QueueTypes, WorkerTypes, WindowTypes
<1> QED
  BY <1>3, <1>4, <1>5, <1>6, <1>7, <1>8, <1>9, <1>10 DEF WorkerStep

LEMMA WindowStepTypes ==
  ASSUME NamedTypes, (\E f \in Feeds : ReadStep(f) \/ ReadFails(f)) \/ MetadataWaited \/ RecoveryStep
  PROVE  NamedTypes'
<1> USE DEF queueVars, workerVars, readVars, recoveryVars
<1>0. QueueTypes /\ WorkerTypes /\ WindowTypes /\ Dashboard \in Feeds
  BY DEF NamedTypes, Feeds
<1>1. UNCHANGED <<committed, prod, queueVars, workerVars, wakeLost>>
  BY DEF ReadStep, ReadAnswered, ReadApplied, ReadFails, MetadataWaited, RecoveryStep, RecoveryBegins,
     RecoveryReads, RecoveryEnds
<1>2. budget' \in Budgets
  BY <1>0, SpendType DEF ReadStep, ReadAnswered, ReadApplied, ReadFails, MetadataWaited, RecoveryStep, RecoveryBegins,
     RecoveryReads, RecoveryEnds, QueueTypes
<1>3. ASSUME WindowTypes' PROVE NamedTypes'
  BY <1>0, <1>1, <1>2, <1>3 DEF NamedTypes, QueueTypes, WorkerTypes
<1>4. ASSUME NEW f \in Feeds, ReadStep(f) PROVE WindowTypes'
  <2>1. FirstState(f) \in Reads /\ committed[f] \in Nat
    BY <1>0 DEF FirstState, Reads, QueueTypes
  <2> QED
    BY <1>0, <1>4, <2>1 DEF ReadStep, ReadAnswered, ReadApplied, WindowTypes, Reads
<1>5. ASSUME NEW f \in Feeds, ReadFails(f) PROVE WindowTypes'
  BY <1>0, <1>5 DEF ReadFails, RecoveryAsked, WindowTypes, Reads
<1>6. ASSUME MetadataWaited PROVE WindowTypes'
  <2>1. read' \in [Feeds -> Reads] /\ dirty' \in [Feeds -> BOOLEAN]
    BY <1>0, <1>6 DEF MetadataWaited, WindowTypes, Reads
  <2>2. UNCHANGED <<valid, answer, shown, recovery, requested>>
    BY <1>6 DEF MetadataWaited
  <2> QED
    BY <1>0, <2>1, <2>2 DEF WindowTypes
<1>7. ASSUME RecoveryBegins \/ RecoveryReads PROVE WindowTypes'
  <2>1. read' \in [Feeds -> Reads] /\ dirty' \in [Feeds -> BOOLEAN]
    BY <1>0, <1>7, AsksEffect DEF RecoveryBegins, RecoveryReads
  <2>2. valid' \in [Feeds -> BOOLEAN]
    BY <1>0, <1>7 DEF RecoveryBegins, RecoveryReads, WindowTypes
  <2>3. recovery' \in {"metadata", "transcripts"} /\ requested' \in {requested, FALSE} /\ UNCHANGED <<answer, shown>>
    BY <1>7 DEF RecoveryBegins, RecoveryReads
  <2> QED
    BY <1>0, <2>1, <2>2, <2>3 DEF WindowTypes
<1>8. ASSUME RecoveryEnds PROVE WindowTypes'
  <2>1. recovery' = "idle" /\ UNCHANGED <<read, dirty, valid, answer, shown, requested>>
    BY <1>8 DEF RecoveryEnds
  <2> QED
    BY <1>0, <2>1 DEF WindowTypes
<1> QED
  BY <1>3, <1>4, <1>5, <1>6, <1>7, <1>8 DEF RecoveryStep

LEMMA NextTypes == NamedTypes /\ [Next]_vars => NamedTypes'
<1> SUFFICES ASSUME NamedTypes, [Next]_vars PROVE NamedTypes'
  OBVIOUS
<1>1. CASE UNCHANGED vars
  BY <1>1 DEF vars, queueVars, workerVars, windowVars, readVars, recoveryVars, NamedTypes, QueueTypes,
     WorkerTypes, WindowTypes
<1> QED
  BY <1>1, ProducerTypes, WorkerStepTypes, WindowStepTypes DEF Next

(* Every variable keeps its type; the queue never exceeds its capacity,     *)
(* and at most one item is put off (prepare_dashboard_batch).               *)
THEOREM TypeCorrect == Spec => []TypeOK
<1>1. TypeOK <=> NamedTypes
  BY TypesNamed
<1> QED
  BY <1>1, InitTypes, NextTypes, PTL DEF Spec

-----------------------------------------------------------------------------
(* The inductive invariant                                                 *)

(* A marker is on its way: the flag is up, the worker has taken it down and *)
(* not yet emitted, or an overflow that advanced the generation has its     *)
(* Wake in the queue, or has yet to raise the flag, to advance or to wake.  *)
Marking ==
  \/ workerPc = "drain"
  \/ workerPc \in {"first", "load"} /\ held.wake
  \/ workerPc \in {"conflate", "recheck", "redrain", "emit"} /\ batch.resync
Overflows(p) == prod[p].pc \in {"flag", "bump"} \/ (prod[p].pc = "wake" /\ prod[p].bumped)
MarkerComes == resyncRequired \/ Marking \/ In(queue, Wake(TRUE)) \/ \E p \in Producers : Overflows(p)

(* A hint of a feed is on its way under the generation of the moment, with *)
(* its producer or in the worker, or is part of the batch.                 *)
Sends(p, f) ==
  /\ prod[p].feed = f
  /\ \/ prod[p].pc \in {"look", "tag"}
     \/ prod[p].pc \in {"check", "compare", "put"} /\ prod[p].gen = generation
Carries(f) ==
  \/ In(queue, Hint(f, generation)) \/ deferred = <<Hint(f, generation)>>
  \/ workerPc \in {"first", "load"} /\ held = Hint(f, generation)
  \/ workerPc \in {"conflate", "recheck", "emit"} /\ f \in batch.feeds
Delivering(f) == MarkerComes \/ Carries(f) \/ \E p \in Producers : Sends(p, f)

(* The window has yet to read the feed, or holds an answer it will show.   *)
Recovering(f) == recovery = "due" \/ requested \/ (recovery = "metadata" /\ f # Dashboard)
Reading(f) ==
  \/ read[f] # "idle" /\ dirty[f]
  \/ read[f] \in {"waiting", "asked"} /\ valid[f]
  \/ read[f] = "answered" /\ valid[f] /\ answer[f] = committed[f]
Fresh(f) == shown[f] = committed[f] \/ Recovering(f) \/ Reading(f)

(* A feed that is behind has its delivery or its read under way, and a      *)
(* batch begun before the generation advanced has a marker behind it.       *)
Owed == ~wakeLost => \A f \in Feeds : Delivering(f) \/ Fresh(f)
LateBatch == ~wakeLost /\ workerPc = "conflate" /\ seen # generation => MarkerComes

WorkerShape ==
  /\ \A p \in Producers : prod[p].pc = "bump" => prod[p].bumped
  /\ workerPc = "drain" => held.wake
  /\ workerPc = "redrain" => batch.resync
  /\ deferred # <<>> => workerPc \in {"recv", "recheck", "emit"}
WindowShape ==
  /\ requested => recovery # "idle"
  /\ valid[Dashboard]
  /\ \A f \in Feeds : /\ read[f] = "idle" => valid[f] /\ ~dirty[f]
                      /\ shown[f] <= committed[f]
                      /\ read[f] = "answered" => shown[f] <= answer[f] /\ answer[f] <= committed[f]

IInv == NamedTypes /\ WorkerShape /\ WindowShape /\ LateBatch /\ Owed

-----------------------------------------------------------------------------
(* Shape                                                                   *)

LEMMA InitShape == Init => WorkerShape /\ WindowShape
<1> SUFFICES ASSUME Init PROVE WorkerShape /\ WindowShape
  OBVIOUS
<1>1. Dashboard \in Feeds
  BY DEF Feeds
<1>2. WorkerShape
  BY DEF Init, WorkerShape
<1>3. WindowShape
  BY <1>1 DEF Init, WindowShape
<1> QED
  BY <1>2, <1>3

LEMMA ProducerShape ==
  ASSUME NamedTypes, WorkerShape, WindowShape, NEW p \in Producers, Publish(p) \/ SendStep(p)
  PROVE  WorkerShape' /\ WindowShape'
<1> USE DEF queueVars, workerVars, readVars, recoveryVars, windowVars
<1>0. /\ prod \in [Producers -> Prods] /\ committed \in [Feeds -> Nat] /\ shown \in [Feeds -> Nat]
      /\ answer \in [Feeds -> Nat] /\ resyncRequired \in BOOLEAN /\ generation \in Nat
  BY DEF NamedTypes, QueueTypes, WindowTypes
<1>1. UNCHANGED <<workerPc, held, batch, deferred>> /\ UNCHANGED <<read, dirty, valid, answer, recovery, requested, shown>>
  BY DEF Publish, SendStep, SendLooks, SendTags, SendChecks, SendCompares, SendPuts, ResyncFlags,
     ResyncBumps, ResyncWakes
<1>2. \A f \in Feeds : committed[f] <= committed'[f]
  <2>1. CASE Publish(p)
    <3>1. PICK g \in Feeds : committed' = [committed EXCEPT ![g] = @ + 1]
      BY <2>1 DEF Publish
    <3> QED
      BY <1>0, <3>1
  <2>2. CASE SendStep(p)
    BY <1>0, <2>2 DEF SendStep, SendLooks, SendTags, SendChecks, SendCompares, SendPuts, ResyncFlags,
       ResyncBumps, ResyncWakes
  <2> QED
    BY <2>1, <2>2
<1>3. WindowShape'
  <2>1. committed' \in [Feeds -> Nat]
    BY ProducerTypes DEF NamedTypes, QueueTypes
  <2> QED
    BY <1>0, <1>1, <1>2, <2>1 DEF WindowShape
<1>4. OnlyProd(p) /\ (prod'[p].pc = "bump" => prod'[p].bumped)
  <2>1. ASSUME NEW pc \in ProducerPcs, Goes(p, pc), pc # "bump" PROVE OnlyProd(p) /\ (prod'[p].pc = "bump" => prod'[p].bumped)
    BY <1>0, <2>1, GoesEffect DEF Moves
  <2>2. CASE Publish(p)
    <3>1. PICK f \in Feeds : prod' = [prod EXCEPT ![p].pc = "look", ![p].feed = f]
      BY <2>2 DEF Publish
    <3> QED
      BY <1>0, <3>1, PublishEffect DEF Moves
  <2>3. CASE SendLooks(p) \/ SendChecks(p) \/ SendCompares(p) \/ SendPuts(p) \/ ResyncBumps(p)
    BY <2>1, <2>3 DEF SendLooks, SendChecks, SendCompares, SendPuts, ResyncBumps, ProducerPcs
  <2>4. CASE SendTags(p)
    BY <1>0, <2>1, <2>4, TagEffect DEF SendTags, ProducerPcs, Moves
  <2>5. CASE ResyncFlags(p)
    <3>1. (IF resyncRequired THEN "wake" ELSE "bump") \in ProducerPcs /\ (~resyncRequired) \in BOOLEAN
      BY DEF ProducerPcs
    <3> QED
      BY <1>0, <2>5, <3>1, BumpedEffect DEF ResyncFlags, Moves
  <2>6. CASE ResyncWakes(p)
    BY <1>0, <2>6, BumpedEffect DEF ResyncWakes, Moves, ProducerPcs
  <2> QED
    BY <2>2, <2>3, <2>4, <2>5, <2>6 DEF SendStep
<1>5. WorkerShape'
  BY <1>1, <1>4 DEF WorkerShape, OnlyProd
<1> QED
  BY <1>3, <1>5

LEMMA WorkerStepShape ==
  ASSUME NamedTypes, WorkerShape, WindowShape, WorkerStep
  PROVE  WorkerShape' /\ WindowShape'
<1> USE DEF queueVars, workerVars, readVars, recoveryVars, windowVars
<1>0. /\ UNCHANGED <<committed, prod, valid, answer, shown>>
      /\ workerPc # "emit" => UNCHANGED <<read, dirty, recovery, requested>>
  BY DEF WorkerStep, WorkerReceives, WorkerLooks, WorkerDrains, WorkerLoads, WorkerConflates,
     WorkerHasBatch, WorkerRechecks, Emit
<1>1. WindowShape'
  <2>1. CASE workerPc # "emit"
    BY <1>0, <2>1 DEF WindowShape
  <2>2. CASE Emit
    <3>1. PICK feeds : Asks(feeds)
      BY <2>2 DEF Emit
    <3>2. /\ \A f \in Feeds : read'[f] = IF f \in feeds /\ read[f] = "idle" THEN FirstState(f) ELSE read[f]
          /\ \A f \in Feeds : dirty'[f] = (dirty[f] \/ (f \in feeds /\ read[f] # "idle"))
      BY <3>1, AsksEffect DEF NamedTypes
    <3>3. \A f \in Feeds : FirstState(f) \in {"waiting", "asked"}
      BY DEF FirstState
    <3>4. requested' => recovery' # "idle"
      BY <2>2 DEF Emit, RecoveryAsked, WindowShape
    <3>5. \A f \in Feeds : /\ read'[f] = "idle" => read[f] = "idle" /\ f \notin feeds
                           /\ read'[f] = "answered" => read[f] = "answered"
      BY <3>2, <3>3
    <3> QED
      BY <1>0, <3>2, <3>4, <3>5 DEF WindowShape
  <2> QED
    BY <2>1, <2>2 DEF WorkerStep, WorkerReceives, WorkerLooks, WorkerDrains, WorkerLoads, WorkerConflates,
       WorkerHasBatch, WorkerRechecks
<1>2. WorkerShape'
  <2>0. \A p \in Producers : prod'[p].pc = "bump" => prod'[p].bumped
    BY <1>0 DEF WorkerShape
  <2>1. CASE WorkerReceives
    BY <2>0, <2>1 DEF WorkerReceives, WorkerShape
  <2>2. CASE WorkerLooks
    BY <2>0, <2>2 DEF WorkerLooks, WorkerShape, Wake
  <2>3. CASE WorkerDrains
    BY <2>0, <2>3 DEF WorkerDrains, WorkerShape
  <2>4. CASE WorkerLoads
    BY <2>0, <2>4 DEF WorkerLoads, WorkerShape
  <2>5. CASE WorkerConflates
    BY <2>0, <2>5 DEF WorkerConflates, WorkerShape
  <2>6. CASE WorkerHasBatch
    BY <2>0, <2>6 DEF WorkerHasBatch, WorkerShape
  <2>7. CASE WorkerRechecks
    BY <2>0, <2>7 DEF WorkerRechecks, WorkerShape, ResyncMarker
  <2>8. CASE Emit
    BY <2>0, <2>8 DEF Emit, WorkerShape
  <2> QED
    BY <2>1, <2>2, <2>3, <2>4, <2>5, <2>6, <2>7, <2>8 DEF WorkerStep
<1> QED
  BY <1>1, <1>2

WindowStep == (\E f \in Feeds : ReadStep(f) \/ ReadFails(f)) \/ MetadataWaited \/ RecoveryStep

(* A read moves on, and only that read *)
LEMMA ReadEffect ==
  ASSUME WindowTypes, NEW f \in Feeds, NEW r \in Reads, NEW b \in BOOLEAN
  PROVE  /\ read' = [read EXCEPT ![f] = r] => read'[f] = r /\ \A g \in Feeds \ {f} : read'[g] = read[g]
         /\ dirty' = [dirty EXCEPT ![f] = b] => dirty'[f] = b /\ \A g \in Feeds \ {f} : dirty'[g] = dirty[g]
         /\ valid' = [valid EXCEPT ![f] = b] => valid'[f] = b /\ \A g \in Feeds \ {f} : valid'[g] = valid[g]
BY DEF WindowTypes

LEMMA WindowStepFrame ==
  ASSUME WindowStep
  PROVE  UNCHANGED <<committed, prod, queue, resyncRequired, generation, workerPc, held, seen, batch, deferred, wakeLost>>
BY DEF WindowStep, ReadStep, ReadAnswered, ReadApplied, ReadFails, MetadataWaited, RecoveryStep, RecoveryBegins,
   RecoveryReads, RecoveryEnds, queueVars, workerVars

LEMMA WindowStepShape ==
  ASSUME NamedTypes, WorkerShape, WindowShape, WindowStep
  PROVE  WorkerShape' /\ WindowShape'
<1> USE DEF readVars, recoveryVars, windowVars
<1>0. WindowTypes /\ Dashboard \in Feeds /\ committed \in [Feeds -> Nat]
  BY DEF NamedTypes, QueueTypes, Feeds
<1>f. UNCHANGED <<committed, prod, workerPc, held, batch, deferred>>
  BY WindowStepFrame
<1>1. WorkerShape'
  BY <1>f DEF WorkerShape
<1>2. \A f \in Feeds : FirstState(f) \in {"waiting", "asked"}
  BY DEF FirstState
<1>3. ASSUME NEW f \in Feeds, ReadAnswered(f) PROVE WindowShape'
  <2>1. read'[f] = "answered" /\ \A g \in Feeds \ {f} : read'[g] = read[g]
    BY <1>0, <1>3, ReadEffect DEF ReadAnswered, Reads
  <2>2. answer'[f] = committed[f] /\ \A g \in Feeds \ {f} : answer'[g] = answer[g]
    BY <1>0, <1>3 DEF ReadAnswered, WindowTypes
  <2>3. UNCHANGED <<dirty, valid, shown, recovery, requested>>
    BY <1>3 DEF ReadAnswered
  <2> QED
    BY <1>0, <1>f, <2>1, <2>2, <2>3 DEF WindowShape
<1>4. ASSUME NEW f \in Feeds, ReadApplied(f) PROVE WindowShape'
  <2>1. read'[f] \in {"idle", "waiting", "asked"} /\ \A g \in Feeds \ {f} : read'[g] = read[g]
    <3>1. PICK r \in {"idle", "waiting", "asked"} : read' = [read EXCEPT ![f] = r]
      BY <1>2, <1>4 DEF ReadApplied
    <3> QED
      BY <1>0, <3>1, ReadEffect DEF Reads
  <2>2. /\ ~dirty'[f] /\ \A g \in Feeds \ {f} : dirty'[g] = dirty[g]
        /\ valid'[f] /\ \A g \in Feeds \ {f} : valid'[g] = valid[g]
    BY <1>0, <1>4, ReadEffect DEF ReadApplied, Reads
  <2>3. shown'[f] \in {shown[f], answer[f]} /\ \A g \in Feeds \ {f} : shown'[g] = shown[g]
    BY <1>0, <1>4 DEF ReadApplied, WindowTypes
  <2>4. read[f] = "answered" /\ UNCHANGED <<answer, recovery, requested>>
    BY <1>4 DEF ReadApplied
  <2> QED
    BY <1>0, <1>f, <2>1, <2>2, <2>3, <2>4 DEF WindowShape
<1>5. ASSUME NEW f \in Feeds, ReadFails(f) PROVE WindowShape'
  <2>1. /\ read'[f] = "idle" /\ \A g \in Feeds \ {f} : read'[g] = read[g]
        /\ ~dirty'[f] /\ \A g \in Feeds \ {f} : dirty'[g] = dirty[g]
        /\ valid'[f] /\ \A g \in Feeds \ {f} : valid'[g] = valid[g]
    BY <1>0, <1>5, ReadEffect DEF ReadFails, Reads
  <2>2. requested' => recovery' # "idle"
    BY <1>5 DEF ReadFails, RecoveryAsked, AwaitedByRecovery, WindowShape
  <2>3. UNCHANGED <<answer, shown>>
    BY <1>5 DEF ReadFails
  <2> QED
    BY <1>0, <1>f, <2>1, <2>2, <2>3 DEF WindowShape
<1>6. ASSUME MetadataWaited PROVE WindowShape'
  <2>1. /\ read'[Dashboard] = "asked" /\ \A g \in Feeds \ {Dashboard} : read'[g] = read[g]
        /\ ~dirty'[Dashboard] /\ \A g \in Feeds \ {Dashboard} : dirty'[g] = dirty[g]
    BY <1>0, <1>6, ReadEffect DEF MetadataWaited, Reads
  <2>2. UNCHANGED <<valid, answer, shown, recovery, requested>>
    BY <1>6 DEF MetadataWaited
  <2> QED
    BY <1>0, <1>f, <2>1, <2>2 DEF WindowShape
<1>7. ASSUME RecoveryBegins \/ RecoveryReads PROVE WindowShape'
  <2>1. PICK feeds : Asks(feeds)
    BY <1>7 DEF RecoveryBegins, RecoveryReads
  <2>2. /\ \A f \in Feeds : read'[f] = IF f \in feeds /\ read[f] = "idle" THEN FirstState(f) ELSE read[f]
        /\ \A f \in Feeds : dirty'[f] = (dirty[f] \/ (f \in feeds /\ read[f] # "idle"))
    BY <1>0, <2>1, AsksEffect
  <2>3. \A f \in Feeds : /\ read'[f] = "idle" => read[f] = "idle" /\ f \notin feeds
                         /\ read'[f] = "answered" => read[f] = "answered"
    BY <1>2, <2>2
  <2>4. recovery' # "idle" /\ UNCHANGED <<answer, shown>>
    BY <1>7 DEF RecoveryBegins, RecoveryReads
  <2>5. valid'[Dashboard] /\ \A f \in Feeds : read[f] = "idle" => valid'[f]
    BY <1>0, <1>7 DEF RecoveryBegins, RecoveryReads, WindowShape
  <2> QED
    BY <1>0, <1>f, <2>2, <2>3, <2>4, <2>5 DEF WindowShape
<1>8. ASSUME RecoveryEnds PROVE WindowShape'
  BY <1>f, <1>8 DEF RecoveryEnds, WindowShape
<1> QED
  BY <1>1, <1>3, <1>4, <1>5, <1>6, <1>7, <1>8 DEF WindowStep, ReadStep, RecoveryStep

-----------------------------------------------------------------------------
(* A marker that is owed stays owed                                        *)

(* What a send changes: its own place, one item more in the queue at most, *)
(* and the flag and the generation only forwards.                          *)
LEMMA ProducerStepFrame ==
  ASSUME NamedTypes, NEW p \in Producers, Publish(p) \/ SendStep(p)
  PROVE  /\ UNCHANGED <<workerPc, held, seen, batch, deferred>>
         /\ UNCHANGED <<read, dirty, valid, answer, recovery, requested, shown>>
         /\ OnlyProd(p)
         /\ \A x : In(queue, x) => In(queue', x)
         /\ resyncRequired => resyncRequired'
         /\ wakeLost => wakeLost'
         /\ generation' # generation => ResyncBumps(p)
<1> USE DEF queueVars, workerVars, readVars, recoveryVars, windowVars
<1>0. prod \in [Producers -> Prods] /\ queue \in Seq(Items) /\ resyncRequired \in BOOLEAN
      /\ prod[p].feed \in Feeds /\ prod[p].gen \in Nat /\ prod[p].bumped \in BOOLEAN /\ wakeLost \in BOOLEAN
  BY DEF NamedTypes, QueueTypes, Prods
<1>1. /\ UNCHANGED <<workerPc, held, seen, batch, deferred>>
      /\ UNCHANGED <<read, dirty, valid, answer, recovery, requested, shown>>
      /\ generation' # generation => ResyncBumps(p)
  BY DEF Publish, SendStep, SendLooks, SendTags, SendChecks, SendCompares, SendPuts, ResyncFlags,
     ResyncBumps, ResyncWakes
<1>4. resyncRequired => resyncRequired'
  BY <1>0 DEF Publish, SendStep, SendLooks, SendTags, SendChecks, SendCompares, SendPuts, ResyncFlags,
     ResyncBumps, ResyncWakes
<1>5. wakeLost => wakeLost'
  BY <1>0 DEF Publish, SendStep, SendLooks, SendTags, SendChecks, SendCompares, SendPuts, ResyncFlags,
     ResyncBumps, ResyncWakes
<1>2. \A x : In(queue, x) => In(queue', x)
  <2>1. Hint(prod[p].feed, prod[p].gen) \in Items /\ Wake(prod[p].bumped) \in Items
    BY <1>0, HintType, WakeType
  <2>2. queue' = queue \/ \E item \in Items : queue' = Append(queue, item)
    BY <2>1 DEF Publish, SendStep, SendLooks, SendTags, SendChecks, SendCompares, SendPuts, ResyncFlags,
       ResyncBumps, ResyncWakes
  <2> QED
    BY <1>0, <2>2, AppendIn
<1>3. OnlyProd(p)
  <2>1. \E r : prod' = [prod EXCEPT ![p] = r]
    <3>1. ASSUME NEW pc, Goes(p, pc) PROVE \E r : prod' = [prod EXCEPT ![p] = r]
      BY <3>1 DEF Goes
    <3>2. CASE SendLooks(p) \/ SendChecks(p) \/ SendCompares(p) \/ SendPuts(p) \/ ResyncBumps(p)
      BY <3>1, <3>2 DEF SendLooks, SendChecks, SendCompares, SendPuts, ResyncBumps
    <3>3. CASE Publish(p)
      <4>1. PICK f \in Feeds : prod' = [prod EXCEPT ![p].pc = "look", ![p].feed = f]
        BY <3>3 DEF Publish
      <4> QED
        BY <4>1
    <3>4. CASE SendTags(p)
      BY <3>1, <3>4 DEF SendTags
    <3>5. CASE ResyncFlags(p)
      BY <3>5 DEF ResyncFlags
    <3>6. CASE ResyncWakes(p)
      BY <3>6 DEF ResyncWakes
    <3> QED
      BY <3>2, <3>3, <3>4, <3>5, <3>6 DEF SendStep
  <2> QED
    BY <1>0, <2>1 DEF OnlyProd
<1> QED
  BY <1>1, <1>2, <1>3, <1>4, <1>5

(* The call that overflows moves from the flag to the generation to its    *)
(* Wake, which enters the queue, or is lost while the flag is down.         *)
LEMMA ProducerMarks ==
  ASSUME NamedTypes, WorkerShape, NEW p \in Producers, Publish(p) \/ SendStep(p), ~wakeLost', MarkerComes
  PROVE  MarkerComes'
<1>0. prod \in [Producers -> Prods] /\ queue \in Seq(Items) /\ resyncRequired \in BOOLEAN
  BY DEF NamedTypes, QueueTypes, Prods
<1>f. /\ UNCHANGED <<workerPc, held, batch>> /\ OnlyProd(p)
      /\ \A x : In(queue, x) => In(queue', x)
      /\ resyncRequired => resyncRequired'
  BY ProducerStepFrame
<1>1. CASE resyncRequired \/ Marking \/ In(queue, Wake(TRUE))
  BY <1>f, <1>1 DEF MarkerComes, Marking
<1>2. ASSUME NEW q \in Producers, Overflows(q), q # p PROVE MarkerComes'
  BY <1>f, <1>2 DEF MarkerComes, Overflows, OnlyProd
<1>3. CASE Overflows(p)
  <2>1. CASE prod[p].pc = "flag"
    <3>1. ResyncFlags(p)
      BY <2>1 DEF At, Publish, SendStep, SendLooks, SendTags, SendChecks, SendCompares, SendPuts,
         ResyncFlags, ResyncBumps, ResyncWakes
    <3> QED
      BY <3>1 DEF ResyncFlags, MarkerComes
  <2>2. CASE prod[p].pc = "bump"
    <3>1. ResyncBumps(p) /\ prod[p].bumped
      BY <2>2 DEF At, Publish, SendStep, SendLooks, SendTags, SendChecks, SendCompares, SendPuts,
         ResyncFlags, ResyncBumps, ResyncWakes, WorkerShape
    <3>2. Moves(p, "wake") /\ prod'[p].bumped = prod[p].bumped
      BY <1>0, <3>1, GoesEffect DEF ResyncBumps, ProducerPcs
    <3> QED
      BY <3>1, <3>2 DEF MarkerComes, Overflows, Moves
  <2>3. CASE prod[p].pc = "wake" /\ prod[p].bumped
    <3>1. ResyncWakes(p)
      BY <2>3 DEF At, Publish, SendStep, SendLooks, SendTags, SendChecks, SendCompares, SendPuts,
         ResyncFlags, ResyncBumps, ResyncWakes
    <3>2. prod[p].bumped = TRUE /\ Wake(TRUE) \in Items
      BY <1>0, <2>3, WakeType DEF Prods
    <3>3. CASE Len(queue) < Capacity
      <4>1. queue' = Append(queue, Wake(TRUE))
        BY <3>1, <3>2, <3>3 DEF ResyncWakes
      <4> QED
        BY <1>0, <3>2, <4>1, AppendIn DEF MarkerComes
    <3>4. CASE ~(Len(queue) < Capacity)
      <4>1. resyncRequired
        BY <3>1, <3>2, <3>4 DEF ResyncWakes
      <4> QED
        BY <1>1, <4>1
    <3> QED
      BY <3>3, <3>4
  <2> QED
    BY <1>3, <2>1, <2>2, <2>3 DEF Overflows
<1> QED
  BY <1>1, <1>2, <1>3 DEF MarkerComes

(* The worker lowers the flag only to send a marker; a Wake it takes out    *)
(* becomes the marker, is drained by one, or is passed over.                *)
LEMMA WorkerMarks ==
  ASSUME NamedTypes, WorkerShape, WorkerStep, workerPc # "emit", ~wakeLost', MarkerComes
  PROVE  MarkerComes'
<1>0. queue \in Seq(Items) /\ resyncRequired \in BOOLEAN
  BY DEF NamedTypes, QueueTypes
<1>p. UNCHANGED prod
  BY DEF WorkerStep, WorkerReceives, WorkerLooks, WorkerDrains, WorkerLoads, WorkerConflates,
     WorkerHasBatch, WorkerRechecks, Emit
<1>a. CASE \E p \in Producers : Overflows(p)
  BY <1>p, <1>a DEF MarkerComes, Overflows
<1>q. ASSUME Popped, In(queue, Wake(TRUE)) PROVE Head(queue) = Wake(TRUE) \/ In(queue', Wake(TRUE))
  BY <1>0, <1>q, TailIn DEF Popped
<1>w. Wake(TRUE).wake
  BY WakeType
<1> DEFINE Queued == In(queue, Wake(TRUE))
<1>m. /\ resyncRequired \/ Marking \/ Queued \/ \E p \in Producers : Overflows(p)
      /\ resyncRequired' \/ Marking' \/ Queued' => MarkerComes'
  BY DEF MarkerComes
<1>u. queue' = queue => (Queued => Queued')
  OBVIOUS
<1>1. CASE WorkerReceives
  <2>1. Queued => Queued' \/ (workerPc' = "first" /\ held' = Wake(TRUE))
    BY <1>1, <1>q, <1>u DEF WorkerReceives
  <2>2. Queued => Queued' \/ Marking'
    BY <2>1, <1>w DEF Marking
  <2>3. ~Marking /\ UNCHANGED resyncRequired
    BY <1>1 DEF WorkerReceives, Marking
  <2> QED
    BY <1>a, <1>m, <2>2, <2>3
<1> HIDE DEF Queued
<1>2. CASE WorkerLooks
  <2>1. resyncRequired \/ Marking => Marking'
    BY <1>2 DEF WorkerLooks, Marking
  <2> QED
    BY <1>2, <1>a, <1>m, <1>u, <2>1 DEF WorkerLooks
<1>3. CASE WorkerDrains
  <2>1. Marking'
    BY <1>3 DEF WorkerDrains, Marking, WorkerShape
  <2> QED
    BY <1>m, <2>1
<1>4. CASE WorkerLoads
  <2>1. Marking => Marking'
    BY <1>4 DEF WorkerLoads, Marking, ResyncMarker
  <2> QED
    BY <1>4, <1>a, <1>m, <1>u, <2>1 DEF WorkerLoads, queueVars
<1>5. CASE WorkerConflates
  <2>1. batch'.resync = batch.resync /\ workerPc' \in {"conflate", "recheck"} /\ workerPc = "conflate"
        /\ UNCHANGED resyncRequired
    BY <1>5 DEF WorkerConflates, NamedTypes, WorkerTypes, Batches
  <2>2. Marking => Marking'
    BY <2>1 DEF Marking
  <2>3. Queued => Queued' \/ Head(queue) = Wake(TRUE)
    BY <1>5, <1>q DEF WorkerConflates, Queued
  <2>4. Head(queue) = Wake(TRUE) => batch.resync \/ resyncRequired
    BY <1>5 DEF WorkerConflates
  <2>5. batch.resync => Marking'
    BY <2>1 DEF Marking
  <2> QED
    BY <1>a, <1>m, <2>1, <2>2, <2>3, <2>4, <2>5
<1>6. CASE WorkerHasBatch
  <2>1. Marking => Marking'
    BY <1>6 DEF WorkerHasBatch, Marking
  <2> QED
    BY <1>6, <1>a, <1>m, <1>u, <2>1 DEF WorkerHasBatch, queueVars
<1>7. CASE WorkerRechecks
  <2>1. resyncRequired \/ Marking => Marking'
    BY <1>7 DEF WorkerRechecks, Marking, ResyncMarker
  <2> QED
    BY <1>7, <1>a, <1>m, <1>u, <2>1 DEF WorkerRechecks
<1> QED
  BY <1>1, <1>2, <1>3, <1>4, <1>5, <1>6, <1>7 DEF WorkerStep, Emit

-----------------------------------------------------------------------------
(* A delivery under way stays under way                                    *)

LEMMA ProducerSends ==
  ASSUME NamedTypes, NEW p \in Producers, SendStep(p), NEW f \in Feeds, Sends(p, f), generation' = generation
  PROVE  Sends(p, f)' \/ resyncRequired \/ Overflows(p)' \/ In(queue', Hint(f, generation))
<1>0. /\ prod \in [Producers -> Prods] /\ queue \in Seq(Items) /\ generation \in Nat
      /\ prod[p].feed = f
  BY DEF NamedTypes, QueueTypes, Sends
<1>1. CASE prod[p].pc = "look"
  <2>1. SendLooks(p)
    BY <1>1 DEF At, SendStep, SendLooks, SendTags, SendChecks, SendCompares, SendPuts,
       ResyncFlags, ResyncBumps, ResyncWakes
  <2>2. CASE ~resyncRequired
    <3>1. Goes(p, "tag")
      BY <2>1, <2>2 DEF SendLooks
    <3> QED
      BY <1>0, <3>1, GoesEffect DEF Moves, Sends, ProducerPcs
  <2> QED
    BY <2>2
<1>2. CASE prod[p].pc = "tag"
  <2>1. SendTags(p)
    BY <1>2 DEF At, SendStep, SendLooks, SendTags, SendChecks, SendCompares, SendPuts,
       ResyncFlags, ResyncBumps, ResyncWakes
  <2>2. CASE Goes(p, "flag")
    BY <1>0, <2>2, GoesEffect DEF Moves, Overflows, ProducerPcs
  <2>3. CASE prod' = [prod EXCEPT ![p].pc = "check", ![p].gen = generation]
    <3>1. Moves(p, "check") /\ prod'[p].feed = f /\ prod'[p].gen = generation
      BY <1>0, <2>3, TagEffect
    <3> QED
      BY <3>1 DEF Moves, Sends
  <2> QED
    BY <2>1, <2>2, <2>3 DEF SendTags
<1>3. CASE prod[p].pc = "check" /\ prod[p].gen = generation
  <2>1. SendChecks(p)
    BY <1>3 DEF At, SendStep, SendLooks, SendTags, SendChecks, SendCompares, SendPuts,
       ResyncFlags, ResyncBumps, ResyncWakes
  <2>2. CASE ~resyncRequired
    <3>1. Goes(p, "compare")
      BY <2>1, <2>2 DEF SendChecks
    <3>2. Moves(p, "compare") /\ prod'[p].feed = f /\ prod'[p].gen = generation
      BY <1>0, <1>3, <3>1, GoesEffect DEF ProducerPcs
    <3> QED
      BY <3>2 DEF Moves, Sends
  <2> QED
    BY <2>2
<1>4. CASE prod[p].pc = "compare" /\ prod[p].gen = generation
  <2>1. SendCompares(p)
    BY <1>4 DEF At, SendStep, SendLooks, SendTags, SendChecks, SendCompares, SendPuts,
       ResyncFlags, ResyncBumps, ResyncWakes
  <2>2. Goes(p, "put")
    BY <1>4, <2>1 DEF SendCompares
  <2>3. Moves(p, "put") /\ prod'[p].feed = f /\ prod'[p].gen = generation
    BY <1>0, <1>4, <2>2, GoesEffect DEF ProducerPcs
  <2> QED
    BY <2>3 DEF Moves, Sends
<1>5. CASE prod[p].pc = "put" /\ prod[p].gen = generation
  <2>1. SendPuts(p)
    BY <1>5 DEF At, SendStep, SendLooks, SendTags, SendChecks, SendCompares, SendPuts,
       ResyncFlags, ResyncBumps, ResyncWakes
  <2>2. CASE Len(queue) < Capacity
    <3>1. queue' = Append(queue, Hint(f, generation)) /\ Hint(f, generation) \in Items
      BY <1>0, <1>5, <2>1, <2>2, HintType DEF SendPuts
    <3> QED
      BY <1>0, <3>1, AppendIn
  <2>3. CASE ~(Len(queue) < Capacity)
    <3>1. Goes(p, "flag")
      BY <2>1, <2>3 DEF SendPuts
    <3> QED
      BY <1>0, <3>1, GoesEffect DEF Moves, Overflows, ProducerPcs
  <2> QED
    BY <2>2, <2>3
<1> QED
  BY <1>1, <1>2, <1>3, <1>4, <1>5 DEF Sends

(* An overflow that advances the generation has its Wake yet to send. *)
LEMMA BumpMarks ==
  ASSUME NamedTypes, WorkerShape, NEW p \in Producers, ResyncBumps(p)
  PROVE  MarkerComes'
<1>1. prod \in [Producers -> Prods] /\ prod[p].bumped
  BY DEF NamedTypes, QueueTypes, WorkerShape, ResyncBumps, At
<1>2. Moves(p, "wake") /\ prod'[p].bumped = prod[p].bumped
  BY <1>1, GoesEffect DEF ResyncBumps, ProducerPcs
<1> QED
  BY <1>1, <1>2 DEF MarkerComes, Overflows, Moves

LEMMA ProducerDelivers ==
  ASSUME NamedTypes, WorkerShape, NEW p \in Producers, Publish(p) \/ SendStep(p), ~wakeLost',
         NEW f \in Feeds, Delivering(f)
  PROVE  Delivering(f)'
<1>f. /\ UNCHANGED <<workerPc, held, batch, deferred>> /\ OnlyProd(p)
      /\ \A x : In(queue, x) => In(queue', x)
      /\ generation' # generation => ResyncBumps(p)
  BY ProducerStepFrame
<1>1. CASE generation' # generation
  BY <1>1, <1>f, BumpMarks DEF Delivering
<1>2. CASE MarkerComes
  BY <1>2, ProducerMarks DEF Delivering
<1>3. CASE Carries(f) /\ generation' = generation
  <2>1. Carries(f)'
    BY <1>3, <1>f DEF Carries
  <2> QED
    BY <2>1 DEF Delivering
<1>4. ASSUME NEW q \in Producers, Sends(q, f), q # p, generation' = generation PROVE Delivering(f)'
  <2>1. prod'[q] = prod[q]
    BY <1>4, <1>f DEF OnlyProd
  <2>2. Sends(q, f)'
    BY <1>4, <2>1 DEF Sends
  <2> QED
    BY <2>2 DEF Delivering
<1>5. CASE Sends(p, f) /\ generation' = generation
  <2>1. SendStep(p)
    BY <1>5 DEF Sends, Publish, At
  <2>2. Sends(p, f)' \/ resyncRequired \/ Overflows(p)' \/ In(queue', Hint(f, generation))
    BY <1>5, <2>1, ProducerSends
  <2>3. CASE resyncRequired
    BY <1>2, <2>3 DEF MarkerComes
  <2>4. CASE Overflows(p)'
    BY <2>4 DEF Delivering, MarkerComes
  <2>5. CASE Sends(p, f)'
    BY <2>5 DEF Delivering
  <2>6. CASE In(queue', Hint(f, generation))
    BY <1>5, <2>6 DEF Delivering, Carries
  <2> QED
    BY <2>2, <2>3, <2>4, <2>5, <2>6
<1> QED
  BY <1>1, <1>2, <1>3, <1>4, <1>5 DEF Delivering

(* The worker takes a hint of the current generation from the queue into    *)
(* its batch, or puts it off, unless it is about to send a marker.          *)
LEMMA WorkerDelivers ==
  ASSUME NamedTypes, WorkerShape, LateBatch, WorkerStep, workerPc # "emit", ~wakeLost', NEW f \in Feeds, Delivering(f)
  PROVE  Delivering(f)'
<1> DEFINE h == Hint(f, generation)
<1>0. /\ queue \in Seq(Items) /\ resyncRequired \in BOOLEAN /\ generation \in Nat /\ batch \in Batches
      /\ wakeLost \in BOOLEAN
      /\ h \in Items /\ h.wake = FALSE /\ h.feed = f /\ h.gen = generation
  BY HintType DEF NamedTypes, QueueTypes, WorkerTypes, Hint
<1>p. UNCHANGED <<prod, generation>>
  BY DEF WorkerStep, WorkerReceives, WorkerLooks, WorkerDrains, WorkerLoads, WorkerConflates,
     WorkerHasBatch, WorkerRechecks, Emit, queueVars
<1>q. ASSUME Popped, In(queue, h) PROVE Head(queue) = h \/ In(queue', h)
  BY <1>0, <1>q, TailIn DEF Popped
<1> HIDE DEF h
<1>1. CASE MarkerComes
  BY <1>1, WorkerMarks DEF Delivering
<1>2. ASSUME NEW q \in Producers, Sends(q, f) PROVE Delivering(f)'
  BY <1>2, <1>p DEF Delivering, Sends
<1>c. ASSUME In(queue', h) \/ deferred' = <<h>> \/ (workerPc' \in {"first", "load"} /\ held' = h)
             \/ (workerPc' \in {"conflate", "recheck", "emit"} /\ f \in batch'.feeds)
      PROVE  Delivering(f)'
  BY <1>c, <1>p DEF Delivering, Carries, h
<1>3. CASE Carries(f) /\ ~MarkerComes
  <2>0. In(queue, h) \/ deferred = <<h>> \/ (workerPc \in {"first", "load"} /\ held = h)
        \/ (workerPc \in {"conflate", "recheck", "emit"} /\ f \in batch.feeds)
    BY <1>3 DEF Carries, h
  <2>1. CASE WorkerReceives
    BY <1>c, <1>q, <2>0, <2>1 DEF WorkerReceives
  <2>2. CASE WorkerLooks
    <3>1. ~resyncRequired /\ deferred = <<>>
      BY <1>3, <2>2 DEF MarkerComes, WorkerLooks, WorkerShape
    <3> QED
      BY <1>c, <2>0, <2>2, <3>1 DEF WorkerLooks
  <2>3. CASE WorkerDrains
    BY <1>3, <2>3 DEF WorkerDrains, MarkerComes, Marking, WorkerShape
  <2>4. CASE WorkerLoads
    <3>1. deferred = <<>> /\ workerPc = "load" /\ queue' = queue
      BY <2>4 DEF WorkerLoads, WorkerShape, queueVars
    <3>2. CASE held = h
      <4>1. batch' = [feeds |-> {f}, resync |-> FALSE] /\ workerPc' = "conflate"
        BY <1>0, <2>4, <3>2 DEF WorkerLoads, Tagged
      <4> QED
        BY <1>c, <4>1
    <3> QED
      BY <1>c, <2>0, <3>1, <3>2
  <2>5. CASE WorkerConflates
    <3>1. deferred = <<>> /\ workerPc = "conflate" /\ workerPc' \in {"conflate", "recheck"}
      BY <2>5 DEF WorkerConflates, WorkerShape
    <3>2. batch.feeds \subseteq batch'.feeds
      BY <1>0, <2>5 DEF WorkerConflates, Batches
    <3>3. ~wakeLost
      BY <1>0, <2>5 DEF WorkerConflates
    <3>4. seen = generation
      BY <1>3, <3>1, <3>3 DEF LateBatch
    <3>5. CASE Head(queue) = h
      <4>1. Tagged(h, seen)
        BY <1>0, <3>4 DEF Tagged
      <4>2. f \in batch'.feeds \/ deferred' = <<h>>
        BY <1>0, <2>5, <3>5, <4>1 DEF WorkerConflates, Batches
      <4> QED
        BY <1>c, <3>1, <4>2
    <3> QED
      BY <1>c, <1>q, <2>0, <2>5, <3>1, <3>2, <3>5 DEF WorkerConflates
  <2>6. CASE WorkerHasBatch
    BY <1>c, <2>0, <2>6 DEF WorkerHasBatch, queueVars
  <2>7. CASE WorkerRechecks
    <3>1. ~resyncRequired
      BY <1>3 DEF MarkerComes
    <3> QED
      BY <1>c, <2>0, <2>7, <3>1 DEF WorkerRechecks
  <2> QED
    BY <2>1, <2>2, <2>3, <2>4, <2>5, <2>6, <2>7 DEF WorkerStep, Emit
<1> QED
  BY <1>1, <1>2, <1>3 DEF Delivering

-----------------------------------------------------------------------------
(* What the window has yet to show                                         *)

(* The same read, answer and revisions are as fresh as before. *)
LEMMA FreshStays ==
  ASSUME NEW f, Fresh(f), read'[f] = read[f], dirty'[f] = dirty[f], valid'[f] = valid[f], answer'[f] = answer[f],
         shown'[f] = shown[f], committed'[f] = committed[f], Recovering(f) => Recovering(f)'
  PROVE  Fresh(f)'
BY DEF Fresh, Reading

LEMMA ProducerFresh ==
  ASSUME NamedTypes, NEW p \in Producers, Publish(p) \/ SendStep(p), NEW f \in Feeds, Fresh(f)
  PROVE  Fresh(f)' \/ Sends(p, f)'
<1>0. prod \in [Producers -> Prods] /\ committed \in [Feeds -> Nat]
  BY DEF NamedTypes, QueueTypes
<1>f. UNCHANGED <<read, dirty, valid, answer, recovery, requested, shown>>
  BY ProducerStepFrame
<1>1. ASSUME committed'[f] = committed[f] PROVE Fresh(f)'
  BY <1>1, <1>f, FreshStays DEF Recovering
<1>2. CASE SendStep(p)
  <2>1. UNCHANGED committed
    BY <1>2 DEF SendStep, SendLooks, SendTags, SendChecks, SendCompares, SendPuts, ResyncFlags,
       ResyncBumps, ResyncWakes
  <2> QED
    BY <1>1, <2>1
<1>3. CASE Publish(p)
  <2>1. PICK g \in Feeds : /\ committed' = [committed EXCEPT ![g] = @ + 1]
                           /\ prod' = [prod EXCEPT ![p].pc = "look", ![p].feed = g]
    BY <1>3 DEF Publish
  <2>2. CASE g = f
    <3>1. Moves(p, "look") /\ prod'[p].feed = f
      BY <1>0, <2>1, <2>2, PublishEffect
    <3> QED
      BY <3>1 DEF Moves, Sends
  <2>3. CASE g # f
    BY <1>0, <1>1, <2>1, <2>3
  <2> QED
    BY <2>2, <2>3
<1> QED
  BY <1>2, <1>3

(* Asking for a feed makes its read fresh, and leaves a fresh one fresh. *)
LEMMA AskedIsFresh ==
  ASSUME WindowTypes, WindowShape, NEW feeds, Asks(feeds), NEW f \in Feeds, f \in feeds,
         read[f] = "idle" => valid'[f]
  PROVE  Fresh(f)'
<1>1. read'[f] = IF read[f] = "idle" THEN FirstState(f) ELSE read[f]
  BY AsksEffect
<1>2. dirty'[f] = (dirty[f] \/ read[f] # "idle")
  BY AsksEffect
<1>3. FirstState(f) \in {"waiting", "asked"}
  BY DEF FirstState
<1>4. CASE read[f] = "idle"
  BY <1>1, <1>3, <1>4 DEF Fresh, Reading
<1>5. CASE read[f] # "idle"
  BY <1>1, <1>2, <1>5 DEF Fresh, Reading
<1> QED
  BY <1>4, <1>5

LEMMA AskedByRecovery ==
  ASSUME WindowTypes, RecoveryAsked, NEW f
  PROVE  Recovering(f)'
BY DEF RecoveryAsked, Recovering, WindowTypes

(* A batch handed to the window is read there; a marker makes it recover. *)
LEMMA EmitOwes ==
  ASSUME NamedTypes, WindowShape, Emit, NEW f \in Feeds, Delivering(f) \/ Fresh(f)
  PROVE  Delivering(f)' \/ Fresh(f)'
<1>0. WindowTypes /\ batch \in Batches
  BY DEF NamedTypes, WorkerTypes
<1>u. UNCHANGED <<committed, prod, queue, resyncRequired, generation, deferred, valid, answer, shown>>
      /\ workerPc = "emit"
  BY DEF Emit, queueVars
<1>1. CASE batch.resync
  <2>1. RecoveryAsked
    BY <1>1 DEF Emit
  <2> QED
    BY <1>0, <2>1, AskedByRecovery DEF Fresh
<1>2. CASE ~batch.resync
  <2>1. Asks(batch.feeds) /\ UNCHANGED <<recovery, requested>>
    BY <1>2 DEF Emit, recoveryVars
  <2>2. CASE f \in batch.feeds
    <3>1. read[f] = "idle" => valid'[f]
      BY <1>u DEF WindowShape
    <3> QED
      BY <1>0, <2>1, <2>2, <3>1, AskedIsFresh
  <2>3. CASE f \notin batch.feeds /\ Fresh(f)
    <3>1. read'[f] = read[f] /\ dirty'[f] = (dirty[f] \/ FALSE)
      BY <1>0, <2>1, <2>3, AsksEffect
    <3>2. dirty'[f] = dirty[f]
      BY <1>0, <3>1 DEF WindowTypes
    <3> QED
      BY <1>u, <2>1, <2>3, <3>1, <3>2, FreshStays DEF Recovering
  <2>4. CASE f \notin batch.feeds /\ Delivering(f)
    <3>1. ~Marking
      BY <1>2, <1>u DEF Marking
    <3>2. MarkerComes => MarkerComes'
      BY <1>u, <3>1 DEF MarkerComes, Overflows
    <3>3. Carries(f) => Carries(f)'
      BY <1>u, <2>4 DEF Carries
    <3>4. \A p \in Producers : Sends(p, f) => Sends(p, f)'
      BY <1>u DEF Sends
    <3> QED
      BY <2>4, <3>2, <3>3, <3>4 DEF Delivering
  <2> QED
    BY <2>2, <2>3, <2>4
<1> QED
  BY <1>1, <1>2

LEMMA WindowFresh ==
  ASSUME NamedTypes, WindowShape, WindowStep, NEW f \in Feeds, Fresh(f)
  PROVE  Fresh(f)'
<1>0. WindowTypes /\ Dashboard \in Feeds /\ committed \in [Feeds -> Nat]
  BY DEF NamedTypes, QueueTypes, Feeds
<1>f. UNCHANGED committed
  BY WindowStepFrame
<1>1. ASSUME NEW g \in Feeds, ReadAnswered(g) PROVE Fresh(f)'
  <2>1. read[g] = "asked" /\ read'[g] = "answered" /\ \A x \in Feeds \ {g} : read'[x] = read[x]
    BY <1>0, <1>1, ReadEffect DEF ReadAnswered, Reads
  <2>2. answer'[g] = committed[g] /\ \A x \in Feeds \ {g} : answer'[x] = answer[x]
    BY <1>0, <1>1 DEF ReadAnswered, WindowTypes
  <2>3. UNCHANGED <<dirty, valid, shown, recovery, requested>>
    BY <1>1 DEF ReadAnswered, recoveryVars
  <2> QED
    BY <1>f, <2>1, <2>2, <2>3 DEF Fresh, Reading, Recovering
<1>2. ASSUME NEW g \in Feeds, ReadApplied(g) PROVE Fresh(f)'
  <2>1. read[g] = "answered" /\ read' = [read EXCEPT ![g] = IF dirty[g] THEN FirstState(g) ELSE "idle"]
        /\ UNCHANGED <<answer, recovery, requested>>
    BY <1>2 DEF ReadApplied, recoveryVars
  <2>2. /\ valid'[g] /\ \A x \in Feeds \ {g} : valid'[x] = valid[x]
        /\ \A x \in Feeds \ {g} : dirty'[x] = dirty[x]
    BY <1>0, <1>2, ReadEffect DEF ReadApplied, Reads
  <2>3. shown'[g] = (IF valid[g] THEN answer[g] ELSE shown[g]) /\ \A x \in Feeds \ {g} : shown'[x] = shown[x]
    BY <1>0, <1>2 DEF ReadApplied, WindowTypes
  <2>4. CASE f # g
    <3>1. read'[f] = read[f]
      BY <1>0, <2>1, <2>4 DEF WindowTypes
    <3> QED
      BY <1>f, <2>1, <2>2, <2>3, <2>4, <3>1, FreshStays DEF Recovering
  <2>5. CASE f = g /\ dirty[g]
    <3>1. read'[g] \in {"waiting", "asked"}
      BY <1>0, <2>1, <2>5 DEF WindowTypes, FirstState
    <3> QED
      BY <2>2, <2>5, <3>1 DEF Fresh, Reading
  <2>6. CASE f = g /\ ~dirty[g]
    <3>1. shown[g] <= answer[g] /\ answer[g] <= committed[g]
      BY <2>1 DEF WindowShape
    <3>2. shown[g] \in Nat /\ answer[g] \in Nat /\ committed[g] \in Nat
      BY <1>0 DEF WindowTypes
    <3>3. CASE shown[g] = committed[g]
      <4>1. answer[g] = committed[g]
        BY <3>1, <3>2, <3>3
      <4> QED
        BY <1>f, <2>3, <2>6, <3>3, <4>1 DEF Fresh
    <3>4. CASE Recovering(f)
      BY <2>1, <3>4 DEF Recovering, Fresh
    <3>5. CASE Reading(f)
      <4>1. valid[g] /\ answer[g] = committed[g]
        BY <2>1, <2>6, <3>5 DEF Reading
      <4> QED
        BY <1>f, <2>3, <2>6, <4>1 DEF Fresh
    <3> QED
      BY <2>6, <3>3, <3>4, <3>5 DEF Fresh
  <2> QED
    BY <2>4, <2>5, <2>6
<1>3. ASSUME NEW g \in Feeds, ReadFails(g) PROVE Fresh(f)'
  <2>1. CASE AwaitedByRecovery(g)
    BY <1>3, <2>1 DEF ReadFails, Fresh, Recovering
  <2>2. CASE ~AwaitedByRecovery(g)
    <3>1. RecoveryAsked
      BY <1>3, <2>2 DEF ReadFails
    <3> QED
      BY <1>0, <3>1, AskedByRecovery DEF Fresh
  <2> QED
    BY <2>1, <2>2
<1>4. ASSUME MetadataWaited PROVE Fresh(f)'
  <2>1. /\ read'[Dashboard] = "asked" /\ \A x \in Feeds \ {Dashboard} : read'[x] = read[x]
        /\ \A x \in Feeds \ {Dashboard} : dirty'[x] = dirty[x]
    BY <1>0, <1>4, ReadEffect DEF MetadataWaited, Reads
  <2>2. UNCHANGED <<valid, answer, shown, recovery, requested>> /\ valid[Dashboard]
    BY <1>4 DEF MetadataWaited, recoveryVars, WindowShape
  <2>3. CASE f = Dashboard
    BY <2>1, <2>2, <2>3 DEF Fresh, Reading
  <2>4. CASE f # Dashboard
    BY <1>f, <2>1, <2>2, <2>4, FreshStays DEF Recovering
  <2> QED
    BY <2>3, <2>4
<1>5. ASSUME RecoveryBegins PROVE Fresh(f)'
  <2>1. CASE f = Dashboard
    <3>1. Asks({Dashboard}) /\ valid'[Dashboard]
      BY <1>0, <1>5 DEF RecoveryBegins
    <3> QED
      BY <1>0, <2>1, <3>1, AskedIsFresh
  <2>2. CASE f # Dashboard
    BY <1>5, <2>2 DEF RecoveryBegins, Fresh, Recovering
  <2> QED
    BY <2>1, <2>2
<1>6. ASSUME RecoveryReads PROVE Fresh(f)'
  <2>1. Asks(Sessions) /\ recovery = "metadata" /\ read[Dashboard] = "idle" /\ UNCHANGED <<valid, answer, shown, requested>>
    BY <1>6 DEF RecoveryReads
  <2>2. CASE f \in Sessions
    <3>1. read[f] = "idle" => valid'[f]
      BY <2>1 DEF WindowShape
    <3> QED
      BY <1>0, <2>1, <2>2, <3>1, AskedIsFresh
  <2>3. CASE f = Dashboard
    <3>1. shown[f] = committed[f] \/ requested
      BY <2>1, <2>3 DEF Fresh, Recovering, Reading
    <3> QED
      BY <1>f, <2>1, <3>1 DEF Fresh, Recovering
  <2> QED
    BY <2>2, <2>3 DEF Feeds
<1>7. ASSUME RecoveryEnds PROVE Fresh(f)'
  <2>1. ~requested /\ recovery = "transcripts" /\ UNCHANGED <<read, dirty, valid, answer, shown, requested>>
    BY <1>7 DEF RecoveryEnds, readVars
  <2> QED
    BY <1>f, <2>1, FreshStays DEF Recovering
<1> QED
  BY <1>1, <1>2, <1>3, <1>4, <1>5, <1>6, <1>7 DEF WindowStep, ReadStep, RecoveryStep

-----------------------------------------------------------------------------
(* Every step keeps the invariant                                          *)

LEMMA ProducersOwe ==
  ASSUME NamedTypes, WorkerShape, LateBatch, Owed, NEW p \in Producers, Publish(p) \/ SendStep(p)
  PROVE  LateBatch' /\ Owed'
<1>f. /\ UNCHANGED <<workerPc, seen>>
      /\ wakeLost => wakeLost'
      /\ generation' # generation => ResyncBumps(p)
  BY ProducerStepFrame
<1>1. LateBatch'
  <2> SUFFICES ASSUME ~wakeLost', workerPc' = "conflate", seen' # generation' PROVE MarkerComes'
    BY DEF LateBatch
  <2>1. CASE generation' = generation
    <3>1. MarkerComes
      BY <1>f, <2>1 DEF LateBatch
    <3> QED
      BY <3>1, ProducerMarks
  <2>2. CASE generation' # generation
    BY <1>f, <2>2, BumpMarks
  <2> QED
    BY <2>1, <2>2
<1>2. Owed'
  <2> SUFFICES ASSUME ~wakeLost', NEW f \in Feeds PROVE (Delivering(f) \/ Fresh(f))'
    BY DEF Owed
  <2>1. Delivering(f) \/ Fresh(f)
    BY <1>f DEF Owed
  <2>2. CASE Delivering(f)
    BY <2>2, ProducerDelivers
  <2>3. CASE Fresh(f)
    <3>1. Fresh(f)' \/ Sends(p, f)'
      BY <2>3, ProducerFresh
    <3> QED
      BY <3>1 DEF Delivering
  <2> QED
    BY <2>1, <2>2, <2>3
<1> QED
  BY <1>1, <1>2

LEMMA WorkerOwes ==
  ASSUME NamedTypes, WorkerShape, WindowShape, LateBatch, Owed, WorkerStep
  PROVE  LateBatch' /\ Owed'
<1>f. /\ UNCHANGED <<committed, generation>>
      /\ workerPc # "emit" => UNCHANGED <<read, dirty, valid, answer, recovery, requested, shown>>
      /\ workerPc = "emit" => Emit
  BY DEF WorkerStep, WorkerReceives, WorkerLooks, WorkerDrains, WorkerLoads, WorkerConflates,
     WorkerHasBatch, WorkerRechecks, Emit, queueVars, windowVars, readVars, recoveryVars
<1>w. wakeLost => wakeLost'
  BY DEF WorkerStep, WorkerReceives, WorkerLooks, WorkerDrains, WorkerLoads, WorkerConflates,
     WorkerHasBatch, WorkerRechecks, Emit, NamedTypes, QueueTypes
<1>1. LateBatch'
  <2> SUFFICES ASSUME ~wakeLost', workerPc' = "conflate", seen' # generation' PROVE MarkerComes'
    BY DEF LateBatch
  <2>1. workerPc = "conflate" /\ seen' = seen
    BY <1>f DEF WorkerStep, WorkerReceives, WorkerLooks, WorkerDrains, WorkerLoads, WorkerConflates,
       WorkerHasBatch, WorkerRechecks, Emit
  <2>2. MarkerComes
    BY <1>f, <1>w, <2>1 DEF LateBatch
  <2> QED
    BY <2>1, <2>2, WorkerMarks
<1>2. Owed'
  <2> SUFFICES ASSUME ~wakeLost', NEW f \in Feeds PROVE (Delivering(f) \/ Fresh(f))'
    BY DEF Owed
  <2>1. Delivering(f) \/ Fresh(f)
    BY <1>w DEF Owed
  <2>2. CASE workerPc = "emit"
    BY <1>f, <2>1, <2>2, EmitOwes
  <2>3. CASE workerPc # "emit" /\ Delivering(f)
    BY <2>3, WorkerDelivers
  <2>4. CASE workerPc # "emit" /\ Fresh(f)
    BY <1>f, <2>4, FreshStays DEF Recovering
  <2> QED
    BY <2>1, <2>2, <2>3, <2>4
<1> QED
  BY <1>1, <1>2

LEMMA WindowOwes ==
  ASSUME NamedTypes, WindowShape, LateBatch, Owed, WindowStep
  PROVE  LateBatch' /\ Owed'
<1>f. UNCHANGED <<committed, prod, queue, resyncRequired, generation, workerPc, held, seen, batch, deferred, wakeLost>>
  BY WindowStepFrame
<1>1. MarkerComes => MarkerComes'
  BY <1>f DEF MarkerComes, Marking, Overflows
<1>2. LateBatch'
  BY <1>f, <1>1 DEF LateBatch
<1>3. ASSUME NEW f \in Feeds, Delivering(f) PROVE Delivering(f)'
  BY <1>f, <1>1, <1>3 DEF Delivering, Carries, Sends
<1>4. Owed'
  BY <1>f, <1>3, WindowFresh DEF Owed
<1> QED
  BY <1>2, <1>4

LEMMA InitOwed == Init => LateBatch /\ Owed
BY DEF Init, LateBatch, Owed, Fresh

LEMMA Inductive == IInv /\ [Next]_vars => IInv'
<1> SUFFICES ASSUME IInv, [Next]_vars PROVE IInv'
  OBVIOUS
<1>i. NamedTypes /\ WorkerShape /\ WindowShape /\ LateBatch /\ Owed
  BY DEF IInv
<1>t. NamedTypes'
  BY <1>i, NextTypes
<1>1. CASE UNCHANGED vars
  <2>1. UNCHANGED <<committed, prod, queue, resyncRequired, generation, workerPc, held, seen, batch, deferred, wakeLost>>
        /\ UNCHANGED <<read, dirty, valid, answer, recovery, requested, shown>>
    BY <1>1 DEF vars, queueVars, workerVars, windowVars, readVars, recoveryVars
  <2>2. WorkerShape' /\ WindowShape'
    BY <1>i, <2>1 DEF WorkerShape, WindowShape
  <2>3. MarkerComes => MarkerComes'
    BY <2>1 DEF MarkerComes, Marking, Overflows
  <2>4. ASSUME NEW f \in Feeds PROVE (Delivering(f) => Delivering(f)') /\ (Fresh(f) => Fresh(f)')
    BY <2>1, <2>3 DEF Delivering, Carries, Sends, Fresh, Reading, Recovering
  <2> QED
    BY <1>i, <1>t, <2>1, <2>2, <2>3, <2>4 DEF IInv, LateBatch, Owed
<1>2. ASSUME NEW p \in Producers, Publish(p) \/ SendStep(p) PROVE IInv'
  BY <1>i, <1>t, <1>2, ProducerShape, ProducersOwe DEF IInv
<1>3. CASE WorkerStep
  BY <1>i, <1>t, <1>3, WorkerStepShape, WorkerOwes DEF IInv
<1>4. CASE WindowStep
  BY <1>i, <1>t, <1>4, WindowStepShape, WindowOwes DEF IInv
<1> QED
  BY <1>1, <1>2, <1>3, <1>4 DEF Next, WindowStep

THEOREM Invariant == Spec => []IInv
<1>1. Init => IInv
  BY InitTypes, InitShape, InitOwed DEF IInv
<1> QED
  BY <1>1, Inductive, PTL DEF Spec

(* A window with nothing under way behind the database shows what the      *)
(* database holds, whatever overflowed, was dropped as stale or failed to   *)
(* be read (DashboardDelivery::send, require_resync,                        *)
(* prepare_dashboard_batch, recoverDashboard); but for a lost Wake and a    *)
(* flag that stays up.                                                      *)
THEOREM QuietWindowsAreCaughtUp == Spec => []QuietCaughtUp
<1>1. IInv => QuietCaughtUp
  <2> SUFFICES ASSUME IInv, Quiet, ~resyncRequired, ~wakeLost, NEW f \in Feeds PROVE shown[f] = committed[f]
    BY DEF QuietCaughtUp, CaughtUp
  <2>0. /\ queue = <<>> /\ workerPc = "recv" /\ deferred = <<>> /\ recovery = "idle" /\ read[f] = "idle"
        /\ \A p \in Producers : prod[p].pc = "idle"
    BY DEF Quiet, At
  <2>1. ~MarkerComes
    BY <2>0 DEF MarkerComes, Marking, Overflows, In
  <2>2. ~Carries(f)
    BY <2>0 DEF Carries, In
  <2>3. \A p \in Producers : ~Sends(p, f)
    BY <2>0 DEF Sends
  <2>4. ~Recovering(f) /\ ~Reading(f)
    BY <2>0 DEF Recovering, Reading, IInv, WindowShape
  <2> QED
    BY <2>1, <2>2, <2>3, <2>4 DEF IInv, Owed, Delivering, Fresh
<1> QED
  BY <1>1, Invariant, PTL
=============================================================================
