------------------------- MODULE StreamFlush_proofs -------------------------
(***************************************************************************)
(* The flush queue and its timers for any number of chunks, turns, ways to *)
(* end one and refusals: types, nothing lost, protocol lines whole, what   *)
(* an end stores, and a flush that is on its way.                          *)
(***************************************************************************)
EXTENDS StreamFlush, FiniteSets, FiniteSetTheorems, SequenceTheorems, TLAPS

-----------------------------------------------------------------------------
(* The inductive invariant                                                 *)

(* Each read of the reader pays for one chunk and one timer of each kind. *)
Owed(k) == IF k = "batch" THEN {"emitting", "batch"}
                          ELSE {"emitting", "batch", "batch-gen", "idle"}
Used(k) == {i \in Timers : timer[k][i].pc # "done" \/ handle[k] = i}
Paid(n, pcs) == IF reader.pc \in pcs THEN n + 1 <= read ELSE n <= read
ReadPays ==
  /\ read \in 0..MaxChunks /\ reader.gen \in 0..read
  /\ Paid(Len(kind), {"emitting"})
  /\ \A k \in TimerKinds : Paid(gen[k], Owed(k))
  /\ \A k \in TimerKinds : IsFiniteSet(Used(k)) /\ Paid(Cardinality(Used(k)), Owed(k))
  /\ reader.pc = "idle-arm" => Cardinality(Used("idle")) + 1 <= read

(* A session without an entry has nothing buffered. *)
ClosedIsEmpty ==
  ~open => kind = <<>> /\ raws = <<>> /\ rows = <<>> /\ line = <<>> /\ stored = <<>> /\ timeline = <<>>

(* Chunks are in rows in their order, and the open line is the rest. *)
All == timeline \o rows
Chain(all, l, n) ==
  /\ \A r \in 1..Len(all) : all[r] # <<>> /\ CountsFrom(all[r], EndOf(all, r - 1))
  /\ CountsFrom(l, EndOf(all, Len(all))) /\ EndOf(all, Len(all)) + Len(l) = n
RowsAccepted == \A r \in 1..Len(All) : \A i \in 1..Len(All[r]) : All[r][i] <= Len(kind)
RawKept == stored \o raws = [i \in 1..Len(kind) |-> i]
Chained == RawKept /\ Chain(All, line, Len(kind)) /\ RowsAccepted

(* An exit is on its way to a delete without a last flush only with a Stop, *)
(* and whoever is about to drop the entry has stored what was sealed.       *)
StopGoesFirst == open /\ ender["exit"] \in {"flush", "delete"} => Terminating
SealedAccepted == sealed <= Len(kind)
SealedStored ==
  open /\ \/ ender["stop"] = "delete" \/ ender["exit"] = "delete"
          \/ ender["exit"] = "settle" /\ ~Terminating
    => \A i \in 1..sealed : i \in ToSet(stored)

(* A registered batch timer will find its generation, and who is between   *)
(* the locks of a cancellation has taken the handle.                       *)
HandleFires ==
  handle["batch"] # 0 =>
    LET t == timer["batch"][handle["batch"]] IN t.pc = "awake" \/ (t.pc = "sleeping" /\ t.gen = gen["batch"])
CancelledHasNone ==
  /\ (\E i \in Timers : timer["idle"][i].pc = "cancelling") => handle["batch"] = 0
  /\ (\E e \in Enders : ender[e] = "batch-gen") => handle["batch"] = 0
  /\ reader.pc = "batch-gen" => handle["batch"] = 0
FlushedIsEmpty ==
  reader.pc = "batch-gen" \/ (reader.pc = "batch" /\ ~reader.pending) => raws = <<>>
Active == {"awake", "stopping", "cancelling", "flushing"}
ActiveTimer == \E i \in Timers, k \in TimerKinds : timer[k][i].pc \in Active
ActiveEnder == \E e \in Enders : ender[e] \notin {"none", "done"}
SomeoneFlushes ==
  open /\ raws # <<>> =>
    (reader.pc = "batch" /\ reader.pending) \/ handle["batch"] # 0 \/ ActiveTimer \/ ActiveEnder
NoneRefused == \A e \in Enders : ender[e] # "refused"
Timely == HandleFires /\ CancelledHasNone /\ SomeoneFlushes
Fires == FlushedIsEmpty /\ NoneRefused /\ (~crossed => Timely)
Firing == failures = MaxFailures => Fires

StopNeverFinal == ender["stop"] \notin {"flush-final", "settle"}
Ends == StopNeverFinal /\ StopGoesFirst /\ SealedAccepted /\ SealedStored /\ "running" \notin lost
IInv == TypeOK /\ ReadPays /\ ClosedIsEmpty /\ Chained /\ ProtocolLinesWhole /\ Ends /\ Firing

-----------------------------------------------------------------------------
(* Types by name                                                           *)

QueueTypes ==
  /\ kind \in Seq(Kinds) /\ raws \in Seq(ChunkIds) /\ line \in Seq(ChunkIds) /\ stored \in Seq(ChunkIds)
  /\ rows \in Seq(Rows) /\ timeline \in Seq(Rows) /\ failures \in 0..MaxFailures
Readers == [pc : ReaderPcs, pending : BOOLEAN, fragment : BOOLEAN, gen : 0..MaxChunks]
ControlTypes ==
  /\ open \in BOOLEAN /\ launching \in BOOLEAN /\ turns \in 0..MaxTurns /\ read \in 0..MaxChunks /\ reader \in Readers
  /\ ender \in [Enders -> EnderPcs] /\ sealed \in 0..MaxChunks /\ crossed \in BOOLEAN /\ lost \subseteq Causes
TimerTypes ==
  /\ handle \in [TimerKinds -> 0..MaxChunks] /\ gen \in [TimerKinds -> 0..MaxChunks]
  /\ timer \in [TimerKinds -> [Timers -> [pc : TimerPcs, gen : 0..MaxChunks]]]

LEMMA Named == TypeOK <=> QueueTypes /\ ControlTypes /\ TimerTypes
BY DEF TypeOK, QueueTypes, ControlTypes, TimerTypes, Readers

LEMMA Bounds == MaxChunks \in Nat /\ MaxTurns \in Nat /\ MaxFailures \in Nat
BY BoundsAssumption

-----------------------------------------------------------------------------
(* Sequences of chunks and of rows                                         *)

LEMMA SeqIsRow ==
  ASSUME NEW l \in Seq(ChunkIds), l # <<>>, Len(l) <= MaxChunks
  PROVE  l \in Rows
<1>1. Len(l) \in 1..MaxChunks
  BY EmptySeq, Bounds
<1>2. l \in [1..Len(l) -> ChunkIds]
  OBVIOUS
<1> QED
  BY <1>1, <1>2 DEF Rows

LEMMA RowIsSeq ==
  ASSUME NEW l \in Rows
  PROVE  l \in Seq(ChunkIds) /\ Len(l) \in 1..MaxChunks
<1>1. PICK n \in 1..MaxChunks : l \in [1..n -> ChunkIds]
  BY DEF Rows
<1>2. n \in Nat
  BY Bounds
<1> QED
  BY <1>1, <1>2

LEMMA EndOfType ==
  ASSUME NEW all \in Seq(Rows)
  PROVE  \A r \in 0..Len(all) : EndOf(all, r) \in Nat
<1> TAKE r \in 0..Len(all)
<1>1. CASE r = 0
  BY <1>1 DEF EndOf
<1>2. CASE r # 0
  <2>1. all[r] \in Rows
    BY <1>2
  <2>2. all[r][Len(all[r])] \in ChunkIds
    BY <2>1, RowIsSeq
  <2> QED
    BY <1>2, <2>2, Bounds DEF EndOf, ChunkIds
<1> QED
  BY <1>1, <1>2

(* Appending after concatenating *)
LEMMA ConcatAppend ==
  ASSUME NEW S, NEW a \in Seq(S), NEW b \in Seq(S), NEW x \in S
  PROVE  a \o Append(b, x) = Append(a \o b, x)
<1>1. <<x>> \in Seq(S) /\ a \o b \in Seq(S)
  BY ConcatProperties
<1>2. Append(b, x) = b \o <<x>> /\ Append(a \o b, x) = (a \o b) \o <<x>>
  BY <1>1, AppendIsConcat
<1> QED
  BY <1>1, <1>2, ConcatAssociative

(* One more chunk on the open line *)
LEMMA ChainGrows ==
  ASSUME NEW all \in Seq(Rows), NEW l \in Seq(ChunkIds), NEW n \in Nat, n + 1 \in ChunkIds,
         Chain(all, l, n)
  PROVE  Chain(all, Append(l, n + 1), n + 1)
<1> DEFINE longer == Append(l, n + 1)
<1>1. EndOf(all, Len(all)) \in Nat
  BY EndOfType
<1>2. /\ Len(longer) = Len(l) + 1 /\ longer[Len(l) + 1] = n + 1 /\ Len(l) \in Nat
      /\ \A i \in 1..Len(l) : longer[i] = l[i]
  BY AppendProperties
<1> HIDE DEF longer
<1>3. EndOf(all, Len(all)) + Len(l) = n
  BY DEF Chain
<1>4. ASSUME NEW i \in 1..Len(longer) PROVE longer[i] = EndOf(all, Len(all)) + i
  <2>1. CASE i \in 1..Len(l)
    BY <1>2, <2>1 DEF Chain, CountsFrom
  <2>2. CASE i = Len(l) + 1
    BY <1>1, <1>2, <1>3, <2>2
  <2> QED
    BY <1>2, <2>1, <2>2
<1>5. CountsFrom(longer, EndOf(all, Len(all)))
  BY <1>4 DEF CountsFrom
<1>6. EndOf(all, Len(all)) + Len(longer) = n + 1
  <2> DEFINE end == EndOf(all, Len(all))
  <2>1. Len(longer) = Len(l) + 1 /\ Len(l) \in Nat /\ end \in Nat /\ end + Len(l) = n
    BY <1>1, <1>2, <1>3
  <2> HIDE DEF end
  <2>2. \A m, e \in Nat : e + m = n => e + (m + 1) = n + 1
    OBVIOUS
  <2>3. end + Len(longer) = n + 1
    BY <2>1, <2>2
  <2> QED
    BY <2>3 DEF end
<1>7. Chain(all, longer, n + 1)
  BY <1>5, <1>6 DEF Chain
<1> QED
  BY <1>7 DEF longer

(* The open line becomes a row. *)
LEMMA ChainCut ==
  ASSUME NEW all \in Seq(Rows), NEW l \in Rows, NEW n \in Nat, Chain(all, l, n)
  PROVE  Chain(Append(all, l), <<>>, n)
<1> DEFINE cut == Append(all, l)
<1>1. EndOf(all, Len(all)) \in Nat /\ l \in Seq(ChunkIds) /\ Len(l) \in Nat \ {0}
  BY EndOfType, RowIsSeq, Bounds
<1>2. /\ Len(cut) = Len(all) + 1 /\ cut[Len(all) + 1] = l
      /\ \A r \in 1..Len(all) : cut[r] = all[r]
  BY AppendProperties
<1> HIDE DEF cut
<1>3. \A r \in 0..Len(all) : EndOf(cut, r) = EndOf(all, r)
  BY <1>2 DEF EndOf
<1>4. l[Len(l)] = EndOf(all, Len(all)) + Len(l) /\ EndOf(all, Len(all)) + Len(l) = n
  BY <1>1 DEF Chain, CountsFrom
<1>5. EndOf(cut, Len(cut)) = n
  BY <1>2, <1>4 DEF EndOf
<1>6. ASSUME NEW r \in 1..Len(cut) PROVE cut[r] # <<>> /\ CountsFrom(cut[r], EndOf(cut, r - 1))
  <2>1. CASE r \in 1..Len(all)
    BY <1>2, <1>3, <2>1 DEF Chain
  <2>2. CASE r = Len(all) + 1
    <3>1. l # <<>>
      BY <1>1
    <3> QED
      BY <1>2, <1>3, <2>2, <3>1 DEF Chain
  <2> QED
    BY <1>2, <2>1, <2>2
<1>7. CountsFrom(<<>>, n) /\ Len(<<>>) = 0
  BY DEF CountsFrom
<1> QED
  BY <1>5, <1>6, <1>7 DEF Chain, cut

-----------------------------------------------------------------------------
(* The operations of the queue                                             *)

Same == kind' = kind /\ stored' \o raws' = stored \o raws
Unmoved == Same /\ line' = line /\ All' = All
CutBy(l) == Same /\ line' = <<>> /\ All' = Append(All, l)

(* A transaction moves what it takes, or puts it back. *)
LEMMA StoresEffect ==
  ASSUME QueueTypes, NEW nr \in Seq(ChunkIds), NEW nw \in Seq(Rows), Stores(nr, nw)
  PROVE  /\ stored' \in Seq(ChunkIds) /\ raws' \in Seq(ChunkIds)
         /\ timeline' \in Seq(Rows) /\ rows' \in Seq(Rows) /\ failures' \in 0..MaxFailures
         /\ stored' \o raws' = stored \o nr /\ All' = timeline \o nw
         /\ \/ Refused /\ failures' # MaxFailures /\ stored' = stored
            \/ ~Refused /\ failures' = failures /\ raws' = <<>> /\ stored' = stored \o nr
<1>1. CASE stored' = stored \o nr /\ timeline' = timeline \o nw /\ raws' = <<>> /\ rows' = <<>> /\ UNCHANGED failures
  <2>1. stored' \in Seq(ChunkIds) /\ timeline' \in Seq(Rows) /\ raws' \in Seq(ChunkIds) /\ rows' \in Seq(Rows)
    BY <1>1, ConcatProperties, EmptySeq DEF QueueTypes
  <2>2. stored' \o raws' = stored' /\ timeline' \o rows' = timeline'
    BY <1>1, <2>1, ConcatEmptySeq
  <2> QED
    BY <1>1, <2>1, <2>2, Bounds DEF QueueTypes, All, Refused
<1>2. CASE /\ failures > 0 /\ failures' = failures - 1
           /\ raws' = nr /\ rows' = nw /\ UNCHANGED <<stored, timeline>>
  BY <1>2, Bounds DEF QueueTypes, All, Refused
<1> QED
  BY <1>1, <1>2 DEF Stores

(* What a flush may do with the open line *)
FlushOutcome(final) ==
  /\ QueueTypes' /\ (~open => UNCHANGED <<queue, failures>>)
  /\ \/ Unmoved
     \/ /\ open /\ line # <<>> /\ (kind[line[1]] # "json" \/ final)
        /\ CutBy(line)
  /\ \/ open /\ Refused /\ failures' # MaxFailures /\ stored' = stored
     \/ open /\ ~Refused /\ failures' = failures /\ raws' = <<>> /\ stored' = stored \o raws
     \/ ~open /\ ~Refused /\ failures' = failures

LEMMA Untouched ==
  ASSUME QueueTypes, UNCHANGED <<queue, failures>>
  PROVE  QueueTypes' /\ Unmoved /\ ~Refused
BY Bounds DEF queue, QueueTypes, Unmoved, Same, All, Refused

LEMMA FlushPendingEffect ==
  ASSUME QueueTypes, FlushPending
  PROVE  FlushOutcome(FALSE)
<1>1. CASE open
  <2>1. Stores(raws, rows) /\ UNCHANGED <<kind, line>>
    BY <1>1 DEF FlushPending
  <2> QED
    BY <1>1, <2>1, StoresEffect DEF FlushOutcome, QueueTypes, Unmoved, Same, All
<1>2. CASE ~open
  BY <1>2, Untouched DEF FlushPending, FlushOutcome
<1> QED
  BY <1>1, <1>2

LEMMA FlushTrailingEffect ==
  ASSUME QueueTypes, Len(line) <= MaxChunks, NEW final \in BOOLEAN, FlushTrailing(final)
  PROVE  FlushOutcome(final)
<1>1. CASE ~open
  BY <1>1, Untouched DEF FlushTrailing, FlushOutcome
<1>2. CASE open /\ (line = <<>> \/ (IncompleteJson /\ ~final))
  <2>1. Stores(raws, rows) /\ UNCHANGED <<kind, line>>
    BY <1>2 DEF FlushTrailing
  <2> QED
    BY <1>2, <2>1, StoresEffect DEF FlushOutcome, QueueTypes, Unmoved, Same, All
<1>3. CASE open /\ ~(line = <<>> \/ (IncompleteJson /\ ~final))
  <2>1. Stores(raws, Append(rows, line)) /\ line' = <<>> /\ kind' = kind
    BY <1>3 DEF FlushTrailing
  <2>2. line \in Rows
    BY <1>3, SeqIsRow DEF QueueTypes
  <2>3. Append(rows, line) \in Seq(Rows)
    BY <2>2, AppendProperties DEF QueueTypes
  <2>4. timeline \o Append(rows, line) = Append(timeline \o rows, line)
    BY <2>2, ConcatAppend DEF QueueTypes
  <2>5. kind[line[1]] # "json" \/ final
    BY <1>3 DEF IncompleteJson
  <2> QED
    BY <1>3, <2>1, <2>3, <2>4, <2>5, StoresEffect, EmptySeq DEF FlushOutcome, QueueTypes, CutBy, Same, All
<1> QED
  BY <1>1, <1>2, <1>3

(* Output that is accepted lengthens the line or ends it. *)
Accepted ==
  /\ open /\ QueueTypes' /\ Len(kind) + 1 \in ChunkIds
  /\ \E k \in Kinds :
       /\ kind' = Append(kind, k)
       /\ stored' \o raws' = Append(stored \o raws, Len(kind) + 1)
       /\ \/ k # "line" /\ line' = Append(line, Len(kind) + 1) /\ All' = All
          \/ k = "line" /\ line' = <<>> /\ All' = Append(All, Append(line, Len(kind) + 1))

AcceptOutcome(fragment) ==
  /\ Accepted
  /\ \/ reader' = Reader("batch", TRUE, fragment) /\ stored' = stored /\ failures' = failures
     \/ ~fragment /\ Refused /\ failures' # MaxFailures /\ stored' = stored /\ reader' = Reader("reading", FALSE, FALSE)
     \/ ~fragment /\ ~Refused /\ failures' = failures /\ raws' = <<>> /\ reader' = Reader("batch", FALSE, FALSE)
          /\ \A i \in ChunkIds : i \in ToSet(stored) => i \in ToSet(stored')

LEMMA StoredGrows ==
  ASSUME NEW a \in Seq(ChunkIds), NEW b \in Seq(ChunkIds), NEW i, i \in ToSet(a)
  PROVE  i \in ToSet(a \o b)
<1>1. PICK j \in 1..Len(a) : a[j] = i
  BY DEF ToSet
<1>2. (a \o b)[j] = i /\ j \in 1..Len(a \o b)
  BY <1>1, ConcatProperties
<1>3. DOMAIN (a \o b) = 1..Len(a \o b)
  BY ConcatProperties, LenProperties
<1> QED
  BY <1>2, <1>3 DEF ToSet

LEMMA QueueOutputEffect ==
  ASSUME QueueTypes, NEW k \in Kinds, QueueOutput(k), Len(line) <= Len(kind), Len(kind) + 1 \in ChunkIds
  PROVE  \/ ~open /\ UNCHANGED <<queue, failures>> /\ reader' = Reader("batch", FALSE, FALSE)
         \/ open /\ \E fragment \in BOOLEAN : AcceptOutcome(fragment)
<1> DEFINE id == Len(kind) + 1
           newLine == Append(line, id)
<1>1. CASE ~open
  BY <1>1 DEF QueueOutput
<1>2. CASE open
  <2>1. newLine \in Seq(ChunkIds) /\ newLine # <<>> /\ Len(newLine) <= MaxChunks
    <3>1. newLine \in Seq(ChunkIds) /\ newLine # <<>> /\ Len(newLine) = Len(line) + 1
      BY AppendProperties DEF QueueTypes
    <3>2. Len(line) \in Nat /\ Len(kind) \in Nat
      BY LenProperties DEF QueueTypes
    <3> QED
      BY <3>1, <3>2, Bounds DEF ChunkIds
  <2>2. newLine \in Rows /\ Append(raws, id) \in Seq(ChunkIds) /\ Append(kind, k) \in Seq(Kinds)
    BY <2>1, SeqIsRow, AppendProperties DEF QueueTypes
  <2>3. Append(rows, newLine) \in Seq(Rows)
    BY <2>2, AppendProperties DEF QueueTypes
  <2>4. /\ stored \o Append(raws, id) = Append(stored \o raws, id)
        /\ timeline \o Append(rows, newLine) = Append(timeline \o rows, newLine)
    <3>1. stored \o Append(raws, id) = Append(stored \o raws, id)
      BY ConcatAppend DEF QueueTypes
    <3> HIDE DEF newLine
    <3>2. timeline \o Append(rows, newLine) = Append(timeline \o rows, newLine)
      BY <2>2, ConcatAppend DEF QueueTypes
    <3> QED
      BY <3>1, <3>2
  <2>5. CASE /\ k # "line" /\ kind' = Append(kind, k)
             /\ raws' = Append(raws, id) /\ line' = newLine
             /\ reader' = Reader("batch", TRUE, TRUE)
             /\ UNCHANGED <<rows, stored, timeline, failures>>
    BY <1>2, <2>1, <2>2, <2>4, <2>5 DEF AcceptOutcome, Accepted, QueueTypes, All
  <2>6. CASE /\ k = "line" /\ kind' = Append(kind, k)
             /\ raws' = Append(raws, id) /\ rows' = Append(rows, newLine) /\ line' = <<>>
             /\ reader' = Reader("batch", TRUE, FALSE)
             /\ UNCHANGED <<stored, timeline, failures>>
    <3>1. QueueTypes'
      BY <2>2, <2>3, <2>6, EmptySeq DEF QueueTypes
    <3>2. Accepted
      BY <1>2, <2>4, <2>6, <3>1 DEF Accepted, All
    <3> QED
      BY <1>2, <2>6, <3>2 DEF AcceptOutcome
  <2>7. CASE /\ k = "line" /\ kind' = Append(kind, k) /\ line' = <<>>
             /\ Stores(Append(raws, id), Append(rows, newLine))
             /\ reader' = Reader(IF Refused THEN "reading" ELSE "batch", FALSE, FALSE)
    <3>1. /\ stored' \in Seq(ChunkIds) /\ raws' \in Seq(ChunkIds)
          /\ timeline' \in Seq(Rows) /\ rows' \in Seq(Rows) /\ failures' \in 0..MaxFailures
          /\ stored' \o raws' = stored \o Append(raws, id) /\ All' = timeline \o Append(rows, newLine)
          /\ \/ Refused /\ failures' # MaxFailures /\ stored' = stored
             \/ ~Refused /\ failures' = failures /\ raws' = <<>> /\ stored' = stored \o Append(raws, id)
      BY <2>2, <2>3, <2>7, StoresEffect
    <3>2. QueueTypes'
      BY <2>2, <2>7, <3>1, EmptySeq DEF QueueTypes
    <3>3. Accepted
      BY <1>2, <2>4, <2>7, <3>1, <3>2 DEF Accepted, All
    <3>4. \A i \in ChunkIds : i \in ToSet(stored) => i \in ToSet(stored \o Append(raws, id))
      BY <2>2, StoredGrows DEF QueueTypes
    <3> QED
      BY <1>2, <2>7, <3>1, <3>3, <3>4 DEF AcceptOutcome
  <2> QED
    BY <1>2, <2>5, <2>6, <2>7 DEF QueueOutput
<1> QED
  BY <1>1, <1>2

(* What a step may do to the queue *)
ExitStays == ender["exit"] # "none" => ender["exit"]' # "none"
Moves ==
  \/ /\ Unmoved /\ QueueTypes' /\ (~open' => ~open) /\ (~open => UNCHANGED queue)
     /\ ExitStays \/ ~open
  \/ /\ CutBy(line) /\ QueueTypes' /\ open /\ open' /\ ExitStays
     /\ line # <<>> /\ (kind[line[1]] # "json" \/ ender["exit"]' # "none")
  \/ Accepted /\ open' /\ ExitStays
  \/ /\ kind' = <<>> /\ raws' = <<>> /\ rows' = <<>> /\ line' = <<>>
     /\ stored' = <<>> /\ timeline' = <<>> /\ failures' = failures

LEMMA Fits ==
  ASSUME QueueTypes, ControlTypes, ReadPays, Chained
  PROVE  /\ Len(line) <= Len(kind) /\ Len(kind) <= MaxChunks /\ Len(kind) \in Nat
         /\ Len(line) <= MaxChunks /\ Len(line) \in Nat
         /\ reader.pc = "emitting" => Len(kind) + 1 \in ChunkIds
<1>1. EndOf(All, Len(All)) \in Nat
  <2>1. All \in Seq(Rows)
    BY ConcatProperties DEF QueueTypes, All
  <2> QED
    BY <2>1, EndOfType
<1>2. Len(line) \in Nat /\ Len(kind) \in Nat
  BY LenProperties DEF QueueTypes
<1>3. EndOf(All, Len(All)) + Len(line) = Len(kind)
  BY DEF Chained, Chain
<1>4. Len(line) <= Len(kind)
  BY <1>1, <1>2, <1>3
<1>5. Len(kind) <= MaxChunks /\ (reader.pc = "emitting" => Len(kind) + 1 \in ChunkIds)
  BY <1>2, Bounds DEF ReadPays, Paid, ControlTypes, ChunkIds
<1> QED
  BY <1>2, <1>4, <1>5, Bounds

LEMMA FlushMoves ==
  ASSUME QueueTypes, NEW final \in BOOLEAN, FlushOutcome(final), open' = open, ExitStays,
         final => ender["exit"]' # "none"
  PROVE  Moves
BY DEF FlushOutcome, Moves

LEMMA RestMoves ==
  ASSUME QueueTypes, UNCHANGED <<queue, failures>>, UNCHANGED <<open, ender>>
  PROVE  Moves
BY Untouched DEF Moves, ExitStays

(* Every step moves the queue in one of these ways. *)
LEMMA StepsMove ==
  ASSUME QueueTypes, ControlTypes, ReadPays, Chained, StopNeverFinal, Next
  PROVE  Moves
<1> USE DEF ControlTypes
<1>1. CASE TurnStarts
  BY <1>1, Untouched DEF TurnStarts, Moves
<1>2. CASE ReaderGets
  BY <1>2, RestMoves DEF ReaderGets, ending
<1>3. CASE ReaderQueues
  <2>1. UNCHANGED <<open, ender>> /\ reader.pc = "emitting"
    BY <1>3 DEF ReaderQueues, ending
  <2>2. PICK k \in Kinds : QueueOutput(k)
    BY <1>3 DEF ReaderQueues
  <2>3. (~open /\ UNCHANGED <<queue, failures>>) \/ (open /\ Accepted)
    BY <2>1, <2>2, QueueOutputEffect, Fits DEF AcceptOutcome
  <2>4. CASE ~open /\ UNCHANGED <<queue, failures>>
    BY <2>1, <2>4, RestMoves
  <2>5. CASE open /\ Accepted
    BY <2>1, <2>5 DEF Moves, ExitStays
  <2> QED
    BY <2>3, <2>4, <2>5
<1>4. CASE ReaderBatch \/ ReaderBatchGen \/ ReaderIdle \/ ReaderIdleArm
  BY <1>4, RestMoves DEF ReaderBatch, ReaderBatchGen, ReaderIdle, ReaderIdleArm, ending
<1>5. ASSUME NEW i \in Timers, TimerStep(i) PROVE Moves
  <2>1. ASSUME NEW k \in TimerKinds, TimerWakes(k, i) \/ TimerLeaves(k, i) PROVE Moves
    BY <2>1, RestMoves DEF TimerWakes, TimerLeaves, ending
  <2>2. ASSUME NEW k \in TimerKinds, TimerFlushes(k, i) PROVE Moves
    <3>1. FlushOutcome(FALSE)
      BY <2>2, FlushPendingEffect, FlushTrailingEffect, Fits DEF TimerFlushes
    <3> QED
      BY <2>2, <3>1, FlushMoves DEF TimerFlushes, ending, ExitStays
  <2>3. CASE IdleAborts(i) \/ IdleDropsBatchGen(i)
    BY <2>3, RestMoves DEF IdleAborts, IdleDropsBatchGen, ending
  <2> QED
    BY <1>5, <2>1, <2>2, <2>3 DEF TimerStep
<1>6. ASSUME NEW e \in Enders, EnderBegins(e) \/ EnderCancels(e) PROVE Moves
  <2>1. QueueTypes' /\ Unmoved /\ UNCHANGED <<queue, open>>
    BY <1>6, Untouched DEF EnderBegins, EnderCancels
  <2>2. ExitStays
    BY <1>6 DEF EnderBegins, EnderCancels, EnderGoes, ExitStays, EnderPcs, Enders
  <2> QED
    BY <2>1, <2>2 DEF Moves
<1>7. ASSUME NEW e \in Enders, EnderFlushes(e) PROVE Moves
  <2>1. PICK final \in BOOLEAN : /\ FlushTrailing(final) /\ (final => ender[e] = "flush-final")
                                 /\ \E pc \in EnderPcs \ {"none"} : EnderGoes(e, pc)
    BY <1>7 DEF EnderFlushes, EnderPcs
  <2>2. FlushOutcome(final) /\ open' = open
    BY <1>7, <2>1, FlushTrailingEffect, Fits DEF EnderFlushes
  <2>3. ExitStays /\ (final => ender["exit"]' # "none")
    BY <2>1 DEF EnderGoes, ExitStays, Enders, StopNeverFinal
  <2> QED
    BY <2>2, <2>3, FlushMoves
<1>8. ASSUME NEW e \in Enders, EnderDeletes(e) PROVE Moves
  BY <1>8 DEF EnderDeletes, Drops, Moves
<1>9. CASE ExitReturns
  <2>1. QueueTypes' /\ Unmoved /\ UNCHANGED <<queue, open>>
    BY <1>9, Untouched DEF ExitReturns
  <2>2. ExitStays
    BY <1>9 DEF ExitReturns, EnderGoes, ExitStays, Enders
  <2> QED
    BY <2>1, <2>2 DEF Moves
<1>10. CASE LaunchResolves
  BY <1>10, RestMoves DEF LaunchResolves
<1>11. CASE LaunchFails
  BY <1>11 DEF LaunchFails, Drops, Moves
<1> QED
  BY <1>1, <1>2, <1>3, <1>4, <1>5, <1>6, <1>7, <1>8, <1>9, <1>10, <1>11, EndingsAssumption
     DEF Next, ReaderStep, EnderStep, Enders

-----------------------------------------------------------------------------
(* What the moves keep                                                     *)

LEMMA RowsByIndex ==
  QueueTypes =>
    /\ All \in Seq(Rows)
    /\ ProtocolLinesWhole <=>
         \A r \in 1..Len(All) :
           kind[All[r][1]] = "json" /\ kind[All[r][Len(All[r])]] # "line" => ender["exit"] # "none"
<1> HAVE QueueTypes
<1>1. All \in Seq(Rows)
  BY ConcatProperties DEF QueueTypes, All
<1>2. ToSet(All) = {All[r] : r \in 1..Len(All)}
  BY <1>1, LenProperties DEF ToSet
<1> QED
  BY <1>1, <1>2 DEF ProtocolLinesWhole, All

LEMMA EmptyIsEmpty ==
  /\ \A S : <<>> \in Seq(S)
  /\ Len(<<>>) = 0 /\ <<>> \o <<>> = <<>> /\ <<>> = [i \in 1..0 |-> i]
<1>1. \A S : <<>> \in Seq(S) /\ Len(<<>>) = 0
  BY EmptySeq
<1>2. <<>> \in Seq(Nat) /\ [i \in 1..0 |-> i] \in Seq(Nat) /\ Len([i \in 1..0 |-> i]) = 0
  OBVIOUS
<1>3. <<>> = [i \in 1..0 |-> i]
  BY <1>1, <1>2, SeqEqual
<1>4. <<>> \o <<>> = <<>>
  BY <1>2, ConcatEmptySeq
<1> QED
  BY <1>1, <1>3, <1>4

(* After a delete *)
Nothing == kind = <<>> /\ raws = <<>> /\ rows = <<>> /\ line = <<>> /\ stored = <<>> /\ timeline = <<>>
LEMMA NothingIsFine ==
  Nothing => /\ failures \in 0..MaxFailures => QueueTypes
             /\ ClosedIsEmpty /\ Chained /\ ProtocolLinesWhole
<1> HAVE Nothing
<1> USE DEF Nothing
<1>1. All = <<>> /\ Len(All) = 0
  BY EmptyIsEmpty DEF All
<1>2. failures \in 0..MaxFailures => QueueTypes
  BY EmptyIsEmpty DEF QueueTypes
<1>3. RawKept
  BY EmptyIsEmpty DEF RawKept
<1>4. Chain(All, line, Len(kind)) /\ RowsAccepted
  BY <1>1, EmptyIsEmpty DEF Chain, RowsAccepted, CountsFrom, EndOf
<1>5. ProtocolLinesWhole
  <2>1. ToSet(timeline \o rows) = {}
    BY EmptyIsEmpty DEF ToSet
  <2> QED
    BY <2>1 DEF ProtocolLinesWhole
<1> QED
  BY <1>2, <1>3, <1>4, <1>5 DEF ClosedIsEmpty, Chained

LEMMA CutKeeps ==
  ASSUME QueueTypes, QueueTypes', Chained, Len(line) <= MaxChunks, CutBy(line), line # <<>>
  PROVE  Chained'
<1>1. line \in Rows /\ All \in Seq(Rows) /\ Len(kind) \in Nat
  BY SeqIsRow, RowsByIndex, LenProperties DEF QueueTypes
<1>2. Chain(Append(All, line), <<>>, Len(kind))
  BY <1>1, ChainCut DEF Chained
<1>3. Chain(All', line', Len(kind)') /\ RawKept'
  BY <1>2 DEF CutBy, Same, Chained, RawKept
<1>4. \A i \in 1..Len(line) : line[i] <= Len(kind)
  <2>1. EndOf(All, Len(All)) \in Nat
    BY <1>1, EndOfType
  <2> QED
    BY <1>1, <2>1 DEF Chained, Chain, CountsFrom
<1>5. ASSUME NEW r \in 1..Len(All') PROVE \A i \in 1..Len((All')[r]) : (All')[r][i] <= Len(kind)
  <2>1. Len(All') = Len(All) + 1 /\ (All')[Len(All) + 1] = line /\ \A q \in 1..Len(All) : (All')[q] = All[q]
    BY <1>1, AppendProperties DEF CutBy
  <2>2. CASE r \in 1..Len(All)
    BY <2>1, <2>2 DEF Chained, RowsAccepted
  <2>3. CASE r = Len(All) + 1
    BY <1>4, <2>1, <2>3
  <2> QED
    BY <1>1, <2>1, <2>2, <2>3
<1>6. RowsAccepted'
  BY <1>5 DEF RowsAccepted, CutBy, Same
<1> QED
  BY <1>3, <1>6 DEF Chained

LEMMA CountedAppend ==
  ASSUME NEW n \in Nat
  PROVE  Append([i \in 1..n |-> i], n + 1) = [i \in 1..(n + 1) |-> i]
<1> DEFINE a == [i \in 1..n |-> i]
           b == [i \in 1..(n + 1) |-> i]
<1>1. a \in Seq(Nat) /\ b \in Seq(Nat) /\ Len(a) = n /\ Len(b) = n + 1
  OBVIOUS
<1>2. Append(a, n + 1) \in Seq(Nat) /\ Len(Append(a, n + 1)) = n + 1
  BY <1>1, AppendProperties
<1>3. \A i \in 1..(n + 1) : Append(a, n + 1)[i] = b[i]
  BY <1>1, AppendProperties
<1> QED
  BY <1>1, <1>2, <1>3, SeqEqual

(* The chunk that ends its line is the last of a new row. *)
LEMMA AcceptedLine ==
  ASSUME QueueTypes, Chained, Len(line) <= Len(kind), Len(kind) + 1 \in ChunkIds
  PROVE  LET n == Len(kind) + 1 IN
         /\ Chain(All, Append(line, n), n) /\ Append(line, n) \in Rows
         /\ \A i \in 1..Len(Append(line, n)) : Append(line, n)[i] <= n
         /\ Len(Append(line, n)) = Len(line) + 1 /\ Append(line, n)[Len(line) + 1] = n
<1> DEFINE n == Len(kind) + 1
           new == Append(line, n)
<1>1. All \in Seq(Rows) /\ Len(kind) \in Nat /\ Len(line) \in Nat /\ n \in Nat /\ n <= MaxChunks
  BY RowsByIndex, LenProperties, Bounds DEF QueueTypes, ChunkIds
<1>2. Chain(All, new, n)
  BY <1>1, ChainGrows DEF Chained, QueueTypes
<1>3. new \in Seq(ChunkIds) /\ new # <<>> /\ Len(new) = Len(line) + 1 /\ new[Len(line) + 1] = n
  BY AppendProperties DEF QueueTypes
<1> HIDE DEF new
<1>4. new \in Rows
  <2>1. Len(new) <= MaxChunks
    BY <1>1, <1>3, Bounds
  <2> QED
    BY <1>3, <2>1, SeqIsRow
<1>5. \A i \in 1..Len(new) : new[i] <= n
  <2>1. EndOf(All, Len(All)) \in Nat /\ Len(new) \in Nat
    BY <1>1, <1>3, EndOfType
  <2> HIDE DEF n
  <2> QED
    BY <1>1, <1>2, <2>1 DEF Chain, CountsFrom
<1> QED
  BY <1>2, <1>3, <1>4, <1>5 DEF new

LEMMA AcceptKeeps ==
  ASSUME QueueTypes, Chained, Len(line) <= Len(kind), Accepted
  PROVE  Chained' /\ Len(kind)' = Len(kind) + 1 /\ \A i \in 1..Len(kind) : kind'[i] = kind[i]
<1> DEFINE n == Len(kind) + 1
           new == Append(line, n)
<1>1. PICK k \in Kinds :
       /\ kind' = Append(kind, k)
       /\ stored' \o raws' = Append(stored \o raws, n)
       /\ \/ k # "line" /\ line' = new /\ All' = All
          \/ k = "line" /\ line' = <<>> /\ All' = Append(All, new)
  BY DEF Accepted
<1>2. Len(kind) \in Nat /\ n \in ChunkIds /\ QueueTypes'
  BY LenProperties DEF QueueTypes, Accepted
<1>3. Len(kind') = n /\ \A i \in 1..Len(kind) : kind'[i] = kind[i]
  BY <1>1, <1>2, AppendProperties DEF QueueTypes
<1>4. RawKept'
  BY <1>1, <1>2, <1>3, CountedAppend DEF Chained, RawKept
<1>5. /\ Chain(All, new, n) /\ new \in Rows /\ All \in Seq(Rows)
      /\ \A i \in 1..Len(new) : new[i] <= n
  BY <1>2, AcceptedLine, RowsByIndex
<1>6. \A r \in 1..Len(All) : \A i \in 1..Len(All[r]) : All[r][i] <= n
  <2> SUFFICES ASSUME NEW r \in 1..Len(All), NEW i \in 1..Len(All[r]) PROVE All[r][i] <= n
    OBVIOUS
  <2>1. All[r] \in Rows
    BY <1>5
  <2>2. All[r][i] \in Nat /\ All[r][i] <= Len(kind)
    BY <2>1, RowIsSeq, Bounds DEF Chained, RowsAccepted, ChunkIds
  <2> QED
    BY <1>2, <2>2
<1> HIDE DEF new
<1>7. CASE line' = new /\ All' = All
  BY <1>3, <1>4, <1>5, <1>6, <1>7 DEF Chained, RowsAccepted
<1>8. CASE line' = <<>> /\ All' = Append(All, new)
  <2>1. Chain(All', line', Len(kind)')
    BY <1>2, <1>3, <1>5, <1>8, ChainCut
  <2>2. Len(All') = Len(All) + 1 /\ (All')[Len(All) + 1] = new /\ \A q \in 1..Len(All) : (All')[q] = All[q]
    BY <1>5, <1>8, AppendProperties
  <2>3. ASSUME NEW r \in 1..Len(All') PROVE \A i \in 1..Len((All')[r]) : (All')[r][i] <= n
    <3>1. CASE r \in 1..Len(All)
      BY <1>6, <2>2, <3>1
    <3>2. CASE r = Len(All) + 1
      BY <1>5, <2>2, <3>2
    <3> QED
      BY <1>5, <2>2, <3>1, <3>2
  <2>4. RowsAccepted'
    BY <1>3, <2>3 DEF RowsAccepted
  <2> QED
    BY <1>3, <1>4, <2>1, <2>4 DEF Chained
<1> QED
  BY <1>1, <1>3, <1>7, <1>8

(* A row that a newline did not end does not begin with JSON, or the exit is on. *)
LEMMA LinesKept ==
  ASSUME QueueTypes, QueueTypes', ControlTypes, ReadPays, Chained, ClosedIsEmpty, ProtocolLinesWhole, Moves
  PROVE  ProtocolLinesWhole'
<1> DEFINE Whole(row, kinds, gone) == kinds[row[1]] = "json" /\ kinds[row[Len(row)]] # "line" => gone
<1>1. /\ All \in Seq(Rows)
      /\ \A r \in 1..Len(All) : Whole(All[r], kind, ender["exit"] # "none")
      /\ ProtocolLinesWhole' <=> \A r \in 1..Len(All') : Whole((All')[r], kind', ender["exit"]' # "none")
  <2>1. (QueueTypes =>
           /\ All \in Seq(Rows)
           /\ ProtocolLinesWhole <=>
                \A r \in 1..Len(All) :
                  kind[All[r][1]] = "json" /\ kind[All[r][Len(All[r])]] # "line" => ender["exit"] # "none")'
    BY RowsByIndex, PTL
  <2> QED
    BY <2>1, RowsByIndex
<1>2. CASE /\ Unmoved /\ (~open' => ~open) /\ (~open => UNCHANGED queue) /\ (ExitStays \/ ~open)
  <2>1. CASE ~open
    <3>1. All = <<>> /\ Len(All) = 0
      BY <2>1, EmptyIsEmpty DEF ClosedIsEmpty, All
    <3>2. Len(All') = 0
      BY <1>2, <3>1 DEF Unmoved
    <3> QED
      BY <1>1, <3>2
  <2>2. CASE open
    BY <1>1, <1>2, <2>2 DEF Unmoved, Same, ExitStays
  <2> QED
    BY <2>1, <2>2
<1>3. CASE /\ CutBy(line) /\ open /\ open' /\ ExitStays
           /\ line # <<>> /\ (kind[line[1]] # "json" \/ ender["exit"]' # "none")
  <2>1. line \in Rows
    BY <1>3, SeqIsRow, Fits DEF QueueTypes
  <2>2. Len(All') = Len(All) + 1 /\ (All')[Len(All) + 1] = line /\ \A q \in 1..Len(All) : (All')[q] = All[q]
    BY <1>1, <1>3, <2>1, AppendProperties DEF CutBy
  <2>3. kind' = kind /\ Whole(line, kind, ender["exit"]' # "none")
    BY <1>3 DEF CutBy, Same
  <2>4. \A r \in 1..Len(All) : Whole((All')[r], kind, ender["exit"]' # "none")
    BY <1>1, <1>3, <2>2 DEF ExitStays
  <2> HIDE DEF Whole
  <2>5. \A r \in 1..Len(All') : r \in 1..Len(All) \/ r = Len(All) + 1
    BY <1>1, <2>2
  <2>6. Whole((All')[Len(All) + 1], kind, ender["exit"]' # "none")
    BY <2>2, <2>3
  <2> QED
    BY <1>1, <2>3, <2>4, <2>5, <2>6
<1>4. CASE Accepted /\ open' /\ ExitStays
  <2> DEFINE n == Len(kind) + 1
             new == Append(line, n)
  <2>1. PICK k \in Kinds :
         /\ kind' = Append(kind, k)
         /\ \/ All' = All
            \/ k = "line" /\ All' = Append(All, new)
    BY <1>4 DEF Accepted
  <2>2. Len(kind) \in Nat /\ n \in ChunkIds /\ kind'[n] = k /\ \A i \in 1..Len(kind) : kind'[i] = kind[i]
    <3>1. kind \in Seq(Kinds)
      BY DEF QueueTypes
    <3>2. kind'[n] = k /\ \A i \in 1..Len(kind) : kind'[i] = kind[i]
      BY <2>1, <3>1, AppendProperties
    <3>3. n \in ChunkIds
      BY <1>4 DEF Accepted
    <3> QED
      BY <3>1, <3>2, <3>3, LenProperties
  <2>3. \A r \in 1..Len(All) : Whole(All[r], kind', ender["exit"]' # "none")
    <3> SUFFICES ASSUME NEW r \in 1..Len(All) PROVE Whole(All[r], kind', ender["exit"]' # "none")
      OBVIOUS
    <3>1. All[r] \in Rows
      BY <1>1
    <3>2. /\ Len(All[r]) \in Nat /\ Len(All[r]) > 0
          /\ \A i \in 1..Len(All[r]) : All[r][i] \in Nat /\ All[r][i] > 0 /\ All[r][i] <= Len(kind)
      BY <3>1, RowIsSeq, Bounds DEF Chained, RowsAccepted, ChunkIds
    <3>3. All[r][1] \in 1..Len(kind) /\ All[r][Len(All[r])] \in 1..Len(kind)
      BY <2>2, <3>2
    <3> QED
      BY <1>1, <1>4, <2>2, <3>3 DEF ExitStays
  <2>4. CASE All' = All
    BY <1>1, <2>3, <2>4
  <2>5. CASE k = "line" /\ All' = Append(All, new)
    <3>1. new \in Rows /\ Len(new) = Len(line) + 1 /\ new[Len(line) + 1] = n
      BY <2>2, AcceptedLine, Fits
    <3>2. Whole(new, kind', ender["exit"]' # "none")
      BY <2>2, <2>5, <3>1
    <3> HIDE DEF new, Whole
    <3>3. Len(All') = Len(All) + 1 /\ (All')[Len(All) + 1] = new /\ \A q \in 1..Len(All) : (All')[q] = All[q]
      BY <1>1, <2>5, <3>1, AppendProperties
    <3>4. \A r \in 1..Len(All') : r \in 1..Len(All) \/ r = Len(All) + 1
      BY <1>1, <3>3
    <3> QED
      BY <1>1, <2>3, <3>2, <3>3, <3>4
  <2> QED
    BY <2>1, <2>4, <2>5
<1>5. CASE kind' = <<>> /\ raws' = <<>> /\ rows' = <<>> /\ line' = <<>> /\ stored' = <<>> /\ timeline' = <<>>
  <2>1. Len(All') = 0
    BY <1>5, EmptyIsEmpty DEF All
  <2> QED
    BY <1>1, <2>1
<1> QED
  BY <1>2, <1>3, <1>4, <1>5 DEF Moves

LEMMA MovesKeep ==
  ASSUME QueueTypes, ControlTypes, ReadPays, Chained, ClosedIsEmpty, ProtocolLinesWhole, Moves
  PROVE  QueueTypes' /\ Chained' /\ ClosedIsEmpty' /\ ProtocolLinesWhole'
<1>1. CASE Unmoved /\ QueueTypes' /\ (~open' => ~open) /\ (~open => UNCHANGED queue)
  <2>1. Chained'
    BY <1>1 DEF Unmoved, Same, Chained, RawKept, RowsAccepted
  <2>2. ClosedIsEmpty'
    BY <1>1 DEF ClosedIsEmpty, queue
  <2> QED
    BY <1>1, <2>1, <2>2, LinesKept
<1>2. CASE CutBy(line) /\ QueueTypes' /\ open' /\ line # <<>>
  <2>1. Chained' /\ ClosedIsEmpty'
    BY <1>2, CutKeeps, Fits DEF ClosedIsEmpty
  <2> QED
    BY <1>2, <2>1, LinesKept
<1>3. CASE Accepted /\ open'
  <2>1. Chained' /\ ClosedIsEmpty' /\ QueueTypes'
    BY <1>3, AcceptKeeps, Fits DEF ClosedIsEmpty, Accepted
  <2> QED
    BY <2>1, LinesKept
<1>4. CASE kind' = <<>> /\ raws' = <<>> /\ rows' = <<>> /\ line' = <<>>
            /\ stored' = <<>> /\ timeline' = <<>> /\ failures' = failures
  <2>1. (Nothing => /\ failures \in 0..MaxFailures => QueueTypes
                    /\ ClosedIsEmpty /\ Chained /\ ProtocolLinesWhole)'
    BY NothingIsFine, PTL
  <2>2. Nothing'
    BY <1>4 DEF Nothing
  <2>3. failures' \in 0..MaxFailures
    BY <1>4 DEF QueueTypes
  <2> QED
    BY <2>1, <2>2, <2>3
<1> QED
  BY <1>1, <1>2, <1>3, <1>4 DEF Moves

(* What the chain says of the state, for the property *)
LEMMA ChainedLosesNothing == Chained => NothingLost
BY DEF Chained, RawKept, Chain, NothingLost, All

-----------------------------------------------------------------------------
(* The ends of a turn                                                      *)

Progresses == Len(kind) <= Len(kind)' /\ \A i \in ChunkIds : i \in ToSet(stored) => i \in ToSet(stored')
AllStored  == \A i \in 1..Len(kind) : i \in ToSet(stored')

LEMMA StaysProgress == QueueTypes /\ UNCHANGED queue => Progresses
<1> HAVE QueueTypes /\ UNCHANGED queue
<1>1. Len(kind) \in Nat
  BY LenProperties DEF QueueTypes
<1> QED
  BY <1>1 DEF queue, Progresses

LEMMA FlushProgress ==
  ASSUME QueueTypes, Chained, NEW final \in BOOLEAN, FlushOutcome(final)
  PROVE  Progresses /\ (open /\ ~Refused => AllStored)
<1>1. Len(kind)' = Len(kind) /\ Len(kind) \in Nat
  BY LenProperties DEF FlushOutcome, QueueTypes, Unmoved, CutBy, Same
<1>2. CASE stored' = stored \o raws
  <2>1. Progresses
    BY <1>1, <1>2, StoredGrows DEF QueueTypes, Progresses
  <2>2. stored' = [i \in 1..Len(kind) |-> i]
    BY <1>2 DEF Chained, RawKept
  <2> QED
    BY <2>1, <2>2 DEF AllStored, ToSet
<1>3. CASE stored' = stored /\ (Refused \/ ~open)
  BY <1>1, <1>3 DEF Progresses
<1> QED
  BY <1>1, <1>2, <1>3 DEF FlushOutcome, queue

LEMMA AcceptProgress ==
  ASSUME QueueTypes, NEW fragment \in BOOLEAN, AcceptOutcome(fragment)
  PROVE  Progresses
<1>1. Len(kind') = Len(kind) + 1 /\ Len(kind) \in Nat
  BY AppendProperties, LenProperties DEF AcceptOutcome, Accepted, QueueTypes
<1>2. stored' = stored \/ \A i \in ChunkIds : i \in ToSet(stored) => i \in ToSet(stored')
  BY DEF AcceptOutcome
<1>3. Len(kind) <= Len(kind)'
  BY <1>1
<1> QED
  BY <1>2, <1>3 DEF Progresses

(* Steps that neither begin, advance nor complete an end *)
LEMMA EndsRest ==
  ASSUME QueueTypes, QueueTypes', ControlTypes, Ends, Progresses, UNCHANGED <<open, ender, sealed, lost>>
  PROVE  Ends'
<1>1. Len(kind) \in Nat /\ Len(kind)' \in Nat
  BY LenProperties DEF QueueTypes
<1>2. SealedAccepted'
  BY <1>1 DEF Ends, SealedAccepted, Progresses, ControlTypes
<1>3. \A i \in 1..sealed : i \in ChunkIds
  BY Bounds DEF ControlTypes, ChunkIds
<1>4. SealedStored'
  BY <1>3 DEF Ends, SealedStored, Progresses, Terminating
<1> QED
  BY <1>2, <1>4 DEF Ends, StopNeverFinal, StopGoesFirst, Terminating

LEMMA EndsBegin ==
  ASSUME QueueTypes, ControlTypes, Ends, NEW e \in Enders, EnderBegins(e)
  PROVE  Ends'
<1>1. /\ open /\ ender[e] = "none" /\ ender["stop"] \notin {"refused", "delete"}
      /\ ender' = [ender EXCEPT ![e] = "batch-gen"] /\ sealed' = Len(kind)
      /\ open' = open /\ lost' = lost /\ kind' = kind /\ stored' = stored
  BY DEF EnderBegins, EnderGoes, queue
<1>2. e = "exit" \/ e = "stop"
  BY DEF Enders
<1>3. SealedAccepted'
  BY <1>1, LenProperties DEF SealedAccepted, QueueTypes
<1>4. StopNeverFinal' /\ StopGoesFirst'
  BY <1>1, <1>2 DEF Ends, StopNeverFinal, StopGoesFirst, Terminating, ControlTypes, Enders
<1>5. SealedStored'
  <2>1. CASE e = "exit"
    BY <1>1, <2>1 DEF SealedStored, ControlTypes, Enders
  <2>2. CASE e = "stop"
    BY <1>1, <2>2 DEF Ends, StopGoesFirst, SealedStored, Terminating, ControlTypes, Enders
  <2> QED
    BY <1>2, <2>1, <2>2
<1> QED
  BY <1>1, <1>3, <1>4, <1>5 DEF Ends

LEMMA EndsCancel ==
  ASSUME QueueTypes, ControlTypes, Ends, NEW e \in Enders, EnderCancels(e)
  PROVE  Ends'
<1>1. /\ ender[e] = "batch-gen"
      /\ \E pc \in {"flush", "flush-final", "drop"} :
           /\ ender' = [ender EXCEPT ![e] = pc]
           /\ e = "stop" => pc # "flush-final"
           /\ e = "exit" => pc = IF Terminating THEN "flush" ELSE "flush-final"
      /\ UNCHANGED <<open, lost, kind, stored, sealed>>
  BY DEF EnderCancels, EnderGoes, queue
<1>2. e = "exit" \/ e = "stop"
  BY DEF Enders
<1>3. SealedAccepted'
  BY <1>1 DEF Ends, SealedAccepted
<1>4. StopNeverFinal' /\ StopGoesFirst'
  BY <1>1, <1>2 DEF Ends, StopNeverFinal, StopGoesFirst, Terminating, ControlTypes, Enders
<1>5. SealedStored'
  BY <1>1, <1>2 DEF Ends, SealedStored, Terminating, ControlTypes, Enders
<1> QED
  BY <1>1, <1>3, <1>4, <1>5 DEF Ends

LEMMA EndsFlush ==
  ASSUME QueueTypes, QueueTypes', ControlTypes, ReadPays, Chained, Ends, NEW e \in Enders, EnderFlushes(e)
  PROVE  Ends'
<1>1. PICK final \in BOOLEAN :
        /\ FlushTrailing(final) /\ ender[e] = (IF final THEN "flush-final" ELSE "flush")
        /\ ender' = [ender EXCEPT ![e] = IF Refused THEN "refused" ELSE IF final THEN "settle" ELSE "delete"]
        /\ UNCHANGED <<open, lost, sealed>>
  BY DEF EnderFlushes, EnderGoes
<1>2. FlushOutcome(final) /\ Progresses /\ (open /\ ~Refused => AllStored)
  BY <1>1, FlushTrailingEffect, FlushProgress, Fits
<1>3. Len(kind) \in Nat /\ Len(kind)' \in Nat
  BY LenProperties DEF QueueTypes
<1>4. SealedAccepted'
  BY <1>1, <1>2, <1>3 DEF Ends, SealedAccepted, Progresses, ControlTypes
<1>5. e = "exit" \/ (e = "stop" /\ ~final)
  BY <1>1 DEF Enders, Ends, StopNeverFinal
<1>6. StopNeverFinal' /\ StopGoesFirst'
  BY <1>1, <1>5 DEF Ends, StopNeverFinal, StopGoesFirst, Terminating, ControlTypes, Enders
<1>7. \A i \in 1..sealed : i \in ChunkIds /\ i \in 1..Len(kind)
  BY <1>3, Bounds DEF ControlTypes, ChunkIds, Ends, SealedAccepted
<1>8. ASSUME Refused PROVE SealedStored'
  BY <1>1, <1>2, <1>5, <1>7, <1>8 DEF Ends, SealedStored, Progresses, Terminating, ControlTypes, Enders
<1>9. ASSUME ~Refused PROVE SealedStored'
  BY <1>1, <1>2, <1>7, <1>9 DEF Ends, SealedStored, AllStored
<1> QED
  BY <1>1, <1>4, <1>6, <1>8, <1>9 DEF Ends

(* A delete finds what was sealed in SQLite, or SQLite refused it to a Stop. *)
LEMMA EndsDelete ==
  ASSUME QueueTypes, ControlTypes, ClosedIsEmpty, Ends, NEW e \in Enders, EnderDeletes(e)
  PROVE  Ends'
<1>1. /\ ender' = [ender EXCEPT ![e] = "done"] /\ sealed' = 0 /\ ~open' /\ kind' = <<>>
      /\ \/ lost' = lost
         \/ (\E i \in 1..sealed : i \notin ToSet(stored))
              /\ lost' = lost \cup {CASE ender["stop"] = "drop"    -> "launching"
                                    [] ender["stop"] = "refused" -> "refused"
                                    [] OTHER                     -> "running"}
  BY DEF EnderDeletes, Drops, EnderGoes
<1>2. \/ ender[e] \in {"settle", "delete"} /\ ~(ender[e] = "settle" /\ Terminating)
      \/ e = "stop" /\ ender[e] \in {"refused", "drop"}
  BY DEF EnderDeletes
<1>3. e = "exit" \/ e = "stop"
  BY DEF Enders
<1>4. ender["stop"] \notin {"refused", "drop"} => \A i \in 1..sealed : i \in ToSet(stored)
  <2>1. CASE open
    BY <1>2, <1>3, <2>1 DEF Ends, StopNeverFinal, SealedStored
  <2>2. CASE ~open
    <3>1. Len(kind) = 0
      BY <2>2, EmptyIsEmpty DEF ClosedIsEmpty
    <3>2. sealed = 0
      BY <3>1 DEF Ends, SealedAccepted, ControlTypes
    <3> QED
      BY <3>2
  <2> QED
    BY <2>1, <2>2
<1>5. SealedAccepted'
  BY <1>1, EmptyIsEmpty DEF SealedAccepted
<1>8. "running" \notin lost'
  <2>1. "running" \notin lost
    BY DEF Ends
  <2>2. CASE ender["stop"] \in {"refused", "drop"}
    BY <1>1, <2>1, <2>2
  <2>3. CASE ender["stop"] \notin {"refused", "drop"}
    BY <1>1, <1>4, <2>1, <2>3
  <2> QED
    BY <2>2, <2>3
<1>6. "running" \notin lost' /\ SealedStored' /\ StopGoesFirst'
  BY <1>1, <1>8 DEF SealedStored, StopGoesFirst
<1>7. StopNeverFinal'
  BY <1>1, <1>3 DEF Ends, StopNeverFinal, ControlTypes, Enders
<1> QED
  BY <1>5, <1>6, <1>7 DEF Ends

LEMMA EndsKept ==
  ASSUME QueueTypes, QueueTypes', ControlTypes, ReadPays, ClosedIsEmpty, Chained, Ends, Next
  PROVE  Ends'
<1>1. CASE TurnStarts
  <2>1. /\ ender' = [e \in Enders |-> "none"] /\ sealed' = sealed /\ lost' = lost /\ kind' = kind
    BY <1>1 DEF TurnStarts, queue
  <2> QED
    BY <2>1 DEF Ends, StopNeverFinal, StopGoesFirst, SealedAccepted, SealedStored, Enders
<1>2. CASE ReaderGets
  BY <1>2, StaysProgress, EndsRest DEF ReaderGets, ending
<1>3. CASE ReaderQueues
  <2>1. UNCHANGED <<open, ender, sealed, lost>> /\ reader.pc = "emitting"
    BY <1>3 DEF ReaderQueues, ending
  <2>2. PICK k \in Kinds : QueueOutput(k)
    BY <1>3 DEF ReaderQueues
  <2>3. UNCHANGED queue \/ \E fragment \in BOOLEAN : AcceptOutcome(fragment)
    BY <2>1, <2>2, QueueOutputEffect, Fits
  <2>4. Progresses
    BY <2>3, AcceptProgress, StaysProgress
  <2> QED
    BY <2>1, <2>4, EndsRest
<1>4. CASE ReaderBatch \/ ReaderBatchGen \/ ReaderIdle \/ ReaderIdleArm
  BY <1>4, StaysProgress, EndsRest DEF ReaderBatch, ReaderBatchGen, ReaderIdle, ReaderIdleArm, ending
<1>5. ASSUME NEW i \in Timers, TimerStep(i) PROVE Ends'
  <2>1. ASSUME NEW k \in TimerKinds, TimerWakes(k, i) \/ TimerLeaves(k, i) PROVE Ends'
    BY <2>1, StaysProgress, EndsRest DEF TimerWakes, TimerLeaves, ending
  <2>2. ASSUME NEW k \in TimerKinds, TimerFlushes(k, i) PROVE Ends'
    <3>1. FlushOutcome(FALSE)
      BY <2>2, FlushPendingEffect, FlushTrailingEffect, Fits DEF TimerFlushes
    <3> QED
      BY <2>2, <3>1, FlushProgress, EndsRest DEF TimerFlushes, ending
  <2>3. CASE IdleAborts(i) \/ IdleDropsBatchGen(i)
    BY <2>3, StaysProgress, EndsRest DEF IdleAborts, IdleDropsBatchGen, ending
  <2> QED
    BY <1>5, <2>1, <2>2, <2>3 DEF TimerStep
<1>6. ASSUME NEW e \in Enders, EnderBegins(e) \/ EnderStep(e) PROVE Ends'
  BY <1>6, EndsBegin, EndsCancel, EndsFlush, EndsDelete DEF EnderStep
<1>7. CASE ExitReturns
  <2>1. /\ ender["exit"] = "refused" \/ (ender["exit"] = "settle" /\ Terminating)
        /\ ender' = [ender EXCEPT !["exit"] = "done"] /\ UNCHANGED <<queue, open, sealed, lost>>
    BY <1>7 DEF ExitReturns, EnderGoes
  <2> QED
    BY <2>1 DEF Ends, StopNeverFinal, StopGoesFirst, SealedAccepted, SealedStored, Terminating,
                ControlTypes, Enders, queue
<1>8. CASE LaunchResolves
  BY <1>8, StaysProgress, EndsRest DEF LaunchResolves
<1>9. CASE LaunchFails
  <2>1. /\ ender' = ender /\ sealed' = 0 /\ ~open' /\ kind' = <<>> /\ lost' \subseteq lost \cup {"failed"}
    BY <1>9 DEF LaunchFails, Drops
  <2>2. SealedAccepted'
    BY <2>1, EmptyIsEmpty DEF SealedAccepted
  <2> QED
    BY <2>1, <2>2 DEF Ends, StopNeverFinal, StopGoesFirst, SealedStored
<1> QED
  BY <1>1, <1>2, <1>3, <1>4, <1>5, <1>6, <1>7, <1>8, <1>9, EndingsAssumption DEF Next, ReaderStep, Enders

-----------------------------------------------------------------------------
(* The timers, handle by handle and slot by slot                           *)

Records == [pc : TimerPcs, gen : 0..MaxChunks]
TimerFunctions == [TimerKinds -> [Timers -> Records]]
With(k, i, rec) == [j \in TimerKinds |-> [m \in Timers |-> IF j = k /\ m = i THEN rec ELSE timer[j][m]]]

LEMMA FinishedType == Finished \in Records
BY Bounds DEF Finished, Records, TimerPcs

LEMMA WithType ==
  ASSUME TimerTypes, NEW k \in TimerKinds, NEW i \in Timers, NEW rec \in Records
  PROVE  /\ With(k, i, rec) \in TimerFunctions
         /\ \A j \in TimerKinds, m \in Timers :
              With(k, i, rec)[j][m] = IF j = k /\ m = i THEN rec ELSE timer[j][m]
BY DEF TimerTypes, With, TimerFunctions, Records

LEMMA SetEffect ==
  ASSUME TimerTypes, NEW k \in TimerKinds, NEW i \in Timers, NEW rec
  PROVE  [timer EXCEPT ![k][i] = rec] = With(k, i, rec)
BY DEF TimerTypes, With

LEMMA GoesEffect ==
  ASSUME TimerTypes, NEW k \in TimerKinds, NEW i \in Timers, NEW pc, TimerGoes(k, i, pc)
  PROVE  timer' = With(k, i, [pc |-> pc, gen |-> timer[k][i].gen])
<1> DEFINE rec == [pc |-> pc, gen |-> timer[k][i].gen]
<1>1. [timer[k][i] EXCEPT !.pc = pc] = rec
  BY DEF TimerTypes
<1>2. timer' = [timer EXCEPT ![k][i] = [timer[k][i] EXCEPT !.pc = pc]]
  BY DEF TimerTypes, TimerGoes
<1> HIDE DEF rec
<1>3. timer' = [timer EXCEPT ![k][i] = rec]
  BY <1>1, <1>2, Zenon
<1>4. timer' = With(k, i, rec)
  BY <1>3, SetEffect
<1> QED
  BY <1>4 DEF rec

(* cancel_..._flush takes the handle and reaches a sleeping timer. *)
TakenFrom(k) ==
  /\ handle' = [j \in TimerKinds |-> IF j = k THEN 0 ELSE handle[j]]
  /\ timer' \in TimerFunctions
  /\ \A j \in TimerKinds, m \in Timers :
       timer'[j][m] = IF j = k /\ handle[k] = m /\ timer[k][m].pc = "sleeping" THEN Finished ELSE timer[j][m]

LEMMA AbortEffect ==
  ASSUME TimerTypes, NEW k \in TimerKinds
  PROVE  /\ Aborted(k) \in TimerFunctions
         /\ \A j \in TimerKinds, m \in Timers :
              Aborted(k)[j][m] = IF j = k /\ handle[k] = m /\ timer[k][m].pc = "sleeping" THEN Finished
                                                                                  ELSE timer[j][m]
<1>1. CASE handle[k] # 0 /\ timer[k][handle[k]].pc = "sleeping"
  <2>1. handle[k] \in Timers
    BY <1>1, Bounds DEF TimerTypes, Timers
  <2>2. Aborted(k) = With(k, handle[k], Finished)
    BY <1>1, <2>1, SetEffect DEF Aborted
  <2> QED
    BY <1>1, <2>1, <2>2, WithType, FinishedType
<1>2. CASE ~(handle[k] # 0 /\ timer[k][handle[k]].pc = "sleeping")
  <2>1. Aborted(k) = timer /\ timer \in TimerFunctions
    BY <1>2 DEF Aborted, TimerTypes, TimerFunctions, Records
  <2>2. \A m \in Timers : m # 0
    BY Bounds DEF Timers
  <2> QED
    BY <1>2, <2>1, <2>2
<1> QED
  BY <1>1, <1>2

LEMMA TakeEffect ==
  ASSUME TimerTypes, NEW k \in TimerKinds, TakeHandle(k)
  PROVE  TakenFrom(k)
<1>1. handle' = [j \in TimerKinds |-> IF j = k THEN 0 ELSE handle[j]]
  BY DEF TakeHandle, TimerTypes
<1>2. timer' = Aborted(k)
  BY DEF TakeHandle
<1> QED
  BY <1>1, <1>2, AbortEffect DEF TakenFrom

(* A timer that is scheduled gets a slot nobody uses. *)
LEMMA SlotIsFree ==
  ASSUME TimerTypes, NEW k \in TimerKinds, IsFiniteSet(Used(k)), Cardinality(Used(k)) + 1 <= MaxChunks
  PROVE  NextTimer(k) \in Timers \ Used(k)
<1>1. FreeSlots(k) = Timers \ Used(k)
  BY DEF FreeSlots, Used
<1>2. Timers \ Used(k) # {}
  <2>1. IsFiniteSet(Timers) /\ Cardinality(Timers) = MaxChunks
    BY FS_Interval, Bounds DEF Timers
  <2>2. SUFFICES ASSUME Timers \subseteq Used(k) PROVE FALSE
    OBVIOUS
  <2>3. MaxChunks <= Cardinality(Used(k)) /\ Cardinality(Used(k)) \in Nat
    BY <2>1, <2>2, FS_Subset, FS_CardinalityType
  <2> QED
    BY <2>3, Bounds
<1> QED
  BY <1>1, <1>2 DEF NextTimer

-----------------------------------------------------------------------------
(* Every read pays for a chunk and for the timers it starts                *)

Shrinks(k) == gen'[k] \in {0, gen[k]} /\ Used(k)' \subseteq Used(k)

LEMMA SmallerSet ==
  ASSUME NEW S, NEW T, IsFiniteSet(S), T \subseteq S
  PROVE  /\ IsFiniteSet(T) /\ Cardinality(T) <= Cardinality(S)
         /\ Cardinality(T) \in Nat /\ Cardinality(S) \in Nat
BY FS_Subset, FS_CardinalityType

LEMMA OneMore ==
  ASSUME NEW S, NEW T, NEW x, IsFiniteSet(S), T \subseteq S \cup {x}
  PROVE  /\ IsFiniteSet(T) /\ Cardinality(T) <= Cardinality(S) + 1
         /\ Cardinality(T) \in Nat /\ Cardinality(S) \in Nat
<1>1. /\ IsFiniteSet(S \cup {x}) /\ Cardinality(S) \in Nat
      /\ Cardinality(S \cup {x}) = Cardinality(S) \/ Cardinality(S \cup {x}) = Cardinality(S) + 1
  BY FS_AddElement, FS_CardinalityType
<1> QED
  BY <1>1, FS_Subset, FS_CardinalityType

(* A step that starts no timer and accepts nothing *)
LEMMA PaysAlong ==
  ASSUME ControlTypes, TimerTypes, ReadPays, QueueTypes, QueueTypes', Len(kind)' <= Len(kind),
         read' = read, reader' = reader, \A k \in TimerKinds : Shrinks(k)
  PROVE  ReadPays'
<1>1. Len(kind) \in Nat /\ Len(kind)' \in Nat
  BY LenProperties DEF QueueTypes
<1>2. Paid(Len(kind), {"emitting"})'
  BY <1>1 DEF ReadPays, Paid
<1>3. ASSUME NEW k \in TimerKinds
      PROVE  /\ Paid(gen[k], Owed(k))' /\ IsFiniteSet(Used(k))' /\ Paid(Cardinality(Used(k)), Owed(k))'
             /\ Cardinality(Used(k)') <= Cardinality(Used(k))
             /\ Cardinality(Used(k)') \in Nat /\ Cardinality(Used(k)) \in Nat
  <2>1. gen'[k] \in {0, gen[k]} /\ gen[k] \in Nat
    BY Bounds DEF Shrinks, TimerTypes
  <2>2. Paid(gen[k], Owed(k))'
    BY <2>1, Bounds DEF ReadPays, Paid, Owed
  <2>3. /\ IsFiniteSet(Used(k)') /\ Cardinality(Used(k)') <= Cardinality(Used(k))
        /\ Cardinality(Used(k)') \in Nat /\ Cardinality(Used(k)) \in Nat
    BY SmallerSet DEF Shrinks, ReadPays
  <2>4. Paid(Cardinality(Used(k)), Owed(k))'
    BY <2>3, Bounds DEF ReadPays, Paid, Owed
  <2> QED
    BY <2>2, <2>3, <2>4
<1>4. reader'.pc = "idle-arm" => Cardinality(Used("idle")') + 1 <= read'
  BY <1>3, Bounds DEF ReadPays, TimerKinds
<1> QED
  BY <1>2, <1>3, <1>4 DEF ReadPays

(* What each task does to its own record *)
Advanced(k, i, pc) == [pc |-> pc, gen |-> timer[k][i].gen]
HandleLess(k) == [j \in TimerKinds |-> IF j = k THEN 0 ELSE handle[j]]
GenLess(k)    == [j \in TimerKinds |-> IF j = k THEN 0 ELSE gen[j]]

LEMMA AdvancedType ==
  ASSUME TimerTypes, NEW k \in TimerKinds, NEW i \in Timers, NEW pc \in TimerPcs
  PROVE  Advanced(k, i, pc) \in Records
BY DEF Advanced, Records, TimerTypes

LEMMA WakesEffect ==
  ASSUME TimerTypes, NEW k \in TimerKinds, NEW i \in Timers, TimerWakes(k, i)
  PROVE  timer' = With(k, i, IF gen[k] = timer[k][i].gen THEN Advanced(k, i, "awake") ELSE Finished)
<1> DEFINE rec == IF gen[k] = timer[k][i].gen THEN Advanced(k, i, "awake") ELSE Finished
<1>1. timer' = [timer EXCEPT ![k][i] = IF gen[k] = timer[k][i].gen THEN [timer[k][i] EXCEPT !.pc = "awake"] ELSE Finished]
  BY DEF TimerWakes, TimerTypes
<1>2. [timer[k][i] EXCEPT !.pc = "awake"] = Advanced(k, i, "awake")
  BY DEF Advanced, TimerTypes
<1>3. timer' = [timer EXCEPT ![k][i] = rec]
  BY <1>1, <1>2, Zenon
<1> HIDE DEF rec
<1>4. timer' = With(k, i, rec)
  BY <1>3, SetEffect
<1> QED
  BY <1>4 DEF rec

LEMMA LeavesEffect ==
  ASSUME TimerTypes, NEW k \in TimerKinds, NEW i \in Timers, TimerLeaves(k, i)
  PROVE  /\ timer[k][i].pc = "awake" /\ handle' = HandleLess(k)
         /\ gen' = IF gen[k] = timer[k][i].gen THEN GenLess(k) ELSE gen
         /\ timer' = With(k, i, Advanced(k, i, IF k = "idle" THEN "stopping" ELSE "flushing"))
BY GoesEffect DEF TimerLeaves, TimerAt, TimerTypes, Advanced, HandleLess, GenLess

LEMMA FlushesEffect ==
  ASSUME TimerTypes, NEW k \in TimerKinds, NEW i \in Timers, TimerFlushes(k, i)
  PROVE  timer' = With(k, i, Finished) /\ UNCHANGED <<handle, gen>> /\ timer[k][i].pc = "flushing"
BY SetEffect DEF TimerFlushes, TimerAt

LEMMA DropsGenEffect ==
  ASSUME TimerTypes, NEW i \in Timers, IdleDropsBatchGen(i)
  PROVE  /\ timer["idle"][i].pc = "cancelling" /\ gen' = GenLess("batch") /\ handle' = handle
         /\ timer' = With("idle", i, Advanced("idle", i, "flushing"))
BY GoesEffect DEF IdleDropsBatchGen, TimerAt, DropGen, TimerTypes, Advanced, GenLess, TimerKinds

LEMMA AbortsEffect ==
  ASSUME TimerTypes, NEW i \in Timers, IdleAborts(i)
  PROVE  /\ timer["idle"][i].pc = "stopping" /\ gen' = gen /\ handle' = HandleLess("batch")
         /\ timer' \in TimerFunctions
         /\ \A m \in Timers :
              /\ timer'["idle"][m] = IF m = i THEN Advanced("idle", i, "cancelling") ELSE timer["idle"][m]
              /\ timer'["batch"][m] = IF handle["batch"] = m /\ timer["batch"][m].pc = "sleeping"
                                         THEN Finished ELSE timer["batch"][m]
<1> DEFINE ab == Aborted("batch")
<1>1. /\ ab \in TimerFunctions
      /\ \A j \in TimerKinds, m \in Timers :
           ab[j][m] = IF j = "batch" /\ handle["batch"] = m /\ timer["batch"][m].pc = "sleeping"
                        THEN Finished ELSE timer[j][m]
  BY AbortEffect DEF TimerKinds
<1>2. timer' = [ab EXCEPT !["idle"][i].pc = "cancelling"]
  BY DEF IdleAborts
<1> HIDE DEF ab
<1>3. [ab["idle"][i] EXCEPT !.pc = "cancelling"] = Advanced("idle", i, "cancelling")
  BY <1>1 DEF Advanced, TimerKinds, TimerTypes
<1>4. timer' = [ab EXCEPT !["idle"][i] = [ab["idle"][i] EXCEPT !.pc = "cancelling"]]
  BY <1>1, <1>2 DEF TimerFunctions, TimerKinds
<1>5. timer' = [ab EXCEPT !["idle"][i] = Advanced("idle", i, "cancelling")]
  BY <1>3, <1>4, Zenon
<1>6. Advanced("idle", i, "cancelling") \in Records
  BY AdvancedType DEF TimerKinds, TimerPcs
<1>7. timer' \in TimerFunctions
  BY <1>1, <1>5, <1>6 DEF TimerFunctions, TimerKinds
<1>8. \A m \in Timers :
        /\ timer'["idle"][m] = IF m = i THEN Advanced("idle", i, "cancelling") ELSE ab["idle"][m]
        /\ timer'["batch"][m] = ab["batch"][m]
  BY <1>1, <1>5 DEF TimerFunctions, TimerKinds
<1>9. gen' = gen /\ handle' = HandleLess("batch") /\ timer["idle"][i].pc = "stopping"
  BY DEF IdleAborts, TimerAt, HandleLess, TimerTypes
<1> QED
  BY <1>1, <1>7, <1>8, <1>9 DEF TimerKinds

LEMMA CancelsEffect ==
  ASSUME TimerTypes, NEW e \in Enders, EnderCancels(e)
  PROVE  TakenFrom("idle") /\ gen' = [k \in TimerKinds |-> 0]
<1>1. handle' = [j \in TimerKinds |-> IF j = "idle" THEN 0 ELSE handle[j]]
  BY DEF EnderCancels, TimerTypes
<1> QED
  BY <1>1, AbortEffect DEF EnderCancels, TakenFrom, TimerKinds

(* Types and slots of the steps that start no timer *)
LEMMA Along ==
  ASSUME TimerTypes, timer' \in TimerFunctions,
         \A j \in TimerKinds : handle'[j] \in {0, handle[j]} /\ gen'[j] \in {0, gen[j]},
         DOMAIN handle' = TimerKinds, DOMAIN gen' = TimerKinds,
         handle' = [j \in TimerKinds |-> handle'[j]], gen' = [j \in TimerKinds |-> gen'[j]],
         \A j \in TimerKinds, m \in Timers : timer'[j][m].pc # "done" => timer[j][m].pc # "done"
  PROVE  TimerTypes' /\ \A k \in TimerKinds : Shrinks(k)
<1>1. handle' \in [TimerKinds -> 0..MaxChunks] /\ gen' \in [TimerKinds -> 0..MaxChunks]
  <2>1. \A j \in TimerKinds : handle'[j] \in 0..MaxChunks /\ gen'[j] \in 0..MaxChunks
    BY Bounds DEF TimerTypes
  <2> QED
    BY <2>1, Zenon
<1>2. TimerTypes'
  BY <1>1 DEF TimerTypes, TimerFunctions, Records
<1>3. \A m \in Timers : m # 0
  BY Bounds DEF Timers
<1>4. \A k \in TimerKinds : Used(k)' \subseteq Used(k)
  BY <1>3 DEF Used
<1> QED
  BY <1>2, <1>4 DEF Shrinks

LEMMA WithAlong ==
  ASSUME TimerTypes, NEW k \in TimerKinds, NEW i \in Timers, NEW rec \in Records,
         timer[k][i].pc # "done", timer' = With(k, i, rec),
         handle' \in {handle} \cup {HandleLess(j) : j \in TimerKinds},
         gen' \in {gen} \cup {GenLess(j) : j \in TimerKinds}
  PROVE  TimerTypes' /\ \A j \in TimerKinds : Shrinks(j)
<1>1. timer' \in TimerFunctions /\ \A j \in TimerKinds, m \in Timers : timer'[j][m].pc # "done" => timer[j][m].pc # "done"
  BY WithType
<1>2. handle' = [j \in TimerKinds |-> handle'[j]] /\ DOMAIN handle' = TimerKinds
      /\ \A j \in TimerKinds : handle'[j] \in {0, handle[j]}
  BY DEF HandleLess, TimerTypes
<1>3. gen' = [j \in TimerKinds |-> gen'[j]] /\ DOMAIN gen' = TimerKinds
      /\ \A j \in TimerKinds : gen'[j] \in {0, gen[j]}
  BY DEF GenLess, TimerTypes
<1> QED
  BY <1>1, <1>2, <1>3, Along

LEMMA TakenAlong ==
  ASSUME TimerTypes, NEW k \in TimerKinds, TakenFrom(k),
         gen' = gen \/ gen' = GenLess(k) \/ gen' = [j \in TimerKinds |-> 0]
  PROVE  TimerTypes' /\ \A j \in TimerKinds : Shrinks(j)
<1>1. timer' \in TimerFunctions /\ \A j \in TimerKinds, m \in Timers : timer'[j][m].pc # "done" => timer[j][m].pc # "done"
  BY DEF TakenFrom, Finished
<1>2. handle' = [j \in TimerKinds |-> handle'[j]] /\ DOMAIN handle' = TimerKinds
      /\ \A j \in TimerKinds : handle'[j] \in {0, handle[j]}
  BY DEF TakenFrom
<1>3. gen' = [j \in TimerKinds |-> gen'[j]] /\ DOMAIN gen' = TimerKinds
      /\ \A j \in TimerKinds : gen'[j] \in {0, gen[j]}
  BY DEF GenLess, TimerTypes
<1> QED
  BY <1>1, <1>2, <1>3, Along

LEMMA StillAlong ==
  ASSUME TimerTypes, UNCHANGED timing
  PROVE  TimerTypes' /\ \A k \in TimerKinds : Shrinks(k)
BY DEF timing, TimerTypes, Shrinks, Used

LEMMA TasksAlong ==
  ASSUME TimerTypes, NEW i \in Timers, TimerStep(i)
  PROVE  TimerTypes' /\ \A k \in TimerKinds : Shrinks(k)
<1>1. ASSUME NEW k \in TimerKinds, TimerWakes(k, i) PROVE TimerTypes' /\ \A j \in TimerKinds : Shrinks(j)
  <2>1. UNCHANGED <<handle, gen>> /\ timer[k][i].pc # "done"
    BY <1>1 DEF TimerWakes, TimerAt
  <2>2. Advanced(k, i, "awake") \in Records /\ Finished \in Records
    BY AdvancedType, FinishedType DEF TimerPcs
  <2>3. (IF gen[k] = timer[k][i].gen THEN Advanced(k, i, "awake") ELSE Finished) \in Records
    BY <2>2
  <2> QED
    BY <1>1, <2>1, <2>3, WakesEffect, WithAlong
<1>2. ASSUME NEW k \in TimerKinds, TimerLeaves(k, i) PROVE TimerTypes' /\ \A j \in TimerKinds : Shrinks(j)
  <2>1. Advanced(k, i, IF k = "idle" THEN "stopping" ELSE "flushing") \in Records
    BY AdvancedType DEF TimerPcs
  <2>2. gen' \in {gen} \cup {GenLess(j) : j \in TimerKinds} /\ handle' \in {handle} \cup {HandleLess(j) : j \in TimerKinds}
    BY <1>2, LeavesEffect
  <2>3. timer[k][i].pc # "done"
    BY <1>2, LeavesEffect
  <2> QED
    BY <1>2, <2>1, <2>2, <2>3, LeavesEffect, WithAlong
<1>3. ASSUME NEW k \in TimerKinds, TimerFlushes(k, i) PROVE TimerTypes' /\ \A j \in TimerKinds : Shrinks(j)
  <2>1. timer' = With(k, i, Finished) /\ UNCHANGED <<handle, gen>> /\ timer[k][i].pc # "done"
    BY <1>3, FlushesEffect
  <2> QED
    BY <2>1, FinishedType, WithAlong
<1>4. CASE IdleAborts(i)
  <2>1. /\ timer["idle"][i].pc = "stopping" /\ gen' = gen /\ handle' = HandleLess("batch")
        /\ timer' \in TimerFunctions
    BY <1>4, AbortsEffect
  <2>2. \A m \in Timers : /\ timer'["idle"][m].pc # "done" => timer["idle"][m].pc # "done"
                          /\ timer'["batch"][m].pc # "done" => timer["batch"][m].pc # "done"
    BY <1>4, AbortsEffect DEF Finished
  <2>3. \A j \in TimerKinds, m \in Timers : timer'[j][m].pc # "done" => timer[j][m].pc # "done"
    BY <2>2 DEF TimerKinds
  <2>4. /\ handle' = [j \in TimerKinds |-> handle'[j]] /\ DOMAIN handle' = TimerKinds
        /\ gen' = [j \in TimerKinds |-> gen'[j]] /\ DOMAIN gen' = TimerKinds
        /\ \A j \in TimerKinds : handle'[j] \in {0, handle[j]} /\ gen'[j] \in {0, gen[j]}
    BY <2>1 DEF HandleLess, TimerTypes
  <2> QED
    BY <2>1, <2>3, <2>4, Along
<1>5. CASE IdleDropsBatchGen(i)
  <2>1. Advanced("idle", i, "flushing") \in Records /\ {"idle", "batch"} = TimerKinds
    BY AdvancedType DEF TimerPcs, TimerKinds
  <2>2. gen' \in {gen} \cup {GenLess(j) : j \in TimerKinds} /\ handle' \in {handle} \cup {HandleLess(j) : j \in TimerKinds}
    BY <1>5, <2>1, DropsGenEffect
  <2>3. timer["idle"][i].pc # "done" /\ "idle" \in TimerKinds
    BY <1>5, <2>1, DropsGenEffect
  <2> QED
    BY <1>5, <2>1, <2>2, <2>3, DropsGenEffect, WithAlong
<1> QED
  BY <1>1, <1>2, <1>3, <1>4, <1>5 DEF TimerStep

(* A timer is started in its slot. *)
Starts(k, g) ==
  LET slot == NextTimer(k) IN
  /\ slot \in Timers \ Used(k)
  /\ timer' = With(k, slot, [pc |-> "sleeping", gen |-> g])
  /\ handle' = [j \in TimerKinds |-> IF j = k THEN slot ELSE handle[j]]

LEMMA StartTypes ==
  ASSUME TimerTypes, NEW k \in TimerKinds, NEW g \in 0..MaxChunks, Starts(k, g)
  PROVE  /\ timer' \in TimerFunctions /\ handle' \in [TimerKinds -> 0..MaxChunks]
         /\ Used(k)' \subseteq Used(k) \cup {NextTimer(k)}
         /\ \A j \in TimerKinds : j # k => Used(j)' \subseteq Used(j)
<1> DEFINE slot == NextTimer(k)
           rec == [pc |-> "sleeping", gen |-> g]
<1>1. slot \in Timers /\ slot \in 0..MaxChunks /\ rec \in Records
  BY Bounds DEF Starts, Timers, Records, TimerPcs
<1>2. handle' = [j \in TimerKinds |-> IF j = k THEN slot ELSE handle[j]] /\ timer' = With(k, slot, rec)
  BY DEF Starts
<1> HIDE DEF slot, rec
<1>3. timer' \in TimerFunctions /\ \A j \in TimerKinds, m \in Timers :
              timer'[j][m] = IF j = k /\ m = slot THEN rec ELSE timer[j][m]
  BY <1>1, <1>2, WithType
<1>4. handle' \in [TimerKinds -> 0..MaxChunks]
  BY <1>1, <1>2 DEF TimerTypes
<1>5. Used(k)' \subseteq Used(k) \cup {slot}
  BY <1>2, <1>3 DEF Used
<1>6. \A j \in TimerKinds : j # k => Used(j)' \subseteq Used(j)
  BY <1>2, <1>3 DEF Used
<1> QED
  BY <1>3, <1>4, <1>5, <1>6 DEF slot

LEMMA ScheduleEffect ==
  ASSUME TimerTypes, ControlTypes, ReadPays, ScheduleBatch, reader.pc = "batch"
  PROVE  \/ handle["batch"] # 0 /\ UNCHANGED <<handle, gen, timer, crossed>>
         \/ /\ handle["batch"] = 0 /\ Starts("batch", gen["batch"] + 1)
            /\ gen' = [j \in TimerKinds |-> IF j = "batch" THEN gen["batch"] + 1 ELSE gen[j]]
            /\ gen["batch"] + 1 \in 0..MaxChunks /\ gen["batch"] + 1 <= read
            /\ crossed' = (crossed \/ (\E i \in Timers : timer["idle"][i].pc = "cancelling")
                                    \/ (\E e \in Enders : ender[e] = "batch-gen"))
<1>1. CASE handle["batch"] # 0
  BY <1>1 DEF ScheduleBatch, timing
<1>2. CASE handle["batch"] = 0
  <2>1. gen["batch"] \in Nat /\ gen["batch"] + 1 <= read /\ read \in Nat /\ read <= MaxChunks
    BY Bounds DEF ReadPays, Paid, Owed, TimerTypes, TimerKinds
  <2>2. IsFiniteSet(Used("batch")) /\ Cardinality(Used("batch")) + 1 <= read /\ Cardinality(Used("batch")) \in Nat
    BY FS_CardinalityType DEF ReadPays, Paid, Owed, TimerKinds
  <2>3. NextTimer("batch") \in Timers \ Used("batch")
    <3>1. Cardinality(Used("batch")) + 1 <= MaxChunks
      BY <2>1, <2>2, Bounds
    <3> QED
      BY <2>2, <3>1, SlotIsFree DEF TimerKinds
  <2>4. timer' = With("batch", NextTimer("batch"), [pc |-> "sleeping", gen |-> gen["batch"] + 1])
    BY <1>2, <2>3, SetEffect DEF ScheduleBatch, Started, TimerKinds
  <2>5. /\ handle' = [j \in TimerKinds |-> IF j = "batch" THEN NextTimer("batch") ELSE handle[j]]
        /\ gen' = [j \in TimerKinds |-> IF j = "batch" THEN gen["batch"] + 1 ELSE gen[j]]
    BY <1>2 DEF ScheduleBatch, TimerTypes
  <2>6. Starts("batch", gen["batch"] + 1)
    BY <2>3, <2>4, <2>5 DEF Starts
  <2>7. gen["batch"] + 1 \in 0..MaxChunks
    BY <2>1, Bounds
  <2> QED
    BY <1>2, <2>1, <2>5, <2>6, <2>7 DEF ScheduleBatch
<1> QED
  BY <1>1, <1>2

LEMMA ArmEffect ==
  ASSUME TimerTypes, ControlTypes, ReadPays, ReaderIdleArm
  PROVE  Starts("idle", reader.gen) /\ gen' = gen /\ reader.gen \in 0..MaxChunks
<1>1. IsFiniteSet(Used("idle")) /\ Cardinality(Used("idle")) + 1 <= read /\ Cardinality(Used("idle")) \in Nat
  BY FS_CardinalityType DEF ReadPays, ReaderIdleArm, TimerKinds
<1>2. Cardinality(Used("idle")) + 1 <= MaxChunks
  BY <1>1, Bounds DEF ControlTypes
<1>3. NextTimer("idle") \in Timers \ Used("idle")
  BY <1>1, <1>2, SlotIsFree DEF TimerKinds
<1>4. timer' = With("idle", NextTimer("idle"), [pc |-> "sleeping", gen |-> reader.gen])
  BY <1>3, SetEffect DEF ReaderIdleArm, Started, TimerKinds
<1>5. handle' = [j \in TimerKinds |-> IF j = "idle" THEN NextTimer("idle") ELSE handle[j]]
  BY DEF ReaderIdleArm, TimerTypes
<1> QED
  BY <1>3, <1>4, <1>5, Bounds DEF Starts, ReaderIdleArm, ReadPays, ControlTypes, Readers

(* The reader's steps, each with what it owes *)
PaidFor(k) == /\ Paid(gen[k], Owed(k)) /\ IsFiniteSet(Used(k)) /\ Paid(Cardinality(Used(k)), Owed(k))
CountsType == /\ Len(kind) \in Nat /\ read \in Nat /\ read <= MaxChunks /\ reader.gen \in Nat /\ reader.gen <= read
              /\ \A k \in TimerKinds : gen[k] \in Nat /\ IsFiniteSet(Used(k)) /\ Cardinality(Used(k)) \in Nat

LEMMA CountsAreNat == QueueTypes /\ ControlTypes /\ TimerTypes /\ ReadPays => CountsType
<1> HAVE QueueTypes /\ ControlTypes /\ TimerTypes /\ ReadPays
<1>1. Len(kind) \in Nat
  BY LenProperties DEF QueueTypes
<1>2. \A k \in TimerKinds : gen[k] \in Nat /\ IsFiniteSet(Used(k)) /\ Cardinality(Used(k)) \in Nat
  BY FS_CardinalityType, Bounds DEF ReadPays, TimerTypes
<1> QED
  BY <1>1, <1>2, Bounds DEF CountsType, ReadPays

LEMMA GetsPays ==
  ASSUME QueueTypes, ControlTypes, TimerTypes, ReadPays, ReaderGets
  PROVE  ReadPays' /\ TimerTypes'
<1>1. /\ read' = read + 1 /\ read < MaxChunks /\ reader.pc = "reading"
      /\ reader'.pc = "emitting" /\ reader'.gen = reader.gen
      /\ UNCHANGED <<kind, handle, gen, timer>>
  BY DEF ReaderGets, ReaderGoes, queue, timing, ControlTypes, Readers
<1>2. CountsType
  BY CountsAreNat
<1>3. \A k \in TimerKinds : PaidFor(k)'
  <2> TAKE k \in TimerKinds
  <2>1. Used(k)' = Used(k)
    BY <1>1 DEF Used
  <2> QED
    BY <1>1, <1>2, <2>1 DEF ReadPays, Paid, PaidFor, Owed, CountsType
<1>4. Paid(Len(kind), {"emitting"})' /\ read' \in 0..MaxChunks /\ reader'.gen \in 0..read'
  BY <1>1, <1>2, Bounds DEF ReadPays, Paid, CountsType
<1> QED
  BY <1>1, <1>3, <1>4 DEF ReadPays, PaidFor, TimerTypes

LEMMA QueuesPays ==
  ASSUME QueueTypes, ControlTypes, TimerTypes, ReadPays, QueueTypes', reader.pc = "emitting",
         Len(kind)' <= Len(kind) + 1, read' = read, UNCHANGED timing,
         reader'.pc \in {"batch", "reading"}, reader'.gen = 0
  PROVE  ReadPays' /\ TimerTypes'
<1>1. CountsType /\ Len(kind)' \in Nat
  BY CountsAreNat, LenProperties DEF QueueTypes
<1>2. \A k \in TimerKinds : PaidFor(k)'
  <2> TAKE k \in TimerKinds
  <2>1. Used(k)' = Used(k) /\ gen' = gen
    BY DEF Used, timing
  <2> QED
    BY <1>1, <2>1 DEF ReadPays, Paid, PaidFor, Owed, CountsType
<1>3. Paid(Len(kind), {"emitting"})' /\ read' \in 0..MaxChunks /\ reader'.gen \in 0..read'
  BY <1>1, Bounds DEF ReadPays, Paid, CountsType
<1> QED
  BY <1>2, <1>3 DEF ReadPays, PaidFor, TimerTypes, timing

LEMMA BatchPays ==
  ASSUME QueueTypes, ControlTypes, TimerTypes, ReadPays, ReaderBatch
  PROVE  ReadPays' /\ TimerTypes'
<1>1. /\ reader.pc = "batch" /\ UNCHANGED <<kind, read>>
      /\ reader'.pc \in {"idle", "batch-gen"} /\ reader'.gen = reader.gen
      /\ reader.pending => reader'.pc = "idle"
  BY DEF ReaderBatch, ReaderGoes, queue, ControlTypes, Readers
<1>2. CountsType
  BY CountsAreNat
<1>3. Paid(Len(kind), {"emitting"})' /\ read' \in 0..MaxChunks /\ reader'.gen \in 0..read'
  BY <1>1, <1>2, Bounds DEF ReadPays, Paid, CountsType
<1>4. ASSUME TimerTypes', \A k \in TimerKinds : Shrinks(k) PROVE \A k \in TimerKinds : PaidFor(k)'
  <2> TAKE k \in TimerKinds
  <2>1. gen'[k] \in Nat /\ gen'[k] <= gen[k]
    BY <1>2, <1>4 DEF Shrinks, CountsType
  <2>2. IsFiniteSet(Used(k)') /\ Cardinality(Used(k)') <= Cardinality(Used(k)) /\ Cardinality(Used(k)') \in Nat
    BY <1>2, <1>4, SmallerSet DEF Shrinks, CountsType
  <2> QED
    BY <1>1, <1>2, <2>1, <2>2 DEF ReadPays, Paid, PaidFor, Owed, CountsType
<1>5. CASE ~reader.pending
  <2>1. TakeHandle("batch") /\ gen' = gen
    BY <1>5 DEF ReaderBatch
  <2>2. TimerTypes' /\ \A k \in TimerKinds : Shrinks(k)
    BY <2>1, TakeEffect, TakenAlong DEF TimerKinds
  <2> QED
    BY <1>1, <1>3, <1>4, <2>2 DEF ReadPays, PaidFor
<1>6. CASE reader.pending /\ handle["batch"] # 0
  <2>1. UNCHANGED timing
    BY <1>1, <1>6, ScheduleEffect DEF ReaderBatch, timing
  <2>2. TimerTypes' /\ \A k \in TimerKinds : Shrinks(k)
    BY <2>1, StillAlong
  <2> QED
    BY <1>1, <1>3, <1>4, <2>2 DEF ReadPays, PaidFor
<1>7. CASE reader.pending /\ handle["batch"] = 0
  <2>1. /\ Starts("batch", gen["batch"] + 1) /\ gen["batch"] + 1 \in 0..MaxChunks /\ gen["batch"] + 1 <= read
        /\ gen' = [j \in TimerKinds |-> IF j = "batch" THEN gen["batch"] + 1 ELSE gen[j]]
    BY <1>1, <1>7, ScheduleEffect DEF ReaderBatch
  <2>2. /\ timer' \in TimerFunctions /\ handle' \in [TimerKinds -> 0..MaxChunks]
        /\ Used("batch")' \subseteq Used("batch") \cup {NextTimer("batch")}
        /\ Used("idle")' \subseteq Used("idle")
    BY <2>1, StartTypes DEF TimerKinds
  <2>3. TimerTypes'
    BY <2>1, <2>2 DEF TimerTypes, TimerFunctions, Records
  <2>4. PaidFor("batch")'
    <3>1. IsFiniteSet(Used("batch")') /\ Cardinality(Used("batch")') <= Cardinality(Used("batch")) + 1
          /\ Cardinality(Used("batch")') \in Nat
      BY <1>2, <2>2, OneMore DEF CountsType, TimerKinds
    <3>2. gen'["batch"] = gen["batch"] + 1
      BY <2>1 DEF TimerKinds
    <3> QED
      BY <1>1, <1>2, <1>7, <2>1, <3>1, <3>2 DEF ReadPays, Paid, PaidFor, Owed, CountsType, TimerKinds
  <2>5. PaidFor("idle")'
    <3>1. IsFiniteSet(Used("idle")') /\ Cardinality(Used("idle")') <= Cardinality(Used("idle"))
          /\ Cardinality(Used("idle")') \in Nat
      BY <1>2, <2>2, SmallerSet DEF CountsType, TimerKinds
    <3>2. gen'["idle"] = gen["idle"]
      BY <2>1 DEF TimerKinds
    <3> QED
      BY <1>1, <1>2, <3>1, <3>2 DEF ReadPays, Paid, PaidFor, Owed, CountsType, TimerKinds
  <2> QED
    BY <1>1, <1>3, <2>3, <2>4, <2>5 DEF ReadPays, PaidFor, TimerKinds
<1> QED
  BY <1>5, <1>6, <1>7

LEMMA BatchGenPays ==
  ASSUME QueueTypes, ControlTypes, TimerTypes, ReadPays, ReaderBatchGen
  PROVE  ReadPays' /\ TimerTypes'
<1>1. /\ reader.pc = "batch-gen" /\ UNCHANGED <<kind, read, handle, timer>>
      /\ reader'.pc = "idle" /\ reader'.gen = reader.gen /\ gen' = GenLess("batch")
  BY DEF ReaderBatchGen, ReaderGoes, queue, ControlTypes, Readers, DropGen, GenLess, TimerTypes
<1>2. CountsType
  BY CountsAreNat
<1>3. Paid(Len(kind), {"emitting"})' /\ read' \in 0..MaxChunks /\ reader'.gen \in 0..read'
  BY <1>1, <1>2, Bounds DEF ReadPays, Paid, CountsType
<1>4. \A k \in TimerKinds : PaidFor(k)'
  <2> TAKE k \in TimerKinds
  <2>1. Used(k)' = Used(k) /\ gen'[k] \in {0, gen[k]}
    BY <1>1 DEF Used, GenLess
  <2> QED
    BY <1>1, <1>2, <2>1 DEF ReadPays, Paid, PaidFor, Owed, CountsType
<1>5. TimerTypes'
  BY <1>1, Bounds DEF TimerTypes, GenLess
<1> QED
  BY <1>1, <1>3, <1>4, <1>5 DEF ReadPays, PaidFor

LEMMA IdlePays ==
  ASSUME QueueTypes, ControlTypes, TimerTypes, ReadPays, ReaderIdle
  PROVE  ReadPays' /\ TimerTypes'
<1>1. reader.pc = "idle" /\ UNCHANGED <<kind, read>> /\ TakenFrom("idle")
  BY TakeEffect DEF ReaderIdle, queue, TimerKinds
<1>2. CountsType
  BY CountsAreNat
<1>3. /\ timer' \in TimerFunctions /\ handle' \in [TimerKinds -> 0..MaxChunks]
      /\ \A k \in TimerKinds : Used(k)' \subseteq Used(k)
  <2>1. \A m \in Timers : m # 0
    BY Bounds DEF Timers
  <2>2. \A k \in TimerKinds : Used(k)' \subseteq Used(k)
    BY <1>1, <2>1 DEF TakenFrom, Used, Finished
  <2> QED
    BY <1>1, <2>2, Bounds DEF TakenFrom, TimerTypes
<1>4. \A k \in TimerKinds : /\ IsFiniteSet(Used(k)') /\ Cardinality(Used(k)') <= Cardinality(Used(k))
                             /\ Cardinality(Used(k)') \in Nat
  BY <1>2, <1>3, SmallerSet DEF CountsType
<1>5. gen["idle"] + 1 <= read /\ Cardinality(Used("idle")) + 1 <= read
  BY <1>1 DEF ReadPays, Paid, Owed, TimerKinds
<1>6. /\ gen'["batch"] = gen["batch"] /\ gen' = [k \in TimerKinds |-> gen'[k]]
      /\ \/ reader'.pc = "idle-arm" /\ gen'["idle"] = gen["idle"] + 1 /\ reader'.gen = gen["idle"] + 1
         \/ reader'.pc = "reading" /\ gen'["idle"] = 0 /\ reader'.gen = 0
  <2>1. CASE reader.fragment
    <3>1. gen' = [gen EXCEPT !["idle"] = gen["idle"] + 1] /\ reader' = [reader EXCEPT !.pc = "idle-arm", !.gen = gen["idle"] + 1]
      BY <2>1 DEF ReaderIdle
    <3> QED
      BY <3>1 DEF TimerTypes, TimerKinds, ControlTypes, Readers
  <2>2. CASE ~reader.fragment
    BY <2>2 DEF ReaderIdle, DropGen, Reader, TimerTypes, TimerKinds
  <2> QED
    BY <2>1, <2>2
<1>7. gen'["idle"] \in 0..MaxChunks /\ gen'["batch"] \in 0..MaxChunks
  BY <1>2, <1>5, <1>6, Bounds DEF CountsType, TimerKinds, TimerTypes
<1>8. TimerTypes'
  <2>1. \A k \in TimerKinds : gen'[k] \in 0..MaxChunks
    BY <1>7 DEF TimerKinds
  <2>2. gen' \in [TimerKinds -> 0..MaxChunks]
    BY <1>6, <2>1, Zenon
  <2> QED
    BY <1>3, <2>2 DEF TimerTypes, TimerFunctions, Records
<1>9. PaidFor("idle")' /\ PaidFor("batch")'
  <2>1. reader'.pc \in {"idle-arm", "reading"} /\ reader'.pc \notin Owed("idle") /\ reader'.pc \notin Owed("batch")
    BY <1>6 DEF Owed
  <2>2. gen'["idle"] <= read /\ gen'["batch"] <= read
    BY <1>1, <1>2, <1>5, <1>6 DEF ReadPays, Paid, Owed, CountsType, TimerKinds
  <2>3. Cardinality(Used("idle")') <= read /\ Cardinality(Used("batch")') <= read
    <3>1. Cardinality(Used("idle")) <= read /\ Cardinality(Used("batch")) <= read
      BY <1>1, <1>2, <1>5 DEF ReadPays, Paid, Owed, CountsType, TimerKinds
    <3>2. /\ Cardinality(Used("idle")') \in Nat /\ Cardinality(Used("idle")') <= Cardinality(Used("idle"))
          /\ Cardinality(Used("batch")') \in Nat /\ Cardinality(Used("batch")') <= Cardinality(Used("batch"))
          /\ Cardinality(Used("idle")) \in Nat /\ Cardinality(Used("batch")) \in Nat /\ read \in Nat
      BY <1>2, <1>4 DEF CountsType, TimerKinds
    <3> QED
      BY <3>1, <3>2
  <2> QED
    BY <1>1, <1>4, <2>1, <2>2, <2>3 DEF Paid, PaidFor, TimerKinds
<1>10. Paid(Len(kind), {"emitting"})' /\ read' \in 0..MaxChunks /\ reader'.gen \in 0..read'
  <2>1. Len(kind) <= read /\ read \in 0..MaxChunks
    BY <1>1 DEF ReadPays, Paid
  <2>2. reader'.pc # "emitting" /\ (reader'.gen = gen["idle"] + 1 \/ reader'.gen = 0)
    BY <1>6
  <2>3. gen["idle"] \in Nat
    BY <1>2 DEF CountsType, TimerKinds
  <2>4. reader'.gen \in 0..read
    BY <1>5, <2>1, <2>2, <2>3
  <2> QED
    BY <1>1, <2>1, <2>2, <2>4 DEF Paid
<1>11. reader'.pc = "idle-arm" => Cardinality(Used("idle")') + 1 <= read'
  BY <1>1, <1>2, <1>4, <1>5 DEF CountsType, TimerKinds
<1> QED
  BY <1>8, <1>9, <1>10, <1>11 DEF ReadPays, PaidFor, TimerKinds

LEMMA ArmPays ==
  ASSUME QueueTypes, ControlTypes, TimerTypes, ReadPays, ReaderIdleArm
  PROVE  ReadPays' /\ TimerTypes'
<1>1. /\ reader.pc = "idle-arm" /\ UNCHANGED <<kind, read>> /\ reader'.pc = "reading" /\ reader'.gen = 0
  BY DEF ReaderIdleArm, queue, Reader
<1>2. CountsType
  BY CountsAreNat
<1>3. Starts("idle", reader.gen) /\ gen' = gen /\ reader.gen \in 0..MaxChunks
  BY ArmEffect
<1>4. /\ timer' \in TimerFunctions /\ handle' \in [TimerKinds -> 0..MaxChunks]
      /\ Used("idle")' \subseteq Used("idle") \cup {NextTimer("idle")} /\ Used("batch")' \subseteq Used("batch")
  BY <1>3, StartTypes DEF TimerKinds
<1>5. TimerTypes'
  BY <1>3, <1>4 DEF TimerTypes, TimerFunctions, Records
<1>6. PaidFor("idle")'
  <2>1. IsFiniteSet(Used("idle")') /\ Cardinality(Used("idle")') <= Cardinality(Used("idle")) + 1
        /\ Cardinality(Used("idle")') \in Nat
    BY <1>2, <1>4, OneMore DEF CountsType, TimerKinds
  <2> QED
    BY <1>1, <1>2, <1>3, <2>1 DEF ReadPays, Paid, PaidFor, Owed, CountsType, TimerKinds
<1>7. PaidFor("batch")'
  <2>1. IsFiniteSet(Used("batch")') /\ Cardinality(Used("batch")') <= Cardinality(Used("batch"))
        /\ Cardinality(Used("batch")') \in Nat
    BY <1>2, <1>4, SmallerSet DEF CountsType, TimerKinds
  <2> QED
    BY <1>1, <1>2, <1>3, <2>1 DEF ReadPays, Paid, PaidFor, Owed, CountsType, TimerKinds
<1>8. Paid(Len(kind), {"emitting"})' /\ read' \in 0..MaxChunks /\ reader'.gen \in 0..read'
  BY <1>1, <1>2, Bounds DEF ReadPays, Paid, CountsType
<1> QED
  BY <1>1, <1>5, <1>6, <1>7, <1>8 DEF ReadPays, PaidFor, TimerKinds

(* The same for every step *)
LEMMA TimersKept ==
  ASSUME QueueTypes, QueueTypes', ControlTypes, TimerTypes, ReadPays, Chained, Next
  PROVE  ReadPays' /\ TimerTypes'
<1>0. Len(kind) \in Nat /\ Len(<<>>) = 0
  BY LenProperties, EmptyIsEmpty DEF QueueTypes
<1>1. ASSUME UNCHANGED <<timing, read, reader>>, Len(kind)' <= Len(kind) PROVE ReadPays' /\ TimerTypes'
  BY <1>1, StillAlong, PaysAlong
<1>2. CASE TurnStarts \/ LaunchResolves \/ ExitReturns
  BY <1>0, <1>1, <1>2 DEF TurnStarts, LaunchResolves, ExitReturns, queue
<1>10. CASE LaunchFails
  BY <1>0, <1>1, <1>10 DEF LaunchFails, Drops
<1>3. CASE ReaderQueues
  <2>1. UNCHANGED <<timing, read>> /\ reader.pc = "emitting"
    BY <1>3 DEF ReaderQueues
  <2>2. PICK k \in Kinds : QueueOutput(k)
    BY <1>3 DEF ReaderQueues
  <2>3. Len(kind') <= Len(kind) + 1
    <3>1. kind' = kind \/ kind' = Append(kind, k)
      BY <2>2 DEF QueueOutput, queue
    <3> QED
      BY <1>0, <3>1, AppendProperties DEF QueueTypes
  <2>4. reader'.pc \in {"batch", "reading"} /\ reader'.gen = 0
    BY <2>2 DEF QueueOutput, Reader
  <2> QED
    BY <2>1, <2>3, <2>4, QueuesPays
<1>4. CASE ReaderGets \/ ReaderBatch \/ ReaderBatchGen \/ ReaderIdle \/ ReaderIdleArm
  BY <1>4, GetsPays, BatchPays, BatchGenPays, IdlePays, ArmPays
<1>5. ASSUME NEW i \in Timers, TimerStep(i) PROVE ReadPays' /\ TimerTypes'
  <2>1. UNCHANGED <<read, reader>>
    BY <1>5 DEF TimerStep, TimerWakes, TimerLeaves, IdleAborts, IdleDropsBatchGen, TimerFlushes
  <2>2. kind' = kind
    BY <1>5 DEF TimerStep, TimerWakes, TimerLeaves, IdleAborts, IdleDropsBatchGen, TimerFlushes,
                FlushPending, FlushTrailing, queue
  <2> QED
    BY <1>0, <1>5, <2>1, <2>2, TasksAlong, PaysAlong
<1>6. ASSUME NEW e \in Enders, EnderBegins(e) PROVE ReadPays' /\ TimerTypes'
  <2>1. TakenFrom("batch") /\ gen' = gen /\ UNCHANGED <<read, reader, kind>>
    BY <1>6, TakeEffect DEF EnderBegins, queue, TimerKinds
  <2>2. TimerTypes' /\ \A k \in TimerKinds : Shrinks(k)
    BY <2>1, TakenAlong DEF TimerKinds
  <2> QED
    BY <1>0, <2>1, <2>2, PaysAlong
<1>7. ASSUME NEW e \in Enders, EnderCancels(e) PROVE ReadPays' /\ TimerTypes'
  <2>1. TakenFrom("idle") /\ gen' = [j \in TimerKinds |-> 0] /\ UNCHANGED <<read, reader, kind>>
    BY <1>7, CancelsEffect DEF EnderCancels, queue
  <2>2. TimerTypes' /\ \A k \in TimerKinds : Shrinks(k)
    BY <2>1, TakenAlong DEF TimerKinds
  <2> QED
    BY <1>0, <2>1, <2>2, PaysAlong
<1>8. ASSUME NEW e \in Enders, EnderFlushes(e) PROVE ReadPays' /\ TimerTypes'
  BY <1>0, <1>1, <1>8 DEF EnderFlushes, FlushTrailing, queue
<1>9. ASSUME NEW e \in Enders, EnderDeletes(e) PROVE ReadPays' /\ TimerTypes'
  BY <1>0, <1>1, <1>9 DEF EnderDeletes, Drops
<1> QED
  BY <1>2, <1>3, <1>4, <1>5, <1>6, <1>7, <1>8, <1>9, <1>10, EndingsAssumption
     DEF Next, ReaderStep, EnderStep, Enders

LEMMA ControlKept ==
  ASSUME QueueTypes, ControlTypes, TimerTypes, ReadPays, ReadPays', Chained, Next
  PROVE  ControlTypes'
<1> USE DEF ControlTypes
<1>1. CASE TurnStarts
  BY <1>1, Bounds DEF TurnStarts, EnderPcs
<1>2. CASE ReaderGets
  BY <1>2, Bounds DEF ReaderGets, ReaderGoes, ending, Readers, ReaderPcs
<1>3. CASE ReaderQueues
  <2>1. UNCHANGED <<ending, read, crossed>>
    BY <1>3 DEF ReaderQueues
  <2>2. \E pc \in {"batch", "reading"}, pending \in BOOLEAN, fragment \in BOOLEAN : reader' = Reader(pc, pending, fragment)
    BY <1>3 DEF ReaderQueues, QueueOutput
  <2>3. reader' \in Readers
    BY <2>2, Bounds DEF Reader, Readers, ReaderPcs
  <2> QED
    BY <2>1, <2>3 DEF ending
<1>4. CASE ReaderBatch \/ ReaderBatchGen
  <2>1. UNCHANGED <<ending, read>> /\ reader' \in Readers
    BY <1>4 DEF ReaderBatch, ReaderBatchGen, ReaderGoes, Readers, ReaderPcs
  <2>2. crossed' \in BOOLEAN
    BY <1>4 DEF ReaderBatch, ReaderBatchGen, ScheduleBatch
  <2> QED
    BY <2>1, <2>2 DEF ending
<1>5. CASE ReaderIdle
  <2>1. UNCHANGED <<ending, read, crossed>>
    BY <1>5 DEF ReaderIdle
  <2>2. gen["idle"] + 1 \in 0..MaxChunks
    <3>1. gen["idle"] \in Nat /\ read \in Nat /\ read <= MaxChunks
      BY CountsAreNat DEF CountsType, TimerKinds
    <3>2. reader.pc = "idle" /\ Paid(gen["idle"], Owed("idle"))
      BY <1>5 DEF ReaderIdle, ReadPays, TimerKinds
    <3>3. gen["idle"] + 1 <= read
      BY <3>2 DEF Paid, Owed
    <3> QED
      BY <3>1, <3>3, Bounds
  <2>3. reader' \in Readers
    <3>1. CASE reader.fragment
      <4>1. reader' = [reader EXCEPT !.pc = "idle-arm", !.gen = gen["idle"] + 1]
        BY <1>5, <3>1 DEF ReaderIdle
      <4> QED
        BY <2>2, <4>1 DEF Readers, ReaderPcs
    <3>2. CASE ~reader.fragment
      <4>1. reader' = Reader("reading", FALSE, FALSE)
        BY <1>5, <3>2 DEF ReaderIdle
      <4> QED
        BY <4>1, Bounds DEF Reader, Readers, ReaderPcs
    <3> QED
      BY <3>1, <3>2
  <2> QED
    BY <2>1, <2>3 DEF ending
<1>6. CASE ReaderIdleArm
  BY <1>6, Bounds DEF ReaderIdleArm, Reader, Readers, ReaderPcs, ending
<1>7. ASSUME NEW i \in Timers, TimerStep(i) PROVE ControlTypes'
  BY <1>7 DEF TimerStep, TimerWakes, TimerLeaves, IdleAborts, IdleDropsBatchGen, TimerFlushes, ending
<1>8. ASSUME NEW e \in Enders, EnderBegins(e) \/ EnderStep(e) PROVE ControlTypes'
  <2>1. UNCHANGED <<turns, read, reader, crossed>> /\ open' \in BOOLEAN /\ launching' \in BOOLEAN
    BY <1>8 DEF EnderBegins, EnderStep, EnderCancels, EnderFlushes, EnderDeletes, Drops
  <2>4. lost' \subseteq Causes
    BY <1>8 DEF EnderBegins, EnderStep, EnderCancels, EnderFlushes, EnderDeletes, Drops, Causes
  <2>2. ender' \in [Enders -> EnderPcs]
    BY <1>8 DEF EnderBegins, EnderStep, EnderCancels, EnderFlushes, EnderDeletes, EnderGoes, EnderPcs
  <2>3. sealed' \in 0..MaxChunks
    <3>1. Len(kind) \in 0..MaxChunks
      BY Fits, Bounds
    <3>2. sealed' \in {sealed, 0, Len(kind)}
      BY <1>8 DEF EnderBegins, EnderStep, EnderCancels, EnderFlushes, EnderDeletes, Drops
    <3> QED
      BY <3>1, <3>2, Bounds
  <2> QED
    BY <2>1, <2>2, <2>3, <2>4
<1>9. CASE ExitReturns
  BY <1>9 DEF ExitReturns, EnderGoes, EnderPcs
<1>10. CASE LaunchResolves
  BY <1>10 DEF LaunchResolves
<1>11. CASE LaunchFails
  <2>1. lost' \subseteq Causes
    BY <1>11 DEF LaunchFails, Drops, Causes
  <2>2. 0 \in 0..MaxChunks
    BY Bounds
  <2> QED
    BY <1>11, <2>1, <2>2 DEF LaunchFails, Drops
<1> QED
  BY <1>1, <1>2, <1>3, <1>4, <1>5, <1>6, <1>7, <1>8, <1>9, <1>10, <1>11, EndingsAssumption
     DEF Next, ReaderStep, Enders

-----------------------------------------------------------------------------
(* Whatever waits will be flushed                                          *)

LEMMA FlushQuiet ==
  ASSUME NEW final \in BOOLEAN, FlushOutcome(final), failures' = MaxFailures
  PROVE  /\ failures = MaxFailures /\ ~Refused /\ (open => raws' = <<>>) /\ (~open => raws' = raws)
BY DEF FlushOutcome, queue

(* Steps that leave timers and reader alone and do not end an end early *)
LEMMA FiresStill ==
  ASSUME ControlTypes, TimerTypes, Fires, UNCHANGED <<timing, reader, crossed>>,
         raws' \in {raws, <<>>}, NoneRefused',
         \A e \in Enders : ender[e]' = "batch-gen" => ender[e] = "batch-gen",
         open' /\ raws' # <<>> => open /\ (ActiveEnder => ActiveEnder')
  PROVE  Fires'
<1>1. FlushedIsEmpty'
  BY DEF Fires, FlushedIsEmpty
<1>2. ASSUME ~crossed PROVE HandleFires' /\ CancelledHasNone'
  BY <1>2 DEF Fires, Timely, HandleFires, CancelledHasNone, timing
<1>3. ASSUME ~crossed PROVE SomeoneFlushes'
  <2>1. ActiveTimer' <=> ActiveTimer
    BY DEF ActiveTimer, timing
  <2> QED
    BY <1>3, <2>1 DEF Fires, Timely, SomeoneFlushes, timing
<1> QED
  BY <1>1, <1>2, <1>3 DEF Fires, Timely

(* Steps of the reader in which no timer is taken or started *)
LEMMA GetsFires ==
  ASSUME ControlTypes, TimerTypes, Fires, UNCHANGED <<timing, crossed, ender, open>>,
         \/ reader'.pc \notin {"batch", "batch-gen"} /\ raws' = raws /\ reader.pc # "batch"
         \/ reader'.pc = "batch" /\ reader'.pending
         \/ reader'.pc # "batch-gen" /\ raws' = <<>>
  PROVE  Fires'
<1>1. FlushedIsEmpty' /\ NoneRefused'
  BY DEF Fires, FlushedIsEmpty, NoneRefused
<1>2. ASSUME ~crossed PROVE HandleFires' /\ CancelledHasNone'
  BY <1>2 DEF Fires, Timely, HandleFires, CancelledHasNone, timing
<1>3. ASSUME ~crossed PROVE SomeoneFlushes'
  <2>1. (ActiveTimer' <=> ActiveTimer) /\ (ActiveEnder' <=> ActiveEnder)
    BY DEF ActiveTimer, ActiveEnder, timing
  <2> QED
    BY <1>3, <2>1 DEF Fires, Timely, SomeoneFlushes, timing
<1> QED
  BY <1>1, <1>2, <1>3 DEF Fires, Timely

LEMMA BatchFires ==
  ASSUME QueueTypes, ControlTypes, TimerTypes, ReadPays, Fires, ReaderBatch
  PROVE  Fires'
<1>1. reader.pc = "batch" /\ UNCHANGED <<raws, ender, open>>
  BY DEF ReaderBatch, queue, ending
<1>2. CASE ~reader.pending
  <2>1. /\ TakenFrom("batch") /\ gen' = gen /\ crossed' = crossed /\ reader'.pc = "batch-gen" /\ raws = <<>>
    BY <1>1, <1>2, TakeEffect DEF ReaderBatch, TimerKinds, ReaderGoes, ControlTypes, Readers, Fires, FlushedIsEmpty
  <2>2. handle'["batch"] = 0
    BY <2>1 DEF TakenFrom, TimerKinds
  <2> QED
    BY <1>1, <2>1, <2>2 DEF Fires, Timely, FlushedIsEmpty, NoneRefused, HandleFires, CancelledHasNone, SomeoneFlushes
<1>3. CASE reader.pending
  <2>1. reader'.pc = "idle" /\ ScheduleBatch
    BY <1>3 DEF ReaderBatch, ReaderGoes, ControlTypes, Readers
  <2>2. FlushedIsEmpty' /\ NoneRefused'
    BY <1>1, <2>1 DEF Fires, FlushedIsEmpty, NoneRefused
  <2>3. CASE handle["batch"] # 0 /\ UNCHANGED <<handle, gen, timer, crossed>>
    BY <1>1, <2>1, <2>2, <2>3 DEF Fires, Timely, HandleFires, CancelledHasNone, SomeoneFlushes
  <2>4. CASE /\ handle["batch"] = 0 /\ Starts("batch", gen["batch"] + 1)
             /\ gen' = [j \in TimerKinds |-> IF j = "batch" THEN gen["batch"] + 1 ELSE gen[j]]
             /\ gen["batch"] + 1 \in 0..MaxChunks
             /\ crossed' = (crossed \/ (\E i \in Timers : timer["idle"][i].pc = "cancelling")
                                     \/ (\E e \in Enders : ender[e] = "batch-gen"))
    <3> DEFINE slot == NextTimer("batch")
               rec == [pc |-> "sleeping", gen |-> gen["batch"] + 1]
    <3>1. slot \in Timers /\ slot # 0 /\ rec \in Records /\ handle'["batch"] = slot /\ timer' = With("batch", slot, rec)
      BY <2>4, Bounds DEF Starts, Timers, Records, TimerPcs, TimerKinds
    <3>2. rec.pc = "sleeping" /\ rec.gen = gen'["batch"]
      BY <2>4 DEF TimerKinds
    <3> HIDE DEF slot, rec
    <3>3. timer'["batch"][slot] = rec /\ \A m \in Timers : timer'["idle"][m] = timer["idle"][m]
      BY <3>1, WithType DEF TimerKinds
    <3>4. HandleFires'
      BY <3>1, <3>2, <3>3 DEF HandleFires
    <3>5. SomeoneFlushes'
      BY <3>1 DEF SomeoneFlushes
    <3>6. ~crossed' => CancelledHasNone'
      BY <1>1, <2>1, <2>4, <3>3 DEF CancelledHasNone
    <3> QED
      BY <2>2, <3>4, <3>5, <3>6 DEF Fires, Timely
  <2> QED
    BY <1>1, <2>1, <2>3, <2>4, ScheduleEffect
<1> QED
  BY <1>2, <1>3

LEMMA BatchGenFires ==
  ASSUME ControlTypes, TimerTypes, Fires, ReaderBatchGen
  PROVE  Fires'
<1>1. /\ reader.pc = "batch-gen" /\ reader'.pc = "idle" /\ raws = <<>>
      /\ UNCHANGED <<raws, ender, open, handle, timer, crossed>>
  BY DEF ReaderBatchGen, ReaderGoes, ControlTypes, Readers, queue, ending, Fires, FlushedIsEmpty
<1> QED
  BY <1>1 DEF Fires, Timely, FlushedIsEmpty, NoneRefused, HandleFires, CancelledHasNone, SomeoneFlushes

(* Steps that touch the idle timer only *)
LEMMA IdleFires ==
  ASSUME ControlTypes, TimerTypes, Fires, ReaderIdle \/ ReaderIdleArm, ReadPays
  PROVE  Fires'
<1>1. /\ reader.pc \in {"idle", "idle-arm"} /\ reader'.pc \in {"idle-arm", "reading"}
      /\ UNCHANGED <<raws, ender, open, crossed>>
  <2>1. reader.pc \in {"idle", "idle-arm"} /\ UNCHANGED <<raws, ender, open, crossed>>
    BY DEF ReaderIdle, ReaderIdleArm, queue, ending
  <2>2. \/ reader' = Reader("reading", FALSE, FALSE)
        \/ reader' = [reader EXCEPT !.pc = "idle-arm", !.gen = gen["idle"] + 1]
    BY DEF ReaderIdle, ReaderIdleArm
  <2>3. Reader("reading", FALSE, FALSE).pc = "reading"
    BY DEF Reader
  <2>4. [reader EXCEPT !.pc = "idle-arm", !.gen = gen["idle"] + 1].pc = "idle-arm"
    BY DEF ControlTypes, Readers
  <2>5. reader'.pc \in {"idle-arm", "reading"}
    BY <2>2, <2>3, <2>4
  <2> QED
    BY <2>1, <2>5
<1>2. /\ handle'["batch"] = handle["batch"] /\ gen'["batch"] = gen["batch"]
      /\ \A m \in Timers : timer'["batch"][m] = timer["batch"][m]
      /\ \A m \in Timers : \/ timer'["idle"][m] = timer["idle"][m]
                           \/ timer'["idle"][m].pc \in {"done", "sleeping"} /\ timer["idle"][m].pc \in {"done", "sleeping"}
  <2>1. CASE ReaderIdle
    <3>1. TakenFrom("idle") /\ gen'["batch"] = gen["batch"]
      BY <2>1, TakeEffect DEF ReaderIdle, DropGen, TimerKinds, TimerTypes
    <3>2. handle'["batch"] = handle["batch"]
      BY <3>1 DEF TakenFrom, TimerKinds
    <3>3. \A m \in Timers : timer'["batch"][m] = timer["batch"][m]
      BY <3>1 DEF TakenFrom, TimerKinds
    <3>4. \A m \in Timers : \/ timer'["idle"][m] = timer["idle"][m]
                            \/ timer'["idle"][m].pc \in {"done", "sleeping"} /\ timer["idle"][m].pc \in {"done", "sleeping"}
      <4> TAKE m \in Timers
      <4>1. timer'["idle"][m] = IF handle["idle"] = m /\ timer["idle"][m].pc = "sleeping" THEN Finished ELSE timer["idle"][m]
        BY <3>1 DEF TakenFrom, TimerKinds
      <4>2. Finished.pc = "done"
        BY DEF Finished
      <4> QED
        BY <4>1, <4>2
    <3> QED
      BY <3>1, <3>2, <3>3, <3>4
  <2>2. CASE ReaderIdleArm
    <3> DEFINE slot == NextTimer("idle")
               rec == [pc |-> "sleeping", gen |-> reader.gen]
    <3>1. /\ slot \in Timers \ Used("idle") /\ timer' = With("idle", slot, rec) /\ gen' = gen /\ rec \in Records
          /\ handle' = [j \in TimerKinds |-> IF j = "idle" THEN slot ELSE handle[j]]
      BY <2>2, ArmEffect DEF Starts, Records, TimerPcs
    <3>2. rec.pc = "sleeping" /\ timer["idle"][slot].pc = "done" /\ slot \in Timers
      BY <3>1 DEF Used
    <3> HIDE DEF slot, rec
    <3>3. \A j \in TimerKinds, m \in Timers : timer'[j][m] = IF j = "idle" /\ m = slot THEN rec ELSE timer[j][m]
      BY <3>1, <3>2, WithType DEF TimerKinds
    <3>4. handle'["batch"] = handle["batch"] /\ gen'["batch"] = gen["batch"]
      BY <3>1 DEF TimerKinds
    <3>5. \A m \in Timers : timer'["batch"][m] = timer["batch"][m]
      BY <3>3 DEF TimerKinds
    <3>6. \A m \in Timers : m # slot => timer'["idle"][m] = timer["idle"][m]
      BY <3>3 DEF TimerKinds
    <3>7. timer'["idle"][slot].pc = "sleeping"
      BY <3>2, <3>3 DEF TimerKinds
    <3>8. \A m \in Timers : \/ timer'["idle"][m] = timer["idle"][m]
                            \/ timer'["idle"][m].pc \in {"done", "sleeping"} /\ timer["idle"][m].pc \in {"done", "sleeping"}
      <4> TAKE m \in Timers
      <4>1. CASE m = slot
        BY <3>2, <3>7, <4>1
      <4>2. CASE m # slot
        BY <3>6, <4>2
      <4> QED
        BY <4>1, <4>2
    <3> QED
      BY <3>4, <3>5, <3>8
  <2> QED
    BY <2>1, <2>2
<1>3. FlushedIsEmpty' /\ NoneRefused'
  BY <1>1 DEF Fires, FlushedIsEmpty, NoneRefused
<1>4. handle["batch"] # 0 => handle["batch"] \in Timers
  BY Bounds DEF TimerTypes, Timers, TimerKinds
<1>5. ASSUME ~crossed PROVE HandleFires' /\ CancelledHasNone'
  BY <1>1, <1>2, <1>4, <1>5 DEF Fires, Timely, HandleFires, CancelledHasNone
<1>6. ASSUME ~crossed PROVE SomeoneFlushes'
  <2>1. ActiveTimer => ActiveTimer'
    BY <1>2 DEF ActiveTimer, Active, TimerKinds
  <2> QED
    BY <1>1, <1>2, <1>6, <2>1 DEF Fires, Timely, SomeoneFlushes, ActiveEnder
<1> QED
  BY <1>1, <1>3, <1>5, <1>6 DEF Fires, Timely

(* A task that takes the next step before its flush *)
LEMMA TaskFires ==
  ASSUME ControlTypes, TimerTypes, Fires, UNCHANGED <<raws, ender, open, reader, crossed>>,
         NEW i \in Timers,
         \/ \E k \in TimerKinds : TimerWakes(k, i) \/ TimerLeaves(k, i)
         \/ IdleAborts(i) \/ IdleDropsBatchGen(i)
  PROVE  Fires'
<1>1. FlushedIsEmpty' /\ NoneRefused'
  BY DEF Fires, FlushedIsEmpty, NoneRefused
<1>2. handle["batch"] # 0 => handle["batch"] \in Timers
  BY Bounds DEF TimerTypes, Timers, TimerKinds
<1>3. ASSUME NEW k \in TimerKinds, TimerWakes(k, i), ~crossed PROVE Timely'
  <2> DEFINE rec == IF gen[k] = timer[k][i].gen THEN Advanced(k, i, "awake") ELSE Finished
  <2>1. timer[k][i].pc = "sleeping" /\ UNCHANGED <<handle, gen>> /\ timer' = With(k, i, rec)
    BY <1>3, WakesEffect DEF TimerWakes, TimerAt
  <2>2. rec \in Records /\ rec.pc \in {"awake", "done"} /\ (gen[k] = timer[k][i].gen => rec.pc = "awake")
    BY AdvancedType, FinishedType DEF TimerPcs, Advanced, Finished
  <2> HIDE DEF rec
  <2>3. \A j \in TimerKinds, m \in Timers : timer'[j][m] = IF j = k /\ m = i THEN rec ELSE timer[j][m]
    BY <2>1, <2>2, WithType
  <2>4. HandleFires'
    BY <1>2, <1>3, <2>1, <2>2, <2>3 DEF Fires, Timely, HandleFires, TimerKinds
  <2>5. CancelledHasNone'
    BY <1>3, <2>1, <2>2, <2>3 DEF Fires, Timely, CancelledHasNone, TimerKinds
  <2>6. ActiveTimer => ActiveTimer'
    BY <2>1, <2>3 DEF ActiveTimer, Active
  <2>7. SomeoneFlushes'
    BY <1>3, <2>1, <2>6 DEF Fires, Timely, SomeoneFlushes, ActiveEnder
  <2> QED
    BY <2>4, <2>5, <2>7 DEF Timely
<1>4. ASSUME NEW k \in TimerKinds, TimerLeaves(k, i), ~crossed PROVE Timely'
  <2> DEFINE rec == Advanced(k, i, IF k = "idle" THEN "stopping" ELSE "flushing")
  <2>1. /\ timer[k][i].pc = "awake" /\ handle' = HandleLess(k) /\ timer' = With(k, i, rec)
        /\ gen' = IF gen[k] = timer[k][i].gen THEN GenLess(k) ELSE gen
    BY <1>4, LeavesEffect
  <2>2. rec \in Records /\ rec.pc \in {"stopping", "flushing"}
    BY AdvancedType DEF TimerPcs, Advanced
  <2> HIDE DEF rec
  <2>3. \A j \in TimerKinds, m \in Timers : timer'[j][m] = IF j = k /\ m = i THEN rec ELSE timer[j][m]
    BY <2>1, <2>2, WithType
  <2>4. ActiveTimer'
    BY <2>2, <2>3 DEF ActiveTimer, Active
  <2>5. CASE k = "batch"
    <3>1. handle'["batch"] = 0
      BY <2>1, <2>5 DEF HandleLess, TimerKinds
    <3> QED
      BY <2>4, <3>1 DEF Timely, HandleFires, CancelledHasNone, SomeoneFlushes
  <2>6. CASE k = "idle"
    <3>1. handle'["batch"] = handle["batch"] /\ gen'["batch"] = gen["batch"]
      BY <2>1, <2>6 DEF HandleLess, GenLess, TimerKinds
    <3>2. HandleFires'
      BY <1>2, <1>4, <2>3, <2>6, <3>1 DEF Fires, Timely, HandleFires, TimerKinds
    <3>3. CancelledHasNone'
      BY <1>4, <2>2, <2>3, <3>1 DEF Fires, Timely, CancelledHasNone, TimerKinds
    <3> QED
      BY <2>4, <3>2, <3>3 DEF Timely, SomeoneFlushes
  <2> QED
    BY <2>5, <2>6 DEF TimerKinds
<1>5. ASSUME IdleAborts(i) PROVE Timely'
  <2>1. handle'["batch"] = 0 /\ timer'["idle"][i].pc = "cancelling"
    <3>1. handle' = HandleLess("batch") /\ timer'["idle"][i] = Advanced("idle", i, "cancelling")
      BY <1>5, AbortsEffect
    <3>2. handle'["batch"] = 0
      BY <3>1 DEF HandleLess, TimerKinds
    <3> QED
      BY <3>1, <3>2 DEF Advanced
  <2>2. ActiveTimer'
    BY <2>1 DEF ActiveTimer, Active, TimerKinds
  <2> QED
    BY <2>1, <2>2 DEF Timely, HandleFires, CancelledHasNone, SomeoneFlushes
<1>6. ASSUME IdleDropsBatchGen(i), ~crossed PROVE Timely'
  <2> DEFINE rec == Advanced("idle", i, "flushing")
  <2>1. timer["idle"][i].pc = "cancelling" /\ handle' = handle /\ timer' = With("idle", i, rec)
    BY <1>6, DropsGenEffect
  <2>2. rec \in Records /\ rec.pc = "flushing"
    BY AdvancedType DEF TimerPcs, Advanced, TimerKinds
  <2> HIDE DEF rec
  <2>3. timer'["idle"][i] = rec
    BY <2>1, <2>2, WithType DEF TimerKinds
  <2>4. ActiveTimer' /\ handle'["batch"] = 0
    BY <1>6, <2>1, <2>2, <2>3 DEF ActiveTimer, Active, TimerKinds, Fires, Timely, CancelledHasNone
  <2> QED
    BY <2>4 DEF Timely, HandleFires, CancelledHasNone, SomeoneFlushes
<1> QED
  BY <1>1, <1>3, <1>4, <1>5, <1>6 DEF Fires

LEMMA FlushFires ==
  ASSUME ControlTypes, TimerTypes, Fires, UNCHANGED <<ender, open, reader, crossed>>,
         open => raws' = <<>>, ~open => raws' = raws,
         NEW k \in TimerKinds, NEW i \in Timers, TimerFlushes(k, i)
  PROVE  Fires'
<1>1. FlushedIsEmpty' /\ NoneRefused'
  BY DEF Fires, FlushedIsEmpty, NoneRefused
<1>2. handle["batch"] # 0 => handle["batch"] \in Timers
  BY Bounds DEF TimerTypes, Timers, TimerKinds
<1>3. timer' = With(k, i, Finished) /\ UNCHANGED <<handle, gen>> /\ timer[k][i].pc = "flushing"
  BY FlushesEffect
<1>4. /\ \A j \in TimerKinds, m \in Timers : timer'[j][m] = IF j = k /\ m = i THEN Finished ELSE timer[j][m]
      /\ Finished.pc = "done"
  BY <1>3, WithType, FinishedType DEF Finished
<1>5. ASSUME ~crossed PROVE Timely'
  <2>1. HandleFires'
    BY <1>2, <1>3, <1>4, <1>5 DEF Fires, Timely, HandleFires, TimerKinds
  <2>2. CancelledHasNone'
    BY <1>3, <1>4, <1>5 DEF Fires, Timely, CancelledHasNone, TimerKinds
  <2>3. SomeoneFlushes'
    BY DEF SomeoneFlushes
  <2> QED
    BY <2>1, <2>2, <2>3 DEF Timely
<1> QED
  BY <1>1, <1>5 DEF Fires

LEMMA BeginFires ==
  ASSUME ControlTypes, TimerTypes, Fires, NEW e \in Enders, EnderBegins(e)
  PROVE  Fires'
<1>1. /\ TakenFrom("batch") /\ UNCHANGED <<raws, open, reader, crossed>>
      /\ ender' = [ender EXCEPT ![e] = "batch-gen"]
  BY TakeEffect DEF EnderBegins, EnderGoes, queue, TimerKinds
<1>2. handle'["batch"] = 0 /\ ender'[e] = "batch-gen"
  BY <1>1 DEF TakenFrom, TimerKinds, ControlTypes
<1>3. FlushedIsEmpty' /\ NoneRefused'
  BY <1>1 DEF Fires, FlushedIsEmpty, NoneRefused, ControlTypes
<1>4. ActiveEnder'
  BY <1>2 DEF ActiveEnder
<1> QED
  BY <1>2, <1>3, <1>4 DEF Fires, Timely, HandleFires, CancelledHasNone, SomeoneFlushes

LEMMA CancelFires ==
  ASSUME ControlTypes, TimerTypes, Fires, NEW e \in Enders, EnderCancels(e)
  PROVE  Fires'
<1>1. PICK pc \in {"flush", "flush-final", "drop"} : ender' = [ender EXCEPT ![e] = pc]
  BY DEF EnderCancels, EnderGoes
<1>2. /\ TakenFrom("idle") /\ UNCHANGED <<raws, open, reader, crossed>> /\ ender[e] = "batch-gen"
  BY CancelsEffect DEF EnderCancels, queue
<1>3. FlushedIsEmpty' /\ NoneRefused'
  BY <1>1, <1>2 DEF Fires, FlushedIsEmpty, NoneRefused, ControlTypes
<1>4. ActiveEnder'
  BY <1>1 DEF ActiveEnder, ControlTypes
<1>5. handle'["batch"] = handle["batch"]
  BY <1>2 DEF TakenFrom, TimerKinds
<1>6. ASSUME ~crossed PROVE handle["batch"] = 0
  BY <1>2, <1>6 DEF Fires, Timely, CancelledHasNone
<1> QED
  BY <1>2, <1>3, <1>4, <1>5, <1>6 DEF Fires, Timely, HandleFires, CancelledHasNone, SomeoneFlushes

LEMMA FiringKept ==
  ASSUME QueueTypes, ControlTypes, TimerTypes, ReadPays, ClosedIsEmpty, Chained, Firing, Next
  PROVE  Firing'
<1> SUFFICES ASSUME failures' = MaxFailures PROVE Fires'
  BY DEF Firing
<1>1. CASE TurnStarts
  <2>1. Fires
    BY <1>1 DEF TurnStarts, Firing
  <2>2. /\ UNCHANGED <<timing, reader, crossed, raws>> /\ raws = <<>> /\ \A e \in Enders : ender'[e] = "none"
    BY <1>1 DEF TurnStarts, ClosedIsEmpty, queue
  <2> QED
    BY <2>1, <2>2, FiresStill DEF NoneRefused
<1>2. CASE ReaderGets
  <2>1. Fires
    BY <1>2 DEF ReaderGets, Firing
  <2>2. /\ UNCHANGED <<timing, crossed, ender, open, raws>> /\ reader'.pc = "emitting" /\ reader.pc = "reading"
    BY <1>2 DEF ReaderGets, ReaderGoes, queue, ending, ControlTypes, Readers
  <2> QED
    BY <2>1, <2>2, GetsFires
<1>3. CASE ReaderQueues
  <2>1. UNCHANGED <<timing, crossed, ender, open>> /\ reader.pc = "emitting"
    BY <1>3 DEF ReaderQueues, ending
  <2>2. PICK k \in Kinds : QueueOutput(k)
    BY <1>3 DEF ReaderQueues
  <2>3. CASE ~open /\ UNCHANGED <<queue, failures>> /\ reader' = Reader("batch", FALSE, FALSE)
    <3>1. Fires /\ raws' = <<>> /\ reader'.pc # "batch-gen"
      BY <2>3 DEF Firing, ClosedIsEmpty, queue, Reader
    <3> QED
      BY <2>1, <3>1, GetsFires
  <2>4. ASSUME NEW fragment \in BOOLEAN, AcceptOutcome(fragment) PROVE Fires'
    <3>1. /\ failures = MaxFailures
          /\ \/ reader' = Reader("batch", TRUE, fragment)
             \/ reader' = Reader("batch", FALSE, FALSE) /\ raws' = <<>>
      BY <2>4 DEF AcceptOutcome
    <3>2. \/ reader'.pc = "batch" /\ reader'.pending
          \/ reader'.pc # "batch-gen" /\ raws' = <<>>
      BY <3>1 DEF Reader
    <3>3. Fires
      BY <3>1 DEF Firing
    <3> QED
      BY <2>1, <3>2, <3>3, GetsFires
  <2> QED
    BY <2>1, <2>2, <2>3, <2>4, QueueOutputEffect, Fits
<1>4. CASE ReaderBatch \/ ReaderBatchGen \/ ReaderIdle \/ ReaderIdleArm
  <2>1. Fires
    BY <1>4 DEF ReaderBatch, ReaderBatchGen, ReaderIdle, ReaderIdleArm, Firing
  <2> QED
    BY <1>4, <2>1, BatchFires, BatchGenFires, IdleFires
<1>5. ASSUME NEW i \in Timers, TimerStep(i) PROVE Fires'
  <2>1. ASSUME \/ \E k \in TimerKinds : TimerWakes(k, i) \/ TimerLeaves(k, i)
               \/ IdleAborts(i) \/ IdleDropsBatchGen(i)
        PROVE  Fires'
    <3>1. UNCHANGED <<raws, ender, open, reader, crossed, failures>>
      BY <2>1 DEF TimerWakes, TimerLeaves, IdleAborts, IdleDropsBatchGen, queue, ending
    <3> QED
      BY <2>1, <3>1, TaskFires DEF Firing
  <2>2. ASSUME NEW k \in TimerKinds, TimerFlushes(k, i) PROVE Fires'
    <3>1. FlushOutcome(FALSE)
      BY <2>2, FlushPendingEffect, FlushTrailingEffect, Fits DEF TimerFlushes
    <3>2. failures = MaxFailures /\ (open => raws' = <<>>) /\ (~open => raws' = raws)
      BY <3>1, FlushQuiet
    <3>3. UNCHANGED <<ender, open, reader, crossed>>
      BY <2>2 DEF TimerFlushes, ending
    <3> QED
      BY <2>2, <3>2, <3>3, FlushFires DEF Firing
  <2> QED
    BY <1>5, <2>1, <2>2 DEF TimerStep
<1>6. ASSUME NEW e \in Enders, EnderBegins(e) \/ EnderCancels(e) PROVE Fires'
  <2>1. Fires
    BY <1>6 DEF EnderBegins, EnderCancels, Firing
  <2> QED
    BY <1>6, <2>1, BeginFires, CancelFires
<1>7. ASSUME NEW e \in Enders, EnderFlushes(e) PROVE Fires'
  <2>1. PICK final \in BOOLEAN :
          /\ FlushTrailing(final) /\ UNCHANGED <<timing, open, reader, crossed>>
          /\ ender' = [ender EXCEPT ![e] = IF Refused THEN "refused" ELSE IF final THEN "settle" ELSE "delete"]
    BY <1>7 DEF EnderFlushes, EnderGoes
  <2>2. failures = MaxFailures /\ ~Refused /\ (open => raws' = <<>>) /\ (~open => raws' = raws)
    BY <2>1, FlushTrailingEffect, FlushQuiet, Fits
  <2>3. Fires
    BY <2>2 DEF Firing
  <2>4. NoneRefused' /\ \A d \in Enders : ender'[d] = "batch-gen" => ender[d] = "batch-gen"
    BY <2>1, <2>2, <2>3 DEF Fires, NoneRefused, ControlTypes
  <2> QED
    BY <2>1, <2>2, <2>3, <2>4, FiresStill
<1>8. ASSUME NEW e \in Enders, EnderDeletes(e) PROVE Fires'
  <2>1. /\ UNCHANGED <<timing, reader, crossed, failures>> /\ raws' = <<>> /\ ender' = [ender EXCEPT ![e] = "done"]
    BY <1>8 DEF EnderDeletes, Drops, EnderGoes
  <2>2. Fires
    BY <2>1 DEF Firing
  <2>3. NoneRefused' /\ \A d \in Enders : ender'[d] = "batch-gen" => ender[d] = "batch-gen"
    BY <2>1, <2>2 DEF Fires, NoneRefused, ControlTypes
  <2> QED
    BY <2>1, <2>2, <2>3, FiresStill
<1>9. CASE ExitReturns
  <2>1. /\ UNCHANGED <<timing, reader, crossed, failures, raws, open>> /\ ender' = [ender EXCEPT !["exit"] = "done"]
    BY <1>9 DEF ExitReturns, EnderGoes, queue
  <2>2. Fires
    BY <2>1 DEF Firing
  <2>3. Terminating
    BY <1>9, <2>2 DEF ExitReturns, Fires, NoneRefused, Enders
  <2>4. NoneRefused' /\ \A d \in Enders : ender'[d] = "batch-gen" => ender[d] = "batch-gen"
    BY <2>1, <2>2 DEF Fires, NoneRefused, ControlTypes
  <2>5. ActiveEnder'
    BY <2>1, <2>3 DEF ActiveEnder, Terminating, ControlTypes, Enders
  <2> QED
    BY <2>1, <2>2, <2>4, <2>5, FiresStill
<1>10. CASE LaunchResolves
  <2>1. UNCHANGED <<timing, reader, crossed, failures, raws, open, ender>>
    BY <1>10 DEF LaunchResolves, queue
  <2>2. Fires
    BY <2>1 DEF Firing
  <2>3. NoneRefused' /\ \A d \in Enders : ender'[d] = "batch-gen" => ender[d] = "batch-gen"
    BY <2>1, <2>2 DEF Fires, NoneRefused
  <2>4. ActiveEnder <=> ActiveEnder'
    BY <2>1 DEF ActiveEnder
  <2> QED
    BY <2>1, <2>2, <2>3, <2>4, FiresStill
<1>11. CASE LaunchFails
  <2>1. UNCHANGED <<timing, reader, crossed, failures, ender>> /\ raws' = <<>>
    BY <1>11 DEF LaunchFails, Drops
  <2>2. Fires
    BY <2>1 DEF Firing
  <2>3. NoneRefused' /\ \A d \in Enders : ender'[d] = "batch-gen" => ender[d] = "batch-gen"
    BY <2>1, <2>2 DEF Fires, NoneRefused
  <2> QED
    BY <2>1, <2>2, <2>3, FiresStill
<1> QED
  BY <1>1, <1>2, <1>3, <1>4, <1>5, <1>6, <1>7, <1>8, <1>9, <1>10, <1>11, EndingsAssumption
     DEF Next, ReaderStep, EnderStep, Enders

-----------------------------------------------------------------------------
(* The theorems                                                            *)

LEMMA InitHolds == Init => IInv
<1> HAVE Init
<1>1. Nothing
  BY DEF Init, Nothing
<1>2. QueueTypes /\ ClosedIsEmpty /\ Chained /\ ProtocolLinesWhole
  BY <1>1, NothingIsFine, Bounds DEF Init
<1>3. ControlTypes
  <2>1. reader \in Readers
    BY Bounds DEF Init, Reader, Readers, ReaderPcs
  <2>2. ender \in [Enders -> EnderPcs]
    BY DEF Init, EnderPcs
  <2>3. /\ open = FALSE /\ launching = FALSE /\ turns = 0 /\ read = 0 /\ sealed = 0 /\ crossed = FALSE
        /\ lost = {}
    BY DEF Init
  <2>4. 0 \in 0..MaxTurns /\ 0 \in 0..MaxChunks
    BY Bounds
  <2> QED
    BY <2>1, <2>2, <2>3, <2>4 DEF ControlTypes
<1>4. TimerTypes
  BY Bounds, FinishedType DEF Init, TimerTypes, Records
<1>5. \A k \in TimerKinds : Used(k) = {}
  <2>1. \A m \in Timers : m # 0
    BY Bounds DEF Timers
  <2> QED
    BY <2>1 DEF Init, Used, Finished
<1>6. ReadPays
  <2>1. IsFiniteSet({}) /\ Cardinality({}) = 0 /\ Len(kind) = 0
    BY FS_EmptySet, EmptyIsEmpty DEF Init
  <2>2. /\ reader.pc = "reading" /\ reader.gen = 0 /\ read = 0 /\ \A k \in TimerKinds : gen[k] = 0
    BY DEF Init, Reader
  <2>3. \A k \in TimerKinds : Paid(gen[k], Owed(k)) /\ IsFiniteSet(Used(k)) /\ Paid(Cardinality(Used(k)), Owed(k))
    <3> TAKE k \in TimerKinds
    <3>1. reader.pc \notin Owed(k) /\ gen[k] = 0 /\ Used(k) = {}
      BY <1>5, <2>2 DEF Owed
    <3>2. Cardinality(Used(k)) = 0 /\ IsFiniteSet(Used(k))
      BY <2>1, <3>1
    <3> QED
      BY <2>2, <3>1, <3>2 DEF Paid
  <2>4. Paid(Len(kind), {"emitting"}) /\ read \in 0..MaxChunks /\ reader.gen \in 0..read
    BY <2>1, <2>2, Bounds DEF Paid
  <2> QED
    BY <2>2, <2>3, <2>4 DEF ReadPays
<1>7. Ends
  BY EmptyIsEmpty DEF Init, Ends, StopNeverFinal, StopGoesFirst, SealedAccepted, SealedStored, Enders
<1>8. Firing
  <2>1. reader.pc = "reading" /\ handle["batch"] = 0
    BY DEF Init, Reader, TimerKinds
  <2> QED
    BY <2>1 DEF Init, Firing, Fires, Timely, FlushedIsEmpty, NoneRefused, HandleFires, CancelledHasNone,
                SomeoneFlushes
<1> QED
  BY <1>2, <1>3, <1>4, <1>6, <1>7, <1>8, Named DEF IInv

LEMMA Inductive == IInv /\ [Next]_vars => IInv'
<1> SUFFICES ASSUME IInv, [Next]_vars PROVE IInv'
  OBVIOUS
<1>1. QueueTypes /\ ControlTypes /\ TimerTypes
  BY Named DEF IInv
<1>2. CASE Next
  <2>1. Moves
    BY <1>1, <1>2, StepsMove DEF IInv, Ends
  <2>2. QueueTypes' /\ Chained' /\ ClosedIsEmpty' /\ ProtocolLinesWhole'
    BY <1>1, <2>1, MovesKeep DEF IInv
  <2>3. ReadPays' /\ TimerTypes'
    BY <1>1, <1>2, <2>2, TimersKept DEF IInv
  <2>4. ControlTypes'
    BY <1>1, <1>2, <2>3, ControlKept DEF IInv
  <2>5. Ends'
    BY <1>1, <1>2, <2>2, EndsKept DEF IInv
  <2>6. Firing'
    BY <1>1, <1>2, FiringKept DEF IInv
  <2>7. (TypeOK <=> QueueTypes /\ ControlTypes /\ TimerTypes)'
    BY Named, PTL
  <2> QED
    BY <2>2, <2>3, <2>4, <2>5, <2>6, <2>7 DEF IInv
<1>3. CASE UNCHANGED vars
  <2> USE <1>3 DEF vars, queue, timing, ending
  <2>1. TypeOK' /\ ClosedIsEmpty' /\ ProtocolLinesWhole'
    BY DEF IInv, TypeOK, ClosedIsEmpty, ProtocolLinesWhole
  <2>2. ReadPays'
    BY DEF IInv, ReadPays, Paid, Used
  <2>3. Chained'
    BY DEF IInv, Chained, RawKept, RowsAccepted, All
  <2>4. Ends'
    BY DEF IInv, Ends, StopNeverFinal, StopGoesFirst, SealedAccepted, SealedStored, Terminating
  <2>5. Firing'
    BY DEF IInv, Firing, Fires, Timely, FlushedIsEmpty, NoneRefused, HandleFires, CancelledHasNone,
           SomeoneFlushes, ActiveTimer, ActiveEnder
  <2> QED
    BY <2>1, <2>2, <2>3, <2>4, <2>5 DEF IInv
<1> QED
  BY <1>2, <1>3

(* The inductive invariant holds in every reachable state. *)
THEOREM Invariant == Spec => []IInv
BY InitHolds, Inductive, PTL DEF Spec

(* The buffers, the timers' maps and the ends keep their types: the slot   *)
(* that a timer is given is always there, because each read of the         *)
(* provider's output pays for one timer of each kind.                      *)
THEOREM TypeCorrect == Spec => []TypeOK
<1>1. IInv => TypeOK
  BY DEF IInv
<1> QED
  BY <1>1, Invariant, PTL

(* Whatever flushes, refusals and ends interleave, chunks are stored or    *)
(* wait once and in order, and rows and the open line divide them without  *)
(* a gap (flush_session_buffer and the line buffers of flush_queue.rs).    *)
THEOREM ChunksAreNotLost == Spec => []NothingLost
<1>1. IInv => NothingLost
  BY ChainedLosesNothing DEF IInv
<1> QED
  BY <1>1, Invariant, PTL

(* Before the exit of the process no flush cuts a JSON line in two         *)
(* (is_incomplete_json_line).                                              *)
THEOREM JsonLinesAreWhole == Spec => []ProtocolLinesWhole
<1>1. IInv => ProtocolLinesWhole
  BY DEF IInv
<1> QED
  BY <1>1, Invariant, PTL

(* Whatever had been accepted when an exit began, or the Stop of a provider *)
(* that has been launched, is stored before delete_session, unless SQLite  *)
(* refused the Stop its flush (handle_lifecycle_event, finish_termination). *)
THEOREM EndsOfTheRunningStoreOutput == Spec => []RunningEndStoresOutput
<1>1. IInv => RunningEndStoresOutput
  BY DEF IInv, Ends, RunningEndStoresOutput
<1> QED
  BY <1>1, Invariant, PTL

(* Output that waits is somebody's to flush, as long as no flush was       *)
(* refused and no timer was registered inside cancel_batch_flush.          *)
THEOREM WaitingOutputIsFlushed == Spec => []FlushComes
<1>1. IInv => FlushComes
  <2> SUFFICES ASSUME IInv, ~(failures < MaxFailures), ~crossed, open, raws # <<>>
               PROVE  \/ reader.pc = "batch" /\ reader.pending
                      \/ \E i \in Timers, k \in TimerKinds : WillFire(k, i)
                      \/ \E e \in Enders : ender[e] \notin {"none", "done"}
    BY DEF FlushComes, OneWindowAtMost
  <2>1. QueueTypes /\ TimerTypes
    BY Named DEF IInv
  <2>2. Timely
    BY <2>1, Bounds DEF IInv, QueueTypes, Firing, Fires
  <2>3. ASSUME handle["batch"] # 0 PROVE \E i \in Timers, k \in TimerKinds : WillFire(k, i)
    <3>1. handle["batch"] \in Timers
      BY <2>1, <2>3, Bounds DEF TimerTypes, Timers, TimerKinds
    <3>2. WillFire("batch", handle["batch"])
      BY <2>2, <2>3 DEF Timely, HandleFires, WillFire
    <3> QED
      BY <3>1, <3>2 DEF TimerKinds
  <2>4. ASSUME ActiveTimer PROVE \E i \in Timers, k \in TimerKinds : WillFire(k, i)
    BY <2>4 DEF ActiveTimer, Active, WillFire
  <2> QED
    BY <2>2, <2>3, <2>4 DEF Timely, SomeoneFlushes, ActiveEnder
<1> QED
  BY <1>1, Invariant, PTL
=============================================================================
