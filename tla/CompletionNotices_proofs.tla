---------------------- MODULE CompletionNotices_proofs ----------------------
(***************************************************************************)
(* The completion notices of any number of launched chats, with any number *)
(* of turns and any size of a batch: types, and what becomes of a result,  *)
(* of its wake and of a turn.                                              *)
(***************************************************************************)
EXTENDS CompletionNotices, TLAPS

-----------------------------------------------------------------------------
(* The inductive invariant                                                 *)

(* The policy knows the deliveries that run. *)
Registered == \A n \in Notices : n \in known <=> delivery[n] # "none"

(* Whatever is on its way to the launcher has a row. *)
RowsFirst == \A n \in Notices : InHand(n) => row[n] # "none"

(* A send is marked once it started a turn, and what the launcher collects *)
(* is closed with it.                                                      *)
HandedWhenMarked == \A n \in Notices : delivery[n] = "marking" => HasIt(n)
CollectedIsClosed == \A n \in Notices : "inbox" \in got[n] => row[n] = "delivered"

(* A batch row stands for rows that are closed, the one it is named by too. *)
BatchClosesItsOwn == \A b \in Turns : row[Batch(b)] # "none" => row[One(b)] = "delivered"
CarriedIsClosed == \A b \in Turns : \A t \in carries[b] : row[One(t)] = "delivered"

(* Turns of a chat are numbered, and its window is about its own. *)
TurnsNumbered ==
  \A c \in Children : turn[c] <= MaxTurns[c] /\ (running[c] => turn[c] > 0)
OwnDigest ==
  \A c \in Children :
    /\ \A t \in digest[c].turns : t[1] = c
    /\ digest[c].turns # {} => <<c, digest[c].at>> \in Turns

(* A turn that is over is in one place, any other is nowhere. *)
InRow(t) == \E u \in Turns : t \in tells[u]
InReport(t) == \E r \in reports : r.pc = "build" /\ t \in r.tells
InDigest(t) == t \in digest[t[1]].turns
Somewhere(t) == InRow(t) \/ InReport(t) \/ InDigest(t) \/ t \in ended \/ t \in untold
UnwrittenTellsNothing == \A t \in Turns : row[One(t)] = "none" => tells[t] = {}
OneRow == \A u, v \in Turns : u # v => tells[u] \cap tells[v] = {}
OneReport ==
  \A r, s \in reports : r.pc = "build" /\ s.pc = "build" /\ r # s => r.tells \cap s.tells = {}
OnePlace ==
  \A t \in Turns :
    /\ Over(t) <=> Somewhere(t)
    /\ InRow(t) => ~InReport(t) /\ ~InDigest(t) /\ t \notin ended \cup untold
    /\ InReport(t) => ~InDigest(t) /\ t \notin ended \cup untold
    /\ InDigest(t) => t \notin ended \cup untold
    /\ t \notin ended \cap untold

Hands == Registered /\ RowsFirst /\ HandedWhenMarked /\ WakesAreOwed
Results ==
  /\ CollectedIsClosed /\ BatchClosesItsOwn /\ CarriedIsClosed
  /\ ResultsSurvive /\ CarriedOnce
Counts ==
  /\ TurnsNumbered /\ OwnDigest /\ UnwrittenTellsNothing /\ OneRow /\ OneReport /\ OnePlace

IInv == TypeOK /\ Hands /\ Results /\ Counts

-----------------------------------------------------------------------------
(* Sorts and types                                                         *)

LEMMA TurnShape ==
  /\ \A t \in Turns : t[1] \in Children /\ t[2] \in Nat \ {0} /\ t = <<t[1], t[2]>>
  /\ \A c \in Children : MaxTurns[c] \in Nat /\ \A n \in Nat \ {0} : n <= MaxTurns[c] => <<c, n>> \in Turns
  /\ \A t \in Turns : t[2] <= MaxTurns[t[1]]
<1>1. \A t : t \in Turns <=> \E c \in Children : t \in {c} \X (1..MaxTurns[c])
  BY DEF Turns
<1>2. \A c \in Children : MaxTurns[c] \in Nat
  BY NoticeBounds DEF NoticeBounds
<1> QED
  BY <1>1, <1>2

(* A notice is the row of a turn or of a batch, never both. *)
LEMMA NoticeShape ==
  /\ \A t \in Turns : /\ One(t) \in Notices /\ One(t)[1] = "one" /\ One(t)[2] = t
                      /\ Batch(t) \in Notices /\ Batch(t)[1] = "batch" /\ Batch(t)[2] = t
  /\ \A n \in Notices : /\ n[2] \in Turns
                        /\ (n[1] = "one" /\ n = One(n[2])) \/ (n[1] = "batch" /\ n = Batch(n[2]))
BY DEF Notices, One, Batch

LEMMA StartedType ==
  ASSUME TypeOK, NEW ns \in SUBSET Notices
  PROVE  /\ Started(ns) \in [Notices -> {"none", "sending", "marking", "clearing"}]
         /\ \A n \in Notices : Started(ns)[n] = IF n \in ns THEN "sending" ELSE delivery[n]
BY DEF TypeOK, Started

LEMMA InitTypeOK == Init => TypeOK
<1> SUFFICES ASSUME Init PROVE TypeOK
  OBVIOUS
<1>1. 0 \in 0..MaxEvents
  BY NoticeBounds DEF NoticeBounds
<1> QED
  BY <1>1 DEF Init, TypeOK, Quiet, Idle

LEMMA EventType ==
  ASSUME TypeOK, Event
  PROVE  events' \in 0..MaxEvents
BY NoticeBounds DEF TypeOK, Event, NoticeBounds

LEMMA ChildTypes ==
  ASSUME TypeOK, Counts,
         \/ \E c \in Children : TurnStarts(c) \/ TurnEnds(c) \/ DigestFires(c)
         \/ \E t \in ended : Report(t)
  PROVE  TypeOK'
<1> USE DEF TypeOK, childVars, diskVars, memoryVars, deliveryVars, launcherVars, bootVars, histVars
<1>1. ASSUME NEW c \in Children, TurnStarts(c) PROVE TypeOK'
  <2>1. events' \in 0..MaxEvents
    BY <1>1, EventType DEF TurnStarts
  <2>2. turn' \in [Children -> Nat] /\ running' \in [Children -> BOOLEAN]
    BY <1>1 DEF TurnStarts
  <2>3. \E person \in BOOLEAN : byPerson' = [byPerson EXCEPT ![c] = person]
    BY <1>1, Zenon DEF TurnStarts
  <2>4. byPerson' \in [Children -> BOOLEAN]
    BY <2>3
  <2>5. /\ UNCHANGED <<ended, digest, diskVars, reports, held, flushing, deliveryVars, launcherVars, bootVars, histVars>>
    BY <1>1 DEF TurnStarts
  <2> QED
    BY <2>1, <2>2, <2>4, <2>5
<1>2. ASSUME NEW c \in Children, TurnEnds(c) PROVE TypeOK'
  <2>1. running[c] /\ turn[c] \in Nat
    BY <1>2 DEF TurnEnds
  <2>2. turn[c] \in Nat \ {0} /\ turn[c] <= MaxTurns[c]
    BY <2>1 DEF Counts, TurnsNumbered
  <2>3. <<c, turn[c]>> \in Turns
    BY <2>2, TurnShape
  <2> QED
    BY <1>2, <2>3 DEF TurnEnds
<1>3. ASSUME NEW c \in Children, DigestFires(c) PROVE TypeOK'
  <2>1. Reporting(<<c, digest[c].at>>, digest[c].turns) \in [of : Turns, tells : SUBSET Turns, pc : {"build", "hold"}]
    BY <1>3 DEF DigestFires, Reporting, Counts, OwnDigest
  <2> QED
    BY <1>3, <2>1 DEF DigestFires, Quiet
<1>4. ASSUME NEW t \in ended, Report(t) PROVE TypeOK'
  <2>1. t \in Turns /\ t[1] \in Children /\ t[2] \in Nat
    BY TurnShape
  <2>2. Reporting(t, {t} \cup digest[t[1]].turns) \in [of : Turns, tells : SUBSET Turns, pc : {"build", "hold"}]
    BY <2>1 DEF Reporting
  <2>3. CASE byPerson[t[1]]
    BY <1>4, <2>1, <2>3 DEF Report
  <2>4. CASE ~byPerson[t[1]]
    <3>1. digest' = [digest EXCEPT ![t[1]] = Quiet] /\ reports' = reports \cup {Reporting(t, {t} \cup digest[t[1]].turns)}
      BY <1>4, <2>4 DEF Report
    <3>2. Quiet \in [turns : SUBSET Turns, at : Nat]
      BY DEF Quiet
    <3>3. digest' \in [Children -> [turns : SUBSET Turns, at : Nat]]
      BY <3>1, <3>2, Zenon
    <3>4. reports' \subseteq [of : Turns, tells : SUBSET Turns, pc : {"build", "hold"}]
      BY <2>2, <3>1
    <3> QED
      BY <1>4, <3>3, <3>4 DEF Report
  <2> QED
    BY <2>3, <2>4
<1> QED
  BY <1>1, <1>2, <1>3, <1>4

LEMMA ReportTypes ==
  ASSUME TypeOK, NEW r \in reports, Build(r) \/ BuildFails(r) \/ Hold(r)
  PROVE  TypeOK'
<1> USE DEF TypeOK, childVars, diskVars, memoryVars, deliveryVars, launcherVars, bootVars, histVars
<1>1. r.of \in Turns /\ r.tells \in SUBSET Turns /\ One(r.of) \in Notices
  BY NoticeShape
<1>2. [r EXCEPT !.pc = "hold"] \in [of : Turns, tells : SUBSET Turns, pc : {"build", "hold"}]
  OBVIOUS
<1>3. CASE Build(r)
  BY <1>1, <1>2, <1>3 DEF Build, Unwritten
<1>4. CASE BuildFails(r)
  BY <1>1, <1>4, EventType DEF BuildFails, Unwritten
<1>5. CASE Hold(r)
  BY <1>1, <1>5 DEF Hold
<1> QED
  BY <1>3, <1>4, <1>5

(* What coalescing does with one way of cutting the window. *)
Alone(w, head) == {b \in Unread(w) : Batched(head, b) = {b}}
Batches(w, head) ==
  {b \in Unread(w) : head[b] = b /\ b \notin Alone(w, head) /\ row[Batch(b)] = "none"}
Flushed(w, head) ==
  LET written == {Batch(b) : b \in Batches(w, head)}
      closed  == {One(t) : t \in {u \in Unread(w) : head[u] \in Batches(w, head)}}
      sent    == written \cup {One(b) : b \in Alone(w, head)}
  IN  /\ row' = [n \in Notices |-> IF n \in written THEN "unread"
                                   ELSE IF n \in closed THEN "delivered" ELSE row[n]]
      /\ due' = [n \in Notices |-> due[n] \/ n \in written]
      /\ carries' = [t \in Turns |-> IF t \in Batches(w, head) THEN Carried(head, t) ELSE carries[t]]
      /\ delivery' = Started(sent)
      /\ known' = known \cup sent

LEMMA CoalesceSplit ==
  ASSUME NEW w, Coalesce(w)
  PROVE  \E head \in Chunks(Unread(w)) : Flushed(w, head)
BY DEF Coalesce, Flushed, Alone, Batches

(* What a flush sends are notices. *)
LEMMA CoalesceNotices ==
  ASSUME TypeOK, NEW w \in flushing
  PROVE  /\ Unread(w) \subseteq Turns /\ w \subseteq Turns
         /\ \A head \in Chunks(Unread(w)) :
              /\ head \in [Unread(w) -> Unread(w)]
              /\ \A b \in Turns : Batched(head, b) \subseteq Unread(w)
BY DEF TypeOK, Unread, Chunks, Batched

LEMMA FlushTypes ==
  ASSUME TypeOK, WindowCloses \/ \E w \in flushing : Coalesce(w) \/ CoalesceFails(w)
  PROVE  TypeOK'
<1> USE DEF TypeOK, childVars, diskVars, memoryVars, deliveryVars, launcherVars, bootVars, histVars
<1>1. CASE WindowCloses
  BY <1>1 DEF WindowCloses
<1>2. ASSUME NEW w \in flushing, Coalesce(w) PROVE TypeOK'
  <2>1. PICK head \in Chunks(Unread(w)) : Flushed(w, head)
    BY <1>2, CoalesceSplit
  <2> DEFINE written == {Batch(b) : b \in Batches(w, head)}
             sent    == written \cup {One(b) : b \in Alone(w, head)}
  <2>2. sent \subseteq Notices /\ \A t \in Turns : Carried(head, t) \subseteq Turns
    BY CoalesceNotices, NoticeShape DEF Carried, Batches, Alone
  <2>3. row' \in [Notices -> {"none", "unread", "delivered"}] /\ due' \in [Notices -> BOOLEAN]
    BY <2>1 DEF Flushed
  <2>4. carries' \in [Turns -> SUBSET Turns]
    BY <2>1, <2>2 DEF Flushed
  <2>5. delivery' \in [Notices -> {"none", "sending", "marking", "clearing"}] /\ known' \subseteq Notices
    BY <2>1, <2>2, StartedType DEF Flushed
  <2> QED
    BY <1>2, <2>3, <2>4, <2>5 DEF Coalesce
<1>3. ASSUME NEW w \in flushing, CoalesceFails(w) PROVE TypeOK'
  <2>1. {One(t) : t \in w} \in SUBSET Notices
    BY CoalesceNotices, NoticeShape
  <2> QED
    BY <1>3, <2>1, StartedType, EventType DEF CoalesceFails
<1> QED
  BY <1>1, <1>2, <1>3

LEMMA DeliveryTypes ==
  ASSUME TypeOK, NEW n \in Notices, DeliveryStep(n)
  PROVE  TypeOK'
<1> USE DEF TypeOK, childVars, diskVars, memoryVars, deliveryVars, launcherVars, bootVars, histVars,
            Progress, Hand
<1>1. CASE SendStartsTurn(n)
  BY <1>1 DEF SendStartsTurn
<1>2. CASE SendQueues(n)
  BY <1>2 DEF SendQueues
<1>3. CASE SendFails(n)
  BY <1>3, EventType DEF SendFails
<1>4. CASE MarkDelivered(n)
  BY <1>4 DEF MarkDelivered
<1>5. CASE ClearMark(n)
  BY <1>5 DEF ClearMark
<1> QED
  BY <1>1, <1>2, <1>3, <1>4, <1>5 DEF DeliveryStep

LEMMA LauncherTypes ==
  ASSUME TypeOK,
         \/ LauncherStarts \/ LauncherEnds \/ Collect \/ Archive \/ ArchiveTakenBack
         \/ \E n \in journal : JournalStartsTurn(n) \/ JournalDropped(n)
  PROVE  TypeOK'
<1> USE DEF TypeOK, childVars, diskVars, memoryVars, deliveryVars, launcherVars, bootVars, histVars
<1>1. CASE LauncherStarts \/ LauncherEnds \/ Archive \/ ArchiveTakenBack
  BY <1>1 DEF LauncherStarts, LauncherEnds, Archive, ArchiveTakenBack
<1>2. CASE Collect
  <2>1. PICK ns \in SUBSET Notices :
          /\ row' = [n \in Notices |-> IF n \in ns THEN "delivered" ELSE row[n]]
          /\ got' = [n \in Notices |-> IF n \in ns THEN got[n] \cup {"inbox"} ELSE got[n]]
    BY <1>2 DEF Collect
  <2> QED
    BY <1>2, <2>1 DEF Collect
<1>3. ASSUME NEW n \in journal, JournalStartsTurn(n) PROVE TypeOK'
  <2>1. CASE row[n] = "delivered"
    BY <1>3, <2>1 DEF JournalStartsTurn
  <2>2. CASE row[n] # "delivered"
    BY <1>3, <2>2 DEF JournalStartsTurn, Hand
  <2> QED
    BY <2>1, <2>2
<1>4. ASSUME NEW n \in journal, JournalDropped(n) PROVE TypeOK'
  BY <1>4 DEF JournalDropped
<1> QED
  BY <1>1, <1>2, <1>3, <1>4

(* What a crash takes with it *)
LEMMA MemoryHolds ==
  \A t : t \in InMemory <=> \/ t \in ended \/ \E c \in Children : t \in digest[c].turns
                            \/ \E r \in reports : r.pc = "build" /\ t \in r.tells
<1> TAKE t
<1>1. t \in UNION {digest[c].turns : c \in Children} <=> \E c \in Children : t \in digest[c].turns
  OBVIOUS
<1>2. t \in UNION {r.tells : r \in {x \in reports : x.pc = "build"}}
        <=> \E r \in reports : r.pc = "build" /\ t \in r.tells
  OBVIOUS
<1>3. t \in InMemory <=> \/ t \in ended \/ t \in UNION {digest[c].turns : c \in Children}
                         \/ t \in UNION {r.tells : r \in {x \in reports : x.pc = "build"}}
  BY Zenon DEF InMemory
<1> QED
  BY <1>1, <1>2, <1>3

LEMMA BootTypes ==
  ASSUME TypeOK, Counts, Crash \/ BootLists \/ BootFails \/ \E n \in listed : BootWakes(n)
  PROVE  TypeOK'
<1> USE DEF TypeOK, childVars, diskVars, memoryVars, deliveryVars, launcherVars, bootVars, histVars
<1>1. CASE Crash
  <2>1. Current \subseteq Turns
    BY TurnShape DEF Current, Counts, TurnsNumbered
  <2>2. InMemory \subseteq Turns
    <3> SUFFICES ASSUME NEW t \in InMemory PROVE t \in Turns
      OBVIOUS
    <3>1. t \in ended \/ (\E c \in Children : t \in digest[c].turns) \/ \E r \in reports : t \in r.tells
      BY MemoryHolds
    <3> QED
      BY <3>1
  <2>3. untold' \subseteq Turns
    BY <1>1, <2>1, <2>2 DEF Crash
  <2> QED
    BY <1>1, <2>3, EventType DEF Crash, Idle, Quiet
<1>2. CASE BootLists \/ BootFails
  BY <1>2, EventType DEF BootLists, BootFails, DueWakes
<1>3. ASSUME NEW n \in listed, BootWakes(n) PROVE TypeOK'
  <2>1. n[2] \in Turns /\ n \in Notices
    BY NoticeShape
  <2>2. CASE n \in known \/ archived
    BY <1>3, <2>1, <2>2 DEF BootWakes
  <2>3. CASE n \notin known /\ ~archived /\ n[1] = "batch"
    <3>1. delivery' \in [Notices -> {"none", "sending", "marking", "clearing"}]
      BY <1>3, <2>1, <2>3, StartedType DEF BootWakes
    <3>2. known' = known \cup {n} /\ UNCHANGED <<due, held>>
      BY <1>3, <2>3 DEF BootWakes
    <3> QED
      BY <1>3, <2>1, <3>1, <3>2 DEF BootWakes
  <2>4. CASE n \notin known /\ ~archived /\ n[1] # "batch"
    BY <1>3, <2>1, <2>4 DEF BootWakes
  <2> QED
    BY <2>2, <2>3, <2>4
<1> QED
  BY <1>1, <1>2, <1>3

LEMMA TypesKept == TypeOK /\ Counts /\ Next => TypeOK'
BY ChildTypes, ReportTypes, FlushTypes, DeliveryTypes, LauncherTypes, BootTypes DEF Next, PolicyStep

-----------------------------------------------------------------------------
(* Counts: a turn is in one place                                          *)

LEMMA CurrentMeans ==
  ASSUME NEW t \in Turns
  PROVE  t \in Current <=> running[t[1]] /\ t[2] = turn[t[1]]
<1>1. t[1] \in Children /\ t = <<t[1], t[2]>>
  BY TurnShape
<1>2. \A c \in Children : t = <<c, turn[c]>> <=> t[1] = c /\ t[2] = turn[c]
  BY <1>1
<1> QED
  BY <1>1, <1>2 DEF Current

LEMMA OverMeans ==
  ASSUME NEW t \in Turns
  PROVE  Over(t) <=> t[2] <= turn[t[1]] /\ ~(running[t[1]] /\ t[2] = turn[t[1]])
BY CurrentMeans DEF Over

LEMMA OverMeansNext ==
  ASSUME NEW t \in Turns
  PROVE  Over(t)' <=> (t[2] <= turn[t[1]] /\ ~(running[t[1]] /\ t[2] = turn[t[1]]))'
BY OverMeans, PTL

LEMMA CountsAside ==
  ASSUME Counts, UNCHANGED <<turn, running, ended, tells, digest, reports, untold>>,
         \A t \in Turns : row'[One(t)] = "none" => row[One(t)] = "none"
  PROVE  Counts'
<1>1. TurnsNumbered' /\ OwnDigest' /\ OneRow' /\ OneReport' /\ UnwrittenTellsNothing'
  BY DEF Counts, TurnsNumbered, OwnDigest, OneRow, OneReport, UnwrittenTellsNothing
<1>2. Current' = Current
  BY DEF Current
<1>3. OnePlace'
  BY <1>2 DEF Counts, OnePlace, Over, Somewhere, InRow, InReport, InDigest
<1> QED
  BY <1>1, <1>3 DEF Counts

LEMMA CountsStart ==
  ASSUME TypeOK, Counts, NEW c \in Children, TurnStarts(c)
  PROVE  Counts'
<1>1. /\ turn' = [turn EXCEPT ![c] = @ + 1] /\ running' = [running EXCEPT ![c] = TRUE]
      /\ ~running[c] /\ turn[c] < MaxTurns[c]
      /\ UNCHANGED <<ended, tells, digest, reports, untold, row>>
  BY DEF TurnStarts, diskVars, memoryVars, histVars
<1>2. TurnsNumbered'
  BY <1>1, TurnShape DEF TypeOK, Counts, TurnsNumbered
<1>3. OwnDigest' /\ OneRow' /\ OneReport' /\ UnwrittenTellsNothing'
  BY <1>1 DEF Counts, OwnDigest, OneRow, OneReport, UnwrittenTellsNothing
<1>4. \A t \in Turns : (t[2] <= turn[t[1]] /\ ~(running[t[1]] /\ t[2] = turn[t[1]]))'
                       <=> (t[2] <= turn[t[1]] /\ ~(running[t[1]] /\ t[2] = turn[t[1]]))
  BY <1>1, TurnShape DEF TypeOK
<1>5. \A t \in Turns : Over(t)' <=> Over(t)
  BY <1>4, OverMeans, OverMeansNext
<1>6. OnePlace'
  BY <1>1, <1>5 DEF Counts, OnePlace, Somewhere, InRow, InReport, InDigest
<1> QED
  BY <1>2, <1>3, <1>6 DEF Counts

LEMMA CountsEnd ==
  ASSUME TypeOK, Counts, NEW c \in Children, TurnEnds(c)
  PROVE  Counts'
<1> DEFINE e == <<c, turn[c]>>
<1>1. /\ running' = [running EXCEPT ![c] = FALSE] /\ ended' = ended \cup {e} /\ running[c]
      /\ UNCHANGED <<turn, tells, digest, reports, untold, row>>
  BY DEF TurnEnds, diskVars, memoryVars, histVars
<1>2. e \in Turns /\ e[1] = c /\ e[2] = turn[c]
  <2>1. turn[c] \in Nat \ {0} /\ turn[c] <= MaxTurns[c]
    BY <1>1 DEF TypeOK, Counts, TurnsNumbered
  <2>2. e \in Turns
    BY <2>1, TurnShape
  <2> QED
    BY <2>2
<1>3. TurnsNumbered' /\ OwnDigest' /\ OneRow' /\ OneReport' /\ UnwrittenTellsNothing'
  BY <1>1 DEF TypeOK, Counts, TurnsNumbered, OwnDigest, OneRow, OneReport, UnwrittenTellsNothing
<1>4. \A t \in Turns : Over(t)' <=> Over(t) \/ t = e
  <2> TAKE t \in Turns
  <2>1. t = e <=> t[1] = c /\ t[2] = turn[c]
    BY <1>2, TurnShape
  <2>2. t[1] \in Children /\ t[2] \in Nat /\ turn[t[1]] \in Nat
    BY TurnShape DEF TypeOK
  <2>3. /\ turn' = turn /\ running[c]
        /\ running'[t[1]] = IF t[1] = c THEN FALSE ELSE running[t[1]]
    BY <1>1, <2>2 DEF TypeOK
  <2>4. CASE t[1] = c
    <3>1. /\ running[t[1]] /\ ~running'[t[1]] /\ turn'[t[1]] = turn[t[1]]
          /\ t = e <=> t[2] = turn[t[1]]
      BY <2>1, <2>3, <2>4
    <3>2. Over(t) <=> t[2] <= turn[t[1]] /\ t[2] # turn[t[1]]
      BY <3>1, OverMeans
    <3>3. Over(t)' <=> t[2] <= turn[t[1]]
      BY <3>1, OverMeansNext
    <3> QED
      BY <2>2, <3>1, <3>2, <3>3
  <2>5. CASE t[1] # c
    <3>1. turn'[t[1]] = turn[t[1]] /\ running'[t[1]] = running[t[1]] /\ t # e
      BY <2>1, <2>3, <2>5
    <3> QED
      BY <3>1, OverMeans, OverMeansNext
  <2> QED
    BY <2>4, <2>5
<1>5. ~Over(e)
  BY <1>1, <1>2, OverMeans
<1> HIDE DEF e
<1>6. OnePlace'
  BY <1>1, <1>2, <1>4, <1>5 DEF Counts, OnePlace, Somewhere, InRow, InReport, InDigest
<1> QED
  BY <1>3, <1>6 DEF Counts

(* Turns that move into one new report *)
LEMMA CountsReported ==
  ASSUME TypeOK, Counts, NEW r, r.pc = "build", r.tells \subseteq Turns,
         reports' = reports \cup {r},
         UNCHANGED <<turn, running, tells, untold, row>>,
         OwnDigest', ended' \subseteq Turns,
         \A t \in Turns : t \in r.tells <=> (t \in ended \ ended') \/ (InDigest(t) /\ ~InDigest(t)'),
         \A t \in Turns : (t \in ended' => t \in ended) /\ (InDigest(t)' => InDigest(t))
  PROVE  Counts'
<1>1. Current' = Current /\ TurnsNumbered' /\ OneRow' /\ UnwrittenTellsNothing'
  BY DEF Counts, TurnsNumbered, OneRow, UnwrittenTellsNothing, Current
<1>2. \A t \in Turns : Over(t)' = Over(t) /\ InRow(t)' = InRow(t)
  BY <1>1 DEF Over, InRow
<1>3. \A t \in Turns : InReport(t)' <=> InReport(t) \/ t \in r.tells
  BY DEF InReport
<1>4. \A t \in Turns : t \in r.tells => ~InReport(t)
  BY DEF Counts, OnePlace
<1>5. OneReport'
  <2> SUFFICES ASSUME NEW p \in reports', NEW q \in reports', p.pc = "build", q.pc = "build", p # q
               PROVE  p.tells \cap q.tells = {}
    BY DEF OneReport
  <2>1. CASE p \in reports /\ q \in reports
    BY <2>1 DEF Counts, OneReport
  <2>2. ASSUME NEW x \in reports, x.pc = "build" PROVE x.tells \cap r.tells = {}
    BY <1>4, <2>2 DEF InReport
  <2> QED
    BY <2>1, <2>2
<1>6. OnePlace'
  BY <1>2, <1>3, <1>4 DEF Counts, OnePlace, Somewhere
<1> QED
  BY <1>1, <1>5, <1>6 DEF Counts

LEMMA CountsReport ==
  ASSUME TypeOK, Counts, NEW t \in ended, Report(t)
  PROVE  Counts'
<1> DEFINE c == t[1]
<1>1. t \in Turns /\ c \in Children /\ t[2] \in Nat /\ <<c, t[2]>> = t
  BY TurnShape DEF TypeOK
<1>2. ended' = ended \ {t} /\ UNCHANGED <<turn, running, tells, untold, row>>
  BY DEF Report, diskVars, histVars
<1>3. \A u \in Turns : InDigest(u) <=> u \in digest[u[1]].turns
  BY DEF InDigest
<1>4. CASE byPerson[c]
  <2>1. digest' = [digest EXCEPT ![c] = [turns |-> @.turns \cup {t}, at |-> t[2]]] /\ UNCHANGED reports
    BY <1>4 DEF Report
  <2>2. /\ digest'[c].turns = digest[c].turns \cup {t} /\ digest'[c].at = t[2]
        /\ \A d \in Children \ {c} : digest'[d] = digest[d]
    BY <1>1, <2>1 DEF TypeOK
  <2>3. OwnDigest'
    BY <1>1, <2>2 DEF Counts, OwnDigest
  <2>4. TurnsNumbered' /\ OneRow' /\ OneReport' /\ UnwrittenTellsNothing' /\ Current' = Current
    BY <1>2, <2>1 DEF Counts, TurnsNumbered, OneRow, OneReport, UnwrittenTellsNothing, Current
  <2>5. \A u \in Turns : InDigest(u)' <=> InDigest(u) \/ u = t
    BY <1>1, <2>2, TurnShape DEF InDigest
  <2>6. \A u \in Turns : Over(u)' = Over(u) /\ InRow(u)' = InRow(u) /\ InReport(u)' = InReport(u)
    BY <1>2, <2>1, <2>4 DEF Over, InRow, InReport
  <2>7. OnePlace'
    BY <1>1, <1>2, <2>5, <2>6 DEF Counts, OnePlace, Somewhere
  <2> QED
    BY <2>3, <2>4, <2>7 DEF Counts
<1>5. CASE ~byPerson[c]
  <2> DEFINE r == Reporting(t, {t} \cup digest[c].turns)
  <2>1. reports' = reports \cup {r} /\ digest' = [digest EXCEPT ![c] = Quiet]
    BY <1>5 DEF Report
  <2>2. digest'[c].turns = {} /\ \A d \in Children \ {c} : digest'[d] = digest[d]
    BY <1>1, <2>1 DEF TypeOK, Quiet
  <2>3. OwnDigest'
    BY <2>2 DEF Counts, OwnDigest
  <2>4. r.pc = "build" /\ r.tells = {t} \cup digest[c].turns
    BY DEF Reporting
  <2>5. \A u \in Turns : InDigest(u)' <=> InDigest(u) /\ u[1] # c
    BY <2>2, TurnShape DEF InDigest
  <2>6. \A u \in Turns : u \in digest[c].turns <=> InDigest(u) /\ u[1] = c
    BY <1>1, TurnShape DEF InDigest, Counts, OwnDigest
  <2>7. r.tells \subseteq Turns
    <3>1. digest[c].turns \subseteq Turns
      BY <1>1 DEF TypeOK
    <3> QED
      BY <1>1, <2>4, <3>1
  <2> HIDE DEF r, c
  <2> QED
    <3>1. /\ ended' = ended \ {t} /\ UNCHANGED <<turn, running, tells, untold, row>>
          /\ ended \subseteq Turns
      BY <1>2 DEF TypeOK
    <3>2. \A u \in Turns : u \in r.tells <=> (u \in ended \ ended') \/ (InDigest(u) /\ ~InDigest(u)')
      BY <1>1, <2>4, <2>5, <2>6, <3>1
    <3>3. \A u \in Turns : (u \in ended' => u \in ended) /\ (InDigest(u)' => InDigest(u))
      BY <2>5, <3>1
    <3> QED
      BY <2>1, <2>3, <2>4, <2>7, <3>1, <3>2, <3>3, CountsReported
<1> QED
  BY <1>4, <1>5

LEMMA CountsDigest ==
  ASSUME TypeOK, Counts, NEW c \in Children, DigestFires(c)
  PROVE  Counts'
<1> DEFINE r == Reporting(<<c, digest[c].at>>, digest[c].turns)
<1>1. reports' = reports \cup {r} /\ digest' = [digest EXCEPT ![c] = Quiet]
  BY DEF DigestFires
<1>2. UNCHANGED <<turn, running, tells, untold, row, ended>>
  BY DEF DigestFires, childVars, diskVars, histVars
<1>3. digest'[c].turns = {} /\ \A d \in Children \ {c} : digest'[d] = digest[d]
  BY <1>1 DEF TypeOK, Quiet
<1>4. OwnDigest'
  BY <1>3 DEF Counts, OwnDigest
<1>5. r.pc = "build" /\ r.tells = digest[c].turns /\ r.tells \subseteq Turns
  BY DEF Reporting, TypeOK
<1>6. \A u \in Turns : InDigest(u)' <=> InDigest(u) /\ u[1] # c
  BY <1>3, TurnShape DEF InDigest
<1>7. \A u \in Turns : u \in digest[c].turns <=> InDigest(u) /\ u[1] = c
  BY TurnShape DEF InDigest, Counts, OwnDigest
<1> HIDE DEF r
<1> QED
  BY <1>1, <1>2, <1>4, <1>5, <1>6, <1>7, CountsReported DEF TypeOK

(* A report that is not written leaves its turns untold. *)
LEMMA CountsUnwritten ==
  ASSUME TypeOK, Counts, NEW r \in reports, r.pc = "build", Unwritten(r),
         UNCHANGED <<childVars, digest>>
  PROVE  Counts'
<1>1. /\ reports' = reports \ {r} /\ untold' = untold \cup r.tells
      /\ UNCHANGED <<row, tells, turn, running, ended, digest>>
  BY DEF Unwritten, childVars
<1>2. TurnsNumbered' /\ OwnDigest' /\ OneRow' /\ OneReport' /\ UnwrittenTellsNothing' /\ Current' = Current
  BY <1>1 DEF Counts, TurnsNumbered, OwnDigest, OneRow, OneReport, UnwrittenTellsNothing, Current
<1>3. \A t \in Turns : InReport(t)' <=> InReport(t) /\ t \notin r.tells
  BY <1>1 DEF InReport, Counts, OneReport
<1>4. \A t \in Turns : t \in r.tells => InReport(t)
  BY DEF InReport
<1>5. \A t \in Turns : Over(t)' = Over(t) /\ InRow(t)' = InRow(t) /\ InDigest(t)' = InDigest(t)
  BY <1>1, <1>2 DEF Over, InRow, InDigest
<1>6. OnePlace'
  BY <1>1, <1>3, <1>4, <1>5 DEF Counts, OnePlace, Somewhere
<1> QED
  BY <1>2, <1>6 DEF Counts

LEMMA CountsBuild ==
  ASSUME TypeOK, Counts, NEW r \in reports, Build(r)
  PROVE  Counts'
<1>1. CASE archived \/ row[One(r.of)] # "none"
  BY <1>1, CountsUnwritten DEF Build
<1>2. CASE ~archived /\ row[One(r.of)] = "none"
  <2> DEFINE h == [r EXCEPT !.pc = "hold"]
  <2>1. /\ r.pc = "build" /\ row' = [row EXCEPT ![One(r.of)] = "unread"]
        /\ tells' = [tells EXCEPT ![r.of] = r.tells]
        /\ reports' = (reports \ {r}) \cup {h}
        /\ UNCHANGED <<turn, running, ended, digest, untold>>
    BY <1>2 DEF Build, childVars
  <2>2. r.of \in Turns /\ h.pc # "build" /\ One(r.of) \in Notices
    BY NoticeShape DEF TypeOK
  <2> HIDE DEF h
  <2>3. /\ tells'[r.of] = r.tells /\ \A u \in Turns \ {r.of} : tells'[u] = tells[u]
        /\ tells[r.of] = {}
    BY <1>2, <2>1, <2>2 DEF TypeOK, Counts, UnwrittenTellsNothing
  <2>4. \A u \in Turns : row'[One(u)] = "none" => row[One(u)] = "none" /\ u # r.of
    BY <2>1, <2>2, NoticeShape DEF TypeOK
  <2>5. TurnsNumbered' /\ OwnDigest' /\ OneReport' /\ UnwrittenTellsNothing' /\ Current' = Current
    BY <2>1, <2>2, <2>3, <2>4 DEF Counts, TurnsNumbered, OwnDigest, OneReport, UnwrittenTellsNothing, Current
  <2>6. \A t \in Turns : InReport(t)' <=> InReport(t) /\ t \notin r.tells
    BY <2>1, <2>2 DEF InReport, Counts, OneReport
  <2>7. \A t \in Turns : t \in r.tells => InReport(t)
    BY <2>1 DEF InReport
  <2>8. \A t \in Turns : InRow(t)' <=> InRow(t) \/ t \in r.tells
    BY <2>2, <2>3 DEF InRow
  <2>9. OneRow'
    <3> SUFFICES ASSUME NEW u \in Turns, NEW v \in Turns, u # v
                 PROVE  tells'[u] \cap tells'[v] = {}
      BY DEF OneRow
    <3>1. \A x \in Turns : tells[x] \cap r.tells = {}
      BY <2>7 DEF Counts, OnePlace, InRow, TypeOK
    <3> QED
      BY <2>3, <3>1 DEF Counts, OneRow
  <2>10. \A t \in Turns : Over(t)' = Over(t) /\ InDigest(t)' = InDigest(t)
    BY <2>1, <2>5 DEF Over, InDigest
  <2>11. OnePlace'
    BY <2>1, <2>6, <2>7, <2>8, <2>10 DEF Counts, OnePlace, Somewhere
  <2> QED
    BY <2>5, <2>9, <2>11 DEF Counts
<1> QED
  BY <1>1, <1>2

LEMMA CountsHold ==
  ASSUME TypeOK, Counts, NEW r \in reports, Hold(r)
  PROVE  Counts'
<1>1. /\ r.pc = "hold" /\ reports' = reports \ {r}
      /\ UNCHANGED <<row, tells, turn, running, ended, digest, untold>>
  BY DEF Hold, childVars, diskVars, histVars
<1>2. TurnsNumbered' /\ OwnDigest' /\ OneRow' /\ OneReport' /\ UnwrittenTellsNothing' /\ Current' = Current
  BY <1>1 DEF Counts, TurnsNumbered, OwnDigest, OneRow, OneReport, UnwrittenTellsNothing, Current
<1>3. \A t \in Turns : InReport(t)' <=> InReport(t)
  BY <1>1 DEF InReport
<1>4. OnePlace'
  BY <1>1, <1>2, <1>3 DEF Counts, OnePlace, Over, Somewhere, InRow, InDigest
<1> QED
  BY <1>2, <1>4 DEF Counts

LEMMA CountsCrash ==
  ASSUME TypeOK, Counts, Crash
  PROVE  Counts'
<1>1. /\ untold' = untold \cup InMemory \cup Current
      /\ running' = [c \in Children |-> FALSE] /\ ended' = {}
      /\ digest' = [c \in Children |-> Quiet] /\ reports' = {}
      /\ UNCHANGED <<turn, row, tells>>
  BY DEF Crash, diskVars
<1>2. \A c \in Children : digest'[c].turns = {} /\ ~running'[c]
  BY <1>1 DEF Quiet
<1>3. TurnsNumbered' /\ OwnDigest' /\ OneRow' /\ OneReport' /\ UnwrittenTellsNothing'
  BY <1>1, <1>2 DEF Counts, TurnsNumbered, OwnDigest, OneRow, OneReport, UnwrittenTellsNothing
<1>4. \A t \in Turns : Over(t)' <=> Over(t) \/ t \in Current
  <2> TAKE t \in Turns
  <2>1. ~running'[t[1]] /\ turn'[t[1]] = turn[t[1]] /\ turn[t[1]] \in Nat /\ t[2] \in Nat
    BY <1>1, <1>2, TurnShape DEF TypeOK
  <2>2. Over(t)' <=> t[2] <= turn[t[1]]
    BY <2>1, OverMeansNext
  <2> QED
    BY <2>1, <2>2, CurrentMeans DEF Over
<1>5. \A t \in Turns : ~InReport(t)' /\ ~InDigest(t)' /\ InRow(t)' = InRow(t)
  BY <1>1, <1>2, TurnShape DEF InReport, InDigest, InRow
<1>6. \A t \in Turns : t \in InMemory <=> t \in ended \/ InDigest(t) \/ InReport(t)
  <2> TAKE t \in Turns
  <2>1. (\E c \in Children : t \in digest[c].turns) <=> InDigest(t)
    BY TurnShape DEF InDigest, Counts, OwnDigest
  <2> QED
    BY <2>1, MemoryHolds DEF InReport
<1>7. \A t \in Turns : t \in Current => ~Over(t)
  BY DEF Over
<1>8. OnePlace'
  BY <1>1, <1>4, <1>5, <1>6, <1>7 DEF Counts, OnePlace, Somewhere
<1> QED
  BY <1>3, <1>8 DEF Counts

-----------------------------------------------------------------------------
(* What coalescing does to the row of a turn and to the one of a batch     *)

(* A window is cut into batches: each unread member is sent by itself, or  *)
(* by the batch row of the member it is filed under.                       *)
LEMMA ChunkShape ==
  ASSUME TypeOK, NEW w \in flushing, NEW head \in Chunks(Unread(w))
  PROVE  /\ Unread(w) \subseteq Turns /\ Unread(w) \subseteq w
         /\ \A t \in Unread(w) : row[One(t)] = "unread" /\ head[t] \in Unread(w)
         /\ Alone(w, head) \subseteq Unread(w) /\ Batches(w, head) \subseteq Unread(w)
         /\ \A t \in Alone(w, head) : head[t] \notin Batches(w, head)
         /\ \A b \in Batches(w, head) : head[b] = b /\ row[Batch(b)] = "none"
         /\ \A t \in Unread(w) : \/ t \in Alone(w, head) \/ head[t] \in Batches(w, head)
                                 \/ row[Batch(head[t])] # "none"
<1>1. Unread(w) \subseteq Turns /\ Unread(w) \subseteq w /\ \A t \in Unread(w) : row[One(t)] = "unread"
  BY DEF TypeOK, Unread
<1>2. /\ head \in [Unread(w) -> Unread(w)] /\ DOMAIN head = Unread(w)
      /\ \A t \in Unread(w) : head[head[t]] = head[t]
  BY DEF Chunks
<1>3. \A t \in Unread(w), b \in Unread(w) : t \in Batched(head, b) <=> head[t] = b
  BY <1>2 DEF Batched
<1>4. \A b \in Alone(w, head) : head[b] = b /\ \A t \in Unread(w) : head[t] = b => t = b
  BY <1>3 DEF Alone
<1>5. \A t \in Unread(w) : \/ t \in Alone(w, head) \/ head[t] \in Batches(w, head)
                           \/ row[Batch(head[t])] # "none"
  BY <1>2, <1>4 DEF Batches
<1> QED
  BY <1>1, <1>2, <1>4, <1>5 DEF Alone, Batches

(* What that cut does to the notice of one turn and to the one of its batch. *)
FlushedRow(w, head, t) ==
  /\ row'[One(t)] = IF t \in Unread(w) /\ head[t] \in Batches(w, head) THEN "delivered" ELSE row[One(t)]
  /\ row'[Batch(t)] = IF t \in Batches(w, head) THEN "unread" ELSE row[Batch(t)]
  /\ carries'[t] = IF t \in Batches(w, head) THEN {u \in Unread(w) : head[u] = t} ELSE carries[t]
FlushedWake(w, head, t) ==
  /\ due'[One(t)] = due[One(t)] /\ (due'[Batch(t)] <=> due[Batch(t)] \/ t \in Batches(w, head))
  /\ delivery'[One(t)] = IF t \in Alone(w, head) THEN "sending" ELSE delivery[One(t)]
  /\ delivery'[Batch(t)] = IF t \in Batches(w, head) THEN "sending" ELSE delivery[Batch(t)]
  /\ One(t) \in known' <=> One(t) \in known \/ t \in Alone(w, head)
  /\ Batch(t) \in known' <=> Batch(t) \in known \/ t \in Batches(w, head)

LEMMA FlushedEffect ==
  ASSUME TypeOK, NEW w \in flushing, NEW head \in Chunks(Unread(w)), Flushed(w, head)
  PROVE  \A t \in Turns : FlushedRow(w, head, t) /\ FlushedWake(w, head, t)
<1> TAKE t \in Turns
<1> DEFINE written == {Batch(b) : b \in Batches(w, head)}
           closed  == {One(u) : u \in {x \in Unread(w) : head[x] \in Batches(w, head)}}
           sent    == written \cup {One(b) : b \in Alone(w, head)}
<1>1. /\ row' = [n \in Notices |-> IF n \in written THEN "unread" ELSE IF n \in closed THEN "delivered" ELSE row[n]]
      /\ due' = [n \in Notices |-> due[n] \/ n \in written]
      /\ carries' = [u \in Turns |-> IF u \in Batches(w, head) THEN Carried(head, u) ELSE carries[u]]
      /\ delivery' = Started(sent) /\ known' = known \cup sent
  BY DEF Flushed
<1>2. Alone(w, head) \subseteq Turns /\ Batches(w, head) \subseteq Turns /\ Unread(w) \subseteq Turns
  BY ChunkShape
<1>3. /\ One(t) \notin written /\ Batch(t) \notin closed
      /\ Batch(t) \in written <=> t \in Batches(w, head)
      /\ One(t) \in closed <=> t \in Unread(w) /\ head[t] \in Batches(w, head)
      /\ One(t) \in sent <=> t \in Alone(w, head)
      /\ Batch(t) \in sent <=> t \in Batches(w, head)
      /\ One(t) \in Notices /\ Batch(t) \in Notices /\ sent \subseteq Notices
  BY <1>2, NoticeShape
<1>4. Carried(head, t) = {u \in Unread(w) : head[u] = t}
  BY DEF Carried, Batched, Chunks
<1> HIDE DEF written, closed, sent
<1>5. delivery'[One(t)] = (IF One(t) \in sent THEN "sending" ELSE delivery[One(t)])
      /\ delivery'[Batch(t)] = (IF Batch(t) \in sent THEN "sending" ELSE delivery[Batch(t)])
  BY <1>1, <1>3, StartedType
<1>6. row'[One(t)] = (IF One(t) \in closed THEN "delivered" ELSE row[One(t)])
      /\ row'[Batch(t)] = (IF Batch(t) \in written THEN "unread" ELSE row[Batch(t)])
  BY <1>1, <1>3
<1>7. due'[One(t)] = due[One(t)] /\ (due'[Batch(t)] <=> due[Batch(t)] \/ Batch(t) \in written)
  BY <1>1, <1>3 DEF TypeOK
<1>8. carries'[t] = IF t \in Batches(w, head) THEN {u \in Unread(w) : head[u] = t} ELSE carries[t]
  BY <1>1, <1>4
<1>9. /\ One(t) \in known' <=> One(t) \in known \/ t \in Alone(w, head)
      /\ Batch(t) \in known' <=> Batch(t) \in known \/ t \in Batches(w, head)
  BY <1>1, <1>3
<1>10. FlushedRow(w, head, t)
  BY <1>3, <1>6, <1>8 DEF FlushedRow
<1>11. FlushedWake(w, head, t)
  BY <1>3, <1>5, <1>7, <1>9 DEF FlushedWake
<1> QED
  BY <1>10, <1>11

LEMMA CountsCoalesce ==
  ASSUME TypeOK, Counts, NEW w \in flushing, Coalesce(w)
  PROVE  Counts'
<1>1. PICK head \in Chunks(Unread(w)) : Flushed(w, head)
  BY CoalesceSplit
<1>2. \A t \in Turns : row'[One(t)] = "none" => row[One(t)] = "none"
  <2>1. \A t \in Turns : FlushedRow(w, head, t)
    BY <1>1, FlushedEffect
  <2> QED
    BY <2>1 DEF FlushedRow
<1>3. UNCHANGED <<turn, running, ended, tells, digest, reports, untold>>
  BY DEF Coalesce, childVars, histVars
<1> QED
  BY <1>2, <1>3, CountsAside

LEMMA CountsDelivery ==
  ASSUME TypeOK, Counts, NEW n \in Notices, DeliveryStep(n)
  PROVE  Counts'
<1>1. UNCHANGED <<turn, running, ended, tells, digest, reports, untold>>
  BY DEF DeliveryStep, SendStartsTurn, SendQueues, SendFails, MarkDelivered, ClearMark,
         childVars, diskVars, memoryVars, histVars
<1>2. \A m \in Notices : row'[m] = "none" => row[m] = "none"
  BY DEF DeliveryStep, SendStartsTurn, SendQueues, SendFails, MarkDelivered, ClearMark,
         diskVars, TypeOK
<1> QED
  BY <1>1, <1>2, CountsAside, NoticeShape

LEMMA CountsKept == TypeOK /\ Counts /\ Next => Counts'
<1> SUFFICES ASSUME TypeOK, Counts, Next PROVE Counts'
  OBVIOUS
<1> USE DEF childVars, diskVars, memoryVars, histVars
<1>1. ASSUME NEW r \in reports, BuildFails(r) PROVE Counts'
  BY <1>1, CountsUnwritten DEF BuildFails
<1>2. CASE WindowCloses \/ LauncherStarts \/ LauncherEnds \/ Archive \/ ArchiveTakenBack
             \/ BootLists \/ BootFails
  BY <1>2, CountsAside DEF WindowCloses, LauncherStarts, LauncherEnds, Archive, ArchiveTakenBack,
     BootLists, BootFails
<1>3. ASSUME NEW w \in flushing, CoalesceFails(w) PROVE Counts'
  BY <1>3, CountsAside DEF CoalesceFails
<1>4. CASE Collect
  <2>1. \A n \in Notices : row'[n] = "none" => row[n] = "none"
    BY <1>4 DEF Collect
  <2> QED
    BY <1>4, <2>1, CountsAside, NoticeShape DEF Collect
<1>5. ASSUME NEW n \in journal, JournalStartsTurn(n) \/ JournalDropped(n) PROVE Counts'
  <2>1. \A m \in Notices : row'[m] = "none" => row[m] = "none"
    BY <1>5 DEF JournalStartsTurn, JournalDropped, TypeOK
  <2> QED
    BY <1>5, <2>1, CountsAside, NoticeShape DEF JournalStartsTurn, JournalDropped
<1>6. ASSUME NEW n \in listed, BootWakes(n) PROVE Counts'
  BY <1>6, CountsAside DEF BootWakes
<1> QED
  BY <1>1, <1>2, <1>3, <1>4, <1>5, <1>6, CountsStart, CountsEnd, CountsDigest, CountsReport,
     CountsBuild, CountsHold, CountsCoalesce, CountsDelivery, CountsCrash DEF Next, PolicyStep

-----------------------------------------------------------------------------
(* Results: what is closed has been handed over, or a batch row carries it *)

LEMMA ResultsAside ==
  ASSUME Results, UNCHANGED <<row, got, carries>>
  PROVE  Results'
BY DEF Results, CollectedIsClosed, BatchClosesItsOwn, CarriedIsClosed, ResultsSurvive, CarriedOnce, HasIt

(* Rows that are handed over may be closed, whoever hands them. *)
LEMMA ResultsHanded ==
  ASSUME TypeOK, Results, UNCHANGED carries,
         \A n \in Notices :
           /\ row'[n] = "none" <=> row[n] = "none"
           /\ row[n] = "delivered" => row'[n] = "delivered"
           /\ row'[n] = "delivered" => row[n] = "delivered" \/ HasIt(n)'
           /\ got[n] \subseteq got'[n]
           /\ "inbox" \in got'[n] => "inbox" \in got[n] \/ (row[n] # "delivered" /\ row'[n] = "delivered")
  PROVE  Results'
<1>1. \A n \in Notices : HasIt(n) => HasIt(n)'
  BY DEF HasIt
<1>2. CollectedIsClosed'
  BY DEF Results, CollectedIsClosed
<1>3. BatchClosesItsOwn' /\ CarriedIsClosed'
  BY NoticeShape DEF TypeOK, Results, BatchClosesItsOwn, CarriedIsClosed
<1>4. ResultsSurvive'
  BY <1>1, NoticeShape DEF Results, ResultsSurvive
<1>5. CarriedOnce'
  BY NoticeShape DEF TypeOK, Results, CarriedIsClosed, CarriedOnce
<1> QED
  BY <1>2, <1>3, <1>4, <1>5 DEF Results

LEMMA ResultsBuild ==
  ASSUME TypeOK, Results, NEW r \in reports, Build(r)
  PROVE  Results'
<1>1. CASE archived \/ row[One(r.of)] # "none"
  BY <1>1, ResultsAside DEF Build, Unwritten
<1>2. CASE ~archived /\ row[One(r.of)] = "none"
  <2>1. row' = [row EXCEPT ![One(r.of)] = "unread"] /\ UNCHANGED <<got, carries>>
    BY <1>2 DEF Build
  <2>2. r.of \in Turns /\ One(r.of) \in Notices
    BY NoticeShape DEF TypeOK
  <2>3. /\ \A t \in Turns : row'[One(t)] = IF t = r.of THEN "unread" ELSE row[One(t)]
        /\ \A t \in Turns : row'[Batch(t)] = row[Batch(t)]
        /\ \A n \in Notices : row'[n] = row[n] \/ row[n] = "none"
    BY <1>2, <2>1, <2>2, NoticeShape DEF TypeOK
  <2>4. CollectedIsClosed'
    BY <2>1, <2>3 DEF Results, CollectedIsClosed
  <2>5. BatchClosesItsOwn' /\ CarriedIsClosed'
    BY <1>2, <2>1, <2>3 DEF TypeOK, Results, BatchClosesItsOwn, CarriedIsClosed
  <2>6. ResultsSurvive' /\ CarriedOnce'
    BY <2>1, <2>3 DEF Results, ResultsSurvive, CarriedOnce, HasIt
  <2> QED
    BY <2>4, <2>5, <2>6 DEF Results
<1> QED
  BY <1>1, <1>2

LEMMA ResultsCoalesce ==
  ASSUME TypeOK, Results, NEW w \in flushing, Coalesce(w)
  PROVE  Results'
<1>1. PICK head \in Chunks(Unread(w)) : Flushed(w, head)
  BY CoalesceSplit
<1> DEFINE batches == Batches(w, head)
           closed == {t \in Unread(w) : head[t] \in batches}
<1>2. /\ batches \subseteq closed /\ closed \subseteq Turns
      /\ \A t \in closed : row[One(t)] = "unread" /\ head[t] \in batches
      /\ \A b \in batches : row[Batch(b)] = "none" /\ head[b] = b
  BY ChunkShape
<1>3. \A t \in Turns :
        /\ row'[One(t)] = IF t \in closed THEN "delivered" ELSE row[One(t)]
        /\ row'[Batch(t)] = IF t \in batches THEN "unread" ELSE row[Batch(t)]
        /\ carries'[t] = IF t \in batches THEN {u \in closed : head[u] = t} ELSE carries[t]
  <2>1. \A t \in Turns : FlushedRow(w, head, t)
    BY <1>1, FlushedEffect
  <2> SUFFICES ASSUME NEW t \in Turns
               PROVE  /\ row'[One(t)] = IF t \in closed THEN "delivered" ELSE row[One(t)]
                      /\ row'[Batch(t)] = IF t \in batches THEN "unread" ELSE row[Batch(t)]
                      /\ carries'[t] = IF t \in batches THEN {u \in closed : head[u] = t} ELSE carries[t]
    OBVIOUS
  <2>2. FlushedRow(w, head, t)
    BY <2>1
  <2>3. t \in closed <=> t \in Unread(w) /\ head[t] \in batches
    OBVIOUS
  <2>4. t \in batches => {u \in closed : head[u] = t} = {u \in Unread(w) : head[u] = t}
    OBVIOUS
  <2>5. /\ row'[One(t)] = IF t \in Unread(w) /\ head[t] \in batches THEN "delivered" ELSE row[One(t)]
        /\ row'[Batch(t)] = IF t \in batches THEN "unread" ELSE row[Batch(t)]
        /\ carries'[t] = IF t \in batches THEN {u \in Unread(w) : head[u] = t} ELSE carries[t]
    BY <2>2 DEF FlushedRow
  <2> HIDE DEF batches, closed
  <2> QED
    BY <2>3, <2>4, <2>5
<1>4. got' = got
  BY DEF Coalesce, histVars
<1> HIDE DEF batches, closed
<1>5. CollectedIsClosed'
  <2> SUFFICES ASSUME NEW n \in Notices, "inbox" \in got[n] PROVE row'[n] = "delivered"
    BY <1>4 DEF CollectedIsClosed
  <2>1. row[n] = "delivered"
    BY DEF Results, CollectedIsClosed
  <2>2. PICK t \in Turns : n = One(t) \/ n = Batch(t)
    BY NoticeShape
  <2>3. ASSUME n = One(t) PROVE row'[One(t)] = "delivered"
    BY <1>3, <2>1, <2>3
  <2>4. ASSUME n = Batch(t) PROVE row'[Batch(t)] = "delivered"
    <3>1. row[Batch(t)] = "delivered"
      BY <2>1, <2>4
    <3>2. t \notin batches
      BY <1>2, <3>1
    <3> QED
      BY <1>3, <3>1, <3>2
  <2> QED
    BY <2>2, <2>3, <2>4
<1>6. BatchClosesItsOwn' /\ CarriedIsClosed'
  <2>1. ASSUME NEW b \in Turns, row'[Batch(b)] # "none" PROVE row'[One(b)] = "delivered"
    BY <1>2, <1>3, <2>1 DEF Results, BatchClosesItsOwn
  <2>2. ASSUME NEW b \in Turns, NEW t \in carries'[b] PROVE row'[One(t)] = "delivered"
    <3>1. CASE b \in batches
      <4>1. t \in closed
        BY <1>3, <2>2, <3>1
      <4> QED
        BY <1>2, <1>3, <4>1
    <3>2. CASE b \notin batches
      <4>1. t \in carries[b] /\ t \in Turns /\ row[One(t)] = "delivered"
        BY <1>3, <2>2, <3>2 DEF TypeOK, Results, CarriedIsClosed
      <4> QED
        BY <1>3, <4>1
    <3> QED
      BY <3>1, <3>2
  <2> QED
    BY <2>1, <2>2 DEF BatchClosesItsOwn, CarriedIsClosed
<1>7. ResultsSurvive'
  <2>1. ASSUME NEW t \in Turns, row'[One(t)] = "delivered"
        PROVE  HasIt(One(t))' \/ \E b \in Turns : t \in carries'[b] /\ row'[Batch(b)] # "none"
    <3>1. CASE t \in closed
      BY <1>2, <1>3, <3>1
    <3>2. CASE t \notin closed
      <4>1. HasIt(One(t)) \/ \E b \in Turns : t \in carries[b] /\ row[Batch(b)] # "none"
        BY <1>3, <2>1, <3>2 DEF Results, ResultsSurvive
      <4> QED
        BY <1>2, <1>3, <1>4, <4>1 DEF HasIt
    <3> QED
      BY <3>1, <3>2
  <2>2. ASSUME NEW b \in Turns, row'[Batch(b)] = "delivered" PROVE HasIt(Batch(b))'
    BY <1>3, <1>4, <2>2 DEF Results, ResultsSurvive, HasIt
  <2> QED
    BY <2>1, <2>2 DEF ResultsSurvive
<1>8. CarriedOnce'
  <2> SUFFICES ASSUME NEW a \in Turns, NEW t \in carries'[a]
               PROVE  "inbox" \notin got[One(t)] /\ \A b \in Turns \ {a} : t \notin carries'[b]
    BY <1>4 DEF CarriedOnce
  <2>1. \A b \in Turns : \A u \in carries[b] : u \in Turns /\ row[One(u)] = "delivered"
    BY DEF TypeOK, Results, CarriedIsClosed
  <2>2. CASE a \in batches
    <3>1. t \in closed /\ head[t] = a
      BY <1>3, <2>2
    <3>2. "inbox" \notin got[One(t)]
      BY <1>2, <3>1, NoticeShape DEF Results, CollectedIsClosed
    <3>3. ASSUME NEW b \in Turns \ {a}, t \in carries'[b] PROVE FALSE
      <4>1. b \in batches
        BY <1>2, <1>3, <2>1, <3>1, <3>3
      <4>2. carries'[b] = {u \in closed : head[u] = b}
        BY <1>3, <4>1
      <4>3. head[t] = b
        BY <3>3, <4>2
      <4> QED
        BY <3>1, <4>3
    <3> QED
      BY <3>2, <3>3
  <2>3. CASE a \notin batches
    <3>1. t \in carries[a] /\ t \notin closed
      BY <1>2, <1>3, <2>1, <2>3
    <3>2. "inbox" \notin got[One(t)] /\ \A b \in Turns \ {a} : t \notin carries[b]
      BY <3>1 DEF Results, CarriedOnce
    <3>3. \A b \in Turns : t \in carries'[b] => t \in carries[b]
      BY <1>3, <3>1
    <3> QED
      BY <3>2, <3>3
  <2> QED
    BY <2>2, <2>3
<1> QED
  BY <1>5, <1>6, <1>7, <1>8 DEF Results

LEMMA ResultsDelivery ==
  ASSUME TypeOK, Hands, Results, NEW n \in Notices, DeliveryStep(n)
  PROVE  Results'
<1>1. CASE SendQueues(n) \/ SendFails(n) \/ ClearMark(n)
  BY <1>1, ResultsAside DEF SendQueues, SendFails, ClearMark, diskVars, histVars
<1>2. CASE SendStartsTurn(n)
  <2>1. UNCHANGED <<row, carries>> /\ got' = [got EXCEPT ![n] = @ \cup {"turn"}]
    BY <1>2 DEF SendStartsTurn, Hand, diskVars
  <2>2. \A m \in Notices : got'[m] = IF m = n THEN got[m] \cup {"turn"} ELSE got[m]
    BY <2>1 DEF TypeOK
  <2> QED
    BY <2>1, <2>2, ResultsHanded
<1>3. CASE MarkDelivered(n)
  <2>1. UNCHANGED <<got, carries>> /\ HasIt(n) /\ row[n] # "none"
    BY <1>3 DEF MarkDelivered, histVars, Hands, HandedWhenMarked, RowsFirst, InHand
  <2>2. \A m \in Notices : row'[m] = IF m = n THEN "delivered" ELSE row[m]
    BY <1>3 DEF MarkDelivered, TypeOK
  <2>3. HasIt(n)'
    BY <2>1 DEF HasIt
  <2> QED
    BY <2>1, <2>2, <2>3, ResultsHanded
<1> QED
  BY <1>1, <1>2, <1>3 DEF DeliveryStep

LEMMA ResultsLauncher ==
  ASSUME TypeOK, Hands, Results, Collect \/ \E n \in journal : JournalStartsTurn(n)
  PROVE  Results'
<1>1. CASE Collect
  <2>1. PICK ns \in SUBSET {n \in Notices : row[n] = "unread"} :
          /\ row' = [n \in Notices |-> IF n \in ns THEN "delivered" ELSE row[n]]
          /\ got' = [n \in Notices |-> IF n \in ns THEN got[n] \cup {"inbox"} ELSE got[n]]
    BY <1>1 DEF Collect
  <2>2. \A n \in Notices : /\ row'[n] = IF n \in ns THEN "delivered" ELSE row[n]
                           /\ got'[n] = IF n \in ns THEN got[n] \cup {"inbox"} ELSE got[n]
                           /\ n \in ns => row[n] = "unread"
    BY <2>1
  <2>3. carries' = carries
    BY <1>1 DEF Collect
  <2> QED
    BY <2>2, <2>3, ResultsHanded DEF HasIt
<1>2. ASSUME NEW n \in journal, JournalStartsTurn(n) PROVE Results'
  <2>1. n \in Notices /\ carries' = carries /\ row[n] # "none"
    BY <1>2 DEF JournalStartsTurn, TypeOK, Hands, RowsFirst, InHand
  <2>2. CASE row[n] = "delivered"
    BY <1>2, <2>1, <2>2, ResultsAside DEF JournalStartsTurn
  <2>3. CASE row[n] # "delivered"
    <3>1. \A m \in Notices : /\ row'[m] = IF m = n THEN "delivered" ELSE row[m]
                             /\ got'[m] = IF m = n THEN got[m] \cup {"turn"} ELSE got[m]
      BY <1>2, <2>1, <2>3 DEF JournalStartsTurn, Hand, TypeOK
    <3>2. HasIt(n)'
      BY <2>1, <3>1 DEF HasIt
    <3> QED
      BY <2>1, <2>3, <3>1, <3>2, ResultsHanded
  <2> QED
    BY <2>2, <2>3
<1> QED
  BY <1>1, <1>2

LEMMA ResultsKept == TypeOK /\ Hands /\ Results /\ Next => Results'
<1> SUFFICES ASSUME TypeOK, Hands, Results, Next PROVE Results'
  OBVIOUS
<1> USE DEF diskVars, histVars
<1>1. ASSUME NEW c \in Children, TurnStarts(c) \/ TurnEnds(c) \/ DigestFires(c) PROVE Results'
  BY <1>1, ResultsAside DEF TurnStarts, TurnEnds, DigestFires
<1>2. ASSUME NEW t \in ended, Report(t) PROVE Results'
  BY <1>2, ResultsAside DEF Report
<1>3. ASSUME NEW r \in reports, BuildFails(r) \/ Hold(r) PROVE Results'
  BY <1>3, ResultsAside DEF BuildFails, Unwritten, Hold
<1>4. CASE WindowCloses \/ (\E w \in flushing : CoalesceFails(w)) \/ LauncherStarts \/ LauncherEnds
             \/ (\E n \in journal : JournalDropped(n)) \/ Archive \/ ArchiveTakenBack \/ Crash
             \/ BootLists \/ BootFails \/ \E n \in listed : BootWakes(n)
  BY <1>4, ResultsAside DEF WindowCloses, CoalesceFails, LauncherStarts, LauncherEnds, JournalDropped,
     Archive, ArchiveTakenBack, Crash, BootLists, BootFails, BootWakes
<1> QED
  BY <1>1, <1>2, <1>3, <1>4, ResultsBuild, ResultsCoalesce, ResultsDelivery, ResultsLauncher
  DEF Next, PolicyStep

-----------------------------------------------------------------------------
(* Wakes: an unread row has a wake to come                                 *)

LEMMA WakeMoves ==
  ASSUME Hands, Registered', HandedWhenMarked', boot' = boot, skipped' = skipped,
         tried \cup unmarked \subseteq tried' \cup unmarked',
         \A n \in Notices :
           /\ InHand(n)' => InHand(n)
           /\ row[n] # "none" => row'[n] # "none"
           /\ row'[n] = "unread" => row[n] = "unread"
           /\ row'[n] = "unread" /\ n \notin tried' \cup unmarked' =>
                (due[n] => due'[n]) /\ (InHand(n) => InHand(n)')
  PROVE  Hands'
<1>1. RowsFirst'
  BY DEF Hands, RowsFirst
<1>2. WakesAreOwed'
  BY DEF Hands, WakesAreOwed
<1> QED
  BY <1>1, <1>2 DEF Hands

(* Nothing but reports that are still being built, and the chats, changed. *)
LEMMA HandsAside ==
  ASSUME Hands,
         UNCHANGED <<row, due, journal, held, flushing, deliveryVars, unmarked, skipped, bootVars, got, tried>>,
         \A t \in Turns : (\E r \in reports : r.of = t /\ r.pc = "hold")'
                           <=> \E r \in reports : r.of = t /\ r.pc = "hold"
  PROVE  Hands'
<1> USE DEF deliveryVars, bootVars
<1>1. \A n \in Notices : InHand(n)' <=> InHand(n)
  BY NoticeShape DEF InHand
<1>2. Registered' /\ HandedWhenMarked'
  BY DEF Hands, Registered, HandedWhenMarked, HasIt
<1> QED
  BY <1>1, <1>2, WakeMoves

LEMMA HandsChild ==
  ASSUME TypeOK, Hands,
         \/ \E c \in Children : TurnStarts(c) \/ TurnEnds(c) \/ DigestFires(c)
         \/ \E t \in ended : Report(t)
         \/ LauncherStarts \/ LauncherEnds
  PROVE  Hands'
<1> USE DEF diskVars, memoryVars, launcherVars, histVars
<1>1. ASSUME NEW c \in Children, TurnStarts(c) \/ TurnEnds(c) PROVE Hands'
  BY <1>1, HandsAside DEF TurnStarts, TurnEnds
<1>2. ASSUME NEW c \in Children, DigestFires(c) PROVE Hands'
  <2>1. PICK t, ts : reports' = reports \cup {Reporting(t, ts)}
    BY <1>2 DEF DigestFires
  <2> QED
    BY <1>2, <2>1, HandsAside DEF DigestFires, Reporting
<1>3. ASSUME NEW t \in ended, Report(t) PROVE Hands'
  <2>1. reports' = reports \/ \E u, ts : reports' = reports \cup {Reporting(u, ts)}
    BY <1>3 DEF Report
  <2> QED
    BY <1>3, <2>1, HandsAside DEF Report, Reporting
<1>4. CASE LauncherStarts \/ LauncherEnds
  BY <1>4, HandsAside DEF LauncherStarts, LauncherEnds
<1> QED
  BY <1>1, <1>2, <1>3, <1>4

LEMMA HandsUnwritten ==
  ASSUME Hands, NEW r \in reports, r.pc = "build", Unwritten(r),
         UNCHANGED <<journal, held, flushing, deliveryVars, unmarked, skipped, bootVars, got, tried>>
  PROVE  Hands'
BY HandsAside DEF Unwritten

LEMMA HandsBuild ==
  ASSUME TypeOK, Hands, NEW r \in reports, Build(r)
  PROVE  Hands'
<1> USE DEF launcherVars
<1>1. CASE archived \/ row[One(r.of)] # "none"
  BY <1>1, HandsUnwritten DEF Build
<1>2. CASE ~archived /\ row[One(r.of)] = "none"
  <2> DEFINE h == [r EXCEPT !.pc = "hold"]
  <2>1. /\ r.pc = "build" /\ row' = [row EXCEPT ![One(r.of)] = "unread"]
        /\ due' = [due EXCEPT ![One(r.of)] = TRUE]
        /\ reports' = (reports \ {r}) \cup {h}
        /\ UNCHANGED <<journal, held, flushing, deliveryVars, unmarked, skipped, bootVars, got, tried>>
    BY <1>2 DEF Build
  <2>2. r.of \in Turns /\ h.pc = "hold" /\ h.of = r.of /\ One(r.of) \in Notices
    BY NoticeShape DEF TypeOK
  <2> HIDE DEF h
  <2>3. \A t : (\E x \in reports' : x.of = t /\ x.pc = "hold")
              <=> t = r.of \/ \E x \in reports : x.of = t /\ x.pc = "hold"
    BY <2>1, <2>2
  <2>4. \A n \in Notices : InHand(n)' <=> InHand(n) \/ n = One(r.of)
    BY <2>1, <2>2, <2>3, NoticeShape DEF InHand, deliveryVars, bootVars
  <2>5. Registered' /\ HandedWhenMarked'
    BY <2>1 DEF Hands, Registered, HandedWhenMarked, HasIt, deliveryVars
  <2>6. /\ row'[One(r.of)] = "unread" /\ due'[One(r.of)]
        /\ \A n \in Notices : n # One(r.of) => row'[n] = row[n] /\ due'[n] = due[n]
    BY <2>1, <2>2 DEF TypeOK
  <2>7. RowsFirst'
    BY <2>4, <2>6 DEF Hands, RowsFirst
  <2>8. WakesAreOwed'
    BY <2>1, <2>4, <2>6 DEF Hands, WakesAreOwed, bootVars
  <2> QED
    BY <2>5, <2>7, <2>8 DEF Hands
<1> QED
  BY <1>1, <1>2

LEMMA HandsHold ==
  ASSUME TypeOK, Hands, NEW r \in reports, Hold(r)
  PROVE  Hands'
<1> USE DEF deliveryVars, launcherVars, bootVars, diskVars, histVars
<1>1. /\ r.pc = "hold" /\ reports' = reports \ {r} /\ held' = held \cup {r.of}
      /\ UNCHANGED <<row, due, journal, flushing, delivery, known, unmarked, skipped, boot, listed, got, tried>>
  BY DEF Hold
<1>2. \A t : (\E x \in reports' : x.of = t /\ x.pc = "hold") \/ (\E w \in flushing' \cup {held'} : t \in w)
            <=> (\E x \in reports : x.of = t /\ x.pc = "hold") \/ (\E w \in flushing \cup {held} : t \in w)
  BY <1>1
<1>3. \A n \in Notices : InHand(n)' <=> InHand(n)
  BY <1>1, <1>2 DEF InHand
<1>4. Registered' /\ HandedWhenMarked'
  BY <1>1 DEF Hands, Registered, HandedWhenMarked, HasIt
<1> QED
  BY <1>1, <1>3, <1>4, WakeMoves

LEMMA HandsFlush ==
  ASSUME TypeOK, Hands, WindowCloses \/ \E w \in flushing : CoalesceFails(w)
  PROVE  Hands'
<1> USE DEF deliveryVars, launcherVars, bootVars, diskVars, histVars
<1>1. CASE WindowCloses
  <2>1. /\ held' = {} /\ flushing' = flushing \cup {held}
        /\ UNCHANGED <<row, due, journal, reports, delivery, known, unmarked, skipped, boot, listed, got, tried>>
    BY <1>1 DEF WindowCloses
  <2>2. \A t : (\E w \in flushing' \cup {held'} : t \in w) <=> \E w \in flushing \cup {held} : t \in w
    BY <2>1
  <2>3. \A n \in Notices : InHand(n)' <=> InHand(n)
    BY <2>1, <2>2 DEF InHand
  <2>4. Registered' /\ HandedWhenMarked'
    BY <2>1 DEF Hands, Registered, HandedWhenMarked, HasIt
  <2> QED
    BY <2>1, <2>3, <2>4, WakeMoves
<1>2. ASSUME NEW w \in flushing, CoalesceFails(w) PROVE Hands'
  <2> DEFINE ns == {One(t) : t \in w}
  <2>1. /\ flushing' = flushing \ {w} /\ delivery' = Started(ns) /\ known' = known \cup ns
        /\ UNCHANGED <<row, due, journal, reports, held, unmarked, skipped, boot, listed, got, tried>>
    BY <1>2 DEF CoalesceFails
  <2>2. w \subseteq Turns /\ ns \subseteq Notices
    BY NoticeShape DEF TypeOK
  <2>3. \A n \in Notices : n \in ns <=> n[1] = "one" /\ n[2] \in w
    BY <2>2, NoticeShape
  <2> HIDE DEF ns
  <2>4. \A n \in Notices : delivery'[n] = IF n \in ns THEN "sending" ELSE delivery[n]
    BY <2>1, <2>2, StartedType
  <2>5. \A n \in Notices : InHand(n)' <=> InHand(n)
    <3> TAKE n \in Notices
    <3>1. (\E x \in flushing' \cup {held'} : n[2] \in x) \/ n[2] \in w
            <=> \E x \in flushing \cup {held} : n[2] \in x
      BY <1>2, <2>1
    <3> QED
      BY <2>1, <2>3, <2>4, <3>1 DEF InHand
  <2>6. Registered' /\ HandedWhenMarked'
    BY <2>1, <2>4 DEF Hands, Registered, HandedWhenMarked, HasIt
  <2> QED
    BY <2>1, <2>5, <2>6, WakeMoves
<1> QED
  BY <1>1, <1>2

LEMMA HandsCoalesce ==
  ASSUME TypeOK, Hands, Results, NEW w \in flushing, Coalesce(w)
  PROVE  Hands'
<1>1. PICK head \in Chunks(Unread(w)) : Flushed(w, head)
  BY CoalesceSplit
<1> DEFINE batches == Batches(w, head)
           alone == Alone(w, head)
           unread == Unread(w)
<1>2. /\ flushing' = flushing \ {w}
      /\ UNCHANGED <<journal, reports, held, unmarked, skipped, boot, listed, got, tried>>
  BY DEF Coalesce, launcherVars, bootVars, histVars
<1>3. /\ alone \subseteq unread /\ batches \subseteq unread /\ unread \subseteq w /\ w \subseteq Turns
      /\ \A t \in w : t \in unread <=> row[One(t)] = "unread"
      /\ \A t \in alone : head[t] \notin batches
      /\ \A t \in unread : t \in alone \/ head[t] \in batches
  <2>1. \A t \in unread : row[Batch(head[t])] = "none"
    BY ChunkShape DEF Results, BatchClosesItsOwn
  <2>2. /\ alone \subseteq unread /\ batches \subseteq unread /\ unread \subseteq w
        /\ \A t \in alone : head[t] \notin batches
        /\ \A t \in unread : t \in alone \/ head[t] \in batches \/ row[Batch(head[t])] # "none"
    BY ChunkShape
  <2>3. w \subseteq Turns
    BY DEF TypeOK
  <2>4. \A t \in w : t \in unread <=> row[One(t)] = "unread"
    BY DEF Unread
  <2> HIDE DEF batches, alone, unread
  <2> QED
    BY <2>1, <2>2, <2>3, <2>4
<1>4. \A t \in Turns :
        /\ row'[One(t)] = IF t \in unread /\ head[t] \in batches THEN "delivered" ELSE row[One(t)]
        /\ row'[Batch(t)] = IF t \in batches THEN "unread" ELSE row[Batch(t)]
        /\ due'[One(t)] = due[One(t)] /\ (due'[Batch(t)] <=> due[Batch(t)] \/ t \in batches)
        /\ delivery'[One(t)] = IF t \in alone THEN "sending" ELSE delivery[One(t)]
        /\ delivery'[Batch(t)] = IF t \in batches THEN "sending" ELSE delivery[Batch(t)]
        /\ One(t) \in known' <=> One(t) \in known \/ t \in alone
        /\ Batch(t) \in known' <=> Batch(t) \in known \/ t \in batches
  <2>1. \A t \in Turns : FlushedRow(w, head, t) /\ FlushedWake(w, head, t)
    BY <1>1, FlushedEffect
  <2> QED
    BY <2>1 DEF FlushedRow, FlushedWake
<1> HIDE DEF batches, alone, unread
<1>5. ASSUME NEW t \in Turns
      PROVE  /\ InHand(One(t))' => InHand(One(t))
             /\ InHand(One(t)) /\ row'[One(t)] = "unread" => InHand(One(t))'
             /\ InHand(Batch(t))' <=> InHand(Batch(t)) \/ t \in batches
  <2>1. One(t)[1] = "one" /\ One(t)[2] = t /\ Batch(t)[1] # "one"
    BY NoticeShape
  <2>2. (\E x \in flushing' \cup {held'} : t \in x) \/ t \in w <=> \E x \in flushing \cup {held} : t \in x
    BY <1>2
  <2>3. t \in alone => t \in w
    BY <1>3
  <2>4. InHand(One(t))' => InHand(One(t))
    BY <1>2, <1>4, <2>1, <2>2, <2>3 DEF InHand
  <2>5. ASSUME InHand(One(t)), row'[One(t)] = "unread" PROVE InHand(One(t))'
    <3>1. CASE t \in w
      <4>1. t \in alone
        BY <1>3, <1>4, <2>5, <3>1
      <4> QED
        BY <1>4, <4>1 DEF InHand
    <3>2. CASE t \notin w
      BY <1>2, <1>3, <1>4, <2>1, <2>2, <2>5, <3>2 DEF InHand
    <3> QED
      BY <3>1, <3>2
  <2>6. InHand(Batch(t))' <=> InHand(Batch(t)) \/ t \in batches
    BY <1>2, <1>4, <2>1 DEF InHand
  <2> QED
    BY <2>4, <2>5, <2>6
<1>6. Registered'
  BY <1>4, NoticeShape DEF Hands, Registered
<1>7. HandedWhenMarked'
  BY <1>2, <1>4, NoticeShape DEF Hands, HandedWhenMarked, HasIt
<1>8. RowsFirst'
  BY <1>4, <1>5, NoticeShape DEF Hands, RowsFirst
<1>9. WakesAreOwed'
  <2>1. ASSUME NEW t \in Turns, row'[One(t)] = "unread", One(t) \notin tried \cup unmarked
        PROVE  due'[One(t)] /\ (boot = "list" \/ One(t) \in skipped \/ InHand(One(t))')
    BY <1>4, <1>5, <2>1, NoticeShape DEF Hands, WakesAreOwed
  <2>2. ASSUME NEW t \in Turns, row'[Batch(t)] = "unread", Batch(t) \notin tried \cup unmarked
        PROVE  due'[Batch(t)] /\ (boot = "list" \/ Batch(t) \in skipped \/ InHand(Batch(t))')
    BY <1>4, <1>5, <2>2, NoticeShape DEF Hands, WakesAreOwed
  <2> QED
    BY <1>2, <2>1, <2>2, NoticeShape DEF WakesAreOwed
<1> QED
  BY <1>6, <1>7, <1>8, <1>9 DEF Hands

LEMMA HandsDelivery ==
  ASSUME TypeOK, Hands, NEW n \in Notices, DeliveryStep(n)
  PROVE  Hands'
<1> USE DEF launcherVars, bootVars, diskVars, memoryVars, histVars, Progress
<1>1. ASSUME NEW pc \in {"marking", "clearing"}, delivery[n] # "none", delivery' = [delivery EXCEPT ![n] = pc],
             pc = "marking" => HasIt(n)', \A m \in Notices : got[m] \subseteq got'[m],
             UNCHANGED <<due, reports, held, flushing, known, unmarked, skipped, boot, listed, tried>>,
             journal' \subseteq journal \cup {n}, journal \subseteq journal',
             \A m \in Notices : row'[m] = row[m] \/ (m = n /\ row'[m] = "delivered")
      PROVE  Hands'
  <2>1. \A m \in Notices : delivery'[m] = IF m = n THEN pc ELSE delivery[m]
    BY <1>1 DEF TypeOK
  <2>2. \A m \in Notices : InHand(m)' <=> InHand(m)
    BY <1>1, <2>1 DEF InHand
  <2>3. Registered'
    BY <1>1, <2>1 DEF Hands, Registered
  <2>4. HandedWhenMarked'
    BY <1>1, <2>1 DEF Hands, HandedWhenMarked, HasIt
  <2>5. \A m \in Notices : (row[m] # "none" => row'[m] # "none") /\ (row'[m] = "unread" => row[m] = "unread")
    BY <1>1
  <2> QED
    BY <1>1, <2>2, <2>3, <2>4, <2>5, WakeMoves
<1>2. CASE SendStartsTurn(n)
  <2>1. \A m \in Notices : got'[m] = IF m = n THEN got[m] \cup {"turn"} ELSE got[m]
    BY <1>2 DEF SendStartsTurn, Hand, TypeOK
  <2>2. HasIt(n)'
    BY <2>1 DEF HasIt
  <2> QED
    BY <1>1, <1>2, <2>1, <2>2 DEF SendStartsTurn
<1>3. CASE SendQueues(n)
  BY <1>1, <1>3 DEF SendQueues
<1>4. CASE SendFails(n)
  BY <1>1, <1>4 DEF SendFails
<1>5. CASE MarkDelivered(n)
  <2>1. \A m \in Notices : row'[m] = IF m = n THEN "delivered" ELSE row[m]
    BY <1>5 DEF MarkDelivered, TypeOK
  <2> QED
    BY <1>1, <1>5, <2>1 DEF MarkDelivered
<1>6. CASE ClearMark(n)
  <2>1. /\ due' = [due EXCEPT ![n] = FALSE] /\ known' = known \ {n}
        /\ delivery' = [delivery EXCEPT ![n] = "none"] /\ tried' = tried \cup {n}
        /\ UNCHANGED <<row, journal, reports, held, flushing, unmarked, skipped, boot, listed, got>>
    BY <1>6 DEF ClearMark
  <2>2. \A m \in Notices : /\ delivery'[m] = IF m = n THEN "none" ELSE delivery[m]
                           /\ m # n => due'[m] = due[m]
    BY <2>1 DEF TypeOK
  <2>3. \A m \in Notices : InHand(m)' => InHand(m)
    BY <2>1, <2>2 DEF InHand
  <2>4. \A m \in Notices : m # n /\ InHand(m) => InHand(m)'
    BY <2>1, <2>2 DEF InHand
  <2>5. Registered'
    BY <2>1, <2>2 DEF Hands, Registered
  <2>6. HandedWhenMarked'
    BY <2>1, <2>2 DEF Hands, HandedWhenMarked, HasIt
  <2> QED
    BY <2>1, <2>2, <2>3, <2>4, <2>5, <2>6, WakeMoves
<1> QED
  BY <1>2, <1>3, <1>4, <1>5, <1>6 DEF DeliveryStep

LEMMA HandsLauncher ==
  ASSUME TypeOK, Hands,
         Collect \/ Archive \/ ArchiveTakenBack \/ \E n \in journal : JournalStartsTurn(n) \/ JournalDropped(n)
  PROVE  Hands'
<1> USE DEF deliveryVars, bootVars, diskVars, memoryVars, histVars
<1>1. CASE Collect
  <2>1. PICK ns \in SUBSET {n \in Notices : row[n] = "unread"} :
          /\ row' = [n \in Notices |-> IF n \in ns THEN "delivered" ELSE row[n]]
          /\ got' = [n \in Notices |-> IF n \in ns THEN got[n] \cup {"inbox"} ELSE got[n]]
    BY <1>1 DEF Collect
  <2>2. \A n \in Notices : row'[n] = (IF n \in ns THEN "delivered" ELSE row[n]) /\ got[n] \subseteq got'[n]
    BY <2>1
  <2>3. UNCHANGED <<due, journal, reports, held, flushing, delivery, known, unmarked, skipped, boot, listed, tried>>
    BY <1>1 DEF Collect, launcherVars
  <2>4. \A n \in Notices : InHand(n)' <=> InHand(n)
    BY <2>3 DEF InHand
  <2>5. Registered' /\ HandedWhenMarked'
    BY <2>2, <2>3 DEF Hands, Registered, HandedWhenMarked, HasIt
  <2> QED
    BY <2>2, <2>3, <2>4, <2>5, WakeMoves
<1>2. CASE Archive \/ ArchiveTakenBack
  <2>1. UNCHANGED <<row, due, journal, reports, held, flushing, delivery, known, unmarked, skipped, boot, listed,
                    got, tried>>
    BY <1>2 DEF Archive, ArchiveTakenBack
  <2>2. \A n \in Notices : InHand(n)' <=> InHand(n)
    BY <2>1 DEF InHand
  <2>3. Registered' /\ HandedWhenMarked'
    BY <2>1 DEF Hands, Registered, HandedWhenMarked, HasIt
  <2> QED
    BY <2>1, <2>2, <2>3, WakeMoves
<1>3. ASSUME NEW n \in journal, JournalStartsTurn(n) \/ JournalDropped(n) PROVE Hands'
  <2>1. /\ n \in Notices /\ journal' = journal \ {n}
        /\ UNCHANGED <<due, reports, held, flushing, delivery, known, unmarked, skipped, boot, listed>>
    BY <1>3 DEF JournalStartsTurn, JournalDropped, TypeOK, launcherVars
  <2>2. /\ tried \subseteq tried' /\ \A m \in Notices : got[m] \subseteq got'[m]
        /\ \A m \in Notices \ {n} : row'[m] = row[m]
        /\ row'[n] = "delivered" \/ (row'[n] = row[n] /\ n \in tried')
    BY <1>3, <2>1 DEF JournalStartsTurn, JournalDropped, Hand, TypeOK
  <2>3. \A m \in Notices : (InHand(m)' => InHand(m)) /\ (m # n /\ InHand(m) => InHand(m)')
    BY <2>1 DEF InHand
  <2>4. Registered'
    BY <2>1 DEF Hands, Registered
  <2>5. HandedWhenMarked'
    BY <2>1, <2>2 DEF Hands, HandedWhenMarked, HasIt
  <2> QED
    BY <2>1, <2>2, <2>3, <2>4, <2>5, WakeMoves
<1> QED
  BY <1>1, <1>2, <1>3

LEMMA HandsBoot ==
  ASSUME TypeOK, Hands, BootLists \/ (\E n \in listed : BootWakes(n)) \/ Crash \/ BootFails
  PROVE  Hands'
<1> USE DEF deliveryVars, launcherVars, diskVars, memoryVars, histVars
<1>1. CASE BootLists
  <2>1. /\ boot' = "done" /\ listed' = DueWakes
        /\ UNCHANGED <<row, due, journal, reports, held, flushing, delivery, known, unmarked, skipped, got, tried>>
    BY <1>1 DEF BootLists
  <2>2. \A n \in Notices : InHand(n)' => InHand(n) \/ row[n] = "unread"
    BY <2>1 DEF InHand, DueWakes
  <2>3. RowsFirst'
    BY <2>1, <2>2 DEF Hands, RowsFirst
  <2>4. \A n \in Notices : row[n] = "unread" /\ due[n] => InHand(n)'
    BY <2>1 DEF InHand, DueWakes
  <2>5. WakesAreOwed'
    BY <2>1, <2>4 DEF Hands, WakesAreOwed
  <2>6. Registered' /\ HandedWhenMarked'
    BY <2>1 DEF Hands, Registered, HandedWhenMarked, HasIt
  <2> QED
    BY <2>3, <2>5, <2>6 DEF Hands
<1>2. ASSUME NEW n \in listed, BootWakes(n) PROVE Hands'
  <2>1. /\ listed' = listed \ {n} /\ n \in Notices
        /\ UNCHANGED <<row, journal, reports, flushing, skipped, boot, got, tried>>
        /\ unmarked' = IF n \notin known /\ archived THEN unmarked \cup {n} ELSE unmarked
    BY <1>2 DEF BootWakes, TypeOK
  <2>2. n[2] \in Turns /\ (n[1] = "one" \/ n[1] = "batch")
    BY <2>1, NoticeShape
  <2>3. CASE n \in known
    <3>1. UNCHANGED <<due, held, delivery, known, unmarked>> /\ delivery[n] # "none"
      BY <1>2, <2>1, <2>3 DEF BootWakes, Hands, Registered
    <3>2. \A m \in Notices : InHand(m)' <=> InHand(m)
      BY <2>1, <3>1 DEF InHand
    <3>3. Registered' /\ HandedWhenMarked'
      BY <2>1, <3>1 DEF Hands, Registered, HandedWhenMarked, HasIt
    <3> QED
      BY <2>1, <3>1, <3>2, <3>3, WakeMoves
  <2>4. CASE n \notin known /\ archived
    <3>1. due' = [due EXCEPT ![n] = FALSE] /\ UNCHANGED <<held, delivery, known>>
      BY <1>2, <2>1, <2>4 DEF BootWakes
    <3>2. \A m \in Notices : InHand(m)' => InHand(m)
      BY <2>1, <3>1 DEF InHand
    <3>3. Registered' /\ HandedWhenMarked'
      BY <2>1, <3>1 DEF Hands, Registered, HandedWhenMarked, HasIt
    <3>4. n \in unmarked' /\ tried \cup unmarked \subseteq tried' \cup unmarked'
      BY <2>1, <2>4
    <3>5. \A m \in Notices \ {n} : due'[m] = due[m] /\ (InHand(m) => InHand(m)')
      BY <2>1, <3>1 DEF InHand, TypeOK
    <3> QED
      BY <2>1, <3>2, <3>3, <3>4, <3>5, WakeMoves
  <2>5. CASE n \notin known /\ ~archived /\ n[1] = "batch"
    <3>1. /\ delivery' = Started({n}) /\ known' = known \cup {n}
          /\ UNCHANGED <<due, held, unmarked>>
      BY <1>2, <2>5 DEF BootWakes
    <3>2. \A m \in Notices : delivery'[m] = IF m = n THEN "sending" ELSE delivery[m]
      BY <2>1, <3>1, StartedType
    <3>3. \A m \in Notices : InHand(m)' <=> InHand(m)
      BY <2>1, <3>1, <3>2 DEF InHand
    <3>4. Registered'
      BY <2>1, <3>1, <3>2 DEF Hands, Registered
    <3>5. HandedWhenMarked'
      BY <2>1, <3>2 DEF Hands, HandedWhenMarked, HasIt
    <3> QED
      BY <2>1, <3>1, <3>3, <3>4, <3>5, WakeMoves
  <2>6. CASE n \notin known /\ ~archived /\ n[1] # "batch"
    <3>1. held' = held \cup {n[2]} /\ UNCHANGED <<due, delivery, known, unmarked>>
      BY <1>2, <2>6 DEF BootWakes
    <3>2. \A m \in Notices : m[1] = "one" /\ m[2] = n[2] <=> m = n
      BY <2>1, <2>2, <2>6, NoticeShape
    <3>3. \A t : (\E w \in flushing' \cup {held'} : t \in w) <=> t = n[2] \/ \E w \in flushing \cup {held} : t \in w
      BY <2>1, <3>1
    <3>4. \A m \in Notices : InHand(m)' <=> InHand(m)
      BY <2>1, <3>1, <3>2, <3>3 DEF InHand
    <3>5. Registered' /\ HandedWhenMarked'
      BY <2>1, <3>1 DEF Hands, Registered, HandedWhenMarked, HasIt
    <3> QED
      BY <2>1, <3>1, <3>4, <3>5, WakeMoves
  <2> QED
    BY <2>3, <2>4, <2>5, <2>6
<1>3. CASE Crash
  <2>1. /\ reports' = {} /\ held' = {} /\ flushing' = {} /\ delivery' = Idle /\ known' = {}
        /\ boot' = "list" /\ listed' = {}
        /\ UNCHANGED <<row, due, journal, unmarked, got, tried>>
    BY <1>3 DEF Crash
  <2>2. \A n \in Notices : delivery'[n] = "none"
    BY <2>1 DEF Idle
  <2>3. \A n \in Notices : InHand(n)' => InHand(n)
    BY <2>1, <2>2 DEF InHand
  <2>4. RowsFirst'
    BY <2>1, <2>3 DEF Hands, RowsFirst
  <2>5. Registered' /\ HandedWhenMarked'
    BY <2>1, <2>2 DEF Registered, HandedWhenMarked
  <2>6. WakesAreOwed'
    BY <2>1 DEF Hands, WakesAreOwed
  <2> QED
    BY <2>4, <2>5, <2>6 DEF Hands
<1>4. CASE BootFails
  <2>1. /\ boot = "list" \/ listed # {}
        /\ boot' = "done" /\ listed' = {}
        /\ skipped' = skipped \cup (IF boot = "list" THEN DueWakes ELSE listed)
        /\ UNCHANGED <<row, due, journal, reports, held, flushing, delivery, known, got, tried, unmarked>>
    BY <1>4 DEF BootFails
  <2>2. \A n \in Notices : /\ InHand(n)' => InHand(n)
                           /\ InHand(n) => InHand(n)' \/ n \in listed
    BY <2>1 DEF InHand
  <2>3. RowsFirst' /\ Registered' /\ HandedWhenMarked'
    BY <2>1, <2>2 DEF Hands, RowsFirst, Registered, HandedWhenMarked, HasIt
  <2>4. ASSUME NEW n \in Notices, row[n] = "unread", n \notin tried \cup unmarked
        PROVE  due[n] /\ (n \in skipped' \/ InHand(n)')
    <3>1. due[n] /\ (boot = "list" \/ n \in skipped \/ InHand(n))
      BY <2>4 DEF Hands, WakesAreOwed
    <3>2. CASE boot = "list"
      BY <2>1, <2>4, <3>1, <3>2 DEF DueWakes, InHand
    <3>3. CASE boot # "list"
      BY <2>1, <2>2, <3>1, <3>3
    <3> QED
      BY <3>2, <3>3
  <2>5. WakesAreOwed'
    BY <2>1, <2>4 DEF WakesAreOwed
  <2> QED
    BY <2>3, <2>5 DEF Hands
<1> QED
  BY <1>1, <1>2, <1>3, <1>4

LEMMA HandsKept == TypeOK /\ Hands /\ Results /\ Next => Hands'
<1> SUFFICES ASSUME TypeOK, Hands, Results, Next PROVE Hands'
  OBVIOUS
<1>1. ASSUME NEW r \in reports, BuildFails(r) PROVE Hands'
  BY <1>1, HandsUnwritten DEF BuildFails, launcherVars
<1> QED
  BY <1>1, HandsChild, HandsBuild, HandsHold, HandsFlush, HandsCoalesce, HandsDelivery, HandsLauncher,
     HandsBoot DEF Next, PolicyStep

-----------------------------------------------------------------------------
(* The invariant                                                           *)

LEMMA InitIInv == Init => IInv
<1> SUFFICES ASSUME Init PROVE IInv
  OBVIOUS
<1>1. Hands
  BY NoticeShape DEF Init, Hands, Registered, RowsFirst, HandedWhenMarked, WakesAreOwed, InHand, Idle
<1>2. Results
  BY NoticeShape DEF Init, Results, CollectedIsClosed, BatchClosesItsOwn, CarriedIsClosed, ResultsSurvive, CarriedOnce
<1>3. \A t \in Turns : ~Over(t)
  BY TurnShape DEF Init, Over
<1>4. \A t \in Turns : ~Somewhere(t) /\ ~InRow(t) /\ ~InReport(t) /\ ~InDigest(t)
  BY TurnShape DEF Init, Quiet, Somewhere, InRow, InReport, InDigest
<1>5. OnePlace
  BY <1>3, <1>4 DEF Init, OnePlace
<1>6. TurnsNumbered /\ OwnDigest /\ UnwrittenTellsNothing /\ OneRow /\ OneReport
  BY TurnShape DEF Init, Quiet, TurnsNumbered, OwnDigest, UnwrittenTellsNothing, OneRow, OneReport
<1> QED
  BY <1>1, <1>2, <1>5, <1>6, InitTypeOK DEF IInv, Counts

LEMMA Inductive == IInv /\ [Next]_vars => IInv'
<1>1. ASSUME IInv, Next PROVE IInv'
  BY <1>1, TypesKept, CountsKept, ResultsKept, HandsKept DEF IInv
<1>2. ASSUME IInv, UNCHANGED vars PROVE IInv'
  <2> USE <1>2 DEF IInv, vars, childVars, diskVars, memoryVars, deliveryVars, launcherVars, bootVars, histVars
  <2>1. TypeOK'
    BY DEF TypeOK
  <2>2. Hands'
    BY HandsAside
  <2>3. Results'
    BY ResultsAside
  <2>4. Counts'
    BY CountsAside
  <2> QED
    BY <2>1, <2>2, <2>3, <2>4
<1> QED
  BY <1>1, <1>2

(* Whatever launched chats, launcher, person, SQLite and crashes do, the    *)
(* policy's memory, the rows and the deliveries agree                       *)
(* (CompletionNoticePolicy, list_due_wakes, deliver_notice).                *)
THEOREM Invariant == Spec => []IInv
BY InitIInv, Inductive, PTL DEF Spec

(* Rows, marks, windows and deliveries keep their types. *)
THEOREM TypeCorrect == Spec => []TypeOK
<1>1. IInv => TypeOK
  BY DEF IInv
<1> QED
  BY <1>1, Invariant, PTL

(* No result is closed before the launcher has it, or a batch row that      *)
(* brings it, for any number of chats and any size of a batch (coalesce).   *)
THEOREM ClosedResultsSurvive == Spec => []ResultsSurvive
<1>1. IInv => ResultsSurvive
  BY DEF IInv, Results
<1> QED
  BY <1>1, Invariant, PTL

(* A result the launcher collected is brought by no batch, and no result by *)
(* two (coalesce, take_undelivered_messages).                               *)
THEOREM ResultsAreCarriedOnce == Spec => []CarriedOnce
<1>1. IInv => CarriedOnce
  BY DEF IInv, Results
<1> QED
  BY <1>1, Invariant, PTL

(* An unread row has its wake mark on disk and is in somebody's hands or    *)
(* waits for the boot, until its wake was attempted (start_delivery,        *)
(* recover_pending_wakes).                                                  *)
THEOREM UnreadRowsAreOwedAWake == Spec => []WakesAreOwed
<1>1. IInv => WakesAreOwed
  BY DEF IInv, Hands
<1> QED
  BY <1>1, Invariant, PTL

(* A turn that ended is in exactly one of the counts, rows and reports, or  *)
(* given up for a reason (turn_ended, schedule_user_turn_digest).           *)
LEMMA OnePlaceIsOneTelling == Counts => EveryTurnIsToldOnce
<1> SUFFICES ASSUME Counts, NEW t \in Turns
             PROVE  IF Over(t) THEN \E way \in Tellings(t) : Tellings(t) = {way} ELSE Tellings(t) = {}
  BY DEF EveryTurnIsToldOnce
<1> DEFINE rows == {u \in Turns : t \in tells[u]}
           told == {r \in reports : r.pc = "build" /\ t \in r.tells}
           quiet == {c \in Children : t \in digest[c].turns}
           e == {t} \cap ended
           n == {t} \cap untold
<1>1. Tellings(t) = ({"row"} \X rows) \cup ({"report"} \X told) \cup ({"digest"} \X quiet)
                      \cup ({"ended"} \X e) \cup ({"untold"} \X n)
  BY DEF Tellings
<1>2. /\ (\E x : x \in rows) <=> InRow(t)
      /\ (\E x : x \in told) <=> InReport(t)
      /\ (\E x : x \in quiet) <=> InDigest(t)
  BY TurnShape DEF InRow, InReport, InDigest, Counts, OwnDigest
<1>3. /\ \A x, y \in rows : x = y
      /\ \A x, y \in told : x = y
      /\ \A x, y \in quiet : x = y
  BY DEF Counts, OneRow, OneReport, OwnDigest
<1>4. (\A x \in e : x = t) /\ (\A x \in n : x = t) /\ (t \in e <=> t \in ended) /\ (t \in n <=> t \in untold)
  OBVIOUS
<1>5. Over(t) <=> InRow(t) \/ InReport(t) \/ InDigest(t) \/ t \in ended \/ t \in untold
  BY DEF Counts, OnePlace, Somewhere
<1>6. /\ InRow(t) => ~InReport(t) /\ ~InDigest(t) /\ t \notin ended /\ t \notin untold
      /\ InReport(t) => ~InDigest(t) /\ t \notin ended /\ t \notin untold
      /\ InDigest(t) => t \notin ended /\ t \notin untold
      /\ t \in ended => t \notin untold
  BY DEF Counts, OnePlace
<1> HIDE DEF rows, told, quiet, e, n
<1>7. CASE ~Over(t)
  BY <1>1, <1>2, <1>4, <1>5, <1>7
<1>8. CASE InRow(t)
  <2>1. PICK u : rows = {u}
    BY <1>2, <1>3, <1>8
  <2>2. Tellings(t) = {<<"row", u>>}
    BY <1>1, <1>2, <1>4, <1>6, <1>8, <2>1
  <2> QED
    BY <1>5, <1>8, <2>2
<1>9. CASE InReport(t)
  <2>1. PICK r : told = {r}
    BY <1>2, <1>3, <1>9
  <2>2. Tellings(t) = {<<"report", r>>}
    BY <1>1, <1>2, <1>4, <1>6, <1>9, <2>1
  <2> QED
    BY <1>5, <1>9, <2>2
<1>10. CASE InDigest(t)
  <2>1. PICK c : quiet = {c}
    BY <1>2, <1>3, <1>10
  <2>2. Tellings(t) = {<<"digest", c>>}
    BY <1>1, <1>2, <1>4, <1>6, <1>10, <2>1
  <2> QED
    BY <1>5, <1>10, <2>2
<1>11. CASE t \in ended
  <2>1. Tellings(t) = {<<"ended", t>>}
    BY <1>1, <1>2, <1>4, <1>6, <1>11
  <2> QED
    BY <1>5, <1>11, <2>1
<1>12. CASE t \in untold
  <2>1. Tellings(t) = {<<"untold", t>>}
    BY <1>1, <1>2, <1>4, <1>6, <1>12
  <2> QED
    BY <1>5, <1>12, <2>1
<1> QED
  BY <1>5, <1>7, <1>8, <1>9, <1>10, <1>11, <1>12

(* Each turn of each launched chat is told exactly once, whichever of its   *)
(* own notice, a digest, an archive or a crash takes it (turn_ended).       *)
THEOREM TurnsAreToldOnce == Spec => []EveryTurnIsToldOnce
<1>1. IInv => EveryTurnIsToldOnce
  BY OnePlaceIsOneTelling DEF IInv
<1> QED
  BY <1>1, Invariant, PTL
=============================================================================
