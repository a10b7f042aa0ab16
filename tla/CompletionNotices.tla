------------------------- MODULE CompletionNotices -------------------------
(***************************************************************************)
(* What a launching chat hears of the chats it launched:                   *)
(* src/src-tauri/src/providers/completion_notices.rs, the marks of         *)
(* persistence/session_messages.rs, and deliver_notice of                  *)
(* providers/session_service.rs.                                           *)
(*                                                                         *)
(* A turn's end writes a row for the launcher's inbox and, two seconds     *)
(* later and together with its siblings, starts a turn that reads it.      *)
(* Turns the person drove in the launched chat are counted and told in one *)
(* digest after a quiet while, or with the next turn the launcher drove.   *)
(* Rows and their wake marks are on disk; counts, windows and deliveries   *)
(* are in memory, and a crash takes them.                                  *)
(*                                                                         *)
(* One launcher.  A row is named by the turn it is about: <<child, n>>.    *)
(* A count of turns is the set of the turns counted, and the notices of a  *)
(* window are a set: the order in which a batch lists its members, and     *)
(* which of them is the first it is named by, are left open.               *)
(***************************************************************************)
EXTENDS Naturals, FiniteSets

CONSTANTS
  Children,   \* chats the launcher launched
  MaxTurns,   \* per chat: bound on its turns
  BatchSize,  \* MAX_BATCH_MEMBERS
  MaxEvents   \* bound on turns, crashes, and transactions and sends that fail, together

ASSUME NoticeBounds ==
  /\ MaxTurns \in [Children -> Nat]
  /\ {BatchSize, MaxEvents} \subseteq Nat /\ BatchSize > 1

Turns == UNION {{c} \X (1..MaxTurns[c]) : c \in Children}

(* The row of a turn, and a batch row, named by one it stands for.         *)
Notices == {"one", "batch"} \X Turns
One(t) == <<"one", t>>
Batch(t) == <<"batch", t>>

VARIABLES
  turn,      \* per child: turns started
  running,   \* per child: its turn is running
  byPerson,  \* per child: the newest user.message was typed in its own tab
  ended,     \* turns that ended and that turn_ended has not looked at yet
  row,       \* per notice: its row in session_messages
  due,       \* per notice: wake_due_at is set
  tells,     \* per turn: the turns the body of its row is about
  carries,   \* per turn: the turns whose results its batch row carries
  journal,   \* notices queued behind a turn of the launcher
  digest,    \* per child: the open quiet window: turns counted, the last of them
  reports,   \* notices being built, or written and not yet held
  held,      \* the launcher's open window: turns
  flushing,  \* windows that closed and are being coalesced
  delivery,  \* per notice: progress of its task of start_delivery
  known,     \* the keys of delivery_tasks
  busy,      \* the launcher has a turn running
  archived,  \* its workspace is archiving, archive-failed or archived
  boot,      \* "list": recover_pending_wakes has not listed the marked rows
  listed,    \* rows it has listed and not looked at
  got,       \* history: how the launcher was handed a notice
  tried,     \* history: notices whose wake was attempted or is a person's to send
  unmarked,  \* history: marks taken at boot because of an archive
  skipped,   \* history: rows that a recovery which failed left to the next boot
  untold,    \* history: ended turns no row will be about
  events

childVars    == <<turn, running, byPerson, ended>>
diskVars     == <<row, due, tells, carries, journal>>
memoryVars   == <<digest, reports, held, flushing>>
deliveryVars == <<delivery, known>>
launcherVars == <<busy, archived>>
bootVars     == <<boot, listed>>
histVars     == <<got, tried, unmarked, skipped, untold>>
vars == <<childVars, diskVars, memoryVars, deliveryVars, launcherVars, bootVars, histVars, events>>

Quiet == [turns |-> {}, at |-> 0]

TypeOK ==
  /\ turn \in [Children -> Nat] /\ running \in [Children -> BOOLEAN]
  /\ byPerson \in [Children -> BOOLEAN] /\ ended \subseteq Turns
  /\ row \in [Notices -> {"none", "unread", "delivered"}] /\ due \in [Notices -> BOOLEAN]
  /\ tells \in [Turns -> SUBSET Turns] /\ carries \in [Turns -> SUBSET Turns]
  /\ journal \subseteq Notices
  /\ digest \in [Children -> [turns : SUBSET Turns, at : Nat]]
  /\ reports \subseteq [of : Turns, tells : SUBSET Turns, pc : {"build", "hold"}]
  /\ held \subseteq Turns /\ flushing \subseteq SUBSET Turns
  /\ delivery \in [Notices -> {"none", "sending", "marking", "clearing"}]
  /\ known \subseteq Notices
  /\ {busy, archived} \subseteq BOOLEAN
  /\ boot \in {"list", "done"} /\ listed \subseteq Notices
  /\ got \in [Notices -> SUBSET {"turn", "inbox"}] /\ tried \subseteq Notices
  /\ unmarked \subseteq Notices /\ skipped \subseteq Notices
  /\ untold \subseteq Turns
  /\ events \in 0..MaxEvents

Idle == [n \in Notices |-> "none"]

Init ==
  /\ turn = [c \in Children |-> 0] /\ running = [c \in Children |-> FALSE]
  /\ byPerson = [c \in Children |-> FALSE] /\ ended = {}
  /\ row = [n \in Notices |-> "none"] /\ due = [n \in Notices |-> FALSE]
  /\ tells = [t \in Turns |-> {}] /\ carries = [t \in Turns |-> {}] /\ journal = {}
  /\ digest = [c \in Children |-> Quiet] /\ reports = {} /\ held = {} /\ flushing = {}
  /\ delivery = Idle /\ known = {}
  /\ busy = TRUE /\ archived = FALSE
  /\ boot = "done" /\ listed = {}
  /\ got = [n \in Notices |-> {}] /\ tried = {} /\ unmarked = {} /\ skipped = {}
  /\ untold = {}
  /\ events = 0

Event == events < MaxEvents /\ events' = events + 1

-----------------------------------------------------------------------------
(* The launched chats: the first prompt is the launcher's, later ones are  *)
(* the launcher's messages or typed by the person.                         *)

TurnStarts(c) ==
  /\ boot = "done" /\ ~running[c] /\ turn[c] < MaxTurns[c]
  /\ Event
  /\ turn' = [turn EXCEPT ![c] = @ + 1]
  /\ running' = [running EXCEPT ![c] = TRUE]
  /\ \E person \in IF turn[c] = 0 THEN {FALSE} ELSE BOOLEAN :
       byPerson' = [byPerson EXCEPT ![c] = person]
  /\ UNCHANGED <<ended, diskVars, memoryVars, deliveryVars, launcherVars, bootVars, histVars>>

(* The state is committed and the handle is gone before the policy is told. *)
TurnEnds(c) ==
  /\ running[c]
  /\ running' = [running EXCEPT ![c] = FALSE]
  /\ ended' = ended \cup {<<c, turn[c]>>}
  /\ UNCHANGED <<turn, byPerson, diskVars, memoryVars, deliveryVars, launcherVars, bootVars,
                 histVars, events>>

-----------------------------------------------------------------------------
(* turn_ended: by what the newest user.message is when it looks, the end   *)
(* restarts the quiet window or closes it with a notice of its own.        *)

Reporting(t, ts) == [of |-> t, tells |-> ts, pc |-> "build"]

ReportKeepsDigest(t) ==
  LET c == t[1] IN
  /\ t \in ended
  /\ ended' = ended \ {t}
  /\ IF byPerson[c]
       THEN digest' = [digest EXCEPT ![c] = [turns |-> @.turns \cup {t}, at |-> t[2]]] /\ UNCHANGED reports
       ELSE reports' = reports \cup {Reporting(t, {t} \cup digest[c].turns)} /\ UNCHANGED digest
  /\ UNCHANGED <<turn, running, byPerson, diskVars, held, flushing, deliveryVars, launcherVars,
                 bootVars, histVars, events>>

Report(t) ==
  LET c == t[1] IN
  /\ t \in ended
  /\ ended' = ended \ {t}
  /\ IF byPerson[c]
       THEN digest' = [digest EXCEPT ![c] = [turns |-> @.turns \cup {t}, at |-> t[2]]] /\ UNCHANGED reports
       ELSE /\ reports' = reports \cup {Reporting(t, {t} \cup digest[c].turns)}
            /\ digest' = [digest EXCEPT ![c] = Quiet]
  /\ UNCHANGED <<turn, running, byPerson, diskVars, held, flushing, deliveryVars, launcherVars,
                 bootVars, histVars, events>>

(* The timer whose token the window still has. *)
DigestFires(c) ==
  /\ digest[c].turns # {}
  /\ digest' = [digest EXCEPT ![c] = Quiet]
  /\ reports' = reports \cup {Reporting(<<c, digest[c].at>>, digest[c].turns)}
  /\ UNCHANGED <<childVars, diskVars, held, flushing, deliveryVars, launcherVars, bootVars,
                 histVars, events>>

(* build_completion_notice: the row and its wake mark in one transaction.  *)
Unwritten(r) ==
  /\ reports' = reports \ {r}
  /\ untold' = untold \cup r.tells
  /\ UNCHANGED <<row, due, tells>>

BuildUnmarked(r) ==
  /\ r \in reports /\ r.pc = "build"
  /\ IF archived \/ row[One(r.of)] # "none"
       THEN Unwritten(r)
       ELSE /\ row' = [row EXCEPT ![One(r.of)] = "unread"]
            /\ tells' = [tells EXCEPT ![r.of] = r.tells]
            /\ reports' = (reports \ {r}) \cup {[r EXCEPT !.pc = "hold"]}
            /\ UNCHANGED <<due, untold>>
  /\ UNCHANGED <<childVars, carries, journal, digest, held, flushing, deliveryVars, launcherVars,
                 bootVars, got, tried, unmarked, skipped, events>>

Build(r) ==
  /\ r \in reports /\ r.pc = "build"
  /\ IF archived \/ row[One(r.of)] # "none"
       THEN Unwritten(r)
       ELSE /\ row' = [row EXCEPT ![One(r.of)] = "unread"]
            /\ due' = [due EXCEPT ![One(r.of)] = TRUE]
            /\ tells' = [tells EXCEPT ![r.of] = r.tells]
            /\ reports' = (reports \ {r}) \cup {[r EXCEPT !.pc = "hold"]}
            /\ UNCHANGED untold
  /\ UNCHANGED <<childVars, carries, journal, digest, held, flushing, deliveryVars, launcherVars,
                 bootVars, got, tried, unmarked, skipped, events>>

BuildFails(r) ==
  /\ r \in reports /\ r.pc = "build"
  /\ Event
  /\ Unwritten(r)
  /\ UNCHANGED <<childVars, carries, journal, digest, held, flushing, deliveryVars, launcherVars,
                 bootVars, got, tried, unmarked, skipped>>

(* hold_for_batch: the first notice opens the launcher's window.           *)
Hold(r) ==
  /\ r \in reports /\ r.pc = "hold"
  /\ reports' = reports \ {r}
  /\ held' = held \cup {r.of}
  /\ UNCHANGED <<childVars, diskVars, digest, flushing, deliveryVars, launcherVars, bootVars,
                 histVars, events>>

-----------------------------------------------------------------------------
(* flush_batch and coalesce                                                *)

WindowClosesIdle ==
  /\ held # {} /\ ~busy
  /\ held' = {} /\ flushing' = flushing \cup {held}
  /\ UNCHANGED <<childVars, diskVars, digest, reports, deliveryVars, launcherVars, bootVars,
                 histVars, events>>

WindowCloses ==
  /\ held # {}
  /\ held' = {} /\ flushing' = flushing \cup {held}
  /\ UNCHANGED <<childVars, diskVars, digest, reports, deliveryVars, launcherVars, bootVars,
                 histVars, events>>

(* start_delivery for a set of notices, none of which is under way.        *)
Started(ns) == [n \in Notices |-> IF n \in ns THEN "sending" ELSE delivery[n]]

Everything(w) == w
Unread(w) == {t \in w : row[One(t)] = "unread"}

(* The ways of cutting a window into batches, all full but one: the turn   *)
(* that the batch of each is named by.                                     *)
Batched(head, b) == {t \in DOMAIN head : head[t] = b}
Chunks(ts) ==
  {head \in [ts -> ts] :
     /\ \A t \in ts : head[head[t]] = head[t] /\ Cardinality(Batched(head, head[t])) <= BatchSize
     /\ \A t, u \in ts : Cardinality(Batched(head, head[t])) < BatchSize
                           /\ Cardinality(Batched(head, head[u])) < BatchSize => head[t] = head[u]}

(* The turns whose results a batch row brings: each whole, or as a pointer. *)
CarriedFitting(head, b) == Batched(head, b) \ {b}
Carried(head, b) == Batched(head, b)

(* The individual rows are closed in the transaction that writes the batch *)
(* rows; a batch row that exists belongs to an earlier flush.              *)
Coalesce(w) ==
  /\ w \in flushing
  /\ flushing' = flushing \ {w}
  /\ \E head \in Chunks(Unread(w)) :
       LET alone   == {b \in Unread(w) : Batched(head, b) = {b}}
           batches == {b \in Unread(w) : head[b] = b /\ b \notin alone /\ row[Batch(b)] = "none"}
           written == {Batch(b) : b \in batches}
           closed  == {One(t) : t \in {u \in Unread(w) : head[u] \in batches}}
           sent    == written \cup {One(b) : b \in alone}
       IN
       /\ row' = [n \in Notices |-> IF n \in written THEN "unread"
                                    ELSE IF n \in closed THEN "delivered" ELSE row[n]]
       /\ due' = [n \in Notices |-> due[n] \/ n \in written]
       /\ carries' = [t \in Turns |-> IF t \in batches THEN Carried(head, t) ELSE carries[t]]
       /\ delivery' = Started(sent)
       /\ known' = known \cup sent
  /\ UNCHANGED <<childVars, tells, journal, digest, reports, held, launcherVars, bootVars,
                 histVars, events>>

CoalesceFails(w) ==
  /\ w \in flushing
  /\ Event
  /\ flushing' = flushing \ {w}
  /\ delivery' = Started({One(t) : t \in w})
  /\ known' = known \cup {One(t) : t \in w}
  /\ UNCHANGED <<childVars, diskVars, digest, reports, held, launcherVars, bootVars, histVars>>

-----------------------------------------------------------------------------
(* A delivery task: deliver_notice, then the mark is cleared whatever came *)
(* of it.                                                                  *)

Progress(n, pc) == delivery' = [delivery EXCEPT ![n] = pc]
Hand(n, how) == got' = [got EXCEPT ![n] = @ \cup {how}]

SendStartsTurn(n) ==
  /\ delivery[n] = "sending" /\ ~busy /\ ~archived
  /\ busy' = TRUE
  /\ Hand(n, "turn")
  /\ Progress(n, "marking")
  /\ UNCHANGED <<childVars, diskVars, memoryVars, known, archived, bootVars, tried,
                 unmarked, skipped, untold, events>>

SendQueues(n) ==
  /\ delivery[n] = "sending" /\ busy
  /\ journal' = IF row[n] = "delivered" THEN journal ELSE journal \cup {n}
  /\ Progress(n, "clearing")
  /\ UNCHANGED <<childVars, row, due, tells, carries, memoryVars, known, launcherVars, bootVars,
                 histVars, events>>

SendFails(n) ==
  /\ delivery[n] = "sending"
  /\ IF archived THEN UNCHANGED events ELSE Event
  /\ Progress(n, "clearing")
  /\ UNCHANGED <<childVars, diskVars, memoryVars, known, launcherVars, bootVars, histVars>>

MarkDelivered(n) ==
  /\ delivery[n] = "marking"
  /\ row' = [row EXCEPT ![n] = "delivered"]
  /\ Progress(n, "clearing")
  /\ UNCHANGED <<childVars, due, tells, carries, journal, memoryVars, known, launcherVars,
                 bootVars, histVars, events>>

ClearMark(n) ==
  /\ delivery[n] = "clearing"
  /\ due' = [due EXCEPT ![n] = FALSE]
  /\ known' = known \ {n}
  /\ Progress(n, "none")
  /\ tried' = tried \cup {n}
  /\ UNCHANGED <<childVars, row, tells, carries, journal, memoryVars, launcherVars, bootVars,
                 got, unmarked, skipped, untold, events>>

DeliveryStep(n) == SendStartsTurn(n) \/ SendQueues(n) \/ SendFails(n)
                      \/ MarkDelivered(n) \/ ClearMark(n)

-----------------------------------------------------------------------------
(* The launcher                                                            *)

LauncherStarts ==
  /\ ~busy /\ ~archived
  /\ busy' = TRUE
  /\ UNCHANGED <<childVars, diskVars, memoryVars, deliveryVars, archived, bootVars, histVars, events>>

LauncherEnds ==
  /\ busy
  /\ busy' = FALSE
  /\ UNCHANGED <<childVars, diskVars, memoryVars, deliveryVars, archived, bootVars, histVars, events>>

(* session_wait or inbox_read in a turn: take_undelivered_messages.        *)
Collect ==
  /\ busy
  /\ \E ns \in SUBSET {n \in Notices : row[n] = "unread"} \ {{}} :
       /\ row' = [n \in Notices |-> IF n \in ns THEN "delivered" ELSE row[n]]
       /\ got' = [n \in Notices |-> IF n \in ns THEN got[n] \cup {"inbox"} ELSE got[n]]
  /\ UNCHANGED <<childVars, due, tells, carries, journal, memoryVars, deliveryVars, launcherVars,
                 bootVars, tried, unmarked, skipped, untold, events>>

(* The follow-up queue, which drops a copy that was collected.             *)
JournalStartsTurn(n) ==
  /\ n \in journal /\ ~busy /\ ~archived
  /\ journal' = journal \ {n}
  /\ IF row[n] = "delivered" THEN UNCHANGED <<row, busy, got>>
     ELSE row' = [row EXCEPT ![n] = "delivered"] /\ busy' = TRUE /\ Hand(n, "turn")
  /\ UNCHANGED <<childVars, due, tells, carries, memoryVars, deliveryVars, archived, bootVars,
                 tried, unmarked, skipped, untold, events>>

(* The person deletes the copy, or a Stop clears the queue.                *)
JournalDropped(n) ==
  /\ n \in journal
  /\ journal' = journal \ {n}
  /\ tried' = tried \cup {n}
  /\ UNCHANGED <<childVars, row, due, tells, carries, memoryVars, deliveryVars, launcherVars,
                 bootVars, got, unmarked, skipped, untold, events>>

(* An archive begins; its turn, if one runs, is stopped later.  A dirty     *)
(* tree or a timeout gives the archive up, and a person may keep a          *)
(* workspace whose archive failed or succeeded: the launcher is usable      *)
(* again.                                                                   *)
Archive ==
  /\ ~archived
  /\ archived' = TRUE
  /\ UNCHANGED <<childVars, diskVars, memoryVars, deliveryVars, busy, bootVars, histVars, events>>

ArchiveTakenBack ==
  /\ archived
  /\ archived' = FALSE
  /\ UNCHANGED <<childVars, diskVars, memoryVars, deliveryVars, busy, bootVars, histVars, events>>

-----------------------------------------------------------------------------
(* A crash, and recover_pending_wakes.  Turns that died with the app are   *)
(* settled by recover_orphaned_sessions, which does not tell the policy.   *)
(* The marked rows are listed in the statement after the service is        *)
(* published, before a launched chat's next turn can end.                  *)

Current == {<<c, turn[c]>> : c \in {x \in Children : running[x]}}
InMemory == ended \cup (UNION {digest[c].turns : c \in Children})
                  \cup (UNION {r.tells : r \in {x \in reports : x.pc = "build"}})

Crash ==
  /\ Event
  /\ untold' = untold \cup InMemory \cup Current
  /\ running' = [c \in Children |-> FALSE] /\ ended' = {}
  /\ digest' = [c \in Children |-> Quiet] /\ reports' = {} /\ held' = {} /\ flushing' = {}
  /\ delivery' = Idle /\ known' = {}
  /\ busy' = FALSE
  /\ boot' = "list" /\ listed' = {} /\ skipped' = {}
  /\ UNCHANGED <<turn, byPerson, diskVars, archived, got, tried, unmarked>>

(* list_due_wakes *)
DueWakes == {n \in Notices : due[n] /\ row[n] = "unread" /\ n \notin journal}

BootLists ==
  /\ boot = "list"
  /\ boot' = "done" /\ listed' = DueWakes
  /\ UNCHANGED <<childVars, diskVars, memoryVars, deliveryVars, launcherVars, histVars, events>>

BootHoldsAll(n) ==
  /\ n \in listed
  /\ listed' = listed \ {n}
  /\ held' = held \cup {IF n[1] = "batch" THEN n ELSE n[2]}
  /\ UNCHANGED <<childVars, diskVars, digest, reports, flushing, deliveryVars, launcherVars,
                 boot, histVars, events>>

BootWakes(n) ==
  /\ n \in listed
  /\ listed' = listed \ {n}
  /\ IF n \in known THEN UNCHANGED <<due, held, delivery, known>>
     ELSE IF archived THEN due' = [due EXCEPT ![n] = FALSE] /\ UNCHANGED <<held, delivery, known>>
     ELSE IF n[1] = "batch"
       THEN delivery' = Started({n}) /\ known' = known \cup {n} /\ UNCHANGED <<due, held>>
       ELSE held' = held \cup {n[2]} /\ UNCHANGED <<due, delivery, known>>
  /\ unmarked' = IF n \notin known /\ archived THEN unmarked \cup {n} ELSE unmarked
  /\ UNCHANGED <<childVars, row, tells, carries, journal, digest, reports, flushing, launcherVars,
                 boot, got, tried, skipped, untold, events>>

(* A refused read, or a mark SQLite does not clear, ends the recovery: the *)
(* rows it has not looked at keep their marks for the next boot.           *)
BootFails ==
  /\ boot = "list" \/ listed # {}
  /\ Event
  /\ boot' = "done" /\ listed' = {}
  /\ skipped' = skipped \cup (IF boot = "list" THEN DueWakes ELSE listed)
  /\ UNCHANGED <<childVars, diskVars, memoryVars, deliveryVars, launcherVars, got, tried, unmarked,
                 untold>>

-----------------------------------------------------------------------------
PolicyStep ==
  \/ \E t \in ended : Report(t)
  \/ \E r \in reports : Build(r) \/ Hold(r)
  \/ WindowCloses \/ \E w \in flushing : Coalesce(w)
  \/ BootLists \/ \E n \in listed : BootWakes(n)

Next ==
  \/ \E c \in Children : TurnStarts(c) \/ TurnEnds(c) \/ DigestFires(c)
  \/ PolicyStep
  \/ \E r \in reports : BuildFails(r)
  \/ \E w \in flushing : CoalesceFails(w)
  \/ \E n \in Notices : DeliveryStep(n)
  \/ LauncherStarts \/ LauncherEnds \/ Collect
  \/ \E n \in journal : JournalStartsTurn(n) \/ JournalDropped(n)
  \/ Archive \/ ArchiveTakenBack \/ Crash \/ BootFails

Spec == Init /\ [][Next]_vars

(* The policy's own tasks run, and what they await is answered.            *)
FairSpec ==
  /\ Spec
  /\ WF_vars(PolicyStep)
  /\ WF_vars(\E n \in Notices : DeliveryStep(n))

-----------------------------------------------------------------------------
(* Properties                                                              *)

(* No result is closed before the launcher has it, or a batch row that     *)
(* brings it, over every order of collection, window, delivery and crash.  *)
HasIt(n) == got[n] # {}
ResultsSurvive ==
  /\ \A t \in Turns : row[One(t)] = "delivered" =>
       HasIt(One(t)) \/ \E b \in Turns : t \in carries[b] /\ row[Batch(b)] # "none"
  /\ \A b \in Turns : row[Batch(b)] = "delivered" => HasIt(Batch(b))

(* Each unread row has a wake to come, marked on disk and in somebody's    *)
(* hands, until the one attempt is behind it: also while the launcher is   *)
(* being archived and after the archive is given up.  A recovery that      *)
(* fails leaves its rows, still marked, to the next boot; one that finds   *)
(* an archive under way takes the mark, and nobody gives it back.          *)
InHand(n) ==
  \/ n \in listed \cup journal
  \/ delivery[n] # "none"
  \/ n[1] = "one" /\ \E w \in flushing \cup {held} : n[2] \in w
  \/ n[1] = "one" /\ \E r \in reports : r.of = n[2] /\ r.pc = "hold"
WakesAreOwed ==
  \A n \in Notices : row[n] = "unread" /\ n \notin tried \cup unmarked =>
    due[n] /\ (boot = "list" \/ n \in skipped \/ InHand(n))

(* A result the launcher collected by itself is not brought again by a     *)
(* batch, nor by two.                                                      *)
CarriedOnce ==
  \A a \in Turns : \A t \in carries[a] :
    "inbox" \notin got[One(t)] /\ \A b \in Turns \ {a} : t \notin carries[b]

(* Every turn that ended is told once: by its own notice, in the count of  *)
(* another, or not at all for a reason: an archive, a crash, SQLite.       *)
Over(t) == t[2] <= turn[t[1]] /\ t \notin Current
Tellings(t) ==
  ({"row"} \X {u \in Turns : t \in tells[u]})
    \cup ({"report"} \X {r \in reports : r.pc = "build" /\ t \in r.tells})
    \cup ({"digest"} \X {c \in Children : t \in digest[c].turns})
    \cup ({"ended"} \X ({t} \cap ended)) \cup ({"untold"} \X ({t} \cap untold))
EveryTurnIsToldOnce ==
  \A t \in Turns : IF Over(t) THEN \E way \in Tellings(t) : Tellings(t) = {way}
                            ELSE Tellings(t) = {}

(* A marked row does not stay unread without an attempt, whatever archives *)
(* come and go, unless the boot took its mark or failed before its turn.   *)
WakesAreAttempted ==
  \A n \in Notices :
    []<>(row[n] = "unread" => n \in journal \cup tried \cup unmarked \cup skipped)

(* Stated by the documentation and refuted by the code, see README: a chat *)
(* with a launcher tells it of every turn's end, as long as nothing is     *)
(* archived and SQLite does not fail.                                      *)
OrphansAreTold == untold = {}

(* docs/data.md:27: the mark of a row says that its wake has not been      *)
(* attempted.  An unread result whose wake nobody attempted keeps it, and  *)
(* a launcher that can be woken is woken at the next boot.                 *)
UnattemptedStayMarked ==
  \A n \in Notices : row[n] = "unread" /\ n \notin tried /\ ~archived => due[n]
=============================================================================
