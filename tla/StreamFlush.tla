---------------------------- MODULE StreamFlush -----------------------------
(***************************************************************************)
(* Provider output on its way to SQLite: the flush queue of                *)
(* src/src-tauri/src/providers/flush_queue.rs and the two timers of        *)
(* providers/session_service.rs that empty it, while the provider's reader *)
(* goes on and its exit, a Stop or the failure of its launch ends the turn. *)
(*                                                                         *)
(* A timer's handle and its generation live under two locks, and an abort  *)
(* does not reach a timer that is awake: every lock is a step, except that *)
(* cancel_idle_flush, whose two locks have the reader as their only rival, *)
(* is one.  Chunks of output are numbered as they are accepted.            *)
(***************************************************************************)
EXTENDS Naturals, Sequences, SequencesExt

CONSTANTS
  MaxChunks,   \* bound on the chunks read, and so on the timer tasks alive at a time
  Endings,     \* ways in which a turn may end: "exit", "stop"
  MaxTurns,    \* bound on the turns
  MaxFailures  \* bound on the flushes that SQLite refuses

ASSUME EndingsAssumption == Endings \subseteq {"exit", "stop"}
ASSUME BoundsAssumption == {MaxChunks, MaxTurns, MaxFailures} \subseteq Nat

(* A chunk that ends its line, a piece of plain text, a piece of JSON.      *)
Kinds  == {"line", "text", "json"}
Enders == {"exit", "stop"}
Timers == 1..MaxChunks

VARIABLES
  kind,     \* the chunks of this turn, in the order they were accepted
  raws,     \* pending_raw_outputs: chunks
  rows,     \* pending_events: rows of chunks
  line,     \* stream_buffers: chunks of the line that has no newline yet
  stored,   \* raw outputs in SQLite
  timeline, \* rows in SQLite
  open,     \* the flush queue has the session's entry
  launching, \* the session's entry in `handles' is Pending; its output is accepted already
  turns,    \* turns started
  read,     \* chunks read in all turns
  reader,   \* the reader's progress and the result of queue_output_event
  handle,   \* per timer kind: the id in batch_flush_tasks or idle_flush_tasks; 0: none
  gen,      \* per timer kind: its generation; 0: none
  timer,    \* per timer kind and id: progress and generation
  ender,    \* per way to end the turn: progress
  sealed,   \* the chunks accepted when the last of them began
  lost,     \* history: how ends dropped output that had been accepted when they began
  failures, \* what is left of MaxFailures
  crossed   \* history: a timer was registered between the two locks of cancel_batch_flush

queue    == <<kind, raws, rows, line, stored, timeline>>
timing   == <<handle, gen, timer>>
ending   == <<open, launching, turns, ender, sealed, lost>>
vars     == <<queue, timing, ending, read, reader, failures, crossed>>

TimerKinds  == {"batch", "idle"}
TimerPcs    == {"done", "sleeping", "awake", "stopping", "cancelling", "flushing"}
ReaderPcs   == {"reading", "emitting", "batch", "batch-gen", "idle", "idle-arm"}
EnderPcs    == {"none", "batch-gen", "flush", "flush-final",
                "refused", "settle", "drop", "delete", "done"}
Causes      == {"failed", "launching", "refused", "running"}
ChunkIds    == 1..MaxChunks
Rows        == UNION {[1..n -> ChunkIds] : n \in 1..MaxChunks}

TypeOK ==
  /\ kind \in Seq(Kinds) /\ {raws, line, stored} \subseteq Seq(ChunkIds)
  /\ {rows, timeline} \subseteq Seq(Rows)
  /\ open \in BOOLEAN /\ launching \in BOOLEAN /\ turns \in 0..MaxTurns /\ read \in 0..MaxChunks
  /\ reader \in [pc : ReaderPcs, pending : BOOLEAN, fragment : BOOLEAN, gen : 0..MaxChunks]
  /\ handle \in [TimerKinds -> 0..MaxChunks] /\ gen \in [TimerKinds -> 0..MaxChunks]
  /\ timer \in [TimerKinds -> [Timers -> [pc : TimerPcs, gen : 0..MaxChunks]]]
  /\ ender \in [Enders -> EnderPcs] /\ sealed \in 0..MaxChunks
  /\ failures \in 0..MaxFailures /\ crossed \in BOOLEAN /\ lost \subseteq Causes

Finished == [pc |-> "done", gen |-> 0]
Reader(pc, pending, fragment) ==
  [pc |-> pc, pending |-> pending, fragment |-> fragment, gen |-> 0]

Init ==
  /\ kind = <<>> /\ raws = <<>> /\ rows = <<>> /\ line = <<>> /\ stored = <<>> /\ timeline = <<>>
  /\ open = FALSE /\ launching = FALSE /\ turns = 0 /\ read = 0
  /\ reader = Reader("reading", FALSE, FALSE)
  /\ handle = [k \in TimerKinds |-> 0] /\ gen = [k \in TimerKinds |-> 0]
  /\ timer = [k \in TimerKinds |-> [i \in Timers |-> Finished]]
  /\ ender = [e \in Enders |-> "none"] /\ sealed = 0
  /\ failures = MaxFailures /\ crossed = FALSE /\ lost = {}

-----------------------------------------------------------------------------
(* The flush queue.  Each operation runs under the database writer and the *)
(* queue's lock.                                                           *)

(* flush_session_buffer: one transaction, or everything is put back.       *)
StoresDroppingFailures(newRaws, newRows) ==
  \/ /\ stored' = stored \o newRaws /\ timeline' = timeline \o newRows
     /\ raws' = <<>> /\ rows' = <<>> /\ UNCHANGED failures
  \/ /\ failures > 0 /\ newRaws \o newRows # <<>>
     /\ failures' = failures - 1
     /\ raws' = <<>> /\ rows' = <<>> /\ UNCHANGED <<stored, timeline>>

Refused == failures' < failures

Stores(newRaws, newRows) ==
  \/ /\ stored' = stored \o newRaws /\ timeline' = timeline \o newRows
     /\ raws' = <<>> /\ rows' = <<>> /\ UNCHANGED failures
  \/ /\ failures > 0 /\ newRaws \o newRows # <<>>
     /\ failures' = failures - 1
     /\ raws' = newRaws /\ rows' = newRows /\ UNCHANGED <<stored, timeline>>

FlushPending ==
  IF open THEN Stores(raws, rows) /\ UNCHANGED <<kind, line>> ELSE UNCHANGED <<queue, failures>>

(* is_incomplete_json_line *)
IncompleteJson == line # <<>> /\ kind[line[1]] = "json"

FlushTrailingAll(final) ==
  IF ~open THEN UNCHANGED <<queue, failures>>
  ELSE /\ line' = <<>>
       /\ Stores(raws, IF line = <<>> THEN rows ELSE Append(rows, line))
       /\ UNCHANGED kind

FlushTrailing(final) ==
  IF ~open THEN UNCHANGED <<queue, failures>>
  ELSE LET kept == line = <<>> \/ (IncompleteJson /\ ~final) IN
       /\ line' = IF kept THEN line ELSE <<>>
       /\ Stores(raws, IF kept THEN rows ELSE Append(rows, line))
       /\ UNCHANGED kind

(* queue_output_event: what a line completes is normalized into a row; an  *)
(* error, an approval or the completion is flushed at once.  Output for a  *)
(* session that is gone is dropped.                                        *)
QueueOutput(k) ==
  LET id == Len(kind) + 1
      newLine == Append(line, id) IN
  IF ~open
    THEN /\ reader' = Reader("batch", FALSE, FALSE)
         /\ UNCHANGED <<queue, failures>>
    ELSE /\ kind' = Append(kind, k)
         /\ \/ /\ k # "line"
               /\ raws' = Append(raws, id) /\ line' = newLine
               /\ reader' = Reader("batch", TRUE, TRUE)
               /\ UNCHANGED <<rows, stored, timeline, failures>>
            \/ /\ k = "line"
               /\ raws' = Append(raws, id) /\ rows' = Append(rows, newLine) /\ line' = <<>>
               /\ reader' = Reader("batch", TRUE, FALSE)
               /\ UNCHANGED <<stored, timeline, failures>>
            \/ /\ k = "line" /\ line' = <<>>
               /\ Stores(Append(raws, id), Append(rows, newLine))
               /\ reader' = Reader(IF Refused THEN "reading" ELSE "batch", FALSE, FALSE)

-----------------------------------------------------------------------------
(* Timers *)

(* The handle is taken out and aborted: only a timer that sleeps is gone.  *)
Aborted(k) ==
  IF handle[k] # 0 /\ timer[k][handle[k]].pc = "sleeping"
    THEN [timer EXCEPT ![k][handle[k]] = Finished] ELSE timer
TakeHandle(k) == timer' = Aborted(k) /\ handle' = [handle EXCEPT ![k] = 0]
DropGen(k)    == gen' = [gen EXCEPT ![k] = 0]

(* A task that is done leaves its slot when no handle names it. *)
FreeSlots(k) == {i \in Timers : timer[k][i].pc = "done" /\ handle[k] # i}
NextTimer(k) == CHOOSE i \in FreeSlots(k) : TRUE
Started(k, g) == [timer EXCEPT ![k][NextTimer(k)] = [pc |-> "sleeping", gen |-> g]]

ReaderGoes(pc) == reader' = [reader EXCEPT !.pc = pc]

(* schedule_batch_flush: the handles stay locked; a handle that is there   *)
(* stands for a flush to come.                                             *)
ScheduleBatch ==
  IF handle["batch"] # 0 THEN UNCHANGED <<timing, crossed>>
  ELSE /\ gen' = [gen EXCEPT !["batch"] = @ + 1]
       /\ handle' = [handle EXCEPT !["batch"] = NextTimer("batch")]
       /\ timer' = Started("batch", gen["batch"] + 1)
       /\ crossed' = (crossed \/ (\E i \in Timers : timer["idle"][i].pc = "cancelling")
                               \/ (\E e \in Enders : ender[e] = "batch-gen"))

-----------------------------------------------------------------------------
(* The reader of the provider's PTY and handle_output_event.               *)

Disposed ==  ender["stop"] \in {"delete", "refused", "done"} \/ ender["exit"] # "none"

ReaderGets ==
  /\ reader.pc = "reading" /\ open /\ ~Disposed /\ read < MaxChunks
  /\ read' = read + 1
  /\ ReaderGoes("emitting")
  /\ UNCHANGED <<queue, timing, ending, failures, crossed>>

ReaderQueues ==
  /\ reader.pc = "emitting"
  /\ \E k \in Kinds : QueueOutput(k)
  /\ UNCHANGED <<timing, ending, read, crossed>>

ReaderBatch ==
  /\ reader.pc = "batch"
  /\ IF reader.pending
       THEN ScheduleBatch /\ ReaderGoes("idle")
       ELSE TakeHandle("batch") /\ ReaderGoes("batch-gen") /\ UNCHANGED <<gen, crossed>>
  /\ UNCHANGED <<queue, ending, read, failures>>

ReaderBatchGen ==
  /\ reader.pc = "batch-gen"
  /\ DropGen("batch") /\ ReaderGoes("idle")
  /\ UNCHANGED <<queue, handle, timer, ending, read, failures, crossed>>

(* schedule_idle_flush: a new generation and the old handle aborted, then  *)
(* the new one put in; or cancel_idle_flush.                               *)
ReaderIdle ==
  /\ reader.pc = "idle"
  /\ TakeHandle("idle")
  /\ IF reader.fragment
       THEN /\ gen' = [gen EXCEPT !["idle"] = @ + 1]
            /\ reader' = [reader EXCEPT !.pc = "idle-arm", !.gen = gen["idle"] + 1]
       ELSE DropGen("idle") /\ reader' = Reader("reading", FALSE, FALSE)
  /\ UNCHANGED <<queue, ending, read, failures, crossed>>

ReaderIdleArm ==
  /\ reader.pc = "idle-arm"
  /\ handle' = [handle EXCEPT !["idle"] = NextTimer("idle")]
  /\ timer' = Started("idle", reader.gen)
  /\ reader' = Reader("reading", FALSE, FALSE)
  /\ UNCHANGED <<queue, gen, ending, read, failures, crossed>>

ReaderStep ==
  \/ ReaderQueues \/ ReaderBatch \/ ReaderBatchGen
  \/ ReaderIdle \/ ReaderIdleArm

-----------------------------------------------------------------------------
(* The tasks that schedule_batch_flush and schedule_idle_flush spawn.      *)

TimerAt(k, i, pc)   == timer[k][i].pc = pc
TimerGoes(k, i, pc) == timer' = [timer EXCEPT ![k][i].pc = pc]

TimerWakes(k, i) ==
  /\ TimerAt(k, i, "sleeping")
  /\ timer' = [timer EXCEPT ![k][i] = IF gen[k] = @.gen THEN [@ EXCEPT !.pc = "awake"] ELSE Finished]
  /\ UNCHANGED <<queue, handle, gen, ending, read, reader, failures, crossed>>

(* It removes the handle under its session, whoever's it is by now, and    *)
(* the generation if it is still its own.                                  *)
TimerLeavesKeeping(k, i) ==
  /\ TimerAt(k, i, "awake")
  /\ gen' = IF gen[k] = timer[k][i].gen THEN [gen EXCEPT ![k] = 0] ELSE gen
  /\ TimerGoes(k, i, IF k = "idle" THEN "stopping" ELSE "flushing")
  /\ UNCHANGED <<queue, handle, ending, read, reader, failures, crossed>>

TimerLeaves(k, i) ==
  /\ TimerAt(k, i, "awake")
  /\ handle' = [handle EXCEPT ![k] = 0]
  /\ gen' = IF gen[k] = timer[k][i].gen THEN [gen EXCEPT ![k] = 0] ELSE gen
  /\ TimerGoes(k, i, IF k = "idle" THEN "stopping" ELSE "flushing")
  /\ UNCHANGED <<queue, ending, read, reader, failures, crossed>>

(* The idle task cancels the batch task: cancel_batch_flush has two locks. *)
IdleAborts(i) ==
  /\ TimerAt("idle", i, "stopping")
  /\ timer' = [Aborted("batch") EXCEPT !["idle"][i].pc = "cancelling"]
  /\ handle' = [handle EXCEPT !["batch"] = 0]
  /\ UNCHANGED <<queue, gen, ending, read, reader, failures, crossed>>

IdleDropsBatchGen(i) ==
  /\ TimerAt("idle", i, "cancelling")
  /\ DropGen("batch") /\ TimerGoes("idle", i, "flushing")
  /\ UNCHANGED <<queue, handle, ending, read, reader, failures, crossed>>

TimerFlushes(k, i) ==
  /\ TimerAt(k, i, "flushing")
  /\ IF k = "batch" THEN FlushPending ELSE FlushTrailing(FALSE)
  /\ timer' = [timer EXCEPT ![k][i] = Finished]
  /\ UNCHANGED <<handle, gen, ending, read, reader, crossed>>

TimerStep(i) ==
  \/ \E k \in TimerKinds : TimerWakes(k, i) \/ TimerLeaves(k, i) \/ TimerFlushes(k, i)
  \/ IdleAborts(i) \/ IdleDropsBatchGen(i)

-----------------------------------------------------------------------------
(* The exit event of the process and the termination job of a Stop.        *)

EnderGoes(e, pc) == ender' = [ender EXCEPT ![e] = pc]
Terminating      == ender["stop"] \notin {"none", "done"}

(* initialize_session of the next send, which puts a Pending entry into     *)
(* `handles' before; the timers' maps are not touched.                     *)
TurnStarts ==
  /\ ~open /\ turns < MaxTurns /\ reader.pc = "reading"
  /\ \A e \in Enders : ender[e] \in {"none", "done"}
  /\ open' = TRUE /\ launching' = TRUE /\ turns' = turns + 1
  /\ ender' = [e \in Enders |-> "none"] /\ UNCHANGED <<queue, sealed, lost>>
  /\ UNCHANGED <<timing, read, reader, failures, crossed>>

(* The spawned launch swaps the Pending entry for the provider's handle.   *)
LaunchResolves ==
  /\ launching /\ launching' = FALSE
  /\ UNCHANGED <<queue, timing, open, turns, ender, sealed, lost, read, reader, failures, crossed>>

(* delete_session drops what is still buffered.                            *)
Drops(cause) ==
  /\ open' = FALSE /\ launching' = FALSE
  /\ kind' = <<>> /\ raws' = <<>> /\ rows' = <<>> /\ line' = <<>> /\ stored' = <<>> /\ timeline' = <<>>
  /\ lost' = IF \E i \in 1..sealed : i \notin ToSet(stored) THEN lost \union {cause} ELSE lost
  /\ sealed' = 0

(* The launch fails, unless somebody took its entry: record_launch_failure. *)
LaunchFails ==
  /\ launching
  /\ Drops("failed")
  /\ UNCHANGED <<timing, turns, ender, read, reader, failures, crossed>>

(* The wait thread emits the exit once the reader has ended or after 5 s,  *)
(* unless the process was disposed of.  Either way cancel_stream_flushes   *)
(* comes first; an exit then looks at the terminating marker.              *)
EnderBegins(e) ==
  /\ open /\ ender[e] = "none" /\ ender["stop"] \notin {"refused", "delete"}
  /\ TakeHandle("batch") /\ EnderGoes(e, "batch-gen")
  /\ sealed' = Len(kind)
  /\ UNCHANGED <<queue, gen, open, launching, turns, lost, read, reader, failures, crossed>>

(* A Stop takes the entry out of `handles' next, and flushes only if it     *)
(* found the handle of a provider there.                                   *)
EnderCancels(e) ==
  /\ ender[e] = "batch-gen"
  /\ gen' = [k \in TimerKinds |-> 0]
  /\ timer' = Aborted("idle") /\ handle' = [handle EXCEPT !["idle"] = 0]
  /\ \/ e = "stop" /\ EnderGoes(e, IF launching THEN "drop" ELSE "flush") /\ launching' = FALSE
     \/ /\ e = "exit" /\ EnderGoes(e, IF Terminating THEN "flush" ELSE "flush-final")
        /\ UNCHANGED launching
  /\ UNCHANGED <<queue, open, turns, sealed, lost, read, reader, failures, crossed>>

EnderSkipsFlush(e) ==
  /\ ender[e] \in {"flush", "flush-final"}
  /\ EnderGoes(e, IF ender[e] = "flush" THEN "delete" ELSE "settle")
  /\ UNCHANGED <<queue, timing, open, launching, turns, sealed, lost, read, reader, failures, crossed>>

EnderFlushes(e) ==
  /\ \/ ender[e] = "flush" /\ FlushTrailing(FALSE) /\ EnderGoes(e, IF Refused THEN "refused" ELSE "delete")
     \/ ender[e] = "flush-final" /\ FlushTrailing(TRUE) /\ EnderGoes(e, IF Refused THEN "refused" ELSE "settle")
  /\ UNCHANGED <<timing, open, launching, turns, sealed, lost, read, reader, crossed>>

(* An exit that finds a Stop leaves it the entry; one whose flush was       *)
(* refused returns early.  A Stop goes on, and what SQLite refused it, or  *)
(* it did not flush, is gone.                                              *)
EnderDeletes(e) ==
  /\ \/ ender[e] \in {"settle", "delete"} /\ ~(ender[e] = "settle" /\ Terminating)
     \/ e = "stop" /\ ender[e] \in {"refused", "drop"}
  /\ Drops(CASE ender["stop"] = "drop"    -> "launching"
             [] ender["stop"] = "refused" -> "refused"
             [] OTHER                     -> "running")
  /\ EnderGoes(e, "done")
  /\ UNCHANGED <<timing, turns, read, reader, failures, crossed>>

ExitReturns ==
  /\ ender["exit"] = "refused" \/ (ender["exit"] = "settle" /\ Terminating)
  /\ EnderGoes("exit", "done")
  /\ UNCHANGED <<queue, timing, open, launching, turns, sealed, lost, read, reader, failures, crossed>>

EnderStep(e) == EnderCancels(e) \/ EnderFlushes(e) \/ EnderDeletes(e)

Next ==
  \/ TurnStarts \/ LaunchResolves \/ LaunchFails \/ ReaderGets \/ ReaderStep \/ ExitReturns
  \/ \E i \in Timers : TimerStep(i)
  \/ \E e \in Endings : EnderBegins(e)
  \/ \E e \in Enders : EnderStep(e)

Spec == Init /\ [][Next]_vars

-----------------------------------------------------------------------------
(* flush_session_buffer and the line buffers: whatever timers, failures    *)
(* and the end of the turn do, every chunk that was accepted is stored or  *)
(* waits once, in order, and every row counts on from where the one before *)
(* it ended, up to the open line, which ends with the last chunk.          *)
CountsFrom(s, n) == \A i \in 1..Len(s) : s[i] = n + i
EndOf(rs, r) == IF r = 0 THEN 0 ELSE rs[r][Len(rs[r])]
NothingLost ==
  open => LET all == timeline \o rows
              end == EndOf(all, Len(all)) IN
    /\ stored \o raws = [i \in 1..Len(kind) |-> i]
    /\ \A r \in 1..Len(all) : all[r] # <<>> /\ CountsFrom(all[r], EndOf(all, r - 1))
    /\ CountsFrom(line, end) /\ end + Len(line) = Len(kind)

(* is_incomplete_json_line: a flush in the middle of the output never cuts *)
(* a protocol line; only the exit of the process, after which the rest     *)
(* cannot come, turns a part of a line into a row.                         *)
ProtocolLinesWhole ==
  \A row \in ToSet(timeline \o rows) :
    kind[row[1]] = "json" /\ kind[row[Len(row)]] # "line" => ender["exit"] # "none"

(* session_service.rs:124: process exit and cancellation force a flush.    *)
(* What had been accepted when the exit or the Stop of a provider that has *)
(* been launched began is in SQLite when the entry is gone, unless SQLite  *)
(* refused the last flush of a Stop.                                       *)
RunningEndStoresOutput == "running" \notin lost

(* The same of every exit and every Stop.  Fails: a provider may write      *)
(* before its launch has returned, and a Stop that finds the launch pending *)
(* flushes nothing.                                                        *)
EndStoresOutput == lost \subseteq {"failed", "refused"}

(* session_service.rs:117: output waits for one window at most.  Whenever  *)
(* something waits, a task that will flush it is on its way: the reader    *)
(* about to register a timer, a timer that nobody can abort or that the    *)
(* maps still know, or the end of the turn.                                *)
WillFire(k, i) ==
  \/ timer[k][i].pc \in {"awake", "stopping", "cancelling", "flushing"}
  \/ timer[k][i].pc = "sleeping" /\ handle[k] = i /\ timer[k][i].gen = gen[k]
OneWindowAtMost ==
  open /\ raws # <<>> =>
    \/ reader.pc = "batch" /\ reader.pending
    \/ \E i \in Timers, k \in TimerKinds : WillFire(k, i)
    \/ \E e \in Enders : ender[e] \notin {"none", "done"}

(* The same, unless SQLite refused a flush or a timer was registered       *)
(* between the two locks of cancel_batch_flush.                            *)
FlushComes == failures < MaxFailures \/ crossed \/ OneWindowAtMost
=============================================================================
