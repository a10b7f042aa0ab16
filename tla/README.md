# TLA+ models of argmax

argmax is a desktop app that runs coding agents (Claude Code, Codex, Cursor, OpenCode, Grok) in
git worktrees. A Rust core (`src/src-tauri/src`) owns the sessions, the provider processes and a
SQLite database; a TypeScript window (`src/src/renderer`) and a phone app show them. The core is
concurrent: Tauri commands, one task per spawn and per termination, process wait threads, drain
tasks and schedulers share a few mutex-guarded maps and one SQLite writer.

This directory models the parts of that core in which the order of steps decides whether the app
is right, checks them with TLC, and proves their safety with TLAPS.

| module | models | checked by | proved in |
|---|---|---|---|
| `ProviderTurn` | the life of a session's turns: relaunch, spawn, exit, Stop | `MCProviderTurn` | `ProviderTurn_proofs` |
| `FollowUpDelivery` | how a message to a busy session reaches it, exactly as often as it should | `MCFollowUpDelivery` | `FollowUpDelivery_proofs` |
| `ProviderRequests` | approvals and questions of a turn against its end | `MCProviderRequests` | `ProviderRequests_proofs` |
| `AfterTurn` | the archive or move an agent schedules for the end of its turn | `MCAfterTurn` | `AfterTurn_proofs` |
| `ExclusiveUse` | what the archive gate promises about a worktree | - | `WorkspaceArchive_proofs` |
| `WorkspaceArchive` | archiving a worktree while others attach processes and rows to it; implements `ExclusiveUse` | `MCWorkspaceArchive` | `WorkspaceArchive_proofs` |
| `StreamFlush` | a turn's output on its way to SQLite, past two timers | `MCStreamFlush` | `StreamFlush_proofs` |
| `CompletionNotices` | how a chat hears of the end of the chats it launched | `MCCompletionNotices` | `CompletionNotices_proofs` |
| `DashboardDelivery` | how a committed change reaches the window | `MCDashboardDelivery` | `DashboardDelivery_proofs` |

To run one: `tlc -config turn_lifecycle.cfg MCProviderTurn`; `tlapm ProviderTurn_proofs.tla`.
`PROJECT.json` lists components, runs, the line ranges every definition translates, the mutants
that show each property can fail, hazards, findings and theorems.

The modules meet where the code does. `ProviderTurn` has the steps of a relaunch, an exit and a
Stop one by one; `FollowUpDelivery`, `ProviderRequests`, `StreamFlush` and `AfterTurn` take
those of them together that their own state does not see between, and detail what happens to the
queue, the requests, the output and the disposal at each. An `AfterTurn` disposal triggers the
archive of `WorkspaceArchive`; a row of `CompletionNotices` ends in the queue of
`FollowUpDelivery`; every commit of any of them is an update of `DashboardDelivery`.

## Inventory

### Provider turns — `providers/session_service.rs`, `providers/runtime.rs`

* State: `handles` (per session: nothing, `Pending`, or a resolved handle), the flush queue's
  current invocation id, `sessions.state`, `send_generations`, `terminating`,
  `termination_jobs`, per-checkout write locks.
* Operations: `launch`, `send_input_scoped`, `spawn_provider_in_background`,
  `handle_provider_event` / `handle_lifecycle_event`, `terminate` with `start_termination` and
  `finish_termination`, `recover_orphaned_sessions`.
* Interactions: every user command and every agent tool ends in a send or a Stop; the exit of a
  turn drains the follow-up queue, cancels approvals and questions, writes completion notices,
  drives goals and routines.
* Hard: four kinds of task change `handles` without a common lock; state is read before an await
  and used after it; a Stop may begin at any of these points.
* Correct when: a Stop leaves a settled session; a send never overlaps a Stop; an entry is never
  replaced by another turn's; no process is out of reach; every turn settles. Modelled by
  `ProviderTurn`.

### Follow-ups, steering and the inbox — `session_service.rs`, `persistence/pending_messages.rs`, `persistence/session_messages.rs`, `session_control/actions/messaging.rs`, `multitask.rs`

* State: `pending_messages` (delivery state per row) and the queue in memory,
  `queue_promotions`, `session_messages` (the inbox of agents).
* Operations: enqueue, drain after a turn, recheck, Send now, steer, multitask, cancel, pause
  after a failure, Stop and `/clear`, `inbox_read`, recovery at startup.
* Hard: one message may arrive as a turn, by steering, through the inbox or in a sibling chat;
  promotions, drains, Stops and crashes meet on one row.
* Correct when: no message is lost, none reaches a model twice, nothing is sent that a failure
  parked or a person discarded, no row stays hidden or stranded. Modelled by `FollowUpDelivery`.

### Dashboard delivery — `lib.rs`, `renderer/hooks/useDashboardSession.ts`, `renderer/lib/sessionTimelines.ts`

* State: a bounded channel, a byte budget, a resync flag and a generation; in the window, the
  read under way per feed and the recovery.
* Operations: `send`, `require_resync`, the worker with `prepare_dashboard_batch`, `onDelta`,
  `loadMetadata`, `loadHintedSession`, `recoverDashboard`.
* Hard: flag, generation and channel are three atomics that producers and the worker change in
  different orders; hints are dropped on purpose.
* Correct when: whatever is dropped, the window ends up showing what is committed. Modelled by
  `DashboardDelivery`. The terminal queue beside it blocks its producers and cannot lose
  anything; it is not modelled.

### Workspace gate and archive — `workspaces/lifecycle.rs`, `workspaces/orchestration.rs`, `terminal/service.rs`, `checks/service.rs`, `session_service.rs`

* State: per workspace the row's state in SQLite, the gate's entry in memory (open, archiving,
  failed, archived, with a count of admissions), the worktree itself; several rows may share one
  worktree, which one of them owns.
* Operations: `admit`, `begin_archive`, `finish_archive`, `reopen`; `archive_with` with abandon,
  decline and failure; `archive_shared` and its background teardown; `keep`;
  `recover_interrupted_archives`; terminals, checks and sends that attach a process; launches
  and multitasks that add a row.
* Hard: row and gate are changed one after the other and read in either order; the archive
  awaits at every step; rows are added to the checkout by others.
* Correct when: nothing is attached to a worktree that is being moved; a row offered for work is
  open; no row is left behind on a path that is gone; an archive ends. Modelled by
  `WorkspaceArchive`.

### Output — `providers/flush_queue.rs`, the flush timers of `session_service.rs`

* State: per session the raw outputs and events that wait, the open line of each stream, the
  current invocation; per timer kind a task handle and a generation, under two locks.
* Operations: `queue_output_event`, `flush_pending`, `flush_trailing`, `schedule_batch_flush`,
  `schedule_idle_flush` and their cancellations, `delete_session`.
* Hard: a timer that is awake cannot be aborted; the reader registers the next one meanwhile;
  SQLite may refuse a batch; a turn ends with half a line buffered.
* Correct when: what was accepted is stored once and in order, a protocol line is not cut, the
  end of a turn stores the rest, nothing waits for ever. Modelled by `StreamFlush`.

### Requests of a turn — `approvals/service.rs`, `questions/service.rs`, the adapters' drivers

* State: a responder per waiting request in memory, the approval's row or the question's card in
  SQLite, the state of the session, the driver's own request tasks.
* Operations: register, resolve, cancel a request, cancel a session's, recovery at startup.
* Hard: an answer, the provider's withdrawal, the exit, a Stop, the next turn and a crash may
  meet at one request; a Stop waits for a provider that may itself wait for an answer.
* Correct when: the record says what the provider was told, no request waits out of reach, no
  card outlives its turn, an ended session stays ended. Modelled by `ProviderRequests`.

### After-turn slot — `session_control/registry.rs`, `actions/move_archive.rs`, `actions/resume.rs`, `persistence/after_turn.rs`

* State: one scheduled disposal per session, as a map entry and as a row; a sender that tells
  its task that the turn settled.
* Operations: schedule, check the queue, insert; signal, cancel, release; run an archive or a
  move; resume at startup; refuse follow-ups meanwhile.
* Hard: map and row change under two locks taken in both orders; Stops, failed Stops and crashes
  meet every step.
* Correct when: what an agent was told is scheduled happens or is called off, across crashes,
  and no follow-up is queued behind it. Modelled by `AfterTurn`.

### Completion notices — `providers/completion_notices.rs`, `persistence/session_messages.rs`

* State: rows in the launcher's inbox with a wake mark; in memory the quiet window of each
  launched chat, the coalescing window of each launcher, one task per delivery.
* Operations: `turn_ended`, the digest's timer, `build_completion_notice`, `hold_for_batch`,
  `flush_batch` with `coalesce`, `start_delivery`, `recover_pending_wakes`, `inbox_read` and
  `session_wait`.
* Hard: the launcher may collect a result while its window closes or its wake is under way; all
  windows and tasks die with the app.
* Correct when: no result is lost or brought twice by a batch, each is owed a wake until one was
  attempted, each turn is told once. Modelled by `CompletionNotices`.

### Not modelled

| component | state and operations | why not |
|---|---|---|
| Routines (`routines/scheduler.rs`) | due rows in SQLite, an in-memory run guard, a tick that claims, fires and settles | a small protocol of its own over a send; what it drives is modelled. The hazard it has (a tick that fires again while its run still settles, `scheduler.rs:86`) is the first thing to model next |
| Goals (`goals/service.rs`) | a loop of judge and send | sequential per session over the modelled send |
| Conversation continuity, fork merge | which native conversation a turn resumes | data carried by a turn, not an order of steps |
| Provider adapters and protocols | five external protocols | translation; seen by the service as launch, steer, request, exit, terminate, which `ProviderTurn`, `FollowUpDelivery` and `ProviderRequests` have |
| Workspace creation and watching, terminals, checks, checkpoints, session moves | git, file system and PTY work | I/O; their admission belongs to the archive gate |
| Persistence | SQLite transactions, migrations, cursors | used as atomic steps by the models; a migration runs once and alone |
| Remote access, sync | network transports of the same commands and deltas | external peers |
| GitHub (`gh/`) | polls and calls of an external command line | classification of answers; its messages take the paths of `FollowUpDelivery` |
| Routing, usage, notifications, visualizations, browser, phone app | reports, classification, views | no protocol state they share with the parts above |

## ProviderTurn

One session: every map of the service is keyed by session. A step is one critical section of the
code, so whatever the code may do between two lock acquisitions or two awaits may interleave
here.

| actions | code |
|---|---|
| `SendBegin`, `SendRoute`, `SendAborts`, `SendStartTurn`, `SendClaim` | `send_input_scoped`: capture the generation, decide under the checkout lock, check again after routing, write the turn, insert `Pending` |
| `SpawnLaunch`, `ProcessStart`, `SpawnError`, `SpawnRecordFailure`, `SpawnSwap`, `SpawnDispose` | `spawn_provider_in_background` and the launcher's thread |
| `ProcessExit`, `ExitAdmit`, `ExitCheck`, `ExitCommit`, `ExitRemoveHandle`, `ExitDeleteFlush` | the wait thread, `handle_provider_event`, `handle_lifecycle_event` |
| `StopBegin`, `StopClaim`, `StopDispose`, `StopPersist`, `StopUnmark`, `StopRetire` | `start_termination`, `finish_termination` |

`CheckoutFree`, `GenerationFree` and `WriterFree` are the locks held across several of these
steps. `Dropped(entry)` is the `Drop` of a handle: it terminates the process and suppresses its
exit event.

Left out, and why: SQLite writes succeed (a failing write would be an alternative of almost
every action; the one place where it matters, a Stop whose `clear_queue` fails, is named under What is
left); the first `launch` of a chat, whose spawn is the same task: `Init` is a settled
session; waiting and blocked states; Cursor's early completion; flushing of buffered output;
writing to a live process's input, which no provider handle accepts. The Codex watcher may hold
another reference to a handle for a moment, in which case a drop does not kill at once; the
model has the behaviour of the Claude and PTY handles.

Fairness (`FairSpec`): spawned tasks, the exit callback and the termination job are owned by the
runtime and their awaits have timeouts, so each finishes. Nothing is assumed of users or of a
send that is still being routed. `EveryTurnSettles` adds `ProviderExits`: a provider's own turn
is finite.

### Runs

* `turn_lifecycle` (two senders, two turns, two Stops, `SettlingSpec`; 791,407 states). Two
  turns are what an old turn's late steps need to meet a new one; two Stops, what a joined
  termination needs. `StopExcludesSend`: a send whose generation is current never overlaps a
  Stop, so the second `PROVIDER_TERMINATING` check, after the turn is written, cannot fire.
  `RelaunchNeverClobbers`: the handles map stays empty from the routing decision to the
  insertion, an await apart. `StopSettlesTurn`: when a Stop may be reported finished the session
  is not running. `NoOrphanProcess`: a live process is held by the map, a Stop or its spawn
  task. `StopCompletes`: the marker that makes every send fail is always cleared.
  `EveryTurnSettles`: an exit, a failed launch and a Stop may overlap in any order and each
  leave the outcome to another, and still the session settles, unless the tasks of two turns
  overlap (`TurnsOverlap`): a stale spawn takes the entry of the next turn, or a stale exit
  clears the invocation of the next turn, whose own exit is then dropped as stale. In both the
  session stays running until a Stop.
* `turn_stale_spawn` (violation of `ServesNewestTurn`): see Findings.

### Proofs

`ProviderTurn_proofs` proves, for any set of senders and any bounds: `TypeCorrect`,
`StopsExcludeSends`, `RelaunchesNeverClobber`, `StopsSettleTurns`, `NoOrphans`. The only
assumption is that the bounds are natural numbers.

None of the four invariants is inductive. `IInv` adds three facts:

* `GenerationsGrow`: no sender holds a generation newer than the session's, so that advancing it
  does cancel every sender. Without it, `StopBegin` could make an old generation current again
  and `StopExcludesSend` would not survive it.
* `OneCheckoutHolder`: the checkout lock has one holder. Without it, the insertion of one send
  would break `RelaunchNeverClobbers` for another.
* `FreshTurns`: a turn that has not been claimed has no spawn task, process or exit. Without it,
  `SendClaim` could overwrite the spawn phase that keeps a live process reachable.

There is one lemma per conjunct of `IInv`, each by cases on the action; `Inductive` puts them
together. `StopSettlesTurn` rests on `StopExcludesSend`: the only write of `running` is a
send's, and a send past its last check excludes a Stop.

Liveness under fairness is beyond the prover and stays with TLC.

## FollowUpDelivery

One session and its journal. A row is visible (`pending`, `recovered`, `unknown`), `launching`,
or `deleted`; the queue in memory holds exactly the visible rows, since each operation changes
both with the database writer held. A message that is queued again while a row of it is being
delivered gets a fresh row: rows are message copies.

| actions | code |
|---|---|
| `Submit`, `SendFails`, `SendStartsTurn`, `SendFindsHandle`, `SendEnqueue`, `SendSteers`, `SendCloses` | `session_message`, `send_input_scoped`, `enqueue_pending_message` |
| `Recheck`, `DrainPop`, `DrainNothing`, `DrainAdmit`, `DrainFinish` | `drain_queue_if_turn_ended`, `drain_queue_after_complete`, `pop_next_undelivered` |
| `ClaimCapture`, `ClaimFails`, `ClaimStartsTurn`, `ClaimFindsHandle`, `ClaimRequeue` | the send of a claimed row |
| `Pick`, `CancelQueued`, `PromoteAdmit`, `PromoteResume`, `PromoteFinish`, `Multitask*`, `Steer*` | `promote_queued_message`, `steer_queued`, `dispatch_queued`, `cancel_queued` |
| `CollectTake`, `CollectReconcile` | `inbox_read` and the removal of the queue copies |
| `Launched`, `LaunchFails`, `TurnEnds`, `StopBegin`, `StopClear`, `StopFinish`, `ClearIdle`, `Crash` | turns, `terminate`, `clear`, `recover_pending_messages` |

Abstractions: turns are those of `ProviderTurn` with the steps of a relaunch, an exit and a Stop
taken together where locks keep the queue out. Positions are left out, so a drain takes any
pending row, which allows more orders than the code. The queue's size limit and the size limits
of the inbox are left out. The guard of a failing promotion is released and its row restored in
one step. The two delivered-checks of a drain are one (`DrainAdmit`). Whether a sender's
provider was live when it was routed is left open (`SteersAtOnce`). A lost acknowledgement of a
steer may or may not have reached the model. `SendsRefused` stands for the refusals not modelled
here, such as an archiving workspace.

History variables: `got`, how often each message reached a model by each route; `settled`, what
was decided about it: dropped by a person or refused to its sender, resent, parked by a failed
turn, or uncertain.

Fairness: the app's own tasks finish and what they await is answered or times out. Nothing is
assumed of users, agents, turns or crashes. A crash loses everything but the database.

### Runs

* `queue_safety` (a person's and an agent's message, two copies each, every operation, one
  action of the user, one Stop, one crash; 3,115,851 states). One of each kind of message shows
  every meeting of the two; two copies let a message be queued again once while it is delivered.
  `ClaimsOwned`: a hidden row has a task that will delete it or put it back, and the guard that
  keeps drains out has a holder. `Retained`: after its sender returned, a message has reached a
  model, or waits, or a person dropped it, or its steer is uncertain. `SteerXorInbox`: a message
  steered into a turn is not also collected. `PersonOnce`: a person's message reaches a model
  once, by whatever route and across crashes, unless a row marked delivery-unknown is sent
  again. `TakenClosesInbox`: a message that started a turn has left the inbox, until a person
  picks one or the app crashes. `ParkedStays`: what a failed turn parked starts no turn until a
  person picks it; for a person's messages, and not once a delivery-unknown row of the message
  was sent again: that copy may start its turn while another one is parked, which takes three
  copies of one message to happen.
* `queue_liveness` (one person's message, three copies, three actions, two Stops, two crashes,
  no refusals, `FairSpec`; 245,360 states). `HiddenRowsReappear`: a claimed row does not stay
  hidden, whatever Stops and crashes meet the promotion. `QueueDrains`: no pending row stays
  behind in an idle session: the recheck of the sender and the drain of the turn's end between
  them never miss a row, in runs that no person's pick and no crash disturbs (`Undisturbed`).
  Sends are not refused here, since a refused drain is put back without another drain, by
  design.

The exceptions are disagreements with the documentation; see Findings.

### Proofs

`FollowUpDelivery_proofs` proves every safety property of the runs for any messages, copies and
budgets: `TypeCorrect`, `HiddenIsOwned`, `SteeredOrCollected`, `OncePerPerson`,
`MessagesAreRetained`, `ParkedMessagesRest` and `TakenMessagesClose`. The proof has two layers.
The inductive invariant of the first (theorem `Invariant`) is

    IInv == NamedTypes /\ SenderFirst /\ InboxOpened /\ ClaimShape /\ ClaimsOwned
            /\ SteeredOnce /\ SteerXorInbox /\ OneCarrier

* `ClaimsOwned` needs `ClaimShape` (what each kind of claim remembers at each of its points) and
  the types.
* `SteerXorInbox` rests on `SteeredOnce` (a message is steered by one claim, once) and on
  `InboxOpened` (only what was delivered through the inbox is open in it).
* `PersonOnce` rests on `OneCarrier`: until a message reaches a model, one thing at most can
  bring it there: its sender, one row, or one claim. `SenderFirst` says that the sender goes
  before any row. `OneCarrier` speaks of agents' messages too, whose turns and siblings alone are
  counted (`Tally`): `Retained` and `TakenClosesInbox` need it of them.

The second (theorem `LedgerHolds`) is what a message still has to its name:

    Ledger == OnPaths /\ (\A m \in Msgs : Safe(m) \/ Kept(m)) /\ ParkedRests /\ Bounded /\ CalmUntil

* `Retained` rests on `Kept`: a message that no model has and nobody gave up has a visible row,
  or a hidden one whose claim can still put it back, and its inbox row is closed only by a steer
  that is being asked. That a row exists is not enough: a claim that was spent must be seen to
  leave another row behind.
* `ParkedStays` rests on `ParkedRests`: no row of a parked message is `pending`, its sender has
  left, and the only claim that may hold it is that of a person's steer.
* `TakenClosesInbox` rests on `CalmUntil`: until a person picks a row or the app crashes, only
  drains and senders deliver an agent's message, and whoever started a turn with it is about to
  close its inbox row. `OnPaths`, each claim is at a point of its own maker's code, is what tells
  them apart.

Some thirty actions change some fifteen variables, so the proof has a layer in between: the
effect of each helper is a lemma; the type lemmas follow from those; `Kinds` sorts every step
into a dozen kinds (takes a row, retires it, restores it, delivers it, ...), and each conjunct
has one lemma by cases on the kinds. Only checked: the liveness.

## DashboardDelivery

Every atomic load, swap and channel call of `send`, `require_resync` and
`prepare_dashboard_batch` is a step (`Send*`, `Resync*`, `Worker*`), because the code relies on
their order. The byte budget refuses any delta, at most `MaxRefusals` times, which covers a
delta that is too large by itself. A batch ends when it is large enough, which is left open. A
hint names one feed. `Emit` is the main-thread emit, its acknowledgement and `onDelta`, whose
handling does not depend on when it runs. In the window, `Asks` is the one-read-at-a-time rule
of `loadMetadata` and `loadHintedSession`; `valid` is the ticket that `invalidate` rejects; the
pages of a long read are one read; the start of a recovery is a step of its own. Reads the user
causes by selecting a chat or returning to the window only add to what is read and are left out,
and so is the initial load: `Init` is a window that shows what is committed.

Fairness: a send that has begun, the worker, and the window's reads and recovery finish; nothing
is published and nothing fails by fairness.

* `push_catches_up` (two producers, a queue of one, one chat and the dashboard, three updates,
  one refusal, one failed read; 1,795,832 states): `QuietCaughtUp`, when nothing is under way
  the window shows what is committed, and `WindowCatchesUp`, it gets there, except after the
  accidents below. A queue of one overflows with every second hint, so three updates overflow it
  twice, once while the worker recovers from the first.

The accidents are the recovery that never comes (`Stuck`, `OverflowRecovers`) and `wakeLost`:
the Wake of an overflow whose flag was already served is refused by a full queue, or taken out by
a batch under way that is no marker. Findings describes them. A Wake in the model remembers
whether its sender advanced the generation; only the history variable looks at that. The worker
forgets its item, generation and batch when it has emitted, since it never looks at them again.

### Proofs

`DashboardDelivery_proofs` proves `TypeCorrect` and `QuietWindowsAreCaughtUp` for any producers,
feeds, capacity and budgets. What is true of a window at rest is not inductive; the invariant
says, of every feed that is behind, who is on the way:

    IInv == NamedTypes /\ WorkerShape /\ WindowShape /\ LateBatch /\ Owed
    Owed == ~wakeLost => \A f \in Feeds : Delivering(f) \/ Fresh(f)

* `MarkerComes` (part of `Delivering`): a marker is on its way for all feeds: the flag is up, the
  worker has taken it down and not emitted yet, a producer is about to raise it or to advance the
  generation, or the Wake of one that advanced it is still to be sent or in the queue. This is
  where `wakeLost` enters: it is exactly the step after which none of these holds.
* `Carries`, `Sends`: a hint is with its producer, in the queue, put off or in the batch, under
  the generation of the moment; one of an older generation counts for nothing, which is why the
  generation may advance only while a marker comes.
* `LateBatch`: a batch begun before the generation advanced, which passes newer hints over, has
  a marker behind it. Without it, the worker could drop a hint that `Carries` relies on.
* `Fresh`: the feed is shown as committed, or a recovery or a read that has not yet looked at the
  database is on the way, or an answer that will be shown has the newest revision. `WindowShape`
  adds that an answer is never older than what is shown.

Only checked: `WindowCatchesUp`.

## WorkspaceArchive

One row owns the worktree; the guests are rows on the same checkout. Every read or write of the
row, every call of the gate and every await of the archive is a step.

| actions | code |
|---|---|
| `ClientLooks`, `CommandAdmitted` | terminals and checks: the row is read, then (for a check, after the checkout lock) the gate is asked |
| `ClientAdmitted`, `AdmittedLooks` | sends of a provider and `create_in_checkout`: admitted first |
| `ProcessStarts`, `ProcessRuns`, `ProcessWrites`, `ProcessEnds` | registration of the process, end of the admission, its effect on the tree |
| `LaunchAddsRow`, `MultitaskAddsRow` | `create_in_checkout` with its admission on the owner, `create_alongside` without |
| `Archive*` | `archive_with`, one action per stretch between awaits; `Fails`, `Abandons`, `Declined` and `Done` are its ways out, which write the row and then hand the lease back |
| `GuestArchived`, `GuestTornDown` | `archive_shared` and its background teardown |
| `Keep`, `Crash` | `keep`; loss of the gates and `recover_interrupted_archives` |

Abstractions: the admissions of an entry are the clients that hold one. A client whose process
fails to start is one whose process ends at once. A quiescence that fails leaves every process
as it was: the jobs that go on ending them are `ProcessEnds`. Of failing row writes only that of
the last step is modelled. A guest's archive, which has no await before its row and gate are
settled, is one step. What a lease read is forgotten once it cannot matter. The removal of a
merged checkout (the same protocol with deletion in place of the move), metadata cleanup,
watchers and archives of scratch chats are left out. `keep` comes at any time and for any state
but `archiving`: it is a command of the interface that no button of the current window calls.

`overruled` records that `keep` changed the row while an archive held the lease, or after the
tree was moved. The code does not exclude either (see Findings), and the properties that it
would break except it.

Fairness (`FairSpec`): an archive that holds its lease goes on, since each of its awaits has a
timeout. Nothing is assumed of requests that hold an admission.

* `archive_gate` (one launched and one dispatched guest, two archives, two requests, one keep or
  crash; 1,176,906 states). Two archives are what a retry, a stale read of the row and a refused
  lease need; two requests, what an entry with two admissions and a busy guest need.
  `KeepsPromise`: row, gate and archive together implement `ExclusiveUse` (below).
  `UsableRowIsOpen`: after abandon, decline, keep and recovery a row offered for work is
  admitted. `LaunchedRowsGoDown`: the alternative that the comment in `create_in_checkout`
  states, refused or archived with the owner, unless `keep` overruled the archive: with a third
  archive and one `keep`, a launch is admitted under the retried archive (see Findings). `ArchivesEnd`: the lease is handed back even if an
  admission never is.

### The abstract specification

`ExclusiveUse` says what the gate is for, without rows, leases or awaits: users enter a tree
that is open and leave it; a mover closes it, waits for the requests and ends the processes, and
then moves it or retreats. `WorkspaceArchive` maps to it with `INSTANCE ... WITH`: the users are
the requests that hold an admission and the processes that run; the tree is closed while an
archive holds the lease and moved once the archive moved it. A step of the archive is a step of
`ExclusiveUse` or a stutter as long as `keep` did not overrule it. `AloneIsAlone` (once unused, a
closed tree stays unused) and `GoneIsUnused` (nobody uses a moved tree) show what a mover may
rely on; they are proved from `KeepsPromise` alone, whatever implements it.

### Proofs

`WorkspaceArchive_proofs` proves for any guests, requests and archives: `TypeCorrect`;
`Implements`, which is `KeepsPromise`; `ArchivesAreSingle` (one call holds the lease at a time),
`ArchivesAreAlone` (from the end of the quiescence to the move, no process is left in the owner
and no request that could still start one, however early it read the row), `MovedTreesAreUnused`
(no process of the owner runs after the move, over failures to record it, retries and restarts)
and `UsableRowsAreOpen`. The invariant is `TypeOK /\ MultitasksOnlyLook /\ (~overruled =>
Promise)`, where `Promise` relates the point the holder of the lease has reached to the gate's
entry, the row, the tree and what the other archives remember. Without the last, a second
archive that gives up would restore a row that the first one has since changed.

`LaunchedRowsAreArchived` needs a second invariant, `Rows`: a guest's gate is closed only with its
row archived, so the scan of an archive, which skips closed guests, leaves none behind; a launch
asks the owner of the checkout; and from the scan on no launched row is alive. The last holds
because a launch that could still add a row holds an admission on the owner, which the archive
has waited for. Only checked: `ArchivesEnd`.

## StreamFlush

One session. A chunk of output passes the reader, waits in the flush queue, and is stored by
whichever comes first: a timer, output that is flushed at once, or the end of the turn. A timer's handle and
its generation are under two locks, and an abort does not reach a task that is awake, so every
lock is a step.

| actions | code |
|---|---|
| `TurnStarts`, `LaunchResolves`, `LaunchFails` | `initialize_session`; the spawned launch, with `record_launch_failure` |
| `ReaderGets`, `ReaderQueues` | `pump_utf8_stream`; `handle_output_event` with `queue_output_event` |
| `ReaderBatch`, `ReaderBatchGen`, `ReaderIdle`, `ReaderIdleArm` | what the reader does with the result: `cancel_batch_flush` or `schedule_batch_flush`, then `schedule_idle_flush` |
| `TimerWakes`, `TimerLeaves`, `TimerFlushes`, `IdleAborts`, `IdleDropsBatchGen` | the timers' tasks |
| `EnderBegins`, `EnderCancels`, `EnderFlushes`, `EnderDeletes`, `ExitReturns` | the exit's `handle_lifecycle_event` and a Stop's `finish_termination` with `cancel_session` |

`QueueOutput`, `FlushPending` and `FlushTrailing` are the three entries of the flush queue,
`Stores` the transaction they share, which SQLite refuses at most `MaxFailures` times. A chunk
is a number; what can be told apart is its kind: it ends its line, or is a piece of
plain text or of JSON. Output is accepted from the moment the turn is initialized, while its
entry in `handles` is still `Pending` (`launching`): the Claude adapter emits its first events
before its launch returns, and Codex's reader runs by then. A Stop takes the entry out and flushes
only a resolved one; the launch then disposes of its process. `lost` collects, for each way in
which the entry is deleted, whether something accepted before that end began was dropped. A launch
that fails is one step and no end in this sense. Usage rows, normalizers, several streams, output
of an earlier invocation, readers that outlive the wait thread's five seconds and Cursor's early
completion of a turn (`complete_cursor_turn_after_result`) are left out. `cancel_idle_flush` is one
step, since only the reader calls it while a turn runs.

* `stream_flush` (two chunks, both endings, one turn, one refused flush; 6,345,613 states). Two
  chunks register two timers of each kind, so a timer that is awake meets its successor.
  `NothingLost`: each accepted chunk is stored or waits, once and in order.
  `ProtocolLinesWhole`: no flush in the middle of the output cuts a
  protocol line; only the exit of the process does. `RunningEndStoresOutput`: what
  had been accepted when an exit or a Stop began is stored when the entry is gone, unless SQLite
  refused the last flush of a Stop, the Stop found the launch pending, or the launch failed.
  `FlushComes`: whenever output waits, something that will
  flush it is on its way, except after a refused flush and after a timer was registered between
  the two locks (`crossed`). It is an invariant in place of a liveness property: what it names
  needs only time to pass.
* `stream_timer_stuck` (three chunks, no failure; violation of `OneWindowAtMost`): see Findings.

What the model shows besides: the idle task checks its generation and then waits for the
database while more output arrives; a stuck handle is carried over into the next turn; a refused
last flush makes `handle_lifecycle_event` return before the session settles; output accepted
between a Stop's flush and its `cancel_session` is dropped.

### Proofs

`StreamFlush_proofs` proves the type invariant and the four invariants of the run, for any number of
chunks, turns, ways to end one and refusals: `TypeCorrect`, `ChunksAreNotLost`, `JsonLinesAreWhole`,
`EndsOfTheRunningStoreOutput`, `WaitingOutputIsFlushed`. `NothingLost` says of each row that it
counts on where the row before it ended (`CountsFrom`, `EndOf`), and of the open line the same, so
that no sequence has to be flattened. The invariant is

    IInv == TypeOK /\ ReadPays /\ ClosedIsEmpty /\ Chained /\ ProtocolLinesWhole /\ Ends /\ Firing

* `ReadPays`: every timer that was registered, every generation and every chunk was paid for by a
  read. It is what types need: the slot a new timer takes exists because the reads are bounded.
* `Chained`: rows and open line partition the chunks accepted so far in order; the raw output
  beside them is stored up to a point and waits from there.
* `Ends`: who is about to drop the entry of a turn whose launch had returned has stored what was
  accepted when the end began, and an exit that skips its last flush does so because a Stop goes
  first.
* `Firing`: a registered batch timer will find its generation, and who is between the two locks
  of a cancellation has taken the handle; so whenever output waits, somebody will flush it.

## ProviderRequests

A request has a card (the approval's row or the question), a responder in memory, and the
driver's task that waits for the answer. Every call of the two services holds map and writer
throughout and is one step; their callers hold nothing between two calls. A decision is committed
and then sent to the request's task (`Answered`); the task is still to be polled and to write to
the provider (`Replies`). In between the provider may withdraw the request, or the driver may
leave its loop and abort its tasks.

| actions | code |
|---|---|
| `Ask`, `Register`, `Withdraw` | a provider's request, `register_native` and `request_native`, `control_cancel_request` |
| `ResolveApproval`, `ResolveQuestion` | the user's answer: row, session, and the decision sent to the task |
| `Replies` | the task hands the decision on |
| `DriverEnds`, `DriverObeys`, `DriverClears` | an adapter's loop ends by itself or because it was told to, and aborts its tasks |
| `ExitArrives` ... `ExitCancelsQuestions` | `handle_lifecycle_event` |
| `StopBegins` ... `StopEnds` | `start_termination`, `finish_termination` |
| `StartTurn`, `Crash`, `Recover` | the next turn; loss of memory; `recover_orphaned_sessions` |

The adapters differ in what a Stop waits for and in how the loop ends: Claude's and OpenCode's
drivers abort the tasks of the turn's requests, except one that is being polled; those of Codex
and ACP outlive the loop; an ACP agent does not finish `session/cancel` before its requests are
answered. Claude's writer task is part of `Replies`: once the driver has left its loop an answer
may be written or be lost with the writer or the process, and once it is gone it is lost. A write
that fails while the loop runs counts as the provider's end.

Left out: duplicates, advisory questions, rows that no provider waits for and the
blocked state, the archive's workspace-wide cancellation and attention flags.

Fairness: the steps of exits, Stops and the recovery are the app's own tasks and go on. Nothing
is assumed of drivers, request tasks, the provider or the user.

* `requests_answered` (an approval and a question over two turns, Claude and ACP, one crash,
  `FairSpec`; 1,426,409 states). Two requests are what "the other one of the session" needs; two
  turns, what a late exit needs. The two adapters are the extremes: one aborts the tasks of its
  requests, the other's agent waits for them. `ToldWhatIsRecorded`: the provider hears no decision
  but the one the card shows. `AnswersGetThrough` is the other half: while the driver serves the
  turn, a recorded decision was heard, is in the hands of its task, or was withdrawn by the
  provider. Nothing stronger holds: once the driver has left its loop, or the request was
  withdrawn, a card may say approved although the provider never heard of it.
  `WaitersCanBeWoken`: no request waits where no answer and no cleanup finds it.
  `NoCardOutlivesItsTurn`: nothing is left to answer once the turn was torn down, but what was
  open when the app died after the session had ended (`left`). `ReleasedBeforeWaiting`: a Stop
  releases the requests it found before it waits for the provider, which may itself wait for an
  answer. `EndedStaysEnded`: no answer or withdrawal revives an ended session.
  `WaitersAreReleased` (liveness): nobody waits for ever in a session that has ended or is being
  stopped, not even who registered during the cleanup. The invariants and `EndedStaysEnded` were
  also checked with all four adapters together (4,446,990 states, too long for a run); the proofs
  cover any set of them.

`ProviderRequests_proofs` proves the type invariant, the five other invariants and
`EndedStaysEnded` (`AuditIsTrue`, `AnswersAreServed`, `NobodyHangs`, `CardsEndWithTheirTurn`,
`ReleasedFirst`, `EndIsFinal`). The invariant is `TypeOK /\ CardsOK /\ ApprovalsHaveAnEnd /\
QuestionsHaveAnEnd /\ FoundAreReleased /\ ServedOK`. `CardsOK` holds the record against the
decision on its way as well as against what was heard; it survives an abort because a task that
is cut off tells nothing. `ServedOK` needs that a request belongs to a turn that has started. The
two about an end say who will end an open card: its waiter, a cleanup
that has not passed it yet, or the recovery; without them `NoCardOutlivesItsTurn` says nothing
about the step before the last. `FoundAreReleased` remembers which requests a Stop found. Only
checked: `WaitersAreReleased`.

What the model shows besides: a task that is being polled when it is aborted can leave a card
whose responder is closed; the exit cleanup of one turn may close cards of the next and leave it
`waiting`; a late request of an old Codex or ACP turn registers into the new one.

## AfterTurn

One session with one slot, kept as an entry of `pending_after_turn` and as a row of
`session_after_turn`.

| actions | code |
|---|---|
| `Schedule`, `CheckQueue`, `Insert`, `Promise` | `schedule_workspace_archive`, `schedule_session_move` with `schedule_after_turn` |
| `RunArchive`, `MoveBegins`, `MoveCopies`, `MoveArchives`, `MoveRecords`, `ReleaseTakesMap`, `ReleaseClears`, `Continue` | `run_after_turn`: `run_archive`, `run_move` with `move_session`, `finish_after_turn`, `continue_moved_session` |
| `TurnExits`, `Stop`, `Settle`, `AbortLooks`, `AbortTakesMap`, `AbortClears` | `signal_turn_settled` and `abort_session_after_turn` |
| `Submit`, `RouteQueues`, `RouteStarts`, `Enqueue`, `Claim`, `SendClaimed` | follow-ups: `send_input`, `enqueue_pending_message`, `ensure_no_pending_after_turn` |
| `Crash`, `BootLists`, `BootDrops`, `BootJudges`, `BootAdopts` | `resume_after_turn_actions` |

The map's lock, held while its owner waits for the database, and the writer, held by a follow-up
while it asks the map, are read off the program counters. An archive is one step (it is the
subject of `WorkspaceArchive`), a queued row may be taken at any time. Left out: the check a
steer makes, what a checkout's removal does differently, the limit on continued moves, and
failures of SQLite other than that of the event a call adds to the timeline.

`overtaken` records that a slot was released although its owner was about to promise it or was
disposing: an abort by a failed Stop does not look at that. The old owner's `finish` then
deletes a newer row. A boot whose list finds a row that this launch wrote counts the same: it
disposes twice. The properties except it.

* `after_turn` (two calls, two follow-ups, one Stop, one crash; 2,949,139 states). Two calls
  compete for the slot; two follow-ups put one in the queue while another is refused.
  `PromiseHeld`: what an agent was told is scheduled is on disk and in the hands of a task, or
  of the boot, until it is done or called off. `NothingQueuedBehind`: no promise of this launch
  stands with a follow-up queued behind it.
* `after_turn_locks` (one call, one follow-up; violation of `LocksNeverCross`): see Findings.

No fairness is stated: the two locks can deadlock, so nothing is promised to go on.

`AfterTurn_proofs` proves both invariants for any number of calls, follow-ups, Stops and
crashes. `IInv == TypeOK /\ Locks /\ (~overtaken => Ownership)`: at most one task holds the map
and one the writer; and the slot has one owner, whose point in the code determines entry and
row. `Locks` is needed because the insertion writes entry and row in one critical section,
`Ownership` because a release is by session, not by owner.

What the model shows besides: adoption at boot does not look at the queue; a turn that starts
between the boot's judgement and its adoption leaves an entry that nobody signals, as does a
call that comes after its turn settled, and follow-ups are refused until a Stop or a restart;
the row a Send now puts back stays in a chat that is being archived.

## CompletionNotices

One launcher and the chats it launched. A notice is named by the turn it is about. Rows and
marks are on disk; counts, windows and deliveries are in memory. A count of turns is the set of
the turns it counts, and a window the set of its turns. The code keeps a list per window and cuts
it into batches from the front; `Chunks` lets a flush divide the unread ones in any way into
batches of which all but one are full, each named by one of its members, which allows every
order the code's list may have.

| actions | code |
|---|---|
| `TurnStarts`, `TurnEnds`, `Report`, `DigestFires` | a launched chat's turns; `turn_ended`; the quiet window of a digest |
| `Build`, `BuildFails`, `Hold` | `build_completion_notice`, `hold_for_batch` |
| `WindowCloses`, `Coalesce`, `CoalesceFails` | `flush_batch` with `coalesce` and `batch_notice` |
| `SendStartsTurn`, `SendQueues`, `SendFails`, `MarkDelivered`, `ClearMark` | `start_delivery`, `deliver_notice` |
| `LauncherStarts`, `LauncherEnds`, `Collect`, `JournalStartsTurn`, `JournalDropped` | the launcher: its turns, `inbox_read`, the follow-up queue |
| `Archive`, `ArchiveTakenBack` | the launcher's workspace is `archiving`, `archive-failed` or `archived`; a declined or abandoned archive, or `keep`, makes it usable again |
| `Crash`, `BootLists`, `BootWakes`, `BootFails` | loss of memory; `list_due_wakes`, `recover_pending_wakes` with its early returns |

Left out: other wakeups of `session_wait`, batches limited by characters, labels and texts, the
deletion of check-in routines, several launchers, multitask launches. A collection may take any
part of the inbox, where the code takes the oldest up to a limit. The follow-up queue is one
step; `FollowUpDelivery` has its detail. Marked rows are listed after the service is published
and before a launched chat's next turn can end, so turns start once the boot is done and a
listed row is never under way. A failed send counts as an event, except to an archived launcher,
which always fails.

Fairness: the policy's tasks and timers, and deliveries, go on; no turn and no user does.

* `notices` (two launched chats with three and one turns; batches of two; three turns, crashes
  and failures together; 564,812 states). Three turns of one chat are what a digest that is
  absorbed by a later, launcher-driven turn needs; three results with batches of two make a
  batch and a lone notice. Turns, crashes and failures share the budget, which still lets a
  crash meet two results. `ResultsSurvive`: no row is closed before the launcher has it or a
  batch row that carries it is on disk. `WakesAreOwed`: an unread result whose wake was never
  attempted is marked and in somebody's hands, archives or not; a recovery that fails half way
  leaves the rest marked for the next boot (`skipped`). The exception is `unmarked`: a boot that
  finds an archive under way takes the mark, and nobody gives it back when the archive is
  given up. `CarriedOnce`: a result the launcher collected by
  itself is not brought again by a batch, nor by two. `EveryTurnIsToldOnce`: each turn is
  counted by one notice, or is still to be reported, unless an archive, a crash or SQLite lost
  it. `WakesAreAttempted` (liveness): a result does not stay unread without an attempt, with
  the same two exceptions.

What the model shows besides: a failed build also loses the turns of the digest it had absorbed;
when a person drops the queued copy of a notice after a crash, its mark stays set.

### Proofs

`CompletionNotices_proofs` proves the five invariants of the run for any chats, turns and size of
a batch: `TypeCorrect`, `ClosedResultsSurvive`, `UnreadRowsAreOwedAWake`, `ResultsAreCarriedOnce`
and `TurnsAreToldOnce`. The invariant is `IInv == TypeOK /\ Hands /\ Results /\ Counts`:

* `Hands`: whatever is on its way to the launcher has a row, the policy knows the deliveries that
  run, and a send is marked only once it started a turn. `WakesAreOwed` needs it, because the
  boot takes what is marked and not in anybody's hands.
* `Results`: what a batch carries and what the launcher collected are closed rows, and a batch
  row closes the row it is named by. So two batches cannot carry one result, although a batch may
  be built from a window that is partly out of date.
* `Counts`: a turn that is over is in exactly one place: still to be reported, in a digest, in a
  report, in the count of one row, or given up for a reason. This is `EveryTurnIsToldOnce` place
  by place; inductive it is with `OwnDigest` and `TurnsNumbered`, by which a new turn is nowhere
  yet and a digest counts no other chat's turns.

Only checked: `WakesAreAttempted`.

## Findings

Each violation run produces a trace of the code's own steps against a sentence of its comments.

* `turn_stale_spawn` — `spawn_provider_in_background` replaces any `Pending` entry
  (`session_service.rs:1164`). Turn 1 is spawning; a Stop removes its entry; a new send inserts
  its own `Pending`; turn 1's launch returns and takes it. Turn 2's process then finds no
  `Pending` and is disposed of. The comment at 1072-1073 says the task treats a removed entry
  "as cancellation and disposes the child."
* `stream_timer_stuck` — `cancel_batch_flush` takes the handle under one lock and the generation
  under another (4505-4516). The idle task takes the handle; the reader sees none and registers
  a new timer with a new generation; the idle task drops that generation. The new timer wakes,
  finds no generation and returns without a flush, and without removing its handle, so no later
  output registers another. `session_service.rs:117-119`: "Persist ordinary provider output at
  most once per short window". The output is stored with the next idle timer, or at the end of
  the turn.
* `after_turn_locks` — `enqueue_pending_message` asks the registry while it holds the database
  (3914, 3929); `schedule_after_turn` and `release_after_turn` take the database while they hold
  the registry's map (`registry.rs:401-402`, 531). One of each can wait for the other for ever.
  `registry.rs:32-36`: "Nothing takes a database connection and then reaches for the registry,
  so that order is the only one in the app and cannot invert."

Further disagreements that the modules define and no run repeats. To see one, put the property
into the cfg named here in place of its properties, with `SPECIFICATION Spec` where nothing else
is said.

Turns:

* `StopNotOverwrittenByExit` (as a PROPERTY in `turn_stale_spawn.cfg`): `handle_lifecycle_event`
  checks the marker twice (3290, 3326). A Stop that runs whole between the two leaves no marker;
  the exit writes `complete` or `failed` over `cancelled`. The comment at 3323-3324: "an exit
  that passed the first check cannot overwrite Stop."
* `StopNotOverwrittenByFailure`, `TeardownSparesNewTurn` (the same way): a launch failure
  recorded after its lock is released overwrites a Stop; an exit that left the outcome to a Stop
  removes the entry of the turn after it.
* `EveryTurnSettles` without `TurnsOverlap` (in `turn_lifecycle.cfg`, as it stands): the two
  ways in which a session stays running.

Follow-ups:

* `DeliveredOnce` (as an INVARIANT in `queue_safety.cfg`): a send that waits for a lock does not
  look at its inbox row again before it starts a turn (1854): the agent collected the message
  meanwhile. `docs/agent-tools.md:774-776`: "A message can now arrive two ways, so exactly one
  of them has to win."
* `TakenClosesInbox` without its exception (in `queue_safety.cfg`): Send now on an agent's
  message deletes the journal row and leaves the inbox row open (2795).
  `docs/agent-tools.md:776-779`: "the row is closed the moment that turn actually starts".
* `QueueDrains` without `Undisturbed` (in `queue_liveness.cfg`, as it stands): a turn ends while
  a multitask holds the guard: the drain returns without a row (2516), and nothing drains when
  the guard is released. `docs/agent-tools.md:721`: "every other working session gets it when
  its turn ends".
* `DiscardedStays` (as a PROPERTY in `queue_safety.cfg`): a drain that took a row before
  `/clear` or a Stop discarded the queue sends it afterwards.
* `ParkedStays` over all `Msgs` (in `queue_safety.cfg`): the steer of an agent's message claims
  the row a failed turn parked, is refused, and puts it back as an ordinary pending row.
* `UncertainKept` (as an INVARIANT in `queue_safety.cfg`): sending a delivery-unknown row again
  reads the mark of its own first attempt as confirmation of delivery and deletes the row.
  `ResentKept`
  excepts the uncertain messages; no instance that was run to its end decides it.

Output:

* `EndStoresOutput` (as an INVARIANT in `stream_flush.cfg`, with `MaxChunks = 1`,
  `Endings = {"stop"}`, `MaxTurns = 1`, `MaxFailures = 0`): `finish_termination` flushes only a
  resolved handle (`session_service.rs:2336-2350`); for a `Pending` one it does nothing, and
  `cancel_session` deletes the flush queue's entry (3816-3818). A turn starts, its provider writes
  before the launch returns, a Stop comes: what was written is neither stored nor shown. The
  comment at 123-125: "Process exit and cancellation force the same flush."

Completion notices:

* `UnattemptedStayMarked` (as an INVARIANT in `notices.cfg`, with `Children = {c1}`,
  `MaxTurns <- OneTurn`, `BatchSize = 2`, `MaxEvents = 2`, no symmetry): a result is written and
  marked and the app dies; at the next start the launcher is being archived when
  `recover_pending_wakes` comes to the row, which clears the mark (`completion_notices.rs:628`,
  649-654); the archive is declined because the tree is dirty. The launcher is usable again, and
  its result stays unread with no wake attempted or owed. `docs/data.md:27`: the mark "marks a
  completion row whose automatic wake of the launcher has not been attempted";
  `docs/agent-tools.md:860-862`: "A restart does not strand the launcher."

Dashboard:

* `OverflowRecovers` (as a PROPERTY in `push_catches_up.cfg`, with `FairSpec`):
  `prepare_dashboard_batch` takes the resync flag down, then empties the queue
  (`lib.rs:294-296`). A producer that overflowed just before sets the flag again in between; its
  Wake is refused by the full queue, or thrown away with it. Flag up, queue empty: the worker
  waits, and `send` returns at its first line for every later delta. `lib.rs:68-69`: "Overflow
  becomes a recoverable resync marker."
* The exception `wakeLost` of `QuietCaughtUp`, in two ways. In the first, a producer preempted between raising the flag and
  advancing the generation; the worker serves the flag; other producers fill the queue under the
  old generation; the generation advances, which makes all of them stale, and the Wake is
  refused by the full queue with no flag to notice. In the second, the worker serves the flag and
  begins an ordinary batch under the old generation; the generation advances and the Wake enters
  the queue; the batch under way takes it out and drops it (`lib.rs:291`), while a producer that
  had tagged its delta under the old generation throws the delta away at its last comparison
  (213-215). In both, those changes stay unseen until their feed changes again or the user's own
  navigation reads it. The first needs three updates, the second four (with `MaxUpdates = 4`,
  `MaxFailures = 0`).

Archive:

* `NoRowLeftBehind` (as an INVARIANT in `archive_gate.cfg`): `create_alongside`
  (`orchestration.rs:1130`), which multitasks and `session_launch` call, takes no admission on
  the checkout's owner. A multitask reads its parent's row; the archive lists the co-located
  rows; the multitask inserts its row; the tree is moved. `docs/workspaces.md:71`: "archiving it
  archives every co-located row first, before the move; otherwise they would point at nothing".
* `OneArchive`, `NoLateAttach`, `UsableRowIsOpen` without `~overruled` (in `archive_gate.cfg`),
  and `LaunchedRowsGoDown` without it (with `MaxArchives = 3`, `MaxStarts = 1`):
  `keep` sees `archive-failed` after a retried archive took the lease and before it marked the
  row, or after a failing archive wrote the row and before it handed the lease back. The first
  reopens the gate under the archive, and a send is admitted to a tree that is then moved; the
  second ends with a kept row whose gate is closed. `lifecycle.rs:3-5`: "a late provider/check/
  terminal request cannot attach itself to a worktree that is being removed."
* An archive reads the row before it asks for the lease and restores what it read
  (`orchestration.rs:2128`, 3002). If another archive was under way at that read and then gave
  up, a second one that gives up leaves the row `archiving` with nobody at work on it until the
  next start; a `keep` in between is undone.
* A guest's send that was admitted but has not marked its session running when the archive lists
  the guests does not make it busy: an unforced archive then moves the tree under its turn.
  `docs/workspaces.md:71`: "If one of them still has a turn in flight the archive is refused".

Requests:

* `NothingActionableAfterRestart` (as an INVARIANT in `requests_answered.cfg`): a card that was
  open when the app died after its session had ended is not closed at startup, since the
  recovery looks only at sessions in the middle of a turn, against
  `approvals/service.rs:367-369`.
* `NobodyHoldsTheStop` (the same way): a request that registers after a Stop cancelled the
  session's requests holds the provider the Stop waits for, until the timeout
  (`session_service.rs:2328-2329`).

After-turn slot (all in `after_turn_locks.cfg`, with `MaxStops = 0`):

* `NoTurnWhilePending` (as a PROPERTY): after a crash the promise is only on disk until the boot
  has adopted it, and a follow-up that comes first starts a turn, against
  `docs/agent-tools.md:574-575`.
* `MovesOnce` (as a PROPERTY): the note that `judge` looks for is written last. A crash after
  the chat was copied and before the note lets the boot copy it again;
  `docs/agent-tools.md:600-602` has a promise dropped when "the move already happened".
* `MovedChatIsOpened` (as an INVARIANT): a crash after the old chat was archived and before the
  note lets the boot drop the promise as done, since the workspace is archived: nobody opens the
  new chat with its prompt. `persistence/after_turn.rs:52-55` keeps the prompt on disk so that
  this does not "strand the chat in the destination".
* `DroppedWasDone` (as a PROPERTY, with `Calls = {c1, c2}`): a second move of the same chat
  finds the note of the first, and the boot drops it without having run, against the same lines
  of the documentation.

Notices:

* `OrphansAreTold` (as an INVARIANT in `notices.cfg`): `recover_orphaned_sessions` settles a
  launched chat's interrupted turn as failed and calls no notice policy.
  `docs/agent-tools.md:893`: "A session emits a notice on every turn end *if and only if it has
  a launcher*"; the comment at `session_service.rs:2988-2990` expects "a notice that recovery
  just wrote".
* A wake that crashed is repeated once, "which is safe because delivery marks the row delivered"
  (`docs/agent-tools.md:870-871`). The mark is written after the turn has started: a crash in
  between brings the notice twice. `CarriedOnce` and `ResultsSurvive` do not exclude it.
* `turn_ended` asks who drove a turn by the newest message of the chat. A person's message sent
  between the end and that look turns the end of a turn the launcher drove into a count in a
  digest.

## What is proved and what is only checked

Proved for every value of the constants (the only assumptions are that bounds are natural
numbers and that sets of names are what they are used for; each is a named ASSUME that TLC
evaluates): type correctness and every safety property that a run checks, invariants and action
properties, of all eight modules of the program, and that `WorkspaceArchive` implements
`ExclusiveUse`. Where an invariant excepts something (`overruled`, `overtaken`, `wakeLost`,
`crossed`, `unmarked`, `skipped`, a message sent again), the run and the theorem except the same.

Model-checked only is the liveness: `StopCompletes`, `EveryTurnSettles`, `HiddenRowsReappear`,
`QueueDrains`, `WindowCatchesUp`, `ArchivesEnd`, `WaitersAreReleased`, `WakesAreAttempted`.
Liveness under fairness and ENABLED are out of the prover's reach. So are properties the code
violates, which have a trace instead of a proof.

Three properties were true on the bounds of their run and false beyond them, which their proofs
brought out: `LaunchedRowsGoDown`, `ParkedStays` and `QuietCaughtUp`. Each now names what it
excepts, and the section of its module says how large an instance has to be to show it.

## What is left

* A module for the routines scheduler: claim, fire, settle and a restart between them.
* Hazards seen and covered by no property: a `clear_queue` that fails inside a Stop
  (`session_service.rs:2292`), a Stop that joins the job of a Send now (2279),
  `MAX_PENDING_QUEUE` met by a requeue (3937), an answer whose writing to the provider fails
  while its driver runs on.
* An abstract session (idle, running, settled by one of exit, failure, Stop), implemented by
  `ProviderTurn` outside the findings above.
