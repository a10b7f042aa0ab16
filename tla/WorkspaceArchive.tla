-------------------------- MODULE WorkspaceArchive --------------------------
(***************************************************************************)
(* Archiving an isolated workspace while others start processes in it and  *)
(* add rows to its checkout: the gate of src/src-tauri/src/workspaces/     *)
(* lifecycle.rs, archive_with and keep of workspaces/orchestration.rs, and *)
(* the services that attach processes and rows.                            *)
(*                                                                         *)
(* The owner is the row that may move the worktree; guests are rows that   *)
(* share the checkout.  The row in SQLite and the gate in memory are       *)
(* changed one after the other and read in either order, so each read,     *)
(* each write of one of them and each await is a step.                     *)
(***************************************************************************)
EXTENDS Naturals, FiniteSets

CONSTANTS
  Owner,        \* the workspace that owns the worktree
  Launched,     \* guest rows that create_in_checkout makes
  Dispatched,   \* guest rows that a multitask or a session_launch makes
  Archivers,    \* calls of archive, by users, agents and pollers
  Clients,      \* requests that attach a process or a row
  MaxArchives,  \* bound on the archives begun
  MaxStarts,    \* bound on the requests of clients
  MaxIncidents  \* bound on the calls of keep and the crashes of the app

ASSUME ConstantsAssumption ==
  /\ Owner \notin Launched \cup Dispatched
  /\ Launched \cap Dispatched = {}
  /\ {MaxArchives, MaxStarts, MaxIncidents} \subseteq Nat

Guests     == Launched \cup Dispatched
Workspaces == {Owner} \cup Guests

VARIABLES
  state,     \* workspaces.state in SQLite; absent: no such row
  gate,      \* WorkspaceLifecycle's entries; none: no entry
  client,    \* per client: what it asks for, of which workspace, and its progress
  archiver,  \* per archiver: its progress, the row it read, its lease's outcome
  teardown,  \* guests whose processes a background task is about to end
  moved,     \* the worktree was moved to the recovery directory
  dirty,     \* the worktree has uncommitted changes
  budget,    \* what is left of the bounds
  overruled  \* history: keep changed a row whose archive was under way or done

rowVars  == <<state, gate>>
treeVars == <<moved, dirty>>
history  == <<budget, overruled>>
vars == <<rowVars, client, archiver, teardown, treeVars, history>>

Retired   == {"archiving", "archive-failed", "archived"}
States    == {"absent", "active", "kept"} \cup Retired
Gates     == {"none", "open", "archiving", "failed", "archived"}
Kinds     == {"command", "provider", "launch", "multitask"}
ClientPcs == {"idle", "looked", "admitted", "cleared", "starting", "running"}
Leased    == {"marking", "repairing", "waiting", "refreshing", "quiescing", "checking",
              "sharing", "moving", "recording", "finishing"}
Outcomes  == {"archived", "failed", "reopened"}

Requests == [pc : ClientPcs, ws : Workspaces, kind : Kinds]
Archives == [pc : {"idle", "read"} \cup Leased, prior : States,
             force : BOOLEAN, outcome : Outcomes]

TypeOK ==
  /\ state \in [Workspaces -> States] /\ gate \in [Workspaces -> Gates]
  /\ client \in [Clients -> Requests] /\ archiver \in [Archivers -> Archives]
  /\ teardown \subseteq Guests
  /\ moved \in BOOLEAN /\ dirty \in BOOLEAN /\ overruled \in BOOLEAN
  /\ budget \in [{"archives", "starts", "incidents"} -> Nat]

NoClient   == [pc |-> "idle", ws |-> Owner, kind |-> "command"]
NoArchiver == [pc |-> "idle", prior |-> "active", force |-> FALSE, outcome |-> "reopened"]

Init ==
  /\ state = [w \in Workspaces |-> IF w = Owner THEN "active" ELSE "absent"]
  /\ gate = [w \in Workspaces |-> "none"]
  /\ client = [c \in Clients |-> NoClient]
  /\ archiver = [x \in Archivers |-> NoArchiver]
  /\ teardown = {}
  /\ moved = FALSE /\ dirty \in BOOLEAN
  /\ budget = [archives |-> MaxArchives, starts |-> MaxStarts, incidents |-> MaxIncidents]
  /\ overruled = FALSE

Spend(kind) == budget[kind] > 0 /\ budget' = [budget EXCEPT ![kind] = @ - 1]

-----------------------------------------------------------------------------
(* WorkspaceLifecycle.  The admissions counted in an entry are those of the *)
(* clients that hold one; the entry is dropped when it is open and unused.  *)

Holds(c, w) ==
  /\ client[c].ws = w /\ client[c].kind # "multitask"
  /\ client[c].pc \in {"admitted", "cleared", "starting"}
Admissions(w) == {c \in Clients : Holds(c, w)}
Processes(w)  == {c \in Clients : client[c].ws = w /\ client[c].pc \in {"starting", "running"}}

IsOpen(w) == gate[w] \in {"none", "open"}
ArchiveRefused(w) == gate[w] \in {"archiving", "archived"}

Opened(w) == [gate EXCEPT ![w] = IF gate[w] = "none" \/ Admissions(w) = {} THEN "none" ELSE "open"]

(* finish_archive: the outcome of a lease whose entry is gone is forgotten. *)
Finished(w, outcome) ==
  IF gate[w] = "none" THEN gate
  ELSE IF outcome = "reopened" THEN Opened(w)
  ELSE [gate EXCEPT ![w] = outcome]

(* The gates once c gives back the admission it may hold *)
ReleasedBy(c) ==
  LET w == client[c].ws IN
  IF Admissions(w) = {c} /\ gate[w] = "open" THEN [gate EXCEPT ![w] = "none"] ELSE gate

-----------------------------------------------------------------------------
(* Services that attach processes: a terminal and a check read the row     *)
(* first and are admitted later; a provider's send is admitted first.      *)
(* Services that add a row to the checkout: create_in_checkout holds an    *)
(* admission on the owner; a multitask has read its parent's row.          *)

ClientGoes(c, pc) == client' = [client EXCEPT ![c].pc = pc]
ClientStops(c) == client' = [client EXCEPT ![c] = NoClient] /\ gate' = ReleasedBy(c)
ClientFrame == UNCHANGED <<archiver, teardown, treeVars, overruled>>

ClientLooks(c) ==
  /\ client[c].pc = "idle"
  /\ Spend("starts")
  /\ \E w \in Workspaces, kind \in {"command", "multitask"} :
       /\ state[w] \notin Retired \cup {"absent"}
       /\ client' = [client EXCEPT ![c] = [pc |-> "looked", ws |-> w, kind |-> kind]]
  /\ UNCHANGED rowVars /\ ClientFrame

CommandAdmittedUngated(c) ==
  /\ client[c].pc = "looked" /\ client[c].kind = "command"
  /\ ClientGoes(c, "cleared")
  /\ UNCHANGED <<rowVars, budget>> /\ ClientFrame

CommandAdmitted(c) ==
  /\ client[c].pc = "looked" /\ client[c].kind = "command"
  /\ IF IsOpen(client[c].ws)
       THEN ClientGoes(c, "cleared") /\ gate' = [gate EXCEPT ![client[c].ws] = "open"]
       ELSE ClientStops(c)
  /\ UNCHANGED <<state, budget>> /\ ClientFrame

(* A launch is admitted to the row that owns the checkout. *)
ClientAdmitted(c) ==
  /\ client[c].pc = "idle"
  /\ Spend("starts")
  /\ \E w \in Workspaces, kind \in {"provider", "launch"} :
       /\ IsOpen(w) /\ state[w] # "absent"
       /\ kind = "launch" => w = Owner /\ state[Owner] # "archived"
       /\ gate' = [gate EXCEPT ![w] = "open"]
       /\ client' = [client EXCEPT ![c] = [pc |-> "admitted", ws |-> w, kind |-> kind]]
  /\ UNCHANGED state /\ ClientFrame

AdmittedLooks(c) ==
  /\ client[c].pc = "admitted"
  /\ IF state[client[c].ws] \in Retired \/ (client[c].kind = "launch" /\ moved)
       THEN ClientStops(c)
       ELSE ClientGoes(c, "cleared") /\ UNCHANGED gate
  /\ UNCHANGED <<state, budget>> /\ ClientFrame

(* From here the process is in its service's registry: a Pending handle, a *)
(* registered check, a terminal entry.                                     *)
ProcessStarts(c) ==
  /\ client[c].pc = "cleared" /\ client[c].kind # "launch"
  /\ ClientGoes(c, "starting")
  /\ UNCHANGED <<rowVars, budget>> /\ ClientFrame

ProcessRuns(c) ==
  /\ client[c].pc = "starting"
  /\ ClientGoes(c, "running")
  /\ gate' = ReleasedBy(c)
  /\ UNCHANGED <<state, budget>> /\ ClientFrame

ProcessWrites(c) ==
  /\ client[c].pc = "running" /\ ~moved
  /\ dirty' = TRUE
  /\ UNCHANGED <<rowVars, client, archiver, teardown, moved, history>>

ProcessEnds(c) ==
  /\ client[c].pc = "running"
  /\ client' = [client EXCEPT ![c] = NoClient]
  /\ UNCHANGED <<rowVars, budget>> /\ ClientFrame

RowAdded(c, rows) ==
  /\ \E g \in rows : state[g] = "absent" /\ state' = [state EXCEPT ![g] = "active"]
  /\ ClientStops(c)
  /\ UNCHANGED budget /\ ClientFrame

(* Without an admission, the checks done, the row is inserted later. *)
LaunchDropsAdmission(c) ==
  /\ client[c].kind = "launch"
  /\ \/ client[c].pc = "cleared" /\ ClientGoes(c, "looked") /\ gate' = ReleasedBy(c)
        /\ UNCHANGED <<state, budget>> /\ ClientFrame
     \/ client[c].pc = "looked" /\ RowAdded(c, Launched)

(* create_in_checkout inserts its row before the admission is dropped. *)
LaunchAddsRow(c) == client[c].pc = "cleared" /\ client[c].kind = "launch" /\ RowAdded(c, Launched)

MultitaskAddsRow(c) == client[c].pc = "looked" /\ client[c].kind = "multitask" /\ RowAdded(c, Dispatched)

(* Ending the processes of a workspace also ends those still starting. *)
ProcessesEnded(w) ==
  client' = [c \in Clients |-> IF c \in Processes(w) THEN NoClient ELSE client[c]]

-----------------------------------------------------------------------------
(* archive_with                                                            *)

Step(x, pc) == archiver' = [archiver EXCEPT ![x].pc = pc]
ArchiveFrame == UNCHANGED <<treeVars, history>>

(* Every way out writes the row, then hands the lease back. *)
EndsWith(x, row, outcome) ==
  /\ state' = [state EXCEPT ![Owner] = row]
  /\ archiver' = [archiver EXCEPT ![x] = [NoArchiver EXCEPT !.pc = "finishing", !.outcome = outcome]]
Fails(x)   == EndsWith(x, "archive-failed", "failed")
Done(x)    == EndsWith(x, "archived", "archived")
AbandonsClosed(x) == EndsWith(x, archiver[x].prior, "failed")
Abandons(x) ==
  LET prior == archiver[x].prior IN
  EndsWith(x, prior, IF prior = "archive-failed" THEN "failed" ELSE "reopened")

ArchiveReads(x) ==
  /\ archiver[x].pc = "idle"
  /\ Spend("archives")
  /\ state[Owner] # "archived"
  /\ \E force \in BOOLEAN :
       archiver' = [archiver EXCEPT ![x].pc = "read", ![x].prior = state[Owner], ![x].force = force]
  /\ UNCHANGED <<rowVars, client, teardown, treeVars, overruled>>

ArchiveBegins(x) ==
  /\ archiver[x].pc = "read"
  /\ IF ArchiveRefused(Owner)
       THEN archiver' = [archiver EXCEPT ![x] = NoArchiver] /\ UNCHANGED gate
       ELSE gate' = [gate EXCEPT ![Owner] = "archiving"] /\ Step(x, "marking")
  /\ UNCHANGED <<state, client, teardown>> /\ ArchiveFrame

ArchiveMarks(x) ==
  /\ archiver[x].pc = "marking"
  /\ state' = [state EXCEPT ![Owner] = "archiving"]
  /\ Step(x, IF moved THEN "repairing" ELSE "waiting")
  /\ UNCHANGED <<gate, client, teardown>> /\ ArchiveFrame

(* The tree was moved by an archive that could not record it. *)
ArchiveRepairs(x) ==
  /\ archiver[x].pc = "repairing"
  /\ Done(x) \/ Fails(x)
  /\ UNCHANGED <<gate, client, teardown>> /\ ArchiveFrame

(* wait_for_admissions, bounded by ARCHIVE_QUIESCE_TIMEOUT_MS *)
ArchiveWaitsForever(x) ==
  /\ archiver[x].pc = "waiting" /\ Admissions(Owner) = {}
  /\ Step(x, "refreshing")
  /\ UNCHANGED <<rowVars, client, teardown>> /\ ArchiveFrame

ArchiveWaits(x) ==
  /\ archiver[x].pc = "waiting"
  /\ \/ Admissions(Owner) = {} /\ Step(x, "refreshing") /\ UNCHANGED state
     \/ Admissions(Owner) # {} /\ Abandons(x)
  /\ UNCHANGED <<gate, client, teardown>> /\ ArchiveFrame

DirtyUnforced(x) == dirty /\ ~archiver[x].force
Declined(x) == DirtyUnforced(x) /\ ~moved /\ EndsWith(x, "kept", "reopened")

ArchiveRefreshes(x) ==
  /\ archiver[x].pc = "refreshing"
  /\ IF state[Owner] = "archived" THEN Done(x)
     ELSE \/ Abandons(x)
          \/ Declined(x)
          \/ ~DirtyUnforced(x) /\ Step(x, "quiescing") /\ UNCHANGED state
  /\ UNCHANGED <<gate, client, teardown>> /\ ArchiveFrame

(* Providers, checks and terminals are ended; a timeout fails the archive. *)
ArchiveQuiesces(x) ==
  /\ archiver[x].pc = "quiescing"
  /\ \/ ProcessesEnded(Owner) /\ Step(x, "checking") /\ UNCHANGED state
     \/ UNCHANGED client /\ Fails(x)
  /\ UNCHANGED <<gate, teardown>> /\ ArchiveFrame

ArchiveChecks(x) ==
  /\ archiver[x].pc = "checking"
  /\ \/ ~archiver[x].force /\ ~moved /\ Fails(x)
     \/ Declined(x)
     \/ (moved \/ ~DirtyUnforced(x)) /\ Step(x, "sharing") /\ UNCHANGED state
  /\ UNCHANGED <<gate, client, teardown>> /\ ArchiveFrame

(* archive_shared; a guest whose archive is under way or done is skipped.  *)
Retiring(gs) == {g \in gs : ~ArchiveRefused(g)}
GuestsRetired(gs) ==
  /\ gate' = [w \in Workspaces |-> IF w \in Retiring(gs) THEN "archived" ELSE gate[w]]
  /\ teardown' = teardown \cup Retiring(gs)
WithGuestsRetired(gs) ==
  [w \in Workspaces |-> IF w \in Retiring(gs) THEN "archived" ELSE state[w]]

LiveOnPath == {w \in Workspaces : state[w] \notin {"absent", "archived"}}
LiveGuests == LiveOnPath \ {Owner}
Busy(g) == \E c \in Processes(g) : client[c].kind = "provider"

(* Without force a guest at work refuses the archive; a guest that cannot  *)
(* be archived fails it, after others were.                                *)
ArchiveShares(x) ==
  /\ archiver[x].pc = "sharing"
  /\ IF ~archiver[x].force /\ \E g \in LiveGuests : Busy(g)
       THEN Abandons(x) /\ UNCHANGED <<gate, teardown>>
       ELSE \/ /\ GuestsRetired(LiveGuests)
               /\ state' = WithGuestsRetired(LiveGuests)
               /\ archiver' = [archiver EXCEPT ![x] = [NoArchiver EXCEPT !.pc = "moving"]]
            \/ \E gs \in SUBSET LiveGuests :
                 /\ GuestsRetired(gs)
                 /\ state' = [WithGuestsRetired(gs) EXCEPT ![Owner] = "archive-failed"]
                 /\ archiver' = [archiver EXCEPT ![x] =
                      [NoArchiver EXCEPT !.pc = "finishing", !.outcome = "failed"]]
  /\ UNCHANGED client /\ ArchiveFrame

ArchiveMoves(x) ==
  /\ archiver[x].pc = "moving"
  /\ \/ moved' = TRUE /\ Step(x, "recording") /\ UNCHANGED state
     \/ ~moved /\ Fails(x) /\ UNCHANGED moved
  /\ UNCHANGED <<gate, client, teardown, dirty, history>>

ArchiveRecords(x) ==
  /\ archiver[x].pc = "recording"
  /\ Done(x) \/ Fails(x)
  /\ UNCHANGED <<gate, client, teardown>> /\ ArchiveFrame

ArchiveFinishes(x) ==
  /\ archiver[x].pc = "finishing"
  /\ gate' = Finished(Owner, archiver[x].outcome)
  /\ archiver' = [archiver EXCEPT ![x] = NoArchiver]
  /\ UNCHANGED <<state, client, teardown>> /\ ArchiveFrame

-----------------------------------------------------------------------------
(* A guest archived by itself, its teardown, keep, and a crash             *)

GuestArchived(g) ==
  /\ g \in LiveGuests /\ ~ArchiveRefused(g)
  /\ GuestsRetired({g}) /\ state' = WithGuestsRetired({g})
  /\ UNCHANGED <<client, archiver>> /\ ArchiveFrame

(* teardown_workspace_processes goes on when its wait times out. *)
GuestTornDown(g) ==
  /\ g \in teardown
  /\ teardown' = teardown \ {g}
  /\ ProcessesEnded(g)
  /\ UNCHANGED <<rowVars, archiver>> /\ ArchiveFrame

Keep ==
  /\ Spend("incidents")
  /\ state[Owner] # "archiving"
  /\ state' = [state EXCEPT ![Owner] = "kept"]
  /\ gate' = IF state[Owner] = "archive-failed" THEN Opened(Owner) ELSE gate
  /\ overruled' = (overruled \/ moved \/ \E x \in Archivers : archiver[x].pc \in Leased)
  /\ UNCHANGED <<client, archiver, teardown, treeVars>>

(* The gates are lost; recover_interrupted_archives settles the row.       *)
Recovered ==
  IF state[Owner] = "archiving" \/ (state[Owner] = "archive-failed" /\ moved)
    THEN IF moved THEN {"archived", "archive-failed"} ELSE {"archive-failed"}
    ELSE {state[Owner]}

Crash ==
  /\ Spend("incidents")
  /\ \E row \in Recovered : state' = [state EXCEPT ![Owner] = row]
  /\ gate' = [w \in Workspaces |-> "none"]
  /\ client' = [c \in Clients |-> NoClient]
  /\ archiver' = [x \in Archivers |-> NoArchiver]
  /\ teardown' = {}
  /\ UNCHANGED <<treeVars, overruled>>

-----------------------------------------------------------------------------
ClientStep(c) ==
  \/ ClientLooks(c) \/ CommandAdmitted(c) \/ ClientAdmitted(c) \/ AdmittedLooks(c)
  \/ ProcessStarts(c) \/ ProcessRuns(c) \/ ProcessWrites(c) \/ ProcessEnds(c)
  \/ LaunchAddsRow(c) \/ MultitaskAddsRow(c)

(* What an archive does by itself once it holds the lease *)
ArchiveStep(x) ==
  \/ ArchiveMarks(x) \/ ArchiveRepairs(x) \/ ArchiveWaits(x) \/ ArchiveRefreshes(x)
  \/ ArchiveQuiesces(x) \/ ArchiveChecks(x) \/ ArchiveShares(x) \/ ArchiveMoves(x)
  \/ ArchiveRecords(x) \/ ArchiveFinishes(x)

Next ==
  \/ \E c \in Clients : ClientStep(c)
  \/ \E x \in Archivers : ArchiveReads(x) \/ ArchiveBegins(x) \/ ArchiveStep(x)
  \/ \E g \in Guests : GuestArchived(g) \/ GuestTornDown(g)
  \/ Keep
  \/ Crash

Spec == Init /\ [][Next]_vars

(* Every await of an archive is bounded by a timeout, so it goes on; nothing *)
(* is assumed of users, of processes, or of requests that hold an admission. *)
FairSpec == Spec /\ \A x \in Archivers : WF_vars(ArchiveStep(x))
-----------------------------------------------------------------------------
(* Properties                                                              *)

(* Unless keep reopened it, the gate gives the owner's archive to one call *)
(* at a time: begin_archive refuses a second lease across every outcome,   *)
(* abandon, retry and restart.                                             *)
OneArchive ==
  ~overruled => \A x, y \in Archivers : archiver[x].pc \in Leased /\ archiver[y].pc \in Leased => x = y

(* lifecycle.rs: from the end of the quiescence to the move, no process,   *)
(* and no request that could still start one, is left in the owner, though *)
(* requests read its row long before they ask the gate.                    *)
NoLateAttach ==
  \A x \in Archivers :
    ~overruled /\ archiver[x].pc \in {"checking", "sharing", "moving", "recording"}
      => Processes(Owner) \cup Admissions(Owner) = {}

(* No process of the owner runs once its tree was moved, over failures to  *)
(* record the archive, retries and restarts.                               *)
MovedTreeUnused == moved /\ ~overruled => Processes(Owner) = {}

(* A row that is offered for work, and that no archive holds, admits       *)
(* processes: abandon, decline and keep leave row and gate in agreement.   *)
UsableRowIsOpen ==
  /\ ~overruled /\ state[Owner] \in {"active", "kept"}
  /\ \A x \in Archivers : archiver[x].pc \notin Leased
  => IsOpen(Owner)

(* create_in_checkout: the archive began first and the launch is refused,  *)
(* or the row exists before the archive scans and goes down with the       *)
(* owner, unless keep opened the gate over an archive in between.          *)
LaunchedRowsGoDown ==
  moved /\ ~overruled => \A g \in Launched : state[g] \in {"absent", "archived"}

(* docs/workspaces.md: archiving the owner archives every co-located row   *)
(* first, before the move; a row left behind would point at nothing.       *)
NoRowLeftBehind == moved => \A g \in Guests : state[g] \in {"absent", "archived"}

(* The gate, the rows and the archives, as far as the worktree is concerned. *)
Alone == {"checking", "sharing", "moving", "recording"}
Use == INSTANCE ExclusiveUse WITH
  Users    <- Clients,
  Archives <- Archivers,
  entering <- Admissions(Owner),
  using    <- Processes(Owner),
  leases   <- {x \in Archivers : archiver[x].pc \in Leased},
  alone    <- \E x \in Archivers : archiver[x].pc \in Alone,
  gone     <- moved

(* lifecycle.rs and archive_with together keep the promise of ExclusiveUse: *)
(* every step of the archive, of the services and of a restart is a step of *)
(* the abstract gate, until keep overrules an archive.                      *)
KeepsPromise == Use!Spec

(* An archive that holds the lease hands it back, even if a request it     *)
(* waits for keeps its admission for ever.                                 *)
ArchivesEnd == \A x \in Archivers : archiver[x].pc \in Leased ~> archiver[x].pc \notin Leased
=============================================================================
