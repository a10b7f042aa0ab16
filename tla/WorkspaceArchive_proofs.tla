---------------------- MODULE WorkspaceArchive_proofs -----------------------
(***************************************************************************)
(* The archive gate for any rows, clients and archivers and any bounds:    *)
(* types, one archive at a time, an archive alone with its tree, a moved   *)
(* tree unused, the refinement of ExclusiveUse and what it amounts to, and *)
(* the rows of the checkout that go down with the owner.                   *)
(***************************************************************************)
EXTENDS WorkspaceArchive, TLAPS

-----------------------------------------------------------------------------
(* Types                                                                   *)

(* The names of the sets the steps move between *)
LEMMA Sorts ==
  /\ Owner \in Workspaces /\ Guests \subseteq Workspaces /\ Owner \notin Guests
  /\ NoClient \in Requests /\ NoArchiver \in Archives
  /\ \A o \in Outcomes : [NoArchiver EXCEPT !.pc = "finishing", !.outcome = o] \in Archives
<1>1. Owner \in Workspaces /\ Guests \subseteq Workspaces /\ Owner \notin Guests
  BY ConstantsAssumption DEF ConstantsAssumption, Workspaces, Guests
<1>2. NoClient \in Requests
  BY <1>1 DEF Requests, NoClient, ClientPcs, Kinds
<1>3. NoArchiver \in Archives
  BY DEF Archives, NoArchiver, Leased, States, Retired, Outcomes
<1>4. \A o \in Outcomes : [NoArchiver EXCEPT !.pc = "finishing", !.outcome = o] \in Archives
  BY <1>3 DEF Archives, Leased
<1> QED
  BY <1>1, <1>2, <1>3, <1>4

(* Spending leaves a natural number of every kind. *)
LEMMA SpendType ==
  ASSUME TypeOK, NEW kind \in {"archives", "starts", "incidents"}, Spend(kind)
  PROVE  budget' \in [{"archives", "starts", "incidents"} -> Nat]
BY DEF TypeOK, Spend

(* Whatever an admission or an outcome makes of the gates are gates.       *)
LEMMA GateTypes ==
  ASSUME TypeOK
  PROVE  /\ \A w \in Workspaces : Opened(w) \in [Workspaces -> Gates]
         /\ \A c \in Clients : ReleasedBy(c) \in [Workspaces -> Gates]
         /\ \A w \in Workspaces, o \in {"archived", "failed", "reopened"} :
              Finished(w, o) \in [Workspaces -> Gates]
BY DEF TypeOK, Opened, ReleasedBy, Finished, Gates, Requests

(* A client's own step keeps the clients well typed. *)
LEMMA ClientTypes ==
  ASSUME TypeOK, NEW c \in Clients
  PROVE  /\ \A pc \in ClientPcs : ClientGoes(c, pc) => client' \in [Clients -> Requests]
         /\ ClientStops(c) => client' \in [Clients -> Requests] /\ gate' \in [Workspaces -> Gates]
<1>1. ASSUME NEW pc \in ClientPcs, ClientGoes(c, pc) PROVE client' \in [Clients -> Requests]
  BY <1>1 DEF TypeOK, ClientGoes, Requests
<1>2. ASSUME ClientStops(c) PROVE client' \in [Clients -> Requests] /\ gate' \in [Workspaces -> Gates]
  BY <1>2, Sorts, GateTypes DEF TypeOK, ClientStops, Requests
<1> QED
  BY <1>1, <1>2

(* Ending a workspace's processes leaves well-typed clients. *)
LEMMA EndedTypes ==
  ASSUME TypeOK, NEW w \in Workspaces, ProcessesEnded(w)
  PROVE  client' \in [Clients -> Requests]
BY Sorts DEF TypeOK, ProcessesEnded, Requests

(* An archiver's step, or its way out, keeps rows and archivers well typed. *)
LEMMA ArchiverTypes ==
  ASSUME TypeOK, NEW x \in Archivers
  PROVE  /\ \A pc \in Leased : Step(x, pc) => archiver' \in [Archivers -> Archives]
         /\ \A row \in States, o \in Outcomes : EndsWith(x, row, o) =>
              archiver' \in [Archivers -> Archives] /\ state' \in [Workspaces -> States]
<1>1. ASSUME NEW pc \in Leased, Step(x, pc) PROVE archiver' \in [Archivers -> Archives]
  BY <1>1 DEF TypeOK, Step, Archives
<1>2. ASSUME NEW row \in States, NEW o \in Outcomes, EndsWith(x, row, o)
      PROVE  archiver' \in [Archivers -> Archives] /\ state' \in [Workspaces -> States]
  BY <1>2, Sorts DEF TypeOK, EndsWith, Archives
<1> QED
  BY <1>1, <1>2

(* A step of one client with a well-typed record *)
LEMMA ClientSet ==
  ASSUME TypeOK, NEW c \in Clients, NEW pc \in ClientPcs, NEW w \in Workspaces, NEW kind \in Kinds
  PROVE  /\ [client EXCEPT ![c] = [pc |-> pc, ws |-> w, kind |-> kind]] \in [Clients -> Requests]
         /\ [client EXCEPT ![c] = NoClient] \in [Clients -> Requests]
BY Sorts DEF TypeOK, Requests

(* The ways out of archive_with are ways out with a row and an outcome.    *)
LEMMA EndTypes ==
  ASSUME TypeOK, NEW x \in Archivers
  PROVE  Fails(x) \/ Done(x) \/ Abandons(x) \/ Declined(x) =>
           archiver' \in [Archivers -> Archives] /\ state' \in [Workspaces -> States]
<1>1. archiver[x].prior \in States /\ {"archive-failed", "archived", "kept"} \subseteq States
  BY DEF TypeOK, States, Retired, Archives
<1>2. {"failed", "archived", "reopened"} \subseteq Outcomes
  BY DEF Outcomes
<1> QED
  BY <1>1, <1>2, ArchiverTypes DEF Fails, Done, Abandons, Declined

(* The initial state is well typed. *)
LEMMA InitTypeOK == Init => TypeOK
<1> SUFFICES ASSUME Init PROVE TypeOK
  OBVIOUS
<1>1. state \in [Workspaces -> States] /\ gate \in [Workspaces -> Gates]
  BY DEF Init, States, Gates
<1>2. client \in [Clients -> Requests] /\ archiver \in [Archivers -> Archives]
  BY Sorts DEF Init
<1>3. moved \in BOOLEAN /\ dirty \in BOOLEAN /\ overruled \in BOOLEAN /\ teardown \subseteq Guests
  BY Zenon DEF Init
<1>4. budget \in [{"archives", "starts", "incidents"} -> Nat]
  BY ConstantsAssumption DEF ConstantsAssumption, Init
<1> QED
  BY <1>1, <1>2, <1>3, <1>4 DEF TypeOK, Requests, Archives

(* Every step of a client keeps the types. *)
LEMMA ClientStepTypes == ASSUME TypeOK, NEW c \in Clients, ClientStep(c) PROVE TypeOK'
<1> USE Sorts, GateTypes, ClientTypes DEF TypeOK, ClientFrame, treeVars, rowVars, history
<1>0. /\ client[c].ws \in Workspaces
      /\ {"looked", "admitted", "cleared", "starting", "running"} \subseteq ClientPcs
      /\ \A w \in Workspaces : [gate EXCEPT ![w] = "open"] \in [Workspaces -> Gates]
  BY DEF Requests, ClientPcs, Gates
<1>1. CASE ClientLooks(c)
  <2>1. {"command", "multitask"} \subseteq Kinds
    BY DEF Kinds
  <2>2. PICK w \in Workspaces, kind \in {"command", "multitask"} :
          client' = [client EXCEPT ![c] = [pc |-> "looked", ws |-> w, kind |-> kind]]
    BY <1>1 DEF ClientLooks
  <2>3. client' \in [Clients -> Requests]
    BY <1>0, <2>1, <2>2, ClientSet
  <2> QED
    BY <1>1, <2>3, SpendType DEF ClientLooks
<1>2. CASE CommandAdmitted(c)
  BY <1>0, <1>2 DEF CommandAdmitted
<1>3. CASE ClientAdmitted(c)
  <2>1. {"provider", "launch"} \subseteq Kinds
    BY DEF Kinds
  <2>2. PICK w \in Workspaces, kind \in {"provider", "launch"} :
          /\ gate' = [gate EXCEPT ![w] = "open"]
          /\ client' = [client EXCEPT ![c] = [pc |-> "admitted", ws |-> w, kind |-> kind]]
    BY <1>3 DEF ClientAdmitted
  <2>3. client' \in [Clients -> Requests] /\ gate' \in [Workspaces -> Gates]
    BY <1>0, <2>1, <2>2, ClientSet
  <2> QED
    BY <1>3, <2>3, SpendType DEF ClientAdmitted
<1>4. CASE AdmittedLooks(c)
  BY <1>0, <1>4 DEF AdmittedLooks
<1>5. CASE ProcessStarts(c)
  BY <1>0, <1>5 DEF ProcessStarts
<1>6. CASE ProcessRuns(c)
  BY <1>0, <1>6 DEF ProcessRuns
<1>7. CASE ProcessWrites(c)
  BY <1>7 DEF ProcessWrites
<1>8. CASE ProcessEnds(c)
  BY <1>8, ClientSet DEF ProcessEnds
<1>9. ASSUME NEW rows \in SUBSET Guests, RowAdded(c, rows) PROVE TypeOK'
  <2>1. state' \in [Workspaces -> States]
    BY <1>9 DEF RowAdded, States
  <2> QED
    BY <1>9, <2>1 DEF RowAdded
<1> QED
  BY <1>1, <1>2, <1>3, <1>4, <1>5, <1>6, <1>7, <1>8, <1>9
  DEF ClientStep, LaunchAddsRow, MultitaskAddsRow, Guests

(* Guests archived with their owner leave well-typed rows and gates. *)
LEMMA SharedTypes ==
  ASSUME TypeOK, NEW gs \in SUBSET LiveGuests
  PROVE  /\ WithGuestsRetired(gs) \in [Workspaces -> States]
         /\ GuestsRetired(gs) => gate' \in [Workspaces -> Gates] /\ teardown' \subseteq Guests
<1>1. Retiring(gs) \subseteq Guests
  BY Sorts DEF Retiring, LiveGuests, LiveOnPath, Workspaces
<1> QED
  BY <1>1 DEF TypeOK, WithGuestsRetired, GuestsRetired, States, Retired, Gates

(* Every step of an archive keeps the types. *)
LEMMA ArchiveStepTypes == ASSUME TypeOK, NEW x \in Archivers, ArchiveStep(x) PROVE TypeOK'
<1> USE Sorts, GateTypes, ClientTypes, ArchiverTypes, EndTypes
    DEF TypeOK, ArchiveFrame, treeVars, rowVars, history
<1>0. /\ {"repairing", "waiting", "refreshing", "quiescing", "checking", "sharing", "moving",
          "recording"} \subseteq Leased
      /\ {"archived", "failed", "reopened"} = Outcomes
  BY DEF Leased, Outcomes
<1>1. CASE ArchiveMarks(x)
  BY <1>0, <1>1 DEF ArchiveMarks, States, Retired
<1>2. CASE ArchiveRepairs(x)
  BY <1>2 DEF ArchiveRepairs
<1>3. CASE ArchiveWaits(x)
  BY <1>0, <1>3 DEF ArchiveWaits
<1>4. CASE ArchiveRefreshes(x)
  BY <1>0, <1>4 DEF ArchiveRefreshes
<1>5. CASE ArchiveQuiesces(x)
  <2>1. CASE ProcessesEnded(Owner) /\ Step(x, "checking") /\ UNCHANGED state
    BY <1>0, <1>5, <2>1, EndedTypes DEF ArchiveQuiesces
  <2>2. CASE UNCHANGED client /\ Fails(x)
    BY <1>5, <2>2 DEF ArchiveQuiesces
  <2> QED
    BY <1>5, <2>1, <2>2 DEF ArchiveQuiesces
<1>6. CASE ArchiveChecks(x)
  BY <1>0, <1>6 DEF ArchiveChecks
<1>7. CASE ArchiveShares(x)
  <2>1. archiver' \in [Archivers -> Archives]
    <3>1. \A pc \in {"moving", "finishing"} : pc \in Leased
      BY DEF Leased
    <3>2. [NoArchiver EXCEPT !.pc = "moving"] \in Archives
      BY <3>1 DEF Archives
    <3> QED
      BY <1>0, <1>7, <3>2 DEF ArchiveShares
  <2>2. state' \in [Workspaces -> States] /\ gate' \in [Workspaces -> Gates] /\ teardown' \subseteq Guests
    <3>1. "archive-failed" \in States
      BY DEF States, Retired
    <3>2. CASE Abandons(x) /\ UNCHANGED <<gate, teardown>>
      BY <3>2
    <3>3. ASSUME NEW gs \in SUBSET LiveGuests, GuestsRetired(gs),
                 \/ state' = WithGuestsRetired(gs)
                 \/ state' = [WithGuestsRetired(gs) EXCEPT ![Owner] = "archive-failed"]
          PROVE  state' \in [Workspaces -> States] /\ gate' \in [Workspaces -> Gates] /\ teardown' \subseteq Guests
      BY <3>1, <3>3, SharedTypes
    <3> QED
      BY <1>7, <3>2, <3>3 DEF ArchiveShares
  <2> QED
    BY <1>7, <2>1, <2>2 DEF ArchiveShares
<1>8. CASE ArchiveMoves(x)
  BY <1>0, <1>8 DEF ArchiveMoves
<1>9. CASE ArchiveRecords(x)
  BY <1>9 DEF ArchiveRecords
<1>10. CASE ArchiveFinishes(x)
  <2>1. archiver[x].outcome \in Outcomes
    BY DEF Archives
  <2> QED
    BY <1>0, <1>10, <2>1 DEF ArchiveFinishes
<1> QED
  BY <1>1, <1>2, <1>3, <1>4, <1>5, <1>6, <1>7, <1>8, <1>9, <1>10 DEF ArchiveStep

(* Every step keeps the types. *)
LEMMA NextTypeOK == TypeOK /\ [Next]_vars => TypeOK'
<1> SUFFICES ASSUME TypeOK, [Next]_vars PROVE TypeOK'
  OBVIOUS
<1> USE Sorts DEF TypeOK, ArchiveFrame, treeVars, rowVars, history
<1>1. ASSUME NEW x \in Archivers, ArchiveReads(x) PROVE TypeOK'
  <2>1. archiver' \in [Archivers -> Archives]
    <3>1. PICK force \in BOOLEAN :
            archiver' = [archiver EXCEPT ![x].pc = "read", ![x].prior = state[Owner], ![x].force = force]
      BY <1>1 DEF ArchiveReads
    <3>2. state[Owner] \in States
      OBVIOUS
    <3> QED
      BY <3>1, <3>2 DEF Archives
  <2> QED
    BY <1>1, <2>1, SpendType DEF ArchiveReads
<1>2. ASSUME NEW x \in Archivers, ArchiveBegins(x) PROVE TypeOK'
  <2>1. "marking" \in Leased /\ "archiving" \in Gates
    BY DEF Leased, Gates
  <2> QED
    BY <1>2, <2>1, ArchiverTypes DEF ArchiveBegins
<1>3. ASSUME NEW g \in Guests, GuestArchived(g) PROVE TypeOK'
  BY <1>3, SharedTypes DEF GuestArchived
<1>4. ASSUME NEW g \in Guests, GuestTornDown(g) PROVE TypeOK'
  <2>1. client' \in [Clients -> Requests] /\ teardown' \subseteq Guests
    BY <1>4, EndedTypes DEF GuestTornDown
  <2> QED
    BY <1>4, <2>1 DEF GuestTornDown
<1>5. CASE Keep
  BY <1>5, SpendType, GateTypes DEF Keep, States
<1>6. CASE Crash
  <2>1. Recovered \subseteq States
    BY DEF Recovered, States, Retired
  <2> QED
    BY <1>6, <2>1, SpendType DEF Crash, Gates
<1>7. CASE UNCHANGED vars
  BY <1>7 DEF vars
<1> QED
  BY <1>1, <1>2, <1>3, <1>4, <1>5, <1>6, <1>7, ClientStepTypes, ArchiveStepTypes DEF Next

(* Every state the gate, the rows and the services can reach is well typed. *)
THEOREM TypeCorrect == Spec => []TypeOK
BY InitTypeOK, NextTypeOK, PTL DEF Spec

-----------------------------------------------------------------------------
(* The inductive invariant                                                 *)

Lessees == {x \in Archivers : archiver[x].pc \in Leased}
Working == Leased \ {"marking", "finishing"}
Sealed  == {"refreshing", "quiescing"} \cup Alone
Arrived == {"cleared", "starting", "running"}

OneLessee == \A x, y \in Lessees : x = y

(* A lease closes the gate, and from its first write the row says so.      *)
LeasesClose == Lessees # {} => gate[Owner] = "archiving"
WorkIsMarked == \A x \in Archivers : archiver[x].pc \in Working => state[Owner] = "archiving"

(* Once the admissions were waited for there are none, once the processes  *)
(* were ended there are none.                                              *)
SealedFromRequests == \A x \in Archivers : archiver[x].pc \in Sealed => Admissions(Owner) = {}
AloneWithTree == \A x \in Archivers : archiver[x].pc \in Alone => Processes(Owner) = {}

(* A tree that was moved stays closed: its row is retired, the one archive *)
(* that may still hold it repairs or records, and no request got past its  *)
(* look at the row, nor will where the gate was lost with a restart.       *)
MovedIsRetired ==
  moved =>
    /\ state[Owner] \in Retired
    /\ \A x \in Archivers :
         /\ archiver[x].pc \notin {"waiting", "refreshing", "quiescing", "checking", "sharing", "moving"}
         /\ archiver[x].pc = "finishing" => archiver[x].outcome # "reopened"
    /\ \A c \in Clients : client[c].ws = Owner =>
         /\ client[c].pc \notin Arrived
         /\ client[c].pc = "looked" => ~IsOpen(Owner)

(* Where no archive holds the lease, a closed gate belongs to a retired row. *)
RowFollowsGate ==
  /\ Lessees = {} /\ ~IsOpen(Owner) => state[Owner] \in Retired
  /\ state[Owner] = "archived" => moved
  /\ \A x \in Archivers :
       /\ archiver[x].prior # "archived"
       /\ archiver[x].pc \in {"repairing", "recording"} => moved
       /\ archiver[x].pc = "finishing" /\ archiver[x].outcome # "reopened" => state[Owner] \in Retired

(* A multitask asks for no admission, and only looks. *)
MultitasksOnlyLook == \A c \in Clients : client[c].kind = "multitask" => client[c].pc \in {"idle", "looked"}

Promise ==
  /\ OneLessee
  /\ LeasesClose /\ WorkIsMarked
  /\ SealedFromRequests /\ AloneWithTree
  /\ MovedIsRetired
  /\ RowFollowsGate

IInv == TypeOK /\ MultitasksOnlyLook /\ (~overruled => Promise)

-----------------------------------------------------------------------------
(* What the steps of clients and archives change                           *)

(* A client that goes on keeps its request; one that stops forgets it and  *)
(* may free an entry that was open.                                        *)
LEMMA ClientMoves ==
  ASSUME TypeOK, NEW c \in Clients
  PROVE  /\ \A pc \in ClientPcs : ClientGoes(c, pc) =>
              /\ client'[c].pc = pc
              /\ client'[c].ws = client[c].ws /\ client'[c].kind = client[c].kind
              /\ \A d \in Clients \ {c} : client'[d] = client[d]
         /\ client' = [client EXCEPT ![c] = NoClient] =>
              /\ client'[c].pc = "idle" /\ client'[c].kind = "command"
              /\ \A d \in Clients \ {c} : client'[d] = client[d]
         /\ ReleasedBy(c)[Owner] = gate[Owner] \/ (gate[Owner] = "open" /\ ReleasedBy(c)[Owner] = "none")
<1>1. ASSUME NEW pc \in ClientPcs, ClientGoes(c, pc)
      PROVE  /\ client'[c].pc = pc
             /\ client'[c].ws = client[c].ws /\ client'[c].kind = client[c].kind
             /\ \A d \in Clients \ {c} : client'[d] = client[d]
  <2>1. client \in [Clients -> Requests] /\ client' = [client EXCEPT ![c].pc = pc]
    BY <1>1 DEF TypeOK, ClientGoes
  <2> QED
    BY <2>1 DEF Requests
<1>2. ASSUME client' = [client EXCEPT ![c] = NoClient]
      PROVE  /\ client'[c].pc = "idle" /\ client'[c].kind = "command"
             /\ \A d \in Clients \ {c} : client'[d] = client[d]
  BY <1>2 DEF TypeOK, NoClient
<1>3. ReleasedBy(c)[Owner] = gate[Owner] \/ (gate[Owner] = "open" /\ ReleasedBy(c)[Owner] = "none")
  <2>1. gate \in [Workspaces -> Gates] /\ Owner \in Workspaces
    BY Sorts DEF TypeOK
  <2> QED
    BY <2>1 DEF ReleasedBy
<1> QED
  BY <1>1, <1>2, <1>3

(* A client's step touches its own request only; it opens the owner's gate *)
(* only if it was open, is admitted there only if it was open, uses the    *)
(* tree only after it was admitted, and gets past its look at the row only *)
(* if the row was not retired.                                             *)
Stays(c) == /\ state'[Owner] = state[Owner] /\ archiver' = archiver
            /\ moved' = moved /\ overruled' = overruled
            /\ \A d \in Clients \ {c} : client'[d] = client[d]
GateStays == /\ IsOpen(Owner) => gate'[Owner] \in {"none", "open"}
             /\ ~IsOpen(Owner) => gate'[Owner] = gate[Owner]
Looked(c)  == client[c].ws = Owner /\ client[c].pc = "looked"
Past(c)    == client[c].ws = Owner /\ client[c].pc \in Arrived
Progress(c) ==
  /\ Looked(c)' => Looked(c) \/ state[Owner] \notin Retired
  /\ Past(c)' => Past(c) \/ (Looked(c) /\ IsOpen(Owner)) \/ state[Owner] \notin Retired
  /\ client'[c].kind = "multitask" => client'[c].pc \in {"idle", "looked"}
Enters(c) == /\ Holds(c, Owner)' /\ IsOpen(Owner)
             /\ (c \in Processes(Owner)) <=> (c \in Processes(Owner)')
Starts(c) == Holds(c, Owner) /\ Holds(c, Owner)' /\ Past(c) /\ c \in Processes(Owner)'
Leaves(c) == /\ Holds(c, Owner)' => Holds(c, Owner)
             /\ c \in Processes(Owner)' => c \in Processes(Owner)

LEMMA ClientEffects ==
  ASSUME TypeOK, MultitasksOnlyLook, NEW c \in Clients, ClientStep(c)
  PROVE  Stays(c) /\ GateStays /\ Progress(c) /\ (Enters(c) \/ Starts(c) \/ Leaves(c))
<1> USE Sorts, ClientMoves DEF TypeOK, ClientFrame, treeVars, rowVars, history
<1>0. /\ client[c].ws \in Workspaces /\ client[c].pc \in ClientPcs
      /\ {"looked", "admitted", "cleared", "starting", "running"} \subseteq ClientPcs
      /\ client[c].kind = "multitask" => client[c].pc \in {"idle", "looked"}
  BY DEF Requests, ClientPcs, MultitasksOnlyLook
<1> USE <1>0 DEF Stays, GateStays, Progress, Enters, Starts, Leaves, Looked, Past, Arrived,
        Holds, Processes, IsOpen
<1>1. CASE ClientLooks(c)
  <2>1. PICK w \in Workspaces, kind \in {"command", "multitask"} :
          /\ state[w] \notin Retired
          /\ client' = [client EXCEPT ![c] = [pc |-> "looked", ws |-> w, kind |-> kind]]
    BY <1>1 DEF ClientLooks
  <2>2. client'[c] = [pc |-> "looked", ws |-> w, kind |-> kind]
    BY <2>1
  <2> QED
    BY <1>1, <2>1, <2>2 DEF ClientLooks
<1>2. CASE CommandAdmitted(c)
  BY <1>2 DEF CommandAdmitted, ClientStops
<1>3. CASE ClientAdmitted(c)
  <2>1. PICK w \in Workspaces, kind \in {"provider", "launch"} :
          /\ IsOpen(w)
          /\ gate' = [gate EXCEPT ![w] = "open"]
          /\ client' = [client EXCEPT ![c] = [pc |-> "admitted", ws |-> w, kind |-> kind]]
    BY <1>3 DEF ClientAdmitted
  <2>2. client'[c] = [pc |-> "admitted", ws |-> w, kind |-> kind]
    BY <2>1
  <2> QED
    BY <1>3, <2>1, <2>2 DEF ClientAdmitted
<1>4. CASE AdmittedLooks(c)
  <2>1. CASE ClientStops(c)
    BY <1>4, <2>1 DEF AdmittedLooks, ClientStops
  <2>2. CASE ClientGoes(c, "cleared") /\ UNCHANGED gate
    <3>1. client[c].ws = Owner => state[Owner] \notin Retired
      BY <1>4, <2>1, <2>2 DEF AdmittedLooks, ClientStops, ClientGoes
    <3>2. client[c].pc = "admitted" /\ client[c].kind # "multitask"
      BY <1>4 DEF AdmittedLooks
    <3>3. client'[c].pc = "cleared" /\ client'[c].ws = client[c].ws /\ client'[c].kind = client[c].kind
      BY <2>2
    <3>4. Stays(c) /\ GateStays /\ Progress(c)
      BY <1>4, <2>2, <3>1, <3>2, <3>3 DEF AdmittedLooks
    <3> QED
      BY <3>2, <3>3, <3>4
  <2> QED
    BY <1>4, <2>1, <2>2 DEF AdmittedLooks
<1>5. CASE ProcessStarts(c)
  BY <1>5 DEF ProcessStarts
<1>6. CASE ProcessRuns(c)
  BY <1>6 DEF ProcessRuns
<1>7. CASE ProcessWrites(c)
  BY <1>7 DEF ProcessWrites
<1>8. CASE ProcessEnds(c)
  BY <1>8 DEF ProcessEnds
<1>9. CASE LaunchAddsRow(c)
  BY <1>9, ConstantsAssumption DEF ConstantsAssumption, LaunchAddsRow, RowAdded, ClientStops
<1>10. CASE MultitaskAddsRow(c)
  BY <1>10, ConstantsAssumption DEF ConstantsAssumption, MultitaskAddsRow, RowAdded, ClientStops
<1> QED
  BY <1>1, <1>2, <1>3, <1>4, <1>5, <1>6, <1>7, <1>8, <1>9, <1>10 DEF ClientStep

(* What the lease sees of the requests after a client's step *)
LEMMA ClientSets ==
  ASSUME NEW c \in Clients, Stays(c)
  PROVE  /\ Admissions(Owner)' \subseteq Admissions(Owner) \cup {c}
         /\ Processes(Owner)' \subseteq Processes(Owner) \cup {c}
         /\ Holds(c, Owner)' => Admissions(Owner)' = Admissions(Owner) \cup {c}
         /\ Leaves(c) => /\ Admissions(Owner)' \subseteq Admissions(Owner)
                         /\ Processes(Owner)' \subseteq Processes(Owner)
         /\ Enters(c) => Processes(Owner)' = Processes(Owner)
         /\ Starts(c) => /\ Admissions(Owner)' = Admissions(Owner)
                         /\ Processes(Owner)' = Processes(Owner) \cup {c}
<1>1. \A d \in Clients \ {c} : /\ Holds(d, Owner)' <=> Holds(d, Owner)
                               /\ d \in Processes(Owner)' <=> d \in Processes(Owner)
  BY DEF Stays, Holds, Processes
<1>2. Processes(Owner) \subseteq Clients /\ Processes(Owner)' \subseteq Clients
  BY DEF Processes
<1> QED
  BY <1>1, <1>2 DEF Admissions, Leaves, Enters, Starts

(* No step of a client breaks the promise. *)
LEMMA ClientKeepsPromise ==
  ASSUME TypeOK, MultitasksOnlyLook, ~overruled, Promise, NEW c \in Clients, ClientStep(c)
  PROVE  Promise'
<1>1. Stays(c) /\ GateStays /\ Progress(c) /\ (Enters(c) \/ Starts(c) \/ Leaves(c))
  BY ClientEffects
<1>2. OneLessee' /\ WorkIsMarked' /\ Lessees' = Lessees
  BY <1>1 DEF Promise, Stays, OneLessee, WorkIsMarked, Lessees
<1>3. Lessees # {} => ~IsOpen(Owner) /\ gate'[Owner] = gate[Owner]
  BY <1>1 DEF Promise, LeasesClose, GateStays, IsOpen
<1>4. LeasesClose'
  BY <1>2, <1>3 DEF Promise, LeasesClose
<1>5. SealedFromRequests' /\ AloneWithTree'
  <2>1. ASSUME NEW x \in Archivers, archiver[x].pc \in Sealed
        PROVE  /\ Admissions(Owner)' = {} /\ Admissions(Owner) = {}
               /\ Processes(Owner)' \subseteq Processes(Owner)
    <3>1. x \in Lessees /\ Admissions(Owner) = {}
      BY <2>1 DEF Promise, SealedFromRequests, Lessees, Sealed, Alone, Leased
    <3>2. ~Enters(c) /\ ~Starts(c)
      BY <1>3, <3>1 DEF Enters, Starts, Admissions
    <3> QED
      BY <1>1, <3>1, <3>2, ClientSets
  <2> QED
    BY <1>1, <2>1 DEF Promise, SealedFromRequests, AloneWithTree, Stays, Sealed
<1>6. MovedIsRetired'
  <2> SUFFICES ASSUME moved' PROVE MovedIsRetired'
    BY DEF MovedIsRetired
  <2>1. moved /\ state'[Owner] = state[Owner] /\ state[Owner] \in Retired /\ archiver' = archiver
    BY <1>1 DEF Promise, MovedIsRetired, Stays
  <2>2. \A d \in Clients : ~Past(d) /\ (Looked(d) => ~IsOpen(Owner))
    BY <2>1 DEF Promise, MovedIsRetired, Past, Looked
  <2>3. ~IsOpen(Owner) => ~IsOpen(Owner)'
    BY <1>1 DEF GateStays, IsOpen
  <2>4. ASSUME NEW d \in Clients PROVE ~Past(d)' /\ (Looked(d)' => ~IsOpen(Owner)')
    <3>1. CASE d = c
      BY <1>1, <2>1, <2>2, <2>3, <3>1 DEF Progress
    <3>2. CASE d # c
      BY <1>1, <2>2, <2>3, <3>2 DEF Stays, Past, Looked
    <3> QED
      BY <3>1, <3>2
  <2> QED
    BY <2>1, <2>4 DEF Promise, MovedIsRetired, Past, Looked
<1>7. RowFollowsGate'
  BY <1>1, <1>2 DEF Promise, RowFollowsGate, Stays, GateStays, IsOpen
<1> QED
  BY <1>2, <1>4, <1>5, <1>6, <1>7 DEF Promise

(* Every step of a client is a step of the abstract gate, or none of it. *)
LEMMA ClientImplements ==
  ASSUME TypeOK, MultitasksOnlyLook, ~overruled, Promise, NEW c \in Clients, ClientStep(c)
  PROVE  Use!Next
<1>1. Stays(c) /\ (Enters(c) \/ Starts(c) \/ Leaves(c))
  BY ClientEffects
<1>2. ~overruled' /\ archiver' = archiver /\ moved' = moved
  BY <1>1 DEF Stays
<1>3. CASE Enters(c)
  <2>1. Lessees = {}
    BY <1>3 DEF Promise, LeasesClose, Enters, IsOpen
  <2>2. Use!Enter(c)
    BY <1>1, <1>2, <1>3, <2>1, ClientSets DEF Use!Enter, Enters, Lessees
  <2> QED
    BY <1>2, <2>2 DEF Use!Next, Use!Promised
<1>4. CASE Starts(c)
  <2>1. ~moved /\ c \in Admissions(Owner)
    BY <1>4 DEF Promise, MovedIsRetired, Starts, Past, Admissions
  <2>2. Use!Start(c)
    BY <1>1, <1>2, <1>4, <2>1, ClientSets DEF Use!Start
  <2> QED
    BY <1>2, <2>2 DEF Use!Next, Use!Promised
<1>5. CASE Leaves(c)
  <2>1. Use!Leave
    BY <1>1, <1>2, <1>5, ClientSets DEF Use!Leave
  <2> QED
    BY <1>2, <2>1 DEF Use!Next, Use!Promised
<1> QED
  BY <1>1, <1>3, <1>4, <1>5

-----------------------------------------------------------------------------
(* Archives                                                                *)

(* A step of the archive that holds the lease, seen from the lease: it     *)
(* goes on, or it is on its way out with a row and an outcome.             *)
Only(x) ==
  /\ \A y \in Archivers \ {x} : archiver'[y] = archiver[y]
  /\ archiver'[x].prior \in {archiver[x].prior, "active"}
GoesOn(x, pc) == Only(x) /\ archiver'[x].pc = pc /\ state' = state
EndsAs(x, row, o) ==
  /\ Only(x) /\ state'[Owner] = row
  /\ archiver'[x].pc = "finishing" /\ archiver'[x].outcome = o

LEMMA ArchiverMoves ==
  ASSUME TypeOK, NEW x \in Archivers
  PROVE  /\ \A pc \in Leased : Step(x, pc) => Only(x) /\ archiver'[x].pc = pc
         /\ \A row \in States, o \in Outcomes : EndsWith(x, row, o) => EndsAs(x, row, o)
         /\ Fails(x) => EndsAs(x, "archive-failed", "failed")
         /\ Done(x) => EndsAs(x, "archived", "archived")
         /\ Declined(x) => ~moved /\ EndsAs(x, "kept", "reopened")
         /\ Abandons(x) => \E o \in {"failed", "reopened"} :
              EndsAs(x, archiver[x].prior, o) /\ (o = "failed" => archiver[x].prior = "archive-failed")
<1>1. ASSUME NEW pc \in Leased, Step(x, pc) PROVE Only(x) /\ archiver'[x].pc = pc
  BY <1>1 DEF TypeOK, Step, Only, Archives
<1>2. ASSUME NEW row \in States, NEW o \in Outcomes, EndsWith(x, row, o) PROVE EndsAs(x, row, o)
  BY <1>2, Sorts DEF TypeOK, EndsWith, EndsAs, Only, NoArchiver
<1>3. archiver[x].prior \in States /\ {"archive-failed", "archived", "kept"} \subseteq States
  BY DEF TypeOK, States, Retired, Archives
<1>4. {"failed", "archived", "reopened"} \subseteq Outcomes
  BY DEF Outcomes
<1>5. /\ Fails(x) => EndsAs(x, "archive-failed", "failed")
      /\ Done(x) => EndsAs(x, "archived", "archived")
  BY <1>2, <1>3, <1>4 DEF Fails, Done
<1>6. Declined(x) => ~moved /\ EndsAs(x, "kept", "reopened")
  BY <1>2, <1>3, <1>4 DEF Declined
<1>7. Abandons(x) => \E o \in {"failed", "reopened"} :
        EndsAs(x, archiver[x].prior, o) /\ (o = "failed" => archiver[x].prior = "archive-failed")
  BY <1>2, <1>3, <1>4 DEF Abandons
<1> QED
  BY <1>1, <1>2, <1>5, <1>6, <1>7

(* What an archive with the lease does to the requests and the tree:       *)
(* nothing, or it takes over, or it moves, or it retreats.                 *)
Still == /\ Admissions(Owner)' = Admissions(Owner) /\ Processes(Owner)' = Processes(Owner)
         /\ moved' = moved /\ client' = client
Advance(x) ==
  \/ /\ Still /\ archiver[x].pc \notin Alone
     /\ \E pc \in {"repairing", "waiting", "refreshing", "quiescing"} :
          /\ archiver'[x].pc = pc /\ state'[Owner] = "archiving"
          /\ pc = "repairing" <=> moved
          /\ pc \in Sealed => Admissions(Owner) = {}
  \/ /\ Still /\ archiver[x].pc \in Alone
     /\ archiver'[x].pc \in {"sharing", "moving"} /\ state'[Owner] = state[Owner]
     /\ archiver[x].pc \in {"checking", "sharing"}
  \/ /\ archiver[x].pc = "quiescing" /\ archiver'[x].pc = "checking"
     /\ ProcessesEnded(Owner)
     /\ state' = state /\ moved' = moved
  \/ /\ archiver[x].pc = "moving" /\ archiver'[x].pc = "recording"
     /\ moved' = TRUE /\ state' = state /\ client' = client
  \/ /\ Still /\ archiver'[x].pc = "finishing"
     /\ moved => state'[Owner] \in Retired /\ archiver'[x].outcome # "reopened"
     /\ state'[Owner] = "archived" => moved
     /\ archiver'[x].outcome # "reopened" => state'[Owner] \in Retired

LEMMA ArchiveEffects ==
  ASSUME TypeOK, ~overruled, Promise, NEW x \in Archivers, ArchiveStep(x), ~ArchiveFinishes(x)
  PROVE  /\ x \in Lessees /\ Only(x) /\ Advance(x)
         /\ gate'[Owner] = gate[Owner] /\ overruled' = overruled
<1> USE Sorts, ArchiverMoves DEF ArchiveFrame, treeVars, rowVars, history, GoesOn, EndsAs
<1>0. /\ {"marking", "repairing", "waiting", "refreshing", "quiescing", "checking", "sharing",
           "moving", "recording", "finishing"} = Leased
      /\ {"archive-failed", "archived", "archiving"} = Retired
      /\ Alone = {"checking", "sharing", "moving", "recording"}
      /\ Sealed = {"refreshing", "quiescing", "checking", "sharing", "moving", "recording"}
      /\ Working = {"repairing", "waiting", "refreshing", "quiescing", "checking", "sharing",
                    "moving", "recording"}
  BY DEF Leased, Retired, Alone, Sealed, Working
<1>s. ASSUME UNCHANGED <<client, moved>> PROVE Still
  BY <1>s DEF Still, Admissions, Holds, Processes
<1>m. moved => archiver[x].pc \in {"idle", "read", "marking", "repairing", "recording", "finishing"}
  BY <1>0 DEF Promise, MovedIsRetired, TypeOK, Archives
<1>r. /\ archiver[x].prior # "archived"
      /\ archiver[x].pc \in {"repairing", "recording"} => moved
  BY DEF Promise, RowFollowsGate
<1>w. archiver[x].pc \in Working => state[Owner] = "archiving"
  BY DEF Promise, WorkIsMarked
<1>a. archiver[x].pc \in Sealed => Admissions(Owner) = {}
  BY DEF Promise, SealedFromRequests
<1>1. CASE ArchiveMarks(x)
  <2>1. state'[Owner] = "archiving"
    BY <1>1 DEF ArchiveMarks, TypeOK
  <2> QED
    BY <1>0, <1>1, <1>s, <1>r, <2>1 DEF ArchiveMarks, Lessees, Advance
<1>2. CASE ArchiveRepairs(x)
  BY <1>0, <1>2, <1>s, <1>r DEF ArchiveRepairs, Lessees, Advance
<1>3. CASE ArchiveWaits(x)
  BY <1>0, <1>3, <1>s, <1>r, <1>m, <1>w DEF ArchiveWaits, Lessees, Advance
<1>4. CASE ArchiveRefreshes(x)
  BY <1>0, <1>4, <1>s, <1>r, <1>m, <1>w, <1>a DEF ArchiveRefreshes, Lessees, Advance
<1>5. CASE ArchiveQuiesces(x)
  BY <1>0, <1>5, <1>s, <1>r DEF ArchiveQuiesces, Lessees, Advance
<1>6. CASE ArchiveChecks(x)
  BY <1>0, <1>6, <1>s, <1>r, <1>m DEF ArchiveChecks, Lessees, Advance
<1>7. CASE ArchiveShares(x)
  <2>1. \A gs \in SUBSET LiveGuests :
          /\ WithGuestsRetired(gs)[Owner] = state[Owner]
          /\ GuestsRetired(gs) => gate'[Owner] = gate[Owner]
    BY DEF WithGuestsRetired, GuestsRetired, Retiring, LiveGuests
  <2>2. ~moved /\ archiver[x].pc = "sharing"
    BY <1>7, <1>m DEF ArchiveShares
  <2>3. CASE Abandons(x) /\ UNCHANGED <<gate, teardown>>
    BY <1>0, <1>7, <1>s, <1>r, <2>2, <2>3 DEF ArchiveShares, Lessees, Advance
  <2>4. CASE /\ GuestsRetired(LiveGuests)
             /\ state' = WithGuestsRetired(LiveGuests)
             /\ archiver' = [archiver EXCEPT ![x] = [NoArchiver EXCEPT !.pc = "moving"]]
    <3>1. Only(x) /\ archiver'[x].pc = "moving"
      BY <2>4 DEF TypeOK, NoArchiver, Only
    <3> QED
      BY <1>0, <1>7, <1>s, <1>r, <2>1, <2>2, <2>4, <3>1 DEF ArchiveShares, Lessees, Advance
  <2>5. ASSUME NEW gs \in SUBSET LiveGuests,
               GuestsRetired(gs),
               state' = [WithGuestsRetired(gs) EXCEPT ![Owner] = "archive-failed"],
               archiver' = [archiver EXCEPT ![x] =
                 [NoArchiver EXCEPT !.pc = "finishing", !.outcome = "failed"]]
        PROVE  /\ x \in Lessees /\ Only(x) /\ Advance(x)
               /\ gate'[Owner] = gate[Owner] /\ overruled' = overruled
    <3>1. Only(x) /\ archiver'[x].pc = "finishing" /\ archiver'[x].outcome = "failed"
      BY <2>5 DEF TypeOK, NoArchiver, Only
    <3>2. state'[Owner] = "archive-failed" /\ gate'[Owner] = gate[Owner]
      BY <2>1, <2>5, SharedTypes
    <3>3. Still /\ overruled' = overruled /\ x \in Lessees
      BY <1>0, <1>7, <1>s DEF ArchiveShares, Lessees
    <3>4. Advance(x)
      BY <1>0, <2>2, <3>1, <3>2, <3>3 DEF Advance
    <3> QED
      BY <3>1, <3>2, <3>3, <3>4
  <2> QED
    BY <1>7, <2>3, <2>4, <2>5 DEF ArchiveShares
<1>8. CASE ArchiveMoves(x)
  BY <1>0, <1>8, <1>s, <1>r DEF ArchiveMoves, Lessees, Advance
<1>9. CASE ArchiveRecords(x)
  BY <1>0, <1>9, <1>s, <1>r DEF ArchiveRecords, Lessees, Advance
<1> QED
  BY <1>1, <1>2, <1>3, <1>4, <1>5, <1>6, <1>7, <1>8, <1>9 DEF ArchiveStep

(* Ending the owner's processes leaves none of them and no new request. *)
LEMMA OwnerEnded ==
  ASSUME TypeOK, ProcessesEnded(Owner)
  PROVE  /\ Processes(Owner)' = {} /\ Admissions(Owner)' \subseteq Admissions(Owner)
         /\ \A c \in Clients : Past(c)' => Past(c)
         /\ \A c \in Clients : Looked(c)' => Looked(c)
BY DEF ProcessesEnded, Processes, Admissions, Holds, NoClient, Past, Looked, Arrived

(* No step of the archive that holds the lease breaks the promise. *)
LEMMA ArchiveKeepsPromise ==
  ASSUME TypeOK, MultitasksOnlyLook, ~overruled, Promise, NEW x \in Archivers, ArchiveStep(x), ~ArchiveFinishes(x)
  PROVE  Promise'
<1> USE DEF Promise
<1>0. /\ x \in Lessees /\ Only(x) /\ Advance(x)
      /\ gate'[Owner] = gate[Owner]
  BY ArchiveEffects
<1>1. archiver'[x].pc \in Leased /\ (archiver'[x].pc # "finishing" => archiver'[x].pc \in Working)
  BY <1>0 DEF Advance, Working, Leased
<1>2. \A y \in Archivers \ {x} : y \notin Lessees /\ archiver'[y] = archiver[y]
  BY <1>0 DEF OneLessee, Only
<1>3. Lessees' = Lessees
  BY <1>0, <1>1, <1>2 DEF Lessees
<1>4. OneLessee' /\ LeasesClose'
  BY <1>0, <1>3 DEF OneLessee, LeasesClose
<1>5. \A y \in Archivers \ {x} : archiver'[y].pc \notin Leased
  BY <1>2 DEF Lessees
<1>6. WorkIsMarked'
  <2>1. archiver'[x].pc \in Working => state'[Owner] = "archiving"
    BY <1>0 DEF Advance, WorkIsMarked, Working, Alone, Leased
  <2> QED
    BY <1>5, <2>1 DEF WorkIsMarked, Working
<1>7. SealedFromRequests' /\ AloneWithTree'
  <2>1. archiver'[x].pc \in Sealed => Admissions(Owner)' = {}
    BY <1>0, OwnerEnded DEF Advance, Still, SealedFromRequests, Sealed, Alone, Admissions, Holds
  <2>2. archiver'[x].pc \in Alone => Processes(Owner)' = {}
    BY <1>0, OwnerEnded DEF Advance, Still, AloneWithTree, Alone, Processes
  <2> QED
    BY <1>5, <2>1, <2>2 DEF SealedFromRequests, AloneWithTree, Sealed, Alone, Leased
<1>8. MovedIsRetired'
  <2> SUFFICES ASSUME moved' PROVE MovedIsRetired'
    BY DEF MovedIsRetired
  <2>1. /\ state'[Owner] \in Retired
        /\ archiver'[x].pc \in {"repairing", "recording", "finishing"}
        /\ archiver'[x].pc = "finishing" => archiver'[x].outcome # "reopened"
    BY <1>0 DEF Advance, Still, MovedIsRetired, WorkIsMarked, Working, Leased, Alone, Retired
  <2>2. \A y \in Archivers \ {x} : archiver'[y].pc \notin Leased
    BY <1>5
  <2>3. ASSUME NEW c \in Clients PROVE ~Past(c)' /\ (Looked(c)' => ~IsOpen(Owner)')
    <3>1. ~IsOpen(Owner) /\ ~IsOpen(Owner)'
      BY <1>0 DEF LeasesClose, IsOpen
    <3>2. CASE moved
      <4>1. client' = client
        BY <1>0, <3>2 DEF Advance, Still, MovedIsRetired
      <4> QED
        BY <3>1, <3>2, <4>1 DEF MovedIsRetired, Past, Looked
    <3>3. CASE ~moved
      <4>1. archiver[x].pc = "moving" /\ client' = client
        BY <1>0, <3>3 DEF Advance, Still
      <4>2. Admissions(Owner) = {} /\ Processes(Owner) = {}
        BY <4>1 DEF SealedFromRequests, AloneWithTree, Sealed, Alone
      <4> QED
        BY <3>1, <4>1, <4>2 DEF MultitasksOnlyLook, Past, Admissions, Holds, Processes, Arrived
    <3> QED
      BY <3>2, <3>3
  <2> QED
    BY <2>1, <2>2, <2>3 DEF MovedIsRetired, Past, Looked, Leased
<1>9. RowFollowsGate'
  <2>1. \A y \in Archivers : archiver'[y].prior # "archived"
    BY <1>0 DEF RowFollowsGate, Only
  <2>2. state'[Owner] = "archived" => moved'
    BY <1>0 DEF RowFollowsGate, Advance, Still
  <2>3. archiver'[x].pc \in {"repairing", "recording"} => moved'
    BY <1>0 DEF RowFollowsGate, Advance, Still
  <2>4. archiver'[x].pc = "finishing" /\ archiver'[x].outcome # "reopened" => state'[Owner] \in Retired
    BY <1>0 DEF Advance
  <2> QED
    BY <1>0, <1>3, <1>5, <2>1, <2>2, <2>3, <2>4 DEF RowFollowsGate, Leased
<1> QED
  BY <1>4, <1>6, <1>7, <1>8, <1>9

(* Every step of the archive that holds the lease is an abstract step. *)
LEMMA ArchiveImplements ==
  ASSUME TypeOK, MultitasksOnlyLook, ~overruled, Promise, NEW x \in Archivers,
         ArchiveStep(x), ~ArchiveFinishes(x)
  PROVE  [Use!Next]_(Use!vars)
<1> USE DEF Promise
<1> DEFINE alone == \E y \in Archivers : archiver[y].pc \in Alone
<1>0. /\ x \in Lessees /\ Only(x) /\ Advance(x)
      /\ overruled' = overruled
  BY ArchiveEffects
<1>1. \A y \in Archivers \ {x} : archiver[y].pc \notin Leased /\ archiver'[y].pc \notin Leased
  BY <1>0 DEF OneLessee, Only, Lessees
<1>2. /\ alone <=> archiver[x].pc \in Alone
      /\ alone' <=> archiver'[x].pc \in Alone
  BY <1>1 DEF Alone, Leased
<1>3. archiver'[x].pc \in Leased
  BY <1>0 DEF Advance, Leased
<1>4. Lessees' = Lessees /\ Lessees # {}
  BY <1>0, <1>1, <1>3 DEF Lessees
<1>5. CASE Still /\ archiver'[x].pc \notin Alone /\ archiver[x].pc \notin Alone
  BY <1>0, <1>2, <1>4, <1>5 DEF Still, Use!vars, Lessees
<1>6. CASE Still /\ archiver'[x].pc \notin Alone /\ archiver[x].pc \in Alone
  <2>1. Use!Retreat
    BY <1>2, <1>4, <1>6 DEF Still, Use!Retreat, Lessees
  <2> QED
    BY <1>0, <2>1 DEF Use!Next, Use!Promised
<1>7. CASE Still /\ archiver'[x].pc \in Alone /\ archiver[x].pc \in Alone
  BY <1>0, <1>2, <1>4, <1>7 DEF Still, Use!vars, Lessees
<1>8. CASE archiver[x].pc = "quiescing" /\ archiver'[x].pc = "checking" /\ ProcessesEnded(Owner) /\ moved' = moved
  <2>1. Admissions(Owner) = {} /\ Admissions(Owner)' = {} /\ Processes(Owner)' = {}
    BY <1>8, OwnerEnded DEF SealedFromRequests, Sealed
  <2>2. Use!TakeOver
    BY <1>2, <1>4, <1>8, <2>1 DEF Use!TakeOver, Lessees, Alone
  <2> QED
    BY <1>0, <2>2 DEF Use!Next, Use!Promised
<1>9. CASE archiver[x].pc = "moving" /\ archiver'[x].pc = "recording" /\ moved' = TRUE /\ client' = client
  <2>1. Admissions(Owner)' = Admissions(Owner) /\ Processes(Owner)' = Processes(Owner)
    BY <1>9 DEF Admissions, Processes, Holds
  <2>2. Use!Move
    BY <1>2, <1>4, <1>9, <2>1 DEF Use!Move, Lessees, Alone
  <2> QED
    BY <1>0, <2>2 DEF Use!Next, Use!Promised
<1> QED
  BY <1>0, <1>5, <1>6, <1>7, <1>8, <1>9 DEF Advance, Alone

(* Handing the lease back: the gate forgets an outcome only if it lost its *)
(* entry, and never reopens over a moved tree.                             *)
LEMMA FinishKeepsPromise ==
  ASSUME TypeOK, ~overruled, Promise, NEW x \in Archivers, ArchiveFinishes(x)
  PROVE  Promise' /\ Use!Next
<1> USE Sorts DEF Promise, ArchiveFrame, treeVars, rowVars, history
<1>0. archiver[x].pc = "finishing" /\ x \in Lessees /\ gate[Owner] = "archiving"
  BY DEF ArchiveFinishes, Lessees, Leased, LeasesClose
<1>1. Only(x) /\ archiver'[x].pc = "idle"
  BY DEF ArchiveFinishes, NoArchiver, Only, TypeOK
<1>2. \A y \in Archivers : archiver'[y].pc \notin Leased
  BY <1>0, <1>1 DEF OneLessee, Only, Lessees, Leased
<1>3. \A y \in Archivers : archiver[y].pc \notin Alone /\ archiver'[y].pc \notin Alone
  BY <1>0, <1>2 DEF OneLessee, Lessees, Leased, Alone
<1>4. /\ Admissions(Owner)' = Admissions(Owner) /\ Processes(Owner)' = Processes(Owner)
      /\ client' = client /\ state' = state /\ moved' = moved /\ overruled' = overruled
  BY DEF ArchiveFinishes, Admissions, Processes, Holds
<1>5. OneLessee' /\ LeasesClose' /\ WorkIsMarked' /\ SealedFromRequests' /\ AloneWithTree'
  BY <1>2, <1>3 DEF OneLessee, LeasesClose, WorkIsMarked, SealedFromRequests, AloneWithTree,
     Lessees, Working, Sealed, Leased, Alone
<1>6. MovedIsRetired'
  <2> SUFFICES ASSUME moved' PROVE MovedIsRetired'
    BY DEF MovedIsRetired
  <2>1. archiver[x].outcome \in {"failed", "archived"}
    BY <1>0, <1>4 DEF MovedIsRetired, TypeOK, Archives, Outcomes
  <2>2. gate'[Owner] = archiver[x].outcome
    BY <1>0, <2>1 DEF ArchiveFinishes, Finished, TypeOK
  <2> QED
    BY <1>2, <1>4, <2>1, <2>2 DEF MovedIsRetired, IsOpen, Leased
<1>8. RowFollowsGate'
  <2>1. CASE archiver[x].outcome = "reopened"
    <3>1. IsOpen(Owner)'
      BY <1>0, <2>1 DEF ArchiveFinishes, Finished, Opened, IsOpen, TypeOK
    <3> QED
      BY <1>1, <1>2, <1>4, <3>1 DEF RowFollowsGate, Only, Leased
  <2>2. CASE archiver[x].outcome # "reopened"
    BY <1>0, <1>1, <1>2, <1>4, <2>2 DEF RowFollowsGate, Only, Leased
  <2> QED
    BY <2>1, <2>2
<1>7. Use!HandBack
  BY <1>2, <1>3, <1>4 DEF Use!HandBack
<1> QED
  BY <1>4, <1>5, <1>6, <1>7, <1>8 DEF Use!Next, Use!Promised

-----------------------------------------------------------------------------
(* The invariant is inductive, and every step is an abstract step          *)

(* A step that leaves alone all that the promise is about *)
LEMMA Elsewhere ==
  ASSUME Promise, UNCHANGED <<archiver, moved, overruled>>,
         state'[Owner] = state[Owner], gate'[Owner] = gate[Owner],
         Admissions(Owner)' = Admissions(Owner), Processes(Owner)' = Processes(Owner),
         \A c \in Clients : (Past(c)' => Past(c)) /\ (Looked(c)' => Looked(c))
  PROVE  Promise' /\ UNCHANGED (Use!vars)
<1>1. Lessees' = Lessees /\ (IsOpen(Owner)' <=> IsOpen(Owner))
  BY DEF Lessees, IsOpen
<1>2. OneLessee' /\ LeasesClose' /\ WorkIsMarked' /\ SealedFromRequests' /\ AloneWithTree' /\ RowFollowsGate'
  BY <1>1 DEF Promise, OneLessee, LeasesClose, WorkIsMarked, SealedFromRequests, AloneWithTree,
     RowFollowsGate
<1>3. MovedIsRetired'
  BY <1>1 DEF Promise, MovedIsRetired, Past, Looked
<1>4. UNCHANGED (Use!vars)
  BY <1>1 DEF Use!vars, Lessees
<1> QED
  BY <1>2, <1>3, <1>4 DEF Promise

(* Every step keeps the promise until somebody overrules an archive, and   *)
(* is until then a step of the abstract gate.                              *)
LEMMA NextPromise ==
  ASSUME TypeOK, MultitasksOnlyLook, ~overruled, Promise, [Next]_vars, ~overruled'
  PROVE  Promise' /\ [Use!Next]_(Use!vars)
<1> USE Sorts DEF ArchiveFrame, treeVars, rowVars, history
<1>1. ASSUME NEW c \in Clients, ClientStep(c) PROVE Promise' /\ Use!Next
  BY <1>1, ClientKeepsPromise, ClientImplements
<1>2. ASSUME NEW x \in Archivers, ArchiveStep(x) PROVE Promise' /\ [Use!Next]_(Use!vars)
  BY <1>2, ArchiveKeepsPromise, ArchiveImplements, FinishKeepsPromise
<1>3. ASSUME NEW x \in Archivers, ArchiveReads(x) PROVE Promise' /\ UNCHANGED (Use!vars)
  <2>1. PICK force \in BOOLEAN :
          archiver' = [archiver EXCEPT ![x].pc = "read", ![x].prior = state[Owner], ![x].force = force]
    BY <1>3 DEF ArchiveReads
  <2>2. /\ archiver[x].pc = "idle" /\ archiver'[x].pc = "read" /\ archiver'[x].prior # "archived"
        /\ \A y \in Archivers \ {x} : archiver'[y] = archiver[y]
    BY <1>3, <2>1 DEF ArchiveReads, TypeOK, Archives
  <2>3. /\ Lessees' = Lessees /\ (IsOpen(Owner)' <=> IsOpen(Owner))
        /\ UNCHANGED <<state, gate, client, moved, overruled>>
    BY <1>3, <2>2 DEF ArchiveReads, Lessees, IsOpen, Leased
  <2>4. /\ Admissions(Owner)' = Admissions(Owner) /\ Processes(Owner)' = Processes(Owner)
    BY <2>3 DEF Admissions, Processes, Holds
  <2>5. /\ \A y \in Archivers, pcs \in SUBSET Leased : archiver'[y].pc \in pcs <=> archiver[y].pc \in pcs
    BY <2>2 DEF Leased
  <2>6. Working \subseteq Leased /\ Sealed \subseteq Leased /\ Alone \subseteq Leased
    BY DEF Working, Sealed, Alone, Leased
  <2>7. OneLessee' /\ LeasesClose' /\ WorkIsMarked' /\ SealedFromRequests' /\ AloneWithTree'
    BY <2>3, <2>4, <2>5, <2>6 DEF Promise, OneLessee, LeasesClose, WorkIsMarked,
       SealedFromRequests, AloneWithTree
  <2>8. MovedIsRetired' /\ RowFollowsGate'
    BY <2>2, <2>3 DEF Promise, MovedIsRetired, RowFollowsGate
  <2>9. (\E y \in Archivers : archiver'[y].pc \in Alone) <=> (\E y \in Archivers : archiver[y].pc \in Alone)
    BY <2>5, <2>6
  <2> QED
    BY <2>3, <2>4, <2>7, <2>8, <2>9 DEF Promise, Use!vars, Lessees
<1>4. ASSUME NEW x \in Archivers, ArchiveBegins(x) PROVE Promise' /\ [Use!Next]_(Use!vars)
  <2>0. archiver[x].pc = "read" /\ UNCHANGED <<state, client, moved, overruled>>
    BY <1>4 DEF ArchiveBegins
  <2>1. Admissions(Owner)' = Admissions(Owner) /\ Processes(Owner)' = Processes(Owner)
    BY <2>0 DEF Admissions, Processes, Holds
  <2>2. \A y \in Archivers \ {x} : archiver'[y] = archiver[y]
    BY <1>4, ArchiverMoves DEF ArchiveBegins, Only, TypeOK, Leased
  <2>3. CASE ArchiveRefused(Owner)
    <3>1. archiver'[x].pc = "idle" /\ archiver'[x].prior # "archived" /\ UNCHANGED gate
      <4>1. archiver' = [archiver EXCEPT ![x] = NoArchiver] /\ UNCHANGED gate
        BY <1>4, <2>3 DEF ArchiveBegins
      <4> QED
        BY <4>1 DEF TypeOK, NoArchiver
    <3>2. /\ \A y \in Archivers, pcs \in SUBSET Leased : archiver'[y].pc \in pcs <=> archiver[y].pc \in pcs
      BY <2>0, <2>2, <3>1 DEF Leased
    <3>3. Lessees' = Lessees /\ (IsOpen(Owner)' <=> IsOpen(Owner))
      BY <3>1, <3>2 DEF Lessees, IsOpen
    <3>4. Working \subseteq Leased /\ Sealed \subseteq Leased /\ Alone \subseteq Leased
      BY DEF Working, Sealed, Alone, Leased
    <3>5. OneLessee' /\ LeasesClose' /\ WorkIsMarked' /\ SealedFromRequests' /\ AloneWithTree'
      BY <2>0, <2>1, <3>1, <3>2, <3>3, <3>4 DEF Promise, OneLessee, LeasesClose, WorkIsMarked,
         SealedFromRequests, AloneWithTree
    <3>6. MovedIsRetired' /\ RowFollowsGate'
      BY <2>0, <2>2, <3>1, <3>3 DEF Promise, MovedIsRetired, RowFollowsGate
    <3>7. (\E y \in Archivers : archiver'[y].pc \in Alone) <=> (\E y \in Archivers : archiver[y].pc \in Alone)
      BY <3>2, <3>4
    <3> QED
      BY <2>0, <2>1, <3>3, <3>5, <3>6, <3>7 DEF Promise, Use!vars, Lessees
  <2>4. CASE ~ArchiveRefused(Owner)
    <3>1. gate'[Owner] = "archiving" /\ archiver'[x].pc = "marking" /\ Only(x)
      BY <1>4, <2>4, ArchiverMoves DEF ArchiveBegins, TypeOK, Leased
    <3>2. Lessees = {} /\ Lessees' = {x}
      BY <2>2, <2>4, <3>1 DEF Promise, LeasesClose, ArchiveRefused, Lessees, Leased
    <3>3. \A y \in Archivers : archiver[y].pc \notin Leased /\ archiver'[y].pc \notin Leased \ {"marking"}
      BY <2>2, <3>1, <3>2 DEF Lessees
    <3>4. OneLessee' /\ LeasesClose' /\ WorkIsMarked' /\ SealedFromRequests' /\ AloneWithTree'
      BY <3>1, <3>2, <3>3 DEF OneLessee, LeasesClose, WorkIsMarked, SealedFromRequests, AloneWithTree,
         Working, Sealed, Alone, Leased
    <3>5. MovedIsRetired' /\ RowFollowsGate'
      BY <2>0, <2>2, <3>1, <3>2, <3>3 DEF Promise, MovedIsRetired, RowFollowsGate, Only, IsOpen, Leased
    <3>6. Use!Close(x)
      <4>1. Alone \subseteq Leased \ {"marking"}
        BY DEF Alone, Leased
      <4>2. \A y \in Archivers : archiver[y].pc \notin Alone /\ archiver'[y].pc \notin Alone
        BY <3>3, <4>1
      <4> QED
        BY <2>0, <2>1, <3>2, <4>2 DEF Use!Close, Lessees
    <3> QED
      BY <2>0, <3>4, <3>5, <3>6 DEF Promise, Use!Next, Use!Promised
  <2> QED
    BY <2>3, <2>4
<1>5. ASSUME NEW g \in Guests, GuestArchived(g) PROVE Promise' /\ UNCHANGED (Use!vars)
  <2>1. state'[Owner] = state[Owner] /\ gate'[Owner] = gate[Owner]
    BY <1>5 DEF GuestArchived, GuestsRetired, WithGuestsRetired, Retiring
  <2>2. /\ Admissions(Owner)' = Admissions(Owner) /\ Processes(Owner)' = Processes(Owner)
        /\ \A c \in Clients : (Past(c)' => Past(c)) /\ (Looked(c)' => Looked(c))
    BY <1>5 DEF GuestArchived, Admissions, Processes, Holds, Past, Looked
  <2> QED
    BY <1>5, <2>1, <2>2, Elsewhere DEF GuestArchived
<1>6. ASSUME NEW g \in Guests, GuestTornDown(g) PROVE Promise' /\ UNCHANGED (Use!vars)
  <2>1. \A c \in Clients : client'[c] = client[c] \/ (client'[c].pc = "idle" /\ client[c].ws # Owner)
    BY <1>6 DEF GuestTornDown, ProcessesEnded, Processes, NoClient
  <2>2. /\ Admissions(Owner)' = Admissions(Owner) /\ Processes(Owner)' = Processes(Owner)
        /\ \A c \in Clients : (Past(c)' => Past(c)) /\ (Looked(c)' => Looked(c))
    BY <2>1 DEF Admissions, Processes, Holds, Past, Looked, Arrived
  <2> QED
    BY <1>6, <2>2, Elsewhere DEF GuestTornDown
<1>7. CASE Keep
  <2>1. ~moved /\ Lessees = {} /\ UNCHANGED <<archiver, client, moved, overruled>>
    BY <1>7 DEF Keep, Lessees, Leased, TypeOK
  <2>2. /\ Lessees' = {} /\ \A x \in Archivers : archiver'[x].pc \notin Leased
        /\ Admissions(Owner)' = Admissions(Owner) /\ Processes(Owner)' = Processes(Owner)
    BY <2>1 DEF Lessees, Admissions, Processes, Holds
  <2>3. state'[Owner] = "kept" /\ (IsOpen(Owner) => IsOpen(Owner)')
    BY <1>7 DEF Keep, TypeOK, Opened, IsOpen
  <2>4. IsOpen(Owner)'
    <3>1. CASE state[Owner] = "archive-failed"
      BY <1>7, <3>1 DEF Keep, TypeOK, Opened, IsOpen
    <3>2. CASE state[Owner] # "archive-failed"
      BY <1>7, <2>1, <2>3, <3>2 DEF Keep, Promise, RowFollowsGate, Retired
    <3> QED
      BY <3>1, <3>2
  <2>5. Promise'
    BY <2>1, <2>2, <2>3, <2>4 DEF Promise, OneLessee, LeasesClose, WorkIsMarked, SealedFromRequests,
       AloneWithTree, MovedIsRetired, RowFollowsGate, Working, Sealed, Alone, Leased
  <2> QED
    BY <2>1, <2>2, <2>5 DEF Use!vars, Lessees
<1>8. CASE Crash
  <2>1. /\ \A x \in Archivers : archiver'[x].pc = "idle" /\ archiver'[x].prior = "active"
        /\ \A c \in Clients : client'[c].pc = "idle"
        /\ moved' = moved /\ overruled' = overruled /\ IsOpen(Owner)'
    BY <1>8 DEF Crash, NoArchiver, NoClient, IsOpen
  <2>2. /\ Lessees' = {} /\ Admissions(Owner)' = {} /\ Processes(Owner)' = {}
        /\ ~\E x \in Archivers : archiver'[x].pc \in Alone
    BY <2>1 DEF Lessees, Admissions, Processes, Holds, Leased, Alone
  <2>3. state'[Owner] \in Recovered
    BY <1>8 DEF Crash, TypeOK
  <2>4. /\ moved => state'[Owner] \in Retired
        /\ state'[Owner] = "archived" => moved
    BY <2>3 DEF Recovered, Retired, Promise, MovedIsRetired, RowFollowsGate
  <2>5. Promise'
    BY <2>1, <2>2, <2>4 DEF Promise, OneLessee, LeasesClose, WorkIsMarked, SealedFromRequests,
       AloneWithTree, MovedIsRetired, RowFollowsGate, Lessees, Working, Sealed, Alone, Leased, Arrived
  <2>6. Use!Restart
    BY <2>1, <2>2 DEF Use!Restart, Lessees
  <2> QED
    BY <2>1, <2>5, <2>6 DEF Use!Next, Use!Promised
<1>9. CASE UNCHANGED vars
  BY <1>9, Elsewhere DEF vars, Admissions, Processes, Holds, Past, Looked
<1> QED
  BY <1>1, <1>2, <1>3, <1>4, <1>5, <1>6, <1>7, <1>8, <1>9 DEF Next

(* The app starts with the promise kept. *)
LEMMA InitIInv == Init => IInv /\ Use!Init
<1> SUFFICES ASSUME Init PROVE IInv /\ Use!Init
  OBVIOUS
<1>1. TypeOK
  BY InitTypeOK
<1>2. /\ \A x \in Archivers : archiver[x].pc = "idle" /\ archiver[x].prior = "active"
      /\ \A c \in Clients : client[c].pc = "idle"
      /\ ~moved /\ ~overruled /\ IsOpen(Owner) /\ state[Owner] = "active"
  BY Sorts DEF Init, NoArchiver, NoClient, IsOpen
<1>3. /\ Lessees = {} /\ Admissions(Owner) = {} /\ Processes(Owner) = {}
      /\ ~\E x \in Archivers : archiver[x].pc \in Alone
  BY <1>2 DEF Lessees, Admissions, Processes, Holds, Leased, Alone
<1>4. Promise /\ MultitasksOnlyLook
  BY <1>2, <1>3 DEF Promise, MultitasksOnlyLook, OneLessee, LeasesClose, WorkIsMarked,
     SealedFromRequests, AloneWithTree, MovedIsRetired, RowFollowsGate, Lessees, Working, Sealed,
     Alone, Leased
<1>5. Use!Init
  BY <1>2, <1>3 DEF Use!Init, Lessees
<1> QED
  BY <1>1, <1>4, <1>5 DEF IInv

(* No request but a multitask skips the gate. *)
LEMMA NextMultitasks ==
  ASSUME TypeOK, MultitasksOnlyLook, [Next]_vars
  PROVE  MultitasksOnlyLook'
<1>1. ASSUME NEW c \in Clients, ClientStep(c) PROVE MultitasksOnlyLook'
  BY <1>1, ClientEffects DEF MultitasksOnlyLook, Stays, Progress
<1>2. ASSUME \A c \in Clients : client'[c] = client[c] \/ client'[c] = NoClient PROVE MultitasksOnlyLook'
  BY <1>2 DEF MultitasksOnlyLook, NoClient
<1>3. ASSUME NEW x \in Archivers, ArchiveStep(x) PROVE MultitasksOnlyLook'
  <2>1. client' = client \/ ProcessesEnded(Owner)
    BY <1>3 DEF ArchiveStep, ArchiveMarks, ArchiveRepairs, ArchiveWaits, ArchiveRefreshes,
       ArchiveQuiesces, ArchiveChecks, ArchiveShares, ArchiveMoves, ArchiveRecords, ArchiveFinishes
  <2> QED
    BY <1>2, <2>1 DEF ProcessesEnded
<1>4. ASSUME NEW x \in Archivers, ArchiveReads(x) \/ ArchiveBegins(x) PROVE MultitasksOnlyLook'
  BY <1>2, <1>4 DEF ArchiveReads, ArchiveBegins
<1>5. ASSUME NEW g \in Guests, GuestArchived(g) \/ GuestTornDown(g) PROVE MultitasksOnlyLook'
  BY <1>2, <1>5 DEF GuestArchived, GuestTornDown, ProcessesEnded
<1>6. CASE Keep \/ Crash \/ UNCHANGED vars
  BY <1>2, <1>6 DEF Keep, Crash, vars
<1> QED
  BY <1>1, <1>3, <1>4, <1>5, <1>6 DEF Next

(* An archive that was overruled stays overruled. *)
LEMMA OverruledForGood == ASSUME TypeOK, [Next]_vars, overruled PROVE overruled'
<1> USE DEF ArchiveFrame, ClientFrame, treeVars, rowVars, history
<1>1. ASSUME NEW c \in Clients, ClientStep(c) PROVE overruled'
  BY <1>1 DEF ClientStep, ClientLooks, CommandAdmitted, ClientAdmitted, AdmittedLooks, ProcessStarts,
     ProcessRuns, ProcessWrites, ProcessEnds, LaunchAddsRow, MultitaskAddsRow, RowAdded
<1>2. ASSUME NEW x \in Archivers, ArchiveReads(x) \/ ArchiveBegins(x) \/ ArchiveStep(x) PROVE overruled'
  BY <1>2 DEF ArchiveReads, ArchiveBegins, ArchiveStep, ArchiveMarks, ArchiveRepairs, ArchiveWaits,
     ArchiveRefreshes, ArchiveQuiesces, ArchiveChecks, ArchiveShares, ArchiveMoves, ArchiveRecords,
     ArchiveFinishes
<1> QED
  BY <1>1, <1>2 DEF Next, GuestArchived, GuestTornDown, Keep, Crash, vars

LEMMA NextIInv == IInv /\ [Next]_vars => IInv' /\ [Use!Next]_(Use!vars)
<1> SUFFICES ASSUME IInv, [Next]_vars PROVE IInv' /\ [Use!Next]_(Use!vars)
  OBVIOUS
<1>1. TypeOK' /\ MultitasksOnlyLook'
  BY NextTypeOK, NextMultitasks DEF IInv
<1>2. CASE overruled'
  BY <1>1, <1>2 DEF IInv, Use!Next
<1>3. CASE ~overruled'
  BY <1>1, <1>3, OverruledForGood, NextPromise DEF IInv
<1> QED
  BY <1>2, <1>3

(* The gate, the rows and the services keep the promise of ExclusiveUse,   *)
(* for any rows, clients, archivers and bounds: lifecycle.rs and           *)
(* archive_with implement an exclusive use of the worktree.                *)
THEOREM Implements == Spec => KeepsPromise
<1>1. Init => IInv /\ Use!Init
  BY InitIInv
<1>2. IInv /\ [Next]_vars => IInv' /\ [Use!Next]_(Use!vars)
  BY NextIInv
<1> QED
  BY <1>1, <1>2, PTL DEF Spec, KeepsPromise, Use!Spec

(* Until keep overrules one, one archive at a time holds the lease.        *)
THEOREM ArchivesAreSingle == Spec => []OneArchive
<1>1. IInv => OneArchive
  BY DEF IInv, Promise, OneLessee, Lessees, OneArchive
<1> QED
  BY <1>1, InitIInv, NextIInv, PTL DEF Spec

(* From the end of the quiescence to the record of the archive nobody is   *)
(* in the owner's worktree and nobody is on the way.                       *)
THEOREM ArchivesAreAlone == Spec => []NoLateAttach
<1>1. IInv => NoLateAttach
  BY DEF IInv, Promise, SealedFromRequests, AloneWithTree, Sealed, Alone, NoLateAttach
<1> QED
  BY <1>1, InitIInv, NextIInv, PTL DEF Spec

(* No process of the owner runs on a tree that was moved, across failures, *)
(* retries and restarts.                                                   *)
THEOREM MovedTreesAreUnused == Spec => []MovedTreeUnused
<1>1. IInv => MovedTreeUnused
  BY DEF IInv, Promise, MovedIsRetired, MovedTreeUnused, Processes, Arrived
<1> QED
  BY <1>1, InitIInv, NextIInv, PTL DEF Spec

(* A row that is offered for work and that no archive holds is open.       *)
THEOREM UsableRowsAreOpen == Spec => []UsableRowIsOpen
<1>1. IInv => UsableRowIsOpen
  BY DEF IInv, Promise, RowFollowsGate, UsableRowIsOpen, Lessees, Retired
<1> QED
  BY <1>1, InitIInv, NextIInv, PTL DEF Spec

-----------------------------------------------------------------------------
(* What the abstract gate amounts to                                       *)

(* Being alone takes the lease, and nobody is left then. *)
Exclusive ==
  ~overruled =>
    /\ (\E x \in Archivers : archiver[x].pc \in Alone)
         => Lessees # {} /\ Admissions(Owner) = {} /\ Processes(Owner) = {}
    /\ moved => Processes(Owner) = {}

(* Every step of the abstract gate keeps it. *)
LEMMA PromiseIsExclusive == KeepsPromise => []Exclusive
<1>1. Use!Init => Exclusive
  BY DEF Use!Init, Exclusive
<1>2. Exclusive /\ [Use!Next]_(Use!vars) => Exclusive'
  <2> DEFINE alone == \E x \in Archivers : archiver[x].pc \in Alone
             entering == Admissions(Owner)
             using == Processes(Owner)
  <2> SUFFICES ASSUME Exclusive, [Use!Next]_(Use!vars), ~overruled' PROVE Exclusive'
    BY DEF Exclusive
  <2>0. Exclusive => (~overruled => /\ alone => Lessees # {} /\ entering = {} /\ using = {}
                                    /\ moved => using = {})
    BY DEF Exclusive
  <2>e. (/\ alone' => Lessees' # {} /\ entering' = {} /\ using' = {}
         /\ moved' => using' = {}) => Exclusive'
    BY DEF Exclusive
  <2>1. CASE UNCHANGED (Use!vars)
    <3>1. UNCHANGED <<entering, using, Lessees, alone, moved, overruled>>
      BY <2>1 DEF Use!vars, Lessees
    <3> HIDE DEF alone, entering, using
    <3> QED
      BY <2>0, <2>e, <3>1
  <2>2. CASE ~overruled /\ Use!Promised
    <3>1. CASE \E u \in Clients : Use!Enter(u) \/ Use!Start(u)
      <4>1. UNCHANGED <<Lessees, alone, moved>> /\ (Lessees = {} \/ entering # {})
            /\ (using' = using \/ ~moved)
        BY <3>1 DEF Use!Enter, Use!Start, Lessees
      <4>2. Lessees = {} \/ (entering' = entering)
        BY <3>1 DEF Use!Enter, Use!Start, Lessees
      <4> HIDE DEF alone, entering, using
      <4> QED
        BY <2>0, <2>2, <2>e, <4>1, <4>2
    <3>2. CASE \E x \in Archivers : Use!Close(x)
      <4>1. UNCHANGED <<entering, using, alone, moved>> /\ Lessees = {}
        BY <3>2 DEF Use!Close, Lessees
      <4> HIDE DEF alone, entering, using
      <4> QED
        BY <2>0, <2>2, <2>e, <4>1
    <3>3. CASE Use!Leave \/ Use!Restart
      <4>1. entering' \subseteq entering /\ using' \subseteq using /\ moved' = moved
            /\ (~alone' \/ UNCHANGED <<Lessees, alone>>)
        BY <3>3 DEF Use!Leave, Use!Restart, Lessees
      <4> HIDE DEF alone, entering, using
      <4> QED
        BY <2>0, <2>2, <2>e, <4>1
    <3>4. CASE Use!TakeOver
      <4>1. Lessees' # {} /\ entering' = {} /\ using' = {}
        BY <3>4 DEF Use!TakeOver, Lessees
      <4> HIDE DEF alone, entering, using
      <4> QED
        BY <2>e, <4>1
    <3>5. CASE Use!Retreat \/ Use!HandBack
      <4>1. UNCHANGED <<using, moved>> /\ ~alone'
        BY <3>5 DEF Use!Retreat, Use!HandBack
      <4> HIDE DEF alone, entering, using
      <4> QED
        BY <2>0, <2>2, <2>e, <4>1
    <3>6. CASE Use!Move
      <4>1. UNCHANGED <<entering, using, Lessees, alone>> /\ alone
        BY <3>6 DEF Use!Move, Lessees
      <4> HIDE DEF alone, entering, using
      <4> QED
        BY <2>0, <2>2, <2>e, <4>1
    <3> QED
      BY <2>2, <3>1, <3>2, <3>3, <3>4, <3>5, <3>6 DEF Use!Promised
  <2> QED
    BY <2>1, <2>2 DEF Use!Next
<1> QED
  BY <1>1, <1>2, PTL DEF KeepsPromise, Use!Spec

(* An archive that is alone with the tree is undisturbed until it retreats: *)
(* what wait_for_admissions and the quiescence of archive_with are for.     *)
THEOREM AloneIsAlone == KeepsPromise => []Use!Undisturbed
<1>1. Exclusive => Use!Undisturbed
  BY DEF Exclusive, Use!Undisturbed
<1> QED
  BY <1>1, PromiseIsExclusive, PTL

(* A tree that was moved to the recovery directory is used by nobody. *)
THEOREM GoneIsUnused == KeepsPromise => []Use!NoUseAfterMove
<1>1. Exclusive => Use!NoUseAfterMove
  BY DEF Exclusive, Use!NoUseAfterMove
<1> QED
  BY <1>1, PromiseIsExclusive, PTL

-----------------------------------------------------------------------------
(* The rows of the checkout go down with the owner                         *)

(* The gate of a guest is closed only together with its row, so that an    *)
(* archive which skips a closed guest leaves no row behind.                *)
GuestGatesFollow == \A g \in Guests : ArchiveRefused(g) => state[g] = "archived"

(* A launch asks the owner of the checkout. *)
LaunchesAtOwner == \A c \in Clients : client[c].kind = "launch" => client[c].ws = Owner

(* From the scan of the guests on, whether the tree has been moved yet or  *)
(* not, no launched row is alive.                                          *)
Scanned == moved \/ \E x \in Archivers : archiver[x].pc = "moving"
LaunchedDown == \A g \in Launched : state[g] \in {"absent", "archived"}

Rows == GuestGatesFollow /\ LaunchesAtOwner /\ (Scanned /\ ~overruled => LaunchedDown)

(* What any step does to a guest: its row stays and its gate at most       *)
(* opens, or both are archived, or its row is added.                       *)
Same(g)    == state'[g] = state[g] /\ gate'[g] \in {gate[g], "none", "open"}
Down(g)    == state'[g] = "archived" /\ gate'[g] = "archived"
Skipped(g) == state'[g] = state[g] /\ gate'[g] = gate[g]
Added(g)   == /\ state[g] = "absent" /\ gate'[g] \in {gate[g], "none", "open"}
              /\ g \in Launched => \E c \in Clients : LaunchAddsRow(c)

LEMMA GuestOfClient ==
  ASSUME TypeOK, NEW g \in Guests, NEW c \in Clients, ClientStep(c)
  PROVE  Same(g) \/ Added(g)
<1> USE Sorts DEF TypeOK, ClientFrame, treeVars, rowVars, history
<1>1. ReleasedBy(c)[g] \in {gate[g], "none", "open"}
  BY DEF ReleasedBy
<1>2. \A w \in Workspaces : [gate EXCEPT ![w] = "open"][g] \in {gate[g], "none", "open"}
  OBVIOUS
<1>3. client[c].ws \in Workspaces
  BY DEF Requests
<1>4. ASSUME NEW rows \in SUBSET Guests, RowAdded(c, rows),
             g \in Launched /\ g \in rows => LaunchAddsRow(c)
      PROVE  Same(g) \/ Added(g)
  <2>1. PICK h \in rows : state[h] = "absent" /\ state' = [state EXCEPT ![h] = "active"]
    BY <1>4 DEF RowAdded
  <2>2. gate'[g] \in {gate[g], "none", "open"}
    BY <1>1, <1>4 DEF RowAdded, ClientStops
  <2>3. CASE h = g
    BY <1>4, <2>1, <2>2, <2>3 DEF Added
  <2>4. CASE h # g
    BY <2>1, <2>2, <2>4 DEF Same
  <2> QED
    BY <2>3, <2>4
<1>5. CASE LaunchAddsRow(c)
  BY <1>4, <1>5 DEF LaunchAddsRow, Guests
<1>6. CASE MultitaskAddsRow(c)
  BY <1>4, <1>6, ConstantsAssumption DEF ConstantsAssumption, MultitaskAddsRow, Guests
<1>7. CASE ClientLooks(c) \/ ProcessStarts(c) \/ ProcessWrites(c) \/ ProcessEnds(c)
  BY <1>7 DEF ClientLooks, ProcessStarts, ProcessWrites, ProcessEnds, Same
<1>8. CASE CommandAdmitted(c)
  BY <1>1, <1>2, <1>3, <1>8 DEF CommandAdmitted, ClientStops, Same
<1>9. CASE ClientAdmitted(c)
  BY <1>2, <1>9 DEF ClientAdmitted, Same
<1>10. CASE AdmittedLooks(c) \/ ProcessRuns(c)
  BY <1>1, <1>10 DEF AdmittedLooks, ProcessRuns, ClientStops, Same
<1> QED
  BY <1>5, <1>6, <1>7, <1>8, <1>9, <1>10 DEF ClientStep

LEMMA GuestOfScan ==
  ASSUME TypeOK, NEW g \in Guests, NEW gs \in SUBSET LiveGuests, GuestsRetired(gs),
         \/ state' = WithGuestsRetired(gs)
         \/ state' = [WithGuestsRetired(gs) EXCEPT ![Owner] = "archive-failed"]
  PROVE  /\ g \in Retiring(gs) => Down(g)
         /\ g \notin Retiring(gs) => Skipped(g)
BY Sorts DEF TypeOK, GuestsRetired, WithGuestsRetired, Down, Skipped

LEMMA GuestOfArchive ==
  ASSUME TypeOK, NEW g \in Guests, NEW x \in Archivers, ArchiveStep(x)
  PROVE  Same(g) \/ Down(g)
<1> USE Sorts DEF TypeOK, ArchiveFrame, treeVars, rowVars, history
<1>0. g # Owner /\ g \in Workspaces
  OBVIOUS
<1>1. \A row, o : EndsWith(x, row, o) => state'[g] = state[g]
  BY <1>0 DEF EndsWith
<1>2. Fails(x) \/ Done(x) \/ Abandons(x) \/ Declined(x) => state'[g] = state[g]
  BY <1>1 DEF Fails, Done, Abandons, Declined
<1>3. CASE ArchiveMarks(x)
  BY <1>0, <1>3 DEF ArchiveMarks, Same
<1>4. CASE ArchiveRepairs(x) \/ ArchiveWaits(x) \/ ArchiveRefreshes(x) \/ ArchiveQuiesces(x)
           \/ ArchiveChecks(x) \/ ArchiveMoves(x) \/ ArchiveRecords(x)
  BY <1>2, <1>4 DEF ArchiveRepairs, ArchiveWaits, ArchiveRefreshes, ArchiveQuiesces, ArchiveChecks,
     ArchiveMoves, ArchiveRecords, Same
<1>5. CASE ArchiveShares(x)
  <2>1. CASE Abandons(x) /\ UNCHANGED <<gate, teardown>>
    BY <1>2, <2>1 DEF Same
  <2>2. CASE \E gs \in SUBSET LiveGuests :
               /\ GuestsRetired(gs)
               /\ \/ state' = WithGuestsRetired(gs)
                  \/ state' = [WithGuestsRetired(gs) EXCEPT ![Owner] = "archive-failed"]
    BY <2>2, GuestOfScan DEF Same, Skipped
  <2> QED
    BY <1>5, <2>1, <2>2 DEF ArchiveShares
<1>6. CASE ArchiveFinishes(x)
  BY <1>0, <1>6 DEF ArchiveFinishes, Finished, Opened, Same
<1> QED
  BY <1>3, <1>4, <1>5, <1>6 DEF ArchiveStep

LEMMA GuestEffects ==
  ASSUME TypeOK, NEW g \in Guests, [Next]_vars
  PROVE  Same(g) \/ Down(g) \/ Added(g)
<1> USE Sorts DEF TypeOK, ArchiveFrame, treeVars, rowVars, history
<1>1. ASSUME NEW x \in Archivers, ArchiveReads(x) \/ ArchiveBegins(x) PROVE Same(g)
  BY <1>1 DEF ArchiveReads, ArchiveBegins, Same
<1>2. ASSUME NEW h \in Guests, GuestArchived(h) PROVE Same(g) \/ Down(g)
  BY <1>2, GuestOfScan DEF GuestArchived, Same, Skipped
<1>3. ASSUME NEW h \in Guests, GuestTornDown(h) PROVE Same(g)
  BY <1>3 DEF GuestTornDown, Same
<1>4. CASE Keep
  BY <1>4 DEF Keep, Opened, Same
<1>5. CASE Crash
  BY <1>5 DEF Crash, Same
<1>6. CASE UNCHANGED vars
  BY <1>6 DEF vars, Same
<1> QED
  BY <1>1, <1>2, <1>3, <1>4, <1>5, <1>6, GuestOfClient, GuestOfArchive DEF Next

(* No step closes the gate of a guest whose row is alive. *)
LEMMA NextGates == ASSUME TypeOK, GuestGatesFollow, [Next]_vars PROVE GuestGatesFollow'
<1> SUFFICES ASSUME NEW g \in Guests, ArchiveRefused(g)' PROVE state'[g] = "archived"
  BY DEF GuestGatesFollow
<1>1. Same(g) \/ Down(g) \/ Added(g)
  BY GuestEffects
<1>2. gate'[g] \in {gate[g], "none", "open"} => state[g] = "archived"
  BY DEF GuestGatesFollow, ArchiveRefused
<1> QED
  BY <1>1, <1>2 DEF Same, Down, Added

(* Every launch is asked of the owner and stays a request to it. *)
LEMMA NextLaunches == ASSUME TypeOK, LaunchesAtOwner, [Next]_vars PROVE LaunchesAtOwner'
<1>1. ASSUME NEW c \in Clients, ClientStep(c) PROVE LaunchesAtOwner'
  <2> USE Sorts, ClientMoves DEF TypeOK
  <2>0. {"looked", "admitted", "cleared", "starting", "running"} \subseteq ClientPcs
    BY DEF ClientPcs
  <2>1. ASSUME client' = client \/ client' = [client EXCEPT ![c] = NoClient]
               \/ \E pc \in {"looked", "cleared", "starting", "running"} : ClientGoes(c, pc)
        PROVE  LaunchesAtOwner'
    <3>1. \A d \in Clients : client'[d].kind = "launch" =>
            client[d].kind = "launch" /\ client'[d].ws = client[d].ws
      BY <2>0, <2>1
    <3> QED
      BY <3>1 DEF LaunchesAtOwner
  <2>2. ASSUME NEW pc, NEW w, NEW kind, kind = "launch" => w = Owner,
               client' = [client EXCEPT ![c] = [pc |-> pc, ws |-> w, kind |-> kind]]
        PROVE  LaunchesAtOwner'
    BY <2>2 DEF LaunchesAtOwner
  <2>3. CASE ClientLooks(c)
    <3>1. PICK w \in Workspaces, kind \in {"command", "multitask"} :
            client' = [client EXCEPT ![c] = [pc |-> "looked", ws |-> w, kind |-> kind]]
      BY <2>3 DEF ClientLooks
    <3> QED
      BY <2>2, <3>1
  <2>4. CASE ClientAdmitted(c)
    <3>1. PICK w \in Workspaces, kind \in {"provider", "launch"} :
            /\ kind = "launch" => w = Owner
            /\ client' = [client EXCEPT ![c] = [pc |-> "admitted", ws |-> w, kind |-> kind]]
      BY <2>4 DEF ClientAdmitted
    <3> QED
      BY <2>2, <3>1
  <2> QED
    BY <1>1, <2>1, <2>3, <2>4 DEF ClientStep, CommandAdmitted, AdmittedLooks, ProcessStarts, ProcessRuns,
       ProcessWrites, ProcessEnds, LaunchAddsRow, MultitaskAddsRow, RowAdded, ClientStops
<1>2. ASSUME \A c \in Clients : client'[c] = client[c] \/ client'[c] = NoClient PROVE LaunchesAtOwner'
  BY <1>2 DEF LaunchesAtOwner, NoClient
<1>3. ASSUME NEW x \in Archivers, ArchiveReads(x) \/ ArchiveBegins(x) \/ ArchiveStep(x)
      PROVE  LaunchesAtOwner'
  <2>1. client' = client \/ ProcessesEnded(Owner)
    BY <1>3 DEF ArchiveReads, ArchiveBegins, ArchiveStep, ArchiveMarks, ArchiveRepairs, ArchiveWaits,
       ArchiveRefreshes, ArchiveQuiesces, ArchiveChecks, ArchiveShares, ArchiveMoves, ArchiveRecords,
       ArchiveFinishes
  <2> QED
    BY <1>2, <2>1 DEF ProcessesEnded
<1>4. ASSUME NEW g \in Guests, GuestArchived(g) \/ GuestTornDown(g) PROVE LaunchesAtOwner'
  BY <1>2, <1>4 DEF GuestArchived, GuestTornDown, ProcessesEnded
<1>5. CASE Keep \/ Crash \/ UNCHANGED vars
  BY <1>2, <1>5 DEF Keep, Crash, vars
<1> QED
  BY <1>1, <1>3, <1>4, <1>5 DEF Next

(* Only a scan of all live guests starts what comes after it. *)
ScanDone == GuestsRetired(LiveGuests) /\ state' = WithGuestsRetired(LiveGuests)

LEMMA ScanFirst ==
  ASSUME TypeOK, [Next]_vars, Scanned'
  PROVE  Scanned \/ ScanDone
<1> USE Sorts, ArchiverMoves DEF TypeOK, ArchiveFrame, ClientFrame, treeVars, rowVars, history
<1>1. ASSUME UNCHANGED moved, \A x \in Archivers : archiver'[x].pc = "moving" => archiver[x].pc = "moving"
      PROVE  Scanned
  BY <1>1 DEF Scanned
<1>2. ASSUME NEW c \in Clients, ClientStep(c) PROVE Scanned
  BY <1>1, <1>2 DEF ClientStep, ClientLooks, CommandAdmitted, ClientAdmitted, AdmittedLooks,
     ProcessStarts, ProcessRuns, ProcessWrites, ProcessEnds, LaunchAddsRow, MultitaskAddsRow, RowAdded
<1>3. ASSUME NEW x \in Archivers, Only(x), archiver'[x].pc # "moving", UNCHANGED moved PROVE Scanned
  BY <1>1, <1>3 DEF Only
<1>4. ASSUME NEW x \in Archivers, Fails(x) \/ Done(x) \/ Abandons(x) \/ Declined(x)
      PROVE  Only(x) /\ archiver'[x].pc # "moving"
  BY <1>4 DEF EndsAs
<1>5. ASSUME NEW x \in Archivers, ArchiveReads(x) PROVE Scanned
  <2>1. PICK force \in BOOLEAN :
          archiver' = [archiver EXCEPT ![x].pc = "read", ![x].prior = state[Owner], ![x].force = force]
    BY <1>5 DEF ArchiveReads
  <2>2. archiver'[x].pc = "read" /\ \A y \in Archivers \ {x} : archiver'[y] = archiver[y]
    BY <2>1 DEF Archives
  <2> QED
    BY <1>1, <1>5, <2>2 DEF ArchiveReads
<1>6. ASSUME NEW x \in Archivers, archiver' = [archiver EXCEPT ![x] = NoArchiver], UNCHANGED moved
      PROVE  Scanned
  BY <1>1, <1>6 DEF NoArchiver
<1>7. {"marking", "repairing", "waiting", "refreshing", "quiescing", "checking", "sharing",
       "recording"} \subseteq Leased
  BY DEF Leased
<1>8. ASSUME NEW x \in Archivers, ArchiveBegins(x) PROVE Scanned
  BY <1>3, <1>6, <1>7, <1>8 DEF ArchiveBegins
<1>9. ASSUME NEW x \in Archivers, ArchiveStep(x) PROVE Scanned \/ ScanDone
  <2>1. CASE ArchiveMarks(x)
    BY <1>3, <1>7, <2>1 DEF ArchiveMarks
  <2>2. CASE ArchiveRepairs(x) \/ ArchiveRecords(x)
    BY <1>3, <1>4, <2>2 DEF ArchiveRepairs, ArchiveRecords
  <2>3. CASE ArchiveWaits(x)
    BY <1>3, <1>4, <1>7, <2>3 DEF ArchiveWaits
  <2>4. CASE ArchiveRefreshes(x)
    BY <1>3, <1>4, <1>7, <2>4 DEF ArchiveRefreshes
  <2>5. CASE ArchiveQuiesces(x)
    BY <1>3, <1>4, <1>7, <2>5 DEF ArchiveQuiesces
  <2>6. CASE ArchiveChecks(x)
    BY <1>3, <1>4, <1>7, <2>6 DEF ArchiveChecks
  <2>7. CASE ArchiveShares(x)
    <3>1. CASE Abandons(x)
      BY <1>3, <1>4, <2>7, <3>1 DEF ArchiveShares
    <3>2. CASE archiver' = [archiver EXCEPT ![x] =
                 [NoArchiver EXCEPT !.pc = "finishing", !.outcome = "failed"]]
      BY <1>1, <2>7, <3>2 DEF ArchiveShares, NoArchiver
    <3> QED
      BY <2>7, <3>1, <3>2 DEF ArchiveShares, ScanDone
  <2>8. CASE ArchiveMoves(x)
    BY <1>3, <1>4, <2>8 DEF ArchiveMoves, Scanned
  <2>9. CASE ArchiveFinishes(x)
    BY <1>6, <2>9 DEF ArchiveFinishes
  <2> QED
    BY <1>9, <2>1, <2>2, <2>3, <2>4, <2>5, <2>6, <2>7, <2>8, <2>9 DEF ArchiveStep
<1>10. ASSUME NEW g \in Guests, GuestArchived(g) \/ GuestTornDown(g) PROVE Scanned
  BY <1>1, <1>10 DEF GuestArchived, GuestTornDown
<1>11. CASE Keep \/ UNCHANGED vars
  BY <1>1, <1>11 DEF Keep, vars
<1>12. CASE Crash
  BY <1>1, <1>12 DEF Crash, NoArchiver
<1> QED
  BY <1>2, <1>5, <1>8, <1>9, <1>10, <1>11, <1>12 DEF Next

(* A completed scan leaves no launched row alive: those it skips were down. *)
LEMMA ScanSuffices ==
  ASSUME TypeOK, GuestGatesFollow, ScanDone
  PROVE  LaunchedDown'
<1> SUFFICES ASSUME NEW g \in Launched PROVE state'[g] \in {"absent", "archived"}
  BY DEF LaunchedDown
<1>1. g \in Guests /\ g \in Workspaces /\ g # Owner
  BY Sorts DEF Guests
<1>2. CASE g \in Retiring(LiveGuests)
  BY <1>1, <1>2, GuestOfScan DEF ScanDone, Down
<1>3. CASE g \notin Retiring(LiveGuests)
  <2>1. state'[g] = state[g]
    BY <1>1, <1>3, GuestOfScan DEF ScanDone, Skipped
  <2>2. state[g] \in {"absent", "archived"}
    BY <1>1, <1>3 DEF Retiring, LiveGuests, LiveOnPath, GuestGatesFollow
  <2> QED
    BY <2>1, <2>2
<1> QED
  BY <1>2, <1>3

(* A launch about to insert its row holds an admission, so that no archive *)
(* has scanned or moved.                                                   *)
LEMMA LaunchIsEarly ==
  ASSUME TypeOK, Promise, LaunchesAtOwner, NEW c \in Clients, LaunchAddsRow(c)
  PROVE  ~Scanned
<1>1. client[c].ws = Owner /\ client[c].pc = "cleared" /\ Holds(c, Owner)
  BY DEF LaunchAddsRow, LaunchesAtOwner, Holds
<1>2. ~moved
  BY <1>1 DEF Promise, MovedIsRetired, Arrived
<1>3. c \in Admissions(Owner)
  BY <1>1 DEF Admissions
<1> QED
  BY <1>2, <1>3 DEF Scanned, Promise, SealedFromRequests, Sealed, Alone

LEMMA NextRows == IInv /\ Rows /\ [Next]_vars => Rows'
<1> SUFFICES ASSUME IInv, Rows, [Next]_vars PROVE Rows'
  OBVIOUS
<1>1. TypeOK /\ GuestGatesFollow' /\ LaunchesAtOwner'
  BY NextGates, NextLaunches DEF IInv, Rows
<1>2. ASSUME Scanned', ~overruled' PROVE LaunchedDown'
  <2>1. ~overruled /\ Promise
    BY <1>1, <1>2, OverruledForGood DEF IInv
  <2>2. CASE ScanDone
    BY <1>1, <2>2, ScanSuffices DEF Rows
  <2>3. CASE Scanned
    <3>1. ASSUME NEW c \in Clients PROVE ~LaunchAddsRow(c)
      BY <1>1, <2>1, <2>3, LaunchIsEarly DEF Rows
    <3>2. ASSUME NEW g \in Launched PROVE state'[g] \in {state[g], "archived"}
      BY <1>1, <3>1, GuestEffects DEF Same, Down, Added, Guests
    <3> QED
      BY <2>1, <2>3, <3>2 DEF Rows, LaunchedDown
  <2> QED
    BY <1>1, <1>2, <2>2, <2>3, ScanFirst
<1> QED
  BY <1>1, <1>2 DEF Rows

(* Until keep overrules an archive, a row that create_in_checkout added    *)
(* was there when the archive scanned, and is archived before the tree is  *)
(* moved: the launch holds its admission until the row exists.             *)
THEOREM LaunchedRowsAreArchived == Spec => []LaunchedRowsGoDown
<1>1. Init => Rows
  <2> SUFFICES ASSUME Init PROVE Rows
    OBVIOUS
  <2>1. GuestGatesFollow /\ LaunchesAtOwner
    BY Sorts DEF Init, GuestGatesFollow, ArchiveRefused, LaunchesAtOwner, NoClient
  <2>2. ~Scanned
    BY DEF Init, Scanned, NoArchiver
  <2> QED
    BY <2>1, <2>2 DEF Rows
<1>2. Rows => LaunchedRowsGoDown
  BY DEF Rows, Scanned, LaunchedDown, LaunchedRowsGoDown
<1> QED
  BY <1>1, <1>2, InitIInv, NextIInv, NextRows, PTL DEF Spec
=============================================================================
