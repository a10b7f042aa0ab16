------------------------- MODULE MCWorkspaceArchive -------------------------
(* One owner, one row that a launch may add and one that a multitask may   *)
(* add.                                                                    *)
EXTENDS WorkspaceArchive

CONSTANTS own, launched, dispatched, c1, c2, x1, x2

OneLaunched   == {launched}
OneDispatched == {dispatched}
TwoClients    == {c1, c2}
TwoArchivers  == {x1, x2}
=============================================================================
