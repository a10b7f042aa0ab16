---------------------------- MODULE ExclusiveUse ----------------------------
(***************************************************************************)
(* What the archive gate of a workspace promises about its worktree, in    *)
(* the words of src/src-tauri/src/workspaces/lifecycle.rs and of           *)
(* docs/workspaces.md: requests enter, some of them start to use the tree, *)
(* and an archive that has closed the gate moves the tree only while it is *)
(* alone with it.  WorkspaceArchive implements it.                         *)
(***************************************************************************)
CONSTANTS Users, Archives

VARIABLES
  entering,  \* requests that were admitted and are not done yet
  using,     \* requests whose process uses the tree, or is about to
  leases,    \* archives that have closed the gate
  alone,     \* an archive found nobody left
  gone,      \* the tree was moved
  overruled  \* somebody reopened the gate over an archive: no promise is left

vars == <<entering, using, leases, alone, gone, overruled>>

Init ==
  /\ entering = {} /\ using = {} /\ leases = {}
  /\ alone = FALSE /\ gone = FALSE /\ overruled = FALSE

Enter(u) ==
  /\ leases = {}
  /\ entering' = entering \cup {u}
  /\ UNCHANGED <<using, leases, alone, gone>>

Start(u) ==
  /\ u \in entering /\ ~gone
  /\ using' = using \cup {u}
  /\ UNCHANGED <<entering, leases, alone, gone>>

Leave ==
  /\ entering' \subseteq entering /\ using' \subseteq using
  /\ UNCHANGED <<leases, alone, gone>>

Close(x) ==
  /\ leases = {}
  /\ leases' = {x}
  /\ UNCHANGED <<entering, using, alone, gone>>

(* Requests are waited for; processes are ended. *)
TakeOver ==
  /\ leases # {} /\ entering = {}
  /\ using' = {} /\ alone' = TRUE
  /\ UNCHANGED <<entering, leases, gone>>

Move ==
  /\ alone
  /\ gone' = TRUE
  /\ UNCHANGED <<entering, using, leases, alone>>

Retreat ==
  /\ leases # {} /\ alone' = FALSE
  /\ UNCHANGED <<entering, using, leases, gone>>

HandBack ==
  /\ ~alone
  /\ leases' = {}
  /\ UNCHANGED <<entering, using, alone, gone>>

Restart ==
  /\ entering' = {} /\ using' = {} /\ leases' = {} /\ alone' = FALSE
  /\ UNCHANGED gone

Promised ==
  \/ \E u \in Users : Enter(u) \/ Start(u)
  \/ \E x \in Archives : Close(x)
  \/ Leave \/ TakeOver \/ Move \/ Retreat \/ HandBack \/ Restart

Next == overruled' \/ (~overruled /\ ~overruled' /\ Promised)

Spec == Init /\ [][Next]_vars
-----------------------------------------------------------------------------
(* An archive that is alone with the tree stays alone until it retreats.   *)
Undisturbed == alone /\ ~overruled => entering \cup using = {}

(* Nobody uses a tree that was moved. *)
NoUseAfterMove == gone /\ ~overruled => using = {}
=============================================================================
