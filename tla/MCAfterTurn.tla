----------------------------- MODULE MCAfterTurn ----------------------------
(* AfterTurn with small sets of calls and follow-ups, for TLC. *)
EXTENDS AfterTurn

CONSTANTS c1, c2, f1, f2, boot, none
=============================================================================
