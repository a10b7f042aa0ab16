--------------------------- MODULE MCProviderTurn ---------------------------
(* ProviderTurn with small sets of senders, for TLC. *)
EXTENDS ProviderTurn, TLC
=============================================================================
