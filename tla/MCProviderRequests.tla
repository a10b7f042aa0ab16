------------------------- MODULE MCProviderRequests -------------------------
(* Instances of ProviderRequests for TLC.                                   *)
EXTENDS ProviderRequests

CONSTANTS a1, q1
=============================================================================
