---------------------------- MODULE MCStreamFlush ----------------------------
(***************************************************************************)
(* StreamFlush for TLC.                                                    *)
(***************************************************************************)
EXTENDS StreamFlush
=============================================================================
