------------------------ MODULE MCCompletionNotices ------------------------
(* Instances of CompletionNotices: how many turns each of the chats has. *)
EXTENDS CompletionNotices, TLC

CONSTANTS c1, c2

ThreeAndOne == c1 :> 3 @@ c2 :> 1
OneTurn     == c1 :> 1
=============================================================================
