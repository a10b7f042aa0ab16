------------------------ MODULE MCFollowUpDelivery -------------------------
(* Instances of FollowUpDelivery: a person's message, or that and another  *)
(* session's, and what the user may do with a queued one.                    *)
EXTENDS FollowUpDelivery

CONSTANTS p, i

Person == {p}
Agent == {i}
Both == {p, i}
None == {}

AllModes == {"promote", "steer", "multitask"}
=============================================================================
