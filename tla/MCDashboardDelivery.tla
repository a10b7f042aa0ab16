----------------------- MODULE MCDashboardDelivery ------------------------
(* Instances of DashboardDelivery: two producers and the feeds of one chat. *)
EXTENDS DashboardDelivery

CONSTANTS p1, p2, chat, list

Two == {p1, p2}
OneChat == {chat}
=============================================================================
