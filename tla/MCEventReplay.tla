--------------------------- MODULE MCEventReplay ----------------------------
(* Six events of which the caller may see four, three retained, and three   *)
(* broken connections, in each of the delivery modes.                       *)
EXTENDS EventReplay

MCAuthorized == {1, 3, 4, 6}
=============================================================================
