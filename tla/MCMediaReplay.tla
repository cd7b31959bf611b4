--------------------------- MODULE MCMediaReplay ---------------------------
(* A window of three counters, five counters and two talk sessions: the      *)
(* window slides past counters still in flight, and a session replaces one  *)
(* whose packets the network still carries.                                 *)
EXTENDS MediaReplay

MCCounter == 0..4
MCBase == {1, 2}
=============================================================================
