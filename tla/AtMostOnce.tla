---------------------------- MODULE AtMostOnce ----------------------------
(***************************************************************************)
(* What a replay-protected receiver promises, with no window in sight: an  *)
(* item that was sent is delivered at most once, and nothing is delivered  *)
(* that was never sent.  Items may be lost, so nothing need be delivered.  *)
(***************************************************************************)
CONSTANT Item       \* what a sender can send: a media counter of a session

VARIABLES sent,     \* the items the senders have produced
          delivered \* the items the receiver has handed to its decoder

Init == sent = {} /\ delivered = {}

Send(i) == i \notin sent /\ sent' = sent \cup {i} /\ UNCHANGED delivered

Deliver(i) ==
  /\ i \in sent \ delivered
  /\ delivered' = delivered \cup {i}
  /\ UNCHANGED sent

Next == \E i \in Item : Send(i) \/ Deliver(i)

Spec == Init /\ [][Next]_<<sent, delivered>>
=============================================================================
