---------------------------- MODULE MediaReplay ----------------------------
(***************************************************************************)
(* One receiver of one talker's encrypted media, with the sliding replay   *)
(* window of _validate_media_replay, fed by a network that loses, reorders *)
(* and duplicates datagrams and that carries forged ones.  Each case of    *)
(* the validator gives a state, a packet and the state that follows; here  *)
(* the cases are chained, so the window meets every history of packets.    *)
(*                                                                         *)
(* Talk sessions follow one another: each has its own nonce base, which    *)
(* the receiver learns from the announcement; a packet of another base is  *)
(* of an unannounced session.                                              *)
(***************************************************************************)
EXTENDS Integers, FiniteSets

CONSTANTS
  Window,   \* counters the window holds: 64 in the repository's vectors
  Counter,  \* the media counters in use, a set of naturals (u32 in the code)
  Base      \* the media nonce bases of successive talk sessions

ASSUME WindowAssumption == Window \in Nat \ {0}
ASSUME CounterAssumption == Counter \subseteq Nat

None == -1  \* Python's None for the highest counter; no counter is negative

ASSUME BaseAssumption == None \notin Base

VARIABLES
  announced, \* the nonce base the receiver was told of, None before the first
  highest,   \* the highest authenticated counter of the session, or None
  seen,      \* the counters of the session the window remembers
  sent,      \* packets the talker has sealed: they stay in the network
  accepted   \* history: how often each packet was handed to the decoder

vars == <<announced, highest, seen, sent, accepted>>

Packet == Base \X Counter
Authentication == {"valid", "invalid"}

-----------------------------------------------------------------------------
(* The decision and the window update of the validator.                    *)

\* Mutant of Stale: the window is one counter longer than what it remembers.
StaleOffByOne(h, c) == h # None /\ c < h - Window

\* A counter below the window whose top is h.
Stale(h, c) == h # None /\ c < h - (Window - 1)

\* Mutant of MediaAction: the tag is not looked at.
MediaActionUnauthenticated(h, s, c, auth) ==
  IF Stale(h, c) THEN "reject_stale"
  ELSE IF c \in s THEN "reject_replay"
  ELSE "accept_and_mark_seen"

\* The action for a packet of the announced session, in the code's order:
\* the stale test comes before authentication is even tried.
MediaAction(h, s, c, auth) ==
  IF Stale(h, c) THEN "reject_stale"
  ELSE IF auth # "valid" THEN "reject_authentication_failure_without_state_change"
  ELSE IF c \in s THEN "reject_replay"
  ELSE "accept_and_mark_seen"

RaiseTo(h, c) == IF h = None \/ h < c THEN c ELSE h

\* Mutant of Pruned: nothing is forgotten.
Unpruned(h, s) == s

Pruned(h, s) == {v \in s : v >= h - (Window - 1)}

\* The directory receiver's rule for the same window: it asks for a duplicate
\* first, and only then whether the sequence is stale.
DirectoryAction(h, s, c) ==
  IF c \in s THEN "reject_duplicate_sequence"
  ELSE IF Stale(h, c) THEN "reject_stale_sequence"
  ELSE "accept_unseen_sequence"

-----------------------------------------------------------------------------
Init ==
  /\ announced = None
  /\ highest = None
  /\ seen = {}
  /\ sent = {}
  /\ accepted = [p \in Packet |-> 0]

\* The talker seals a packet; a counter is used once in a session, and
\* counters go up.
Send(b, c) ==
  /\ \A p \in sent : p[1] = b => p[2] < c
  /\ sent' = sent \cup {<<b, c>>}
  /\ UNCHANGED <<announced, highest, seen, accepted>>

\* The receiver learns the nonce base of a new talk session and starts an
\* empty window for it.  A base that carried media is not announced again.
Announce(b) ==
  /\ b # announced
  /\ \A c \in Counter : accepted[<<b, c>>] = 0
  /\ announced' = b
  /\ highest' = None
  /\ seen' = {}
  /\ UNCHANGED <<sent, accepted>>

\* Mutant of Receive: the window slides before the tag is verified.
ReceiveSlidesFirst(b, c, auth) ==
  /\ auth = "valid" => <<b, c>> \in sent
  /\ b = announced
  /\ highest' = IF Stale(highest, c) THEN highest ELSE RaiseTo(highest, c)
  /\ IF MediaAction(highest, seen, c, auth) = "accept_and_mark_seen"
     THEN /\ seen' = Pruned(highest', seen \cup {c})
          /\ accepted' = [accepted EXCEPT ![<<b, c>>] = @ + 1]
     ELSE UNCHANGED <<seen, accepted>>
  /\ UNCHANGED <<announced, sent>>

\* A datagram arrives: a genuine one, again or late, or one that fails
\* authentication.  A rejection of any of the four kinds changes nothing.
Receive(b, c, auth) ==
  /\ auth = "valid" => <<b, c>> \in sent
  /\ b = announced
  /\ MediaAction(highest, seen, c, auth) = "accept_and_mark_seen"
  /\ highest' = RaiseTo(highest, c)
  /\ seen' = Pruned(highest', seen \cup {c})
  /\ accepted' = [accepted EXCEPT ![<<b, c>>] = @ + 1]
  /\ UNCHANGED <<announced, sent>>

Next ==
  \/ \E b \in Base, c \in Counter : Send(b, c)
  \/ \E b \in Base : Announce(b)
  \/ \E b \in Base, c \in Counter, auth \in Authentication : Receive(b, c, auth)

Spec == Init /\ [][Next]_vars

-----------------------------------------------------------------------------
\* The receiver remembers counters, the network packets of known sessions.
TypeOK ==
  /\ announced \in Base \cup {None}
  /\ highest \in Counter \cup {None}
  /\ seen \subseteq Counter
  /\ sent \subseteq Packet
  /\ accepted \in [Packet -> Nat]

\* The counters of the announced session that reached the decoder.
Heard == {c \in Counter : announced # None /\ accepted[<<announced, c>>] > 0}

\* No packet reaches the decoder twice, however often and in whatever order
\* the network delivers it and across any number of talk sessions.
AtMostOnceAccepted == \A p \in Packet : accepted[p] <= 1

\* The bounded window stands for the whole history of the session: the
\* highest counter is the greatest one accepted, and the remembered set is
\* exactly what was accepted and still fits in the window.
WindowIsHistory ==
  /\ highest = None <=> Heard = {}
  /\ highest # None => highest \in Heard /\ \A c \in Heard : c <= highest
  /\ seen = {c \in Heard : ~Stale(highest, c)}

\* Forged and replayed datagrams cannot cost the receiver a genuine packet:
\* a sealed packet of the announced session that was not accepted yet, and is
\* within Window - 1 of every counter that was, is accepted when it arrives.
GenuineIsAccepted ==
  \A p \in sent :
    (/\ p[1] = announced
     /\ accepted[p] = 0
     /\ \A c \in Heard : p[2] >= c - (Window - 1))
    => MediaAction(highest, seen, p[2], "valid") = "accept_and_mark_seen"

\* The media rule tests staleness before duplicates and the directory rule
\* duplicates before staleness.  On the windows a receiver can hold the two
\* orders give the same verdict with the same reason.
OrdersAgree ==
  \A c \in Counter :
    LET media == MediaAction(highest, seen, c, "valid")
        directory == DirectoryAction(highest, seen, c)
    IN  /\ media = "reject_stale" <=> directory = "reject_stale_sequence"
        /\ media = "reject_replay" <=> directory = "reject_duplicate_sequence"

\* Forgeries leave no trace: only a packet the talker sealed is accepted.
Delivered == {p \in Packet : accepted[p] > 0}

\* The window implements at-most-once delivery of what was sealed.
Promise == INSTANCE AtMostOnce WITH Item <- Packet, delivered <- Delivered
PromiseSpec == Promise!Spec
=============================================================================
