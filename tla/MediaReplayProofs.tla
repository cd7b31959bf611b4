------------------------- MODULE MediaReplayProofs -------------------------
(***************************************************************************)
(* The replay window of MediaReplay is correct for every window size,      *)
(* every set of counters and any number of talk sessions.  The argument is *)
(* that highest and seen are a lossless summary of the session's history   *)
(* (WindowIsHistory); everything else follows from that.                   *)
(***************************************************************************)
EXTENDS MediaReplay, TLAPS

\* Only sealed packets have been accepted: the half of the promise that rests
\* on authentication coming before the window is touched.
AcceptedWasSent == \A p \in Packet : accepted[p] > 0 => p \in sent

IInv == TypeOK /\ WindowIsHistory /\ AtMostOnceAccepted /\ AcceptedWasSent

\* The receiver accepts exactly the authentic counters that are inside the
\* window and not remembered (_validate_media_replay, the last branch).
LEMMA AcceptCondition ==
  ASSUME NEW h, NEW s, NEW c, NEW auth
  PROVE  MediaAction(h, s, c, auth) = "accept_and_mark_seen"
           <=> ~Stale(h, c) /\ auth = "valid" /\ c \notin s
BY DEF MediaAction

\* Pruning keeps exactly what is not stale.
LEMMA InWindow ==
  \A h, d \in Int : h # None => (d >= h - (Window - 1) <=> ~Stale(h, d))
BY WindowAssumption DEF Stale

\* A counter that fell out of the window does not come back as it slides up.
LEMMA StaleStays ==
  \A h, g, d \in Int :
    g # None /\ (h # None => h <= g) /\ ~Stale(g, d) => ~Stale(h, d)
BY WindowAssumption DEF Stale

LEMMA StepTypeOK == TypeOK /\ [Next]_vars => TypeOK'
<1> SUFFICES ASSUME TypeOK, [Next]_vars PROVE TypeOK'
  OBVIOUS
<1> USE DEF TypeOK
<1>1. ASSUME NEW b \in Base, NEW c \in Counter, Send(b, c) PROVE TypeOK'
  BY <1>1 DEF Send, Packet
<1>2. ASSUME NEW b \in Base, Announce(b) PROVE TypeOK'
  BY <1>2 DEF Announce
<1>3. ASSUME NEW b \in Base, NEW c \in Counter, NEW auth \in Authentication,
             Receive(b, c, auth)
      PROVE  TypeOK'
  <2>1. highest' \in Counter \cup {None}
    BY <1>3 DEF Receive, RaiseTo
  <2>2. seen' \subseteq Counter
    BY <1>3 DEF Receive, Pruned
  <2>3. accepted' \in [Packet -> Nat]
    <3>1. <<b, c>> \in Packet
      BY DEF Packet
    <3> QED BY <1>3, <3>1 DEF Receive
  <2> QED BY <1>3, <2>1, <2>2, <2>3 DEF Receive
<1>4. CASE UNCHANGED vars
  BY <1>4 DEF vars
<1> QED BY <1>1, <1>2, <1>3, <1>4 DEF Next

\* Variables keep their types.
THEOREM TypeCorrect == Spec => []TypeOK
<1>1. Init => TypeOK
  BY DEF Init, TypeOK, Packet
<1> QED BY <1>1, StepTypeOK, PTL DEF Spec

LEMMA InitIInv == Init => IInv
BY DEF Init, IInv, TypeOK, WindowIsHistory, AtMostOnceAccepted, AcceptedWasSent,
       Heard, Packet, None, Stale

\* Accepting a counter adds exactly that counter to what was heard.
LEMMA ReceiveHeard ==
  ASSUME TypeOK, NEW b \in Base, NEW c \in Counter, NEW auth \in Authentication,
         Receive(b, c, auth)
  PROVE  Heard' = Heard \cup {c}
<1>1. <<b, c>> \in Packet /\ b = announced /\ announced' = announced /\ announced # None
  BY BaseAssumption DEF Receive, Packet
<1>2. accepted' = [accepted EXCEPT ![<<b, c>>] = @ + 1]
  BY DEF Receive
<1>3. ASSUME NEW d \in Counter, d # c
      PROVE  accepted'[<<announced, d>>] = accepted[<<announced, d>>]
  BY <1>1, <1>2, <1>3 DEF TypeOK, Packet
<1>4. accepted'[<<announced, c>>] = accepted[<<announced, c>>] + 1
      /\ accepted[<<announced, c>>] \in Nat
  BY <1>1, <1>2 DEF TypeOK, Packet
<1> QED BY <1>1, <1>3, <1>4 DEF Heard

\* The window stays the summary of the history when a packet is accepted.
LEMMA ReceiveWindow ==
  ASSUME IInv, NEW b \in Base, NEW c \in Counter, NEW auth \in Authentication,
         Receive(b, c, auth)
  PROVE  WindowIsHistory'
<1> USE CounterAssumption, WindowAssumption DEF None
<1>1. Heard' = Heard \cup {c}
  BY ReceiveHeard DEF IInv
<1>2. /\ highest' = RaiseTo(highest, c)
      /\ seen' = Pruned(highest', seen \cup {c})
      /\ ~Stale(highest, c)
  BY AcceptCondition DEF Receive
<1>3. highest \in Int /\ highest' \in Int /\ c \in Nat /\ Heard \subseteq Nat
  <2>1. highest \in Int /\ c \in Nat
    BY DEF IInv, TypeOK
  <2>2. highest' \in Int
    BY <1>2, <2>1 DEF RaiseTo
  <2> QED BY <2>1, <2>2 DEF Heard
<1>4. highest' # None /\ highest' \in Heard'
      /\ c <= highest' /\ (highest # None => highest <= highest')
  BY <1>1, <1>2, <1>3 DEF RaiseTo, IInv, WindowIsHistory
<1>5. \A d \in Heard' : d <= highest'
  BY <1>1, <1>3, <1>4 DEF IInv, WindowIsHistory
<1>6. seen' = {d \in Heard' : ~Stale(highest', d)}
  <2>1. seen = {d \in Heard : ~Stale(highest, d)}
    BY DEF IInv, WindowIsHistory
  <2>2. ASSUME NEW d \in Heard PROVE ~Stale(highest', d) => ~Stale(highest, d)
    BY <1>3, <1>4, StaleStays
  <2>3. ASSUME NEW d \in Nat
        PROVE  d >= highest' - (Window - 1) <=> ~Stale(highest', d)
    <3>1. highest' \in Int /\ highest' # None /\ d \in Int
      BY <1>3, <1>4
    <3> QED BY <3>1, InWindow, Zenon
  <2>4. seen' = {d \in seen \cup {c} : ~Stale(highest', d)}
    BY <1>2, <1>3, <2>1, <2>3 DEF Pruned
  <2> QED BY <1>1, <2>1, <2>2, <2>4
<1> QED BY <1>4, <1>5, <1>6, <1>1 DEF WindowIsHistory

\* Each step keeps the inductive invariant.
LEMMA StepIInv == IInv /\ [Next]_vars => IInv'
<1> SUFFICES ASSUME IInv, [Next]_vars PROVE IInv'
  OBVIOUS
<1> USE CounterAssumption DEF None
<1>1. TypeOK'
  BY StepTypeOK DEF IInv
<1>2. ASSUME NEW b \in Base, NEW c \in Counter, Send(b, c) PROVE IInv'
  <2>1. Heard' = Heard
    BY <1>2 DEF Send, Heard
  <2>2. WindowIsHistory'
    BY <1>2, <2>1 DEF Send, IInv, WindowIsHistory, Stale
  <2>3. AtMostOnceAccepted' /\ AcceptedWasSent'
    BY <1>2 DEF Send, IInv, AtMostOnceAccepted, AcceptedWasSent
  <2> QED BY <1>1, <2>2, <2>3 DEF IInv
<1>3. ASSUME NEW b \in Base, Announce(b) PROVE IInv'
  <2>1. Heard' = {}
    <3>1. \A c \in Counter : accepted'[<<announced', c>>] = 0
      BY <1>3 DEF Announce
    <3>2. \A c \in Counter : ~(accepted'[<<announced', c>>] > 0)
      <4>1. ~(0 > 0)
        OBVIOUS
      <4> QED BY <3>1, <4>1, Zenon
    <3> QED BY <3>2, Zenon DEF Heard
  <2>2. WindowIsHistory'
    BY <1>3, <2>1 DEF Announce, WindowIsHistory
  <2>3. AtMostOnceAccepted' /\ AcceptedWasSent'
    BY <1>3 DEF Announce, IInv, AtMostOnceAccepted, AcceptedWasSent
  <2> QED BY <1>1, <2>2, <2>3 DEF IInv
<1>4. ASSUME NEW b \in Base, NEW c \in Counter, NEW auth \in Authentication,
             Receive(b, c, auth)
      PROVE  IInv'
  <2>1. WindowIsHistory'
    BY <1>4, ReceiveWindow
  <2>2. /\ <<b, c>> \in Packet /\ <<b, c>> \in sent /\ sent' = sent
        /\ accepted' = [accepted EXCEPT ![<<b, c>>] = @ + 1]
        /\ b = announced
    BY <1>4, AcceptCondition DEF Receive, Packet
  <2>3. accepted[<<b, c>>] = 0
    <3>1. c \notin seen /\ ~Stale(highest, c)
      BY <1>4, AcceptCondition DEF Receive
    <3>2. c \notin Heard
      BY <3>1 DEF IInv, WindowIsHistory
    <3>3. announced # None
      BY <2>2, BaseAssumption
    <3> QED BY <2>2, <3>2, <3>3 DEF Heard, IInv, TypeOK
  <2>4. \A p \in Packet : accepted'[p] = IF p = <<b, c>> THEN 1 ELSE accepted[p]
    BY <2>2, <2>3 DEF IInv, TypeOK
  <2>5. AtMostOnceAccepted' /\ AcceptedWasSent'
    BY <2>2, <2>4 DEF IInv, AtMostOnceAccepted, AcceptedWasSent
  <2> QED BY <1>1, <2>1, <2>5 DEF IInv
<1>5. CASE UNCHANGED vars
  BY <1>5 DEF vars, IInv, TypeOK, WindowIsHistory, AtMostOnceAccepted,
              AcceptedWasSent, Heard, Stale
<1> QED BY <1>2, <1>3, <1>4, <1>5 DEF Next

LEMMA Invariance == Spec => []IInv
BY InitIInv, StepIInv, PTL DEF Spec

\* The bounded window is a lossless summary of everything the session accepted.
THEOREM WindowCorrect == Spec => []WindowIsHistory
<1>1. IInv => WindowIsHistory
  BY DEF IInv
<1> QED BY Invariance, <1>1, PTL

\* No packet is accepted twice, whatever the network and the sessions do.
THEOREM NoReplay == Spec => []AtMostOnceAccepted
<1>1. IInv => AtMostOnceAccepted
  BY DEF IInv
<1> QED BY Invariance, <1>1, PTL

\* Forgeries and replays never cost the receiver a genuine packet.
THEOREM NoPoisoning == Spec => []GenuineIsAccepted
<1>1. IInv => GenuineIsAccepted
  <2> SUFFICES ASSUME IInv, NEW p \in sent, p[1] = announced, accepted[p] = 0,
                      \A c \in Heard : p[2] >= c - (Window - 1)
               PROVE  ~Stale(highest, p[2]) /\ p[2] \notin seen
    BY AcceptCondition DEF GenuineIsAccepted
  <2>1. p[1] \in Base /\ p[2] \in Counter /\ p = <<p[1], p[2]>>
    BY DEF IInv, TypeOK, Packet
  <2>2. p[2] \notin Heard
    BY <2>1 DEF Heard
  <2>3. ~Stale(highest, p[2])
    <3>1. CASE highest = None
      BY <3>1 DEF Stale
    <3>2. CASE highest # None
      <4>1. highest \in Heard
        BY <3>2 DEF IInv, WindowIsHistory
      <4>2. p[2] >= highest - (Window - 1) /\ p[2] \in Nat /\ highest \in Nat
        BY <2>1, <4>1, CounterAssumption DEF Heard
      <4> QED BY <4>2, WindowAssumption DEF Stale
    <3> QED BY <3>1, <3>2
  <2> QED BY <2>2, <2>3 DEF IInv, WindowIsHistory
<1> QED BY Invariance, <1>1, PTL

\* Stale-first and duplicate-first are the same rule on every reachable window.
THEOREM OrderIrrelevant == Spec => []OrdersAgree
<1>1. IInv => OrdersAgree
  <2> SUFFICES ASSUME IInv, NEW c \in Counter
               PROVE  LET media == MediaAction(highest, seen, c, "valid")
                          directory == DirectoryAction(highest, seen, c)
                      IN  /\ media = "reject_stale" <=> directory = "reject_stale_sequence"
                          /\ media = "reject_replay" <=> directory = "reject_duplicate_sequence"
    BY DEF OrdersAgree
  <2>1. c \in seen => ~Stale(highest, c)
    BY DEF IInv, WindowIsHistory
  <2> QED BY <2>1 DEF MediaAction, DirectoryAction
<1> QED BY Invariance, <1>1, PTL

\* The receiver implements at-most-once delivery of what was sealed.
THEOREM Refinement == Spec => PromiseSpec
<1>1. Init => Promise!Init
  BY DEF Init, Promise!Init, Delivered
<1>2. IInv /\ IInv' /\ [Next]_vars => [Promise!Next]_<<sent, Delivered>>
  <2> SUFFICES ASSUME IInv, IInv', [Next]_vars
               PROVE  Promise!Next \/ UNCHANGED <<sent, Delivered>>
    OBVIOUS
  <2>1. ASSUME NEW b \in Base, NEW c \in Counter, Send(b, c) PROVE Promise!Next
    <3>1. <<b, c>> \in Packet /\ <<b, c>> \notin sent
      <4>1. c \in Nat
        BY CounterAssumption
      <4>2. ASSUME <<b, c>> \in sent PROVE FALSE
        <5>1. <<b, c>>[1] = b => <<b, c>>[2] < c
          BY <2>1, <4>2 DEF Send
        <5> QED BY <4>1, <5>1
      <4> QED BY <4>2 DEF Packet
    <3>2. Promise!Send(<<b, c>>)
      BY <2>1, <3>1 DEF Send, Promise!Send, Delivered
    <3> QED BY <3>1, <3>2 DEF Promise!Next
  <2>2. ASSUME NEW b \in Base, Announce(b) PROVE UNCHANGED <<sent, Delivered>>
    BY <2>2 DEF Announce, Delivered
  <2>3. ASSUME NEW b \in Base, NEW c \in Counter, NEW auth \in Authentication,
               Receive(b, c, auth)
        PROVE  Promise!Next
    <3>1. /\ <<b, c>> \in Packet /\ <<b, c>> \in sent /\ sent' = sent
          /\ accepted' = [accepted EXCEPT ![<<b, c>>] = @ + 1]
      BY <2>3, AcceptCondition DEF Receive, Packet
    <3>2. accepted'[<<b, c>>] = accepted[<<b, c>>] + 1 /\ accepted[<<b, c>>] = 0
      <4>1. accepted[<<b, c>>] \in Nat /\ accepted'[<<b, c>>] = accepted[<<b, c>>] + 1
        BY <3>1 DEF IInv, TypeOK
      <4>2. accepted'[<<b, c>>] <= 1
        BY <3>1 DEF IInv, AtMostOnceAccepted
      <4> QED BY <4>1, <4>2
    <3>3. \A p \in Packet : p # <<b, c>> => accepted'[p] = accepted[p]
      BY <3>1 DEF IInv, TypeOK
    <3>4. Delivered' = Delivered \cup {<<b, c>>} /\ <<b, c>> \notin Delivered
      BY <3>1, <3>2, <3>3 DEF Delivered
    <3>5. Promise!Deliver(<<b, c>>)
      BY <3>1, <3>4 DEF Promise!Deliver
    <3> QED BY <3>1, <3>5 DEF Promise!Next
  <2>4. CASE UNCHANGED vars
    BY <2>4 DEF vars, Delivered
  <2> QED BY <2>1, <2>2, <2>3, <2>4 DEF Next
<1> QED BY <1>1, <1>2, Invariance, PTL DEF Spec, PromiseSpec, Promise!Spec
=============================================================================
