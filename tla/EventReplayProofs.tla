-------------------------- MODULE EventReplayProofs --------------------------
(***************************************************************************)
(* What a subscriber of the event stream receives, for any events, any     *)
(* authorization, any retention and any number of broken connections.      *)
(*                                                                         *)
(* The argument: what was received and what is under way, one after the    *)
(* other, are increasing, end at the position of the stream, and leave no  *)
(* authorized event out after the subscriber's mark.                       *)
(***************************************************************************)
EXTENDS EventReplay, TLAPS

LEMMA Numbers ==
  TypeOK => /\ emitted \in Nat /\ pruned \in Nat /\ pruned <= emitted
            /\ position = Closed \/ (position \in Nat /\ position <= emitted)
            /\ opened \in Nat /\ opened <= emitted
            /\ last = NoCursor \/ last \in Nat
BY NumbersAssumption DEF TypeOK, Closed, NoCursor

\* The first candidate: authorized, retained, and the next after the position.
LEMMA FirstCandidate ==
  ASSUME TypeOK, Send
  PROVE  /\ position' \in Authorized /\ position' \in Nat
         /\ position' > position /\ position' > pruned /\ position' <= emitted
         /\ wire' = Append(wire, position')
         /\ \A id \in Authorized : id > position /\ id > pruned => id >= position'
<1>1. PICK id \in Candidates(position) :
             /\ \A later \in Candidates(position) : id <= later
             /\ position' = id /\ wire' = Append(wire, id)
  BY DEF Send
<1>2. id \in Authorized /\ id \in pruned + 1 .. emitted /\ id > position
  BY DEF Candidates, Retained
<1>3. ASSUME NEW x \in Authorized, x > position, x > pruned
      PROVE  x >= position'
  <2>1. x \in Nat
    BY NumbersAssumption
  <2>2. CASE x <= emitted
    BY <1>1, <1>3, <2>1, <2>2, Numbers DEF Candidates, Retained
  <2>3. CASE x > emitted
    BY <1>1, <1>2, <2>1, <2>3, Numbers
  <2> QED BY <2>1, <2>2, <2>3, Numbers
<1> QED BY <1>1, <1>2, <1>3, Numbers, NumbersAssumption

\* An accepted request opens the stream at the selected cursor, which is retained,
\* or at the newest event.
LEMMA Opens ==
  ASSUME TypeOK, Connect, status' = 200
  PROVE  /\ position' \in Nat /\ position' <= emitted /\ UNCHANGED <<since, last>>
         /\ \/ SelectedCursor = NoCursor /\ opened' = emitted /\ position' = emitted
            \/ /\ mode = "replay" /\ SelectedCursor # NoCursor /\ opened' = opened
               /\ position' = SelectedCursor /\ SelectedCursor > pruned
            \/ /\ mode = "live" /\ SelectedCursor # NoCursor /\ opened' = opened
               /\ position' = emitted
<1>1. status' = RequestStatus /\ position' = StartingPoint
  BY DEF Connect
<1>2. mode # "disabled"
  BY <1>1 DEF RequestStatus
<1>3. CASE SelectedCursor = NoCursor
  BY <1>1, <1>3, Numbers DEF Connect, StartingPoint
<1>4. CASE SelectedCursor # NoCursor /\ mode = "replay"
  <2>1. SelectedCursor \in pruned + 1 .. emitted
    BY <1>1, <1>4 DEF RequestStatus, Retained
  <2> QED BY <1>1, <1>4, <2>1, Numbers DEF Connect, StartingPoint
<1>5. CASE SelectedCursor # NoCursor /\ mode = "live"
  BY <1>1, <1>5, Numbers DEF Connect, StartingPoint
<1> QED BY <1>2, <1>3, <1>4, <1>5 DEF TypeOK

LEMMA StepTypeOK == TypeOK /\ [Next]_vars => TypeOK'
<1> SUFFICES ASSUME TypeOK, [Next]_vars PROVE TypeOK'
  OBVIOUS
<1>1. CASE Emit
  BY <1>1, NumbersAssumption DEF Emit, TypeOK
<1>2. CASE Prune
  BY <1>2, NumbersAssumption DEF Prune, TypeOK
<1>3. CASE Connect
  <2>1. status' \in {200, 400, 404, 410}
    BY <1>3 DEF Connect, RequestStatus, TypeOK
  <2>2. CASE status' = 200
    BY <1>3, <2>1, <2>2, Opens DEF Connect, TypeOK
  <2>3. CASE status' # 200
    BY <1>3, <2>1, <2>3 DEF Connect, TypeOK
  <2> QED BY <2>2, <2>3
<1>4. CASE Send
  BY <1>4, FirstCandidate DEF Send, TypeOK
<1>5. CASE Receive
  BY <1>5 DEF Receive, TypeOK
<1>6. CASE Disconnect
  BY <1>6, NumbersAssumption DEF Disconnect, TypeOK
<1>7. CASE UNCHANGED vars
  BY <1>7 DEF TypeOK, vars
<1> QED BY <1>1, <1>2, <1>3, <1>4, <1>5, <1>6, <1>7 DEF Next

\* Variables keep their types: only events the caller may receive are sent.
THEOREM TypeCorrect == Spec => []TypeOK
<1>1. Init => TypeOK
  BY NumbersAssumption DEF Init, TypeOK
<1> QED BY <1>1, StepTypeOK, PTL DEF Spec

-----------------------------------------------------------------------------
\* The cursor of the subscriber is the last event it received; without one it
\* received none, or its next stream starts after all of them.
CursorIsLast ==
  /\ last # NoCursor => received # <<>> /\ last = received[Len(received)]
  /\ last = NoCursor /\ since # NoCursor => received = <<>>

\* Received before under way, under way in order, and all up to the position.
StreamInOrder ==
  /\ \A i \in DOMAIN received : received[i] <= emitted
  /\ position = Closed => wire = <<>>
  /\ position # Closed =>
       /\ \A i \in DOMAIN received : received[i] <= position
       /\ \A j \in DOMAIN wire : wire[j] <= position
  /\ \A i \in DOMAIN received, j \in DOMAIN wire : received[i] < wire[j]
  /\ \A i, j \in DOMAIN wire : i < j => wire[i] < wire[j]

OInv == TypeOK /\ CursorIsLast /\ StreamInOrder /\ ReceivedInOrder

LEMMA EventsAreNumbers ==
  ASSUME TypeOK
  PROVE  /\ \A i \in DOMAIN received : received[i] \in Nat
         /\ \A j \in DOMAIN wire : wire[j] \in Nat
         /\ Len(received) \in Nat /\ DOMAIN received = 1..Len(received)
         /\ Len(wire) \in Nat /\ DOMAIN wire = 1..Len(wire)
<1>1. received \in Seq(Authorized) /\ wire \in Seq(Authorized) /\ Authorized \subseteq Nat
  BY NumbersAssumption DEF TypeOK
<1>2. /\ Len(received) \in Nat /\ DOMAIN received = 1..Len(received)
      /\ \A i \in DOMAIN received : received[i] \in Authorized
  BY <1>1
<1>3. /\ Len(wire) \in Nat /\ DOMAIN wire = 1..Len(wire)
      /\ \A j \in DOMAIN wire : wire[j] \in Authorized
  BY <1>1
<1> QED BY <1>1, <1>2, <1>3

LEMMA ConnectInOrder == OInv /\ Connect => CursorIsLast' /\ StreamInOrder' /\ ReceivedInOrder'
<1> SUFFICES ASSUME OInv, Connect PROVE CursorIsLast' /\ StreamInOrder' /\ ReceivedInOrder'
  OBVIOUS
<1> USE DEF OInv
<1>1. UNCHANGED <<received, wire, emitted>> /\ wire = <<>> /\ DOMAIN wire = {} /\ ReceivedInOrder'
  <2>1. UNCHANGED <<received, wire, emitted>> /\ wire = <<>> /\ position = Closed
    BY DEF Connect, StreamInOrder
  <2> QED BY <2>1 DEF ReceivedInOrder
<1>2. CASE status' = 200
  <2>1. UNCHANGED <<since, last>> /\ position' \in Nat
    BY <1>2, Opens
  <2>2. ASSUME NEW i \in DOMAIN received PROVE received[i] <= position'
    <3>1. CASE position' = emitted
      BY <3>1 DEF StreamInOrder
    <3>2. CASE SelectedCursor # NoCursor /\ position' = SelectedCursor
      <4>1. last # NoCursor
        BY <2>2, <3>2 DEF SelectedCursor, CursorIsLast
      <4>2. position' = received[Len(received)]
        BY <3>2, <4>1 DEF SelectedCursor, CursorIsLast
      <4>3. i = Len(received) \/ received[i] < received[Len(received)]
        BY EventsAreNumbers DEF ReceivedInOrder
      <4> QED BY <4>2, <4>3, EventsAreNumbers
    <3> QED BY <1>2, <3>1, <3>2, Opens
  <2>3. CursorIsLast'
    BY <1>1, <2>1 DEF CursorIsLast
  <2>4. position' # Closed
    BY <2>1 DEF Closed
  <2> QED BY <1>1, <2>2, <2>3, <2>4 DEF StreamInOrder
<1>3. CASE status' # 200
  BY <1>1, <1>3 DEF Connect, CursorIsLast, StreamInOrder
<1> QED BY <1>2, <1>3

LEMMA SendInOrder == OInv /\ Send => CursorIsLast' /\ StreamInOrder' /\ ReceivedInOrder'
<1> SUFFICES ASSUME OInv, Send PROVE CursorIsLast' /\ StreamInOrder' /\ ReceivedInOrder'
  OBVIOUS
<1> USE DEF OInv
<1>1. UNCHANGED <<received, last, since, emitted>> /\ position # Closed
  BY DEF Send
<1>2. /\ DOMAIN wire' = 1..(Len(wire) + 1)
      /\ wire'[Len(wire) + 1] = position'
      /\ \A j \in DOMAIN wire : wire'[j] = wire[j]
  BY FirstCandidate DEF TypeOK
<1>3. CursorIsLast' /\ ReceivedInOrder'
  BY <1>1 DEF CursorIsLast, ReceivedInOrder
<1>4. position \in Nat /\ position' \in Nat /\ position' > position /\ position' # Closed
  BY <1>1, FirstCandidate, Numbers DEF Closed
<1>5. \A j \in DOMAIN wire' : j \in DOMAIN wire \/ j = Len(wire) + 1
  BY <1>2, EventsAreNumbers
<1>6. /\ \A i \in DOMAIN received : received[i] <= position'
      /\ \A j \in DOMAIN wire' : wire'[j] <= position'
  BY <1>1, <1>2, <1>4, <1>5, EventsAreNumbers DEF StreamInOrder
<1>7. \A i \in DOMAIN received, j \in DOMAIN wire' : received[i] < wire'[j]
  BY <1>1, <1>2, <1>4, <1>5, EventsAreNumbers DEF StreamInOrder
<1>8. \A i, j \in DOMAIN wire' : i < j => wire'[i] < wire'[j]
  <2> SUFFICES ASSUME NEW i \in DOMAIN wire', NEW j \in DOMAIN wire', i < j
               PROVE  wire'[i] < wire'[j]
    OBVIOUS
  <2>1. i \in DOMAIN wire
    BY <1>2, EventsAreNumbers
  <2>2. CASE j \in DOMAIN wire
    BY <1>2, <2>1, <2>2 DEF StreamInOrder
  <2>3. CASE j = Len(wire) + 1
    BY <1>1, <1>2, <1>4, <2>1, <2>3, EventsAreNumbers DEF StreamInOrder
  <2> QED BY <1>5, <2>2, <2>3
<1> QED BY <1>1, <1>3, <1>4, <1>6, <1>7, <1>8 DEF StreamInOrder

LEMMA ReceiveInOrder == OInv /\ Receive => CursorIsLast' /\ StreamInOrder' /\ ReceivedInOrder'
<1> SUFFICES ASSUME OInv, Receive PROVE CursorIsLast' /\ StreamInOrder' /\ ReceivedInOrder'
  OBVIOUS
<1> USE DEF OInv
<1>1. /\ wire # <<>> /\ wire' = Tail(wire) /\ received' = Append(received, Head(wire))
      /\ last' = Head(wire) /\ UNCHANGED <<position, since, emitted>>
  BY DEF Receive
<1>2. position # Closed /\ position \in Nat /\ position <= emitted /\ emitted \in Nat
  BY <1>1, Numbers DEF StreamInOrder
<1>3. /\ 1 \in DOMAIN wire /\ Head(wire) = wire[1]
      /\ DOMAIN wire' = 1..(Len(wire) - 1)
      /\ \A j \in DOMAIN wire' : j + 1 \in DOMAIN wire /\ wire'[j] = wire[j + 1]
  BY <1>1 DEF TypeOK
<1>4. /\ DOMAIN received' = 1..(Len(received) + 1) /\ Len(received') = Len(received) + 1
      /\ received'[Len(received) + 1] = wire[1]
      /\ \A i \in DOMAIN received : received'[i] = received[i]
  BY <1>1, <1>3 DEF TypeOK
<1>5. \A i \in DOMAIN received' : i \in DOMAIN received \/ i = Len(received) + 1
  BY <1>4, EventsAreNumbers
<1>6. CursorIsLast'
  <2>1. last' # NoCursor
    BY <1>1, <1>3, EventsAreNumbers DEF NoCursor
  <2>2. received' # <<>>
    BY <1>4, EventsAreNumbers
  <2> QED BY <1>1, <1>3, <1>4, <2>1, <2>2 DEF CursorIsLast
<1>7. ReceivedInOrder'
  <2> SUFFICES ASSUME NEW i \in DOMAIN received', NEW j \in DOMAIN received', i < j
               PROVE  received'[i] < received'[j]
    BY DEF ReceivedInOrder
  <2>1. i \in DOMAIN received
    BY <1>4, EventsAreNumbers
  <2>2. CASE j \in DOMAIN received
    BY <1>4, <2>1, <2>2 DEF ReceivedInOrder
  <2>3. CASE j = Len(received) + 1
    BY <1>3, <1>4, <2>1, <2>3 DEF StreamInOrder
  <2> QED BY <1>5, <2>2, <2>3
<1>8. \A i \in DOMAIN received', j \in DOMAIN wire' : received'[i] < wire'[j]
  <2> SUFFICES ASSUME NEW i \in DOMAIN received', NEW j \in DOMAIN wire'
               PROVE  received'[i] < wire'[j]
    OBVIOUS
  <2>1. CASE i \in DOMAIN received
    BY <1>3, <1>4, <2>1 DEF StreamInOrder
  <2>2. CASE i = Len(received) + 1
    <3>1. 1 < j + 1
      BY <1>3, EventsAreNumbers
    <3> QED BY <1>3, <1>4, <2>2, <3>1 DEF StreamInOrder
  <2> QED BY <1>5, <2>1, <2>2
<1>9. \A i, j \in DOMAIN wire' : i < j => wire'[i] < wire'[j]
  <2> SUFFICES ASSUME NEW i \in DOMAIN wire', NEW j \in DOMAIN wire', i < j
               PROVE  wire'[i] < wire'[j]
    OBVIOUS
  <2>1. i + 1 < j + 1
    BY <1>3, EventsAreNumbers
  <2> QED BY <1>3, <2>1 DEF StreamInOrder
<1>10. \A i \in DOMAIN received' : received'[i] <= position' /\ received'[i] <= emitted'
  BY <1>1, <1>2, <1>3, <1>4, <1>5, EventsAreNumbers DEF StreamInOrder
<1>11. \A j \in DOMAIN wire' : wire'[j] <= position'
  BY <1>1, <1>2, <1>3 DEF StreamInOrder
<1> QED BY <1>1, <1>2, <1>6, <1>7, <1>8, <1>9, <1>10, <1>11 DEF StreamInOrder

LEMMA StepInOrder == OInv /\ [Next]_vars => CursorIsLast' /\ StreamInOrder' /\ ReceivedInOrder'
<1> SUFFICES ASSUME OInv, [Next]_vars PROVE CursorIsLast' /\ StreamInOrder' /\ ReceivedInOrder'
  OBVIOUS
<1> USE DEF OInv
<1>1. CASE Connect \/ Send \/ Receive
  BY <1>1, ConnectInOrder, SendInOrder, ReceiveInOrder
<1>2. CASE Emit
  <2>1. emitted' = emitted + 1 /\ UNCHANGED <<received, wire, position, last, since>>
    BY <1>2 DEF Emit
  <2> QED BY <2>1, EventsAreNumbers, Numbers DEF CursorIsLast, StreamInOrder, ReceivedInOrder
<1>3. CASE Disconnect
  <2>1. /\ wire' = <<>> /\ position' = Closed /\ UNCHANGED <<received, emitted, last, since>>
    BY <1>3 DEF Disconnect
  <2>2. DOMAIN wire' = {}
    BY <2>1
  <2> QED BY <2>1, <2>2 DEF CursorIsLast, StreamInOrder, ReceivedInOrder
<1>4. CASE Prune \/ UNCHANGED vars
  <2>1. UNCHANGED <<received, wire, position, last, since, emitted>>
    BY <1>4 DEF Prune, vars
  <2> QED BY <2>1 DEF CursorIsLast, StreamInOrder, ReceivedInOrder
<1> QED BY <1>1, <1>2, <1>3, <1>4 DEF Next

\* No event comes twice or late, whichever connection and cursor brought it.
THEOREM EventsComeInOrder == Spec => []ReceivedInOrder
<1>1. Init => OInv
  BY NumbersAssumption DEF Init, OInv, TypeOK, CursorIsLast, StreamInOrder, ReceivedInOrder
<1>2. OInv /\ [Next]_vars => OInv'
  BY StepTypeOK, StepInOrder DEF OInv
<1>3. OInv => ReceivedInOrder
  BY DEF OInv
<1> QED BY <1>1, <1>2, <1>3, PTL DEF Spec

-----------------------------------------------------------------------------
\* In replay mode the open stream is past its mark, has pruned nothing that is
\* still to come, and carries every authorized event between mark and position.
NothingLeftOut ==
  mode = "replay" /\ position # Closed =>
    /\ Mark \in Nat /\ Mark <= position
    /\ \A j \in DOMAIN wire : Mark < wire[j]
    /\ \A id \in Authorized : id > position => id > pruned
    /\ \A id \in Authorized : Mark < id /\ id <= position => \E j \in DOMAIN wire : wire[j] = id

GInv == OInv /\ NothingLeftOut

\* An accepted request in replay mode starts at the subscriber's mark.
LEMMA StartsAtMark ==
  ASSUME TypeOK, Connect, status' = 200, mode = "replay"
  PROVE  Mark' = position' /\ position' >= pruned
<1>1. SelectedCursor = NoCursor => last = NoCursor /\ since = NoCursor
  BY DEF SelectedCursor, NoCursor
<1>2. CASE SelectedCursor = NoCursor
  BY <1>1, <1>2, Opens, Numbers DEF Mark
<1>3. CASE SelectedCursor # NoCursor
  <2>1. position' = SelectedCursor /\ position' \in Nat /\ position' > pruned
        /\ UNCHANGED <<since, last>>
    BY <1>3, Opens
  <2> QED BY <1>3, <2>1, Numbers DEF Mark, SelectedCursor
<1> QED BY <1>2, <1>3

LEMMA StepNothingLeftOut == GInv /\ [Next]_vars => NothingLeftOut'
<1> SUFFICES ASSUME GInv, [Next]_vars, mode' = "replay", position' # Closed
             PROVE  NothingLeftOut'
  BY DEF NothingLeftOut
<1> USE DEF GInv, OInv
<1>0. mode = "replay"
  BY DEF Next, vars, Emit, Prune, Connect, Send, Receive, Disconnect
<1>1. CASE Emit \/ UNCHANGED vars
  <2>1. UNCHANGED <<mode, position, wire, pruned, last, since, opened>>
    BY <1>1 DEF Emit, vars
  <2> QED BY <2>1 DEF NothingLeftOut, Mark
<1>2. CASE Prune
  <2>1. /\ UNCHANGED <<mode, position, wire, emitted, last, since, opened>>
        /\ position # Closed /\ pruned' = pruned + 1
        /\ emitted - pruned > Retention /\ Candidates(position) \subseteq pruned + 2 .. emitted
    BY <1>2 DEF Prune
  <2>2. ASSUME NEW id \in Authorized, id > position PROVE id > pruned'
    <3>1. id \in Nat /\ id > pruned
      BY <1>0, <2>1, <2>2, NumbersAssumption DEF NothingLeftOut
    <3>2. CASE id <= emitted
      <4>1. id \in pruned + 2 .. emitted
        BY <2>1, <2>2, <3>1, <3>2, Numbers DEF Candidates, Retained
      <4> QED BY <2>1, <4>1, Numbers
    <3>3. CASE id > emitted
      BY <2>1, <3>1, <3>3, Numbers, NumbersAssumption
    <3> QED BY <3>1, <3>2, <3>3, Numbers
  <2> QED BY <1>0, <2>1, <2>2 DEF NothingLeftOut, Mark
<1>3. CASE Connect
  <2>1. status' = 200 /\ position = Closed
    BY <1>3 DEF Connect
  <2>2. UNCHANGED <<mode, wire, pruned>> /\ DOMAIN wire = {}
    BY <1>3, <2>1 DEF Connect, StreamInOrder
  <2>3. Mark' = position' /\ position' >= pruned /\ position' \in Nat
    BY <1>0, <1>3, <2>1, StartsAtMark, Opens
  <2>4. \A id \in Authorized : id \in Nat
    BY NumbersAssumption
  <2> QED BY <2>2, <2>3, <2>4, Numbers DEF NothingLeftOut
<1>4. CASE Send
  <2>1. /\ UNCHANGED <<mode, pruned, last, since, opened>> /\ Mark' = Mark
        /\ position # Closed /\ position \in Nat /\ Mark \in Nat /\ Mark <= position
    BY <1>0, <1>4, Numbers DEF Send, Mark, NothingLeftOut
  <2>2. /\ DOMAIN wire' = 1..(Len(wire) + 1)
        /\ wire'[Len(wire) + 1] = position'
        /\ \A j \in DOMAIN wire : j \in DOMAIN wire' /\ wire'[j] = wire[j]
    <3>1. /\ DOMAIN wire' = 1..(Len(wire) + 1)
          /\ wire'[Len(wire) + 1] = position'
          /\ \A j \in DOMAIN wire : wire'[j] = wire[j]
      BY <1>4, FirstCandidate DEF TypeOK
    <3> QED BY <3>1, EventsAreNumbers
  <2>3. position' \in Nat /\ position' > position
    BY <1>4, FirstCandidate
  <2>4. \A j \in DOMAIN wire' : Mark < wire'[j]
    BY <1>0, <2>1, <2>2, <2>3, EventsAreNumbers DEF NothingLeftOut
  <2>5. ASSUME NEW id \in Authorized PROVE /\ id \in Nat
                                           /\ id > position => id >= position' /\ id > pruned
    BY <1>0, <1>4, <2>1, FirstCandidate, NumbersAssumption DEF NothingLeftOut
  <2>6. ASSUME NEW id \in Authorized, Mark < id, id <= position'
        PROVE  \E j \in DOMAIN wire' : wire'[j] = id
    <3>1. CASE id <= position
      <4>1. PICK j \in DOMAIN wire : wire[j] = id
        BY <1>0, <2>1, <2>6, <3>1 DEF NothingLeftOut
      <4> QED BY <2>2, <4>1
    <3>2. CASE id > position
      <4>1. id = position'
        BY <2>3, <2>5, <2>6, <3>2
      <4>2. Len(wire) + 1 \in DOMAIN wire'
        BY <2>2, EventsAreNumbers
      <4> QED BY <2>2, <4>1, <4>2
    <3> QED BY <2>1, <2>5, <3>1, <3>2
  <2>7. \A id \in Authorized : id > position' => id > pruned
    BY <2>1, <2>3, <2>5
  <2> QED BY <2>1, <2>3, <2>4, <2>6, <2>7 DEF NothingLeftOut
<1>5. CASE Receive
  <2>1. /\ wire # <<>> /\ wire' = Tail(wire) /\ last' = Head(wire)
        /\ UNCHANGED <<mode, position, pruned>>
    BY <1>5 DEF Receive
  <2>2. /\ 1 \in DOMAIN wire /\ Head(wire) = wire[1] /\ wire[1] \in Nat
        /\ DOMAIN wire' = 1..(Len(wire) - 1)
        /\ \A j \in DOMAIN wire' : j + 1 \in DOMAIN wire /\ wire'[j] = wire[j + 1]
    BY <2>1, EventsAreNumbers DEF TypeOK
  <2>3. Mark' = wire[1] /\ Mark < wire[1] /\ Mark \in Nat
    BY <1>0, <2>1, <2>2 DEF Mark, NothingLeftOut, NoCursor
  <2>4. wire[1] <= position
    BY <2>1, <2>2 DEF StreamInOrder
  <2>5. ASSUME NEW j \in DOMAIN wire' PROVE wire[1] < wire'[j]
    <3>1. 1 < j + 1 /\ j + 1 \in DOMAIN wire
      BY <2>2, EventsAreNumbers
    <3> QED BY <2>2, <3>1 DEF StreamInOrder
  <2>6. ASSUME NEW id \in Authorized, wire[1] < id, id <= position
        PROVE  \E j \in DOMAIN wire' : wire'[j] = id
    <3>1. id \in Nat /\ Mark < id
      BY <2>2, <2>3, <2>6, NumbersAssumption
    <3>2. PICK j \in DOMAIN wire : wire[j] = id
      BY <1>0, <2>1, <2>6, <3>1 DEF NothingLeftOut
    <3>3. j # 1
      BY <2>2, <2>6, <3>1, <3>2
    <3>4. j - 1 \in DOMAIN wire' /\ (j - 1) + 1 = j
      BY <2>2, <3>2, <3>3, EventsAreNumbers
    <3> QED BY <2>2, <3>2, <3>4
  <2> QED BY <1>0, <2>1, <2>2, <2>3, <2>4, <2>5, <2>6 DEF NothingLeftOut
<1>6. CASE Disconnect
  BY <1>6 DEF Disconnect
<1> QED BY <1>1, <1>2, <1>3, <1>4, <1>5, <1>6 DEF Next

\* What is received next in replay mode is the first authorized event after the
\* subscriber's mark: a hole in its history is always announced by a 410.
THEOREM GapsAreAnnounced == Spec => NoSilentGap
<1>1. Init => GInv
  BY NumbersAssumption
     DEF Init, GInv, OInv, TypeOK, CursorIsLast, StreamInOrder, ReceivedInOrder, NothingLeftOut
<1>2. GInv /\ [Next]_vars => GInv'
  BY StepTypeOK, StepInOrder, StepNothingLeftOut DEF GInv, OInv
<1>3. ASSUME GInv, Next, received' # received, mode = "replay",
             NEW id \in Authorized, id > Mark
      PROVE  id >= Head(wire)
  <2>1. TypeOK /\ StreamInOrder /\ NothingLeftOut
    BY <1>3 DEF GInv, OInv
  <2>2. wire # <<>>
    BY <1>3 DEF Next, Emit, Prune, Connect, Send, Receive, Disconnect
  <2>3. 1 \in DOMAIN wire /\ Head(wire) = wire[1] /\ wire[1] \in Nat
    BY <2>1, <2>2, EventsAreNumbers DEF TypeOK
  <2>4. position # Closed /\ wire[1] <= position /\ position \in Nat
    BY <2>1, <2>2, <2>3, Numbers DEF StreamInOrder
  <2>5. id \in Nat
    BY NumbersAssumption
  <2>6. CASE id <= position
    <3>1. PICK j \in DOMAIN wire : wire[j] = id
      BY <1>3, <2>1, <2>4, <2>6 DEF NothingLeftOut
    <3>2. j = 1 \/ 1 < j
      BY <2>1, <3>1, EventsAreNumbers
    <3>3. 1 < j => wire[1] < wire[j]
      BY <2>1, <2>3, <3>1 DEF StreamInOrder
    <3> QED BY <2>3, <2>5, <3>1, <3>2, <3>3
  <2>7. CASE id > position
    BY <2>3, <2>4, <2>5, <2>7
  <2> QED BY <2>4, <2>5, <2>6, <2>7
<1>4. GInv /\ [Next]_vars
        => [received' # received /\ mode = "replay"
              => \A id \in Authorized : id > Mark => id >= Head(wire)]_vars
  BY <1>3
<1> QED BY <1>1, <1>2, <1>4, PTL DEF Spec, NoSilentGap
=============================================================================
