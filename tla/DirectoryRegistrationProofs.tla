--------------------- MODULE DirectoryRegistrationProofs ---------------------
(***************************************************************************)
(* Types, slots and deadlines of the registration directory, for any       *)
(* number of clients, endpoints and slots and any clock.                   *)
(*                                                                         *)
(* The argument for the deadlines: what a step does to one key is one of   *)
(* seven things (KeyStep), and the record of a registered client ends      *)
(* later than its next renewal can arrive.                                 *)
(***************************************************************************)
EXTENDS DirectoryRegistration, FiniteSetTheorems, TLAPS

\* A registration made now is a record.
LEMMA RegistrationType ==
  ASSUME now \in Nat, NEW e \in Endpoint
  PROVE  Registration(e) \in RecordType /\ Registration(e).present
<1>1. now + RegistrationTtlSeconds \in Nat
  BY DEF RegistrationTtlSeconds
<1> QED BY <1>1 DEF Registration, RecordType

\* What the Relay makes of a datagram is the old records, or the old records
\* with the key's own replaced.
LEMMA AfterDatagram ==
  ASSUME TypeOK, NEW m \in net, Deliver(m)
  PROVE  \/ record' = record
         \/ /\ record' = [record EXCEPT ![m.key] = Registration(m.from)]
            /\ record[m.key].present \/ Cardinality(Held) < Capacity
BY DEF Deliver, AfterRegister, AfterHeartbeat

LEMMA DatagramFields ==
  ASSUME TypeOK, NEW m \in net
  PROVE  m.key \in Key /\ m.from \in Endpoint
BY DEF TypeOK, DatagramType

\* A client that sends, registers or moves stays a client.
LEMMA ClientFields ==
  ASSUME TypeOK, NEW k \in Key
  PROVE  /\ client[k] = [started |-> client[k].started, endpoint |-> client[k].endpoint,
                         sent |-> client[k].sent, registered |-> client[k].registered]
         /\ client[k].started \in BOOLEAN /\ client[k].endpoint \in Endpoint
         /\ client[k].sent \in Nat /\ client[k].registered \in Nat
BY DEF TypeOK, ClientType

LEMMA StepTypeOK == TypeOK /\ [Next]_vars => TypeOK'
<1> SUFFICES ASSUME TypeOK, [Next]_vars PROVE TypeOK'
  OBVIOUS
<1>1. ASSUME NEW k \in Key, Start(k) PROVE TypeOK'
  <2>1. Datagram(k, "register", client[k].endpoint) \in DatagramType
    BY ClientFields DEF TypeOK, Datagram, DatagramType
  <2>2. client' \in [Key -> ClientType]
    <3>1. client'[k] \in ClientType
      BY <1>1, ClientFields DEF Start, TypeOK, ClientType
    <3>2. /\ client' = [j \in Key |-> client'[j]]
          /\ \A j \in Key : j # k => client'[j] = client[j]
      BY <1>1 DEF Start, TypeOK
    <3> QED BY <3>1, <3>2 DEF TypeOK
  <2> QED BY <1>1, <2>1, <2>2 DEF Start, TypeOK
<1>2. ASSUME NEW k \in Key, Register(k) PROVE TypeOK'
  <2>1. Datagram(k, "register", client[k].endpoint) \in DatagramType
    BY ClientFields DEF TypeOK, Datagram, DatagramType
  <2>2. client' \in [Key -> ClientType]
    <3>1. client'[k] \in ClientType
      BY <1>2, ClientFields DEF Register, TypeOK, ClientType
    <3>2. /\ client' = [j \in Key |-> client'[j]]
          /\ \A j \in Key : j # k => client'[j] = client[j]
      BY <1>2 DEF Register, TypeOK
    <3> QED BY <3>1, <3>2 DEF TypeOK
  <2> QED BY <1>2, <2>1, <2>2 DEF Register, TypeOK
<1>3. ASSUME NEW k \in Key, Heartbeat(k) PROVE TypeOK'
  <2>1. Datagram(k, "heartbeat", client[k].endpoint) \in DatagramType
    BY ClientFields DEF TypeOK, Datagram, DatagramType
  <2>2. client' \in [Key -> ClientType]
    BY <1>3, ClientFields DEF Heartbeat, TypeOK, ClientType
  <2> QED BY <1>3, <2>1, <2>2 DEF Heartbeat, TypeOK
<1>4. ASSUME NEW k \in Key, NEW e \in Endpoint, Move(k, e) PROVE TypeOK'
  <2>1. Datagram(k, "register", e) \in DatagramType
    BY DEF TypeOK, Datagram, DatagramType
  <2>2. client' \in [Key -> ClientType]
    <3>1. client'[k] \in ClientType
      BY <1>4, ClientFields DEF Move, TypeOK, ClientType
    <3>2. /\ client' = [j \in Key |-> client'[j]]
          /\ \A j \in Key : j # k => client'[j] = client[j]
      BY <1>4 DEF Move, TypeOK
    <3> QED BY <3>1, <3>2 DEF TypeOK
  <2> QED BY <1>4, <2>1, <2>2 DEF Move, TypeOK
<1>5. ASSUME NEW k \in Key, Expire(k) PROVE TypeOK'
  BY <1>5 DEF Expire, TypeOK, RecordType
<1>6. ASSUME NEW m \in net, Deliver(m) PROVE TypeOK'
  <2>1. m.key \in Key /\ m.from \in Endpoint
    BY DatagramFields
  <2>2. Registration(m.from) \in RecordType
    BY <2>1, RegistrationType DEF TypeOK
  <2>3. record' \in [Key -> RecordType]
    BY <1>6, <2>2, AfterDatagram DEF TypeOK
  <2>4. steady' \in [Key -> BOOLEAN]
    <3>1. (\/ steady[m.key]
           \/ /\ RegisteredIn(record', m.key)
              /\ \A n \in net' \cup {m} : n.key = m.key => n.from = client[m.key].endpoint) \in BOOLEAN
      BY <2>1 DEF TypeOK
    <3> QED BY <1>6, <3>1 DEF Deliver, TypeOK
  <2> QED BY <1>6, <2>3, <2>4 DEF Deliver, TypeOK
<1>7. ASSUME NEW m \in net, Lose(m) PROVE TypeOK'
  BY <1>7, DatagramFields DEF Lose, TypeOK
<1>8. CASE Restart
  BY <1>8 DEF Restart, TypeOK, RecordType
<1>9. CASE Tick
  BY <1>9, NumbersAssumption DEF Tick, TypeOK
<1>10. CASE UNCHANGED vars
  BY <1>10 DEF TypeOK, vars
<1> QED BY <1>1, <1>2, <1>3, <1>4, <1>5, <1>6, <1>7, <1>8, <1>9, <1>10 DEF Next

LEMMA InitTypeOK == Init => TypeOK
<1> SUFFICES ASSUME Init PROVE TypeOK
  OBVIOUS
<1>1. client \in [Key -> ClientType]
  <2>1. \A e \in Endpoint :
          [started |-> FALSE, endpoint |-> e, sent |-> 0, registered |-> 0] \in ClientType
    BY DEF ClientType
  <2> HIDE DEF ClientType
  <2> QED BY <2>1 DEF Init
<1> QED BY <1>1 DEF Init, TypeOK, RecordType

\* Variables keep their types: a record is absent or whole, whatever order
\* datagrams, expiry, moves and restarts come in.
THEOREM TypeCorrect == Spec => []TypeOK
BY InitTypeOK, StepTypeOK, PTL DEF Spec

-----------------------------------------------------------------------------
LEMMA HeldIsFinite == IsFiniteSet(Held) /\ Cardinality(Held) \in Nat
BY KeyAssumption, FS_Subset, FS_CardinalityType DEF Held

\* Fewer records are no more records.
LEMMA FewerHeld ==
  ASSUME Held' \subseteq Held, SlotsBounded
  PROVE  SlotsBounded'
<1>1. Cardinality(Held') <= Cardinality(Held) /\ Cardinality(Held') \in Nat
  BY HeldIsFinite, FS_Subset, FS_CardinalityType
<1> QED BY <1>1, HeldIsFinite, NumbersAssumption DEF SlotsBounded

LEMMA StepSlots == TypeOK /\ SlotsBounded /\ [Next]_vars => SlotsBounded'
<1> SUFFICES ASSUME TypeOK, SlotsBounded, [Next]_vars PROVE SlotsBounded'
  OBVIOUS
<1>1. ASSUME NEW m \in net, Deliver(m) PROVE SlotsBounded'
  <2>1. CASE record' = record
    BY <2>1, FewerHeld DEF Held
  <2>2. CASE /\ record' = [record EXCEPT ![m.key] = Registration(m.from)]
             /\ record[m.key].present
    <3>1. Held' \subseteq Held
      BY <2>2 DEF Held, TypeOK
    <3> QED BY <3>1, FewerHeld
  <2>3. CASE /\ record' = [record EXCEPT ![m.key] = Registration(m.from)]
             /\ ~record[m.key].present
             /\ Cardinality(Held) < Capacity
    <3>1. m.key \in Key /\ Registration(m.from).present
      BY DatagramFields DEF Registration
    <3>2. Held' = Held \cup {m.key}
      BY <2>3, <3>1 DEF Held, TypeOK
    <3>3. m.key \notin Held
      BY <2>3 DEF Held
    <3>4. Cardinality(Held') = Cardinality(Held) + 1
      BY <3>2, <3>3, HeldIsFinite, FS_AddElement
    <3> QED BY <2>3, <3>4, HeldIsFinite, NumbersAssumption DEF SlotsBounded
  <2> QED BY <1>1, <2>1, <2>2, <2>3, AfterDatagram
<1>2. ASSUME NEW k \in Key, Expire(k) PROVE SlotsBounded'
  <2>1. Held' \subseteq Held
    BY <1>2 DEF Expire, Held, TypeOK, Absent
  <2> QED BY <2>1, FewerHeld
<1>3. CASE Restart
  <2>1. Held' \subseteq Held
    BY <1>3 DEF Restart, Held, Absent
  <2> QED BY <2>1, FewerHeld
<1>4. CASE record' = record
  BY <1>4, FewerHeld DEF Held
<1>5. \/ \E m \in net : Deliver(m)
      \/ \E k \in Key : Expire(k)
      \/ Restart
      \/ record' = record
  BY DEF Next, vars, Start, Register, Heartbeat, Move, Lose, Tick
<1> QED BY <1>1, <1>2, <1>3, <1>4, <1>5

\* No burst, reordering or restart makes the Relay hold more records than it
\* has slots.
THEOREM SlotsAreBounded == Spec => []SlotsBounded
<1>1. Init => SlotsBounded
  <2>1. ASSUME Init PROVE Held = {}
    BY <2>1 DEF Init, Held, Absent
  <2> QED BY <2>1, FS_EmptySet, NumbersAssumption DEF SlotsBounded
<1>2. TypeOK /\ SlotsBounded /\ [Next]_vars => SlotsBounded'
  BY StepSlots
<1> QED BY <1>1, <1>2, TypeCorrect, PTL DEF Spec
-----------------------------------------------------------------------------
(* Deadlines.  Everything below is about the datagrams, the record and the *)
(* client of one key, whatever the other keys do.                          *)

Own(k) == {m \in net : m.key = k}

\* The records of the other keys take every slot.
Full(k) == Cardinality(Held \ {k}) >= Capacity

\* When the record of k was made or last renewed.
RenewedAt(k) == record[k].expires - RegistrationTtlSeconds

\* A client is never behind its schedule, and its datagrams never late.
Timely(k) ==
  /\ client[k].started =>
       /\ client[k].sent <= now /\ now <= client[k].sent + 30
       /\ client[k].registered <= now /\ now <= client[k].registered + 60
  /\ \A m \in Own(k) :
       client[k].started /\ m.sent <= client[k].sent /\ now <= m.sent + MaxDelay

\* Registered, and nothing under way can change the endpoint.
Settled(k) ==
  /\ client[k].started
  /\ Registered(k)
  /\ \A m \in Own(k) : m.from = client[k].endpoint

\* The next renewal is on its way before the record ends, though one may be lost.
SurvivesLoss(k) ==
  IF lossRow[k]
  THEN \/ client[k].sent <= RenewedAt(k) + 30
       \/ \E m \in Own(k) : m.sent <= RenewedAt(k) + 60
  ELSE \/ client[k].sent <= RenewedAt(k)
       \/ \E m \in Own(k) :
            /\ m.sent <= RenewedAt(k) + 30
            /\ \/ client[k].sent <= RenewedAt(k) + 30
               \/ \E n \in Own(k) : n # m /\ n.sent <= RenewedAt(k) + 60

SteadyInv == \A k \in Key : steady[k] => Settled(k) /\ SurvivesLoss(k)

\* The same when nothing is lost.
Renewing(k) ==
  \/ client[k].sent <= RenewedAt(k)
  \/ \E m \in Own(k) : m.sent <= RenewedAt(k) + 30

\* The first register that nothing older can follow is to be sent or under way.
Healing(k) ==
  \/ client[k].registered <= since[k] + MaxDelay
  \/ \E m \in Own(k) :
       /\ m.type = "register" /\ m.from = client[k].endpoint
       /\ m.sent > since[k] + MaxDelay
       /\ m.sent <= since[k] + MaxDelay + 60

\* A datagram from another endpoint is older than the last trouble.
StaleIsOld(k) == \A m \in Own(k) : m.from = client[k].endpoint \/ m.sent <= since[k]

HealInv ==
  \A k \in Key : client[k].started =>
    StaleIsOld(k) /\ (Full(k) \/ Healing(k) \/ (Settled(k) /\ Renewing(k)))

TimeInv == \A k \in Key : Timely(k)

-----------------------------------------------------------------------------
(* What a step is for one key.                                             *)

Same(k) == record'[k] = record[k] /\ client'[k] = client[k]
Unhurt(k) == since'[k] = since[k] /\ (Full(k) => Full(k)') /\ steady'[k] = steady[k]

\* Nothing happens to k, time may pass; another key's record may free a slot.
Rests(k) ==
  /\ Same(k) /\ Own(k)' = Own(k) /\ lossRow'[k] = lossRow[k] /\ steady'[k] = steady[k]
  /\ (since'[k] = now /\ now' = now) \/ Unhurt(k)
  /\ now' \in Nat /\ now' >= now
  /\ now' # now => /\ client[k].started => /\ now' <= client[k].sent + 30
                                           /\ now' <= client[k].registered + 60
                   /\ \A m \in Own(k) : now' <= m.sent + MaxDelay

\* k sends a heartbeat or a register.
Sends(k) ==
  /\ client[k].started /\ client'[k].started /\ client[k].sent < now
  /\ client'[k].endpoint = client[k].endpoint /\ client'[k].sent = now
  /\ \/ /\ client'[k].registered = client[k].registered
        /\ \E m \in DatagramType : /\ m.sent = now /\ m.from = client[k].endpoint
                                   /\ Own(k)' = Own(k) \cup {m}
     \/ /\ client'[k].registered = now
        /\ \E m \in DatagramType : /\ m.sent = now /\ m.from = client[k].endpoint
                                   /\ m.type = "register"
                                   /\ Own(k)' = Own(k) \cup {m}
  /\ record'[k] = record[k] /\ lossRow'[k] = lossRow[k] /\ Unhurt(k) /\ now' = now

\* k starts or moves.
Announces(k) ==
  /\ \E e \in Endpoint, m \in DatagramType :
       /\ client'[k].started /\ client'[k].endpoint = e
       /\ client'[k].sent = now /\ client'[k].registered = now
       /\ m.sent = now /\ Own(k)' = Own(k) \cup {m}
       /\ m.from = e
  /\ steady'[k] => steady[k] /\ ~client[k].started
  /\ since'[k] = now /\ now' = now

\* One of k's datagrams arrives.
Arrives(k) ==
  /\ \E m \in Own(k) :
       /\ Own(k)' = Own(k) \ {m}
       /\ \/ /\ record'[k] = Registration(m.from)
          \/ /\ record'[k] = record[k]
             /\ m.type = "register" => ~record[k].present /\ Cardinality(Held) >= Capacity
             /\ m.type = "heartbeat" => ~(/\ record[k].present
                                          /\ now < record[k].expires
                                          /\ record[k].endpoint = m.from)
       /\ steady'[k] => \/ steady[k]
                        \/ /\ RegisteredIn(record', k)
                           /\ \A n \in Own(k) : n.from = client[k].endpoint
  /\ client'[k] = client[k] /\ ~lossRow'[k]
  /\ since'[k] = since[k] /\ (Full(k) => Full(k)')
  /\ now' = now

Loses(k) ==
  /\ \E m \in Own(k) : Own(k)' = Own(k) \ {m}
  /\ Same(k) /\ ~lossRow[k] /\ lossRow'[k] /\ steady'[k] = steady[k]
  /\ since'[k] = now /\ now' = now

\* The record of k ends.
Lapses(k) ==
  /\ record[k].present /\ now >= record[k].expires
  /\ client'[k] = client[k] /\ Own(k)' = Own(k) /\ steady'[k] = steady[k]
  /\ since'[k] = now \/ (since'[k] = since[k] /\ ~Full(k))
  /\ now' = now

Forgets(k) ==
  /\ client'[k] = client[k] /\ Own(k)' = Own(k)
  /\ ~steady'[k] /\ since'[k] = now /\ now' = now

KeyStep(k) ==
  \/ Rests(k) \/ Sends(k) \/ Announces(k) \/ Arrives(k) \/ Loses(k) \/ Lapses(k) \/ Forgets(k)

LEMMA TimeFields ==
  ASSUME TypeOK, NEW k \in Key
  PROVE  /\ now \in Nat /\ since[k] \in Nat
         /\ \A m \in Own(k) : m \in DatagramType /\ m.sent \in Nat /\ m.key = k
                              /\ m.type \in {"register", "heartbeat"}
  BY DEF TypeOK, Own, DatagramType

LEMMA FullIsBounded ==
  ASSUME NEW k \in Key
  PROVE  /\ Full(k) => Cardinality(Held) >= Capacity
         /\ k \notin Held /\ Cardinality(Held) >= Capacity => Full(k)
<1>1. /\ IsFiniteSet(Held) /\ Cardinality(Held) \in Nat
      /\ Cardinality(Held \ {k}) \in Nat /\ Cardinality(Held \ {k}) <= Cardinality(Held)
  BY HeldIsFinite, FS_Subset, FS_CardinalityType
<1>2. Capacity \in Nat
  BY NumbersAssumption
<1>3. k \notin Held => Held \ {k} = Held
  OBVIOUS
<1> QED BY <1>1, <1>2, <1>3 DEF Full

\* While nobody's record ends, the other records fill the slots as before.
LEMMA FullStays ==
  ASSUME NEW k \in Key, Held \subseteq Held', Full(k)
  PROVE  Full(k)'
<1>1. IsFiniteSet(Held' \ {k})
  BY KeyAssumption, FS_Subset DEF Held
<1>2. Held \ {k} \subseteq Held' \ {k}
  OBVIOUS
<1>3. /\ Cardinality(Held \ {k}) <= Cardinality(Held' \ {k})
      /\ Cardinality(Held \ {k}) \in Nat /\ Cardinality(Held' \ {k}) \in Nat
  BY <1>1, <1>2, FS_Subset, FS_CardinalityType
<1> QED BY <1>3, NumbersAssumption DEF Full

\* A datagram sent by j is one of k's own only if j is k.
LEMMA OwnAfterSend ==
  ASSUME TypeOK, NEW j \in Key, NEW k \in Key, NEW type, NEW e,
         net' = net \cup {Datagram(j, type, e)}
  PROVE  /\ j # k => Own(k)' = Own(k)
         /\ j = k => Own(k)' = Own(k) \cup {Datagram(j, type, e)}
BY DEF Own, Datagram

LEMMA OwnAfterLeave ==
  ASSUME TypeOK, NEW m \in net, NEW k \in Key, net' = net \ {m}
  PROVE  /\ m.key # k => Own(k)' = Own(k)
         /\ m.key = k => m \in Own(k) /\ Own(k)' = Own(k) \ {m}
BY DEF Own

LEMMA StartIsKeyStep ==
  ASSUME TypeOK, NEW j \in Key, NEW k \in Key, Start(j)
  PROVE  KeyStep(k)
<1>a. /\ client \in [Key -> ClientType] /\ since \in [Key -> Nat] /\ now \in Nat
      /\ client[k].endpoint \in Endpoint
  BY ClientFields DEF TypeOK
<1>1. CASE j = k
  <2> DEFINE m == Datagram(k, "register", client[k].endpoint)
  <2>1. m \in DatagramType /\ m.sent = now /\ m.from = client[k].endpoint
    BY <1>a DEF Datagram, DatagramType
  <2>2. Own(k)' = Own(k) \cup {m}
    BY <1>1, OwnAfterSend DEF Start
  <2>3. client'[k] = [client[k] EXCEPT !.started = TRUE, !.sent = now, !.registered = now]
    BY <1>a, <1>1 DEF Start
  <2>5. /\ client'[k].started /\ client'[k].endpoint = client[k].endpoint
        /\ client'[k].sent = now /\ client'[k].registered = now
    BY <2>3, ClientFields
  <2>4. ~client[k].started /\ since'[k] = now /\ now' = now /\ steady' = steady
    BY <1>a, <1>1 DEF Start
  <2> HIDE DEF m
  <2> QED BY <1>a, <2>1, <2>2, <2>4, <2>5 DEF KeyStep, Announces
<1>2. CASE j # k
  <2>1. Same(k) /\ Unhurt(k)
    BY <1>a, <1>2 DEF Start, Same, Unhurt, Full, Held
  <2>2. Own(k)' = Own(k)
    BY <1>2, OwnAfterSend DEF Start
  <2> QED BY <1>a, <2>1, <2>2 DEF Start, KeyStep, Rests
<1> QED BY <1>1, <1>2

LEMMA MoveIsKeyStep ==
  ASSUME TypeOK, NEW j \in Key, NEW k \in Key, NEW e \in Endpoint, Move(j, e)
  PROVE  KeyStep(k)
<1>a. /\ client \in [Key -> ClientType] /\ since \in [Key -> Nat] /\ now \in Nat
      /\ steady \in [Key -> BOOLEAN]
  BY DEF TypeOK
<1>1. CASE j = k
  <2> DEFINE m == Datagram(k, "register", e)
  <2>1. m \in DatagramType /\ m.sent = now /\ m.from = e
    BY <1>a DEF Datagram, DatagramType
  <2>2. Own(k)' = Own(k) \cup {m}
    BY <1>1, OwnAfterSend DEF Move
  <2>3. client'[k] = [client[k] EXCEPT !.endpoint = e, !.sent = now, !.registered = now]
    BY <1>a, <1>1 DEF Move
  <2>5. /\ client'[k].started /\ client'[k].endpoint = e
        /\ client'[k].sent = now /\ client'[k].registered = now
    <3>1. client[j].started
      BY DEF Move
    <3> QED BY <1>1, <2>3, <3>1, ClientFields
  <2>4. since'[k] = now /\ now' = now /\ ~steady'[k]
    BY <1>a, <1>1 DEF Move
  <2> HIDE DEF m
  <2> QED BY <1>a, <2>1, <2>2, <2>4, <2>5 DEF KeyStep, Announces
<1>2. CASE j # k
  <2>1. Same(k) /\ Unhurt(k) /\ steady'[k] = steady[k] /\ lossRow' = lossRow /\ now' = now
    BY <1>a, <1>2 DEF Move, Same, Unhurt, Full, Held
  <2>2. Own(k)' = Own(k)
    BY <1>2, OwnAfterSend DEF Move
  <2> QED BY <1>a, <2>1, <2>2 DEF KeyStep, Rests
<1> QED BY <1>1, <1>2

LEMMA SendIsKeyStep ==
  ASSUME TypeOK, NEW j \in Key, NEW k \in Key, Register(j) \/ Heartbeat(j)
  PROVE  KeyStep(k)
<1>a. /\ client \in [Key -> ClientType] /\ now \in Nat /\ client[k].endpoint \in Endpoint
      /\ client[k].sent \in Nat
  BY ClientFields DEF TypeOK
<1>b. record' = record /\ since' = since /\ steady' = steady /\ lossRow' = lossRow /\ now' = now
  BY DEF Register, Heartbeat
<1>c. Unhurt(k)
  BY <1>b DEF Unhurt, Full, Held
<1>1. CASE j = k
  <2>1. client[k].started /\ client[k].sent < now
    <3>1. client[k].started /\ now - client[k].sent >= Pace
      BY <1>1 DEF Register, Heartbeat
    <3> QED BY <1>a, <3>1, NumbersAssumption
  <2>2. CASE Register(k)
    <3> DEFINE m == Datagram(k, "register", client[k].endpoint)
    <3>1. m \in DatagramType /\ m.sent = now /\ m.from = client[k].endpoint /\ m.type = "register"
      BY <1>a DEF Datagram, DatagramType
    <3>2. Own(k)' = Own(k) \cup {m}
      BY <2>2, OwnAfterSend DEF Register
    <3>3. client'[k] = [client[k] EXCEPT !.sent = now, !.registered = now]
      BY <1>a, <2>2 DEF Register
    <3>4. /\ client'[k].started /\ client'[k].endpoint = client[k].endpoint
          /\ client'[k].sent = now /\ client'[k].registered = now
      BY <2>1, <3>3, ClientFields
    <3> HIDE DEF m
    <3> QED BY <1>b, <1>c, <2>1, <3>1, <3>2, <3>4 DEF KeyStep, Sends
  <2>3. CASE Heartbeat(k)
    <3> DEFINE m == Datagram(k, "heartbeat", client[k].endpoint)
    <3>1. m \in DatagramType /\ m.sent = now /\ m.from = client[k].endpoint
      BY <1>a DEF Datagram, DatagramType
    <3>2. Own(k)' = Own(k) \cup {m}
      BY <2>3, OwnAfterSend DEF Heartbeat
    <3>3. client'[k] = [client[k] EXCEPT !.sent = now]
      BY <1>a, <2>3 DEF Heartbeat
    <3>4. /\ client'[k].started /\ client'[k].endpoint = client[k].endpoint
          /\ client'[k].sent = now /\ client'[k].registered = client[k].registered
      BY <2>1, <3>3, ClientFields
    <3> HIDE DEF m
    <3> QED BY <1>b, <1>c, <2>1, <3>1, <3>2, <3>4 DEF KeyStep, Sends
  <2> QED BY <1>1, <2>2, <2>3
<1>2. CASE j # k
  <2>1. Same(k)
    BY <1>a, <1>2 DEF Register, Heartbeat, Same
  <2>2. Own(k)' = Own(k)
    BY <1>2, OwnAfterSend DEF Register, Heartbeat
  <2> QED BY <1>a, <1>b, <1>c, <2>1, <2>2 DEF KeyStep, Rests
<1> QED BY <1>1, <1>2

LEMMA DeliverIsKeyStep ==
  ASSUME TypeOK, NEW m \in net, NEW k \in Key, Deliver(m)
  PROVE  KeyStep(k)
<1>a. /\ record \in [Key -> RecordType] /\ now \in Nat /\ m.key \in Key
      /\ lossRow \in [Key -> BOOLEAN] /\ steady \in [Key -> BOOLEAN]
      /\ m.type \in {"register", "heartbeat"}
  BY DEF TypeOK, DatagramType
<1>b. client' = client /\ since' = since /\ now' = now
  BY DEF Deliver
<1>c. Full(k) => Full(k)'
  <2>1. record' = record \/ record' = [record EXCEPT ![m.key] = Registration(m.from)]
    BY AfterDatagram
  <2>2. Held \subseteq Held'
    BY <1>a, <2>1 DEF Held, Registration
  <2> QED BY <2>2, FullStays
<1>1. CASE m.key = k
  <2>1. m \in Own(k) /\ Own(k)' = Own(k) \ {m} /\ net' = net \ {m}
    BY <1>1, OwnAfterLeave DEF Deliver
  <2>2. \/ record'[k] = Registration(m.from)
        \/ /\ record'[k] = record[k]
           /\ m.type = "register" => ~record[k].present /\ Cardinality(Held) >= Capacity
           /\ m.type = "heartbeat" => ~(/\ record[k].present
                                        /\ now < record[k].expires
                                        /\ record[k].endpoint = m.from)
    <3>1. CASE m.type = "register"
      <4>1. CASE record[k].present \/ Cardinality(Held) < Capacity
        BY <1>a, <1>1, <3>1, <4>1 DEF Deliver, AfterRegister
      <4>2. CASE ~(record[k].present \/ Cardinality(Held) < Capacity)
        <5>1. Cardinality(Held) >= Capacity
          BY <4>2, HeldIsFinite, NumbersAssumption
        <5> QED BY <1>1, <3>1, <4>2, <5>1 DEF Deliver, AfterRegister
      <4> QED BY <4>1, <4>2
    <3>2. CASE m.type = "heartbeat"
      BY <1>a, <1>1, <3>2 DEF Deliver, AfterHeartbeat
    <3> QED BY <1>a, <3>1, <3>2
  <2>3. ~lossRow'[k]
    BY <1>a, <1>1 DEF Deliver
  <2>4. steady'[k] => \/ steady[k]
                      \/ /\ RegisteredIn(record', k)
                         /\ \A n \in Own(k) : n.from = client[k].endpoint
    BY <1>a, <1>1, <2>1 DEF Deliver, Own
  <2> QED BY <1>b, <1>c, <2>1, <2>2, <2>3, <2>4 DEF KeyStep, Arrives
<1>2. CASE m.key # k
  <2>1. record'[k] = record[k]
    BY <1>a, <1>2, AfterDatagram
  <2>2. lossRow'[k] = lossRow[k] /\ steady'[k] = steady[k]
    BY <1>a, <1>2 DEF Deliver
  <2>3. Own(k)' = Own(k)
    BY <1>2, OwnAfterLeave DEF Deliver
  <2> QED BY <1>a, <1>b, <1>c, <2>1, <2>2, <2>3 DEF KeyStep, Rests, Same, Unhurt
<1> QED BY <1>1, <1>2

LEMMA LoseIsKeyStep ==
  ASSUME TypeOK, NEW m \in net, NEW k \in Key, Lose(m)
  PROVE  KeyStep(k)
<1>a. /\ lossRow \in [Key -> BOOLEAN] /\ since \in [Key -> Nat] /\ m.key \in Key /\ now \in Nat
  BY DatagramFields DEF TypeOK
<1>b. Same(k) /\ steady' = steady /\ now' = now /\ (Full(k) => Full(k)')
  BY DEF Lose, Same, Full, Held
<1>1. CASE m.key = k
  BY <1>a, <1>b, <1>1, OwnAfterLeave DEF Lose, KeyStep, Loses
<1>2. CASE m.key # k
  <2>1. Own(k)' = Own(k)
    BY <1>2, OwnAfterLeave DEF Lose
  <2>2. lossRow'[k] = lossRow[k] /\ since'[k] = since[k]
    BY <1>a, <1>2 DEF Lose
  <2> QED BY <1>a, <1>b, <2>1, <2>2 DEF KeyStep, Rests, Unhurt
<1> QED BY <1>1, <1>2

LEMMA ExpireIsKeyStep ==
  ASSUME TypeOK, NEW j \in Key, NEW k \in Key, Expire(j)
  PROVE  KeyStep(k)
<1>a. /\ record \in [Key -> RecordType] /\ now \in Nat /\ since \in [Key -> Nat]
  BY DEF TypeOK
<1>b. /\ client' = client /\ Own(k)' = Own(k) /\ steady' = steady /\ lossRow' = lossRow
      /\ now' = now
  BY DEF Expire, Own
<1>c. since'[k] = now \/ (since'[k] = since[k] /\ ~Full(k))
  <2>1. CASE Cardinality(Held) >= Capacity
    BY <2>1 DEF Expire
  <2>2. CASE ~(Cardinality(Held) >= Capacity)
    BY <2>2, FullIsBounded DEF Expire
  <2> QED BY <2>1, <2>2
<1>1. CASE j = k
  BY <1>b, <1>c, <1>1 DEF Expire, KeyStep, Lapses
<1>2. CASE j # k
  <2>1. Same(k)
    BY <1>a, <1>b, <1>2 DEF Expire, Same
  <2> QED BY <1>a, <1>b, <1>c, <2>1 DEF KeyStep, Rests, Unhurt
<1> QED BY <1>1, <1>2

LEMMA TickIsKeyStep ==
  ASSUME TypeOK, NEW k \in Key, Tick
  PROVE  KeyStep(k)
<1>1. Same(k) /\ Unhurt(k) /\ Own(k)' = Own(k) /\ lossRow' = lossRow
  BY DEF Tick, Same, Unhurt, Full, Held, Own
<1>2. now \in Nat /\ client[k].sent \in Nat /\ client[k].registered \in Nat
      /\ now' \in Nat /\ now' = now + Step /\ now' >= now
  BY ClientFields, NumbersAssumption DEF TypeOK, Tick
<1>3. client[k].started => now' <= client[k].sent + 30 /\ now' <= client[k].registered + 60
  BY <1>2 DEF Tick, ClientsOnSchedule, MaximumHeartbeatIntervalSeconds,
              MaximumReregistrationIntervalSeconds
<1>4. \A m \in Own(k) : now' <= m.sent + MaxDelay
  <2> SUFFICES ASSUME NEW m \in Own(k) PROVE now' <= m.sent + MaxDelay
    OBVIOUS
  <2>1. m \in net /\ m.sent \in Nat
    BY TimeFields DEF Own
  <2>2. now + Step - m.sent <= MaxDelay
    BY <2>1 DEF Tick
  <2> QED BY <1>2, <2>1, <2>2, NumbersAssumption
<1> QED BY <1>1, <1>2, <1>3, <1>4 DEF KeyStep, Rests, Unhurt

LEMMA StepIsKeyStep ==
  ASSUME TypeOK, [Next]_vars, NEW k \in Key
  PROVE  KeyStep(k)
<1>1. CASE Restart
  BY <1>1 DEF Restart, TypeOK, KeyStep, Forgets, Own
<1>2. CASE UNCHANGED vars
  BY <1>2 DEF vars, TypeOK, KeyStep, Rests, Same, Unhurt, Own, Full, Held
<1> QED
  BY <1>1, <1>2, StartIsKeyStep, MoveIsKeyStep, SendIsKeyStep, DeliverIsKeyStep,
     LoseIsKeyStep, ExpireIsKeyStep, TickIsKeyStep
  DEF Next

-----------------------------------------------------------------------------
(* The invariants step by step.                                            *)

\* What Timely says of an instant, with the names of its parts.
LEMMA TimelyFields ==
  ASSUME TypeOK, NEW k \in Key, Timely(k)
  PROVE  /\ client[k].started => /\ client[k].sent \in Nat /\ client[k].registered \in Nat
                                 /\ client[k].sent <= now /\ now <= client[k].sent + 30
                                 /\ client[k].registered <= now
                                 /\ now <= client[k].registered + 60
         /\ \A m \in Own(k) : /\ client[k].started /\ m.sent \in Nat
                              /\ m.sent <= client[k].sent /\ m.sent <= now
                              /\ now <= m.sent + MaxDelay
<1>1. now \in Nat /\ client[k].sent \in Nat /\ client[k].registered \in Nat
  BY ClientFields, TimeFields
<1>2. \A m \in Own(k) : m.sent \in Nat
  BY TimeFields
<1> QED BY <1>1, <1>2 DEF Timely

LEMMA StepTimely ==
  ASSUME TypeOK, TypeOK', NEW k \in Key, Timely(k), KeyStep(k)
  PROVE  Timely(k)'
<1>a. /\ now \in Nat /\ MaxDelay \in Nat /\ client[k].sent \in Nat /\ client[k].registered \in Nat
      /\ \A m \in Own(k) : m.sent \in Nat
  BY ClientFields, TimeFields, NumbersAssumption
<1>1. CASE Rests(k)
  <2>1. client'[k] = client[k] /\ Own(k)' = Own(k) /\ now' \in Nat /\ now' >= now
    BY <1>1 DEF Rests, Same
  <2>2. CASE now' = now
    BY <2>1, <2>2 DEF Timely
  <2>3. CASE now' # now
    BY <1>a, <1>1, <2>1, <2>3 DEF Rests, Timely
  <2> QED BY <2>2, <2>3
<1>2. CASE Sends(k)
  <2>1. PICK m \in DatagramType : m.sent = now /\ Own(k)' = Own(k) \cup {m}
    BY <1>2 DEF Sends
  <2>2. /\ client[k].started /\ client'[k].started /\ client'[k].sent = now /\ now' = now
        /\ client'[k].registered \in {client[k].registered, now}
    BY <1>2 DEF Sends
  <2> QED BY <1>a, <2>1, <2>2 DEF Timely
<1>3. CASE Announces(k)
  <2>1. PICK m \in DatagramType :
          /\ client'[k].started /\ client'[k].sent = now /\ client'[k].registered = now
          /\ m.sent = now /\ Own(k)' = Own(k) \cup {m}
    BY <1>3 DEF Announces
  <2>2. now' = now
    BY <1>3 DEF Announces
  <2> QED BY <1>a, <2>1, <2>2, TimelyFields DEF Timely
<1>4. CASE Arrives(k) \/ Loses(k) \/ Lapses(k) \/ Forgets(k)
  <2>1. client'[k] = client[k] /\ Own(k)' \subseteq Own(k) /\ now' = now
    BY <1>4 DEF Arrives, Loses, Lapses, Forgets, Same
  <2> QED BY <2>1 DEF Timely
<1> QED BY <1>1, <1>2, <1>3, <1>4 DEF KeyStep

\* A settled record is renewed by whatever arrives from its own client.
LEMMA ArrivalRenews ==
  ASSUME TypeOK, NEW k \in Key, Arrives(k), Registered(k),
         \A m \in Own(k) : m.from = client[k].endpoint
  PROVE  record'[k] = Registration(client[k].endpoint)
<1>1. PICK m \in Own(k) :
        \/ record'[k] = Registration(m.from)
        \/ /\ m.type = "register" => ~record[k].present
           /\ m.type = "heartbeat" => ~(/\ record[k].present
                                        /\ now < record[k].expires
                                        /\ record[k].endpoint = m.from)
  BY DEF Arrives
<1>2. m.type \in {"register", "heartbeat"} /\ m.from = client[k].endpoint
  BY TimeFields
<1> QED BY <1>1, <1>2 DEF Registered, RegisteredIn

\* A datagram of the own endpoint that was just counted as a renewal.
LEMMA RenewedNow ==
  ASSUME TypeOK, NEW k \in Key, record'[k] = Registration(client[k].endpoint),
         client'[k] = client[k], now' = now
  PROVE  Registered(k)' /\ RenewedAt(k)' = now
<1>1. now \in Nat
  BY DEF TypeOK
<1> QED BY <1>1 DEF Registered, RegisteredIn, RenewedAt, Registration, RegistrationTtlSeconds

LEMMA RecordFields ==
  ASSUME TypeOK, NEW k \in Key, record[k].present
  PROVE  /\ record[k].expires \in Nat /\ RenewedAt(k) \in Int
         /\ record[k].expires = RenewedAt(k) + 90
<1>1. record[k] \in RecordType /\ record[k] # Absent
  BY DEF TypeOK, Absent
<1>2. record[k].expires \in Nat
  BY <1>1 DEF RecordType
<1> QED BY <1>2 DEF RenewedAt, RegistrationTtlSeconds

\* A registration outlives one loss, one delay and any reordering.
LEMMA StepSteady ==
  ASSUME MaxDelay < MaximumHeartbeatIntervalSeconds,
         TypeOK, TypeOK', NEW k \in Key, Timely(k), Timely(k)', KeyStep(k),
         steady[k] => Settled(k) /\ SurvivesLoss(k), steady'[k]
  PROVE  Settled(k)' /\ SurvivesLoss(k)'
<1>a. /\ now \in Nat /\ MaxDelay \in Nat /\ MaxDelay < 30 /\ client[k].sent \in Nat
      /\ \A m \in Own(k) : m.sent \in Nat
  BY ClientFields, TimeFields, NumbersAssumption DEF MaximumHeartbeatIntervalSeconds
<1>b. steady[k] => /\ client[k].started /\ client[k].sent <= now /\ now <= client[k].sent + 30
                   /\ RenewedAt(k) \in Int /\ record[k].expires = RenewedAt(k) + 90
  BY TimelyFields, RecordFields DEF Settled, Registered, RegisteredIn
<1>1. CASE Rests(k)
  <2>1. /\ record'[k] = record[k] /\ client'[k] = client[k] /\ Own(k)' = Own(k)
        /\ lossRow'[k] = lossRow[k] /\ steady[k] /\ now' \in Nat
    BY <1>1 DEF Rests, Same
  <2>2. Settled(k) /\ SurvivesLoss(k)
    BY <2>1
  <2>3. SurvivesLoss(k)'
    BY <2>1, <2>2 DEF SurvivesLoss, RenewedAt
  <2>4. now' <= client[k].sent + 30 /\ \A m \in Own(k) : now' <= m.sent + MaxDelay
    BY <1>b, <2>1 DEF Timely
  <2>5. now' < record[k].expires
    <3>1. CASE lossRow[k]
      BY <1>a, <1>b, <2>1, <2>2, <2>4, <3>1 DEF SurvivesLoss
    <3>2. CASE ~lossRow[k]
      BY <1>a, <1>b, <2>1, <2>2, <2>4, <3>2 DEF SurvivesLoss
    <3> QED BY <3>1, <3>2
  <2> QED BY <2>1, <2>2, <2>3, <2>5 DEF Settled, Registered, RegisteredIn
<1>2. CASE Sends(k)
  <2>1. PICK m \in DatagramType :
          m.sent = now /\ m.from = client[k].endpoint /\ Own(k)' = Own(k) \cup {m}
    BY <1>2 DEF Sends
  <2>2. /\ client'[k].started /\ client[k].sent < now /\ client'[k].sent = now /\ now' = now
        /\ client'[k].endpoint = client[k].endpoint /\ record'[k] = record[k]
        /\ lossRow'[k] = lossRow[k] /\ steady[k]
    BY <1>2 DEF Sends, Unhurt
  <2>3. Settled(k) /\ SurvivesLoss(k)
    BY <2>2
  <2>4. Settled(k)'
    BY <2>1, <2>2, <2>3 DEF Settled, Registered, RegisteredIn
  <2>5. m \in Own(k)' /\ Own(k) \subseteq Own(k)' /\ RenewedAt(k)' = RenewedAt(k)
    BY <2>1, <2>2 DEF RenewedAt
  <2>6. SurvivesLoss(k)'
    <3>1. CASE lossRow[k]
      BY <1>a, <1>b, <2>1, <2>2, <2>3, <2>5, <3>1 DEF SurvivesLoss
    <3>2. CASE ~lossRow[k] /\ client[k].sent <= RenewedAt(k)
      <4>1. m.sent <= RenewedAt(k) + 30 /\ client'[k].sent <= RenewedAt(k) + 30
        BY <1>a, <1>b, <2>1, <2>2, <3>2
      <4> QED BY <2>2, <2>5, <3>2, <4>1 DEF SurvivesLoss
    <3>3. CASE ~lossRow[k] /\ ~(client[k].sent <= RenewedAt(k))
      <4>1. PICK n \in Own(k) :
              /\ n.sent <= RenewedAt(k) + 30
              /\ \/ client[k].sent <= RenewedAt(k) + 30
                 \/ \E o \in Own(k) : o # n /\ o.sent <= RenewedAt(k) + 60
        BY <2>3, <3>3 DEF SurvivesLoss
      <4>2. CASE client[k].sent <= RenewedAt(k) + 30
        <5>1. m # n
          <6>1. n.sent <= client[k].sent /\ n.sent \in Nat
            BY <1>a DEF Timely
          <6> QED BY <1>a, <2>1, <2>2, <6>1
        <5>2. m.sent <= RenewedAt(k) + 60
          BY <1>a, <1>b, <2>1, <2>2, <4>2
        <5> QED BY <2>2, <2>5, <3>3, <4>1, <5>1, <5>2 DEF SurvivesLoss
      <4>3. CASE \E o \in Own(k) : o # n /\ o.sent <= RenewedAt(k) + 60
        BY <2>2, <2>5, <3>3, <4>1, <4>3 DEF SurvivesLoss
      <4> QED BY <4>1, <4>2, <4>3
    <3> QED BY <3>1, <3>2, <3>3
  <2> QED BY <2>4, <2>6
<1>3. CASE Announces(k)
  BY <1>3 DEF Announces, Settled
<1>4. CASE Arrives(k)
  <2>1. PICK m \in Own(k) :
          /\ Own(k)' = Own(k) \ {m}
          /\ record'[k] = Registration(m.from) \/ record'[k] = record[k]
          /\ steady[k] \/ /\ RegisteredIn(record', k)
                          /\ \A n \in Own(k) : n.from = client[k].endpoint
    BY <1>4 DEF Arrives
  <2>2. client'[k] = client[k] /\ ~lossRow'[k] /\ now' = now
    BY <1>4 DEF Arrives
  <2>3. \A n \in Own(k) : n.from = client[k].endpoint
    BY <2>1 DEF Settled
  <2>4. record'[k] = Registration(client[k].endpoint)
    <3>1. CASE Registered(k)
      BY <1>4, <2>3, <3>1, ArrivalRenews
    <3>2. CASE ~Registered(k)
      <4>1. RegisteredIn(record', k)
        BY <2>1, <3>2 DEF Settled
      <4>2. record'[k] # record[k]
        BY <3>2, <4>1 DEF Registered, RegisteredIn
      <4> QED BY <2>1, <2>3, <4>2
    <3> QED BY <3>1, <3>2
  <2>5. Registered(k)' /\ RenewedAt(k)' = now
    BY <2>2, <2>4, RenewedNow
  <2>6. client[k].started /\ client[k].sent <= now
    BY <2>1, TimelyFields
  <2>7. Settled(k)'
    BY <2>1, <2>2, <2>3, <2>5, <2>6 DEF Settled
  <2> QED BY <2>2, <2>5, <2>6, <2>7 DEF SurvivesLoss
<1>5. CASE Loses(k)
  <2>1. PICK m \in Own(k) : Own(k)' = Own(k) \ {m}
    BY <1>5 DEF Loses
  <2>2. /\ record'[k] = record[k] /\ client'[k] = client[k] /\ now' = now
        /\ ~lossRow[k] /\ lossRow'[k] /\ steady[k]
    BY <1>5 DEF Loses, Same
  <2>3. Settled(k) /\ SurvivesLoss(k) /\ RenewedAt(k)' = RenewedAt(k)
    BY <2>2 DEF RenewedAt
  <2>4. Settled(k)'
    BY <2>1, <2>2, <2>3 DEF Settled, Registered, RegisteredIn
  <2>5. SurvivesLoss(k)'
    <3>1. CASE client[k].sent <= RenewedAt(k) + 30
      BY <2>2, <2>3, <3>1 DEF SurvivesLoss
    <3>2. CASE ~(client[k].sent <= RenewedAt(k) + 30)
      <4>1. ~(client[k].sent <= RenewedAt(k))
        BY <1>a, <1>b, <2>2, <3>2
      <4>2. PICK n \in Own(k), o \in Own(k) :
              n # o /\ n.sent <= RenewedAt(k) + 30 /\ o.sent <= RenewedAt(k) + 60
        BY <2>2, <2>3, <3>2, <4>1 DEF SurvivesLoss
      <4>3. n.sent <= RenewedAt(k) + 60
        BY <1>a, <1>b, <2>2, <4>2
      <4>4. n \in Own(k)' \/ o \in Own(k)'
        BY <2>1, <4>2
      <4> QED BY <2>2, <2>3, <4>2, <4>3, <4>4 DEF SurvivesLoss
    <3> QED BY <3>1, <3>2
  <2> QED BY <2>4, <2>5
<1>6. CASE Lapses(k)
  <2>1. steady[k] /\ Settled(k)
    BY <1>6 DEF Lapses
  <2> QED BY <1>6, <1>a, <1>b, <2>1 DEF Lapses, Settled, Registered, RegisteredIn
<1>7. ~Forgets(k)
  BY DEF Forgets
<1> QED BY <1>1, <1>2, <1>3, <1>4, <1>5, <1>6, <1>7 DEF KeyStep

\* Trouble: the client waits for its next register.
LEMMA TroubleHeals ==
  ASSUME TypeOK', NEW k \in Key, Timely(k)', since'[k] = now', client'[k].started
  PROVE  StaleIsOld(k)' /\ Healing(k)'
<1>1. /\ now' \in Nat /\ MaxDelay \in Nat /\ client'[k].registered \in Nat
      /\ client'[k].sent \in Nat /\ \A m \in Own(k)' : m.sent \in Nat
  BY NumbersAssumption DEF TypeOK, ClientType, Own, DatagramType
<1>2. client'[k].registered <= now' /\ client'[k].sent <= now'
      /\ \A m \in Own(k)' : m.sent <= client'[k].sent
  BY DEF Timely
<1> QED BY <1>1, <1>2 DEF StaleIsOld, Healing

\* A client that waits for its register gets it, one whose record is renewed
\* keeps it, and one that was turned away finds every slot taken by others.
LEMMA StepHeals ==
  ASSUME MaxDelay < MaximumReregistrationIntervalSeconds,
         TypeOK, TypeOK', NEW k \in Key, Timely(k), Timely(k)', KeyStep(k),
         client[k].started => /\ StaleIsOld(k)
                              /\ Full(k) \/ Healing(k) \/ (Settled(k) /\ Renewing(k)),
         client'[k].started
  PROVE  /\ StaleIsOld(k)'
         /\ Full(k)' \/ Healing(k)' \/ (Settled(k)' /\ Renewing(k)')
<1>a. /\ now \in Nat /\ MaxDelay \in Nat /\ MaxDelay < 60 /\ client[k].sent \in Nat
      /\ client[k].registered \in Nat /\ since[k] \in Nat
      /\ \A m \in Own(k) : m.sent \in Nat
  BY ClientFields, TimeFields, NumbersAssumption DEF MaximumReregistrationIntervalSeconds
<1>b. Settled(k) => /\ RenewedAt(k) \in Int /\ record[k].expires = RenewedAt(k) + 90
                    /\ now < record[k].expires
  BY RecordFields DEF Settled, Registered, RegisteredIn
<1>c. CASE since'[k] = now /\ now' = now
  BY <1>c, TroubleHeals
<1>1. CASE Rests(k) /\ ~(since'[k] = now /\ now' = now)
  <2>1. /\ record'[k] = record[k] /\ client'[k] = client[k] /\ Own(k)' = Own(k)
        /\ since'[k] = since[k] /\ (Full(k) => Full(k)') /\ now' \in Nat
    BY <1>1 DEF Rests, Same, Unhurt
  <2>2. StaleIsOld(k)' /\ (Healing(k) => Healing(k)')
    BY <2>1 DEF StaleIsOld, Healing
  <2>3. ASSUME Settled(k), Renewing(k) PROVE Settled(k)' /\ Renewing(k)'
    <3>1. Renewing(k)'
      BY <2>1, <2>3 DEF Renewing, RenewedAt
    <3>2. now' <= client[k].sent + 30 /\ \A m \in Own(k) : now' <= m.sent + MaxDelay
      BY <2>1 DEF Timely
    <3>3. now' < record[k].expires
      BY <1>a, <1>b, <2>3, <2>1, <3>2 DEF Renewing
    <3> QED BY <2>1, <2>3, <3>1, <3>3 DEF Settled, Registered, RegisteredIn
  <2> QED BY <2>1, <2>2, <2>3
<1>2. CASE Sends(k)
  <2>1. PICK m \in DatagramType :
          /\ m.sent = now /\ m.from = client[k].endpoint /\ Own(k)' = Own(k) \cup {m}
          /\ \/ client'[k].registered = client[k].registered
             \/ client'[k].registered = now /\ m.type = "register"
    BY <1>2 DEF Sends
  <2>2. /\ client[k].started /\ client'[k].sent = now /\ now' = now
        /\ client'[k].endpoint = client[k].endpoint /\ record'[k] = record[k]
        /\ since'[k] = since[k] /\ (Full(k) => Full(k)')
    BY <1>2 DEF Sends, Unhurt
  <2>3. StaleIsOld(k)'
    BY <2>1, <2>2 DEF StaleIsOld
  <2>4. ASSUME Healing(k) PROVE Healing(k)'
    <3>1. CASE \E n \in Own(k) : /\ n.type = "register" /\ n.from = client[k].endpoint
                                 /\ n.sent > since[k] + MaxDelay
                                 /\ n.sent <= since[k] + MaxDelay + 60
      BY <2>1, <2>2, <3>1 DEF Healing
    <3>2. CASE client[k].registered <= since[k] + MaxDelay /\ client'[k].registered = now
      <4>1. m.type = "register" \/ client'[k].registered = client[k].registered
        BY <2>1
      <4>2. now <= since[k] + MaxDelay + 60
        <5>1. now <= client[k].registered + 60
          BY <2>2, TimelyFields
        <5> QED BY <1>a, <3>2, <5>1
      <4>3. CASE now <= since[k] + MaxDelay
        BY <2>2, <3>2, <4>3 DEF Healing
      <4>4. CASE ~(now <= since[k] + MaxDelay) /\ m.type = "register"
        <5>1. m.sent > since[k] + MaxDelay /\ m.sent <= since[k] + MaxDelay + 60
          BY <1>a, <2>1, <4>2, <4>4
        <5> QED BY <2>1, <2>2, <4>4, <5>1 DEF Healing
      <4> QED BY <2>2, <3>2, <4>1, <4>3, <4>4 DEF Healing
    <3>3. CASE /\ client[k].registered <= since[k] + MaxDelay
               /\ client'[k].registered = client[k].registered
      BY <2>2, <3>3 DEF Healing
    <3> QED BY <2>1, <2>4, <3>1, <3>2, <3>3 DEF Healing
  <2>5. ASSUME Settled(k), Renewing(k) PROVE Settled(k)' /\ Renewing(k)'
    <3>1. Settled(k)'
      BY <1>2, <2>1, <2>2, <2>5 DEF Settled, Registered, RegisteredIn
    <3>2. now <= client[k].sent + 30
      BY <2>2, TimelyFields
    <3>3. CASE client[k].sent <= RenewedAt(k)
      <4>1. m.sent <= RenewedAt(k) + 30 /\ m \in Own(k)' /\ RenewedAt(k)' = RenewedAt(k)
        BY <1>a, <1>b, <2>1, <2>2, <2>5, <3>2, <3>3 DEF RenewedAt
      <4> QED BY <3>1, <4>1 DEF Renewing
    <3>4. CASE \E n \in Own(k) : n.sent <= RenewedAt(k) + 30
      BY <2>1, <2>2, <3>1, <3>4 DEF Renewing, RenewedAt
    <3> QED BY <2>5, <3>3, <3>4 DEF Renewing
  <2> QED BY <2>2, <2>3, <2>4, <2>5
<1>3. CASE Announces(k) \/ Loses(k) \/ Forgets(k)
  BY <1>3, <1>c DEF Announces, Loses, Forgets
<1>4. CASE Arrives(k)
  <2>1. PICK m \in Own(k) :
          /\ Own(k)' = Own(k) \ {m}
          /\ \/ record'[k] = Registration(m.from)
             \/ /\ record'[k] = record[k]
                /\ m.type = "register" => ~record[k].present /\ Cardinality(Held) >= Capacity
    BY <1>4 DEF Arrives
  <2>2. /\ client'[k] = client[k] /\ now' = now /\ since'[k] = since[k]
        /\ (Full(k) => Full(k)')
    BY <1>4 DEF Arrives
  <2>3. client[k].started /\ client[k].sent <= now
    BY <2>1, TimelyFields
  <2>4. StaleIsOld(k)'
    BY <2>1, <2>2, <2>3 DEF StaleIsOld
  <2>5. ASSUME \A n \in Own(k) : n.from = client[k].endpoint,
               record'[k] = Registration(client[k].endpoint)
        PROVE  Settled(k)' /\ Renewing(k)'
    <3>1. Registered(k)' /\ RenewedAt(k)' = now
      BY <2>2, <2>5, RenewedNow
    <3> QED BY <2>1, <2>2, <2>3, <2>5, <3>1 DEF Settled, Renewing
  <2>6. ASSUME Settled(k) PROVE Settled(k)' /\ Renewing(k)'
    <3>1. record'[k] = Registration(client[k].endpoint)
      BY <1>4, <2>6, ArrivalRenews DEF Settled
    <3> QED BY <2>5, <2>6, <3>1 DEF Settled
  <2>7. ASSUME Healing(k), ~Healing(k)' PROVE Full(k)' \/ (Settled(k)' /\ Renewing(k)')
    <3>1. /\ m.type = "register" /\ m.from = client[k].endpoint
          /\ m.sent > since[k] + MaxDelay
      BY <2>1, <2>2, <2>7 DEF Healing
    <3>2. \A n \in Own(k) : n.from = client[k].endpoint
      <4> SUFFICES ASSUME NEW n \in Own(k), n.from # client[k].endpoint PROVE FALSE
        OBVIOUS
      <4>1. n.sent <= since[k] /\ now <= n.sent + MaxDelay /\ m.sent <= now
        BY <2>3, TimelyFields DEF StaleIsOld
      <4> QED BY <1>a, <3>1, <4>1
    <3>3. CASE record'[k] = Registration(m.from)
      BY <2>5, <3>1, <3>2, <3>3
    <3>4. CASE ~record[k].present /\ Cardinality(Held) >= Capacity
      BY <2>2, <3>4, FullIsBounded DEF Held
    <3> QED BY <2>1, <3>1, <3>3, <3>4
  <2> QED BY <2>2, <2>3, <2>4, <2>6, <2>7
<1>5. CASE Lapses(k) /\ ~(since'[k] = now /\ now' = now)
  <2>1. /\ record[k].present /\ now >= record[k].expires
        /\ client'[k] = client[k] /\ Own(k)' = Own(k)
        /\ since'[k] = since[k] /\ ~Full(k) /\ now' = now
    BY <1>5 DEF Lapses
  <2>2. StaleIsOld(k)' /\ (Healing(k) => Healing(k)')
    BY <2>1 DEF StaleIsOld, Healing
  <2>3. ~Settled(k)
    BY <1>a, <1>b, <2>1, RecordFields
  <2> QED BY <2>1, <2>2, <2>3
<1> QED BY <1>c, <1>1, <1>2, <1>3, <1>4, <1>5 DEF KeyStep

-----------------------------------------------------------------------------
LEMMA InitDeadlines ==
  Init => TypeOK /\ TimeInv /\ SteadyInv /\ HealInv
<1> SUFFICES ASSUME Init PROVE TypeOK /\ TimeInv /\ SteadyInv /\ HealInv
  OBVIOUS
<1>1. net = {} /\ \A k \in Key : ~client[k].started /\ ~steady[k]
  BY DEF Init
<1> QED BY <1>1, InitTypeOK DEF TimeInv, Timely, SteadyInv, HealInv, Own

LEMMA TimelyInvariance == Spec => [](TypeOK /\ TimeInv)
<1>1. TypeOK /\ TimeInv /\ [Next]_vars => TimeInv'
  <2> SUFFICES ASSUME TypeOK, TimeInv, [Next]_vars, NEW k \in Key PROVE Timely(k)'
    BY DEF TimeInv
  <2> QED BY StepTypeOK, StepIsKeyStep, StepTimely DEF TimeInv
<1> QED BY <1>1, InitDeadlines, StepTypeOK, PTL DEF Spec

\* A registration on schedule does not lapse, for any number of clients and
\* slots: it outlives any single loss, any reordering and any delay below one
\* heartbeat interval.
THEOREM RegistrationsStay ==
  ASSUME MaxDelay < MaximumHeartbeatIntervalSeconds
  PROVE  Spec => []StaysRegistered
<1>1. TypeOK /\ TimeInv /\ (TypeOK /\ TimeInv)' /\ SteadyInv /\ [Next]_vars => SteadyInv'
  <2> SUFFICES ASSUME TypeOK, TimeInv, TypeOK', TimeInv', SteadyInv, [Next]_vars,
                      NEW k \in Key, steady'[k]
               PROVE  Settled(k)' /\ SurvivesLoss(k)'
    BY DEF SteadyInv
  <2> QED BY StepIsKeyStep, StepSteady DEF TimeInv, SteadyInv
<1>2. SteadyInv => StaysRegistered
  BY DEF SteadyInv, StaysRegistered, Settled
<1> QED BY <1>1, <1>2, InitDeadlines, TimelyInvariance, PTL DEF Spec

\* What a start, a move, a restart, a loss or a full directory did to a client is
\* repaired a register interval and two transits later, or others hold every slot.
THEOREM RegistrationsHeal ==
  ASSUME MaxDelay < MaximumReregistrationIntervalSeconds
  PROVE  Spec => []HealsInTime
<1>1. TypeOK /\ TimeInv /\ (TypeOK /\ TimeInv)' /\ HealInv /\ [Next]_vars => HealInv'
  <2> SUFFICES ASSUME TypeOK, TimeInv, TypeOK', TimeInv', HealInv, [Next]_vars,
                      NEW k \in Key, client'[k].started
               PROVE  /\ StaleIsOld(k)'
                      /\ Full(k)' \/ Healing(k)' \/ (Settled(k)' /\ Renewing(k)')
    BY DEF HealInv
  <2> QED BY StepIsKeyStep, StepHeals DEF TimeInv, HealInv
<1>2. TypeOK /\ TimeInv /\ HealInv => HealsInTime
  <2> SUFFICES ASSUME TypeOK, TimeInv, HealInv, NEW k \in Key, client[k].started,
                      now > since[k] + MaximumReregistrationIntervalSeconds + 2 * MaxDelay
               PROVE  Registered(k) \/ Cardinality(Held \ {k}) >= Capacity
    BY DEF HealsInTime
  <2>1. /\ now \in Nat /\ MaxDelay \in Nat /\ since[k] \in Nat /\ client[k].registered \in Nat
        /\ \A m \in Own(k) : m.sent \in Nat
        /\ now > since[k] + 60 + 2 * MaxDelay
    BY ClientFields, TimeFields, NumbersAssumption DEF MaximumReregistrationIntervalSeconds
  <2>2. now <= client[k].registered + 60 /\ \A m \in Own(k) : now <= m.sent + MaxDelay
    BY DEF TimeInv, Timely
  <2>3. ~Healing(k)
    BY <2>1, <2>2 DEF Healing
  <2> QED BY <2>3 DEF HealInv, Settled, Full
<1> QED BY <1>1, <1>2, InitDeadlines, TimelyInvariance, PTL DEF Spec
=============================================================================
