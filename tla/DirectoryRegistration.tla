----------------------- MODULE DirectoryRegistration ------------------------
(***************************************************************************)
(* Dynamic registration with the Directory: the Relay's records, which are *)
(* lost by a restart, the clients that renew them by heartbeats and by     *)
(* registering again, and datagrams that are delayed, lost and reordered.  *)
(*                                                                         *)
(* The Relay never answers: a client learns nothing of a drop, and only    *)
(* the renewal schedule repairs what was lost.                             *)
(***************************************************************************)
EXTENDS Integers, FiniteSets

CONSTANTS
  Key,        \* (channelId, instanceId) pairs, one for each client
  Endpoint,   \* UDP source endpoints
  Capacity,   \* maxActiveRegistrations
  Step,       \* seconds the clock advances at a time
  MaxDelay,   \* seconds a datagram may be under way
  Pace,       \* bound: seconds between two renewals of a client, at least
  Horizon,    \* bound: the clock stops here
  MaxMoves,   \* bound: endpoint changes
  MaxRestarts \* bound: Relay restarts

ASSUME KeyAssumption == IsFiniteSet(Key)
ASSUME NumbersAssumption ==
  /\ Capacity \in Nat /\ Step \in Nat \ {0} /\ MaxDelay \in Nat
  /\ Pace \in 1..30 /\ Horizon \in Nat /\ MaxMoves \in Nat /\ MaxRestarts \in Nat

RegistrationTtlSeconds == 90
MaximumHeartbeatIntervalSeconds == 30
MaximumReregistrationIntervalSeconds == 60

Absent == [present |-> FALSE]

VARIABLES
  now,       \* the Relay's monotonic clock
  record,    \* the Relay's registration of each key
  client,    \* each client: [started, endpoint, sent, registered]
  net,       \* datagrams under way: [key, type, from, sent]
  lossRow,   \* whether the last datagram of a key was lost
  since,     \* history: the last time something went wrong for a key
  steady,    \* history: registered, and nothing but a loss went wrong since
  moves,     \* endpoint changes so far
  restarts   \* restarts so far

vars == <<now, record, client, net, lossRow, since, steady, moves, restarts>>

Held == {k \in Key : record[k].present}

RegisteredIn(r, k) ==
  r[k].present /\ now < r[k].expires /\ r[k].endpoint = client[k].endpoint

Registered(k) == RegisteredIn(record, k)

Init ==
  /\ now = 0
  /\ record = [k \in Key |-> Absent]
  /\ client \in [Key -> {[started |-> FALSE, endpoint |-> e, sent |-> 0, registered |-> 0] :
                          e \in Endpoint}]
  /\ net = {}
  /\ lossRow = [k \in Key |-> FALSE]
  /\ since = [k \in Key |-> 0]
  /\ steady = [k \in Key |-> FALSE]
  /\ moves = 0 /\ restarts = 0

-----------------------------------------------------------------------------
(* The Relay.                                                              *)

Registration(endpoint) ==
  [present |-> TRUE, endpoint |-> endpoint, expires |-> now + RegistrationTtlSeconds]

\* Mutant of AfterRegister: at capacity somebody else's record makes room.
AfterRegisterEvicting(k, endpoint) ==
  IF ~record[k].present /\ Cardinality(Held) >= Capacity /\ Held # {}
  THEN [record EXCEPT ![CHOOSE h \in Held : TRUE] = Absent, ![k] = Registration(endpoint)]
  ELSE [record EXCEPT ![k] = Registration(endpoint)]

\* register: replaces the key's record in its slot, or takes a free one.
AfterRegister(k, endpoint) ==
  IF record[k].present \/ Cardinality(Held) < Capacity
  THEN [record EXCEPT ![k] = Registration(endpoint)]
  ELSE record

\* heartbeat: extends an unexpired record of the same endpoint, nothing else.
AfterHeartbeat(k, endpoint) ==
  IF /\ record[k].present
     /\ now < record[k].expires
     /\ record[k].endpoint = endpoint
  THEN [record EXCEPT ![k] = Registration(endpoint)]
  ELSE record

Deliver(m) ==
  /\ record' = IF m.type = "register" THEN AfterRegister(m.key, m.from)
               ELSE AfterHeartbeat(m.key, m.from)
  /\ net' = net \ {m}
  /\ lossRow' = [lossRow EXCEPT ![m.key] = FALSE]
  /\ steady' = [steady EXCEPT ![m.key] =
       @ \/ /\ RegisteredIn(record', m.key)
            /\ \A n \in net' \cup {m} : n.key = m.key => n.from = client[m.key].endpoint]
  /\ UNCHANGED <<now, client, since, moves, restarts>>

\* The sweep removes a record at its deadline; at capacity, its slot is news
\* for every client that was turned away.
Expire(k) ==
  /\ record[k].present /\ now >= record[k].expires
  /\ record' = [record EXCEPT ![k] = Absent]
  /\ since' = IF Cardinality(Held) >= Capacity THEN [j \in Key |-> now] ELSE since
  /\ UNCHANGED <<now, client, net, lossRow, steady, moves, restarts>>

\* Records are in memory only.
Restart ==
  /\ restarts < MaxRestarts
  /\ restarts' = restarts + 1
  /\ record' = [k \in Key |-> Absent]
  /\ since' = [k \in Key |-> now]
  /\ steady' = [k \in Key |-> FALSE]
  /\ UNCHANGED <<now, client, net, lossRow, moves>>

-----------------------------------------------------------------------------
(* Clients and the network.                                                *)

Datagram(k, type, endpoint) == [key |-> k, type |-> type, from |-> endpoint, sent |-> now]

\* register on startup.
Start(k) ==
  /\ ~client[k].started
  /\ client' = [client EXCEPT ![k].started = TRUE, ![k].sent = now, ![k].registered = now]
  /\ net' = net \cup {Datagram(k, "register", client[k].endpoint)}
  /\ since' = [since EXCEPT ![k] = now]
  /\ UNCHANGED <<now, record, lossRow, steady, moves, restarts>>

\* register on a change of the endpoint.
Move(k, e) ==
  /\ client[k].started /\ e # client[k].endpoint
  /\ moves < MaxMoves
  /\ moves' = moves + 1
  /\ client' = [client EXCEPT ![k].endpoint = e, ![k].sent = now, ![k].registered = now]
  /\ net' = net \cup {Datagram(k, "register", e)}
  /\ since' = [since EXCEPT ![k] = now]
  /\ steady' = [steady EXCEPT ![k] = FALSE]
  /\ UNCHANGED <<now, record, lossRow, restarts>>

Register(k) ==
  /\ client[k].started /\ now - client[k].sent >= Pace
  /\ client' = [client EXCEPT ![k].sent = now, ![k].registered = now]
  /\ net' = net \cup {Datagram(k, "register", client[k].endpoint)}
  /\ UNCHANGED <<now, record, lossRow, since, steady, moves, restarts>>

Heartbeat(k) ==
  /\ client[k].started /\ now - client[k].sent >= Pace
  /\ client' = [client EXCEPT ![k].sent = now]
  /\ net' = net \cup {Datagram(k, "heartbeat", client[k].endpoint)}
  /\ UNCHANGED <<now, record, lossRow, since, steady, moves, restarts>>

\* No two datagrams of a client in a row are lost.
Lose(m) ==
  /\ ~lossRow[m.key]
  /\ net' = net \ {m}
  /\ lossRow' = [lossRow EXCEPT ![m.key] = TRUE]
  /\ since' = [since EXCEPT ![m.key] = now]
  /\ UNCHANGED <<now, record, client, steady, moves, restarts>>

\* Mutant of ClientsOnSchedule: heartbeats alone are due.
NoReregistration(t) ==
  \A k \in Key : client[k].started => t - client[k].sent <= MaximumHeartbeatIntervalSeconds

\* clientRenewalSchedule: both intervals are maxima.
ClientsOnSchedule(t) ==
  \A k \in Key :
    client[k].started =>
      /\ t - client[k].sent <= MaximumHeartbeatIntervalSeconds
      /\ t - client[k].registered <= MaximumReregistrationIntervalSeconds

Tick ==
  /\ now + Step <= Horizon
  /\ ClientsOnSchedule(now + Step)
  /\ \A m \in net : now + Step - m.sent <= MaxDelay
  /\ now' = now + Step
  /\ UNCHANGED <<record, client, net, lossRow, since, steady, moves, restarts>>

Next ==
  \/ \E k \in Key :
       \/ Start(k) \/ Register(k) \/ Heartbeat(k) \/ Expire(k)
       \/ \E e \in Endpoint : Move(k, e)
  \/ \E m \in net : Deliver(m) \/ Lose(m)
  \/ Restart
  \/ Tick

Spec == Init /\ [][Next]_vars
-----------------------------------------------------------------------------
RecordType == {Absent} \cup [present : {TRUE}, endpoint : Endpoint, expires : Nat]
ClientType == [started : BOOLEAN, endpoint : Endpoint, sent : Nat, registered : Nat]
DatagramType == [key : Key, type : {"register", "heartbeat"}, from : Endpoint, sent : Nat]

\* Variables keep their types: a record that is gone keeps no field.
TypeOK ==
  /\ now \in Nat
  /\ record \in [Key -> RecordType]
  /\ client \in [Key -> ClientType]
  /\ net \subseteq DatagramType
  /\ lossRow \in [Key -> BOOLEAN]
  /\ since \in [Key -> Nat]
  /\ steady \in [Key -> BOOLEAN]
  /\ moves \in Nat /\ restarts \in Nat

\* The Relay never holds more records than it has slots.
SlotsBounded == Cardinality(Held) <= Capacity

\* A renewed registration does not lapse: a client on schedule that is registered
\* stays so through any single loss, delay and reordering, and no other client's
\* register at capacity costs it its slot.
StaysRegistered == \A k \in Key : steady[k] => Registered(k)

\* What went wrong is repaired in silence: after a start, a restart, a move, a
\* loss or a freed slot it takes the transit of what was under way, an interval
\* and the transit of the next register until the client is registered at the
\* endpoint it has now, unless others hold every slot.
HealsInTime ==
  \A k \in Key :
    /\ client[k].started
    /\ now > since[k] + MaximumReregistrationIntervalSeconds + 2 * MaxDelay
    => Registered(k) \/ Cardinality(Held \ {k}) >= Capacity
=============================================================================
