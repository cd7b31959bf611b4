--------------------------- MODULE MCRelaySession ---------------------------
(* Two uses of the Relay: a long one with few senders, for what deadlines   *)
(* do, and a short one with two slots and three talkers, for what           *)
(* preemption does.                                                         *)
EXTENDS RelaySession, TLC

MCSender == 1..3

\* The last pair is refused: a keepalive of 6 is more than a third of 15.
MCPolicies ==
  {[lease |-> 15, keepalive |-> 5, maximum |-> 10],
   [lease |-> 20, keepalive |-> 6, maximum |-> 0],
   [lease |-> 15, keepalive |-> 6, maximum |-> 5]}

MCControl == [mode |-> "required", configured |-> TRUE]

\* A talking service with a grace it must not get, an identity, and a service
\* that only listens and does get its grace.
TimingAdmission ==
  <<[kind |-> "service", perm |-> Permission, priority |-> 2, exp |-> 10, grace |-> 10],
    [kind |-> "identity", perm |-> {"listen", "talk"}, priority |-> 1, exp |-> 20, grace |-> 0],
    [kind |-> "service", perm |-> {"listen"}, priority |-> 0, exp |-> 5, grace |-> 10]>>

\* Three talkers for two slots, two of them of the same priority.
FloorAdmission ==
  [s \in MCSender |->
     [kind |-> "identity", perm |-> Permission, priority |-> <<1, 1, 2>>[s],
      exp |-> 60, grace |-> 0]]
FloorPolicies == {[lease |-> 15, keepalive |-> 5, maximum |-> 5]}
=============================================================================
