--------------------------- MODULE MediaSealing ----------------------------
(***************************************************************************)
(* AES-GCM v2 of the media of a channel: its talkers share one key, and    *)
(* each session of a talker has a nonce base and a counter for its AUDIO   *)
(* and FEC packets.                                                        *)
(***************************************************************************)
EXTENDS Integers, FiniteSets

CONSTANTS
  Talker,
  NonceSpace,    \* 2^96 in the code
  CounterSpace,  \* 2^32 in the code
  MaxSessions    \* bound: sessions that are started

VARIABLES
  base,     \* mediaNonceBase96 of each talker's session, or NoBase
  counter,  \* its next mediaCounter
  bases,    \* the bases that were ever drawn
  sealed,   \* the packets: [base, counter, nonce]
  refused   \* the packets for which there was no nonce: [base, counter]

vars == <<base, counter, bases, sealed, refused>>

NoBase == -1

Init ==
  /\ base = [t \in Talker |-> NoBase] /\ counter = [t \in Talker |-> 0]
  /\ bases = {} /\ sealed = {} /\ refused = {}

\* A session draws its base at random.  That two bases lie so close that their
\* counters meet is taken not to happen; one may lie at the end of the nonces and
\* another at their beginning.
Start(t, b) ==
  /\ Cardinality(bases) < MaxSessions
  /\ \A a \in bases : a + CounterSpace <= b \/ b + CounterSpace <= a
  /\ base' = [base EXCEPT ![t] = b] /\ counter' = [counter EXCEPT ![t] = 0]
  /\ bases' = bases \cup {b}
  /\ UNCHANGED <<sealed, refused>>

\* Mutant of Nonce: the sum is cut to 96 bits.
NonceCut(b, c) == (b + c) % NonceSpace

Nonce(b, c) == b + c

Fits(nonce) == nonce < NonceSpace

\* A counter is spent on a packet, also when the sum has more than 96 bits and
\* the packet is refused.
Seal(t) ==
  LET nonce == Nonce(base[t], counter[t]) IN
  /\ base[t] # NoBase /\ counter[t] < CounterSpace
  /\ counter' = [counter EXCEPT ![t] = @ + 1]
  /\ IF Fits(nonce)
     THEN /\ sealed' = sealed \cup {[base |-> base[t], counter |-> counter[t], nonce |-> nonce]}
          /\ UNCHANGED refused
     ELSE /\ refused' = refused \cup {[base |-> base[t], counter |-> counter[t]]}
          /\ UNCHANGED sealed
  /\ UNCHANGED <<base, bases>>

Next == \E t \in Talker : Seal(t) \/ \E b \in 0 .. NonceSpace - 1 : Start(t, b)

Spec == Init /\ [][Next]_vars

-----------------------------------------------------------------------------
\* The variables' types; a talker's packets have the counters below its own.
TypeOK ==
  /\ base \in [Talker -> bases \cup {NoBase}] /\ counter \in [Talker -> 0 .. CounterSpace]
  /\ bases \subseteq 0 .. NonceSpace - 1
  /\ \A p \in sealed \cup refused : p.base \in bases /\ p.counter \in 0 .. CounterSpace - 1
  /\ \A p \in sealed \cup refused, t \in Talker : p.base = base[t] => p.counter < counter[t]
  /\ \A p \in sealed : p.nonce \in 0 .. NonceSpace - 1

\* The talkers of a channel, over all of their sessions, never use a nonce twice
\* under their key, also where a base lies close to the end of the nonces.
NonceOnce == \A p, q \in sealed : p.nonce = q.nonce => p = q

=============================================================================
