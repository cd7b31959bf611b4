------------------------- MODULE DirectorySealing --------------------------
(***************************************************************************)
(* Directory datagrams are sealed with AES-GCM: the key follows from the   *)
(* channel, the direction and the sender's epoch, and the nonce from its   *)
(* sequence.  The Relay and all clients of a channel share its password.   *)
(* The additional data, which is the rest of the envelope, is left out.    *)
(***************************************************************************)
EXTENDS ChannelKeys, Integers, FiniteSets

CONSTANTS
  Client, Relay,  \* those who seal
  Channel,
  Epoch,          \* bound: the epochs that are drawn in one direction
  MaxSealed       \* bound: datagrams

Sender == Client \cup {Relay}
Type == {"request", "register", "participants"}  \* two of one direction, one of the other
Direction == {Client, {Relay}}

VARIABLES
  epoch,     \* the epoch of each sender, NoSalt before it has started
  sequence,  \* its last sequence
  drawn,     \* the epochs that were drawn in each direction
  sealed     \* the datagrams on the network

vars == <<epoch, sequence, drawn, sealed>>

\* The password key of a channel, derived from one credential.
PasswordKey(channel) == Argon2id("credential", ChannelSalt(channel))

-----------------------------------------------------------------------------
SealingKey(envelope) ==
  EpochKey(DirectionalKey(DirectoryChannelKey(PasswordKey(envelope.channel)), envelope.type),
           envelope.epoch)

\* "IDP3" and the sequence.
Nonce(envelope) == envelope.sequence

-----------------------------------------------------------------------------
Init ==
  /\ epoch = [s \in Sender |-> NoSalt] /\ sequence = [s \in Sender |-> 0]
  /\ drawn = [d \in Direction |-> {}]
  /\ sealed = {}

\* A sender starts, or starts again without its sequence, with a random epoch:
\* it never meets another of its direction.
Start(s) ==
  \E d \in Direction :
    /\ s \in d
    /\ \E e \in Epoch \ drawn[d] :
         epoch' = [epoch EXCEPT ![s] = e] /\ drawn' = [drawn EXCEPT ![d] = @ \cup {e}]
    /\ sequence' = [sequence EXCEPT ![s] = 0]
    /\ UNCHANGED sealed

\* A sender fixes type and channel, seals, and sends.
Seal(s, type, channel) ==
  LET envelope == [type |-> type, channel |-> channel, epoch |-> epoch[s],
                   sequence |-> sequence[s] + 1]
  IN
  /\ Cardinality(sealed) < MaxSealed
  /\ epoch[s] # NoSalt
  /\ s = Relay <=> type \in RelayTypes
  /\ sequence' = [sequence EXCEPT ![s] = @ + 1]
  /\ sealed' = sealed \cup {[sender |-> s, envelope |-> envelope,
                             key |-> SealingKey(envelope), nonce |-> Nonce(envelope)]}
  /\ UNCHANGED <<epoch, drawn>>

Next ==
  \E s \in Sender :
    \/ Start(s)
    \/ \E type \in Type, channel \in Channel : Seal(s, type, channel)

Spec == Init /\ [][Next]_vars

-----------------------------------------------------------------------------
Envelope ==
  [type : Type, channel : Channel, epoch : Epoch, sequence : 1 .. MaxSealed]

\* A sender's epoch is one that was drawn; datagrams have sequences up to its last.
TypeOK ==
  /\ \A d \in Direction : drawn[d] \subseteq Epoch /\ \A s \in d : epoch[s] \in drawn[d] \cup {NoSalt}
  /\ sequence \in [Sender -> 0 .. MaxSealed]
  /\ \A d \in sealed :
       /\ d.sender \in Sender /\ d.envelope \in Envelope
       /\ d.envelope.epoch = epoch[d.sender] => d.envelope.sequence <= sequence[d.sender]

\* No key is used twice with one nonce: not by two clients, not after a restart,
\* and not by the Relay and a client that happen to have drawn the same epoch.
NonceOnce ==
  \A d, e \in sealed : d.key = e.key /\ d.nonce = e.nonce => d = e
=============================================================================
