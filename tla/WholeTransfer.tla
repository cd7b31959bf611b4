--------------------------- MODULE WholeTransfer ---------------------------
(***************************************************************************)
(* What a receiver of a state that travels in parts promises: what it      *)
(* applies is one whole state the sender published, never a part of one    *)
(* and never parts of two.  Nothing need ever be applied.                  *)
(***************************************************************************)
VARIABLES published, \* the whole states the sender has produced so far
          applied    \* the state the receiver shows, as a set of at most one

Init == applied = {}   \* whatever was published before

Publish == published \subseteq published' /\ UNCHANGED applied

Apply ==
  /\ \E state \in published : applied' = {state}
  /\ UNCHANGED published

Next == Publish \/ Apply

Spec == Init /\ [][Next]_<<published, applied>>
=============================================================================
