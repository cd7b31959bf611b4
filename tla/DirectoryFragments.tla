------------------------ MODULE DirectoryFragments -------------------------
(***************************************************************************)
(* Participants responses of the Directory: the Relay cuts each response   *)
(* into fragments, seals each under a fresh sequence and sends them over   *)
(* UDP; the client passes them through the replay window and reassembles.  *)
(*                                                                         *)
(* The network is what was sent: every datagram may arrive at any time,    *)
(* any number of times, or never.  A Relay at fault may emit a fragment    *)
(* again under a fresh sequence, with the same content or with another.    *)
(***************************************************************************)
EXTENDS Integers, SequencesExt

CONSTANTS
  Count,       \* Count[r]: the fragments of the r-th response
  Window,      \* replayWindowSize, 64 in the vectors
  MaxRepeats   \* bound: fragments emitted again

Response == DOMAIN Count
Fragment == [response : Response, index : Nat, content : {"own", "other"}]

VARIABLES
  sent,       \* the emitted fragments; the position of one is its sequence
  accepted,   \* acceptedSequences: those that passed the replay window
  staged,     \* the sequences retained for each incomplete response
  spent,      \* history: the accepted sequences of a set that is over
  applied     \* the sequences whose fragments make the state that is shown

vars == <<sent, accepted, staged, spent, applied>>

Init ==
  /\ sent = <<>> /\ accepted = {}
  /\ staged = [r \in Response |-> {}]
  /\ spent = {} /\ applied = {}

-----------------------------------------------------------------------------
\* The Relay emits its responses one after the other, none interleaved.
Plan == FlattenSeq([r \in Response |->
          [i \in 1 .. Count[r] |-> [response |-> r, index |-> i - 1, content |-> "own"]]])

Planned == Cardinality(ToSet(sent) \cap ToSet(Plan))

Emit ==
  /\ Planned < Len(Plan)
  /\ sent' = Append(sent, Plan[Planned + 1])
  /\ UNCHANGED <<accepted, staged, spent, applied>>

EmitAgain(s, content) ==
  /\ Len(sent) - Planned < MaxRepeats
  /\ sent' = Append(sent, [sent[s] EXCEPT !.content = content])
  /\ UNCHANGED <<accepted, staged, spent, applied>>

-----------------------------------------------------------------------------
\* Mutant of ReplayVerdict: only the age of a sequence counts.
VerdictByAge(s) ==
  IF \E high \in accepted : s < high - (Window - 1) THEN "reject_stale_sequence"
  ELSE "accept_unseen_sequence"

\* Some accepted sequence is far above s exactly when the highest one is.
ReplayVerdict(s) ==
  IF s \in accepted THEN "reject_duplicate_sequence"
  ELSE IF \E high \in accepted : s < high - (Window - 1) THEN "reject_stale_sequence"
  ELSE "accept_unseen_sequence"

Complete(r, S) == {sent[s].index : s \in S} = 0 .. Count[r] - 1

\* Mutant of ReassemblySet: fragments are collected by their index alone.
ReassemblySetOfAll(r) == UNION {staged[q] : q \in Response}

\* Fragments are collected for their responseId and never combined with others.
ReassemblySet(r) == staged[r]

Copies(s) == {t \in ReassemblySet(sent[s].response) : sent[t].index = sent[s].index}

Conflicting(s) == \E t \in Copies(s) : sent[t].content # sent[s].content

\* The set of a response ends: whatever was accepted for it so far is spent.
End(r) ==
  /\ staged' = [staged EXCEPT ![r] = {}]
  /\ spent' = spent \cup {s \in accepted' : sent[s].response = r}

-----------------------------------------------------------------------------
\* The first authenticated copy of an index is kept, and an equal one ignored.
Ignore(s) ==
  /\ Copies(s) # {} /\ ~Conflicting(s)
  /\ UNCHANGED <<staged, spent, applied>>

\* One with other content discards the whole set.
Conflict(s) ==
  /\ Conflicting(s)
  /\ End(sent[s].response)
  /\ UNCHANGED applied

\* A new index is retained, and the set applied when it is complete.
Retain(s) ==
  LET r == sent[s].response
      set == ReassemblySet(r) \cup {s}
  IN
  /\ Copies(s) = {}
  /\ IF Complete(r, set)
     THEN applied' = set /\ End(r)
     ELSE staged' = [staged EXCEPT ![r] = @ \cup {s}] /\ UNCHANGED <<spent, applied>>

Receive(s) ==
  /\ ReplayVerdict(s) = "accept_unseen_sequence"
  /\ accepted' = accepted \cup {s}
  /\ Ignore(s) \/ Conflict(s) \/ Retain(s)
  /\ UNCHANGED sent

\* discardAtSeconds: an incomplete set is dropped, the shown state kept.
Discard(r) ==
  /\ staged[r] # {}
  /\ UNCHANGED <<sent, accepted, applied>>
  /\ End(r)

Next ==
  \/ Emit
  \/ \E s \in DOMAIN sent, content \in {"own", "other"} : EmitAgain(s, content)
  \/ \E s \in DOMAIN sent : Receive(s)
  \/ \E r \in Response : Discard(r)

Spec == Init /\ [][Next]_vars

-----------------------------------------------------------------------------
\* The variables' types; only incomplete sets are kept, one copy of an index.
TypeOK ==
  /\ sent \in Seq(Fragment)
  /\ accepted \subseteq DOMAIN sent /\ spent \subseteq accepted /\ applied \subseteq spent
  /\ \A r \in Response :
       /\ staged[r] \subseteq accepted \ spent
       /\ \A s \in staged[r] : sent[s].response = r
       /\ ~Complete(r, staged[r])
  /\ \A r \in Response, s, t \in accepted :
       {s, t} \subseteq staged[r] /\ sent[s].index = sent[t].index => s = t

\* A datagram contributes to one reassembly set: whatever is repeated, and
\* however late, nothing of a set that was applied or discarded is shown again.
UsedOnce == [][applied' # applied => applied' \cap spent = {}]_vars

\* What is shown was received in one version: while a set is collected, no
\* second version of one of its fragments passes unnoticed.
OneVersionShown ==
  [][applied' # applied =>
       \A s \in applied', t \in accepted' \ spent :
         sent[s].response = sent[t].response /\ sent[s].index = sent[t].index
           => sent[s].content = sent[t].content]_vars

\* The client shows whole responses: a full set of fragments of one response,
\* one for each index, and never a part or a mixture.
Promise == INSTANCE WholeTransfer WITH
  published <- {S \in SUBSET DOMAIN sent : \E r \in Response :
                  /\ Cardinality(S) = Count[r] /\ Complete(r, S)
                  /\ \A s \in S : sent[s].response = r},
  applied <- IF applied = {} THEN {} ELSE {applied}
PromiseSpec == Promise!Spec
=============================================================================
