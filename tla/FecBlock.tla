----------------------------- MODULE FecBlock ------------------------------
(***************************************************************************)
(* One block of forward error correction: up to six audio frames of any    *)
(* lengths under consecutive sequences modulo 2^SequenceBits, and the      *)
(* parities P and Q over the padded frames.  The frames arrive in any      *)
(* order or never; when its time has come the receiver recovers.           *)
(***************************************************************************)
EXTENDS GaloisField, SequencesExt

CONSTANTS
  MaxBlockSize,  \* 6 in the code
  SequenceBits,  \* 16 in the code
  Starts,        \* the block starts to consider
  Samples        \* the frames to consider, sequences of elements

VARIABLES
  blockStart,  \* the first audioSeq
  frames,      \* the frames the talker sent
  received,    \* the audioSeq of those that arrived in time
  state,       \* "collecting", "recovered" or "unrecoverable"
  output       \* the frames that are rendered, in order

vars == <<blockStart, frames, received, state, output>>

-----------------------------------------------------------------------------
MemberSequences(start, size) == [i \in 1 .. size |-> (start + i - 1) % 2 ^ SequenceBits]

Xor(f, g) == [k \in DOMAIN f |-> Plus(f[k], g[k])]
Scale(f, c) == [k \in DOMAIN f |-> GfMul(f[k], c)]
Coefficients(size) == [i \in 1 .. size |-> GfPow(Two, i - 1)]
Blank(width) == [k \in 1 .. width |-> ZeroElement]

PaddedLength == Max({Len(f) : f \in Range(frames)})
Padded(f) == f \o Blank(PaddedLength - Len(f))

\* P and Q over some of the frames: for all of them encode_parity, for those
\* that arrived known_p and known_q.
ParityP(indexes) ==
  FoldSet(LAMBDA i, sum : Xor(sum, Padded(frames[i])), Blank(PaddedLength), indexes)
ParityQ(indexes) ==
  LET c == Coefficients(Len(frames)) IN
  FoldSet(LAMBDA i, sum : Xor(sum, Scale(Padded(frames[i]), c[i])), Blank(PaddedLength), indexes)

\* Mutant of SecondOfTwo: the coefficients of the two are mixed up.
SecondOfTwoSwapped(p, q, c, d) == Scale(Xor(q, Scale(p, d)), GfInv(Plus(c, d)))

\* p = a + b and q = c*a + d*b solved for b.
SecondOfTwo(p, q, c, d) == Scale(Xor(q, Scale(p, c)), GfInv(Plus(c, d)))

\* The padded frames that are missing, from what the parities have left.
Recovered(missing) ==
  LET c      == Coefficients(Len(frames))
      first  == Min(missing)
      second == Max(missing)
      p      == Xor(ParityP(DOMAIN frames), ParityP(DOMAIN frames \ missing))
      q      == Xor(ParityQ(DOMAIN frames), ParityQ(DOMAIN frames \ missing))
      frame  == SecondOfTwo(p, q, c[first], c[second])
  IN
  CASE missing = {}             -> <<>>
    [] Cardinality(missing) = 1 -> [i \in missing |-> p]
    [] Cardinality(missing) = 2 -> [i \in missing |-> IF i = second THEN frame ELSE Xor(p, frame)]

-----------------------------------------------------------------------------
Init ==
  /\ blockStart \in Starts
  /\ frames \in UNION {[1 .. size -> Samples] : size \in 1 .. MaxBlockSize}
  /\ received = {} /\ state = "collecting" /\ output = <<>>

Members == MemberSequences(blockStart, Len(frames))

Arrive(sequence) ==
  /\ state = "collecting"
  /\ received' = received \cup {sequence}
  /\ UNCHANGED <<blockStart, frames, state, output>>

Truncated(frame, length) == SubSeq(frame, 1, length)

\* Frames are matched by their audioSeq; two missing ones are recovered.
Recover ==
  LET missing == {i \in DOMAIN frames : Members[i] \notin received} IN
  /\ state = "collecting"
  /\ \/ /\ Cardinality(missing) > 2
        /\ state' = "unrecoverable" /\ UNCHANGED output
     \/ /\ Cardinality(missing) <= 2
        /\ state' = "recovered"
        /\ LET found == Recovered(missing) IN
           output' = [i \in DOMAIN frames |->
             Truncated(IF i \in missing THEN found[i] ELSE Padded(frames[i]), Len(frames[i]))]
  /\ UNCHANGED <<blockStart, frames, received>>

\* The talker numbers its frames modulo the sequence space.
Next ==
  \/ \E i \in DOMAIN frames : Arrive((blockStart + i - 1) % 2 ^ SequenceBits)
  \/ Recover

Spec == Init /\ [][Next]_vars

-----------------------------------------------------------------------------
\* The variables' types; as many frames are rendered as were sent.
TypeOK ==
  /\ blockStart \in Starts /\ frames \in Seq(Samples)
  /\ received \subseteq Range(Members)
  /\ state \in {"collecting", "recovered", "unrecoverable"}
  /\ output \in Seq(Seq(Element))
  /\ Len(output) = IF state = "recovered" THEN Len(frames) ELSE 0

\* Whichever one or two frames are lost, the block is rendered as it was sent,
\* byte for byte and length for length.
RecoveredExactly == state = "recovered" => output = frames

\* Only a block that lost more than two frames is given up, also where its
\* sequences pass the end of their range.
GivenUpOnlyBeyondTwo ==
  state = "unrecoverable" => Cardinality(received) < Len(frames) - 2
=============================================================================
