----------------------------- MODULE SuiteProofs -----------------------------
(***************************************************************************)
(* What the suites compute for a case, for any files, rows, vectors,       *)
(* talkers, senders and bounds, and what a run reports of its cases.       *)
(*                                                                         *)
(* The parts of SuiteCases share nothing: each has an inductive invariant  *)
(* of its own, and a step of the whole is a step of one of them while the  *)
(* others rest.                                                            *)
(***************************************************************************)
EXTENDS SuiteCases, FiniteSetTheorems, TLAPS

-----------------------------------------------------------------------------
(***************************************************************************)
(* The run.                                                                *)
(*                                                                         *)
(* What ran and what is to do is always what was asked for, and the        *)
(* defects met so far are those reported and those of the running          *)
(* validator, whose list is not empty exactly when it met one.             *)
(***************************************************************************)
\* Every suite is a sequence of validators, and so is any choice of suites.
LEMMA PlanType ==
  ASSUME NEW arg \in Run!Suite \cup {"all"}
  PROVE  Run!Plan(arg) \in Seq(Run!Validator)
<1>1. ASSUME NEW s \in Run!Suite PROVE Run!Validators[s] \in Seq(Run!Validator)
  <2>1. /\ DOMAIN Run!Validators["structural"] = 1..4 /\ DOMAIN Run!Validators["packet"] = 1..1
        /\ DOMAIN Run!Validators["crypto"] = 1..6 /\ DOMAIN Run!Validators["fec"] = 1..2
        /\ DOMAIN Run!Validators["lifecycle"] = 1..9
    BY DEF Run!Validators
  <2>2. \E n \in Nat : DOMAIN Run!Validators[s] = 1..n
    BY <2>1 DEF Run!Suite
  <2>3. Run!Validators[s] = [i \in DOMAIN Run!Validators[s] |-> Run!Validators[s][i]]
    <3>1. CASE s = "structural"
      <4>1. Run!Validators["structural"] = [i \in DOMAIN Run!Validators["structural"] |-> Run!Validators["structural"][i]]
        BY DEF Run!Validators
      <4> QED BY <3>1, <4>1
    <3>2. CASE s = "packet"
      <4>1. Run!Validators["packet"] = [i \in DOMAIN Run!Validators["packet"] |-> Run!Validators["packet"][i]]
        BY DEF Run!Validators
      <4> QED BY <3>2, <4>1
    <3>3. CASE s = "crypto"
      <4>1. Run!Validators["crypto"] = [i \in DOMAIN Run!Validators["crypto"] |-> Run!Validators["crypto"][i]]
        BY DEF Run!Validators
      <4> QED BY <3>3, <4>1
    <3>4. CASE s = "fec"
      <4>1. Run!Validators["fec"] = [i \in DOMAIN Run!Validators["fec"] |-> Run!Validators["fec"][i]]
        BY DEF Run!Validators
      <4> QED BY <3>4, <4>1
    <3>5. CASE s = "lifecycle"
      <4>1. Run!Validators["lifecycle"] = [i \in DOMAIN Run!Validators["lifecycle"] |-> Run!Validators["lifecycle"][i]]
        BY DEF Run!Validators
      <4> QED BY <3>5, <4>1
    <3> QED BY <3>1, <3>2, <3>3, <3>4, <3>5 DEF Run!Suite
  <2>4. \A i \in DOMAIN Run!Validators[s] : Run!Validators[s][i] \in Run!Validator
    BY DEF Run!Validator, Run!ToSet
  <2> QED BY <2>2, <2>3, <2>4
<1>2. CASE arg = "all"
  <2>1. /\ Run!Validators.structural \in Seq(Run!Validator) /\ Run!Validators.packet \in Seq(Run!Validator)
        /\ Run!Validators.crypto \in Seq(Run!Validator) /\ Run!Validators.fec \in Seq(Run!Validator)
        /\ Run!Validators.lifecycle \in Seq(Run!Validator)
    BY <1>1 DEF Run!Suite
  <2> QED BY <1>2, <2>1 DEF Run!Plan
<1>3. CASE arg # "all"
  BY <1>1, <1>3 DEF Run!Plan
<1> QED BY <1>2, <1>3

LEMMA RunInitTypeOK ==
  ASSUME Run!Init
  PROVE  Run!TypeOK
<1>1. suite \in Run!Suite \cup {"all"} /\ todo \in Seq(Run!Validator)
  BY PlanType DEF Run!Init
<1>2. 0 \in 0..Items
  BY RunAssumption
<1> QED BY <1>1, <1>2 DEF Run!Init, Run!TypeOK

LEMMA HeadAndTail ==
  ASSUME Run!TypeOK, Run!Running
  PROVE  /\ Head(todo) \in Run!Validator /\ Tail(todo) \in Seq(Run!Validator)
         /\ Run!ToSet(todo) = {Head(todo)} \cup Run!ToSet(Tail(todo))
<1>1. todo \in Seq(Run!Validator) /\ todo # <<>>
  BY DEF Run!TypeOK, Run!Running
<1>2. Head(todo) = todo[1] /\ 1 \in DOMAIN todo /\ Len(todo) \in Nat
  BY <1>1
<1>3. /\ DOMAIN todo = 1..Len(todo) /\ DOMAIN Tail(todo) = 1..(Len(todo) - 1)
      /\ \A i \in DOMAIN Tail(todo) : Tail(todo)[i] = todo[i + 1]
  BY <1>1
<1>4. Run!ToSet(todo) \subseteq {Head(todo)} \cup Run!ToSet(Tail(todo))
  <2> SUFFICES ASSUME NEW i \in DOMAIN todo, i # 1
               PROVE  \E j \in DOMAIN Tail(todo) : Tail(todo)[j] = todo[i]
    BY <1>2 DEF Run!ToSet
  <2>1. i - 1 \in DOMAIN Tail(todo) /\ (i - 1) + 1 = i
    BY <1>2, <1>3
  <2> QED BY <1>3, <2>1
<1>5. Run!ToSet(Tail(todo)) \subseteq Run!ToSet(todo)
  <2> SUFFICES ASSUME NEW j \in DOMAIN Tail(todo)
               PROVE  \E i \in DOMAIN todo : todo[i] = Tail(todo)[j]
    BY DEF Run!ToSet
  <2>1. j + 1 \in DOMAIN todo
    BY <1>2, <1>3
  <2> QED BY <1>3, <2>1
<1>6. Head(todo) \in Run!ToSet(todo)
  BY <1>2 DEF Run!ToSet
<1> QED BY <1>1, <1>4, <1>5, <1>6

-----------------------------------------------------------------------------
\* The kinds of a step, for what the invariants speak of.
GoesOn == /\ item' = item + 1 /\ UNCHANGED <<suite, todo, named, exit, ran>>
          /\ \/ UNCHANGED <<found, defective>>
             \/ found' = TRUE /\ Run!Defect
Ends == /\ UNCHANGED <<suite, exit>>
        /\ \/ Run!Advance(found) /\ UNCHANGED defective
           \/ Run!Advance(TRUE) /\ Run!Defect
Stops == /\ exit' = "traceback" /\ Run!Defect
         /\ UNCHANGED <<suite, todo, item, found, named, ran>>

LEMMA KindsOfSteps ==
  ASSUME [Run!Next]_(Run!vars)
  PROVE  \/ Run!Running /\ item < Items /\ GoesOn
         \/ Run!Running /\ Ends /\ (item < Items \/ UNCHANGED defective)
         \/ Run!Running /\ item < Items /\ Stops
         \/ Run!Report
         \/ UNCHANGED Run!vars
<1>1. ASSUME Run!Matches \/ Run!Mismatches PROVE Run!Running /\ item < Items /\ GoesOn
  BY <1>1 DEF Run!Matches, Run!Mismatches, GoesOn
<1>2. ASSUME Run!Returns PROVE Run!Running /\ Ends /\ UNCHANGED defective
  BY <1>2 DEF Run!Returns, Ends
<1>3. ASSUME NEW e, Run!RaisesInLoop(e) PROVE Run!Running /\ item < Items /\ GoesOn
  BY <1>3 DEF Run!RaisesInLoop, GoesOn
<1>4. ASSUME NEW e, Run!Abandons(e) PROVE Run!Running /\ item < Items /\ Ends
  BY <1>4 DEF Run!Abandons, Ends
<1>5. ASSUME NEW e, Run!Escapes(e) PROVE Run!Running /\ item < Items /\ Stops
  BY <1>5 DEF Run!Escapes, Stops
<1> QED BY <1>1, <1>2, <1>3, <1>4, <1>5 DEF Run!Next

LEMMA DefectType ==
  ASSUME Run!TypeOK, Run!Running, item < Items, Run!Defect
  PROVE  defective' \subseteq Run!Validator \X (0..Items)
BY HeadAndTail DEF Run!TypeOK, Run!Defect

LEMMA RunStepTypeOK ==
  ASSUME Run!TypeOK, [Run!Next]_(Run!vars)
  PROVE  Run!TypeOK'
<1> item \in Nat /\ Items \in Nat
  BY RunAssumption DEF Run!TypeOK
<1>1. CASE Run!Running /\ item < Items /\ GoesOn
  <2>1. defective' \subseteq Run!Validator \X (0..Items) /\ found' \in BOOLEAN
    BY <1>1, DefectType DEF GoesOn, Run!TypeOK
  <2>2. item' \in 0..Items /\ UNCHANGED <<suite, todo, named, exit, ran>>
    BY <1>1 DEF GoesOn
  <2> QED BY <2>1, <2>2 DEF Run!TypeOK
<1>2. CASE Run!Running /\ Ends /\ (item < Items \/ UNCHANGED defective)
  <2>1. defective' \subseteq Run!Validator \X (0..Items)
    BY <1>2, DefectType DEF Ends, Run!TypeOK
  <2>2. /\ todo' = Tail(todo) /\ item' = 0 /\ found' = FALSE /\ UNCHANGED <<suite, exit>>
        /\ named' \subseteq named \cup {Head(todo)} /\ ran' = ran \cup {Head(todo)}
    BY <1>2 DEF Ends, Run!Advance
  <2>3. Head(todo) \in Run!Validator /\ Tail(todo) \in Seq(Run!Validator)
    BY <1>2, HeadAndTail
  <2>4. 0 \in 0..Items
    BY RunAssumption
  <2> QED BY <2>1, <2>2, <2>3, <2>4 DEF Run!TypeOK
<1>3. CASE Run!Running /\ item < Items /\ Stops
  BY <1>3, DefectType DEF Stops, Run!TypeOK
<1>4. CASE Run!Report
  BY <1>4 DEF Run!Report, Run!TypeOK
<1>5. CASE UNCHANGED Run!vars
  BY <1>5 DEF Run!vars, Run!TypeOK
<1> QED BY <1>1, <1>2, <1>3, <1>4, <1>5, KindsOfSteps

-----------------------------------------------------------------------------
Names == {d[1] : d \in defective}

AllAskedFor == ran \cup Run!ToSet(todo) = Run!ToSet(Run!Plan(suite))

Noticed == exit # "traceback" => Names = named \cup (IF found THEN {Head(todo)} ELSE {})

ReportedAtEnd ==
  /\ todo = <<>> => ~found
  /\ exit \in {"0", "1"} => todo = <<>> /\ (exit = "0" <=> named = {})

RunInv == Run!TypeOK /\ AllAskedFor /\ Noticed /\ ReportedAtEnd

LEMMA DefectName ==
  ASSUME Run!Defect
  PROVE  Names' = Names \cup {Head(todo)}
<1>1. defective' = defective \cup {<<Head(todo), item>>} /\ <<Head(todo), item>>[1] = Head(todo)
  BY DEF Run!Defect
<1> QED BY <1>1 DEF Names

LEMMA StepReport == RunInv /\ [Run!Next]_(Run!vars) => AllAskedFor' /\ Noticed' /\ ReportedAtEnd'
<1> SUFFICES ASSUME RunInv, [Run!Next]_(Run!vars) PROVE AllAskedFor' /\ Noticed' /\ ReportedAtEnd'
  OBVIOUS
<1> USE DEF RunInv
<1>1. CASE Run!Running /\ item < Items /\ GoesOn
  <2>1. UNCHANGED <<suite, todo, named, exit, ran>> /\ todo # <<>> /\ exit = "running"
    BY <1>1 DEF GoesOn, Run!Running
  <2>2. Names = named \cup (IF found THEN {Head(todo)} ELSE {})
    BY <2>1 DEF Noticed
  <2>3. CASE UNCHANGED <<found, defective>>
    BY <2>1, <2>2, <2>3 DEF AllAskedFor, Noticed, ReportedAtEnd, Names
  <2>4. CASE found' = TRUE /\ Run!Defect
    BY <2>1, <2>2, <2>4, DefectName DEF AllAskedFor, Noticed, ReportedAtEnd
  <2> QED BY <1>1, <2>3, <2>4 DEF GoesOn
<1>2. CASE Run!Running /\ Ends
  <2>1. UNCHANGED <<suite, exit>> /\ exit = "running" /\ found' = FALSE
        /\ ran' = ran \cup {Head(todo)} /\ todo' = Tail(todo)
    BY <1>2 DEF Ends, Run!Advance, Run!Running
  <2>2. AllAskedFor'
    BY <1>2, <2>1, HeadAndTail DEF AllAskedFor
  <2>3. Names = named \cup (IF found THEN {Head(todo)} ELSE {})
    BY <2>1 DEF Noticed
  <2>4. Names' = named'
    <3>1. CASE Run!Advance(found) /\ UNCHANGED defective
      BY <2>3, <3>1 DEF Run!Advance, Names
    <3>2. CASE Run!Advance(TRUE) /\ Run!Defect
      BY <2>3, <3>2, DefectName DEF Run!Advance
    <3> QED BY <1>2, <3>1, <3>2 DEF Ends
  <2> QED BY <2>1, <2>2, <2>4 DEF Noticed, ReportedAtEnd
<1>3. CASE Run!Running /\ item < Items /\ Stops
  BY <1>3 DEF Stops, Run!Running, AllAskedFor, Noticed, ReportedAtEnd
<1>4. CASE Run!Report
  BY <1>4 DEF Run!Report, AllAskedFor, Noticed, ReportedAtEnd, Names
<1>5. CASE UNCHANGED Run!vars
  BY <1>5 DEF Run!vars, AllAskedFor, Noticed, ReportedAtEnd, Names
<1> QED BY <1>1, <1>2, <1>3, <1>4, <1>5, KindsOfSteps

LEMMA RunStart == Run!Init => RunInv
BY RunInitTypeOK DEF Run!Init, RunInv, AllAskedFor, Noticed, ReportedAtEnd, Names

LEMMA RunStep == RunInv /\ [Run!Next]_(Run!vars) => RunInv'
BY RunStepTypeOK, StepReport DEF RunInv

LEMMA RunNames == RunInv => Run!DefectsAreNamed
<1>1. ASSUME RunInv, exit \in {"0", "1"}
      PROVE  ran = Run!ToSet(Run!Plan(suite)) /\ named = {d[1] : d \in defective}
  <2>1. todo = <<>> /\ ~found /\ exit # "traceback"
    BY <1>1 DEF RunInv, ReportedAtEnd
  <2>2. Run!ToSet(todo) = {}
    BY <2>1 DEF Run!ToSet
  <2>3. Names = named
    BY <1>1, <2>1 DEF RunInv, Noticed
  <2> QED BY <1>1, <2>2, <2>3 DEF RunInv, AllAskedFor, Names
<1> QED BY <1>1 DEF Run!DefectsAreNamed

LEMMA RunSucceeds == RunInv => Run!SuccessMeansAllMatched
<1>1. ASSUME RunInv, exit = "0"
      PROVE  defective = {} /\ ran = Run!ToSet(Run!Plan(suite))
  <2>1. todo = <<>> /\ ~found /\ named = {}
    BY <1>1 DEF RunInv, ReportedAtEnd
  <2>2. Run!ToSet(todo) = {}
    BY <2>1 DEF Run!ToSet
  <2>3. Names = {}
    BY <1>1, <2>1 DEF RunInv, Noticed
  <2> QED BY <1>1, <2>2, <2>3 DEF RunInv, AllAskedFor, Names
<1> QED BY <1>1 DEF Run!SuccessMeansAllMatched

-----------------------------------------------------------------------------
(***************************************************************************)
(* Media.                                                                  *)
(***************************************************************************)
\* Bases keep their distance, a nonce is a base and a counter, and no two
\* talkers are in one session.
MediaInv ==
  /\ Media!TypeOK
  /\ \A a, b \in bases : a = b \/ a + CounterSpace <= b \/ b + CounterSpace <= a
  /\ \A p \in packets : p.nonce = p.base + p.counter
  /\ \A t, u \in Talker : base[t] = base[u] /\ base[t] # Media!NoBase => t = u
  /\ \A p \in packets : p = [base |-> p.base, counter |-> p.counter, nonce |-> p.nonce]

LEMMA Spaces ==
  /\ NonceSpace \in Nat \ {0} /\ CounterSpace \in Nat \ {0} /\ CounterSpace <= NonceSpace
BY SealingAssumption

LEMMA MediaStarts == Media!Init => MediaInv
<1> SUFFICES ASSUME Media!Init PROVE MediaInv
  OBVIOUS
<1>1. 0 \in 0 .. CounterSpace
  BY Spaces
<1> QED BY <1>1 DEF Media!Init, MediaInv, Media!TypeOK

LEMMA MediaStart ==
  ASSUME MediaInv, NEW t \in Talker, NEW b \in 0 .. NonceSpace - 1, Media!Start(t, b)
  PROVE  MediaInv'
<1>1. /\ base \in [Talker -> bases \cup {Media!NoBase}] /\ counter \in [Talker -> 0 .. CounterSpace]
      /\ bases \subseteq 0 .. NonceSpace - 1
  BY DEF MediaInv, Media!TypeOK
<1>2. /\ bases' = bases \cup {b} /\ UNCHANGED <<packets, refused>>
      /\ base' \in [Talker -> bases' \cup {Media!NoBase}] /\ counter' \in [Talker -> 0 .. CounterSpace]
      /\ base'[t] = b /\ \A u \in Talker : u # t => base'[u] = base[u] /\ counter'[u] = counter[u]
  <2>1. 0 \in 0 .. CounterSpace
    BY Spaces
  <2> QED BY <1>1, <2>1 DEF Media!Start
<1>3. \A a \in bases : a + CounterSpace <= b \/ b + CounterSpace <= a
  BY DEF Media!Start
<1>4. b \notin bases
  <2>1. ~ (b + CounterSpace <= b)
    BY Spaces
  <2> QED BY <1>3, <2>1
<1>5. b # Media!NoBase
  BY Spaces DEF Media!NoBase
<1>6. Media!TypeOK'
  <2>1. bases' \subseteq 0 .. NonceSpace - 1
    BY <1>1, <1>2
  <2>2. \A p \in packets \cup refused : p.base \in bases /\ p.counter \in 0 .. CounterSpace - 1
    BY DEF MediaInv, Media!TypeOK
  <2>3. \A p \in packets \cup refused, u \in Talker : p.base = base'[u] => p.counter < counter'[u]
    BY <1>2, <1>4, <2>2 DEF MediaInv, Media!TypeOK
  <2>4. \A p \in packets : p.nonce \in 0 .. NonceSpace - 1
    BY DEF MediaInv, Media!TypeOK
  <2> QED BY <1>2, <2>1, <2>2, <2>3, <2>4 DEF Media!TypeOK
<1>7. \A a, c \in bases' : a = c \/ a + CounterSpace <= c \/ c + CounterSpace <= a
  BY <1>2, <1>3 DEF MediaInv
<1>8. \A u, v \in Talker : base'[u] = base'[v] /\ base'[u] # Media!NoBase => u = v
  BY <1>1, <1>2, <1>4, <1>5 DEF MediaInv
<1>9. \A p \in packets' : p.nonce = p.base + p.counter
                          /\ p = [base |-> p.base, counter |-> p.counter, nonce |-> p.nonce]
  BY <1>2 DEF MediaInv
<1> QED BY <1>6, <1>7, <1>8, <1>9 DEF MediaInv, Media!NoBase

LEMMA MediaSeal ==
  ASSUME MediaInv, NEW t \in Talker, Media!Seal(t)
  PROVE  MediaInv'
<1> DEFINE n == base[t] + counter[t]
           s == [base |-> base[t], counter |-> counter[t], nonce |-> n]
           r == [base |-> base[t], counter |-> counter[t]]
<1>1. /\ base \in [Talker -> bases \cup {Media!NoBase}] /\ counter \in [Talker -> 0 .. CounterSpace]
      /\ bases \subseteq 0 .. NonceSpace - 1
  BY DEF MediaInv, Media!TypeOK
<1>2. /\ base[t] # Media!NoBase /\ counter[t] < CounterSpace /\ UNCHANGED <<base, bases>>
      /\ counter' = [counter EXCEPT ![t] = @ + 1]
      /\ \/ n < NonceSpace /\ packets' = packets \cup {s} /\ refused' = refused
         \/ refused' = refused \cup {r} /\ packets' = packets
  BY DEF Media!Seal, Media!Nonce, Media!Fits
<1>3. /\ base[t] \in bases /\ base[t] \in 0 .. NonceSpace - 1 /\ counter[t] \in 0 .. CounterSpace - 1
  <2>1. base[t] \in bases /\ base[t] \in 0 .. NonceSpace - 1
    BY <1>1, <1>2
  <2>2. counter[t] \in 0 .. CounterSpace /\ counter[t] < CounterSpace
    BY <1>1, <1>2
  <2> QED BY <2>1, <2>2, Spaces
<1>4. /\ counter' \in [Talker -> 0 .. CounterSpace] /\ counter'[t] = counter[t] + 1
      /\ \A u \in Talker : u # t => counter'[u] = counter[u]
  BY <1>1, <1>2, <1>3, Spaces
<1>5. n \in Nat
  BY <1>3, Spaces
<1>6. /\ s.base = base[t] /\ s.counter = counter[t] /\ s.nonce = n /\ r.base = base[t] /\ r.counter = counter[t]
      /\ s = [base |-> s.base, counter |-> s.counter, nonce |-> s.nonce]
  OBVIOUS
<1>7. \A p \in packets' \cup refused' : p \in packets \cup refused \/ p = s \/ p = r
  BY <1>2
<1>8. \A p \in packets' : p \in packets \/ (p = s /\ n < NonceSpace)
  BY <1>2
<1> HIDE DEF n, s, r
<1>9. Media!TypeOK'
  <2>1. \A p \in packets' \cup refused' : p.base \in bases /\ p.counter \in 0 .. CounterSpace - 1
    BY <1>3, <1>6, <1>7 DEF MediaInv, Media!TypeOK
  <2>2. \A u \in Talker : base[u] = base[t] => u = t
    BY <1>2 DEF MediaInv
  <2>3. ASSUME NEW p \in packets' \cup refused', NEW u \in Talker, p.base = base[u]
        PROVE  p.counter < counter'[u]
    <3>1. CASE p \in packets \cup refused
      <4>1. p.counter < counter[u] /\ p.counter \in 0 .. CounterSpace - 1
        BY <2>3, <3>1 DEF MediaInv, Media!TypeOK
      <4>2. counter[u] \in 0 .. CounterSpace /\ (counter'[u] = counter[u] \/ counter'[u] = counter[u] + 1)
        BY <1>1, <1>4
      <4> QED BY <4>1, <4>2, Spaces
    <3>2. CASE p = s \/ p = r
      <4>1. u = t /\ p.counter = counter[t]
        BY <2>2, <2>3, <3>2, <1>6
      <4> QED BY <4>1, <1>3, <1>4, Spaces
    <3> QED BY <1>7, <3>1, <3>2
  <2>4. \A p \in packets' : p.nonce \in 0 .. NonceSpace - 1
    <3>1. n < NonceSpace => n \in 0 .. NonceSpace - 1
      BY <1>5, Spaces
    <3> QED BY <1>6, <1>8, <3>1 DEF MediaInv, Media!TypeOK
  <2> QED BY <1>1, <1>2, <1>4, <2>1, <2>3, <2>4 DEF Media!TypeOK
<1>10. \A p \in packets' : p.nonce = p.base + p.counter
                           /\ p = [base |-> p.base, counter |-> p.counter, nonce |-> p.nonce]
  BY <1>6, <1>8 DEF MediaInv, n
<1> QED BY <1>2, <1>9, <1>10 DEF MediaInv, Media!NoBase

LEMMA MediaStep == MediaInv /\ [Media!Next]_(Media!vars) => MediaInv'
<1> SUFFICES ASSUME MediaInv, [Media!Next]_(Media!vars) PROVE MediaInv'
  OBVIOUS
<1>1. CASE Media!Next
  BY <1>1, MediaStart, MediaSeal DEF Media!Next
<1>2. CASE UNCHANGED Media!vars
  BY <1>2 DEF Media!vars, MediaInv, Media!TypeOK, Media!NoBase
<1> QED BY <1>1, <1>2

LEMMA MediaNonces == MediaInv => Media!NonceOnce
<1> SUFFICES ASSUME MediaInv, NEW p \in packets, NEW q \in packets, p.nonce = q.nonce
             PROVE  p = q
  BY DEF Media!NonceOnce
<1>1. /\ p.base \in bases /\ q.base \in bases /\ bases \subseteq 0 .. NonceSpace - 1
      /\ p.counter \in 0 .. CounterSpace - 1 /\ q.counter \in 0 .. CounterSpace - 1
  BY DEF MediaInv, Media!TypeOK
<1>2. p.base + p.counter = q.base + q.counter
  BY DEF MediaInv
<1>3. p.base \in 0 .. NonceSpace - 1 /\ q.base \in 0 .. NonceSpace - 1
  BY <1>1
<1>4. p.base + CounterSpace > q.base /\ q.base + CounterSpace > p.base
  BY <1>1, <1>2, <1>3, Spaces
<1>5. p.base = q.base
  <2>1. ~ (p.base + CounterSpace <= q.base) /\ ~ (q.base + CounterSpace <= p.base)
    BY <1>3, <1>4, Spaces
  <2> QED BY <1>1, <2>1 DEF MediaInv
<1>6. p.counter = q.counter
  BY <1>1, <1>2, <1>3, <1>5, Spaces
<1> QED BY <1>5, <1>6 DEF MediaInv

-----------------------------------------------------------------------------
(***************************************************************************)
(* The keys: each is a sequence of its inputs.                             *)
(***************************************************************************)
Derived(k, salt, info) == k \o <<salt, info>>

\* What a key was derived from can be read from it, one derivation at a time.
LEMMA LastDerivation ==
  ASSUME NEW S, NEW k \in Seq(S), NEW l \in Seq(S),
         NEW s \in S, NEW i \in S, NEW t \in S, NEW j \in S,
         Derived(k, s, i) = Derived(l, t, j)
  PROVE  k = l /\ s = t /\ i = j
<1> DEFINE K == k \o <<s, i>>
           L == l \o <<t, j>>
<1> K = L
  BY DEF Derived
<1>1. <<s, i>> \in Seq(S) /\ <<t, j>> \in Seq(S)
  OBVIOUS
<1>2. Len(K) = Len(k) + 2 /\ Len(L) = Len(l) + 2 /\ Len(k) \in Nat /\ Len(l) \in Nat
  BY <1>1
<1>3. Len(k) = Len(l)
  BY <1>2
<1>4. \A n \in 1 .. Len(k) : K[n] = k[n] /\ L[n] = l[n]
  BY <1>1, <1>3
<1>5. \A n \in 1 .. Len(k) : k[n] = l[n]
  BY <1>4
<1>6. k = l
  BY <1>3, <1>5
<1>7. K[Len(k) + 1] = s /\ K[Len(k) + 2] = i /\ L[Len(k) + 1] = t /\ L[Len(k) + 2] = j
  BY <1>1, <1>3
<1> QED BY <1>6, <1>7

\* A derivation makes a key of a key.
LEMMA DerivationType ==
  ASSUME NEW S, NEW k \in Seq(S), NEW s \in S, NEW i \in S
  PROVE  k \o <<s, i>> \in Seq(S)
<1>1. <<s, i>> \in Seq(S)
  OBVIOUS
<1> QED BY <1>1

LEMMA TripleType ==
  ASSUME NEW S, NEW a \in S, NEW b \in S, NEW c \in S
  PROVE  <<a, b, c>> \in Seq(S)
OBVIOUS

-----------------------------------------------------------------------------
(***************************************************************************)
(* Directory.                                                              *)
(***************************************************************************)
Input ==
  {"", "argon2id", "credential", "incomudon-directory-channel-v3", "incomudon-directory-envelope-v3",
   "incomudon-directory-channel-v3 client-to-relay", "incomudon-directory-channel-v3 relay-to-client"}
  \cup Channel \cup Epoch

DirectionText(type) ==
  IF type \in Directory!ClientTypes THEN "incomudon-directory-channel-v3 client-to-relay"
  ELSE "incomudon-directory-channel-v3 relay-to-client"

\* The derivations of a sealing key, with names for the texts in them.
LEMMA SealingKeyApart ==
  ASSUME NEW e \in Directory!Envelope, NEW f \in Directory!Envelope,
         Directory!SealingKey(e) = Directory!SealingKey(f)
  PROVE  /\ e.channel = f.channel /\ e.epoch = f.epoch
         /\ e.type \in Directory!RelayTypes <=> f.type \in Directory!RelayTypes
<1> DEFINE none == ""
           channelInfo == "incomudon-directory-channel-v3"
           epochInfo == "incomudon-directory-envelope-v3"
           kdf == "argon2id"
           credential == "credential"
           P(g) == <<kdf, credential, g.channel>>
           C(g) == P(g) \o <<none, channelInfo>>
           D(g) == C(g) \o <<none, DirectionText(g.type)>>
           K(g) == D(g) \o <<g.epoch, epochInfo>>
<1>1. ASSUME NEW g \in Directory!Envelope PROVE Directory!SealingKey(g) = K(g)
  BY DEF Directory!SealingKey, Directory!EpochKey, Directory!DirectionalKey,
         Directory!DirectoryChannelKey, Directory!PasswordKey, Directory!Argon2id,
         Directory!ChannelSalt, Directory!Hkdf, Directory!NoSalt, DirectionText
<1>2. /\ none \in Input /\ channelInfo \in Input /\ epochInfo \in Input
      /\ kdf \in Input /\ credential \in Input
  BY DEF Input
<1>3. ASSUME NEW g \in Directory!Envelope
      PROVE  g.channel \in Input /\ g.epoch \in Input /\ DirectionText(g.type) \in Input
  BY DEF Directory!Envelope, Input, DirectionText
<1> HIDE DEF none, channelInfo, epochInfo, kdf, credential
<1>4. ASSUME NEW g \in Directory!Envelope PROVE P(g) \in Seq(Input)
  BY <1>2, <1>3, TripleType
<1> HIDE DEF P
<1>5. ASSUME NEW g \in Directory!Envelope PROVE C(g) \in Seq(Input)
  BY <1>2, <1>4, DerivationType
<1> HIDE DEF C
<1>6. ASSUME NEW g \in Directory!Envelope PROVE D(g) \in Seq(Input)
  BY <1>2, <1>3, <1>5, DerivationType
<1> HIDE DEF D
<1>7. D(e) = D(f) /\ e.epoch = f.epoch
  <2>1. Derived(D(e), e.epoch, epochInfo) = Derived(D(f), f.epoch, epochInfo)
    BY <1>1, Zenon DEF Derived
  <2>2. /\ D(e) \in Seq(Input) /\ D(f) \in Seq(Input)
        /\ e.epoch \in Input /\ f.epoch \in Input /\ epochInfo \in Input
    BY <1>2, <1>3, <1>6
  <2> QED BY <2>1, <2>2, LastDerivation
<1>8. C(e) = C(f) /\ DirectionText(e.type) = DirectionText(f.type)
  <2>1. Derived(C(e), none, DirectionText(e.type)) = Derived(C(f), none, DirectionText(f.type))
    BY <1>7, Zenon DEF D, Derived
  <2>2. /\ C(e) \in Seq(Input) /\ C(f) \in Seq(Input) /\ none \in Input
        /\ DirectionText(e.type) \in Input /\ DirectionText(f.type) \in Input
    BY <1>2, <1>3, <1>5
  <2> QED BY <2>1, <2>2, LastDerivation
<1>9. P(e) = P(f)
  <2>1. Derived(P(e), none, channelInfo) = Derived(P(f), none, channelInfo)
    BY <1>8, Zenon DEF C, Derived
  <2>2. /\ P(e) \in Seq(Input) /\ P(f) \in Seq(Input) /\ none \in Input /\ channelInfo \in Input
    BY <1>2, <1>4
  <2> QED BY <2>1, <2>2, LastDerivation
<1>10. e.channel = f.channel
  BY <1>9 DEF P
<1>11. /\ e.type \in {"request", "register", "participants"}
       /\ f.type \in {"request", "register", "participants"}
  BY DEF Directory!Envelope, Directory!Type
<1>12. e.type \in Directory!RelayTypes <=> f.type \in Directory!RelayTypes
  BY <1>8, <1>11 DEF DirectionText, Directory!RelayTypes, Directory!ClientTypes
<1> QED BY <1>7, <1>10, <1>12

SameDirection(s, t) == s = Relay <=> t = Relay

LEMMA Bound == MaxSealed \in Nat
BY SealingAssumption

LEMMA Apart == Relay \notin Client /\ Directory!NoSalt \notin Epoch
BY SealingAssumption DEF Directory!NoSalt

\* What is sealed is as its sender fixed it, under an epoch of its own.
WellSealed(g) ==
  /\ g = [sender |-> g.sender, envelope |-> g.envelope,
          key |-> Directory!SealingKey(g.envelope), nonce |-> g.envelope.sequence]
  /\ g.envelope = [type |-> g.envelope.type, channel |-> g.envelope.channel,
                   epoch |-> g.envelope.epoch, sequence |-> g.envelope.sequence]
  /\ g.sender = Relay <=> g.envelope.type \in Directory!RelayTypes
  /\ \A d \in Directory!Direction : g.sender \in d => g.envelope.epoch \in drawn[d]

\* An epoch belongs to one sender of its direction, and a sender counts on.
DirectoryInv ==
  /\ Directory!TypeOK
  /\ epoch \in [Directory!Sender -> Epoch \cup {Directory!NoSalt}] /\ drawn \in [Directory!Direction -> SUBSET Epoch]
  /\ IsFiniteSet(sealed) /\ \A s \in Directory!Sender : sequence[s] <= Cardinality(sealed)
  /\ \A g \in sealed : WellSealed(g)
  /\ \A s, t \in Directory!Sender :
       SameDirection(s, t) /\ epoch[s] = epoch[t] /\ epoch[s] # Directory!NoSalt => s = t
  /\ \A g \in sealed, s \in Directory!Sender :
       SameDirection(g.sender, s) /\ g.envelope.epoch = epoch[s] => s = g.sender
  /\ \A g, h \in sealed :
       SameDirection(g.sender, h.sender) /\ g.envelope.epoch = h.envelope.epoch =>
         /\ g.sender = h.sender
         /\ g.nonce = h.nonce => g = h

LEMMA Directions ==
  /\ \A d \in Directory!Direction : d \subseteq Directory!Sender
  /\ \A d \in Directory!Direction, s, t \in Directory!Sender :
       s \in d => (t \in d <=> SameDirection(s, t))
  /\ \A c, d \in Directory!Direction, s \in Directory!Sender : s \in c /\ s \in d => c = d
<1> DEFINE R == {Relay}
<1>1. \A d \in Directory!Direction : d = Client \/ d = R
  BY DEF Directory!Direction
<1>2. R \cap Client = {} /\ Directory!Sender = Client \cup R
  BY Apart DEF Directory!Sender
<1>3. \A s : s \in R <=> s = Relay
  OBVIOUS
<1> HIDE DEF R
<1>4. ASSUME NEW d \in Directory!Direction, NEW s \in Directory!Sender, NEW t \in Directory!Sender, s \in d
      PROVE  t \in d <=> SameDirection(s, t)
  <2>1. CASE d = Client
    BY <1>2, <1>3, <1>4, <2>1 DEF SameDirection
  <2>2. CASE d = R
    BY <1>2, <1>3, <1>4, <2>2 DEF SameDirection
  <2> QED BY <1>1, <2>1, <2>2
<1> QED BY <1>1, <1>2, <1>4

LEMMA DirectoryStarts == Directory!Init => DirectoryInv
<1> SUFFICES ASSUME Directory!Init PROVE DirectoryInv
  OBVIOUS
<1>1. MaxSealed \in Nat
  BY Bound
<1>2. IsFiniteSet(sealed) /\ Cardinality(sealed) = 0
  BY FS_EmptySet DEF Directory!Init
<1>3. /\ epoch = [s \in Directory!Sender |-> Directory!NoSalt] /\ sequence = [s \in Directory!Sender |-> 0]
      /\ drawn = [d \in Directory!Direction |-> {}] /\ sealed = {}
  BY DEF Directory!Init
<1>4. \A d \in Directory!Direction : d \subseteq Directory!Sender
  BY Directions
<1>5. Directory!TypeOK
  <2>1. 0 \in 0 .. MaxSealed
    BY <1>1
  <2>2. sequence \in [Directory!Sender -> 0 .. MaxSealed]
    BY <1>3, <2>1
  <2>3. \A d \in Directory!Direction :
          drawn[d] \subseteq Epoch /\ \A s \in d : epoch[s] \in drawn[d] \cup {Directory!NoSalt}
    BY <1>3, <1>4
  <2> QED BY <1>3, <2>2, <2>3 DEF Directory!TypeOK
<1> QED BY <1>2, <1>3, <1>5 DEF DirectoryInv

LEMMA NonceOfDirectory == DirectoryInv => Directory!NonceOnce
<1> SUFFICES ASSUME DirectoryInv, NEW g \in sealed, NEW h \in sealed, g.key = h.key, g.nonce = h.nonce
             PROVE  g = h
  BY DEF Directory!NonceOnce
<1>1. g.envelope \in Directory!Envelope /\ h.envelope \in Directory!Envelope
  BY DEF DirectoryInv, Directory!TypeOK
<1>2. WellSealed(g) /\ WellSealed(h)
  BY DEF DirectoryInv
<1>3. g.key = Directory!SealingKey(g.envelope) /\ h.key = Directory!SealingKey(h.envelope)
  BY <1>2 DEF WellSealed
<1>4. /\ g.envelope.epoch = h.envelope.epoch
      /\ g.envelope.type \in Directory!RelayTypes <=> h.envelope.type \in Directory!RelayTypes
  <2>1. Directory!SealingKey(g.envelope) = Directory!SealingKey(h.envelope)
    BY <1>3
  <2> QED BY <1>1, <2>1, SealingKeyApart, Zenon
<1>5. SameDirection(g.sender, h.sender)
  BY <1>2, <1>4, Zenon DEF SameDirection, WellSealed
<1> QED BY <1>4, <1>5 DEF DirectoryInv

LEMMA DirectoryStart ==
  ASSUME DirectoryInv, NEW s \in Directory!Sender, Directory!Start(s)
  PROVE  DirectoryInv'
<1>1. PICK d \in Directory!Direction, e \in Epoch :
        /\ s \in d /\ e \notin drawn[d]
        /\ epoch' = [epoch EXCEPT ![s] = e] /\ drawn' = [drawn EXCEPT ![d] = @ \cup {e}]
        /\ sequence' = [sequence EXCEPT ![s] = 0] /\ UNCHANGED sealed
  BY DEF Directory!Start
<1>2. /\ epoch \in [Directory!Sender -> Epoch \cup {Directory!NoSalt}] /\ drawn \in [Directory!Direction -> SUBSET Epoch]
      /\ sequence \in [Directory!Sender -> 0 .. MaxSealed]
  BY DEF DirectoryInv, Directory!TypeOK
<1>3. /\ epoch' \in [Directory!Sender -> Epoch \cup {Directory!NoSalt}] /\ epoch'[s] = e
      /\ \A t \in Directory!Sender : t # s => epoch'[t] = epoch[t]
  BY <1>1, <1>2
<1>4. /\ drawn' \in [Directory!Direction -> SUBSET Epoch] /\ drawn'[d] = drawn[d] \cup {e}
      /\ \A c \in Directory!Direction : drawn[c] \subseteq drawn'[c]
  BY <1>1, <1>2
<1>5. /\ sequence' \in [Directory!Sender -> 0 .. MaxSealed] /\ sequence'[s] = 0
      /\ \A t \in Directory!Sender : t # s => sequence'[t] = sequence[t]
  <2>1. 0 \in 0 .. MaxSealed
    BY Bound
  <2> QED BY <1>1, <1>2, <2>1
<1>6. e # Directory!NoSalt
  BY Apart
<1>7. \A t \in Directory!Sender : SameDirection(s, t) => epoch[t] # e
  BY <1>1, <1>6, Directions DEF DirectoryInv, Directory!TypeOK
<1>8. \A g \in sealed : g.sender \in Directory!Sender /\ (SameDirection(g.sender, s) => g.envelope.epoch # e)
  <2> SUFFICES ASSUME NEW g \in sealed
               PROVE  g.sender \in Directory!Sender /\ (SameDirection(g.sender, s) => g.envelope.epoch # e)
    OBVIOUS
  <2>1. g.sender \in Directory!Sender
    BY DEF DirectoryInv, Directory!TypeOK
  <2>2. \A c \in Directory!Direction : g.sender \in c => g.envelope.epoch \in drawn[c]
    BY DEF DirectoryInv, WellSealed
  <2>3. SameDirection(g.sender, s) => g.sender \in d
    BY <1>1, <2>1, Directions DEF SameDirection
  <2> QED BY <1>1, <2>1, <2>2, <2>3
<1>9. Directory!TypeOK'
  <2>1. ASSUME NEW c \in Directory!Direction
        PROVE  drawn'[c] \subseteq Epoch /\ \A t \in c : epoch'[t] \in drawn'[c] \cup {Directory!NoSalt}
    <3>1. \A t \in c : epoch[t] \in drawn[c] \cup {Directory!NoSalt}
      BY DEF DirectoryInv, Directory!TypeOK
    <3>2. s \in c => c = d
      BY <1>1, Directions
    <3>3. \A t \in c : t \in Directory!Sender
      BY Directions
    <3> QED BY <1>3, <1>4, <3>1, <3>2, <3>3
  <2>2. ASSUME NEW g \in sealed
        PROVE  /\ g.sender \in Directory!Sender /\ g.envelope \in Directory!Envelope
               /\ g.envelope.epoch = epoch'[g.sender] => g.envelope.sequence <= sequence'[g.sender]
    <3>1. /\ g.sender \in Directory!Sender /\ g.envelope \in Directory!Envelope
          /\ g.envelope.epoch = epoch[g.sender] => g.envelope.sequence <= sequence[g.sender]
      BY DEF DirectoryInv, Directory!TypeOK
    <3>2. g.sender = s => g.envelope.epoch # e
      BY <1>8 DEF SameDirection
    <3> QED BY <1>3, <1>5, <3>1, <3>2
  <2> QED BY <1>1, <1>5, <2>1, <2>2 DEF Directory!TypeOK
<1>10. IsFiniteSet(sealed') /\ \A t \in Directory!Sender : sequence'[t] <= Cardinality(sealed')
  <2>1. IsFiniteSet(sealed) /\ Cardinality(sealed) \in Nat
    BY FS_CardinalityType DEF DirectoryInv
  <2>2. \A t \in Directory!Sender : sequence[t] <= Cardinality(sealed)
    BY DEF DirectoryInv
  <2> QED BY <1>1, <1>5, <2>1, <2>2
<1>11. \A g \in sealed : /\ g = [sender |-> g.sender, envelope |-> g.envelope,
                                 key |-> Directory!SealingKey(g.envelope), nonce |-> g.envelope.sequence]
                         /\ g.envelope = [type |-> g.envelope.type, channel |-> g.envelope.channel,
                                          epoch |-> g.envelope.epoch, sequence |-> g.envelope.sequence]
                         /\ g.sender = Relay <=> g.envelope.type \in Directory!RelayTypes
                         /\ \A c \in Directory!Direction : g.sender \in c => g.envelope.epoch \in drawn'[c]
  BY <1>4 DEF DirectoryInv, WellSealed
<1>12. \A t, u \in Directory!Sender :
         SameDirection(t, u) /\ epoch'[t] = epoch'[u] /\ epoch'[t] # Directory!NoSalt => t = u
  BY <1>3, <1>7 DEF DirectoryInv, SameDirection
<1>13. \A g \in sealed, t \in Directory!Sender :
         SameDirection(g.sender, t) /\ g.envelope.epoch = epoch'[t] => t = g.sender
  BY <1>3, <1>8 DEF DirectoryInv
<1>14. \A g, h \in sealed :
         SameDirection(g.sender, h.sender) /\ g.envelope.epoch = h.envelope.epoch =>
           g.sender = h.sender /\ (g.nonce = h.nonce => g = h)
  BY DEF DirectoryInv
<1> QED BY <1>1, <1>3, <1>4, <1>9, <1>10, <1>11, <1>12, <1>13, <1>14
        DEF DirectoryInv, WellSealed, SameDirection

LEMMA DirectorySeal ==
  ASSUME DirectoryInv, NEW s \in Directory!Sender, NEW type \in Directory!Type, NEW c \in Channel,
         Directory!Seal(s, type, c)
  PROVE  DirectoryInv'
<1> DEFINE e == [type |-> type, channel |-> c, epoch |-> epoch[s], sequence |-> sequence[s] + 1]
           n == [sender |-> s, envelope |-> e, key |-> Directory!SealingKey(e), nonce |-> e.sequence]
<1>1. /\ Directory!Cardinality(sealed) < MaxSealed /\ epoch[s] # Directory!NoSalt
      /\ s = Relay <=> type \in Directory!RelayTypes
      /\ sequence' = [sequence EXCEPT ![s] = @ + 1]
      /\ sealed' = sealed \cup {n} /\ UNCHANGED <<epoch, drawn>>
  BY DEF Directory!Seal, Directory!Nonce
<1>2. /\ epoch \in [Directory!Sender -> Epoch \cup {Directory!NoSalt}] /\ drawn \in [Directory!Direction -> SUBSET Epoch]
      /\ sequence \in [Directory!Sender -> 0 .. MaxSealed] /\ MaxSealed \in Nat
  BY Bound DEF DirectoryInv, Directory!TypeOK
<1>3. /\ IsFiniteSet(sealed) /\ Cardinality(sealed) \in Nat /\ Cardinality(sealed) < MaxSealed
      /\ \A t \in Directory!Sender : sequence[t] <= Cardinality(sealed)
  <2>1. Directory!Cardinality(sealed) = Cardinality(sealed)
    BY DEF Directory!Cardinality, Cardinality
  <2> QED BY <1>1, <2>1, FS_CardinalityType DEF DirectoryInv
<1>4. /\ sequence[s] \in Nat /\ sequence[s] + 1 \in 1 .. MaxSealed /\ sequence'[s] = sequence[s] + 1
      /\ \A t \in Directory!Sender : t # s => sequence'[t] = sequence[t]
      /\ sequence' \in [Directory!Sender -> 0 .. MaxSealed]
  <2>1. sequence[s] \in Nat /\ sequence[s] < MaxSealed
    BY <1>2, <1>3
  <2> QED BY <1>1, <1>2, <2>1
<1>5. /\ e.type = type /\ e.epoch = epoch[s] /\ e.sequence = sequence[s] + 1 /\ e \in Directory!Envelope
      /\ e = [type |-> e.type, channel |-> e.channel, epoch |-> e.epoch, sequence |-> e.sequence]
  <2>1. epoch[s] \in Epoch
    BY <1>1, <1>2
  <2> QED BY <1>4, <2>1 DEF Directory!Envelope
<1> HIDE DEF e
<1>6. /\ n.sender = s /\ n.envelope = e /\ n.nonce = sequence[s] + 1
      /\ n = [sender |-> n.sender, envelope |-> n.envelope,
              key |-> Directory!SealingKey(n.envelope), nonce |-> n.envelope.sequence]
  BY <1>5
<1> HIDE DEF n
<1>7. WellSealed(n)
  <2>1. \A d \in Directory!Direction : s \in d => epoch[s] \in drawn[d]
    BY <1>1 DEF DirectoryInv, Directory!TypeOK
  <2> QED BY <1>1, <1>5, <1>6, <2>1 DEF WellSealed
<1>8. \A g \in sealed : g.envelope.epoch = epoch[s] /\ SameDirection(g.sender, s) =>
                          g.sender = s /\ g.nonce \in Nat /\ g.nonce <= sequence[s]
  <2> SUFFICES ASSUME NEW g \in sealed, g.envelope.epoch = epoch[s], SameDirection(g.sender, s)
               PROVE  g.sender = s /\ g.nonce \in Nat /\ g.nonce <= sequence[s]
    OBVIOUS
  <2>1. g.sender = s
    BY DEF DirectoryInv
  <2>2. g.envelope.sequence <= sequence[s] /\ g.envelope \in Directory!Envelope
    BY <2>1 DEF DirectoryInv, Directory!TypeOK
  <2>3. WellSealed(g)
    BY DEF DirectoryInv
  <2>4. g.nonce = g.envelope.sequence
    BY <2>3 DEF WellSealed
  <2>5. g.envelope.sequence \in Nat
    BY <2>2 DEF Directory!Envelope
  <2> QED BY <2>1, <2>2, <2>4, <2>5
<1>9. n \notin sealed
  <2> SUFFICES ASSUME n \in sealed PROVE FALSE
    OBVIOUS
  <2>1. n.nonce <= sequence[s]
    BY <1>5, <1>6, <1>8 DEF SameDirection
  <2> QED BY <1>4, <1>6, <2>1
<1>10. /\ IsFiniteSet(sealed') /\ Cardinality(sealed') = Cardinality(sealed) + 1
       /\ \A t \in Directory!Sender : sequence'[t] <= Cardinality(sealed')
  <2>1. IsFiniteSet(sealed') /\ Cardinality(sealed') = Cardinality(sealed) + 1
    BY <1>1, <1>3, <1>9, FS_AddElement
  <2>2. \A t \in Directory!Sender : sequence[t] \in Nat
    BY <1>2
  <2> QED BY <1>3, <1>4, <2>1, <2>2
<1>11. Directory!TypeOK'
  <2>1. \A d \in Directory!Direction :
          drawn[d] \subseteq Epoch /\ \A t \in d : epoch[t] \in drawn[d] \cup {Directory!NoSalt}
    BY DEF DirectoryInv, Directory!TypeOK
  <2>2. ASSUME NEW g \in sealed'
        PROVE  /\ g.sender \in Directory!Sender /\ g.envelope \in Directory!Envelope
               /\ g.envelope.epoch = epoch[g.sender] => g.envelope.sequence <= sequence'[g.sender]
    <3>1. CASE g \in sealed
      <4>1. /\ g.sender \in Directory!Sender /\ g.envelope \in Directory!Envelope
            /\ g.envelope.epoch = epoch[g.sender] => g.envelope.sequence <= sequence[g.sender]
        BY <3>1 DEF DirectoryInv, Directory!TypeOK
      <4>2. g.envelope.sequence \in Nat /\ sequence[g.sender] \in Nat
        BY <1>2, <4>1 DEF Directory!Envelope
      <4>3. sequence'[g.sender] = sequence[g.sender] \/ sequence'[g.sender] = sequence[g.sender] + 1
        BY <1>4, <4>1
      <4> QED BY <4>1, <4>2, <4>3
    <3>2. CASE g = n
      BY <1>4, <1>5, <1>6, <3>2
    <3> QED BY <1>1, <3>1, <3>2
  <2> QED BY <1>1, <1>4, <2>1, <2>2 DEF Directory!TypeOK
<1>12. \A g \in sealed' : WellSealed(g)
  BY <1>1, <1>7 DEF DirectoryInv
<1>13. \A g \in sealed', t \in Directory!Sender :
         SameDirection(g.sender, t) /\ g.envelope.epoch = epoch[t] => t = g.sender
  <2> SUFFICES ASSUME NEW t \in Directory!Sender, SameDirection(s, t), epoch[s] = epoch[t]
               PROVE  t = s
    BY <1>1, <1>5, <1>6 DEF DirectoryInv
  <2> QED BY <1>1 DEF DirectoryInv
<1>14. ASSUME NEW g \in sealed', NEW h \in sealed',
              SameDirection(g.sender, h.sender), g.envelope.epoch = h.envelope.epoch
       PROVE  g.sender = h.sender /\ (g.nonce = h.nonce => g = h)
  <2>1. ASSUME NEW k \in sealed, SameDirection(k.sender, s), k.envelope.epoch = epoch[s]
        PROVE  k.sender = s /\ k.nonce # sequence[s] + 1
    BY <1>4, <1>8, <2>1
  <2>2. CASE g \in sealed /\ h \in sealed
    BY <1>14, <2>2 DEF DirectoryInv
  <2>3. CASE g = n /\ h \in sealed
    BY <1>5, <1>6, <1>14, <2>1, <2>3 DEF SameDirection
  <2>4. CASE g \in sealed /\ h = n
    BY <1>5, <1>6, <1>14, <2>1, <2>4 DEF SameDirection
  <2> QED BY <1>1, <2>2, <2>3, <2>4
<1>15. \A g \in sealed' : WellSealed(g)'
  BY <1>1, <1>12 DEF WellSealed
<1>16. \A t, u \in Directory!Sender :
         SameDirection(t, u) /\ epoch[t] = epoch[u] /\ epoch[t] # Directory!NoSalt => t = u
  BY DEF DirectoryInv
<1>17. epoch' = epoch /\ drawn' = drawn
  BY <1>1
<1> QED BY <1>2, <1>10, <1>11, <1>13, <1>14, <1>15, <1>16, <1>17, Zenon DEF DirectoryInv, SameDirection

LEMMA DirectoryStep == DirectoryInv /\ [Directory!Next]_(Directory!vars) => DirectoryInv'
<1> SUFFICES ASSUME DirectoryInv, [Directory!Next]_(Directory!vars) PROVE DirectoryInv'
  OBVIOUS
<1>1. CASE Directory!Next
  BY <1>1, DirectoryStart, DirectorySeal DEF Directory!Next
<1>2. CASE UNCHANGED Directory!vars
  BY <1>2 DEF Directory!vars, DirectoryInv, Directory!TypeOK, WellSealed, SameDirection
<1> QED BY <1>1, <1>2

-----------------------------------------------------------------------------
(***************************************************************************)
(* Credentials.                                                            *)
(***************************************************************************)
\* A password key by the vector alone.
FreshKey(v) ==
  IF v.kind = "argon2id-v1"
  THEN Credentials!Argon2id(Normalized[v.credential], Credentials!ChannelSalt(v.channel))
  ELSE Credentials!RawSecret(v.credential, Credentials!ChannelSalt(v.channel))

Derivable(v) == v.credential \in (IF v.kind = "argon2id-v1" THEN Password ELSE Secret)

\* Vectors are derived or refused for what they are, and every key is fresh.
CredentialsInv ==
  /\ Credentials!TypeOK
  /\ \A d \in derived : Derivable(d.vector) /\ d.key = FreshKey(d.vector)
  /\ \A v \in failed : ~ Derivable(v)

LEMMA CredentialsStart == Credentials!Init => CredentialsInv
BY DEF Credentials!Init, CredentialsInv, Credentials!TypeOK

LEMMA CredentialsDerive ==
  ASSUME CredentialsInv, NEW v \in Credentials!PasswordVector, Credentials!DeriveArgon2id(v)
  PROVE  CredentialsInv'
<1> DEFINE password == Normalized[v.credential]
           salt == Credentials!ChannelSalt(v.channel)
           hits == Credentials!CacheHits(password, salt)
           fresh == [password |-> password, salt |-> salt, key |-> Credentials!Argon2id(password, salt)]
           entry == IF hits = {} THEN fresh ELSE CHOOSE e \in hits : TRUE
           d == [vector |-> v, key |-> entry.key]
<1>1. /\ v.kind = "argon2id-v1" /\ v.credential \in Password
      /\ cache' = cache \cup {entry} /\ derived' = derived \cup {d} /\ failed' = failed
  BY DEF Credentials!DeriveArgon2id
<1>2. entry.key = Credentials!Argon2id(password, salt) /\ entry.password = password /\ entry.salt = salt
  <2>1. CASE hits = {}
    BY <2>1
  <2>2. CASE hits # {}
    <3>1. entry \in hits
      BY <2>2
    <3>2. entry \in cache /\ entry.password = password /\ entry.salt = salt
      BY <3>1 DEF Credentials!CacheHits
    <3> HIDE DEF entry, password, salt
    <3> QED BY <3>2 DEF CredentialsInv, Credentials!TypeOK
  <2> QED BY <2>1, <2>2
<1>3. d.vector = v /\ d.key = FreshKey(v) /\ Derivable(v)
  BY <1>1, <1>2 DEF FreshKey, Derivable
<1>4. v \notin failed
  BY <1>3 DEF CredentialsInv
<1> HIDE DEF entry, d, fresh, hits
<1>5. \A c \in derived' : Derivable(c.vector) /\ c.key = FreshKey(c.vector)
  BY <1>1, <1>3 DEF CredentialsInv
<1>6. Credentials!TypeOK'
  <2>1. failed \subseteq Credentials!PasswordVector
        /\ \A c \in derived' : c.vector \in Credentials!PasswordVector \ failed
    BY <1>1, <1>3, <1>4 DEF CredentialsInv, Credentials!TypeOK
  <2>2. \A e \in cache' : e.key = Credentials!Argon2id(e.password, e.salt)
    BY <1>1, <1>2 DEF CredentialsInv, Credentials!TypeOK
  <2>3. ASSUME NEW c \in derived', c.vector.kind = "argon2id-v1"
        PROVE  \E e \in cache' : /\ e.password = Normalized[c.vector.credential]
                                 /\ e.salt = Credentials!ChannelSalt(c.vector.channel)
    <3>1. CASE c \in derived
      BY <1>1, <2>3, <3>1 DEF CredentialsInv, Credentials!TypeOK
    <3>2. CASE c = d
      BY <1>1, <1>2, <1>3, <3>2
    <3> QED BY <1>1, <3>1, <3>2
  <2> QED BY <1>1, <2>1, <2>2, <2>3 DEF Credentials!TypeOK
<1> QED BY <1>1, <1>5, <1>6 DEF CredentialsInv

LEMMA CredentialsRaw ==
  ASSUME CredentialsInv, NEW v \in Credentials!PasswordVector, Credentials!DeriveRawSecret(v)
  PROVE  CredentialsInv'
<1> DEFINE d == [vector |-> v, key |-> Credentials!RawSecret(v.credential, Credentials!ChannelSalt(v.channel))]
<1>1. /\ v.kind = "raw-secret-v1" /\ v.credential \in Secret
      /\ derived' = derived \cup {d} /\ failed' = failed /\ cache' = cache
  BY DEF Credentials!DeriveRawSecret
<1>2. d.vector = v /\ d.key = FreshKey(v) /\ Derivable(v) /\ v.kind # "argon2id-v1"
  BY <1>1 DEF FreshKey, Derivable
<1> HIDE DEF d
<1>3. v \notin failed
  BY <1>2 DEF CredentialsInv
<1>4. \A c \in derived' : Derivable(c.vector) /\ c.key = FreshKey(c.vector)
  BY <1>1, <1>2 DEF CredentialsInv
<1>5. Credentials!TypeOK'
  BY <1>1, <1>2, <1>3 DEF CredentialsInv, Credentials!TypeOK
<1> QED BY <1>1, <1>4, <1>5 DEF CredentialsInv

LEMMA CredentialsStep == CredentialsInv /\ [Credentials!Next]_(Credentials!vars) => CredentialsInv'
<1> SUFFICES ASSUME CredentialsInv, [Credentials!Next]_(Credentials!vars) PROVE CredentialsInv'
  OBVIOUS
<1>1. ASSUME NEW v \in Credentials!PasswordVector, Credentials!Refuse(v) PROVE CredentialsInv'
  <2>1. /\ ~ Derivable(v) /\ failed' = failed \cup {v} /\ cache' = cache /\ derived' = derived
    BY <1>1 DEF Credentials!Refuse, Derivable
  <2>2. \A c \in derived : c.vector # v
    BY <2>1 DEF CredentialsInv
  <2>3. Credentials!TypeOK'
    BY <2>1, <2>2 DEF CredentialsInv, Credentials!TypeOK
  <2> QED BY <2>1, <2>3 DEF CredentialsInv
<1>2. CASE UNCHANGED Credentials!vars
  BY <1>2 DEF Credentials!vars, CredentialsInv, Credentials!TypeOK
<1> QED BY <1>1, <1>2, CredentialsDerive, CredentialsRaw DEF Credentials!Next

LEMMA KeysAreFresh == CredentialsInv => Credentials!CacheIsTransparent
BY DEF CredentialsInv, FreshKey, Credentials!CacheIsTransparent

-----------------------------------------------------------------------------
\* The texts that enter a key.
Text ==
  {"", "argon2id", "secret", "epoch", "incomudon-raw-secret-v1",
   "incomudon-session-aesgcm-v2", "incomudon-control-auth-v1",
   "incomudon-directory-channel-v3", "incomudon-directory-envelope-v3",
   "incomudon-directory-channel-v3 client-to-relay", "incomudon-directory-channel-v3 relay-to-client"}
  \cup Channel \cup Secret \cup {Normalized[p] : p \in Password}

Purpose == {"media", "control", "request", "participants"}

PurposeKey(k, p) ==
  CASE p = "media" -> Credentials!MediaKey(k)
    [] p = "control" -> Credentials!ControlKey(k)
    [] OTHER -> Credentials!EpochKey(Credentials!DirectionalKey(Credentials!DirectoryChannelKey(k), p), "epoch")

LEMMA EachPurpose ==
  ASSUME NEW k
  PROVE  Credentials!PurposeKeys(k) = {PurposeKey(k, p) : p \in Purpose}
BY DEF Credentials!PurposeKeys, PurposeKey, Purpose

\* The last derivation of a key for a purpose.
OneStep(p) == p \in {"media", "control"}

SideOf(p) ==
  IF p = "request" THEN "incomudon-directory-channel-v3 client-to-relay"
  ELSE "incomudon-directory-channel-v3 relay-to-client"

InfoOf(p) ==
  CASE p = "media" -> "incomudon-session-aesgcm-v2"
    [] p = "control" -> "incomudon-control-auth-v1"
    [] OTHER -> "incomudon-directory-envelope-v3"

SaltOf(p) == IF OneStep(p) THEN "" ELSE "epoch"

ParentOf(k, p) ==
  IF OneStep(p) THEN k
  ELSE Derived(Derived(k, "", "incomudon-directory-channel-v3"), "", SideOf(p))

LEMMA LastStep ==
  ASSUME NEW k, NEW p \in Purpose
  PROVE  PurposeKey(k, p) = Derived(ParentOf(k, p), SaltOf(p), InfoOf(p))
<1>1. CASE p = "media"
  BY <1>1 DEF PurposeKey, Derived, ParentOf, SaltOf, InfoOf, OneStep, Credentials!MediaKey,
              Credentials!Hkdf, Credentials!NoSalt
<1>2. CASE p = "control"
  BY <1>2 DEF PurposeKey, Derived, ParentOf, SaltOf, InfoOf, OneStep, Credentials!ControlKey,
              Credentials!Hkdf, Credentials!NoSalt
<1>3. CASE p \in {"request", "participants"}
  BY <1>3 DEF PurposeKey, Derived, ParentOf, SaltOf, InfoOf, OneStep, SideOf, Credentials!EpochKey,
              Credentials!DirectionalKey, Credentials!DirectoryChannelKey, Credentials!ClientTypes,
              Credentials!Hkdf, Credentials!NoSalt
<1> QED BY <1>1, <1>2, <1>3 DEF Purpose

LEMMA ParentType ==
  ASSUME NEW k \in Seq(Text), NEW p \in Purpose
  PROVE  /\ SaltOf(p) \in Text /\ InfoOf(p) \in Text /\ ParentOf(k, p) \in Seq(Text)
         /\ SideOf(p) \in Text /\ Derived(k, "", "incomudon-directory-channel-v3") \in Seq(Text)
<1> DEFINE none == ""
           info == "incomudon-directory-channel-v3"
<1>1. SaltOf(p) \in Text /\ InfoOf(p) \in Text /\ SideOf(p) \in Text /\ none \in Text /\ info \in Text
  BY DEF SaltOf, InfoOf, SideOf, Text
<1> HIDE DEF none, info
<1>2. Derived(k, none, info) \in Seq(Text)
  BY <1>1, DerivationType DEF Derived
<1>3. Derived(Derived(k, none, info), none, SideOf(p)) \in Seq(Text)
  BY <1>1, <1>2, DerivationType DEF Derived
<1> QED BY <1>1, <1>2, <1>3 DEF ParentOf, none, info

LEMMA PurposesApart ==
  ASSUME NEW k \in Seq(Text), NEW l \in Seq(Text), NEW p \in Purpose, NEW q \in Purpose,
         PurposeKey(k, p) = PurposeKey(l, q)
  PROVE  k = l /\ p = q
<1>1. ParentOf(k, p) = ParentOf(l, q) /\ InfoOf(p) = InfoOf(q)
  <2>1. Derived(ParentOf(k, p), SaltOf(p), InfoOf(p)) = Derived(ParentOf(l, q), SaltOf(q), InfoOf(q))
    BY LastStep
  <2>2. /\ ParentOf(k, p) \in Seq(Text) /\ SaltOf(p) \in Text /\ InfoOf(p) \in Text
        /\ ParentOf(l, q) \in Seq(Text) /\ SaltOf(q) \in Text /\ InfoOf(q) \in Text
    BY ParentType
  <2> QED BY <2>1, <2>2, LastDerivation
<1>2. OneStep(p) <=> OneStep(q)
  BY <1>1 DEF InfoOf, OneStep, Purpose
<1>3. CASE OneStep(p)
  <2>1. p = q
    BY <1>1, <1>2, <1>3 DEF InfoOf, OneStep
  <2> QED BY <1>1, <1>2, <1>3, <2>1 DEF ParentOf
<1>4. CASE ~ OneStep(p)
  <2> DEFINE none == ""
             info == "incomudon-directory-channel-v3"
  <2>1. none \in Text /\ info \in Text
    BY DEF Text
  <2>2. Derived(Derived(k, none, info), none, SideOf(p)) = Derived(Derived(l, none, info), none, SideOf(q))
    BY <1>1, <1>2, <1>4, Zenon DEF ParentOf
  <2>3. Derived(k, none, info) \in Seq(Text) /\ Derived(l, none, info) \in Seq(Text)
        /\ SideOf(p) \in Text /\ SideOf(q) \in Text
    BY ParentType
  <2> HIDE DEF none, info
  <2>4. Derived(k, none, info) = Derived(l, none, info) /\ SideOf(p) = SideOf(q)
    BY <2>1, <2>2, <2>3, LastDerivation
  <2>5. k = l
    BY <2>1, <2>4, LastDerivation
  <2>6. p = q
    BY <1>2, <1>4, <2>4 DEF SideOf, OneStep, Purpose
  <2> QED BY <2>5, <2>6
<1> QED BY <1>3, <1>4

\* A password key tells its channel.
LEMMA FreshKeyType ==
  ASSUME NEW v \in Credentials!PasswordVector, Derivable(v)
  PROVE  FreshKey(v) \in Seq(Text)
<1>1. v.channel \in Text /\ v.kind \in {"argon2id-v1", "raw-secret-v1"}
  BY DEF Credentials!PasswordVector, Credentials!Kind, Text
<1>2. CASE v.kind = "argon2id-v1"
  <2> DEFINE kdf == "argon2id"
             password == Normalized[v.credential]
  <2>1. kdf \in Text /\ password \in Text
    BY <1>2 DEF Derivable, Text
  <2>2. FreshKey(v) = <<kdf, password, v.channel>>
    BY <1>2 DEF FreshKey, Credentials!Argon2id, Credentials!ChannelSalt
  <2> HIDE DEF kdf, password
  <2> QED BY <1>1, <2>1, <2>2, TripleType
<1>3. CASE v.kind = "raw-secret-v1"
  <2> DEFINE kdf == "secret"
             info == "incomudon-raw-secret-v1"
             pair == <<kdf, v.credential>>
  <2>1. kdf \in Text /\ v.credential \in Text /\ info \in Text
    BY <1>3 DEF Derivable, Text
  <2>2. FreshKey(v) = pair \o <<v.channel, info>>
    BY <1>3 DEF FreshKey, Credentials!RawSecret, Credentials!ChannelSalt, Credentials!Hkdf
  <2> HIDE DEF kdf, info
  <2>3. pair \in Seq(Text)
    BY <2>1
  <2> HIDE DEF pair
  <2> QED BY <1>1, <2>1, <2>2, <2>3, DerivationType
<1> QED BY <1>1, <1>2, <1>3

LEMMA ChannelOfKey ==
  ASSUME NEW v \in Credentials!PasswordVector, Derivable(v)
  PROVE  FreshKey(v)[3] = v.channel
<1>1. v.kind \in {"argon2id-v1", "raw-secret-v1"}
  BY DEF Credentials!PasswordVector, Credentials!Kind
<1>2. CASE v.kind = "argon2id-v1"
  BY <1>2 DEF FreshKey, Credentials!Argon2id, Credentials!ChannelSalt
<1>3. CASE v.kind = "raw-secret-v1"
  <2> DEFINE info == "incomudon-raw-secret-v1"
             kdf == "secret"
             pair == <<kdf, v.credential>>
  <2>1. FreshKey(v) = pair \o <<v.channel, info>>
    BY <1>3 DEF FreshKey, Credentials!RawSecret, Credentials!ChannelSalt, Credentials!Hkdf
  <2> HIDE DEF kdf, info
  <2>2. (pair \o <<v.channel, info>>)[3] = v.channel
    OBVIOUS
  <2> QED BY <2>1, <2>2
<1> QED BY <1>1, <1>2, <1>3

LEMMA FourOf ==
  ASSUME NEW a, NEW b, NEW c, NEW d, a \notin {b, c, d}, b \notin {c, d}, c # d
  PROVE  Cardinality({a, b, c, d}) = 4
<1>1. IsFiniteSet({d}) /\ Cardinality({d}) = 1
  BY FS_Singleton
<1>2. IsFiniteSet({c, d}) /\ Cardinality({c, d}) = 2
  <2>1. {d} \cup {c} = {c, d} /\ c \notin {d}
    OBVIOUS
  <2> QED BY <1>1, <2>1, FS_AddElement
<1>3. IsFiniteSet({b, c, d}) /\ Cardinality({b, c, d}) = 3
  <2>1. {c, d} \cup {b} = {b, c, d}
    OBVIOUS
  <2> QED BY <1>2, <2>1, FS_AddElement
<1>4. {b, c, d} \cup {a} = {a, b, c, d}
  OBVIOUS
<1> QED BY <1>3, <1>4, FS_AddElement

LEMMA KeysApart == CredentialsInv => Credentials!KeysSeparate
<1> SUFFICES ASSUME CredentialsInv, NEW d \in derived, NEW e \in derived
             PROVE  /\ d.vector.channel # e.vector.channel =>
                         Credentials!PurposeKeys(d.key) \cap Credentials!PurposeKeys(e.key) = {}
                    /\ Credentials!Cardinality(Credentials!PurposeKeys(d.key)) = 4
  BY DEF Credentials!KeysSeparate
<1>1. ASSUME NEW c \in derived
      PROVE  c.key \in Seq(Text) /\ c.key[3] = c.vector.channel
  <2>1. c.vector \in Credentials!PasswordVector /\ Derivable(c.vector) /\ c.key = FreshKey(c.vector)
    BY DEF CredentialsInv, Credentials!TypeOK
  <2> QED BY <2>1, FreshKeyType, ChannelOfKey
<1>2. ASSUME NEW key \in Credentials!PurposeKeys(d.key), key \in Credentials!PurposeKeys(e.key)
      PROVE  d.vector.channel = e.vector.channel
  <2>1. PICK p \in Purpose : key = PurposeKey(d.key, p)
    BY EachPurpose
  <2>2. PICK q \in Purpose : key = PurposeKey(e.key, q)
    BY <1>2, EachPurpose
  <2>3. d.key = e.key
    <3>1. d.key \in Seq(Text) /\ e.key \in Seq(Text) /\ PurposeKey(d.key, p) = PurposeKey(e.key, q)
      BY <1>1, <2>1, <2>2
    <3> QED BY <3>1, PurposesApart
  <2> QED BY <1>1, <2>3
<1>3. Credentials!Cardinality(Credentials!PurposeKeys(d.key)) = 4
  <2> DEFINE K(p) == PurposeKey(d.key, p)
  <2>1. \A p, q \in Purpose : K(p) = K(q) => p = q
    BY <1>1, PurposesApart
  <2>2. Credentials!PurposeKeys(d.key) = {K("media"), K("control"), K("request"), K("participants")}
    BY EachPurpose DEF Purpose
  <2> HIDE DEF K
  <2>3. /\ K("media") \notin {K("control"), K("request"), K("participants")}
        /\ K("control") \notin {K("request"), K("participants")}
        /\ K("request") # K("participants")
    BY <2>1 DEF Purpose
  <2>4. Cardinality(Credentials!PurposeKeys(d.key)) = 4
    <3> DEFINE m == K("media")
               c == K("control")
               r == K("request")
               a == K("participants")
    <3>1. /\ m \notin {c, r, a} /\ c \notin {r, a} /\ r # a
          /\ Credentials!PurposeKeys(d.key) = {m, c, r, a}
      BY <2>2, <2>3
    <3> HIDE DEF m, c, r, a
    <3>2. m \notin {c, r, a} /\ c \notin {r, a} /\ r # a
      BY <3>1
    <3>3. Cardinality({m, c, r, a}) = 4
      BY <3>2, FourOf, Zenon
    <3> QED BY <3>1, <3>3, Zenon
  <2> QED BY <2>4 DEF Credentials!Cardinality, Cardinality
<1> QED BY <1>2, <1>3

-----------------------------------------------------------------------------
(***************************************************************************)
(* Targets.                                                                *)
(***************************************************************************)
\* What is reported of a target, by the target and the usable files alone.
Judged(loadable, t) ==
  IF ~ ({t.vector, t.schema} \subseteq loadable /\ Targets!Selects(t)) THEN {0}
  ELSE {k \in Targets!Decoded(t) : t.items[k] # t.expected}
       \cup (IF Targets!Decoded(t) = DOMAIN t.items THEN {} ELSE {0})

ItemReport(i, k) == [target |-> i, item |-> k]
SchemaReport(s) == [schema |-> s]

\* The reports are those of the targets, each by itself, and of missing schemas.
TargetsInv ==
  /\ Targets!TypeOK
  /\ targets \in Seq(Targets!Target)
  /\ \A i \in DOMAIN targets : \A k \in Judged(usable, targets[i]) : ItemReport(i, k) \in reports
  /\ \A e \in reports :
       \/ \E i \in DOMAIN targets : \E k \in Judged(usable, targets[i]) : e = ItemReport(i, k)
       \/ done /\ \E s \in Schema : e = SchemaReport(s)
  /\ done => \A s \in Schema \ declared : SchemaReport(s) \in reports

LEMMA ReportFields ==
  /\ \A i, k : DOMAIN ItemReport(i, k) = {"target", "item"}
               /\ ItemReport(i, k).target = i /\ ItemReport(i, k).item = k
  /\ \A s : DOMAIN SchemaReport(s) = {"schema"}
BY DEF ItemReport, SchemaReport

LEMMA TargetFields ==
  ASSUME NEW t \in Targets!Target
  PROVE  /\ t.expected \in {"valid", "invalid"}
         /\ \E n \in Nat : DOMAIN t.items = 1 .. n
<1>1. MaxItems \in Nat
  BY FilesAssumption
<1>2. CASE t.each
  <2>1. t.items \in UNION {[1 .. n -> Targets!Item] : n \in 0 .. MaxItems} /\ t.expected \in {"valid", "invalid"}
    BY <1>2 DEF Targets!Target
  <2>2. PICK n \in 0 .. MaxItems : t.items \in [1 .. n -> Targets!Item]
    BY <2>1
  <2> QED BY <1>1, <2>1, <2>2
<1>3. CASE ~ t.each
  <2>1. t.items \in [{1} -> Targets!Item] /\ t.expected \in {"valid", "invalid"}
    BY <1>3 DEF Targets!Target
  <2>2. {1} = 1 .. 1
    OBVIOUS
  <2> QED BY <2>1, <2>2
<1> QED BY <1>2, <1>3

\* A target has no report exactly when it is right.
LEMMA JudgedRight ==
  ASSUME NEW t \in Targets!Target
  PROVE  Judged(usable, t) = {} <=> Targets!Right(t)
<1>1. PICK n \in Nat : DOMAIN t.items = 1 .. n
  BY TargetFields
<1>2. t.expected \in {"valid", "invalid"}
  BY TargetFields
<1>3. ASSUME Targets!Right(t) PROVE Judged(usable, t) = {}
  <2>1. /\ {t.vector, t.schema} \subseteq usable
        /\ t.each => t.array
        /\ \A k \in DOMAIN t.items : t.items[k] = t.expected
    BY <1>3 DEF Targets!Right
  <2>2. Targets!Selects(t)
    <3>1. \A k \in DOMAIN t.items : t.items[k] # "unreachable"
      BY <1>2, <2>1
    <3> QED BY <2>1, <3>1, Zenon DEF Targets!Selects
  <2>3. Targets!Decoded(t) = DOMAIN t.items
    <3>1. \A k \in 1 .. n : \A j \in 1 .. k : j \in 1 .. n
      OBVIOUS
    <3> QED BY <1>1, <1>2, <2>1, <3>1 DEF Targets!Decoded
  <2>4. {k \in Targets!Decoded(t) : t.items[k] # t.expected} = {}
    BY <2>1, <2>3
  <2> QED BY <2>1, <2>2, <2>3, <2>4, Zenon DEF Judged
<1>4. ASSUME Judged(usable, t) = {} PROVE Targets!Right(t)
  <2>1. {t.vector, t.schema} \subseteq usable /\ Targets!Selects(t)
    BY <1>4 DEF Judged
  <2>2. /\ {k \in Targets!Decoded(t) : t.items[k] # t.expected} = {}
        /\ Targets!Decoded(t) = DOMAIN t.items
    BY <1>4, <2>1 DEF Judged
  <2>3. \A k \in DOMAIN t.items : t.items[k] = t.expected
    BY <2>2
  <2> QED BY <2>1, <2>3 DEF Targets!Selects, Targets!Right
<1> QED BY <1>3, <1>4

LEMMA TargetsStart == Targets!Init => TargetsInv
<1> SUFFICES ASSUME Targets!Init PROVE TargetsInv
  OBVIOUS
<1>1. targets = <<>> /\ cached = {} /\ declared = {} /\ reports = {} /\ done = FALSE
  BY DEF Targets!Init
<1>2. DOMAIN targets = {} /\ targets \in Seq(Targets!Target)
  BY <1>1
<1>3. Targets!TypeOK
  BY <1>1, <1>2 DEF Targets!TypeOK
<1> QED BY <1>1, <1>2, <1>3 DEF TargetsInv

LEMMA TargetsFinish ==
  ASSUME TargetsInv, Targets!Finish
  PROVE  TargetsInv'
<1>1. /\ ~ done /\ done' = TRUE
      /\ reports' = reports \cup {SchemaReport(s) : s \in Schema \ declared}
      /\ usable' = usable /\ targets' = targets /\ cached' = cached /\ declared' = declared
  BY DEF Targets!Finish, Targets!Missing, SchemaReport
<1>2. Targets!TypeOK'
  BY <1>1 DEF TargetsInv, Targets!TypeOK
<1>3. \A i \in DOMAIN targets : \A k \in Judged(usable, targets[i]) : ItemReport(i, k) \in reports'
  BY <1>1 DEF TargetsInv
<1>4. \A e \in reports' :
        \/ \E i \in DOMAIN targets : \E k \in Judged(usable, targets[i]) : e = ItemReport(i, k)
        \/ \E s \in Schema : e = SchemaReport(s)
  BY <1>1 DEF TargetsInv
<1>5. \A s \in Schema \ declared : SchemaReport(s) \in reports'
  BY <1>1
<1>6. targets \in Seq(Targets!Target)
  BY DEF TargetsInv
<1> QED BY <1>1, <1>2, <1>3, <1>4, <1>5, <1>6 DEF TargetsInv

LEMMA ReportsAreJudged ==
  ASSUME TargetsInv, NEW t \in Targets!Target
  PROVE  Targets!Reports(t) = Judged(usable, t)
<1>1. Targets!Loaded(t) <=> {t.vector, t.schema} \subseteq usable
  BY DEF TargetsInv, Targets!TypeOK, Targets!Loaded
<1> QED BY <1>1 DEF Targets!Reports, Judged

LEMMA TargetsValidate ==
  ASSUME TargetsInv, NEW t \in Targets!Target, Targets!Validate(t)
  PROVE  TargetsInv'
<1> DEFINE n == Len(targets) + 1
<1>1. /\ ~ done /\ targets' = Append(targets, t) /\ declared' = declared \cup {t.schema}
      /\ cached' = cached \cup Targets!Remembered(t) /\ usable' = usable /\ done' = done
      /\ reports' = reports \cup {[target |-> Len(targets'), item |-> k] : k \in Targets!Reports(t)}
  BY DEF Targets!Validate
<1>2. targets \in Seq(Targets!Target) /\ Len(targets) \in Nat
  BY DEF TargetsInv
<1>3. /\ targets' \in Seq(Targets!Target) /\ Len(targets') = n
      /\ DOMAIN targets' = DOMAIN targets \cup {n} /\ n \notin DOMAIN targets
      /\ targets'[n] = t /\ \A i \in DOMAIN targets : targets'[i] = targets[i]
  BY <1>1, <1>2
<1>4. reports' = reports \cup {ItemReport(n, k) : k \in Judged(usable, t)}
  BY <1>1, <1>3, ReportsAreJudged DEF ItemReport
<1> HIDE DEF n
<1>5. Targets!TypeOK'
  <2>1. cached' \subseteq usable
    BY <1>1 DEF TargetsInv, Targets!TypeOK, Targets!Remembered
  <2>2. declared' = {targets'[i].schema : i \in DOMAIN targets'}
    BY <1>1, <1>3 DEF TargetsInv, Targets!TypeOK
  <2>3. cached' \subseteq UNION {{targets'[i].vector, targets'[i].schema} : i \in DOMAIN targets'}
    <3>1. ASSUME NEW f \in cached' PROVE \E i \in DOMAIN targets' : f \in {targets'[i].vector, targets'[i].schema}
      <4>1. CASE f \in cached
        <5>1. PICK i \in DOMAIN targets : f \in {targets[i].vector, targets[i].schema}
          BY <4>1 DEF TargetsInv, Targets!TypeOK
        <5> QED BY <1>3, <5>1
      <4>2. CASE f \in Targets!Remembered(t)
        <5>1. f \in {t.vector, t.schema}
          BY <4>2 DEF Targets!Remembered, Targets!Wanted
        <5> QED BY <1>3, <5>1
      <4> QED BY <1>1, <3>1, <4>1, <4>2
    <3> QED BY <3>1
  <2>4. \A e \in reports' : "schema" \notin DOMAIN e
    BY <1>1, <1>4, ReportFields DEF TargetsInv, Targets!TypeOK
  <2> QED BY <1>1, <2>1, <2>2, <2>3, <2>4 DEF Targets!TypeOK
<1>6. \A i \in DOMAIN targets' : \A k \in Judged(usable, targets'[i]) : ItemReport(i, k) \in reports'
  BY <1>3, <1>4 DEF TargetsInv
<1>7. ASSUME NEW e \in reports'
      PROVE  \E i \in DOMAIN targets' : \E k \in Judged(usable, targets'[i]) : e = ItemReport(i, k)
  <2>1. CASE e \in reports
    <3>1. PICK i \in DOMAIN targets : \E k \in Judged(usable, targets[i]) : e = ItemReport(i, k)
      BY <1>1, <2>1 DEF TargetsInv
    <3> QED BY <1>3, <3>1
  <2>2. CASE \E k \in Judged(usable, t) : e = ItemReport(n, k)
    BY <1>3, <2>2
  <2> QED BY <1>4, <2>1, <2>2
<1> QED BY <1>1, <1>3, <1>5, <1>6, <1>7 DEF TargetsInv

LEMMA TargetsStep == TargetsInv /\ [Targets!Next]_(Targets!vars) => TargetsInv'
<1> SUFFICES ASSUME TargetsInv, [Targets!Next]_(Targets!vars) PROVE TargetsInv'
  OBVIOUS
<1>1. CASE UNCHANGED Targets!vars
  BY <1>1 DEF Targets!vars, TargetsInv, Targets!TypeOK
<1> QED BY <1>1, TargetsFinish, TargetsValidate DEF Targets!Next

LEMMA ReportsOfTarget ==
  ASSUME TargetsInv, NEW i \in DOMAIN targets
  PROVE  Targets!ReportsOf(i) = {ItemReport(i, k) : k \in Judged(usable, targets[i])}
<1>1. \A k \in Judged(usable, targets[i]) : ItemReport(i, k) \in Targets!ReportsOf(i)
  BY ReportFields DEF TargetsInv, Targets!ReportsOf
<1>2. ASSUME NEW e \in Targets!ReportsOf(i)
      PROVE  \E k \in Judged(usable, targets[i]) : e = ItemReport(i, k)
  <2>1. e \in reports /\ "target" \in DOMAIN e /\ e.target = i
    BY DEF Targets!ReportsOf
  <2>2. \A s : e # SchemaReport(s)
    BY <2>1, ReportFields
  <2>3. PICK j \in DOMAIN targets : \E k \in Judged(usable, targets[j]) : e = ItemReport(j, k)
    BY <2>1, <2>2 DEF TargetsInv
  <2>4. j = i
    BY <2>1, <2>3, ReportFields
  <2> QED BY <2>3, <2>4
<1> QED BY <1>1, <1>2

\* A target is reported exactly when it is wrong, and names the item.
LEMMA TargetsReported == TargetsInv => Targets!ReportedIfWrong
<1> SUFFICES ASSUME TargetsInv, NEW i \in DOMAIN targets
             PROVE  /\ Targets!ReportsOf(i) = {} <=> Targets!Right(targets[i])
                    /\ \A k \in DOMAIN targets[i].items :
                         targets[i].items[k] \in {"valid", "invalid"} \ {targets[i].expected} =>
                           \E e \in Targets!ReportsOf(i) : e.item \in {0, k}
  BY DEF Targets!ReportedIfWrong
<1> DEFINE t == targets[i]
<1>1. t \in Targets!Target
  BY DEF TargetsInv
<1>2. Targets!ReportsOf(i) = {ItemReport(i, k) : k \in Judged(usable, t)}
  BY ReportsOfTarget
<1>3. Targets!ReportsOf(i) = {} <=> Targets!Right(t)
  <2>1. Targets!ReportsOf(i) = {} <=> Judged(usable, t) = {}
    BY <1>2
  <2> HIDE DEF t
  <2> QED BY <1>1, <2>1, JudgedRight
<1>4. ASSUME NEW k \in DOMAIN t.items, t.items[k] \in {"valid", "invalid"} \ {t.expected}
      PROVE  \E e \in Targets!ReportsOf(i) : e.item \in {0, k}
  <2>1. 0 \in Judged(usable, t) \/ k \in Judged(usable, t)
    <3>1. CASE k \in Targets!Decoded(t)
      BY <1>4, <3>1 DEF Judged
    <3>2. CASE k \notin Targets!Decoded(t)
      BY <1>4, <3>2 DEF Judged
    <3> QED BY <3>1, <3>2
  <2> QED BY <1>2, <2>1, ReportFields
<1> QED BY <1>3, <1>4

LEMMA TargetsSilence == TargetsInv => Targets!SilenceCoversSchemas
<1> SUFFICES ASSUME TargetsInv, done, reports = {}, NEW s \in Schema
             PROVE  s \in usable /\ \E i \in DOMAIN targets : targets[i].schema = s /\ Targets!Right(targets[i])
  BY DEF Targets!SilenceCoversSchemas
<1>1. s \in declared
  BY DEF TargetsInv
<1>2. PICK i \in DOMAIN targets : targets[i].schema = s
  BY <1>1 DEF TargetsInv, Targets!TypeOK
<1>3. targets[i] \in Targets!Target
  BY DEF TargetsInv
<1>4. Judged(usable, targets[i]) = {}
  BY DEF TargetsInv
<1>5. Targets!Right(targets[i])
  BY <1>3, <1>4, JudgedRight
<1> QED BY <1>2, <1>5 DEF Targets!Right

-----------------------------------------------------------------------------
(***************************************************************************)
(* Induction and recursion.  Sets and functions are in the place of the    *)
(* predicates and operators that induction theorems are usually about.     *)
(***************************************************************************)
\* Every set of natural numbers has a least element.
LEMMA LeastNat ==
  ASSUME NEW T, T \subseteq Nat, T # {}
  PROVE  \E n \in T : \A m \in T : n <= m
<1> DEFINE R == OpToRel(<, Nat)
<1>1. PICK n \in T : \A m \in T : ~ (<<m, n>> \in R)
  BY NatLessThanWellFounded, WFMin
<1>2. ASSUME NEW m \in T PROVE n <= m
  <2>1. m \in Nat /\ n \in Nat
    OBVIOUS
  <2>2. m < n => <<m, n>> \in R
    BY <2>1 DEF OpToRel
  <2>3. ~ (m < n)
    BY <1>1, <2>2, Zenon
  <2> QED BY <2>1, <2>3
<1> QED BY <1>2

LEMMA EveryNat ==
  ASSUME NEW T, \A n \in Nat : 0 .. n - 1 \subseteq T => n \in T
  PROVE  Nat \subseteq T
<1> SUFFICES ASSUME NEW k \in Nat, k \notin T PROVE FALSE
  OBVIOUS
<1>1. PICK n \in Nat \ T : \A m \in Nat \ T : n <= m
  BY LeastNat
<1>2. 0 .. n - 1 \subseteq T
  BY <1>1
<1> QED BY <1>1, <1>2

\* The instances count as the library does.
LEMMA BlocksCount ==
  ASSUME NEW S
  PROVE  Blocks!Cardinality(S) = Cardinality(S)
  BY DEF Blocks!Cardinality, Cardinality

LEMMA EverySubset ==
  ASSUME NEW S, IsFiniteSet(S), NEW T, {} \in T,
         \A s \in SUBSET S : \A x \in S \ s : s \in T => s \cup {x} \in T
  PROVE  SUBSET S \subseteq T
<1> DEFINE Sized == {n \in Nat : \A s \in SUBSET S : Cardinality(s) = n => s \in T}
<1>1. \A s \in SUBSET S : IsFiniteSet(s) /\ Cardinality(s) \in Nat
  BY FS_Subset, FS_CardinalityType
<1>2. ASSUME NEW n \in Nat, 0 .. n - 1 \subseteq Sized PROVE n \in Sized
  <2> SUFFICES ASSUME NEW s \in SUBSET S, Cardinality(s) = n PROVE s \in T
    OBVIOUS
  <2>1. CASE s = {}
    BY <2>1
  <2>2. CASE s # {}
    <3>1. PICK x \in s : TRUE
      BY <2>2
    <3>2. IsFiniteSet(s \ {x}) /\ Cardinality(s \ {x}) = n - 1
      BY <1>1, <3>1, FS_RemoveElement
    <3>3. n - 1 \in 0 .. n - 1 /\ s \ {x} \in SUBSET S
      BY <1>1, <3>2
    <3>4. s \ {x} \in T
      BY <1>2, <3>2, <3>3
    <3>5. s = (s \ {x}) \cup {x} /\ x \in S \ (s \ {x})
      BY <3>1
    <3> QED BY <3>3, <3>4, <3>5
  <2> QED BY <2>1, <2>2
<1>3. Nat \subseteq Sized
  <2> HIDE DEF Sized
  <2> QED BY <1>2, EveryNat
<1> QED BY <1>1, <1>3

\* A function is defined by what it is at n in terms of what it is below n.
Recurs(f, h) == \A n \in Nat : f[n] = h[n][[m \in 0 .. n - 1 |-> f[m]]]

LEMMA Recursion ==
  ASSUME NEW V, NEW h, \A n \in Nat : \A g \in [0 .. n - 1 -> V] : h[n][g] \in V
  PROVE  \E f \in [Nat -> V] : Recurs(f, h)
<1> DEFINE Fits(g, n) == \A k \in 0 .. n - 1 : g[k] = h[k][[m \in 0 .. k - 1 |-> g[m]]]
           Reached == {n \in Nat : \E g \in [0 .. n - 1 -> V] : Fits(g, n)}
           Agreed == {k \in Nat : \A m, n \in Nat : \A f \in [0 .. m - 1 -> V], g \in [0 .. n - 1 -> V] :
                        k < m /\ k < n /\ Fits(f, m) /\ Fits(g, n) => f[k] = g[k]}
<1>1. ASSUME NEW n \in Nat, 0 .. n - 1 \subseteq Reached PROVE n \in Reached
  <2>1. CASE n = 0
    <3> DEFINE g == [k \in 0 .. n - 1 |-> CHOOSE v \in V : TRUE]
    <3>1. 0 .. n - 1 = {}
      BY <2>1
    <3>2. g \in [0 .. n - 1 -> V] /\ Fits(g, n)
      BY <3>1
    <3> QED BY <3>2
  <2>2. CASE n # 0
    <3> DEFINE p == n - 1
    <3>0. p \in Nat /\ p \in 0 .. n - 1 /\ 0 .. n - 1 = 0 .. p - 1 \cup {p} /\ p \notin 0 .. p - 1
      BY <2>2
    <3>1. PICK f \in [0 .. p - 1 -> V] : Fits(f, p)
      BY <1>1, <3>0
    <3> HIDE DEF p
    <3> DEFINE g == [k \in 0 .. n - 1 |-> IF k = p THEN h[p][f] ELSE f[k]]
    <3>2. g \in [0 .. n - 1 -> V]
      BY <3>0, <3>1
    <3>3. ASSUME NEW k \in 0 .. n - 1 PROVE g[k] = h[k][[m \in 0 .. k - 1 |-> g[m]]]
      <4>1. \A m \in 0 .. k - 1 : m \in 0 .. n - 1 /\ m # p /\ g[m] = f[m] /\ m \in 0 .. p - 1
        BY <3>0
      <4>2. CASE k = p
        <5>1. [m \in 0 .. k - 1 |-> g[m]] = f
          BY <4>1, <4>2, <3>1
        <5> QED BY <3>0, <4>2, <5>1
      <4>3. CASE k # p
        <5>1. [m \in 0 .. k - 1 |-> g[m]] = [m \in 0 .. k - 1 |-> f[m]]
          BY <4>1
        <5>2. k \in 0 .. p - 1 /\ g[k] = f[k]
          BY <3>0, <4>3
        <5>3. f[k] = h[k][[m \in 0 .. k - 1 |-> f[m]]]
          BY <3>1, <5>2
        <5> QED BY <5>1, <5>2, <5>3
      <4> QED BY <4>2, <4>3
    <3>4. Fits(g, n)
      BY <3>3
    <3> HIDE DEF g, Fits
    <3> QED BY <3>2, <3>4
  <2> QED BY <2>1, <2>2
<1>2. Nat \subseteq Reached
  <2> HIDE DEF Reached
  <2> QED BY <1>1, EveryNat
<1>3. ASSUME NEW k \in Nat, 0 .. k - 1 \subseteq Agreed PROVE k \in Agreed
  <2> SUFFICES ASSUME NEW m \in Nat, NEW n \in Nat, NEW f \in [0 .. m - 1 -> V], NEW g \in [0 .. n - 1 -> V],
                      k < m, k < n, Fits(f, m), Fits(g, n)
               PROVE  f[k] = g[k]
    OBVIOUS
  <2>1. \A i \in 0 .. k - 1 : f[i] = g[i]
    <3> SUFFICES ASSUME NEW i \in 0 .. k - 1 PROVE f[i] = g[i]
      OBVIOUS
    <3>1. i < m /\ i < n
      OBVIOUS
    <3>2. i \in Agreed
      <4> HIDE DEF Agreed
      <4> QED BY <1>3
    <3> HIDE DEF Fits
    <3> QED BY <3>1, <3>2
  <2>2. [i \in 0 .. k - 1 |-> f[i]] = [i \in 0 .. k - 1 |-> g[i]]
    BY <2>1
  <2>3. k \in 0 .. m - 1 /\ k \in 0 .. n - 1
    OBVIOUS
  <2> QED BY <2>2, <2>3
<1>4. Nat \subseteq Agreed
  <2> HIDE DEF Agreed
  <2> QED BY <1>3, EveryNat
<1> DEFINE G(n) == CHOOSE g \in [0 .. n - 1 -> V] : Fits(g, n)
           f == [n \in Nat |-> G(n + 1)[n]]
<1>5. \A n \in Nat : G(n) \in [0 .. n - 1 -> V] /\ Fits(G(n), n)
  <2> SUFFICES ASSUME NEW n \in Nat PROVE G(n) \in [0 .. n - 1 -> V] /\ Fits(G(n), n)
    OBVIOUS
  <2>1. PICK g \in [0 .. n - 1 -> V] : Fits(g, n)
    BY <1>2
  <2> HIDE DEF Fits
  <2> QED BY <2>1
<1>6. \A n \in Nat : f[n] \in V /\ f[n] = G(n + 1)[n]
  <2> SUFFICES ASSUME NEW n \in Nat PROVE f[n] \in V /\ f[n] = G(n + 1)[n]
    OBVIOUS
  <2>1. n + 1 \in Nat /\ n \in 0 .. (n + 1) - 1
    OBVIOUS
  <2>2. G(n + 1) \in [0 .. (n + 1) - 1 -> V]
    BY <1>5, <2>1
  <2> HIDE DEF G
  <2> QED BY <2>1, <2>2
<1>7. ASSUME NEW n \in Nat PROVE f[n] = h[n][[m \in 0 .. n - 1 |-> f[m]]]
  <2>1. n + 1 \in Nat /\ n \in 0 .. (n + 1) - 1
    OBVIOUS
  <2>2. G(n + 1)[n] = h[n][[m \in 0 .. n - 1 |-> G(n + 1)[m]]]
    <3>1. Fits(G(n + 1), n + 1)
      BY <1>5, <2>1
    <3> HIDE DEF G
    <3> QED BY <2>1, <3>1
  <2>3. \A m \in 0 .. n - 1 : G(n + 1)[m] = f[m]
    <3> SUFFICES ASSUME NEW m \in 0 .. n - 1 PROVE G(n + 1)[m] = f[m]
      OBVIOUS
    <3>1. m \in Nat /\ m + 1 \in Nat /\ m < m + 1 /\ m < n + 1
      OBVIOUS
    <3>2. G(n + 1)[m] = G(m + 1)[m]
      <4>1. m \in Agreed
        BY <1>4, <3>1
      <4>2. G(n + 1) \in [0 .. (n + 1) - 1 -> V] /\ Fits(G(n + 1), n + 1)
        BY <1>5, <2>1
      <4>3. G(m + 1) \in [0 .. (m + 1) - 1 -> V] /\ Fits(G(m + 1), m + 1)
        BY <1>5, <3>1
      <4> HIDE DEF G, Fits
      <4> QED BY <2>1, <3>1, <4>1, <4>2, <4>3
    <3> QED BY <1>6, <3>1, <3>2
  <2> HIDE DEF G
  <2>4. [m \in 0 .. n - 1 |-> G(n + 1)[m]] = [m \in 0 .. n - 1 |-> f[m]]
    BY <2>3
  <2> HIDE DEF f
  <2> QED BY <1>6, <2>2, <2>4
<1> QED
  <2>1. f \in [Nat -> V]
    BY <1>6
  <2> HIDE DEF f
  <2> QED BY <1>7, <2>1 DEF Recurs

-----------------------------------------------------------------------------
(***************************************************************************)
(* Folds.                                                                  *)
(***************************************************************************)
\* f takes out one element of a set after the other, as pick says.
TakesOut(f, S, start, pick, h) ==
  \A s \in SUBSET S : f[s] = IF s = {} THEN start ELSE h[pick[s]][f[s \ {pick[s]}]]

LEMMA FoldExists ==
  ASSUME NEW S, IsFiniteSet(S), NEW V, NEW start \in V,
         NEW pick, \A s \in SUBSET S : s # {} => pick[s] \in s,
         NEW h \in [S -> [V -> V]]
  PROVE  \E f \in [SUBSET S -> V] : TakesOut(f, S, start, pick, h)
<1> DEFINE Value(f, s) == IF s = {} THEN start ELSE h[pick[s]][f[s \ {pick[s]}]]
           Small(n) == {s \in SUBSET S : Cardinality(s) <= n}
           Fits(f, n) == \A s \in Small(n) : f[s] = Value(f, s)
           Reached == {n \in Nat : \E f \in [SUBSET S -> V] : Fits(f, n)}
<1>1. \A s \in SUBSET S : IsFiniteSet(s) /\ Cardinality(s) \in Nat /\ (Cardinality(s) = 0 <=> s = {})
  BY FS_Subset, FS_CardinalityType, FS_EmptySet
<1>2. ASSUME NEW s \in SUBSET S, s # {}
      PROVE  s \ {pick[s]} \in SUBSET S /\ Cardinality(s \ {pick[s]}) = Cardinality(s) - 1 /\ pick[s] \in S
  BY <1>1, <1>2, FS_RemoveElement
<1>3. ASSUME NEW f \in [SUBSET S -> V], NEW s \in SUBSET S PROVE Value(f, s) \in V
  BY <1>2
<1>4. ASSUME NEW n \in Nat, 0 .. n - 1 \subseteq Reached PROVE n \in Reached
  <2>1. CASE n = 0
    <3> DEFINE f == [s \in SUBSET S |-> start]
    <3>1. \A s \in Small(n) : s = {}
      BY <1>1, <2>1
    <3>2. f \in [SUBSET S -> V] /\ Fits(f, n)
      BY <3>1
    <3> QED BY <3>2
  <2>2. CASE n # 0
    <3>1. n - 1 \in 0 .. n - 1 /\ n - 1 \in Nat
      BY <2>2
    <3>2. PICK f \in [SUBSET S -> V] : Fits(f, n - 1)
      BY <1>4, <3>1
    <3> DEFINE g == [s \in SUBSET S |-> IF s \in Small(n - 1) THEN f[s] ELSE Value(f, s)]
    <3>3. g \in [SUBSET S -> V]
      BY <1>3, <3>2
    <3>4. ASSUME NEW s \in Small(n) PROVE g[s] = Value(g, s)
      <4>1. CASE s = {}
        BY <1>1, <3>1, <3>2, <4>1
      <4>2. CASE s # {}
        <5>1. s \ {pick[s]} \in Small(n - 1)
          BY <1>1, <1>2, <3>1, <4>2
        <5>2. g[s \ {pick[s]}] = f[s \ {pick[s]}]
          BY <5>1
        <5>3. Value(g, s) = Value(f, s)
          BY <5>2, Zenon
        <5>4. s \in Small(n - 1) => f[s] = Value(f, s)
          BY <3>2
        <5>5. g[s] = IF s \in Small(n - 1) THEN f[s] ELSE Value(f, s)
          OBVIOUS
        <5> HIDE DEF g, Value, Small
        <5> QED BY <5>3, <5>4, <5>5
      <4> QED BY <4>1, <4>2, Zenon
    <3>5. Fits(g, n)
      BY <3>4, Zenon
    <3> HIDE DEF g, Fits
    <3> QED BY <3>3, <3>5
  <2> QED BY <2>1, <2>2
<1>5. Nat \subseteq Reached
  <2> HIDE DEF Reached
  <2> QED BY <1>4, EveryNat
<1>6. Cardinality(S) \in Nat /\ \A s \in SUBSET S : Cardinality(s) <= Cardinality(S)
  BY FS_CardinalityType, FS_Subset
<1>7. PICK f \in [SUBSET S -> V] : Fits(f, Cardinality(S))
  BY <1>5, <1>6
<1>8. \A s \in SUBSET S : s \in Small(Cardinality(S))
  BY <1>6
<1> QED BY <1>7, <1>8 DEF TakesOut

\* f folds h over the subsets of S as long as it stays in V.
FoldsIn(f, S, V, start, pick, h) ==
  /\ f = [s \in SUBSET S |-> f[s]] /\ f[{}] = start
  /\ \A s \in SUBSET S : s # {} => pick[s] \in s
  /\ \A s \in SUBSET S : s # {} /\ f[s \ {pick[s]}] \in V => f[s] = h[pick[s]][f[s \ {pick[s]}]]

\* What a fold is made of, once each step is known to stay in V.
LEMMA FoldTyped ==
  ASSUME NEW S, IsFiniteSet(S), NEW V, NEW start \in V, NEW pick, NEW h \in [S -> [V -> V]],
         NEW f, FoldsIn(f, S, V, start, pick, h)
  PROVE  /\ f \in [SUBSET S -> V]
         /\ \A s \in SUBSET S : s # {} => f[s] = h[pick[s]][f[s \ {pick[s]}]]
<1>0. /\ f = [s \in SUBSET S |-> f[s]] /\ f[{}] = start
      /\ \A s \in SUBSET S : s # {} => pick[s] \in s
      /\ \A s \in SUBSET S : s # {} /\ f[s \ {pick[s]}] \in V => f[s] = h[pick[s]][f[s \ {pick[s]}]]
  BY DEF FoldsIn
<1> DEFINE Typed == {n \in Nat : \A s \in SUBSET S : Cardinality(s) = n => f[s] \in V}
<1>1. \A s \in SUBSET S : IsFiniteSet(s) /\ Cardinality(s) \in Nat
  BY FS_Subset, FS_CardinalityType
<1>2. ASSUME NEW s \in SUBSET S, s # {}
      PROVE  s \ {pick[s]} \in SUBSET S /\ Cardinality(s \ {pick[s]}) = Cardinality(s) - 1 /\ pick[s] \in S
  BY <1>0, <1>1, <1>2, FS_RemoveElement
<1>3. ASSUME NEW n \in Nat, 0 .. n - 1 \subseteq Typed PROVE n \in Typed
  <2> SUFFICES ASSUME NEW s \in SUBSET S, Cardinality(s) = n PROVE f[s] \in V
    OBVIOUS
  <2>1. CASE s = {}
    BY <1>0, <2>1
  <2>2. CASE s # {}
    <3>1. s \ {pick[s]} \in SUBSET S /\ Cardinality(s \ {pick[s]}) = n - 1 /\ pick[s] \in S
      BY <1>2, <2>2
    <3>2. n - 1 \in 0 .. n - 1
      <4>1. n - 1 \in Nat
        BY <1>1, <3>1
      <4> QED BY <4>1
    <3>3. f[s \ {pick[s]}] \in V
      BY <1>3, <3>1, <3>2
    <3>4. f[s] = h[pick[s]][f[s \ {pick[s]}]]
      BY <1>0, <2>2, <3>3
    <3>5. h[pick[s]] \in [V -> V]
      BY <3>1
    <3> QED BY <3>3, <3>4, <3>5
  <2> QED BY <2>1, <2>2
<1>4. Nat \subseteq Typed
  <2> HIDE DEF Typed
  <2> QED BY <1>3, EveryNat
<1>5. \A s \in SUBSET S : f[s] \in V
  BY <1>1, <1>4
<1>6. f \in [SUBSET S -> V]
  BY <1>0, <1>5
<1>7. ASSUME NEW s \in SUBSET S, s # {} PROVE f[s] = h[pick[s]][f[s \ {pick[s]}]]
  BY <1>0, <1>2, <1>5, <1>7
<1> QED BY <1>6, <1>7

\* A set of positions has a last one.
LEMMA LastPosition ==
  ASSUME NEW n \in Nat, NEW t \in SUBSET (1 .. n), t # {}
  PROVE  \E k \in t : \A m \in t : k >= m
<1> DEFINE T == {n - m : m \in t}
<1>1. T \subseteq Nat /\ T # {}
  <2>1. \A m \in t : n - m \in Nat
    OBVIOUS
  <2> QED BY <2>1
<1>2. PICK j \in T : \A i \in T : j <= i
  BY <1>1, LeastNat
<1>3. PICK k \in t : j = n - k
  BY <1>2
<1>4. ASSUME NEW m \in t PROVE k >= m
  <2>1. n - m \in T /\ m \in 1 .. n /\ k \in 1 .. n
    OBVIOUS
  <2> QED BY <1>2, <1>3, <2>1
<1> QED BY <1>4

LEMMA LastIsMax ==
  ASSUME NEW n \in Nat, NEW t \in SUBSET (1 .. n), t # {}
  PROVE  Pointers!Max(t) \in t /\ \A m \in t : Pointers!Max(t) >= m
<1>1. PICK k \in t : \A m \in t : k >= m
  BY LastPosition
<1> QED BY <1>1 DEF Pointers!Max

LEMMA MaxOfAll ==
  ASSUME NEW k \in Nat \ {0}
  PROVE  /\ 1 .. k # {} /\ k \in 1 .. k /\ (1 .. k) \ {k} = 1 .. k - 1
         /\ Pointers!Max(1 .. k) = k
<1>1. /\ 1 .. k # {} /\ k \in 1 .. k /\ (1 .. k) \ {k} = 1 .. k - 1
  OBVIOUS
<1>2. Pointers!Max(1 .. k) \in 1 .. k /\ Pointers!Max(1 .. k) >= k
  BY <1>1, LastIsMax
<1> QED BY <1>1, <1>2

\* A fold over a sequence from its beginning: f, which is defined by its last
\* positions, goes through the beginnings of s.
LastFirst(f, s, start, o) ==
  f = [t \in SUBSET DOMAIN s |->
         IF t = {} THEN start ELSE o[f[t \ {Pointers!Max(t)}]][s[Pointers!Max(t)]]]

LEMMA LeftFoldExists ==
  ASSUME NEW C, NEW V, NEW start \in V, NEW o \in [V -> [C -> V]], NEW s \in Seq(C)
  PROVE  \E f \in [SUBSET DOMAIN s -> V] : LastFirst(f, s, start, o)
<1> DEFINE S == DOMAIN s
           pick == [t \in SUBSET S |-> Pointers!Max(t)]
           h == [k \in S |-> [v \in V |-> o[v][s[k]]]]
<1>1. S = 1 .. Len(s) /\ Len(s) \in Nat /\ IsFiniteSet(S)
  BY FS_Interval
<1>2. \A t \in SUBSET S : t # {} => pick[t] \in t /\ pick[t] = Pointers!Max(t)
  BY <1>1, LastIsMax
<1>3. h \in [S -> [V -> V]]
  OBVIOUS
<1>4. PICK f \in [SUBSET S -> V] : TakesOut(f, S, start, pick, h)
  <2>1. IsFiniteSet(S) /\ \A t \in SUBSET S : t # {} => pick[t] \in t
    BY <1>1, <1>2
  <2> HIDE DEF S, pick, h
  <2> QED BY <1>3, <2>1, FoldExists, Zenon
<1>5. ASSUME NEW t \in SUBSET S, t # {}
      PROVE  f[t] = o[f[t \ {Pointers!Max(t)}]][s[Pointers!Max(t)]]
  <2>1. pick[t] \in S /\ t \ {pick[t]} \in SUBSET S /\ pick[t] = Pointers!Max(t)
    BY <1>2, <1>5
  <2>2. f[t] = h[pick[t]][f[t \ {pick[t]}]]
    BY <1>4, <1>5 DEF TakesOut
  <2>3. f[t \ {pick[t]}] \in V
    BY <2>1
  <2> HIDE DEF pick
  <2>4. h[pick[t]][f[t \ {pick[t]}]] = o[f[t \ {pick[t]}]][s[pick[t]]]
    BY <2>1, <2>3
  <2> QED BY <2>1, <2>2, <2>4
<1>6. f = [t \in SUBSET S |-> IF t = {} THEN start ELSE o[f[t \ {Pointers!Max(t)}]][s[Pointers!Max(t)]]]
  BY <1>4, <1>5 DEF TakesOut
<1> QED BY <1>6 DEF LastFirst

\* f is defined by its last positions, wherever it is of its type.
Follows(f, s, V, start, o) ==
  /\ f[{}] = start
  /\ \A t \in SUBSET DOMAIN s : t # {} /\ f[t \ {Pointers!Max(t)}] \in V =>
       f[t] = o[f[t \ {Pointers!Max(t)}]][s[Pointers!Max(t)]]

\* What f is along the beginnings of s.
Traced(f, s, start, o) == f[1 .. 0] = start /\ \A k \in 1 .. Len(s) : f[1 .. k] = o[f[1 .. k - 1]][s[k]]

LEMMA LeftFoldSteps ==
  ASSUME NEW C, NEW V, NEW start \in V, NEW o \in [V -> [C -> V]], NEW s \in Seq(C),
         NEW f, Follows(f, s, V, start, o)
  PROVE  f[DOMAIN s] \in V /\ Traced(f, s, start, o)
<1> DEFINE Typed == {k \in Nat : k <= Len(s) => f[1 .. k] \in V}
<1>0. DOMAIN s = 1 .. Len(s) /\ Len(s) \in Nat
  OBVIOUS
<1>1. 1 .. 0 = {} /\ f[1 .. 0] = start
  <2>1. 1 .. 0 = {}
    OBVIOUS
  <2> QED BY <2>1 DEF Follows
<1>2. ASSUME NEW k \in 1 .. Len(s), f[1 .. k - 1] \in V
      PROVE  f[1 .. k] = o[f[1 .. k - 1]][s[k]] /\ f[1 .. k] \in V
  <2>1. 1 .. k \in SUBSET DOMAIN s /\ k \in Nat \ {0}
    BY <1>0
  <2>2. f[1 .. k] = o[f[1 .. k - 1]][s[k]]
    <3>1. 1 .. k # {} /\ (1 .. k) \ {k} = 1 .. k - 1 /\ Pointers!Max(1 .. k) = k
      BY <2>1, MaxOfAll
    <3>2. f[(1 .. k) \ {Pointers!Max(1 .. k)}] \in V
      BY <1>2, <3>1
    <3>3. f[1 .. k] = o[f[(1 .. k) \ {Pointers!Max(1 .. k)}]][s[Pointers!Max(1 .. k)]]
      BY <2>1, <3>1, <3>2 DEF Follows
    <3> QED BY <3>1, <3>3
  <2>3. s[k] \in C
    BY <1>0
  <2>4. o[f[1 .. k - 1]] \in [C -> V]
    BY <1>2
  <2>5. o[f[1 .. k - 1]][s[k]] \in V
    BY <2>3, <2>4
  <2> QED BY <2>2, <2>5
<1>3. ASSUME NEW k \in Nat, 0 .. k - 1 \subseteq Typed PROVE k \in Typed
  <2>1. CASE k = 0
    BY <1>1, <2>1
  <2>2. CASE k # 0
    <3>1. k - 1 \in 0 .. k - 1 /\ k - 1 \in Nat
      BY <2>2
    <3>2. k - 1 <= Len(s) => f[1 .. k - 1] \in V
      BY <1>3, <3>1
    <3> SUFFICES ASSUME k <= Len(s) PROVE f[1 .. k] \in V
      OBVIOUS
    <3>3. k \in 1 .. Len(s) /\ k - 1 <= Len(s)
      BY <1>0, <2>2
    <3> QED BY <1>2, <3>2, <3>3
  <2> QED BY <2>1, <2>2
<1>4. Nat \subseteq Typed
  <2> HIDE DEF Typed
  <2> QED BY <1>3, EveryNat
<1>5. \A k \in 0 .. Len(s) : f[1 .. k] \in V
  <2> SUFFICES ASSUME NEW k \in 0 .. Len(s) PROVE f[1 .. k] \in V
    OBVIOUS
  <2>1. k \in Nat /\ k <= Len(s)
    BY <1>0
  <2>2. k \in Typed
    BY <1>4, <2>1
  <2> QED BY <2>1, <2>2
<1>6. ASSUME NEW k \in 1 .. Len(s) PROVE f[1 .. k] = o[f[1 .. k - 1]][s[k]]
  <2>1. k - 1 \in 0 .. Len(s)
    BY <1>0
  <2> QED BY <1>2, <1>5, <2>1
<1>7. f[DOMAIN s] \in V
  <2>1. Len(s) \in 0 .. Len(s)
    BY <1>0
  <2> QED BY <1>0, <1>5, <2>1
<1> QED BY <1>1, <1>6, <1>7 DEF Traced

\* One element more is one step more.
LEMMA LeftFoldAppend ==
  ASSUME NEW C, NEW start, NEW o, NEW s \in Seq(C), NEW c \in C, NEW f, NEW g,
         Traced(f, s, start, o), Traced(g, Append(s, c), start, o)
  PROVE  g[DOMAIN Append(s, c)] = o[f[DOMAIN s]][c]
<1> DEFINE Same == {k \in Nat : k <= Len(s) => f[1 .. k] = g[1 .. k]}
<1>1. /\ DOMAIN s = 1 .. Len(s) /\ Len(s) \in Nat /\ DOMAIN Append(s, c) = 1 .. Len(s) + 1
      /\ Append(s, c)[Len(s) + 1] = c /\ \A k \in 1 .. Len(s) : Append(s, c)[k] = s[k]
      /\ Len(Append(s, c)) = Len(s) + 1
  OBVIOUS
<1>0. /\ f[1 .. 0] = g[1 .. 0] /\ \A k \in 1 .. Len(s) : f[1 .. k] = o[f[1 .. k - 1]][s[k]]
      /\ \A k \in 1 .. Len(s) + 1 : g[1 .. k] = o[g[1 .. k - 1]][Append(s, c)[k]]
  BY <1>1 DEF Traced
<1>2. ASSUME NEW k \in Nat, 0 .. k - 1 \subseteq Same PROVE k \in Same
  <2>1. CASE k = 0
    BY <1>0, <2>1
  <2>2. CASE k # 0
    <3>1. k - 1 \in 0 .. k - 1 /\ k - 1 \in Nat
      BY <2>2
    <3>2. k - 1 <= Len(s) => f[1 .. k - 1] = g[1 .. k - 1]
      BY <1>2, <3>1
    <3> SUFFICES ASSUME k <= Len(s) PROVE f[1 .. k] = g[1 .. k]
      OBVIOUS
    <3>3. k \in 1 .. Len(s) /\ k \in 1 .. Len(s) + 1 /\ k - 1 <= Len(s)
      BY <1>1, <2>2
    <3>4. g[1 .. k] = o[g[1 .. k - 1]][Append(s, c)[k]]
      BY <1>0, <3>3
    <3>5. f[1 .. k] = o[f[1 .. k - 1]][s[k]]
      BY <1>0, <3>3
    <3> QED BY <1>1, <3>2, <3>3, <3>4, <3>5
  <2> QED BY <2>1, <2>2
<1>3. Nat \subseteq Same
  <2> HIDE DEF Same
  <2> QED BY <1>2, EveryNat
<1>4. f[1 .. Len(s)] = g[1 .. Len(s)]
  BY <1>1, <1>3
<1>5. Len(s) + 1 \in 1 .. Len(s) + 1 /\ (Len(s) + 1) - 1 = Len(s)
  BY <1>1
<1>6. g[1 .. Len(s) + 1] = o[g[1 .. (Len(s) + 1) - 1]][Append(s, c)[Len(s) + 1]]
  BY <1>0, <1>5
<1> QED BY <1>1, <1>4, <1>5, <1>6

LEMMA LeftFoldNone ==
  ASSUME NEW f, NEW o, NEW start, Traced(f, <<>>, start, o)
  PROVE  f[DOMAIN <<>>] = start
<1>1. DOMAIN <<>> = 1 .. 0
  OBVIOUS
<1> QED BY <1>1 DEF Traced

-----------------------------------------------------------------------------
(***************************************************************************)
(* Sums in which everything is its own opposite, as with exclusive or.     *)
(***************************************************************************)
Exclusive(V, zero, plus) ==
  /\ zero \in V /\ plus \in [V -> [V -> V]]
  /\ \A u \in V : plus[u][zero] = u /\ plus[u][u] = zero
  /\ \A u, v \in V : plus[u][v] = plus[v][u]
  /\ \A u, v, w \in V : plus[plus[u][v]][w] = plus[u][plus[v][w]]

LEMMA ExclusiveFacts ==
  ASSUME NEW V, NEW zero, NEW plus, Exclusive(V, zero, plus)
  PROVE  /\ zero \in V
         /\ \A u \in V : plus[u][zero] = u /\ plus[zero][u] = u /\ plus[u][u] = zero
         /\ \A u, v \in V : /\ plus[u][v] \in V /\ plus[u][v] = plus[v][u]
                            /\ plus[plus[u][v]][v] = u
         /\ \A u, v, w \in V : /\ plus[plus[u][v]][w] = plus[plus[u][w]][v]
                               /\ plus[plus[u][v]][w] = plus[u][plus[v][w]]
<1>0. zero \in V /\ \A u \in V : plus[u][zero] = u /\ plus[zero][u] = u /\ plus[u][u] = zero
  BY DEF Exclusive
<1>1. \A p, q \in V : plus[p][q] \in V /\ plus[p][q] = plus[q][p]
  BY DEF Exclusive
<1>2. \A p, q, r \in V : plus[plus[p][q]][r] = plus[p][plus[q][r]]
  BY DEF Exclusive
<1>3. ASSUME NEW u \in V, NEW v \in V PROVE plus[plus[u][v]][v] = u
  <2>1. plus[plus[u][v]][v] = plus[u][plus[v][v]]
    BY <1>2
  <2> QED BY <1>0, <2>1
<1>4. ASSUME NEW u \in V, NEW v \in V, NEW w \in V PROVE plus[plus[u][v]][w] = plus[plus[u][w]][v]
  <2>1. plus[v][w] = plus[w][v]
    BY <1>1
  <2>2. plus[plus[u][v]][w] = plus[u][plus[v][w]] /\ plus[plus[u][w]][v] = plus[u][plus[w][v]]
    BY <1>2
  <2> QED BY <2>1, <2>2
<1> QED BY <1>0, <1>1, <1>2, <1>3, <1>4

LEMMA ExclusiveFour ==
  ASSUME NEW V, NEW zero, NEW plus, Exclusive(V, zero, plus)
  PROVE  \A u, v, w, z \in V : plus[plus[u][v]][plus[w][z]] = plus[plus[u][w]][plus[v][z]]
<1> SUFFICES ASSUME NEW u \in V, NEW v \in V, NEW w \in V, NEW z \in V
             PROVE  plus[plus[u][v]][plus[w][z]] = plus[plus[u][w]][plus[v][z]]
  OBVIOUS
<1>0. /\ \A p, q \in V : plus[p][q] \in V
      /\ \A p, q, r \in V : /\ plus[plus[p][q]][r] = plus[plus[p][r]][q]
                            /\ plus[plus[p][q]][r] = plus[p][plus[q][r]]
  BY ExclusiveFacts
<1>1. PICK x \in V : x = plus[u][v]
  BY <1>0
<1>2. PICK y \in V : y = plus[u][w]
  BY <1>0
<1>3. plus[plus[x][w]][z] = plus[x][plus[w][z]] /\ plus[plus[y][v]][z] = plus[y][plus[v][z]]
  BY <1>0
<1>4. plus[x][w] = plus[y][v]
  BY <1>0, <1>1, <1>2
<1> QED BY <1>1, <1>2, <1>3, <1>4

\* f[s] is the sum of a over s.
SumOver(f, S, V, zero, plus, a) ==
  /\ IsFiniteSet(S) /\ Exclusive(V, zero, plus) /\ a \in [S -> V] /\ f \in [SUBSET S -> V]
  /\ f[{}] = zero
  /\ \A s \in SUBSET S : \A x \in S \ s : f[s \cup {x}] = plus[f[s]][a[x]]

\* A sum does not depend on the order in which elements are taken.
LEMMA AnyOrder ==
  ASSUME NEW S, IsFiniteSet(S), NEW V, NEW zero, NEW plus, Exclusive(V, zero, plus), NEW a \in [S -> V],
         NEW pick, \A s \in SUBSET S : s # {} => pick[s] \in s,
         NEW f \in [SUBSET S -> V], f[{}] = zero,
         \A s \in SUBSET S : s # {} => f[s] = plus[f[s \ {pick[s]}]][a[pick[s]]]
  PROVE  SumOver(f, S, V, zero, plus, a)
<1> DEFINE Free == {n \in Nat : \A s \in SUBSET S : Cardinality(s) = n =>
                                  \A x \in s : f[s] = plus[f[s \ {x}]][a[x]]}
<1>1. \A s \in SUBSET S : IsFiniteSet(s) /\ Cardinality(s) \in Nat
  BY FS_Subset, FS_CardinalityType
<1>2. ASSUME NEW n \in Nat, 0 .. n - 1 \subseteq Free PROVE n \in Free
  <2> SUFFICES ASSUME NEW s \in SUBSET S, Cardinality(s) = n, NEW x \in s
               PROVE  f[s] = plus[f[s \ {x}]][a[x]]
    OBVIOUS
  <2> DEFINE p == pick[s]
  <2>1. p \in s /\ f[s] = plus[f[s \ {p}]][a[p]]
    OBVIOUS
  <2> HIDE DEF p
  <2>2. CASE p = x
    BY <2>1, <2>2
  <2>3. CASE p # x
    <3> DEFINE r == s \ {p, x}
    <3>1. (s \ {p}) \ {x} = r /\ (s \ {x}) \ {p} = r /\ x \in s \ {p} /\ p \in s \ {x}
      BY <2>1, <2>3
    <3>2. Cardinality(s \ {p}) = n - 1 /\ Cardinality(s \ {x}) = n - 1
      BY <1>1, <2>1, FS_RemoveElement
    <3>3. n - 1 \in Nat
      <4>1. IsFiniteSet(s \ {p})
        BY <1>1, FS_Subset
      <4> QED BY <3>2, <4>1, FS_CardinalityType
    <3>4. n - 1 \in Free
      <4>1. n - 1 \in 0 .. n - 1
        BY <3>3
      <4> QED BY <1>2, <4>1
    <3>5. s \ {p} \in SUBSET S /\ s \ {x} \in SUBSET S /\ r \in SUBSET S
      OBVIOUS
    <3>6. f[s \ {p}] = plus[f[r]][a[x]]
      BY <3>1, <3>2, <3>4, <3>5
    <3>7. f[s \ {x}] = plus[f[r]][a[p]]
      BY <3>1, <3>2, <3>4, <3>5
    <3>8. f[r] \in V /\ a[x] \in V /\ a[p] \in V
      BY <2>1, <3>5
    <3> HIDE DEF r
    <3>9. plus[plus[f[r]][a[x]]][a[p]] = plus[plus[f[r]][a[p]]][a[x]]
      <4>1. \A u, v, w \in V : plus[plus[u][v]][w] = plus[plus[u][w]][v]
        BY ExclusiveFacts
      <4> QED BY <3>8, <4>1
    <3> QED BY <2>1, <3>6, <3>7, <3>9
  <2> QED BY <2>2, <2>3
<1>3. Nat \subseteq Free
  <2> HIDE DEF Free
  <2> QED BY <1>2, EveryNat
<1>4. ASSUME NEW s \in SUBSET S, NEW x \in S \ s PROVE f[s \cup {x}] = plus[f[s]][a[x]]
  <2>1. s \cup {x} \in SUBSET S /\ x \in s \cup {x} /\ (s \cup {x}) \ {x} = s
    OBVIOUS
  <2>2. Cardinality(s \cup {x}) \in Free
    BY <1>1, <1>3, <2>1
  <2>3. f[s \cup {x}] = plus[f[(s \cup {x}) \ {x}]][a[x]]
    BY <2>1, <2>2
  <2> QED BY <2>1, <2>3
<1> QED BY <1>4 DEF SumOver

LEMMA SumExists ==
  ASSUME NEW S, IsFiniteSet(S), NEW V, NEW zero, NEW plus, Exclusive(V, zero, plus), NEW a \in [S -> V]
  PROVE  \E f : SumOver(f, S, V, zero, plus, a)
<1> DEFINE pick == [s \in SUBSET S |-> CHOOSE x \in s : TRUE]
           h == [i \in S |-> [v \in V |-> plus[v][a[i]]]]
<1>0. zero \in V /\ plus \in [V -> [V -> V]]
  BY DEF Exclusive
<1>1. \A s \in SUBSET S : s # {} => pick[s] \in s
  OBVIOUS
<1>2. h \in [S -> [V -> V]]
  BY <1>0
<1>3. PICK f \in [SUBSET S -> V] : TakesOut(f, S, zero, pick, h)
  <2> HIDE DEF pick, h
  <2> QED BY <1>0, <1>1, <1>2, FoldExists
<1>4. f[{}] = zero
  BY <1>3 DEF TakesOut
<1>5. ASSUME NEW s \in SUBSET S, s # {} PROVE f[s] = plus[f[s \ {pick[s]}]][a[pick[s]]]
  <2>1. pick[s] \in S /\ s \ {pick[s]} \in SUBSET S
    BY <1>1, <1>5
  <2>2. f[s] = h[pick[s]][f[s \ {pick[s]}]]
    BY <1>3, <1>5 DEF TakesOut
  <2>3. f[s \ {pick[s]}] \in V
    BY <2>1
  <2> HIDE DEF pick
  <2> QED BY <2>1, <2>2, <2>3
<1>6. SumOver(f, S, V, zero, plus, a)
  <2> HIDE DEF pick
  <2> QED BY <1>1, <1>4, <1>5, AnyOrder
<1> QED BY <1>6, Zenon

\* f is a fold over the elements in the order in which they are chosen.
Chosen(s) == CHOOSE x \in s : TRUE

ChosenSum(f, S, V, zero, plus, a) ==
  /\ f = [s \in SUBSET S |-> f[s]] /\ f[{}] = zero
  /\ \A s \in SUBSET S : s # {} /\ f[s \ {Chosen(s)}] \in V =>
       f[s] = plus[f[s \ {Chosen(s)}]][a[Chosen(s)]]

LEMMA ChosenIsSum ==
  ASSUME NEW S, IsFiniteSet(S), NEW V, NEW zero, NEW plus, Exclusive(V, zero, plus), NEW a \in [S -> V],
         NEW f, ChosenSum(f, S, V, zero, plus, a)
  PROVE  SumOver(f, S, V, zero, plus, a)
<1> DEFINE pick == [s \in SUBSET S |-> Chosen(s)]
           h == [i \in S |-> [v \in V |-> plus[v][a[i]]]]
<1>0. zero \in V /\ plus \in [V -> [V -> V]]
  BY DEF Exclusive
<1>1. \A s \in SUBSET S : s # {} => pick[s] \in s /\ pick[s] = Chosen(s)
  BY DEF Chosen
<1>2. h \in [S -> [V -> V]]
  BY <1>0
<1>3. f = [s \in SUBSET S |-> f[s]] /\ f[{}] = zero
  BY DEF ChosenSum
<1>4. ASSUME NEW s \in SUBSET S, s # {}, f[s \ {pick[s]}] \in V
      PROVE  /\ f[s] = plus[f[s \ {pick[s]}]][a[pick[s]]]
             /\ f[s] = h[pick[s]][f[s \ {pick[s]}]]
  <2>1. pick[s] = Chosen(s) /\ pick[s] \in S
    BY <1>1, <1>4
  <2> HIDE DEF pick
  <2>2. f[s] = plus[f[s \ {pick[s]}]][a[pick[s]]]
    BY <1>4, <2>1 DEF ChosenSum
  <2> QED BY <1>4, <2>1, <2>2
<1>5. f \in [SUBSET S -> V]
  <2> HIDE DEF pick, h
  <2>1. \A s \in SUBSET S : s # {} => pick[s] \in s
    BY <1>1
  <2>2. \A s \in SUBSET S : s # {} /\ f[s \ {pick[s]}] \in V => f[s] = h[pick[s]][f[s \ {pick[s]}]]
    BY <1>4
  <2>3. FoldsIn(f, S, V, zero, pick, h)
    BY <1>3, <2>1, <2>2 DEF FoldsIn
  <2> QED BY <1>0, <1>2, <2>3, FoldTyped
<1>6. \A s \in SUBSET S : s # {} => f[s] = plus[f[s \ {pick[s]}]][a[pick[s]]]
  <2> HIDE DEF pick
  <2> QED BY <1>4, <1>5
<1> HIDE DEF pick
<1> QED BY <1>1, <1>3, <1>5, <1>6, AnyOrder

\* Sums of the same over some of the same are the same.
LEMMA SumsAgree ==
  ASSUME NEW f, NEW S, NEW g, NEW T, NEW V, NEW zero, NEW plus, NEW a, NEW b,
         SumOver(f, S, V, zero, plus, a), SumOver(g, T, V, zero, plus, b),
         S \subseteq T, \A x \in S : a[x] = b[x]
  PROVE  \A s \in SUBSET S : f[s] = g[s]
<1> DEFINE Same == {s \in SUBSET S : f[s] = g[s]}
<1>1. {} \in Same
  BY DEF SumOver
<1>2. ASSUME NEW s \in SUBSET S, NEW x \in S \ s, s \in Same PROVE s \cup {x} \in Same
  <2>1. f[s \cup {x}] = plus[f[s]][a[x]]
    BY DEF SumOver
  <2>2. g[s \cup {x}] = plus[g[s]][b[x]]
    BY DEF SumOver
  <2> QED BY <1>2, <2>1, <2>2
<1>3. SUBSET S \subseteq Same
  <2>1. IsFiniteSet(S)
    BY DEF SumOver
  <2> HIDE DEF Same
  <2> QED BY <1>1, <1>2, <2>1, EverySubset
<1> QED BY <1>3

\* So that a fold is known by what it is over any order.
FoldsAs(f, S, V, zero, plus, a) ==
  /\ f[{}] = zero
  /\ \A s \in SUBSET S : s # {} =>
       /\ Chosen(s) \in s /\ f[s \ {Chosen(s)}] \in V
       /\ f[s] = plus[f[s \ {Chosen(s)}]][a[Chosen(s)]]
  /\ \A s \in SUBSET S : \A g : ChosenSum(g, s, V, zero, plus, a) => g[s] = f[s]

LEMMA FoldIsSum ==
  ASSUME NEW f, NEW S, NEW V, NEW zero, NEW plus, NEW a, SumOver(f, S, V, zero, plus, a)
  PROVE  FoldsAs(f, S, V, zero, plus, a)
<1>1. /\ f[{}] = zero /\ f \in [SUBSET S -> V] /\ IsFiniteSet(S) /\ Exclusive(V, zero, plus)
      /\ a \in [S -> V] /\ \A s \in SUBSET S : \A x \in S \ s : f[s \cup {x}] = plus[f[s]][a[x]]
  BY DEF SumOver
<1>2. ASSUME NEW s \in SUBSET S, s # {}
      PROVE  /\ Chosen(s) \in s /\ f[s \ {Chosen(s)}] \in V
             /\ f[s] = plus[f[s \ {Chosen(s)}]][a[Chosen(s)]]
  <2> DEFINE c == Chosen(s)
             r == s \ {c}
  <2>1. c \in s
    BY <1>2 DEF Chosen
  <2>2. r \in SUBSET S /\ c \in S \ r /\ r \cup {c} = s
    BY <2>1
  <2> HIDE DEF c, r
  <2>3. f[r \cup {c}] = plus[f[r]][a[c]] /\ f[r] \in V
    BY <1>1, <2>2
  <2>4. f[s] = plus[f[r]][a[c]]
    BY <2>2, <2>3
  <2> QED BY <2>1, <2>3, <2>4 DEF c, r
<1>3. ASSUME NEW s \in SUBSET S, NEW g, ChosenSum(g, s, V, zero, plus, a) PROVE g[s] = f[s]
  <2> DEFINE b == [i \in s |-> a[i]]
  <2>1. b \in [s -> V] /\ \A i \in s : b[i] = a[i]
    BY <1>1
  <2> HIDE DEF b
  <2>2. ChosenSum(g, s, V, zero, plus, b)
    <3>1. g = [r \in SUBSET s |-> g[r]] /\ g[{}] = zero
      BY <1>3 DEF ChosenSum
    <3>2. ASSUME NEW r \in SUBSET s, r # {}, g[r \ {Chosen(r)}] \in V
          PROVE  g[r] = plus[g[r \ {Chosen(r)}]][b[Chosen(r)]]
      <4>1. Chosen(r) \in s
        BY <3>2 DEF Chosen
      <4>2. g[r] = plus[g[r \ {Chosen(r)}]][a[Chosen(r)]]
        BY <1>3, <3>2 DEF ChosenSum
      <4> QED BY <2>1, <4>1, <4>2
    <3> QED BY <3>1, <3>2 DEF ChosenSum
  <2>3. IsFiniteSet(s)
    BY <1>1, FS_Subset
  <2>4. SumOver(g, s, V, zero, plus, b)
    BY <1>1, <2>1, <2>2, <2>3, ChosenIsSum
  <2>5. \A r \in SUBSET s : g[r] = f[r]
    BY <2>1, <2>4, SumsAgree
  <2> QED BY <2>5
<1> QED BY <1>1, <1>2, <1>3 DEF FoldsAs

\* What is in two sets counts twice, which is not at all.
LEMMA SumOfDifference ==
  ASSUME NEW f, NEW S, NEW V, NEW zero, NEW plus, NEW a, SumOver(f, S, V, zero, plus, a),
         NEW t \in SUBSET S
  PROVE  \A s \in SUBSET S : f[(s \ t) \cup (t \ s)] = plus[f[s]][f[t]]
<1> DEFINE D(s) == (s \ t) \cup (t \ s)
           Good == {s \in SUBSET S : f[D(s)] = plus[f[s]][f[t]]}
<1>1. f[t] \in V /\ f[{}] = zero /\ zero \in V
  BY DEF SumOver, Exclusive
<1>2. {} \in Good
  <2>1. D({}) = t
    OBVIOUS
  <2>2. plus[zero][f[t]] = f[t]
    BY <1>1 DEF SumOver, Exclusive
  <2> QED BY <1>1, <2>1, <2>2
<1>3. ASSUME NEW s \in SUBSET S, NEW x \in S \ s, s \in Good PROVE s \cup {x} \in Good
  <2>1. f[s \cup {x}] = plus[f[s]][a[x]]
    BY DEF SumOver
  <2>2. D(s) \in SUBSET S /\ f[s] \in V /\ a[x] \in V
    BY DEF SumOver
  <2>3. f[D(s)] \in V
    BY <2>2 DEF SumOver
  <2>0. Exclusive(V, zero, plus)
    BY DEF SumOver
  <2>4. plus[plus[f[s]][a[x]]][f[t]] = plus[plus[f[s]][f[t]]][a[x]]
    <3>1. \A p, q, r \in V : plus[plus[p][q]][r] = plus[plus[p][r]][q]
      BY <2>0, ExclusiveFacts
    <3> QED BY <1>1, <2>2, <3>1
  <2>5. CASE x \in t
    <3> DEFINE r == D(s) \ {x}
    <3>1. D(s \cup {x}) = r /\ r \cup {x} = D(s) /\ r \in SUBSET S /\ x \in S \ r
      BY <2>5
    <3> HIDE DEF r
    <3>2. f[D(s)] = plus[f[r]][a[x]]
      <4>1. f[r \cup {x}] = plus[f[r]][a[x]]
        BY <3>1 DEF SumOver
      <4> QED BY <3>1, <4>1
    <3>3. f[r] \in V
      BY <3>1 DEF SumOver
    <3>4. plus[plus[f[r]][a[x]]][a[x]] = f[r]
      <4>1. \A p, q \in V : plus[plus[p][q]][q] = p
        BY <2>0, ExclusiveFacts
      <4> QED BY <2>2, <3>3, <4>1
    <3>5. f[D(s \cup {x})] = plus[f[D(s)]][a[x]]
      BY <3>1, <3>2, <3>4
    <3>6. f[D(s)] = plus[f[s]][f[t]]
      BY <1>3
    <3>7. s \cup {x} \in SUBSET S
      OBVIOUS
    <3> HIDE DEF D
    <3> QED BY <2>1, <2>4, <3>5, <3>6, <3>7
  <2>6. CASE x \notin t
    <3>1. D(s \cup {x}) = D(s) \cup {x} /\ x \in S \ D(s)
      BY <2>6
    <3>2. f[D(s) \cup {x}] = plus[f[D(s)]][a[x]]
      BY <2>2, <3>1 DEF SumOver
    <3>3. f[D(s)] = plus[f[s]][f[t]]
      BY <1>3
    <3>4. s \cup {x} \in SUBSET S
      OBVIOUS
    <3> HIDE DEF D
    <3> QED BY <2>1, <2>4, <3>1, <3>2, <3>3, <3>4
  <2> QED BY <2>5, <2>6
<1>4. SUBSET S \subseteq Good
  <2>1. IsFiniteSet(S)
    BY DEF SumOver
  <2> HIDE DEF Good
  <2> QED BY <1>2, <1>3, <2>1, EverySubset
<1> QED BY <1>4

LEMMA SumOfFew ==
  ASSUME NEW f, NEW S, NEW V, NEW zero, NEW plus, NEW a, SumOver(f, S, V, zero, plus, a),
         NEW x \in S
  PROVE  f[{x}] = a[x] /\ \A y \in S : y # x => f[{x, y}] = plus[a[x]][a[y]]
<1>1. {} \in SUBSET S /\ x \in S \ {} /\ {} \cup {x} = {x} /\ a[x] \in V
  BY DEF SumOver
<1>2. f[{} \cup {x}] = plus[f[{}]][a[x]] /\ f[{}] = zero
  BY <1>1 DEF SumOver
<1>3. f[{x}] = a[x]
  BY <1>1, <1>2 DEF SumOver, Exclusive
<1>4. ASSUME NEW y \in S, y # x PROVE f[{x, y}] = plus[a[x]][a[y]]
  <2>1. {x} \in SUBSET S /\ y \in S \ {x} /\ {x} \cup {y} = {x, y}
    BY <1>4
  <2>2. f[{x} \cup {y}] = plus[f[{x}]][a[y]]
    BY <2>1 DEF SumOver
  <2> QED BY <1>3, <2>1, <2>2
<1> QED BY <1>3, <1>4

\* The sum of sums.
LEMMA SumOfSums ==
  ASSUME NEW f, NEW g, NEW h, NEW S, NEW V, NEW zero, NEW plus, NEW a, NEW b, NEW c,
         SumOver(f, S, V, zero, plus, a), SumOver(g, S, V, zero, plus, b),
         SumOver(h, S, V, zero, plus, c), \A x \in S : c[x] = plus[a[x]][b[x]]
  PROVE  \A s \in SUBSET S : h[s] = plus[f[s]][g[s]]
<1> DEFINE Good == {s \in SUBSET S : h[s] = plus[f[s]][g[s]]}
<1>1. {} \in Good
  BY DEF SumOver, Exclusive
<1>2. ASSUME NEW s \in SUBSET S, NEW x \in S \ s, s \in Good PROVE s \cup {x} \in Good
  <2>1. f[s \cup {x}] = plus[f[s]][a[x]] /\ f[s] \in V /\ a[x] \in V
    BY DEF SumOver
  <2>2. g[s \cup {x}] = plus[g[s]][b[x]] /\ g[s] \in V /\ b[x] \in V
    BY DEF SumOver
  <2>3. h[s \cup {x}] = plus[h[s]][c[x]] /\ c[x] = plus[a[x]][b[x]]
    BY DEF SumOver
  <2>4. Exclusive(V, zero, plus)
    BY DEF SumOver
  <2>5. plus[plus[f[s]][g[s]]][plus[a[x]][b[x]]] = plus[plus[f[s]][a[x]]][plus[g[s]][b[x]]]
    <3>1. \A u, v, w, z \in V : plus[plus[u][v]][plus[w][z]] = plus[plus[u][w]][plus[v][z]]
      BY <2>4, ExclusiveFour
    <3> DEFINE P(u, v, w, z) == plus[plus[u][v]][plus[w][z]] = plus[plus[u][w]][plus[v][z]]
    <3>2. \A u, v, w, z \in V : P(u, v, w, z)
      BY <3>1
    <3>3. P(f[s], g[s], a[x], b[x])
      <4> HIDE DEF P
      <4> QED BY <2>1, <2>2, <3>2, Zenon
    <3> QED BY <3>3
  <2>6. h[s] = plus[f[s]][g[s]] /\ s \cup {x} \in SUBSET S
    BY <1>2
  <2> QED BY <2>1, <2>2, <2>3, <2>5, <2>6
<1>3. SUBSET S \subseteq Good
  <2>1. IsFiniteSet(S)
    BY DEF SumOver
  <2> HIDE DEF Good
  <2> QED BY <1>1, <1>2, <2>1, EverySubset
<1> QED BY <1>3

Respects(phi, V, zero, plus, nought, add) ==
  phi[zero] = nought /\ \A u, v \in V : phi[plus[u][v]] = add[phi[u]][phi[v]]

\* A function that respects sums takes a sum to the sum of what it takes its parts to.
LEMMA SumIsTaken ==
  ASSUME NEW f, NEW g, NEW S, NEW V, NEW zero, NEW plus, NEW W, NEW nought, NEW add, NEW a, NEW b,
         SumOver(f, S, V, zero, plus, a), SumOver(g, S, W, nought, add, b),
         NEW phi, Respects(phi, V, zero, plus, nought, add),
         \A x \in S : b[x] = phi[a[x]]
  PROVE  \A s \in SUBSET S : g[s] = phi[f[s]]
<1> DEFINE Good == {s \in SUBSET S : g[s] = phi[f[s]]}
<1>1. {} \in Good
  BY DEF SumOver, Respects
<1>2. ASSUME NEW s \in SUBSET S, NEW x \in S \ s, s \in Good PROVE s \cup {x} \in Good
  <2>1. f[s \cup {x}] = plus[f[s]][a[x]] /\ f[s] \in V /\ a[x] \in V
    BY DEF SumOver
  <2>2. g[s \cup {x}] = add[g[s]][b[x]]
    BY DEF SumOver
  <2>3. phi[plus[f[s]][a[x]]] = add[phi[f[s]]][phi[a[x]]]
    BY <2>1 DEF Respects
  <2>4. b[x] = phi[a[x]] /\ g[s] = phi[f[s]] /\ s \cup {x} \in SUBSET S
    BY <1>2
  <2> QED BY <2>1, <2>2, <2>3, <2>4
<1>3. SUBSET S \subseteq Good
  <2>1. IsFiniteSet(S)
    BY DEF SumOver
  <2> HIDE DEF Good
  <2> QED BY <1>1, <1>2, <2>1, EverySubset
<1> QED BY <1>3

-----------------------------------------------------------------------------
(***************************************************************************)
(* The field.  An element is a set of bits, and a product a sum over the   *)
(* bits of the second factor.                                              *)
(***************************************************************************)
Bits == 0 .. Width - 1
El == Blocks!Element
Add == [a \in El |-> [b \in El |-> Blocks!Plus(a, b)]]

LEMMA Widths ==
  /\ Width \in Nat /\ Width >= 2 /\ IsFiniteSet(Bits) /\ 0 \in Bits /\ 1 \in Bits
  /\ Polynomial \subseteq 0 .. Width /\ Width \in Polynomial
  /\ {} \in El /\ El = SUBSET Bits
<1>1. Width \in Nat /\ Width >= 2 /\ Polynomial \subseteq 0 .. Width /\ Width \in Polynomial
  BY FieldAssumption
<1>2. IsFiniteSet(Bits)
  BY <1>1, FS_Interval DEF Bits
<1> QED BY <1>1, <1>2 DEF Bits, El, Blocks!Element

LEMMA AddsUp ==
  ASSUME NEW a \in El, NEW b \in El
  PROVE  /\ Add[a][b] = Blocks!Plus(a, b) /\ Blocks!Plus(a, b) \in El
         /\ \A i : i \in Blocks!Plus(a, b) <=> ~ (i \in a <=> i \in b)
BY DEF Add, El, Blocks!Element, Blocks!Plus, Blocks!SymDiff

LEMMA ElementsAdd == Exclusive(El, {}, Add)
<1>1. Add \in [El -> [El -> El]]
  BY AddsUp DEF Add
<1>2. ASSUME NEW a \in El PROVE Add[a][{}] = a /\ Add[a][a] = {}
  BY <1>2, Widths DEF Add, Blocks!Plus, Blocks!SymDiff
<1>3. ASSUME NEW a \in El, NEW b \in El PROVE Add[a][b] = Add[b][a]
  BY <1>3 DEF Add, Blocks!Plus, Blocks!SymDiff
<1>4. ASSUME NEW a \in El, NEW b \in El, NEW c \in El PROVE Add[Add[a][b]][c] = Add[a][Add[b][c]]
  <2> DEFINE p == Blocks!Plus(a, b)
             q == Blocks!Plus(b, c)
  <2>1. Add[a][b] = p /\ Add[b][c] = q /\ p \in El /\ q \in El
    BY AddsUp
  <2>2. Add[p][c] = Blocks!Plus(p, c) /\ Add[a][q] = Blocks!Plus(a, q)
    BY <2>1, AddsUp
  <2>3. Blocks!Plus(p, c) = Blocks!Plus(a, q)
    BY DEF Blocks!Plus, Blocks!SymDiff
  <2> QED BY <2>1, <2>2, <2>3
<1> QED BY <1>1, <1>2, <1>3, <1>4, Widths DEF Exclusive

\* Doubling is a sum, and doubles sums.
LEMMA DoubledAdds ==
  /\ \A a \in El : Blocks!Doubled(a) \in El
  /\ \A a, b \in El : Blocks!Doubled(Add[a][b]) = Add[Blocks!Doubled(a)][Blocks!Doubled(b)]
<1> DEFINE Up(a) == {i + 1 : i \in a}
<1>1. ASSUME NEW a \in SUBSET (0 .. Width) PROVE Blocks!Reduced(a) \in El
  <2>1. 0 .. Width = Bits \cup {Width}
    BY Widths DEF Bits
  <2> QED BY <1>1, <2>1, Widths DEF Blocks!Reduced, Blocks!Plus, Blocks!SymDiff
<1>2. ASSUME NEW a \in El PROVE Up(a) \in SUBSET (0 .. Width)
  BY Widths DEF Bits
<1>3. ASSUME NEW a \in El PROVE Blocks!Doubled(a) = Blocks!Reduced(Up(a))
  BY DEF Blocks!Doubled
<1>4. ASSUME NEW a \in El, NEW b \in El PROVE Up(Blocks!Plus(a, b)) = Blocks!Plus(Up(a), Up(b))
  <2>1. \A i \in a \cup b, j \in a \cup b : i + 1 = j + 1 => i = j
    BY Widths DEF Bits
  <2> QED BY <2>1 DEF Blocks!Plus, Blocks!SymDiff
<1>5. ASSUME NEW a \in SUBSET (0 .. Width), NEW b \in SUBSET (0 .. Width)
      PROVE  Blocks!Reduced(Blocks!Plus(a, b)) = Blocks!Plus(Blocks!Reduced(a), Blocks!Reduced(b))
  BY DEF Blocks!Reduced, Blocks!Plus, Blocks!SymDiff
<1>6. ASSUME NEW a \in El, NEW b \in El
      PROVE  Blocks!Doubled(Add[a][b]) = Add[Blocks!Doubled(a)][Blocks!Doubled(b)]
  <2>1. Add[a][b] = Blocks!Plus(a, b) /\ Blocks!Plus(a, b) \in El
    BY AddsUp
  <2>2. Blocks!Doubled(a) \in El /\ Blocks!Doubled(b) \in El
    BY <1>1, <1>2, <1>3
  <2>3. Add[Blocks!Doubled(a)][Blocks!Doubled(b)] = Blocks!Plus(Blocks!Doubled(a), Blocks!Doubled(b))
    BY <2>2, AddsUp
  <2>4. Blocks!Reduced(Blocks!Plus(Up(a), Up(b))) = Blocks!Plus(Blocks!Reduced(Up(a)), Blocks!Reduced(Up(b)))
    BY <1>2, <1>5
  <2> HIDE DEF Up
  <2> QED BY <1>3, <1>4, <2>1, <2>3, <2>4
<1> QED BY <1>1, <1>2, <1>3, <1>6

\* a * 2^i.
Shifts(a) == CHOOSE f : f = [i \in Nat |-> IF i = 0 THEN a ELSE Blocks!Doubled(f[i - 1])]

LEMMA ShiftsBegin ==
  ASSUME NEW a \in El
  PROVE  /\ Shifts(a) \in [Nat -> El] /\ Shifts(a)[0] = a
         /\ \A i \in Nat : Shifts(a)[i + 1] = Blocks!Doubled(Shifts(a)[i])
<1> DEFINE h == [n \in Nat |-> [g \in [0 .. n - 1 -> El] |-> IF n = 0 THEN a ELSE Blocks!Doubled(g[n - 1])]]
           Q(f) == f = [i \in Nat |-> IF i = 0 THEN a ELSE Blocks!Doubled(f[i - 1])]
<1>1. \A n \in Nat : \A g \in [0 .. n - 1 -> El] : h[n][g] \in El
  <2> SUFFICES ASSUME NEW n \in Nat, NEW g \in [0 .. n - 1 -> El] PROVE h[n][g] \in El
    OBVIOUS
  <2>1. n # 0 => n - 1 \in 0 .. n - 1
    OBVIOUS
  <2> QED BY <2>1, DoubledAdds
<1>2. PICK f \in [Nat -> El] : Recurs(f, h)
  <2> HIDE DEF h
  <2> QED BY <1>1, Recursion
<1>3. ASSUME NEW n \in Nat PROVE f[n] = IF n = 0 THEN a ELSE Blocks!Doubled(f[n - 1])
  <2>1. [m \in 0 .. n - 1 |-> f[m]] \in [0 .. n - 1 -> El]
    OBVIOUS
  <2>2. n # 0 => n - 1 \in 0 .. n - 1
    OBVIOUS
  <2> QED BY <1>2, <2>1, <2>2 DEF Recurs
<1>4. Q(f)
  BY <1>2, <1>3
<1>5. Q(Shifts(a))
  <2>1. Shifts(a) = CHOOSE g : Q(g)
    BY DEF Shifts
  <2> HIDE DEF Q
  <2> QED BY <1>4, <2>1
<1> DEFINE s == Shifts(a)
           Good == {n \in Nat : s[n] = f[n]}
<1> HIDE DEF s
<1>6. \A n \in Nat : s[n] = IF n = 0 THEN a ELSE Blocks!Doubled(s[n - 1])
  BY <1>5 DEF s
<1>7. ASSUME NEW n \in Nat, 0 .. n - 1 \subseteq Good PROVE n \in Good
  <2>1. n # 0 => n - 1 \in 0 .. n - 1
    OBVIOUS
  <2> QED BY <1>3, <1>6, <1>7, <2>1
<1>8. Nat \subseteq Good
  <2> HIDE DEF Good
  <2> QED BY <1>7, EveryNat
<1>9. s = [n \in Nat |-> s[n]]
  BY <1>5 DEF s
<1>10. s \in [Nat -> El]
  BY <1>2, <1>8, <1>9
<1>11. \A i \in Nat : i + 1 \in Nat /\ i + 1 # 0 /\ (i + 1) - 1 = i
  OBVIOUS
<1>12. s[0] = a /\ \A i \in Nat : s[i + 1] = Blocks!Doubled(s[i])
  BY <1>6, <1>11
<1> QED BY <1>10, <1>12 DEF s

Products(a) == [b \in El |-> Blocks!GfMul(a, b)]
Places(a) == [i \in Bits |-> Shifts(a)[i]]

LEMMA ProductsAreSums ==
  ASSUME NEW a \in El
  PROVE  SumOver(Products(a), Bits, El, {}, Add, Places(a))
<1>0. IsFiniteSet(Bits) /\ {} \in El /\ Exclusive(El, {}, Add)
  BY Widths, ElementsAdd
<1>1. Shifts(a) \in [Nat -> El] /\ Bits \subseteq Nat
  BY ShiftsBegin, Widths DEF Bits
<1>2. Places(a) \in [Bits -> El] /\ \A i \in Bits : Places(a)[i] = Shifts(a)[i] /\ Places(a)[i] \in El
  BY <1>1 DEF Places
<1>3. PICK f : SumOver(f, Bits, El, {}, Add, Places(a))
  BY <1>0, <1>2, SumExists
<1>4. /\ f[{}] = {}
      /\ \A s \in SUBSET Bits : s # {} =>
           /\ Chosen(s) \in s /\ f[s \ {Chosen(s)}] \in El
           /\ f[s] = Add[f[s \ {Chosen(s)}]][Places(a)[Chosen(s)]]
      /\ \A s \in SUBSET Bits : \A g : ChosenSum(g, s, El, {}, Add, Places(a)) => g[s] = f[s]
  <2>1. FoldsAs(f, Bits, El, {}, Add, Places(a))
    BY <1>3, FoldIsSum
  <2> QED BY <2>1 DEF FoldsAs
<1>5. \A u, v \in El : Add[u][v] = Blocks!Plus(u, v)
  BY AddsUp
<1>6. ASSUME NEW b \in El PROVE Blocks!GfMul(a, b) = f[b]
  <2> DEFINE Step(g, s) == IF s = {} THEN {} ELSE Blocks!Plus(g[s \ {Chosen(s)}], Shifts(a)[Chosen(s)])
             Q(g) == g = [s \in SUBSET b |-> Step(g, s)]
             k == [s \in SUBSET b |-> f[s]]
             g == CHOOSE g : Q(g)
  <2>0. SUBSET b \subseteq SUBSET Bits /\ b \subseteq Bits /\ b \in SUBSET b
    BY Widths
  <2>1. Blocks!GfMul(a, b) = g[b]
    BY Zenon DEF Blocks!GfMul, Blocks!FoldSet, Blocks!MapThenFoldSet, Shifts, Blocks!ZeroElement, Chosen
  <2>2. ASSUME NEW s \in SUBSET b PROVE f[s] = Step(k, s)
    <3>1. CASE s = {}
      BY <1>4, <3>1
    <3>2. CASE s # {}
      <4>1. /\ Chosen(s) \in s /\ f[s \ {Chosen(s)}] \in El
            /\ f[s] = Add[f[s \ {Chosen(s)}]][Places(a)[Chosen(s)]]
        BY <1>4, <2>0, <3>2
      <4>2. Places(a)[Chosen(s)] = Shifts(a)[Chosen(s)] /\ Places(a)[Chosen(s)] \in El
        BY <1>2, <2>0, <4>1
      <4>3. k[s \ {Chosen(s)}] = f[s \ {Chosen(s)}]
        BY <4>1
      <4> HIDE DEF k
      <4> QED BY <1>5, <3>2, <4>1, <4>2, <4>3
    <3> QED BY <3>1, <3>2
  <2>3. Q(k)
    <3> HIDE DEF Step
    <3> QED BY <2>2
  <2>4. Q(g)
    <3> HIDE DEF Q
    <3> QED BY <2>3, Zenon
  <2> HIDE DEF g
  <2>5. ASSUME NEW s \in SUBSET b PROVE g[s] = Step(g, s)
    <3> HIDE DEF Step
    <3> QED BY <2>4
  <2>6. ASSUME NEW s \in SUBSET b, s # {}, g[s \ {Chosen(s)}] \in El
        PROVE  g[s] = Add[g[s \ {Chosen(s)}]][Places(a)[Chosen(s)]]
    <3>1. Chosen(s) \in Bits
      BY <2>0, <2>6 DEF Chosen
    <3>2. Places(a)[Chosen(s)] = Shifts(a)[Chosen(s)] /\ Places(a)[Chosen(s)] \in El
      BY <1>2, <3>1
    <3>3. g[s] = Blocks!Plus(g[s \ {Chosen(s)}], Shifts(a)[Chosen(s)])
      BY <2>5, <2>6
    <3> HIDE DEF Q, Step
    <3> QED BY <1>5, <2>6, <3>2, <3>3
  <2>7. g = [s \in SUBSET b |-> g[s]] /\ g[{}] = {}
    BY <2>4
  <2>8. ChosenSum(g, b, El, {}, Add, Places(a))
    <3> HIDE DEF Q
    <3> QED BY <2>6, <2>7 DEF ChosenSum
  <2> QED BY <1>4, <2>0, <2>1, <2>8
<1>7. Products(a) = f
  BY <1>3, <1>6, Widths DEF Products, SumOver
<1> QED BY <1>3, <1>7

LEMMA MulType ==
  \A a, b \in El : Blocks!GfMul(a, b) \in El
<1> SUFFICES ASSUME NEW a \in El, NEW b \in El PROVE Blocks!GfMul(a, b) \in El
  OBVIOUS
<1>1. Products(a) \in [SUBSET Bits -> El]
  BY ProductsAreSums DEF SumOver
<1>2. Products(a)[b] = Blocks!GfMul(a, b) /\ b \in SUBSET Bits
  BY Widths DEF Products
<1> QED BY <1>1, <1>2

\* What holds of the bits and of sums holds of every element.
LEMMA EveryElement ==
  ASSUME NEW T, {} \in T, \A i \in Bits : {i} \in T,
         \A a, b \in El : a \in T /\ b \in T => Add[a][b] \in T
  PROVE  El \subseteq T
<1>1. ASSUME NEW s \in SUBSET Bits, NEW x \in Bits \ s, s \in T PROVE s \cup {x} \in T
  <2>1. s \in El /\ {x} \in El /\ s \cup {x} = Blocks!Plus(s, {x})
    BY Widths DEF Blocks!Plus, Blocks!SymDiff
  <2>2. Add[s][{x}] = s \cup {x}
    BY <2>1, AddsUp
  <2>3. Add[s][{x}] \in T
    BY <1>1, <2>1
  <2> QED BY <2>2, <2>3
<1> QED BY <1>1, Widths, EverySubset

\* Shifting, and multiplying by either factor, respect sums.
LEMMA ShiftsAdd ==
  ASSUME NEW a \in El, NEW b \in El
  PROVE  \A n \in Nat : Shifts(Add[a][b])[n] = Add[Shifts(a)[n]][Shifts(b)[n]]
<1> DEFINE c == Add[a][b]
           Good == {n \in Nat : Shifts(c)[n] = Add[Shifts(a)[n]][Shifts(b)[n]]}
<1>0. c \in El
  BY AddsUp
<1> HIDE DEF c
<1>1. /\ Shifts(a) \in [Nat -> El] /\ Shifts(a)[0] = a
      /\ \A i \in Nat : Shifts(a)[i + 1] = Blocks!Doubled(Shifts(a)[i])
  BY ShiftsBegin
<1>2. /\ Shifts(b) \in [Nat -> El] /\ Shifts(b)[0] = b
      /\ \A i \in Nat : Shifts(b)[i + 1] = Blocks!Doubled(Shifts(b)[i])
  BY ShiftsBegin
<1>3. /\ Shifts(c) \in [Nat -> El] /\ Shifts(c)[0] = c
      /\ \A i \in Nat : Shifts(c)[i + 1] = Blocks!Doubled(Shifts(c)[i])
  BY <1>0, ShiftsBegin
<1>4. ASSUME NEW n \in Nat, 0 .. n - 1 \subseteq Good PROVE n \in Good
  <2>1. CASE n = 0
    BY <1>1, <1>2, <1>3, <2>1 DEF c
  <2>2. CASE n # 0
    <3> DEFINE m == n - 1
    <3>1. m \in Nat /\ m \in 0 .. n - 1 /\ m + 1 = n
      BY <2>2
    <3> HIDE DEF m
    <3>2. Shifts(c)[m] = Add[Shifts(a)[m]][Shifts(b)[m]]
      BY <1>4, <3>1
    <3>3. Shifts(a)[m] \in El /\ Shifts(b)[m] \in El
      BY <1>1, <1>2, <3>1
    <3>4. /\ Shifts(a)[n] = Blocks!Doubled(Shifts(a)[m]) /\ Shifts(b)[n] = Blocks!Doubled(Shifts(b)[m])
          /\ Shifts(c)[n] = Blocks!Doubled(Shifts(c)[m])
      BY <1>1, <1>2, <1>3, <3>1
    <3>5. Blocks!Doubled(Add[Shifts(a)[m]][Shifts(b)[m]])
            = Add[Blocks!Doubled(Shifts(a)[m])][Blocks!Doubled(Shifts(b)[m])]
      BY <3>3, DoubledAdds
    <3> QED BY <3>2, <3>4, <3>5
  <2> QED BY <2>1, <2>2
<1>5. Nat \subseteq Good
  <2> HIDE DEF Good
  <2> QED BY <1>4, EveryNat
<1> QED BY <1>5 DEF c

LEMMA ShiftsDouble ==
  ASSUME NEW a \in El
  PROVE  \A n \in Nat : Shifts(Blocks!Doubled(a))[n] = Blocks!Doubled(Shifts(a)[n])
<1> DEFINE c == Blocks!Doubled(a)
           Good == {n \in Nat : Shifts(c)[n] = Blocks!Doubled(Shifts(a)[n])}
<1>0. c \in El
  BY DoubledAdds
<1> HIDE DEF c
<1>1. Shifts(a)[0] = a /\ \A i \in Nat : Shifts(a)[i + 1] = Blocks!Doubled(Shifts(a)[i])
  BY ShiftsBegin
<1>3. Shifts(c)[0] = c /\ \A i \in Nat : Shifts(c)[i + 1] = Blocks!Doubled(Shifts(c)[i])
  BY <1>0, ShiftsBegin
<1>4. ASSUME NEW n \in Nat, 0 .. n - 1 \subseteq Good PROVE n \in Good
  <2>1. CASE n = 0
    BY <1>1, <1>3, <2>1 DEF c
  <2>2. CASE n # 0
    <3> DEFINE m == n - 1
    <3>1. m \in Nat /\ m \in 0 .. n - 1 /\ m + 1 = n
      BY <2>2
    <3> HIDE DEF m
    <3>2. Shifts(c)[m] = Blocks!Doubled(Shifts(a)[m])
      BY <1>4, <3>1
    <3>4. Shifts(a)[n] = Blocks!Doubled(Shifts(a)[m]) /\ Shifts(c)[n] = Blocks!Doubled(Shifts(c)[m])
      BY <1>1, <1>3, <3>1
    <3> QED BY <3>2, <3>4
  <2> QED BY <2>1, <2>2
<1>5. Nat \subseteq Good
  <2> HIDE DEF Good
  <2> QED BY <1>4, EveryNat
<1> QED BY <1>5 DEF c

LEMMA MulRight ==
  \A a, b, c \in El : Blocks!GfMul(a, Add[b][c]) = Add[Blocks!GfMul(a, b)][Blocks!GfMul(a, c)]
<1> SUFFICES ASSUME NEW a \in El, NEW b \in El, NEW c \in El
             PROVE  Blocks!GfMul(a, Add[b][c]) = Add[Blocks!GfMul(a, b)][Blocks!GfMul(a, c)]
  OBVIOUS
<1>1. SumOver(Products(a), Bits, El, {}, Add, Places(a)) /\ b \in SUBSET Bits /\ c \in SUBSET Bits
  BY ProductsAreSums, Widths
<1>2. Products(a)[(b \ c) \cup (c \ b)] = Add[Products(a)[b]][Products(a)[c]]
  BY <1>1, SumOfDifference
<1>3. Add[b][c] \in El /\ Add[b][c] = (b \ c) \cup (c \ b)
  <2>1. Add[b][c] \in El /\ Add[b][c] = Blocks!Plus(b, c)
    BY AddsUp
  <2> QED BY <2>1 DEF Blocks!Plus, Blocks!SymDiff
<1> QED BY <1>2, <1>3 DEF Products

LEMMA MulLeft ==
  \A a, b, c \in El : Blocks!GfMul(Add[a][b], c) = Add[Blocks!GfMul(a, c)][Blocks!GfMul(b, c)]
<1> SUFFICES ASSUME NEW a \in El, NEW b \in El, NEW c \in El
             PROVE  Blocks!GfMul(Add[a][b], c) = Add[Blocks!GfMul(a, c)][Blocks!GfMul(b, c)]
  OBVIOUS
<1> DEFINE d == Add[a][b]
<1>0. d \in El /\ c \in SUBSET Bits
  BY AddsUp, Widths
<1>1. \A i \in Bits : Places(d)[i] = Add[Places(a)[i]][Places(b)[i]]
  BY ShiftsAdd DEF Places, Bits
<1> HIDE DEF d
<1>2. /\ SumOver(Products(a), Bits, El, {}, Add, Places(a))
      /\ SumOver(Products(b), Bits, El, {}, Add, Places(b))
      /\ SumOver(Products(d), Bits, El, {}, Add, Places(d))
  BY <1>0, ProductsAreSums
<1>3. Products(d)[c] = Add[Products(a)[c]][Products(b)[c]]
  BY <1>0, <1>1, <1>2, SumOfSums
<1>4. Blocks!GfMul(d, c) = Add[Blocks!GfMul(a, c)][Blocks!GfMul(b, c)]
  BY <1>3 DEF Products
<1> QED BY <1>4 DEF d

LEMMA MulDouble ==
  \A a, b \in El : Blocks!GfMul(Blocks!Doubled(a), b) = Blocks!Doubled(Blocks!GfMul(a, b))
<1> SUFFICES ASSUME NEW a \in El, NEW b \in El
             PROVE  Blocks!GfMul(Blocks!Doubled(a), b) = Blocks!Doubled(Blocks!GfMul(a, b))
  OBVIOUS
<1> DEFINE d == Blocks!Doubled(a)
           phi == [x \in El |-> Blocks!Doubled(x)]
<1>0. d \in El /\ b \in SUBSET Bits
  BY DoubledAdds, Widths
<1>1. \A i \in Bits : Places(d)[i] = phi[Places(a)[i]]
  <2> SUFFICES ASSUME NEW i \in Bits PROVE Places(d)[i] = phi[Places(a)[i]]
    OBVIOUS
  <2>1. Shifts(a)[i] \in El /\ Shifts(d)[i] = Blocks!Doubled(Shifts(a)[i])
    BY ShiftsBegin, ShiftsDouble DEF Bits
  <2> QED BY <2>1 DEF Places
<1>2. phi[{}] = {}
  BY Widths DEF Blocks!Doubled, Blocks!Reduced
<1>3. \A u, v \in El : phi[Add[u][v]] = Add[phi[u]][phi[v]]
  <2> SUFFICES ASSUME NEW u \in El, NEW v \in El PROVE phi[Add[u][v]] = Add[phi[u]][phi[v]]
    OBVIOUS
  <2>1. Add[u][v] \in El
    BY AddsUp
  <2>2. Blocks!Doubled(Add[u][v]) = Add[Blocks!Doubled(u)][Blocks!Doubled(v)]
    BY DoubledAdds
  <2> QED BY <2>1, <2>2
<1>5. \A x \in El : phi[x] = Blocks!Doubled(x)
  OBVIOUS
<1> HIDE DEF d, phi
<1>4. /\ SumOver(Products(a), Bits, El, {}, Add, Places(a))
      /\ SumOver(Products(d), Bits, El, {}, Add, Places(d))
  BY <1>0, ProductsAreSums
<1>6. Products(d)[b] = phi[Products(a)[b]]
  <2>1. Respects(phi, El, {}, Add, {}, Add)
    BY <1>2, <1>3 DEF Respects
  <2>2. \A s \in SUBSET Bits : Products(d)[s] = phi[Products(a)[s]]
    BY <1>1, <1>4, <2>1, SumIsTaken
  <2> QED BY <1>0, <2>2
<1>7. Blocks!GfMul(d, b) = phi[Blocks!GfMul(a, b)] /\ Blocks!GfMul(a, b) \in El
  BY <1>6, MulType DEF Products
<1> QED BY <1>5, <1>7 DEF d

LEMMA MulBit ==
  \A a \in El : \A i \in Bits : {i} \in El /\ Blocks!GfMul(a, {i}) = Shifts(a)[i]
<1> SUFFICES ASSUME NEW a \in El, NEW i \in Bits
             PROVE  {i} \in El /\ Blocks!GfMul(a, {i}) = Shifts(a)[i]
  OBVIOUS
<1>1. Products(a)[{i}] = Places(a)[i]
  BY ProductsAreSums, SumOfFew
<1>2. {i} \in El
  BY Widths
<1> QED BY <1>1, <1>2 DEF Products, Places

LEMMA MulOne ==
  /\ Blocks!One \in El
  /\ \A a \in El : Blocks!GfMul(a, Blocks!One) = a
<1>1. ASSUME NEW a \in El PROVE Blocks!GfMul(a, {0}) = a
  BY MulBit, ShiftsBegin, Widths
<1> QED BY <1>1, Widths DEF Blocks!One

\* The bits of one, doubled, are the bits one after the other.
LEMMA OneMul ==
  /\ \A i \in Bits : Shifts({0})[i] = {i}
  /\ \A b \in El : Blocks!GfMul({0}, b) = b
<1>0. {0} \in El
  BY Widths
<1>1. ASSUME NEW i \in Bits, i + 1 \in Bits PROVE Blocks!Doubled({i}) = {i + 1}
  BY <1>1, Widths DEF Blocks!Doubled, Blocks!Reduced, Bits
<1> DEFINE Good == {n \in Nat : n \in Bits => Shifts({0})[n] = {n}}
<1>2. Shifts({0})[0] = {0} /\ \A i \in Nat : Shifts({0})[i + 1] = Blocks!Doubled(Shifts({0})[i])
  BY <1>0, ShiftsBegin
<1>3. ASSUME NEW n \in Nat, 0 .. n - 1 \subseteq Good PROVE n \in Good
  <2>1. CASE n = 0
    BY <1>2, <2>1
  <2>2. CASE n # 0
    <3> DEFINE m == n - 1
    <3> SUFFICES ASSUME n \in Bits PROVE Shifts({0})[n] = {n}
      OBVIOUS
    <3>1. m \in Nat /\ m \in 0 .. n - 1 /\ m + 1 = n /\ m \in Bits
      BY <2>2, Widths DEF Bits
    <3> HIDE DEF m
    <3>2. Shifts({0})[m] = {m}
      BY <1>3, <3>1
    <3> QED BY <1>1, <1>2, <3>1, <3>2
  <2> QED BY <2>1, <2>2
<1>4. Nat \subseteq Good
  <2> HIDE DEF Good
  <2> QED BY <1>3, EveryNat
<1>5. \A i \in Bits : Shifts({0})[i] = {i}
  BY <1>4, Widths DEF Bits
<1> DEFINE T == {b \in El : Blocks!GfMul({0}, b) = b}
<1>6. {} \in T
  <2>1. Products({0})[{}] = {}
    BY <1>0, ProductsAreSums DEF SumOver
  <2> QED BY <2>1, Widths DEF Products
<1>7. \A i \in Bits : {i} \in T
  BY <1>0, <1>5, MulBit
<1>8. \A a, b \in El : a \in T /\ b \in T => Add[a][b] \in T
  <2> SUFFICES ASSUME NEW a \in T, NEW b \in T PROVE Add[a][b] \in T
    OBVIOUS
  <2>1. Blocks!GfMul({0}, Add[a][b]) = Add[Blocks!GfMul({0}, a)][Blocks!GfMul({0}, b)]
    BY <1>0, MulRight
  <2> QED BY <2>1, AddsUp
<1>9. El \subseteq T
  <2> HIDE DEF T
  <2> QED BY <1>6, <1>7, <1>8, EveryElement
<1> QED BY <1>5, <1>9

\* What is doubled Width times is reduced by the polynomial.
LEMMA Reduces ==
  \A a \in El : /\ Polynomial \ {Width} \in El
                /\ Shifts(a)[Width] = Blocks!GfMul(a, Polynomial \ {Width})
<1> DEFINE R == Polynomial \ {Width}
           T == {a \in El : Shifts(a)[Width] = Blocks!GfMul(a, R)}
<1>0. R \in El /\ Width \in Nat /\ Width - 1 \in Bits /\ Width - 1 \in Nat /\ (Width - 1) + 1 = Width
      /\ 0 \in Bits
  BY Widths DEF Bits
<1>1. {0} \in T
  <2>1. {0} \in El
    BY Widths
  <2>2. Shifts({0})[Width - 1] = {Width - 1}
    BY <1>0, OneMul
  <2>3. Shifts({0})[(Width - 1) + 1] = Blocks!Doubled(Shifts({0})[Width - 1])
    BY <1>0, <2>1, ShiftsBegin
  <2>4. Blocks!Doubled({Width - 1}) = R
    <3>1. {i + 1 : i \in {Width - 1}} = {Width}
      BY <1>0
    <3>2. Blocks!Reduced({Width}) = (({Width} \ Polynomial) \cup (Polynomial \ {Width}))
      BY DEF Blocks!Reduced, Blocks!Plus, Blocks!SymDiff
    <3> QED BY <3>1, <3>2, Widths DEF Blocks!Doubled
  <2>5. Blocks!GfMul({0}, R) = R
    BY <1>0, OneMul
  <2> HIDE DEF R
  <2> QED BY <1>0, <2>1, <2>2, <2>3, <2>4, <2>5
<1>2. ASSUME NEW a \in T PROVE Blocks!Doubled(a) \in T
  <2>1. Shifts(Blocks!Doubled(a))[Width] = Blocks!Doubled(Shifts(a)[Width])
    BY <1>0, ShiftsDouble
  <2>2. Blocks!GfMul(Blocks!Doubled(a), R) = Blocks!Doubled(Blocks!GfMul(a, R))
    BY <1>0, MulDouble
  <2> HIDE DEF R
  <2> QED BY <2>1, <2>2, DoubledAdds
<1>3. \A i \in Bits : {i} \in T
  <2> DEFINE Good == {n \in Nat : n \in Bits => {n} \in T}
  <2>1. ASSUME NEW n \in Nat, 0 .. n - 1 \subseteq Good PROVE n \in Good
    <3>1. CASE n = 0
      BY <1>1, <3>1
    <3>2. CASE n # 0
      <4> DEFINE m == n - 1
      <4> SUFFICES ASSUME n \in Bits PROVE {n} \in T
        OBVIOUS
      <4>1. m \in Nat /\ m \in 0 .. n - 1 /\ m + 1 = n /\ m \in Bits
        BY <3>2, Widths DEF Bits
      <4> HIDE DEF m, T
      <4>2. {m} \in T
        BY <2>1, <4>1
      <4>3. Shifts({0})[m] = {m} /\ Shifts({0})[n] = {n}
        BY <4>1, OneMul
      <4>4. Shifts({0})[m + 1] = Blocks!Doubled(Shifts({0})[m])
        BY <4>1, ShiftsBegin, Widths
      <4> QED BY <1>2, <4>1, <4>2, <4>3, <4>4
    <3> QED BY <3>1, <3>2
  <2>2. Nat \subseteq Good
    <3> HIDE DEF Good
    <3> QED BY <2>1, EveryNat
  <2> HIDE DEF T
  <2> QED BY <2>2, Widths DEF Bits
<1>4. {} \in T
  <2>1. {} \in El /\ Add[{}][{}] = {}
    BY ElementsAdd, Widths, ExclusiveFacts
  <2>2. Shifts({})[Width] = Add[Shifts({})[Width]][Shifts({})[Width]]
    <3>1. \A n \in Nat : Shifts(Add[{}][{}])[n] = Add[Shifts({})[n]][Shifts({})[n]]
      BY <2>1, ShiftsAdd
    <3>2. Shifts(Add[{}][{}])[Width] = Add[Shifts({})[Width]][Shifts({})[Width]]
      BY <1>0, <3>1
    <3> QED BY <2>1, <3>2
  <2>3. Shifts({})[Width] = {}
    <3>1. Shifts({})[Width] \in El
      BY <1>0, <2>1, ShiftsBegin
    <3> QED BY <2>2, <3>1, ElementsAdd DEF Exclusive
  <2>4. Blocks!GfMul({}, R) = Add[Blocks!GfMul({}, R)][Blocks!GfMul({}, R)] /\ Blocks!GfMul({}, R) \in El
    <3>1. Blocks!GfMul(Add[{}][{}], R) = Add[Blocks!GfMul({}, R)][Blocks!GfMul({}, R)]
      BY <1>0, <2>1, MulLeft
    <3> QED BY <1>0, <2>1, <3>1, MulType
  <2>5. Blocks!GfMul({}, R) = {}
    BY <2>4, ElementsAdd DEF Exclusive
  <2> QED BY <2>1, <2>3, <2>5
<1>5. \A a, b \in El : a \in T /\ b \in T => Add[a][b] \in T
  <2> SUFFICES ASSUME NEW a \in T, NEW b \in T PROVE Add[a][b] \in T
    OBVIOUS
  <2>0. Add[a][b] \in El
    BY AddsUp
  <2>1. Shifts(Add[a][b])[Width] = Add[Shifts(a)[Width]][Shifts(b)[Width]]
    BY <1>0, ShiftsAdd
  <2>2. Blocks!GfMul(Add[a][b], R) = Add[Blocks!GfMul(a, R)][Blocks!GfMul(b, R)]
    BY <1>0, MulLeft
  <2> HIDE DEF R
  <2> QED BY <2>0, <2>1, <2>2
<1>6. El \subseteq T
  <2> HIDE DEF T
  <2> QED BY <1>3, <1>4, <1>5, EveryElement
<1> QED BY <1>0, <1>6

LEMMA MulByDouble ==
  \A a, b \in El : Blocks!GfMul(a, Blocks!Doubled(b)) = Blocks!Doubled(Blocks!GfMul(a, b))
<1> SUFFICES ASSUME NEW a \in El
             PROVE  \A b \in El : Blocks!GfMul(a, Blocks!Doubled(b)) = Blocks!Doubled(Blocks!GfMul(a, b))
  OBVIOUS
<1> DEFINE T == {b \in El : Blocks!GfMul(a, Blocks!Doubled(b)) = Blocks!Doubled(Blocks!GfMul(a, b))}
<1>1. {} \in T
  <2>1. {} \in El /\ Blocks!Doubled({}) = {}
    BY Widths DEF Blocks!Doubled, Blocks!Reduced
  <2>2. Products(a)[{}] = {}
    BY ProductsAreSums DEF SumOver
  <2> QED BY <2>1, <2>2 DEF Products
<1>2. ASSUME NEW i \in Bits PROVE {i} \in T
  <2>1. {i} \in El /\ Blocks!GfMul(a, {i}) = Shifts(a)[i] /\ i \in Nat
    BY MulBit, Widths DEF Bits
  <2>2. Shifts(a)[i + 1] = Blocks!Doubled(Shifts(a)[i])
    BY <2>1, ShiftsBegin
  <2>3. CASE i = Width - 1
    <3>1. {j + 1 : j \in {i}} = {Width}
      BY <2>3, Widths
    <3>2. Blocks!Reduced({Width}) = (({Width} \ Polynomial) \cup (Polynomial \ {Width}))
      BY DEF Blocks!Reduced, Blocks!Plus, Blocks!SymDiff
    <3>3. Blocks!Doubled({i}) = Polynomial \ {Width}
      BY <3>1, <3>2, Widths DEF Blocks!Doubled
    <3>4. i + 1 = Width
      BY <2>3, Widths
    <3> QED BY <2>1, <2>2, <3>3, <3>4, Reduces
  <2>4. CASE i # Width - 1
    <3>1. i + 1 \in Bits /\ i + 1 # Width
      BY <2>4, Widths DEF Bits
    <3>2. Blocks!Doubled({i}) = {i + 1}
      BY <3>1, Widths DEF Blocks!Doubled, Blocks!Reduced, Bits
    <3>3. Blocks!GfMul(a, {i + 1}) = Shifts(a)[i + 1]
      BY <3>1, MulBit
    <3> QED BY <2>1, <2>2, <3>2, <3>3
  <2> QED BY <2>3, <2>4
<1>3. ASSUME NEW b \in El, NEW c \in El, b \in T, c \in T PROVE Add[b][c] \in T
  <2> DEFINE D(x) == Blocks!Doubled(x)
             M(x) == Blocks!GfMul(a, x)
  <2>1. Add[b][c] \in El /\ D(b) \in El /\ D(c) \in El /\ M(b) \in El /\ M(c) \in El
    <3>1. Add[b][c] \in El
      BY AddsUp
    <3>2. D(b) \in El /\ D(c) \in El
      BY DoubledAdds
    <3>3. M(b) \in El /\ M(c) \in El
      BY MulType
    <3> QED BY <3>1, <3>2, <3>3
  <2>2. D(Add[b][c]) = Add[D(b)][D(c)] /\ D(Add[M(b)][M(c)]) = Add[D(M(b))][D(M(c))]
    BY <2>1, DoubledAdds
  <2>3. M(Add[b][c]) = Add[M(b)][M(c)]
    BY MulRight
  <2>4. M(Add[D(b)][D(c)]) = Add[M(D(b))][M(D(c))]
    BY <2>1, MulRight
  <2>5. M(D(b)) = D(M(b)) /\ M(D(c)) = D(M(c))
    BY <1>3
  <2>6. M(D(Add[b][c])) = D(M(Add[b][c]))
    <3> HIDE DEF D, M
    <3> QED BY <2>2, <2>3, <2>4, <2>5
  <2> QED BY <2>1, <2>6
<1>4. El \subseteq T
  <2> HIDE DEF T
  <2> QED BY <1>1, <1>2, <1>3, EveryElement
<1> QED BY <1>4

LEMMA MulAssociative ==
  \A a, b, c \in El : Blocks!GfMul(Blocks!GfMul(a, b), c) = Blocks!GfMul(a, Blocks!GfMul(b, c))
<1> SUFFICES ASSUME NEW a \in El, NEW b \in El
             PROVE  \A c \in El : Blocks!GfMul(Blocks!GfMul(a, b), c) = Blocks!GfMul(a, Blocks!GfMul(b, c))
  OBVIOUS
<1> DEFINE ab == Blocks!GfMul(a, b)
           L(c) == Blocks!GfMul(ab, c)
           M(c) == Blocks!GfMul(b, c)
           R(c) == Blocks!GfMul(a, M(c))
           T == {c \in El : L(c) = R(c)}
<1>0. ab \in El /\ \A c \in El : M(c) \in El
  BY MulType
<1>1. \A n \in Nat : Shifts(ab)[n] = Blocks!GfMul(a, Shifts(b)[n])
  <2> DEFINE Good == {n \in Nat : Shifts(ab)[n] = Blocks!GfMul(a, Shifts(b)[n])}
  <2>1. /\ Shifts(b) \in [Nat -> El] /\ Shifts(b)[0] = b
        /\ \A i \in Nat : Shifts(b)[i + 1] = Blocks!Doubled(Shifts(b)[i])
    BY ShiftsBegin
  <2>2. Shifts(ab)[0] = ab /\ \A i \in Nat : Shifts(ab)[i + 1] = Blocks!Doubled(Shifts(ab)[i])
    BY <1>0, ShiftsBegin
  <2>3. ASSUME NEW n \in Nat, 0 .. n - 1 \subseteq Good PROVE n \in Good
    <3>1. CASE n = 0
      BY <2>1, <2>2, <3>1
    <3>2. CASE n # 0
      <4> DEFINE m == n - 1
      <4>1. m \in Nat /\ m \in 0 .. n - 1 /\ m + 1 = n
        BY <3>2
      <4> HIDE DEF m, ab
      <4>2. Shifts(ab)[m] = Blocks!GfMul(a, Shifts(b)[m]) /\ Shifts(b)[m] \in El
        BY <2>1, <2>3, <4>1
      <4>3. Blocks!GfMul(a, Blocks!Doubled(Shifts(b)[m])) = Blocks!Doubled(Blocks!GfMul(a, Shifts(b)[m]))
        BY <4>2, MulByDouble
      <4>4. Shifts(ab)[n] = Blocks!Doubled(Shifts(ab)[m]) /\ Shifts(b)[n] = Blocks!Doubled(Shifts(b)[m])
        BY <2>1, <2>2, <4>1
      <4> QED BY <4>2, <4>3, <4>4
    <3> QED BY <3>1, <3>2
  <2>4. Nat \subseteq Good
    <3> HIDE DEF Good
    <3> QED BY <2>3, EveryNat
  <2> QED BY <2>4
<1> HIDE DEF ab
<1>2. \A i \in Bits : {i} \in T
  <2> SUFFICES ASSUME NEW i \in Bits PROVE {i} \in T
    OBVIOUS
  <2>1. {i} \in El /\ L({i}) = Shifts(ab)[i] /\ M({i}) = Shifts(b)[i]
    BY <1>0, MulBit
  <2>2. i \in Nat
    BY DEF Bits
  <2> QED BY <1>1, <2>1, <2>2
<1>3. {} \in T
  <2>1. \A x \in El : Blocks!GfMul(x, {}) = {}
    BY ProductsAreSums, Widths DEF SumOver, Products
  <2> QED BY <1>0, <2>1, Widths
<1>4. ASSUME NEW c \in El, NEW d \in El, c \in T, d \in T PROVE Add[c][d] \in T
  <2>0. Add[c][d] \in El
    BY AddsUp
  <2>1. L(Add[c][d]) = Add[L(c)][L(d)] /\ M(Add[c][d]) = Add[M(c)][M(d)]
    BY <1>0, MulRight
  <2>2. Blocks!GfMul(a, Add[M(c)][M(d)]) = Add[R(c)][R(d)]
    BY <1>0, MulRight
  <2>3. L(c) = R(c) /\ L(d) = R(d)
    BY <1>4
  <2>4. L(Add[c][d]) = R(Add[c][d])
    <3> HIDE DEF L, M
    <3> QED BY <2>1, <2>2, <2>3
  <2> QED BY <2>0, <2>4
<1>5. El \subseteq T
  <2> HIDE DEF T
  <2> QED BY <1>2, <1>3, <1>4, EveryElement
<1> QED BY <1>5 DEF ab

LEMMA PowType ==
  \A a \in El : \A n \in Nat : Blocks!GfPow(a, n) \in El
<1> SUFFICES ASSUME NEW a \in El PROVE \A n \in Nat : Blocks!GfPow(a, n) \in El
  OBVIOUS
<1> DEFINE Square(x) == Blocks!GfMul(x, x)
           Power(f, n) == IF n = 0 THEN Blocks!One
                          ELSE IF n % 2 = 1 THEN Blocks!GfMul(a, Square(f[n \div 2])) ELSE Square(f[n \div 2])
           h == [n \in Nat |-> [g \in [0 .. n - 1 -> El] |-> Power(g, n)]]
           Q(f) == f = [n \in Nat |-> Power(f, n)]
           power == CHOOSE f : Q(f)
<1>0. ASSUME NEW n \in Nat, n # 0 PROVE n \div 2 \in 0 .. n - 1 /\ n \div 2 \in Nat
  BY <1>0
<1>1. ASSUME NEW f, NEW n \in Nat, n # 0 => f[n \div 2] \in El PROVE Power(f, n) \in El
  BY <1>1, MulType, MulOne
<1>2. \A n \in Nat : \A g \in [0 .. n - 1 -> El] : h[n][g] \in El
  <2> SUFFICES ASSUME NEW n \in Nat, NEW g \in [0 .. n - 1 -> El] PROVE h[n][g] \in El
    OBVIOUS
  <2>1. h[n][g] = Power(g, n)
    OBVIOUS
  <2> HIDE DEF Power, h
  <2> QED BY <1>0, <1>1, <2>1
<1>3. PICK f \in [Nat -> El] : Recurs(f, h)
  <2> HIDE DEF h
  <2> QED BY <1>2, Recursion
<1>4. ASSUME NEW n \in Nat PROVE f[n] = Power(f, n)
  <2> DEFINE g == [m \in 0 .. n - 1 |-> f[m]]
  <2>1. g \in [0 .. n - 1 -> El] /\ f[n] = h[n][g]
    <3>1. \A m \in 0 .. n - 1 : m \in Nat
      OBVIOUS
    <3> QED BY <1>3, <3>1 DEF Recurs
  <2>2. h[n][g] = Power(g, n)
    BY <2>1
  <2>3. n # 0 => g[n \div 2] = f[n \div 2]
    BY <1>0
  <2> HIDE DEF g, h
  <2> QED BY <2>1, <2>2, <2>3
<1>5. Q(f)
  <2> HIDE DEF Power
  <2> QED BY <1>4
<1>6. Q(power)
  <2> HIDE DEF Q
  <2> QED BY <1>5, Zenon
<1>7. \A n \in Nat : Blocks!GfPow(a, n) = power[n]
  BY Zenon DEF Blocks!GfPow
<1> HIDE DEF power
<1>8. ASSUME NEW n \in Nat PROVE power[n] = Power(power, n)
  <2> HIDE DEF Power
  <2> QED BY <1>6
<1> DEFINE Good == {n \in Nat : power[n] \in El}
<1>9. ASSUME NEW n \in Nat, 0 .. n - 1 \subseteq Good PROVE n \in Good
  <2>1. n # 0 => power[n \div 2] \in El
    BY <1>0, <1>9
  <2>2. Power(power, n) \in El
    <3> HIDE DEF Power
    <3> QED BY <1>1, <2>1
  <2> HIDE DEF Power
  <2> QED BY <1>8, <2>2
<1>10. Nat \subseteq Good
  <2> HIDE DEF Good
  <2> QED BY <1>9, EveryNat
<1> QED BY <1>7, <1>10

\* What is multiplied by an element other than zero can be divided by it.
LEMMA Divides ==
  \A b, d \in El : d # {} => /\ Blocks!GfInv(d) \in El
                             /\ Blocks!GfMul(Blocks!GfMul(b, d), Blocks!GfInv(d)) = b
<1> SUFFICES ASSUME NEW b \in El, NEW d \in El, d # {}
             PROVE  /\ Blocks!GfInv(d) \in El
                    /\ Blocks!GfMul(Blocks!GfMul(b, d), Blocks!GfInv(d)) = b
  OBVIOUS
<1>1. 2 ^ Width - 2 \in Nat
  <2>1. 2 ^ Width \in Int /\ MaxBlockSize \in Nat \ {0} /\ MaxBlockSize < 2 ^ Width
    BY BlockAssumption, FieldAssumption
  <2> QED BY <2>1
<1>2. Blocks!GfInv(d) \in El
  BY <1>1, PowType DEF Blocks!GfInv
<1>3. Blocks!GfMul(d, Blocks!GfInv(d)) = Blocks!One
  BY PolynomialAssumption DEF El, Blocks!ZeroElement
<1>4. Blocks!GfMul(Blocks!GfMul(b, d), Blocks!GfInv(d)) = Blocks!GfMul(b, Blocks!GfMul(d, Blocks!GfInv(d)))
  BY <1>2, MulAssociative
<1> QED BY <1>2, <1>3, <1>4, MulOne

-----------------------------------------------------------------------------
(***************************************************************************)
(* The block.  Padded frames are vectors over the field.  The parities     *)
(* over all frames and over those that arrived differ by what is missing.  *)
(***************************************************************************)
FramesSent == \E size \in 1 .. MaxBlockSize : frames \in [1 .. size -> Samples]
Positions == DOMAIN frames
Length == Blocks!PaddedLength

LEMMA FramesAre ==
  ASSUME FramesSent
  PROVE  /\ Len(frames) \in 1 .. MaxBlockSize /\ Positions = 1 .. Len(frames) /\ frames \in Seq(Samples)
         /\ IsFiniteSet(Positions)
         /\ \A i \in Positions : frames[i] \in Seq(El) /\ Len(frames[i]) \in Nat
<1>1. PICK size \in 1 .. MaxBlockSize : frames \in [1 .. size -> Samples]
  BY DEF FramesSent
<1>2. size \in Nat /\ MaxBlockSize \in Nat
  BY BlockAssumption
<1>3. frames \in Seq(Samples) /\ Len(frames) = size /\ Positions = 1 .. size
  BY <1>1, <1>2 DEF Positions
<1>4. \A i \in Positions : frames[i] \in Seq(El)
  BY <1>1, <1>3, BlockAssumption DEF El, Blocks!Element
<1>5. IsFiniteSet(1 .. size)
  BY <1>2, FS_Interval
<1> QED BY <1>2, <1>3, <1>4, <1>5

\* No frame is longer than the padded length.
LEMMA LengthIsMost ==
  ASSUME FramesSent
  PROVE  Length \in Nat /\ \A i \in Positions : Len(frames[i]) <= Length
<1> DEFINE N == Len(frames)
           l == [i \in Positions |-> Len(frames[i])]
           S == {Len(f) : f \in Blocks!Range(frames)}
           T == {n \in Nat : n \in 1 .. N => \E k \in 1 .. n : \A m \in 1 .. n : l[m] <= l[k]}
<1>0. N \in Nat /\ N >= 1 /\ Positions = 1 .. N /\ l \in [Positions -> Nat]
  BY FramesAre, BlockAssumption
<1>1. S = {l[i] : i \in Positions}
  BY DEF Blocks!Range, Positions
<1>2. ASSUME NEW n \in Nat, 0 .. n - 1 \subseteq T PROVE n \in T
  <2> HIDE DEF l, N
  <2> SUFFICES ASSUME n \in 1 .. N PROVE \E k \in 1 .. n : \A m \in 1 .. n : l[m] <= l[k]
    OBVIOUS
  <2>1. CASE n = 1
    BY <1>0, <2>1
  <2>2. CASE n # 1
    <3>1. n - 1 \in 0 .. n - 1 /\ n - 1 \in Nat /\ n - 1 \in 1 .. N /\ n \in 1 .. N
      BY <1>0, <2>2
    <3>2. PICK k \in 1 .. n - 1 : \A m \in 1 .. n - 1 : l[m] <= l[k]
      BY <1>2, <3>1
    <3>3. \A m \in 1 .. n : l[m] \in Nat
      BY <1>0
    <3>4. k \in 1 .. n /\ n \in 1 .. n /\ \A m \in 1 .. n : m = n \/ m \in 1 .. n - 1
      BY <3>1
    <3>5. CASE l[n] <= l[k]
      BY <3>2, <3>4, <3>5
    <3>6. CASE ~ (l[n] <= l[k])
      <4>1. ASSUME NEW m \in 1 .. n PROVE l[m] <= l[n]
        <5>1. m = n \/ l[m] <= l[k]
          BY <3>2, <3>4
        <5> QED BY <3>3, <3>4, <3>6, <5>1
      <4> QED BY <3>4, <4>1
    <3> QED BY <3>5, <3>6
  <2> QED BY <2>1, <2>2
<1>3. Nat \subseteq T
  <2> HIDE DEF T
  <2> QED BY <1>2, EveryNat
<1>4. PICK k \in 1 .. N : \A m \in 1 .. N : l[m] <= l[k]
  <2>1. N \in 1 .. N
    BY <1>0
  <2>2. N \in T
    <3> HIDE DEF T, N
    <3> QED BY <1>0, <1>3
  <2> HIDE DEF l, N
  <2> QED BY <2>1, <2>2
<1> HIDE DEF l, N, S
<1>5. \E x \in S : \A y \in S : x >= y
  BY <1>0, <1>1, <1>4
<1>6. Blocks!Max(S) \in S /\ \A y \in S : Blocks!Max(S) >= y
  BY <1>5 DEF Blocks!Max
<1>7. Length = Blocks!Max(S)
  BY DEF Length, Blocks!PaddedLength, S
<1>8. Length \in Nat /\ \A i \in Positions : l[i] <= Length
  BY <1>0, <1>1, <1>6, <1>7
<1> QED BY <1>8 DEF l

Vec == [1 .. Length -> El]
AddVec == [f \in Vec |-> [g \in Vec |-> Blocks!Xor(f, g)]]
PaddedFrames == [i \in Positions |-> Blocks!Padded(frames[i])]

LEMMA PaddedType ==
  ASSUME FramesSent
  PROVE  /\ PaddedFrames \in [Positions -> Vec]
         /\ \A i \in Positions :
              /\ PaddedFrames[i] = Blocks!Padded(frames[i])
              /\ Blocks!Truncated(Blocks!Padded(frames[i]), Len(frames[i])) = frames[i]
<1>1. ASSUME NEW i \in Positions
      PROVE  /\ Blocks!Padded(frames[i]) \in Vec
             /\ Blocks!Truncated(Blocks!Padded(frames[i]), Len(frames[i])) = frames[i]
  <2> DEFINE f == frames[i]
             n == Length - Len(f)
             b == Blocks!Blank(n)
  <2>1. f \in Seq(El) /\ Len(f) \in Nat /\ n \in Nat /\ Len(f) + n = Length
    BY FramesAre, LengthIsMost
  <2> HIDE DEF f, n
  <2>2. b \in Seq(El) /\ Len(b) = n
    BY <2>1, Widths DEF Blocks!Blank, Blocks!ZeroElement
  <2> HIDE DEF b
  <2>3. f \o b \in Seq(El) /\ Len(f \o b) = Length
    BY <2>1, <2>2
  <2>4. f \o b \in Vec
    <3>1. \A s \in Seq(El) : s \in [1 .. Len(s) -> El]
      OBVIOUS
    <3>2. f \o b \in [1 .. Len(f \o b) -> El]
      BY <2>3, <3>1
    <3> QED BY <2>3, <3>2 DEF Vec
  <2>5. SubSeq(f \o b, 1, Len(f)) = f
    <3>1. SubSeq(f \o b, 1, Len(f)) \in Seq(El) /\ Len(SubSeq(f \o b, 1, Len(f))) = Len(f)
      BY <2>1, <2>2, <2>3
    <3>2. \A k \in 1 .. Len(f) : SubSeq(f \o b, 1, Len(f))[k] = f[k]
      BY <2>1, <2>2, <2>3
    <3> QED BY <2>1, <3>1, <3>2
  <2>6. Blocks!Padded(f) = f \o b
    BY DEF Blocks!Padded, b, n, Length
  <2> QED BY <2>4, <2>5, <2>6 DEF f, Blocks!Truncated
<1> QED BY <1>1 DEF PaddedFrames

LEMMA XorAdds ==
  ASSUME NEW f \in Vec, NEW g \in Vec
  PROVE  /\ Blocks!Xor(f, g) \in Vec /\ AddVec[f][g] = Blocks!Xor(f, g)
         /\ \A k \in 1 .. Length : Blocks!Xor(f, g)[k] = Add[f[k]][g[k]]
<1>1. DOMAIN f = 1 .. Length
  BY DEF Vec
<1>2. ASSUME NEW k \in 1 .. Length
      PROVE  Blocks!Plus(f[k], g[k]) \in El /\ Blocks!Plus(f[k], g[k]) = Add[f[k]][g[k]]
  <2>1. f[k] \in El /\ g[k] \in El
    BY DEF Vec
  <2> QED BY <2>1, AddsUp
<1> QED BY <1>1, <1>2 DEF Blocks!Xor, Vec, AddVec

LEMMA SameVec ==
  ASSUME NEW f \in Vec, NEW g \in Vec, \A k \in 1 .. Length : f[k] = g[k]
  PROVE  f = g
<1>1. f = [k \in 1 .. Length |-> f[k]] /\ g = [k \in 1 .. Length |-> g[k]]
  BY DEF Vec
<1>2. [k \in 1 .. Length |-> f[k]] = [k \in 1 .. Length |-> g[k]]
  OBVIOUS
<1> QED BY <1>1, <1>2, Zenon

LEMMA VecsAdd == Exclusive(Vec, Blocks!Blank(Length), AddVec)
<1> DEFINE zero == Blocks!Blank(Length)
<1>0. /\ \A a \in El : Add[a][{}] = a /\ Add[a][a] = {}
      /\ \A a, b \in El : Add[a][b] = Add[b][a]
      /\ \A a, b, c \in El : Add[Add[a][b]][c] = Add[a][Add[b][c]]
  BY ElementsAdd DEF Exclusive
<1>1. zero \in Vec /\ \A k \in 1 .. Length : zero[k] = {}
  BY Widths DEF Vec, Blocks!Blank, Blocks!ZeroElement
<1> HIDE DEF zero
<1>2. AddVec \in [Vec -> [Vec -> Vec]]
  BY XorAdds DEF AddVec
<1>3. \A f \in Vec : \A k \in 1 .. Length : f[k] \in El
  BY DEF Vec
<1>4. \A f, g \in Vec : AddVec[f][g] \in Vec /\ \A k \in 1 .. Length : AddVec[f][g][k] = Add[f[k]][g[k]]
  BY XorAdds
<1>5. ASSUME NEW f \in Vec PROVE AddVec[f][zero] = f /\ AddVec[f][f] = zero
  <2>1. AddVec[f][zero] \in Vec /\ AddVec[f][f] \in Vec
    BY <1>1, <1>4
  <2>2. ASSUME NEW k \in 1 .. Length PROVE AddVec[f][zero][k] = f[k] /\ AddVec[f][f][k] = zero[k]
    <3>1. f[k] \in El /\ zero[k] = {}
      BY <1>1, <1>3
    <3>2. AddVec[f][zero][k] = Add[f[k]][zero[k]] /\ AddVec[f][f][k] = Add[f[k]][f[k]]
      BY <1>1, <1>4
    <3> QED BY <1>0, <3>1, <3>2
  <2> QED BY <1>1, <2>1, <2>2, SameVec
<1>6. ASSUME NEW f \in Vec, NEW g \in Vec PROVE AddVec[f][g] = AddVec[g][f]
  <2>1. AddVec[f][g] \in Vec /\ AddVec[g][f] \in Vec
    BY <1>4
  <2>2. \A k \in 1 .. Length : AddVec[f][g][k] = AddVec[g][f][k]
    BY <1>0, <1>3, <1>4
  <2> QED BY <2>1, <2>2, SameVec
<1>7. ASSUME NEW f \in Vec, NEW g \in Vec, NEW h \in Vec
      PROVE  AddVec[AddVec[f][g]][h] = AddVec[f][AddVec[g][h]]
  <2> DEFINE p == AddVec[f][g]
             q == AddVec[g][h]
  <2>1. p \in Vec /\ q \in Vec
    BY <1>4
  <2>2. \A k \in 1 .. Length : p[k] = Add[f[k]][g[k]] /\ q[k] = Add[g[k]][h[k]]
    BY <1>4
  <2> HIDE DEF p, q
  <2>3. AddVec[p][h] \in Vec /\ AddVec[f][q] \in Vec
    BY <1>4, <2>1
  <2>4. ASSUME NEW k \in 1 .. Length PROVE AddVec[p][h][k] = AddVec[f][q][k]
    <3>1. AddVec[p][h][k] = Add[p[k]][h[k]] /\ AddVec[f][q][k] = Add[f[k]][q[k]]
      BY <1>4, <2>1
    <3>2. f[k] \in El /\ g[k] \in El /\ h[k] \in El
      BY <1>3
    <3> QED BY <1>0, <2>2, <3>1, <3>2
  <2> QED BY <2>3, <2>4, SameVec DEF p, q
<1> QED BY <1>1, <1>2, <1>5, <1>6, <1>7 DEF Exclusive, zero

Weights == Blocks!Coefficients(Len(frames))
ScaledFrames == [i \in Positions |-> Blocks!Scale(Blocks!Padded(frames[i]), Weights[i])]

LEMMA ScaleType ==
  ASSUME NEW f \in Vec, NEW c \in El
  PROVE  /\ Blocks!Scale(f, c) \in Vec
         /\ \A k \in 1 .. Length : Blocks!Scale(f, c)[k] = Blocks!GfMul(f[k], c)
<1>1. DOMAIN f = 1 .. Length /\ \A k \in 1 .. Length : f[k] \in El
  BY DEF Vec
<1> QED BY <1>1, MulType DEF Blocks!Scale, Vec

\* Two frames have different coefficients.
LEMMA WeightsDiffer ==
  ASSUME FramesSent
  PROVE  /\ \A i \in Positions : Weights[i] \in El
         /\ \A i, j \in Positions : Weights[i] = Weights[j] => i = j
<1>1. Len(frames) \in 1 .. MaxBlockSize /\ Positions = 1 .. Len(frames) /\ MaxBlockSize \in Nat
  BY FramesAre, BlockAssumption
<1>2. \A i \in Positions : Weights[i] = Blocks!GfPow(Blocks!Two, i - 1) /\ i - 1 \in 0 .. MaxBlockSize - 1 /\ i \in Nat
  BY <1>1 DEF Weights, Blocks!Coefficients
<1>3. Blocks!Two \in El
  BY Widths DEF Blocks!Two
<1>4. \A m, n \in 0 .. MaxBlockSize - 1 : Blocks!GfPow(Blocks!Two, m) = Blocks!GfPow(Blocks!Two, n) => m = n
  BY PolynomialAssumption
<1>5. ASSUME NEW i \in Positions, NEW j \in Positions, Weights[i] = Weights[j] PROVE i = j
  <2>1. i - 1 = j - 1
    BY <1>2, <1>4, <1>5
  <2> QED BY <1>2, <2>1
<1>6. \A i \in Positions : Weights[i] \in El
  BY <1>2, <1>3, PowType
<1> QED BY <1>5, <1>6

LEMMA ScaledType ==
  ASSUME FramesSent
  PROVE  ScaledFrames \in [Positions -> Vec]
BY PaddedType, ScaleType, WeightsDiffer DEF ScaledFrames

\* g adds vectors up in the order in which they are chosen.
XorStep(g, s, w) ==
  IF s = {} THEN Blocks!Blank(Length) ELSE Blocks!Xor(g[s \ {Chosen(s)}], w[Chosen(s)])
Xors(g, S, w) == g = [s \in SUBSET S |-> XorStep(g, s, w)]

LEMMA XorsAreSums ==
  ASSUME FramesSent, NEW w \in [Positions -> Vec]
  PROVE  \E f : /\ SumOver(f, Positions, Vec, Blocks!Blank(Length), AddVec, w)
                /\ \A S \in SUBSET Positions :
                     /\ Xors([s \in SUBSET S |-> f[s]], S, w)
                     /\ \A g : Xors(g, S, w) => g[S] = f[S]
<1> DEFINE zero == Blocks!Blank(Length)
<1>1. PICK f : SumOver(f, Positions, Vec, zero, AddVec, w)
  BY FramesAre, VecsAdd, SumExists
<1>2. /\ f[{}] = zero
      /\ \A s \in SUBSET Positions : s # {} =>
           /\ Chosen(s) \in s /\ f[s \ {Chosen(s)}] \in Vec
           /\ f[s] = AddVec[f[s \ {Chosen(s)}]][w[Chosen(s)]]
      /\ \A s \in SUBSET Positions : \A g : ChosenSum(g, s, Vec, zero, AddVec, w) => g[s] = f[s]
  <2>1. FoldsAs(f, Positions, Vec, zero, AddVec, w)
    BY <1>1, FoldIsSum
  <2> QED BY <2>1 DEF FoldsAs
<1>3. \A u, v \in Vec : AddVec[u][v] = Blocks!Xor(u, v)
  BY XorAdds
<1> HIDE DEF zero
<1>4. ASSUME NEW S \in SUBSET Positions PROVE Xors([s \in SUBSET S |-> f[s]], S, w)
  <2> DEFINE k == [s \in SUBSET S |-> f[s]]
  <2>1. ASSUME NEW s \in SUBSET S PROVE k[s] = XorStep(k, s, w)
    <3>1. CASE s = {}
      BY <1>2, <3>1 DEF XorStep, zero
    <3>2. CASE s # {}
      <4>1. /\ Chosen(s) \in s /\ f[s \ {Chosen(s)}] \in Vec
            /\ f[s] = AddVec[f[s \ {Chosen(s)}]][w[Chosen(s)]]
        BY <1>2, <3>2
      <4>2. w[Chosen(s)] \in Vec /\ k[s \ {Chosen(s)}] = f[s \ {Chosen(s)}] /\ k[s] = f[s]
        BY <4>1
      <4> HIDE DEF k
      <4>3. k[s] = Blocks!Xor(k[s \ {Chosen(s)}], w[Chosen(s)])
        BY <1>3, <4>1, <4>2
      <4> QED BY <3>2, <4>3 DEF XorStep
    <3> QED BY <3>1, <3>2
  <2>2. k = [s \in SUBSET S |-> k[s]]
    OBVIOUS
  <2> HIDE DEF k
  <2>3. k = [s \in SUBSET S |-> XorStep(k, s, w)]
    BY <2>1, <2>2
  <2> QED BY <2>3 DEF Xors, k
<1>5. ASSUME NEW S \in SUBSET Positions, NEW g, Xors(g, S, w) PROVE g[S] = f[S]
  <2>0. ASSUME NEW s \in SUBSET S PROVE g[s] = XorStep(g, s, w)
    BY <1>5 DEF Xors
  <2>1. g = [s \in SUBSET S |-> g[s]]
    BY <1>5 DEF Xors
  <2>2. g[{}] = zero
    BY <2>0 DEF XorStep, zero
  <2>3. ASSUME NEW s \in SUBSET S, s # {}, g[s \ {Chosen(s)}] \in Vec
        PROVE  g[s] = AddVec[g[s \ {Chosen(s)}]][w[Chosen(s)]]
    <3>1. g[s] = Blocks!Xor(g[s \ {Chosen(s)}], w[Chosen(s)])
      BY <2>0, <2>3 DEF XorStep
    <3>2. Chosen(s) \in Positions
      BY <2>3 DEF Chosen
    <3>3. w[Chosen(s)] \in Vec
      BY <3>2
    <3> QED BY <1>3, <2>3, <3>1, <3>3
  <2>4. ChosenSum(g, S, Vec, zero, AddVec, w)
    BY <2>1, <2>2, <2>3 DEF ChosenSum
  <2> QED BY <1>2, <2>4
<1> QED BY <1>1, <1>4, <1>5 DEF zero

\* What the parities are.
LEMMA ParityPIsSum ==
  ASSUME FramesSent
  PROVE  \E f : /\ SumOver(f, Positions, Vec, Blocks!Blank(Length), AddVec, PaddedFrames)
                /\ \A S \in SUBSET Positions : Blocks!ParityP(S) = f[S]
<1>1. PICK f : /\ SumOver(f, Positions, Vec, Blocks!Blank(Length), AddVec, PaddedFrames)
               /\ \A S \in SUBSET Positions :
                    /\ Xors([s \in SUBSET S |-> f[s]], S, PaddedFrames)
                    /\ \A g : Xors(g, S, PaddedFrames) => g[S] = f[S]
  BY PaddedType, XorsAreSums
<1>2. ASSUME NEW S \in SUBSET Positions PROVE Blocks!ParityP(S) = f[S]
  <2> DEFINE Step(g, s) == IF s = {} THEN Blocks!Blank(Length)
                           ELSE Blocks!Xor(g[s \ {Chosen(s)}], Blocks!Padded(frames[Chosen(s)]))
             Q(g) == g = [s \in SUBSET S |-> Step(g, s)]
             k == [s \in SUBSET S |-> f[s]]
             g == CHOOSE g : Q(g)
  <2>1. Blocks!ParityP(S) = g[S]
    BY Zenon DEF Blocks!ParityP, Blocks!FoldSet, Blocks!MapThenFoldSet, Chosen, Length
  <2>2. ASSUME NEW h, NEW s \in SUBSET S PROVE Step(h, s) = XorStep(h, s, PaddedFrames)
    <3>1. s # {} => Chosen(s) \in Positions
      BY DEF Chosen
    <3> QED BY <3>1 DEF XorStep, PaddedFrames
  <2>3. Q(k)
    <3>1. k = [s \in SUBSET S |-> XorStep(k, s, PaddedFrames)]
      BY <1>1 DEF Xors
    <3> HIDE DEF k, Step
    <3> QED BY <2>2, <3>1
  <2>4. Q(g)
    <3> HIDE DEF Q
    <3> QED BY <2>3, Zenon
  <2> HIDE DEF g
  <2>5. Xors(g, S, PaddedFrames)
    <3> HIDE DEF Step
    <3> QED BY <2>2, <2>4 DEF Xors
  <2> QED BY <1>1, <2>1, <2>5
<1> QED BY <1>1, <1>2

LEMMA ParityQIsSum ==
  ASSUME FramesSent
  PROVE  \E f : /\ SumOver(f, Positions, Vec, Blocks!Blank(Length), AddVec, ScaledFrames)
                /\ \A S \in SUBSET Positions : Blocks!ParityQ(S) = f[S]
<1>1. PICK f : /\ SumOver(f, Positions, Vec, Blocks!Blank(Length), AddVec, ScaledFrames)
               /\ \A S \in SUBSET Positions :
                    /\ Xors([s \in SUBSET S |-> f[s]], S, ScaledFrames)
                    /\ \A g : Xors(g, S, ScaledFrames) => g[S] = f[S]
  BY ScaledType, XorsAreSums
<1>2. ASSUME NEW S \in SUBSET Positions PROVE Blocks!ParityQ(S) = f[S]
  <2> DEFINE Step(g, s) == IF s = {} THEN Blocks!Blank(Length)
                           ELSE Blocks!Xor(g[s \ {Chosen(s)}],
                                           Blocks!Scale(Blocks!Padded(frames[Chosen(s)]), Weights[Chosen(s)]))
             Q(g) == g = [s \in SUBSET S |-> Step(g, s)]
             k == [s \in SUBSET S |-> f[s]]
             g == CHOOSE g : Q(g)
  <2>1. Blocks!ParityQ(S) = g[S]
    BY Zenon DEF Blocks!ParityQ, Blocks!FoldSet, Blocks!MapThenFoldSet, Chosen, Length, Weights
  <2>2. ASSUME NEW h, NEW s \in SUBSET S PROVE Step(h, s) = XorStep(h, s, ScaledFrames)
    <3>1. s # {} => Chosen(s) \in Positions
      BY DEF Chosen
    <3> QED BY <3>1 DEF XorStep, ScaledFrames
  <2>3. Q(k)
    <3>1. k = [s \in SUBSET S |-> XorStep(k, s, ScaledFrames)]
      BY <1>1 DEF Xors
    <3> HIDE DEF k, Step
    <3> QED BY <2>2, <3>1
  <2>4. Q(g)
    <3> HIDE DEF Q
    <3> QED BY <2>3, Zenon
  <2> HIDE DEF g
  <2>5. Xors(g, S, ScaledFrames)
    <3> HIDE DEF Step
    <3> QED BY <2>2, <2>4 DEF Xors
  <2> QED BY <1>1, <2>1, <2>5
<1> QED BY <1>1, <1>2

\* What the parities have left of one missing frame, or of two.
PLeft(missing) == Blocks!Xor(Blocks!ParityP(Positions), Blocks!ParityP(Positions \ missing))
QLeft(missing) == Blocks!Xor(Blocks!ParityQ(Positions), Blocks!ParityQ(Positions \ missing))

LEMMA LeftOfSum ==
  ASSUME NEW f, NEW w, SumOver(f, Positions, Vec, Blocks!Blank(Length), AddVec, w)
  PROVE  /\ \A x \in Positions : Blocks!Xor(f[Positions], f[Positions \ {x}]) = w[x]
         /\ \A x, y \in Positions : x # y =>
              Blocks!Xor(f[Positions], f[Positions \ {x, y}]) = AddVec[w[x]][w[y]]
<1>1. ASSUME NEW missing \in SUBSET Positions
      PROVE  Blocks!Xor(f[Positions], f[Positions \ missing]) = f[missing]
  <2> DEFINE t == Positions \ missing
  <2>1. Positions \in SUBSET Positions /\ t \in SUBSET Positions /\ (Positions \ t) \cup (t \ Positions) = missing
    OBVIOUS
  <2> HIDE DEF t
  <2>2. \A s \in SUBSET Positions : f[(s \ t) \cup (t \ s)] = AddVec[f[s]][f[t]]
    BY <2>1, SumOfDifference
  <2>3. f[missing] = AddVec[f[Positions]][f[t]]
    BY <2>1, <2>2
  <2>4. f[Positions] \in Vec /\ f[t] \in Vec
    BY <2>1 DEF SumOver
  <2>5. AddVec[f[Positions]][f[t]] = Blocks!Xor(f[Positions], f[t])
    BY <2>4, XorAdds
  <2> QED BY <2>3, <2>5 DEF t
<1>2. ASSUME NEW x \in Positions PROVE f[{x}] = w[x] /\ \A y \in Positions : y # x => f[{x, y}] = AddVec[w[x]][w[y]]
  BY SumOfFew
<1>3. ASSUME NEW x \in Positions PROVE Blocks!Xor(f[Positions], f[Positions \ {x}]) = w[x]
  BY <1>1, <1>2
<1>4. ASSUME NEW x \in Positions, NEW y \in Positions, x # y
      PROVE  Blocks!Xor(f[Positions], f[Positions \ {x, y}]) = AddVec[w[x]][w[y]]
  <2>1. {x, y} \in SUBSET Positions
    OBVIOUS
  <2>2. f[{x, y}] = AddVec[w[x]][w[y]]
    BY <1>2, <1>4
  <2> QED BY <1>1, <2>1, <2>2
<1> QED BY <1>3, <1>4

LEMMA LeftOfParities ==
  ASSUME FramesSent
  PROVE  /\ \A x \in Positions : PLeft({x}) = PaddedFrames[x]
         /\ \A x, y \in Positions : x # y =>
              /\ PLeft({x, y}) = AddVec[PaddedFrames[x]][PaddedFrames[y]]
              /\ QLeft({x, y}) = AddVec[ScaledFrames[x]][ScaledFrames[y]]
<1>1. PICK f : /\ SumOver(f, Positions, Vec, Blocks!Blank(Length), AddVec, PaddedFrames)
               /\ \A S \in SUBSET Positions : Blocks!ParityP(S) = f[S]
  BY ParityPIsSum
<1>2. PICK g : /\ SumOver(g, Positions, Vec, Blocks!Blank(Length), AddVec, ScaledFrames)
               /\ \A S \in SUBSET Positions : Blocks!ParityQ(S) = g[S]
  BY ParityQIsSum
<1>3. /\ \A x \in Positions : Blocks!Xor(f[Positions], f[Positions \ {x}]) = PaddedFrames[x]
      /\ \A x, y \in Positions : x # y =>
           Blocks!Xor(f[Positions], f[Positions \ {x, y}]) = AddVec[PaddedFrames[x]][PaddedFrames[y]]
  BY <1>1, LeftOfSum
<1>4. \A x, y \in Positions : x # y =>
        Blocks!Xor(g[Positions], g[Positions \ {x, y}]) = AddVec[ScaledFrames[x]][ScaledFrames[y]]
  BY <1>2, LeftOfSum
<1>5. \A m \in SUBSET Positions : Positions \ m \in SUBSET Positions /\ Positions \in SUBSET Positions
  OBVIOUS
<1>6. \A m \in SUBSET Positions : /\ PLeft(m) = Blocks!Xor(f[Positions], f[Positions \ m])
                                  /\ QLeft(m) = Blocks!Xor(g[Positions], g[Positions \ m])
  BY <1>1, <1>2, <1>5 DEF PLeft, QLeft
<1>7. ASSUME NEW x \in Positions PROVE PLeft({x}) = PaddedFrames[x]
  <2>1. {x} \in SUBSET Positions
    OBVIOUS
  <2> QED BY <1>3, <1>6, <2>1
<1>8. ASSUME NEW x \in Positions, NEW y \in Positions, x # y
      PROVE  /\ PLeft({x, y}) = AddVec[PaddedFrames[x]][PaddedFrames[y]]
             /\ QLeft({x, y}) = AddVec[ScaledFrames[x]][ScaledFrames[y]]
  <2>1. {x, y} \in SUBSET Positions
    OBVIOUS
  <2> QED BY <1>3, <1>4, <1>6, <1>8, <2>1
<1> QED BY <1>7, <1>8

\* Two equations for two vectors.
LEMMA TwoSolved ==
  ASSUME NEW a \in Vec, NEW b \in Vec, NEW c \in El, NEW d \in El, c # d
  PROVE  Blocks!SecondOfTwo(AddVec[a][b], AddVec[Blocks!Scale(a, c)][Blocks!Scale(b, d)], c, d) = b
<1> DEFINE p == AddVec[a][b]
           ac == Blocks!Scale(a, c)
           bd == Blocks!Scale(b, d)
           q == AddVec[ac][bd]
           pc == Blocks!Scale(p, c)
           r == Blocks!Xor(q, pc)
           e == Blocks!Plus(c, d)
           i == Blocks!GfInv(e)
<1>1. p \in Vec /\ \A k \in 1 .. Length : p[k] = Add[a[k]][b[k]]
  BY XorAdds
<1>2. ac \in Vec /\ bd \in Vec /\ \A k \in 1 .. Length : ac[k] = Blocks!GfMul(a[k], c) /\ bd[k] = Blocks!GfMul(b[k], d)
  BY ScaleType
<1> HIDE DEF p, ac, bd
<1>3. q \in Vec /\ \A k \in 1 .. Length : q[k] = Add[ac[k]][bd[k]]
  BY <1>2, XorAdds
<1>4. pc \in Vec /\ \A k \in 1 .. Length : pc[k] = Blocks!GfMul(p[k], c)
  BY <1>1, ScaleType
<1> HIDE DEF q, pc
<1>5. r \in Vec /\ \A k \in 1 .. Length : r[k] = Add[q[k]][pc[k]]
  BY <1>3, <1>4, XorAdds
<1>6. e \in El /\ e = Add[c][d] /\ e # {}
  BY AddsUp DEF Blocks!Plus, Blocks!SymDiff, El
<1> HIDE DEF e, r
<1>7. i \in El /\ \A x \in El : Blocks!GfMul(Blocks!GfMul(x, e), i) = x
  BY <1>6, Divides, Widths
<1> HIDE DEF i
<1>8. ASSUME NEW k \in 1 .. Length PROVE Blocks!Scale(r, i)[k] = b[k]
  <2> DEFINE u == Blocks!GfMul(a[k], c)
             v == Blocks!GfMul(b[k], d)
             w == Blocks!GfMul(b[k], c)
  <2>0. a[k] \in El /\ b[k] \in El
    BY DEF Vec
  <2>1. u \in El /\ v \in El /\ w \in El
    BY <2>0, MulType
  <2>2. Blocks!GfMul(p[k], c) = Add[u][w]
    BY <1>1, <2>0, MulLeft
  <2>3. r[k] = Add[Add[u][v]][Add[u][w]]
    BY <1>2, <1>3, <1>4, <1>5, <2>2
  <2>4. Blocks!GfMul(b[k], e) = Add[w][v]
    BY <1>6, <2>0, MulRight
  <2> HIDE DEF u, v, w
  <2>5. Add[Add[u][v]][Add[u][w]] = Add[w][v]
    <3>1. Add[Add[u][v]][Add[u][w]] = Add[Add[u][u]][Add[v][w]]
      BY <2>1, ElementsAdd, ExclusiveFour
    <3>2. Add[u][u] = {} /\ Add[v][w] = Add[w][v] /\ Add[v][w] \in El
      BY <2>1, ElementsAdd DEF Exclusive
    <3>3. Add[{}][Add[v][w]] = Add[v][w]
      BY <3>2, ElementsAdd, Widths DEF Exclusive
    <3> QED BY <3>1, <3>2, <3>3
  <2>6. Blocks!Scale(r, i)[k] = Blocks!GfMul(r[k], i)
    BY <1>5, <1>7, ScaleType
  <2> QED BY <1>7, <2>0, <2>3, <2>4, <2>5, <2>6
<1>9. Blocks!Scale(r, i) \in Vec
  BY <1>5, <1>7, ScaleType
<1>10. Blocks!Scale(r, i) = b
  BY <1>8, <1>9, SameVec
<1> QED BY <1>10 DEF Blocks!SecondOfTwo, r, i, e, pc, q, p, ac, bd

\* Whichever one or two frames are missing, they are recovered as they were padded.
LEMMA MissingRecovered ==
  ASSUME FramesSent, NEW missing \in SUBSET Positions, Blocks!Cardinality(missing) <= 2
  PROVE  \A i \in missing : Blocks!Recovered(missing)[i] = PaddedFrames[i]
<1>0. IsFiniteSet(missing) /\ Cardinality(missing) \in Nat /\ Cardinality(missing) <= 2
  BY FramesAre, BlocksCount, FS_Subset, FS_CardinalityType
<1>1. CASE missing = {}
  BY <1>1
<1>2. CASE Cardinality(missing) = 1
  <2>1. PICK x : missing = {x}
    BY <1>0, <1>2, FS_Singleton
  <2>2. Blocks!Recovered(missing) = [i \in missing |-> PLeft(missing)]
    <3>1. missing # {} /\ Blocks!Cardinality(missing) = 1
      BY <1>2, <2>1, BlocksCount
    <3> QED BY <3>1 DEF Blocks!Recovered, PLeft, Positions
  <2>3. x \in Positions /\ PLeft({x}) = PaddedFrames[x]
    BY <2>1, LeftOfParities
  <2> QED BY <2>1, <2>2, <2>3
<1>3. CASE Cardinality(missing) = 2
  <2> DEFINE x == Blocks!Min(missing)
             y == Blocks!Max(missing)
  <2>1. missing \subseteq Nat
    BY FramesAre, BlockAssumption
  <2>2. PICK u \in missing, v \in missing : u < v /\ missing = {u, v}
    <3>1. PICK u \in missing : TRUE
      BY <1>0, <1>3, FS_EmptySet
    <3>2. IsFiniteSet(missing \ {u}) /\ Cardinality(missing \ {u}) = 1
      BY <1>0, <1>3, <3>1, FS_RemoveElement
    <3>3. PICK v : missing \ {u} = {v}
      BY <3>2, FS_Singleton
    <3>4. v \in missing /\ u # v /\ missing = {u, v} /\ u \in Nat /\ v \in Nat
      BY <2>1, <3>1, <3>3
    <3> QED BY <3>1, <3>4
  <2>3. x = u /\ y = v
    <3>0. u \in Nat /\ v \in Nat
      BY <2>1
    <3>1. (\E m \in missing : \A n \in missing : m <= n) /\ (\E m \in missing : \A n \in missing : m >= n)
      BY <2>2, <3>0
    <3>2. x \in missing /\ (\A n \in missing : x <= n) /\ y \in missing /\ (\A n \in missing : y >= n)
      BY <3>1 DEF Blocks!Min, Blocks!Max
    <3> QED BY <2>2, <3>0, <3>2
  <2> HIDE DEF x, y
  <2>4. u \in Positions /\ v \in Positions /\ u # v
    BY <2>1, <2>2
  <2> DEFINE a == PaddedFrames[u]
             b == PaddedFrames[v]
             c == Weights[u]
             d == Weights[v]
             frame == Blocks!SecondOfTwo(PLeft(missing), QLeft(missing), c, d)
  <2>5. a \in Vec /\ b \in Vec /\ c \in El /\ d \in El /\ c # d
    BY <2>4, PaddedType, WeightsDiffer
  <2>6. PLeft(missing) = AddVec[a][b] /\ QLeft(missing) = AddVec[Blocks!Scale(a, c)][Blocks!Scale(b, d)]
    <3>1. ScaledFrames[u] = Blocks!Scale(a, c) /\ ScaledFrames[v] = Blocks!Scale(b, d)
      BY <2>4 DEF ScaledFrames, PaddedFrames
    <3> QED BY <2>2, <2>4, <3>1, LeftOfParities
  <2>7. Blocks!Recovered(missing) = [i \in missing |-> IF i = y THEN frame ELSE Blocks!Xor(PLeft(missing), frame)]
    <3>1. missing # {} /\ Blocks!Cardinality(missing) # 1 /\ Blocks!Cardinality(missing) = 2
      BY <1>3, <2>2, BlocksCount
    <3> QED BY <2>3, <3>1 DEF Blocks!Recovered, PLeft, QLeft, Positions, Weights, x, y
  <2> HIDE DEF a, b, c, d
  <2>8. frame = b
    BY <2>5, <2>6, TwoSolved
  <2>9. Blocks!Xor(PLeft(missing), frame) = a
    <3>1. AddVec[a][b] \in Vec
      BY <2>5, XorAdds
    <3>2. Blocks!Xor(AddVec[a][b], b) = AddVec[AddVec[a][b]][b]
      BY <2>5, <3>1, XorAdds
    <3>3. \A f, g \in Vec : AddVec[AddVec[f][g]][g] = f
      BY VecsAdd, ExclusiveFacts
    <3> HIDE DEF frame
    <3> QED BY <2>5, <2>6, <2>8, <3>2, <3>3
  <2> HIDE DEF frame
  <2>10. ASSUME NEW i \in missing PROVE Blocks!Recovered(missing)[i] = PaddedFrames[i]
    BY <2>2, <2>3, <2>7, <2>8, <2>9 DEF a, b
  <2> QED BY <2>10
<1>4. missing = {} \/ Cardinality(missing) \in 1 .. 2
  BY <1>0, FS_EmptySet
<1> QED BY <1>1, <1>2, <1>3, <1>4

-----------------------------------------------------------------------------
BlocksInv ==
  /\ FramesSent /\ blockStart \in Starts
  /\ received \subseteq {Blocks!Members[i] : i \in Positions}
  /\ state \in {"collecting", "recovered", "unrecoverable"}
  /\ output = IF state = "recovered" THEN frames ELSE <<>>
  /\ Blocks!GivenUpOnlyBeyondTwo

LEMMA BlocksStart == Blocks!Init => BlocksInv
<1> SUFFICES ASSUME Blocks!Init PROVE BlocksInv
  OBVIOUS
<1>1. FramesSent
  BY DEF Blocks!Init, FramesSent
<1> QED BY <1>1 DEF Blocks!Init, BlocksInv, Blocks!GivenUpOnlyBeyondTwo

LEMMA BlocksArrive ==
  ASSUME BlocksInv, NEW i \in Positions,
         Blocks!Arrive((blockStart + i - 1) % 2 ^ SequenceBits)
  PROVE  BlocksInv'
<1>1. /\ received' = received \cup {(blockStart + i - 1) % 2 ^ SequenceBits} /\ state = "collecting"
      /\ blockStart' = blockStart /\ frames' = frames /\ state' = state /\ output' = output
  BY DEF Blocks!Arrive
<1>2. Blocks!Members[i] = (blockStart + i - 1) % 2 ^ SequenceBits
  BY FramesAre DEF BlocksInv, Blocks!Members, Blocks!MemberSequences
<1>3. Blocks!Members' = Blocks!Members /\ Positions' = Positions /\ (FramesSent <=> FramesSent')
  BY <1>1 DEF Blocks!Members, Positions, FramesSent
<1>4. received' \subseteq {Blocks!Members'[j] : j \in Positions'}
  BY <1>1, <1>2, <1>3 DEF BlocksInv
<1>5. Blocks!GivenUpOnlyBeyondTwo'
  BY <1>1 DEF Blocks!GivenUpOnlyBeyondTwo
<1> QED BY <1>1, <1>3, <1>4, <1>5 DEF BlocksInv

\* As many of a block's sequences arrived at most as positions whose sequence did.
LEMMA FewReceived ==
  ASSUME BlocksInv, NEW missing, missing = {i \in Positions : Blocks!Members[i] \notin received}
  PROVE  /\ IsFiniteSet(received) /\ Cardinality(missing) \in Nat /\ Cardinality(received) \in Nat
         /\ Cardinality(received) <= Len(frames) - Cardinality(missing)
<1> DEFINE there == Positions \ missing
           image == {Blocks!Members[i] : i \in there}
<1>1. IsFiniteSet(Positions) /\ Cardinality(Positions) = Len(frames) /\ Len(frames) \in Nat
  <2>1. Positions = 1 .. Len(frames) /\ Len(frames) \in Nat /\ Len(frames) >= 1
    BY FramesAre, BlockAssumption DEF BlocksInv
  <2>2. IsFiniteSet(1 .. Len(frames)) /\ Cardinality(1 .. Len(frames)) = Len(frames)
    BY <2>1, FS_Interval
  <2> QED BY <2>1, <2>2
<1>2. IsFiniteSet(missing) /\ IsFiniteSet(there) /\ Cardinality(missing) \in Nat /\ Cardinality(there) \in Nat
  BY <1>1, FS_Subset, FS_CardinalityType
<1>3. Cardinality(there) = Len(frames) - Cardinality(missing)
  <2>1. Cardinality(Positions \ missing) = Cardinality(Positions) - Cardinality(Positions \cap missing)
    BY <1>1, FS_Difference
  <2>2. Positions \cap missing = missing
    OBVIOUS
  <2> QED BY <1>1, <2>1, <2>2
<1>4. received \subseteq image
  BY DEF BlocksInv
<1>5. IsFiniteSet(image) /\ Cardinality(image) <= Cardinality(there) /\ Cardinality(image) \in Nat
  <2>1. IsFiniteSet(image) /\ Cardinality(image) <= Cardinality(there)
    <3> DEFINE f == [i \in there |-> Blocks!Members[i]]
    <3>1. f \in Surjection(there, image)
      BY DEF Surjection
    <3> HIDE DEF there, image, f
    <3> QED BY <1>2, <3>1, FS_Surjection
  <2> QED BY <2>1, FS_CardinalityType
<1>6. IsFiniteSet(received) /\ Cardinality(received) <= Cardinality(image) /\ Cardinality(received) \in Nat
  BY <1>4, <1>5, FS_Subset, FS_CardinalityType
<1> HIDE DEF image, there
<1> QED BY <1>1, <1>2, <1>3, <1>5, <1>6

LEMMA BlocksRecover ==
  ASSUME BlocksInv, Blocks!Recover
  PROVE  BlocksInv'
<1> DEFINE missing == {i \in Positions : Blocks!Members[i] \notin received}
<1>0. FramesSent /\ missing \in SUBSET Positions
  BY DEF BlocksInv
<1>1. /\ state = "collecting" /\ blockStart' = blockStart /\ frames' = frames /\ received' = received
      /\ \/ Blocks!Cardinality(missing) > 2 /\ state' = "unrecoverable" /\ output' = output
         \/ /\ Blocks!Cardinality(missing) <= 2 /\ state' = "recovered"
            /\ output' = [i \in Positions |->
                 Blocks!Truncated(IF i \in missing THEN Blocks!Recovered(missing)[i] ELSE Blocks!Padded(frames[i]),
                                  Len(frames[i]))]
  BY DEF Blocks!Recover, Positions
<1>2. Blocks!Members' = Blocks!Members /\ Positions' = Positions /\ (FramesSent <=> FramesSent')
  BY <1>1 DEF Blocks!Members, Positions, FramesSent
<1>3. received' \subseteq {Blocks!Members'[j] : j \in Positions'}
  BY <1>1, <1>2 DEF BlocksInv
<1>4. CASE Blocks!Cardinality(missing) > 2 /\ state' = "unrecoverable" /\ output' = output
  <2>1. Cardinality(received) < Len(frames) - 2
    <3>1. /\ Cardinality(missing) \in Nat /\ Cardinality(received) \in Nat /\ Len(frames) \in Nat
          /\ Cardinality(received) <= Len(frames) - Cardinality(missing)
      BY <1>0, FewReceived, FramesAre, BlockAssumption
    <3>2. Cardinality(missing) > 2
      BY <1>4, BlocksCount
    <3> HIDE DEF missing
    <3> QED BY <3>1, <3>2
  <2>2. Blocks!GivenUpOnlyBeyondTwo'
    BY <1>1, <2>1, BlocksCount DEF Blocks!GivenUpOnlyBeyondTwo
  <2>3. output' = <<>>
    BY <1>1, <1>4 DEF BlocksInv
  <2> QED BY <1>0, <1>1, <1>2, <1>3, <1>4, <2>2, <2>3 DEF BlocksInv
<1>5. CASE /\ Blocks!Cardinality(missing) <= 2 /\ state' = "recovered"
           /\ output' = [i \in Positions |->
                Blocks!Truncated(IF i \in missing THEN Blocks!Recovered(missing)[i] ELSE Blocks!Padded(frames[i]),
                                 Len(frames[i]))]
  <2>1. \A i \in missing : Blocks!Recovered(missing)[i] = PaddedFrames[i]
    <3> HIDE DEF missing
    <3> QED BY <1>0, <1>5, MissingRecovered
  <2>2. \A i \in Positions : /\ PaddedFrames[i] = Blocks!Padded(frames[i])
                             /\ Blocks!Truncated(Blocks!Padded(frames[i]), Len(frames[i])) = frames[i]
    BY <1>0, PaddedType
  <2> HIDE DEF missing
  <2>3. output' = [i \in Positions |-> frames[i]]
    BY <1>0, <1>5, <2>1, <2>2
  <2>4. frames = [i \in Positions |-> frames[i]]
    BY <1>0 DEF FramesSent, Positions
  <2>5. Blocks!GivenUpOnlyBeyondTwo'
    BY <1>5 DEF Blocks!GivenUpOnlyBeyondTwo
  <2> QED BY <1>0, <1>1, <1>2, <1>3, <1>5, <2>3, <2>4, <2>5 DEF BlocksInv
<1> QED BY <1>1, <1>4, <1>5

LEMMA BlocksStep == BlocksInv /\ [Blocks!Next]_(Blocks!vars) => BlocksInv'
<1> SUFFICES ASSUME BlocksInv, [Blocks!Next]_(Blocks!vars) PROVE BlocksInv'
  OBVIOUS
<1>1. CASE UNCHANGED Blocks!vars
  <2>1. /\ blockStart' = blockStart /\ frames' = frames /\ received' = received
        /\ state' = state /\ output' = output
    BY <1>1 DEF Blocks!vars
  <2> QED BY <2>1 DEF BlocksInv, FramesSent, Positions, Blocks!Members, Blocks!GivenUpOnlyBeyondTwo
<1>2. ASSUME NEW i \in Positions, Blocks!Arrive((blockStart + i - 1) % 2 ^ SequenceBits) PROVE BlocksInv'
  BY <1>2, BlocksArrive
<1> QED BY <1>1, <1>2, BlocksRecover DEF Blocks!Next, Positions

LEMMA BlocksTyped == BlocksInv => Blocks!TypeOK
<1> SUFFICES ASSUME BlocksInv PROVE Blocks!TypeOK
  OBVIOUS
<1>1. frames \in Seq(Samples) /\ Positions = 1 .. Len(frames) /\ Len(frames) \in Nat
  BY FramesAre, BlockAssumption DEF BlocksInv
<1>2. received \subseteq Blocks!Range(Blocks!Members)
  <2>1. DOMAIN Blocks!Members = Positions
    BY <1>1 DEF Blocks!Members, Blocks!MemberSequences
  <2> QED BY <2>1 DEF BlocksInv, Blocks!Range
<1>3. frames \in Seq(Seq(Blocks!Element))
  <2>1. Samples \subseteq Seq(Blocks!Element)
    BY BlockAssumption DEF Blocks!Element
  <2> QED BY <1>1, <2>1
<1>4. <<>> \in Seq(Seq(Blocks!Element)) /\ Len(<<>>) = 0
  OBVIOUS
<1>5. output \in Seq(Seq(Blocks!Element)) /\ Len(output) = IF state = "recovered" THEN Len(frames) ELSE 0
  BY <1>3, <1>4 DEF BlocksInv
<1> QED BY <1>1, <1>2, <1>5 DEF BlocksInv, Blocks!TypeOK

LEMMA BlocksRendered == BlocksInv => BlocksRecovered
BY DEF BlocksInv, BlocksRecovered, Blocks!RecoveredExactly

-----------------------------------------------------------------------------
(***************************************************************************)
(* Pointers.  Texts are sequences of characters, and a property of every   *)
(* text is shown by appending one character after the other.               *)
(***************************************************************************)
Chars == STRING \cup {"~", "/"} \cup Pointers!Range(Pointers!Digits)
Strings == Seq(Chars)

LEMMA Written ==
  /\ "~" \in Chars /\ "/" \in Chars /\ STRING \subseteq Chars
  /\ \A i \in 1 .. 10 : Pointers!Digits[i] \in Chars
  /\ "0" \in Chars /\ "1" \in Chars
<1>1. \A i \in DOMAIN Pointers!Digits : Pointers!Digits[i] \in Pointers!Range(Pointers!Digits)
  BY Zenon DEF Pointers!Range
<1>2. DOMAIN Pointers!Digits = 1 .. 10 /\ Pointers!Digits[1] = "0" /\ Pointers!Digits[2] = "1"
  BY DEF Pointers!Digits
<1>3. \A i \in 1 .. 10 : Pointers!Digits[i] \in Chars
  BY <1>1, <1>2 DEF Chars
<1>4. "~" \in Chars /\ "/" \in Chars /\ STRING \subseteq Chars
  BY DEF Chars
<1>5. Pointers!Digits[1] \in Chars /\ Pointers!Digits[2] \in Chars
  BY <1>3
<1> QED BY <1>2, <1>3, <1>4, <1>5

LEMMA EverySeq ==
  ASSUME NEW C, NEW T, <<>> \in T, \A s \in Seq(C) : \A c \in C : s \in T => Append(s, c) \in T
  PROVE  Seq(C) \subseteq T
<1> DEFINE Long == {n \in Nat : \A s \in Seq(C) : Len(s) = n => s \in T}
<1>1. ASSUME NEW n \in Nat, 0 .. n - 1 \subseteq Long PROVE n \in Long
  <2> SUFFICES ASSUME NEW s \in Seq(C), Len(s) = n PROVE s \in T
    OBVIOUS
  <2>1. CASE n = 0
    <3>1. s = <<>>
      BY <2>1
    <3> QED BY <3>1
  <2>2. CASE n # 0
    <3> DEFINE r == [i \in 1 .. n - 1 |-> s[i]]
    <3>1. r \in Seq(C) /\ Len(r) = n - 1 /\ n - 1 \in 0 .. n - 1
      <4>1. \A i \in 1 .. n - 1 : s[i] \in C
        OBVIOUS
      <4>2. n - 1 \in Nat
        BY <2>2
      <4> QED BY <4>1, <4>2
    <3>2. s[n] \in C /\ s = Append(r, s[n])
      <4>1. s[n] \in C /\ \A i \in 1 .. n : s[i] \in C
        BY <2>2
      <4>2. Append(r, s[n]) \in Seq(C) /\ Len(Append(r, s[n])) = n
        BY <3>1, <4>1
      <4>3. \A i \in 1 .. n : Append(r, s[n])[i] = s[i]
        BY <3>1
      <4> HIDE DEF r
      <4> QED BY <4>2, <4>3
    <3>3. r \in T
      BY <1>1, <3>1
    <3> QED BY <3>1, <3>2, <3>3
  <2> QED BY <2>1, <2>2
<1>2. Nat \subseteq Long
  <2> HIDE DEF Long
  <2> QED BY <1>1, EveryNat
<1> QED BY <1>2

LEMMA SameSeq ==
  ASSUME NEW C, NEW s \in Seq(C), NEW t \in Seq(C), Len(s) = Len(t), \A i \in 1 .. Len(s) : s[i] = t[i]
  PROVE  s = t
OBVIOUS

LEMMA Joined ==
  ASSUME NEW C, NEW s \in Seq(C), NEW t \in Seq(C)
  PROVE  /\ s \o t \in Seq(C) /\ Len(s \o t) = Len(s) + Len(t)
         /\ \A i \in 1 .. Len(s) : (s \o t)[i] = s[i]
         /\ \A i \in 1 .. Len(t) : (s \o t)[Len(s) + i] = t[i]
         /\ s \o <<>> = s /\ <<>> \o s = s
OBVIOUS

LEMMA JoinedThrice ==
  ASSUME NEW C, NEW s \in Seq(C), NEW t \in Seq(C), NEW u \in Seq(C)
  PROVE  (s \o t) \o u = s \o (t \o u)
OBVIOUS

LEMMA Appended ==
  ASSUME NEW C, NEW s \in Seq(C), NEW t \in Seq(C), NEW c \in C
  PROVE  /\ Append(s, c) = s \o <<c>> /\ s \o Append(t, c) = Append(s \o t, c)
         /\ Append(s, c) \in Seq(C) /\ Append(s, c) # <<>> /\ <<c>> \in Seq(C) /\ Append(<<>>, c) = <<c>>
OBVIOUS

LEMMA Texts ==
  /\ <<>> \in Strings
  /\ \A c \in Chars : <<c>> \in Strings
  /\ \A s, t \in Strings : s \o t \in Strings
  /\ \A s \in Strings : \A c \in Chars : Append(s, c) \in Strings /\ Append(s, c) = s \o <<c>>
  /\ \A s \in Strings : s \o <<>> = s /\ <<>> \o s = s
  /\ \A s, t, u \in Strings : (s \o t) \o u = s \o (t \o u)
<1>1. \A s, t \in Strings : s \o t \in Strings /\ s \o <<>> = s /\ <<>> \o s = s
  BY DEF Strings
<1>2. \A s, t, u \in Strings : (s \o t) \o u = s \o (t \o u)
  BY DEF Strings
<1>3. /\ <<>> \in Strings /\ \A c \in Chars : <<c>> \in Strings
      /\ \A s \in Strings : \A c \in Chars : Append(s, c) \in Strings /\ Append(s, c) = s \o <<c>>
  <2> DEFINE C == Chars
  <2>1. Strings = Seq(C)
    BY DEF Strings
  <2> HIDE DEF C
  <2>2. /\ <<>> \in Strings /\ \A c \in C : <<c>> \in Strings
        /\ \A s \in Strings : \A c \in C : Append(s, c) \in Strings /\ Append(s, c) = s \o <<c>>
    BY <2>1
  <2> QED BY <2>2 DEF C
<1> QED BY <1>1, <1>2, <1>3

\* A pair at i.
Pair(t, digit, i) == t[i] = "~" /\ i < Len(t) /\ t[i + 1] = digit
RestOf(f, t, digit, char, i) ==
  IF i > Len(t) THEN <<>>
  ELSE IF Pair(t, digit, i) THEN <<char>> \o f[i + 2] ELSE <<t[i]>> \o f[i + 1]
Rests(t, digit, char) ==
  CHOOSE f : f = [i \in 1 .. Len(t) + 1 |-> RestOf(f, t, digit, char, i)]

LEMMA RestsAre ==
  ASSUME NEW t \in Strings, NEW digit \in Chars, NEW char \in Chars
  PROVE  /\ Rests(t, digit, char) \in [1 .. Len(t) + 1 -> Strings]
         /\ \A i \in 1 .. Len(t) + 1 :
              Rests(t, digit, char)[i] = RestOf(Rests(t, digit, char), t, digit, char, i)
         /\ Pointers!Replace(t, digit, char) = Rests(t, digit, char)[1]
<1> DEFINE n == Len(t)
           Q(f) == f = [i \in 1 .. n + 1 |-> RestOf(f, t, digit, char, i)]
           R(g, m) == IF m = 0 THEN <<>>
                      ELSE IF Pair(t, digit, n + 1 - m) THEN <<char>> \o g[m - 2] ELSE <<t[n + 1 - m]>> \o g[m - 1]
           h == [m \in Nat |-> [g \in [0 .. m - 1 -> Strings] |-> IF m > n THEN <<>> ELSE R(g, m)]]
<1>0. n \in Nat /\ \A i \in 1 .. n : t[i] \in Chars
  BY DEF Strings
<1>1. \A c \in Chars : \A s \in Strings : <<c>> \o s \in Strings
  BY Texts
<1>2. \A m \in Nat : \A g \in [0 .. m - 1 -> Strings] : h[m][g] \in Strings
  <2> SUFFICES ASSUME NEW m \in Nat, NEW g \in [0 .. m - 1 -> Strings] PROVE h[m][g] \in Strings
    OBVIOUS
  <2>0. <<>> \in Strings
    BY DEF Strings
  <2>1. h[m][g] = IF m > n THEN <<>> ELSE R(g, m)
    OBVIOUS
  <2>2. CASE m > n \/ m = 0
    BY <2>0, <2>1, <2>2
  <2>3. CASE m \in 1 .. n
    <3>1. n + 1 - m \in 1 .. n /\ m - 1 \in 0 .. m - 1
      BY <1>0, <2>3
    <3>2. t[n + 1 - m] \in Chars /\ g[m - 1] \in Strings
      BY <1>0, <3>1
    <3>3. Pair(t, digit, n + 1 - m) => m - 2 \in 0 .. m - 1
      BY <1>0, <2>3 DEF Pair
    <3>4. Pair(t, digit, n + 1 - m) => g[m - 2] \in Strings
      BY <3>3
    <3>5. R(g, m) \in Strings
      BY <1>1, <2>0, <3>2, <3>4
    <3> HIDE DEF R, h
    <3> QED BY <2>1, <2>3, <3>5
  <2> HIDE DEF R, h
  <2> QED BY <1>0, <2>2, <2>3
<1>3. PICK f \in [Nat -> Strings] : Recurs(f, h)
  <2> HIDE DEF h
  <2> QED BY <1>2, Recursion
<1>4. ASSUME NEW m \in 0 .. n PROVE f[m] = R(f, m)
  <2> DEFINE g == [k \in 0 .. m - 1 |-> f[k]]
  <2>0. m \in Nat /\ ~ (m > n)
    BY <1>0
  <2>1. g \in [0 .. m - 1 -> Strings]
    OBVIOUS
  <2>2. f[m] = h[m][g]
    BY <1>3, <2>0 DEF Recurs
  <2>3. h[m][g] = R(g, m)
    BY <2>0, <2>1
  <2>4. R(g, m) = R(f, m)
    <3>1. CASE m = 0
      BY <3>1
    <3>2. CASE m # 0
      <4>1. m - 1 \in 0 .. m - 1
        BY <2>0, <3>2
      <4>2. Pair(t, digit, n + 1 - m) => m - 2 \in 0 .. m - 1
        BY <1>0, <2>0, <3>2 DEF Pair
      <4>3. g[m - 1] = f[m - 1] /\ (Pair(t, digit, n + 1 - m) => g[m - 2] = f[m - 2])
        BY <4>1, <4>2
      <4> HIDE DEF g
      <4> QED BY <3>2, <4>3
    <3> QED BY <3>1, <3>2
  <2> HIDE DEF g, h, R
  <2> QED BY <2>2, <2>3, <2>4
<1> DEFINE k == [i \in 1 .. n + 1 |-> f[n + 1 - i]]
<1>5. ASSUME NEW i \in 1 .. n + 1 PROVE k[i] = RestOf(k, t, digit, char, i)
  <2> DEFINE m == n + 1 - i
  <2>1. m \in 0 .. n /\ n + 1 - m = i /\ (m = 0 <=> i > n)
    BY <1>0
  <2>2. k[i] = R(f, m)
    BY <1>4, <2>1
  <2>3. CASE i > n
    BY <2>1, <2>2, <2>3 DEF RestOf
  <2>4. CASE ~ (i > n)
    <3>1. i + 1 \in 1 .. n + 1 /\ n + 1 - (i + 1) = m - 1
      BY <1>0, <2>4
    <3>2. Pair(t, digit, i) => i + 2 \in 1 .. n + 1 /\ n + 1 - (i + 2) = m - 2
      BY <1>0 DEF Pair
    <3>3. k[i + 1] = f[m - 1] /\ (Pair(t, digit, i) => k[i + 2] = f[m - 2])
      BY <3>1, <3>2
    <3>4. R(f, m) = IF Pair(t, digit, i) THEN <<char>> \o f[m - 2] ELSE <<t[i]>> \o f[m - 1]
      <4> HIDE DEF m
      <4> QED BY <2>1, <2>4
    <3> HIDE DEF k, m, R
    <3> QED BY <2>2, <2>4, <3>3, <3>4 DEF RestOf
  <2> QED BY <2>3, <2>4
<1>6. Q(k)
  <2>1. k = [i \in 1 .. n + 1 |-> k[i]]
    OBVIOUS
  <2> HIDE DEF k, n
  <2> QED BY <1>5, <2>1
<1>7. Q(Rests(t, digit, char))
  <2>1. Rests(t, digit, char) = CHOOSE g : Q(g)
    BY DEF Rests
  <2> HIDE DEF Q
  <2> QED BY <1>6, <2>1, Zenon
<1> DEFINE r == Rests(t, digit, char)
<1>8. Pointers!Replace(t, digit, char) = r[1]
  BY Zenon DEF Pointers!Replace, Rests, RestOf, Pair
<1> HIDE DEF r
<1>9. ASSUME NEW i \in 1 .. n + 1 PROVE r[i] = RestOf(r, t, digit, char, i)
  BY <1>7 DEF r
<1>10. r = [i \in 1 .. n + 1 |-> r[i]]
  BY <1>7 DEF r
<1> DEFINE Good == {m \in Nat : m <= n => r[n + 1 - m] \in Strings}
<1>11. ASSUME NEW m \in Nat, 0 .. m - 1 \subseteq Good PROVE m \in Good
  <2> SUFFICES ASSUME m <= n PROVE r[n + 1 - m] \in Strings
    OBVIOUS
  <2> DEFINE i == n + 1 - m
  <2>1. i \in 1 .. n + 1 /\ <<>> \in Strings
    BY <1>0 DEF Strings
  <2>2. CASE m = 0
    <3>1. i > n
      BY <1>0, <2>2
    <3> HIDE DEF i
    <3> QED BY <1>9, <2>1, <3>1 DEF RestOf, i
  <2>3. CASE m # 0
    <3>1. ~ (i > n) /\ i \in 1 .. n /\ m - 1 \in 0 .. m - 1 /\ m - 1 <= n /\ n + 1 - (m - 1) = i + 1
      BY <1>0, <2>3
    <3>2. Pair(t, digit, i) => m - 2 \in 0 .. m - 1 /\ m - 2 <= n /\ n + 1 - (m - 2) = i + 2
      BY <1>0, <2>3 DEF Pair
    <3>3. r[i + 1] \in Strings
      BY <1>11, <3>1
    <3>4. Pair(t, digit, i) => r[i + 2] \in Strings
      BY <1>11, <3>2
    <3>5. r[i] = IF Pair(t, digit, i) THEN <<char>> \o r[i + 2] ELSE <<t[i]>> \o r[i + 1]
      <4> HIDE DEF i
      <4> QED BY <1>9, <2>1, <3>1 DEF RestOf
    <3>6. t[i] \in Chars
      BY <1>0, <3>1
    <3> HIDE DEF i
    <3>7. r[i] \in Strings
      BY <1>1, <3>3, <3>4, <3>5, <3>6
    <3> QED BY <3>7 DEF i
  <2> QED BY <2>2, <2>3
<1>12. Nat \subseteq Good
  <2> HIDE DEF Good
  <2> QED BY <1>11, EveryNat
<1>13. ASSUME NEW i \in 1 .. n + 1 PROVE r[i] \in Strings
  <2>1. n + 1 - i \in Nat /\ n + 1 - i <= n /\ n + 1 - (n + 1 - i) = i
    BY <1>0
  <2> QED BY <1>12, <2>1
<1>14. r \in [1 .. n + 1 -> Strings]
  BY <1>10, <1>13
<1> QED BY <1>8, <1>9, <1>14 DEF r

\* Texts are replaced one after the other, where no pair begins in one and ends
\* in the next.
LEMMA ReplaceJoined ==
  ASSUME NEW s \in Strings, NEW u \in Strings, NEW digit \in Chars, NEW char \in Chars,
         s = <<>> \/ s[Len(s)] # "~"
  PROVE  Pointers!Replace(s \o u, digit, char)
           = Pointers!Replace(s, digit, char) \o Pointers!Replace(u, digit, char)
<1> DEFINE t == s \o u
           n == Len(s)
           k == Len(u)
           f == Rests(t, digit, char)
           fs == Rests(s, digit, char)
           fu == Rests(u, digit, char)
<1>0. /\ n \in Nat /\ k \in Nat /\ t \in Strings /\ Len(t) = n + k
      /\ \A i \in 1 .. n : t[i] = s[i] /\ s[i] \in Chars
      /\ \A i \in 1 .. k : t[n + i] = u[i] /\ u[i] \in Chars
      /\ (n = 0 \/ s[n] # "~")
  BY DEF Strings
<1>1. /\ f \in [1 .. n + k + 1 -> Strings]
      /\ \A i \in 1 .. n + k + 1 : f[i] = RestOf(f, t, digit, char, i)
      /\ Pointers!Replace(t, digit, char) = f[1]
  <2>1. Len(t) + 1 = n + k + 1
    BY <1>0
  <2>2. ASSUME NEW w \in Strings
        PROVE  /\ Rests(w, digit, char) \in [1 .. Len(w) + 1 -> Strings]
               /\ \A i \in 1 .. Len(w) + 1 :
                    Rests(w, digit, char)[i] = RestOf(Rests(w, digit, char), w, digit, char, i)
               /\ Pointers!Replace(w, digit, char) = Rests(w, digit, char)[1]
    BY RestsAre
  <2> HIDE DEF t, n, k
  <2>3. /\ f \in [1 .. Len(t) + 1 -> Strings]
        /\ \A i \in 1 .. Len(t) + 1 : f[i] = RestOf(f, t, digit, char, i)
        /\ Pointers!Replace(t, digit, char) = f[1]
    BY <1>0, <2>2
  <2> HIDE DEF f
  <2> QED BY <2>1, <2>3
<1>2. /\ fs \in [1 .. n + 1 -> Strings]
      /\ \A i \in 1 .. n + 1 : fs[i] = RestOf(fs, s, digit, char, i)
      /\ Pointers!Replace(s, digit, char) = fs[1]
  BY RestsAre
<1>3. /\ fu \in [1 .. k + 1 -> Strings]
      /\ \A i \in 1 .. k + 1 : fu[i] = RestOf(fu, u, digit, char, i)
      /\ Pointers!Replace(u, digit, char) = fu[1]
  BY RestsAre
<1>10. Len(u) = k /\ Len(s) = n
  OBVIOUS
<1> HIDE DEF t, n, k, f, fs, fu
<1> DEFINE Later == {m \in Nat : m <= k => f[n + (k + 1 - m)] = fu[k + 1 - m]}
           Sooner == {m \in Nat : m <= n => f[n + 1 - m] = fs[n + 1 - m] \o fu[1]}
<1>4. ASSUME NEW m \in Nat, 0 .. m - 1 \subseteq Later PROVE m \in Later
  <2> SUFFICES ASSUME m <= k PROVE f[n + (k + 1 - m)] = fu[k + 1 - m]
    OBVIOUS
  <2> DEFINE i == k + 1 - m
  <2>1. i \in 1 .. k + 1 /\ n + i \in 1 .. n + k + 1 /\ (i > k <=> m = 0) /\ (n + i > n + k <=> i > k)
    BY <1>0
  <2>2. f[n + i] = RestOf(f, t, digit, char, n + i) /\ fu[i] = RestOf(fu, u, digit, char, i)
    BY <1>1, <1>3, <2>1
  <2>3. CASE m = 0
    <3> HIDE DEF i
    <3>1. f[n + i] = <<>> /\ fu[i] = <<>>
      BY <1>0, <1>10, <2>1, <2>2, <2>3 DEF RestOf
    <3> QED BY <3>1 DEF i
  <2>4. CASE m # 0
    <3>1. i \in 1 .. k /\ ~ (i > k) /\ ~ (n + i > n + k)
      BY <1>0, <2>1, <2>4
    <3>2. /\ m - 1 \in 0 .. m - 1 /\ m - 1 <= k /\ n + (k + 1 - (m - 1)) = (n + i) + 1 /\ k + 1 - (m - 1) = i + 1
          /\ i < k => /\ m - 2 \in 0 .. m - 1 /\ m - 2 <= k /\ n + (k + 1 - (m - 2)) = (n + i) + 2
                      /\ k + 1 - (m - 2) = i + 2
      BY <1>0, <2>4
    <3> HIDE DEF i
    <3>3. f[(n + i) + 1] = fu[i + 1] /\ (i < k => f[(n + i) + 2] = fu[i + 2])
      BY <1>4, <3>2
    <3>4. t[n + i] = u[i] /\ (i < k => t[(n + i) + 1] = u[i + 1]) /\ (n + i < n + k <=> i < k)
      <4>1. i < k => i + 1 \in 1 .. k /\ n + (i + 1) = (n + i) + 1
        BY <1>0, <3>1
      <4>2. n + i < n + k <=> i < k
        BY <1>0, <3>1
      <4> QED BY <1>0, <3>1, <4>1, <4>2
    <3>5. Pair(t, digit, n + i) <=> Pair(u, digit, i)
      BY <1>0, <1>10, <3>4 DEF Pair
    <3>6. Pair(u, digit, i) => i < k
      BY <1>10 DEF Pair
    <3>7. f[n + i] = fu[i]
      BY <1>0, <1>10, <2>2, <3>1, <3>3, <3>4, <3>5, <3>6 DEF RestOf
    <3> QED BY <3>7 DEF i
  <2> QED BY <2>3, <2>4
<1>5. Nat \subseteq Later
  <2> HIDE DEF Later
  <2> QED BY <1>4, EveryNat
<1>6. f[n + 1] = fu[1]
  <2>1. k \in Later /\ k + 1 - k = 1
    BY <1>0, <1>5
  <2> QED BY <1>0, <2>1
<1>7. ASSUME NEW m \in Nat, 0 .. m - 1 \subseteq Sooner PROVE m \in Sooner
  <2> SUFFICES ASSUME m <= n PROVE f[n + 1 - m] = fs[n + 1 - m] \o fu[1]
    OBVIOUS
  <2> DEFINE i == n + 1 - m
  <2>0. fu[1] \in Strings
    BY <1>0, <1>3
  <2>1. i \in 1 .. n + 1 /\ i \in 1 .. n + k + 1 /\ (i > n <=> m = 0)
    BY <1>0
  <2>2. f[i] = RestOf(f, t, digit, char, i) /\ fs[i] = RestOf(fs, s, digit, char, i)
    BY <1>1, <1>2, <2>1
  <2>3. CASE m = 0
    <3>1. i = n + 1
      BY <1>0, <2>3
    <3> HIDE DEF i
    <3>2. fs[i] = <<>> /\ f[i] = fu[1]
      BY <1>6, <1>10, <2>1, <2>2, <2>3, <3>1 DEF RestOf
    <3>3. <<>> \o fu[1] = fu[1]
      BY <2>0, Texts
    <3> QED BY <3>2, <3>3 DEF i
  <2>4. CASE m # 0
    <3>1. i \in 1 .. n /\ ~ (i > n) /\ ~ (i > n + k)
      BY <1>0, <2>1, <2>4
    <3>2. /\ m - 1 \in 0 .. m - 1 /\ m - 1 <= n /\ n + 1 - (m - 1) = i + 1
          /\ i < n => m - 2 \in 0 .. m - 1 /\ m - 2 <= n /\ n + 1 - (m - 2) = i + 2
      BY <1>0, <2>4
    <3>10. i + 1 \in 1 .. n + 1 /\ (i < n => i + 2 \in 1 .. n + 1)
      BY <1>0, <3>1
    <3> HIDE DEF i
    <3>3. f[i + 1] = fs[i + 1] \o fu[1] /\ (i < n => f[i + 2] = fs[i + 2] \o fu[1])
      BY <1>7, <3>2
    <3>4. t[i] = s[i] /\ (i < n => t[i + 1] = s[i + 1]) /\ (i < n => i < n + k) /\ s[i] \in Chars
      <4>1. i < n => i + 1 \in 1 .. n
        BY <1>0, <3>1
      <4>2. i < n => i < n + k
        BY <1>0, <3>1
      <4> QED BY <1>0, <3>1, <4>1, <4>2
    <3>5. Pair(t, digit, i) <=> Pair(s, digit, i)
      <4>1. CASE i < n
        BY <1>0, <1>10, <3>4, <4>1 DEF Pair
      <4>2. CASE ~ (i < n)
        <5>1. i = n
          BY <1>0, <3>1, <4>2
        <5>2. s[i] # "~"
          BY <1>0, <3>1, <5>1
        <5> QED BY <3>4, <5>2 DEF Pair
      <4> QED BY <4>1, <4>2
    <3>6. Pair(s, digit, i) => i < n
      BY <1>10 DEF Pair
    <3>7. fs[i + 1] \in Strings /\ (i < n => fs[i + 2] \in Strings)
      BY <1>2, <3>10
    <3>8. f[i] = fs[i] \o fu[1]
      <4>1. CASE Pair(s, digit, i)
        <5>1. f[i] = <<char>> \o (fs[i + 2] \o fu[1]) /\ fs[i] = <<char>> \o fs[i + 2]
          BY <1>0, <1>10, <2>2, <3>1, <3>3, <3>5, <3>6, <4>1 DEF RestOf
        <5>2. (<<char>> \o fs[i + 2]) \o fu[1] = <<char>> \o (fs[i + 2] \o fu[1])
          <6>1. PICK x \in Strings : x = <<char>>
            BY Texts
          <6>2. PICK y \in Strings : y = fs[i + 2]
            BY <3>6, <3>7, <4>1
          <6>3. (x \o y) \o fu[1] = x \o (y \o fu[1])
            BY <2>0, Texts
          <6> QED BY <6>1, <6>2, <6>3
        <5> QED BY <5>1, <5>2
      <4>2. CASE ~ Pair(s, digit, i)
        <5>1. f[i] = <<s[i]>> \o (fs[i + 1] \o fu[1]) /\ fs[i] = <<s[i]>> \o fs[i + 1]
          BY <1>0, <1>10, <2>2, <3>1, <3>3, <3>4, <3>5, <4>2 DEF RestOf
        <5>2. (<<s[i]>> \o fs[i + 1]) \o fu[1] = <<s[i]>> \o (fs[i + 1] \o fu[1])
          <6>1. PICK x \in Strings : x = <<s[i]>>
            BY <3>4, Texts
          <6>2. PICK y \in Strings : y = fs[i + 1]
            BY <3>7
          <6>3. (x \o y) \o fu[1] = x \o (y \o fu[1])
            BY <2>0, Texts
          <6> QED BY <6>1, <6>2, <6>3
        <5> QED BY <5>1, <5>2
      <4> QED BY <4>1, <4>2
    <3> QED BY <3>8 DEF i
  <2> QED BY <2>3, <2>4
<1>8. Nat \subseteq Sooner
  <2> HIDE DEF Sooner
  <2> QED BY <1>7, EveryNat
<1>9. f[1] = fs[1] \o fu[1]
  <2>1. n \in Sooner
    <3> HIDE DEF Sooner
    <3> QED BY <1>0, <1>8
  <2>2. n <= n /\ n + 1 - n = 1
    BY <1>0
  <2>3. f[n + 1 - n] = fs[n + 1 - n] \o fu[1]
    BY <2>1, <2>2
  <2> QED BY <2>2, <2>3
<1> QED BY <1>1, <1>2, <1>3, <1>9 DEF t

\* Split, Escape and Number, one character after the other.
Parts == Seq(Strings) \ {<<>>}
SplitStep(parts, c) ==
  IF c = "/" THEN Append(parts, <<>>) ELSE [parts EXCEPT ![Len(parts)] = Append(@, c)]
SplitVia(f, t) ==
  f = [s \in SUBSET DOMAIN t |->
         IF s = {} THEN <<<<>>>> ELSE SplitStep(f[s \ {Pointers!Max(s)}], t[Pointers!Max(s)])]
Cutting == [v \in Parts |-> [c \in Chars |-> SplitStep(v, c)]]

LEMMA SplitTraced ==
  ASSUME NEW t \in Seq(Chars)
  PROVE  Pointers!Split(t) \in Parts /\ \E f : Pointers!Split(t) = f[DOMAIN t] /\ Traced(f, t, <<<<>>>>, Cutting)
<1>1. <<<<>>>> \in Parts /\ Cutting \in [Parts -> [Chars -> Parts]]
  <2>1. <<<<>>>> \in Parts
    BY Texts DEF Parts
  <2>2. ASSUME NEW v \in Parts, NEW c \in Chars PROVE SplitStep(v, c) \in Parts
    <3>0. v \in Seq(Strings) /\ v # <<>> /\ <<>> \in Strings
      BY Texts DEF Parts
    <3>1. Append(v, <<>>) \in Parts
      <4>1. \A x \in Strings : Append(v, x) \in Seq(Strings) /\ Append(v, x) # <<>>
        BY <3>0
      <4> QED BY <3>0, <4>1 DEF Parts
    <3>2. Len(v) \in Nat \ {0} /\ v[Len(v)] \in Strings
      BY <3>0
    <3>3. Append(v[Len(v)], c) \in Strings
      BY <3>2, Texts
    <3>4. [v EXCEPT ![Len(v)] = Append(@, c)] \in Parts
      <4>1. \A x \in Strings : [v EXCEPT ![Len(v)] = x] \in Seq(Strings) /\ Len([v EXCEPT ![Len(v)] = x]) = Len(v)
        BY <3>0, <3>2
      <4>2. \A w \in Seq(Strings) : Len(w) = Len(v) => w # <<>>
        BY <3>2
      <4> QED BY <3>3, <4>1, <4>2 DEF Parts
    <3> QED BY <3>1, <3>4 DEF SplitStep
  <2> QED BY <2>1, <2>2 DEF Cutting
<1> DEFINE C == Chars
           V == Parts
           o == Cutting
           start == <<<<>>>>
<1>2. \A s \in SUBSET DOMAIN t : s # {} => Pointers!Max(s) \in s /\ t[Pointers!Max(s)] \in C
  <2>1. DOMAIN t = 1 .. Len(t) /\ Len(t) \in Nat /\ \A i \in DOMAIN t : t[i] \in C
    OBVIOUS
  <2> HIDE DEF C
  <2> QED BY <2>1, LastIsMax
<1>3. PICK g \in [SUBSET DOMAIN t -> V] : LastFirst(g, t, start, o)
  <2> HIDE DEF C, V, o, start
  <2>1. start \in V /\ o \in [V -> [C -> V]] /\ t \in Seq(C)
    BY <1>1 DEF C, V, o, start
  <2> QED BY <2>1, LeftFoldExists
<1>4. SplitVia(g, t)
  <2>1. ASSUME NEW s \in SUBSET DOMAIN t
        PROVE  (IF s = {} THEN start ELSE o[g[s \ {Pointers!Max(s)}]][t[Pointers!Max(s)]])
                 = IF s = {} THEN start ELSE SplitStep(g[s \ {Pointers!Max(s)}], t[Pointers!Max(s)])
    <3>1. CASE s = {}
      BY <3>1
    <3>2. CASE s # {}
      <4>1. g[s \ {Pointers!Max(s)}] \in V /\ t[Pointers!Max(s)] \in C
        <5>1. s \ {Pointers!Max(s)} \in SUBSET DOMAIN t
          OBVIOUS
        <5> HIDE DEF V, C
        <5> QED BY <1>2, <3>2, <5>1
      <4>2. \A v \in V : \A c \in C : o[v][c] = SplitStep(v, c)
        BY DEF Cutting
      <4> HIDE DEF V, C, o
      <4> QED BY <3>2, <4>1, <4>2
    <3> QED BY <3>1, <3>2
  <2>2. g = [s \in SUBSET DOMAIN t |->
               IF s = {} THEN start ELSE o[g[s \ {Pointers!Max(s)}]][t[Pointers!Max(s)]]]
    <3> HIDE DEF start, o
    <3> QED BY <1>3 DEF LastFirst
  <2>3. g = [s \in SUBSET DOMAIN t |->
               IF s = {} THEN start ELSE SplitStep(g[s \ {Pointers!Max(s)}], t[Pointers!Max(s)])]
    <3> HIDE DEF start, o
    <3> QED BY <2>1, <2>2
  <2> QED BY <2>3 DEF SplitVia
<1> DEFINE Q(h) == SplitVia(h, t)
           f == CHOOSE h : Q(h)
<1>5. Q(f)
  <2>1. Q(g)
    BY <1>4
  <2> HIDE DEF Q
  <2> QED BY <2>1, Zenon
<1>6. Pointers!Split(t) = f[DOMAIN t]
  BY Zenon DEF Pointers!Split, Pointers!FoldLeft, Pointers!MapThenFoldSet, SplitVia, SplitStep
<1> HIDE DEF f
<1>7. f = [s \in SUBSET DOMAIN t |->
             IF s = {} THEN start ELSE SplitStep(f[s \ {Pointers!Max(s)}], t[Pointers!Max(s)])]
  BY <1>5 DEF SplitVia
<1>8. f[{}] = start
  <2> HIDE DEF start
  <2>1. {} \in SUBSET DOMAIN t
    OBVIOUS
  <2> QED BY <1>7, <2>1
<1>9. ASSUME NEW s \in SUBSET DOMAIN t, s # {}, f[s \ {Pointers!Max(s)}] \in V
      PROVE  f[s] = o[f[s \ {Pointers!Max(s)}]][t[Pointers!Max(s)]]
  <2>1. f[s] = SplitStep(f[s \ {Pointers!Max(s)}], t[Pointers!Max(s)])
    <3> HIDE DEF start
    <3> QED BY <1>7, <1>9
  <2>2. \A v \in V : \A c \in C : o[v][c] = SplitStep(v, c)
    BY DEF Cutting
  <2>3. t[Pointers!Max(s)] \in C
    <3> HIDE DEF C
    <3> QED BY <1>2, <1>9
  <2> HIDE DEF V, C, o
  <2> QED BY <1>9, <2>1, <2>2, <2>3
<1>10. f[DOMAIN t] \in V /\ Traced(f, t, start, o)
  <2> HIDE DEF C, V, o, start
  <2>1. start \in V /\ o \in [V -> [C -> V]] /\ t \in Seq(C)
    BY <1>1 DEF C, V, o, start
  <2>2. Follows(f, t, V, start, o)
    BY <1>8, <1>9 DEF Follows
  <2> QED BY <2>1, <2>2, LeftFoldSteps
<1> QED BY <1>6, <1>10

LEMMA SplitSteps ==
  /\ Pointers!Split(<<>>) = <<<<>>>>
  /\ \A t \in Seq(Chars) : Pointers!Split(t) \in Parts
  /\ \A t \in Seq(Chars) : \A c \in Chars : Pointers!Split(Append(t, c)) = SplitStep(Pointers!Split(t), c)
<1> DEFINE C == Chars
           V == Parts
           o == Cutting
           start == <<<<>>>>
<1>1. ASSUME NEW t \in Seq(C)
      PROVE  Pointers!Split(t) \in V /\ \E f : Pointers!Split(t) = f[DOMAIN t] /\ Traced(f, t, start, o)
  BY SplitTraced
<1>2. Pointers!Split(<<>>) = start
  <2> HIDE DEF C, V, o, start
  <2>1. <<>> \in Seq(C)
    OBVIOUS
  <2>2. PICK f : Pointers!Split(<<>>) = f[DOMAIN <<>>] /\ Traced(f, <<>>, start, o)
    BY <1>1, <2>1
  <2> QED BY <2>2, LeftFoldNone
<1>3. ASSUME NEW t \in Seq(C), NEW c \in C
      PROVE  Pointers!Split(Append(t, c)) = SplitStep(Pointers!Split(t), c)
  <2>1. \A v \in V : \A d \in C : o[v][d] = SplitStep(v, d)
    BY DEF Cutting
  <2> HIDE DEF C, V, o, start
  <2>2. Append(t, c) \in Seq(C)
    OBVIOUS
  <2>3. PICK f : Pointers!Split(t) = f[DOMAIN t] /\ Traced(f, t, start, o)
    BY <1>1
  <2>4. PICK g : Pointers!Split(Append(t, c)) = g[DOMAIN Append(t, c)] /\ Traced(g, Append(t, c), start, o)
    BY <1>1, <2>2
  <2>5. g[DOMAIN Append(t, c)] = o[f[DOMAIN t]][c]
    BY <2>3, <2>4, LeftFoldAppend
  <2>6. Pointers!Split(t) \in V
    BY <1>1
  <2> QED BY <2>1, <2>3, <2>4, <2>5, <2>6
<1> QED BY <1>1, <1>2, <1>3

Code(c) == IF c = "~" THEN <<"~", "0">> ELSE IF c = "/" THEN <<"~", "1">> ELSE <<c>>
EscapeStep(text, c) == text \o Code(c)

LEMMA Codes == \A c \in Chars : Code(c) \in Strings
<1>1. ASSUME NEW c \in Chars, NEW d \in Chars PROVE <<c, d>> \in Strings
  <2> DEFINE C == Chars
  <2>1. c \in C /\ d \in C
    OBVIOUS
  <2> HIDE DEF C
  <2>2. <<c, d>> \in Seq(C)
    BY <2>1
  <2> QED BY <2>2 DEF C, Strings
<1>2. <<"~", "0">> \in Strings /\ <<"~", "1">> \in Strings
  <2> QED BY <1>1, Written, Zenon
<1> QED BY <1>2, Texts DEF Code

EscapeVia(f, t) ==
  f = [s \in SUBSET DOMAIN t |->
         IF s = {} THEN <<"/">> ELSE EscapeStep(f[s \ {Pointers!Max(s)}], t[Pointers!Max(s)])]
Escaping == [v \in Strings |-> [c \in Chars |-> EscapeStep(v, c)]]

LEMMA EscapeTraced ==
  ASSUME NEW t \in Seq(Chars)
  PROVE  Pointers!Escape(t) \in Strings /\ \E f : Pointers!Escape(t) = f[DOMAIN t] /\ Traced(f, t, <<"/">>, Escaping)
<1>1. <<"/">> \in Strings /\ Escaping \in [Strings -> [Chars -> Strings]]
  <2>1. <<"/">> \in Strings
    <3>1. \A c \in Chars : <<c>> \in Strings
      BY Texts
    <3> QED BY <3>1, Written, Zenon
  <2>2. ASSUME NEW v \in Strings, NEW c \in Chars PROVE EscapeStep(v, c) \in Strings
    BY Codes, Texts DEF EscapeStep
  <2> QED BY <2>1, <2>2 DEF Escaping
<1> DEFINE C == Chars
           V == Strings
           o == Escaping
           start == <<"/">>
<1>2. \A s \in SUBSET DOMAIN t : s # {} => Pointers!Max(s) \in s /\ t[Pointers!Max(s)] \in C
  <2>1. DOMAIN t = 1 .. Len(t) /\ Len(t) \in Nat /\ \A i \in DOMAIN t : t[i] \in C
    OBVIOUS
  <2> HIDE DEF C
  <2> QED BY <2>1, LastIsMax
<1>3. PICK g \in [SUBSET DOMAIN t -> V] : LastFirst(g, t, start, o)
  <2> HIDE DEF C, V, o, start
  <2>1. start \in V /\ o \in [V -> [C -> V]] /\ t \in Seq(C)
    BY <1>1 DEF C, V, o, start
  <2> QED BY <2>1, LeftFoldExists
<1>4. EscapeVia(g, t)
  <2>1. ASSUME NEW s \in SUBSET DOMAIN t
        PROVE  (IF s = {} THEN start ELSE o[g[s \ {Pointers!Max(s)}]][t[Pointers!Max(s)]])
                 = IF s = {} THEN start ELSE EscapeStep(g[s \ {Pointers!Max(s)}], t[Pointers!Max(s)])
    <3>1. CASE s = {}
      BY <3>1
    <3>2. CASE s # {}
      <4>1. g[s \ {Pointers!Max(s)}] \in V /\ t[Pointers!Max(s)] \in C
        <5>1. s \ {Pointers!Max(s)} \in SUBSET DOMAIN t
          OBVIOUS
        <5> HIDE DEF V, C
        <5> QED BY <1>2, <3>2, <5>1
      <4>2. \A v \in V : \A c \in C : o[v][c] = EscapeStep(v, c)
        BY DEF Escaping
      <4> HIDE DEF V, C, o
      <4> QED BY <3>2, <4>1, <4>2
    <3> QED BY <3>1, <3>2
  <2>2. g = [s \in SUBSET DOMAIN t |->
               IF s = {} THEN start ELSE o[g[s \ {Pointers!Max(s)}]][t[Pointers!Max(s)]]]
    <3> HIDE DEF start, o
    <3> QED BY <1>3 DEF LastFirst
  <2>3. g = [s \in SUBSET DOMAIN t |->
               IF s = {} THEN start ELSE EscapeStep(g[s \ {Pointers!Max(s)}], t[Pointers!Max(s)])]
    <3> HIDE DEF start, o
    <3> QED BY <2>1, <2>2
  <2> QED BY <2>3 DEF EscapeVia
<1> DEFINE Q(h) == EscapeVia(h, t)
           f == CHOOSE h : Q(h)
<1>5. Q(f)
  <2>1. Q(g)
    BY <1>4
  <2> HIDE DEF Q
  <2> QED BY <2>1, Zenon
<1>6. Pointers!Escape(t) = f[DOMAIN t]
  BY Zenon DEF Pointers!Escape, Pointers!FoldLeft, Pointers!MapThenFoldSet, EscapeVia, EscapeStep, Code
<1> HIDE DEF f
<1>7. f = [s \in SUBSET DOMAIN t |->
             IF s = {} THEN start ELSE EscapeStep(f[s \ {Pointers!Max(s)}], t[Pointers!Max(s)])]
  BY <1>5 DEF EscapeVia
<1>8. f[{}] = start
  <2> HIDE DEF start
  <2>1. {} \in SUBSET DOMAIN t
    OBVIOUS
  <2> QED BY <1>7, <2>1
<1>9. ASSUME NEW s \in SUBSET DOMAIN t, s # {}, f[s \ {Pointers!Max(s)}] \in V
      PROVE  f[s] = o[f[s \ {Pointers!Max(s)}]][t[Pointers!Max(s)]]
  <2>1. f[s] = EscapeStep(f[s \ {Pointers!Max(s)}], t[Pointers!Max(s)])
    <3> HIDE DEF start
    <3> QED BY <1>7, <1>9
  <2>2. \A v \in V : \A c \in C : o[v][c] = EscapeStep(v, c)
    BY DEF Escaping
  <2>3. t[Pointers!Max(s)] \in C
    <3> HIDE DEF C
    <3> QED BY <1>2, <1>9
  <2> HIDE DEF V, C, o
  <2> QED BY <1>9, <2>1, <2>2, <2>3
<1>10. f[DOMAIN t] \in V /\ Traced(f, t, start, o)
  <2> HIDE DEF C, V, o, start
  <2>1. start \in V /\ o \in [V -> [C -> V]] /\ t \in Seq(C)
    BY <1>1 DEF C, V, o, start
  <2>2. Follows(f, t, V, start, o)
    BY <1>8, <1>9 DEF Follows
  <2> QED BY <2>1, <2>2, LeftFoldSteps
<1> QED BY <1>6, <1>10

LEMMA EscapeSteps ==
  /\ Pointers!Escape(<<>>) = <<"/">>
  /\ \A t \in Seq(Chars) : Pointers!Escape(t) \in Strings
  /\ \A t \in Seq(Chars) : \A c \in Chars : Pointers!Escape(Append(t, c)) = EscapeStep(Pointers!Escape(t), c)
<1> DEFINE C == Chars
           V == Strings
           o == Escaping
           start == <<"/">>
<1>1. ASSUME NEW t \in Seq(C)
      PROVE  Pointers!Escape(t) \in V /\ \E f : Pointers!Escape(t) = f[DOMAIN t] /\ Traced(f, t, start, o)
  BY EscapeTraced
<1>2. Pointers!Escape(<<>>) = start
  <2> HIDE DEF C, V, o, start
  <2>1. <<>> \in Seq(C)
    OBVIOUS
  <2>2. PICK f : Pointers!Escape(<<>>) = f[DOMAIN <<>>] /\ Traced(f, <<>>, start, o)
    BY <1>1, <2>1
  <2> QED BY <2>2, LeftFoldNone
<1>3. ASSUME NEW t \in Seq(C), NEW c \in C
      PROVE  Pointers!Escape(Append(t, c)) = EscapeStep(Pointers!Escape(t), c)
  <2>1. \A v \in V : \A d \in C : o[v][d] = EscapeStep(v, d)
    BY DEF Escaping
  <2> HIDE DEF C, V, o, start
  <2>2. Append(t, c) \in Seq(C)
    OBVIOUS
  <2>3. PICK f : Pointers!Escape(t) = f[DOMAIN t] /\ Traced(f, t, start, o)
    BY <1>1
  <2>4. PICK g : Pointers!Escape(Append(t, c)) = g[DOMAIN Append(t, c)] /\ Traced(g, Append(t, c), start, o)
    BY <1>1, <2>2
  <2>5. g[DOMAIN Append(t, c)] = o[f[DOMAIN t]][c]
    BY <2>3, <2>4, LeftFoldAppend
  <2>6. Pointers!Escape(t) \in V
    BY <1>1
  <2> QED BY <2>1, <2>3, <2>4, <2>5, <2>6
<1> QED BY <1>1, <1>2, <1>3

NumberStep(n, c) == 10 * n + Pointers!Digit[c]

LEMMA DigitsRead ==
  /\ DOMAIN Pointers!Digit \subseteq Chars \ {"~", "/"}
  /\ \A c \in DOMAIN Pointers!Digit : Pointers!Digit[c] \in 0 .. 9
  /\ \A d \in 0 .. 9 : Pointers!Digits[d + 1] \in DOMAIN Pointers!Digit /\ Pointers!Digit[Pointers!Digits[d + 1]] = d
<1>1. /\ DOMAIN Pointers!Digits = 1 .. 10
      /\ Pointers!Digits[1] = "0" /\ Pointers!Digits[2] = "1" /\ Pointers!Digits[3] = "2" /\ Pointers!Digits[4] = "3"
      /\ Pointers!Digits[5] = "4" /\ Pointers!Digits[6] = "5" /\ Pointers!Digits[7] = "6" /\ Pointers!Digits[8] = "7"
      /\ Pointers!Digits[9] = "8" /\ Pointers!Digits[10] = "9"
  BY DEF Pointers!Digits
<1>2. DOMAIN Pointers!Digit = {"0", "1", "2", "3", "4", "5", "6", "7", "8", "9"}
  <2>1. DOMAIN Pointers!Digit = {Pointers!Digits[i] : i \in 1 .. 10}
    BY <1>1, Zenon DEF Pointers!Digit, Pointers!Range
  <2>2. 1 .. 10 = {1, 2, 3, 4, 5, 6, 7, 8, 9, 10}
    OBVIOUS
  <2> QED BY <1>1, <2>1, <2>2
<1>3. \A d, e \in 0 .. 9 : Pointers!Digits[d + 1] = Pointers!Digits[e + 1] => d = e
  <2>1. \A d \in 0 .. 9 : d \in {0, 1, 2, 3, 4, 5, 6, 7, 8, 9}
    OBVIOUS
  <2> QED BY <1>1, <2>1
<1>4. ASSUME NEW d \in 0 .. 9
      PROVE  Pointers!Digits[d + 1] \in DOMAIN Pointers!Digit /\ Pointers!Digit[Pointers!Digits[d + 1]] = d
  <2>1. Pointers!Digits[d + 1] \in DOMAIN Pointers!Digit
    <3>1. d \in {0, 1, 2, 3, 4, 5, 6, 7, 8, 9}
      OBVIOUS
    <3> QED BY <1>1, <1>2, <3>1
  <2> DEFINE c == Pointers!Digits[d + 1]
             Q(e) == e \in 0 .. 9 /\ Pointers!Digits[e + 1] = c
  <2>2. Pointers!Digit[c] = CHOOSE e : Q(e)
    BY <2>1, Zenon DEF Pointers!Digit
  <2>3. Q(d)
    OBVIOUS
  <2>4. Q(CHOOSE e : Q(e))
    <3> HIDE DEF Q
    <3> QED BY <2>3, Zenon
  <2>5. Pointers!Digit[c] \in 0 .. 9 /\ Pointers!Digits[Pointers!Digit[c] + 1] = Pointers!Digits[d + 1]
    BY <2>2, <2>4
  <2> HIDE DEF c
  <2>6. Pointers!Digit[c] = d
    BY <1>3, <2>5
  <2> QED BY <2>1, <2>6 DEF c
<1>5. ASSUME NEW c \in DOMAIN Pointers!Digit PROVE Pointers!Digit[c] \in 0 .. 9
  <2>1. \E d \in 0 .. 9 : c = Pointers!Digits[d + 1]
    <3>1. 0 + 1 = 1 /\ 1 + 1 = 2 /\ 2 + 1 = 3 /\ 3 + 1 = 4 /\ 4 + 1 = 5 /\ 5 + 1 = 6 /\ 6 + 1 = 7 /\ 7 + 1 = 8 /\ 8 + 1 = 9 /\ 9 + 1 = 10
      OBVIOUS
    <3> QED BY <1>1, <1>2, <3>1
  <2> QED BY <1>4, <2>1
<1>6. DOMAIN Pointers!Digit \subseteq Chars \ {"~", "/"}
  <2>1. \A c \in {"0", "1", "2", "3", "4", "5", "6", "7", "8", "9"} : c # "~" /\ c # "/"
    OBVIOUS
  <2>2. DOMAIN Pointers!Digit \subseteq Chars
    BY Zenon DEF Pointers!Digit, Chars
  <2> QED BY <1>2, <2>1, <2>2
<1> QED BY <1>4, <1>5, <1>6

NumberVia(f, t) ==
  f = [s \in SUBSET DOMAIN t |->
         IF s = {} THEN 0 ELSE NumberStep(f[s \ {Pointers!Max(s)}], t[Pointers!Max(s)])]
Reading == [v \in Nat |-> [c \in (DOMAIN Pointers!Digit) |-> NumberStep(v, c)]]

LEMMA NumberTraced ==
  ASSUME NEW t \in Seq((DOMAIN Pointers!Digit))
  PROVE  Pointers!Number(t) \in Nat /\ \E f : Pointers!Number(t) = f[DOMAIN t] /\ Traced(f, t, 0, Reading)
<1>1. 0 \in Nat /\ Reading \in [Nat -> [(DOMAIN Pointers!Digit) -> Nat]]
  <2>1. ASSUME NEW v \in Nat, NEW c \in DOMAIN Pointers!Digit PROVE NumberStep(v, c) \in Nat
    BY DigitsRead DEF NumberStep
  <2> QED BY <2>1 DEF Reading
<1> DEFINE C == (DOMAIN Pointers!Digit)
           V == Nat
           o == Reading
           start == 0
<1>2. \A s \in SUBSET DOMAIN t : s # {} => Pointers!Max(s) \in s /\ t[Pointers!Max(s)] \in C
  <2>1. DOMAIN t = 1 .. Len(t) /\ Len(t) \in Nat /\ \A i \in DOMAIN t : t[i] \in C
    OBVIOUS
  <2> HIDE DEF C
  <2> QED BY <2>1, LastIsMax
<1>3. PICK g \in [SUBSET DOMAIN t -> V] : LastFirst(g, t, start, o)
  <2> HIDE DEF C, V, o, start
  <2>1. start \in V /\ o \in [V -> [C -> V]] /\ t \in Seq(C)
    BY <1>1 DEF C, V, o, start
  <2> QED BY <2>1, LeftFoldExists
<1>4. NumberVia(g, t)
  <2>1. ASSUME NEW s \in SUBSET DOMAIN t
        PROVE  (IF s = {} THEN start ELSE o[g[s \ {Pointers!Max(s)}]][t[Pointers!Max(s)]])
                 = IF s = {} THEN start ELSE NumberStep(g[s \ {Pointers!Max(s)}], t[Pointers!Max(s)])
    <3>1. CASE s = {}
      BY <3>1
    <3>2. CASE s # {}
      <4>1. g[s \ {Pointers!Max(s)}] \in V /\ t[Pointers!Max(s)] \in C
        <5>1. s \ {Pointers!Max(s)} \in SUBSET DOMAIN t
          OBVIOUS
        <5> HIDE DEF V, C
        <5> QED BY <1>2, <3>2, <5>1
      <4>2. \A v \in V : \A c \in C : o[v][c] = NumberStep(v, c)
        BY DEF Reading
      <4> HIDE DEF V, C, o
      <4> QED BY <3>2, <4>1, <4>2
    <3> QED BY <3>1, <3>2
  <2>2. g = [s \in SUBSET DOMAIN t |->
               IF s = {} THEN start ELSE o[g[s \ {Pointers!Max(s)}]][t[Pointers!Max(s)]]]
    <3> HIDE DEF start, o
    <3> QED BY <1>3 DEF LastFirst
  <2>3. g = [s \in SUBSET DOMAIN t |->
               IF s = {} THEN start ELSE NumberStep(g[s \ {Pointers!Max(s)}], t[Pointers!Max(s)])]
    <3> HIDE DEF start, o
    <3> QED BY <2>1, <2>2
  <2> QED BY <2>3 DEF NumberVia
<1> DEFINE Q(h) == NumberVia(h, t)
           f == CHOOSE h : Q(h)
<1>5. Q(f)
  <2>1. Q(g)
    BY <1>4
  <2> HIDE DEF Q
  <2> QED BY <2>1, Zenon
<1>6. Pointers!Number(t) = f[DOMAIN t]
  BY Zenon DEF Pointers!Number, Pointers!FoldLeft, Pointers!MapThenFoldSet, NumberVia, NumberStep
<1> HIDE DEF f
<1>7. f = [s \in SUBSET DOMAIN t |->
             IF s = {} THEN start ELSE NumberStep(f[s \ {Pointers!Max(s)}], t[Pointers!Max(s)])]
  BY <1>5 DEF NumberVia
<1>8. f[{}] = start
  <2> HIDE DEF start
  <2>1. {} \in SUBSET DOMAIN t
    OBVIOUS
  <2> QED BY <1>7, <2>1
<1>9. ASSUME NEW s \in SUBSET DOMAIN t, s # {}, f[s \ {Pointers!Max(s)}] \in V
      PROVE  f[s] = o[f[s \ {Pointers!Max(s)}]][t[Pointers!Max(s)]]
  <2>1. f[s] = NumberStep(f[s \ {Pointers!Max(s)}], t[Pointers!Max(s)])
    <3> HIDE DEF start
    <3> QED BY <1>7, <1>9
  <2>2. \A v \in V : \A c \in C : o[v][c] = NumberStep(v, c)
    BY DEF Reading
  <2>3. t[Pointers!Max(s)] \in C
    <3> HIDE DEF C
    <3> QED BY <1>2, <1>9
  <2> HIDE DEF V, C, o
  <2> QED BY <1>9, <2>1, <2>2, <2>3
<1>10. f[DOMAIN t] \in V /\ Traced(f, t, start, o)
  <2> HIDE DEF C, V, o, start
  <2>1. start \in V /\ o \in [V -> [C -> V]] /\ t \in Seq(C)
    BY <1>1 DEF C, V, o, start
  <2>2. Follows(f, t, V, start, o)
    BY <1>8, <1>9 DEF Follows
  <2> QED BY <2>1, <2>2, LeftFoldSteps
<1> QED BY <1>6, <1>10

LEMMA NumberSteps ==
  /\ Pointers!Number(<<>>) = 0
  /\ \A t \in Seq((DOMAIN Pointers!Digit)) : Pointers!Number(t) \in Nat
  /\ \A t \in Seq((DOMAIN Pointers!Digit)) : \A c \in (DOMAIN Pointers!Digit) : Pointers!Number(Append(t, c)) = NumberStep(Pointers!Number(t), c)
<1> DEFINE C == (DOMAIN Pointers!Digit)
           V == Nat
           o == Reading
           start == 0
<1>1. ASSUME NEW t \in Seq(C)
      PROVE  Pointers!Number(t) \in V /\ \E f : Pointers!Number(t) = f[DOMAIN t] /\ Traced(f, t, start, o)
  BY NumberTraced
<1>2. Pointers!Number(<<>>) = start
  <2> HIDE DEF C, V, o, start
  <2>1. <<>> \in Seq(C)
    OBVIOUS
  <2>2. PICK f : Pointers!Number(<<>>) = f[DOMAIN <<>>] /\ Traced(f, <<>>, start, o)
    BY <1>1, <2>1
  <2> QED BY <2>2, LeftFoldNone
<1>3. ASSUME NEW t \in Seq(C), NEW c \in C
      PROVE  Pointers!Number(Append(t, c)) = NumberStep(Pointers!Number(t), c)
  <2>1. \A v \in V : \A d \in C : o[v][d] = NumberStep(v, d)
    BY DEF Reading
  <2> HIDE DEF C, V, o, start
  <2>2. Append(t, c) \in Seq(C)
    OBVIOUS
  <2>3. PICK f : Pointers!Number(t) = f[DOMAIN t] /\ Traced(f, t, start, o)
    BY <1>1
  <2>4. PICK g : Pointers!Number(Append(t, c)) = g[DOMAIN Append(t, c)] /\ Traced(g, Append(t, c), start, o)
    BY <1>1, <2>2
  <2>5. g[DOMAIN Append(t, c)] = o[f[DOMAIN t]][c]
    BY <2>3, <2>4, LeftFoldAppend
  <2>6. Pointers!Number(t) \in V
    BY <1>1
  <2> QED BY <2>1, <2>3, <2>4, <2>5, <2>6
<1> QED BY <1>1, <1>2, <1>3

\* Texts without "/", without "~", and without "~" at the end.
NoSlash(s) == \A i \in 1 .. Len(s) : s[i] # "/"
NoTilde(s) == \A i \in 1 .. Len(s) : s[i] # "~"
EndsPlain(s) == s = <<>> \/ s[Len(s)] # "~"

LEMMA ReplaceType ==
  ASSUME NEW t \in Strings, NEW digit \in Chars, NEW char \in Chars
  PROVE  Pointers!Replace(t, digit, char) \in Strings
<1>1. 1 \in 1 .. Len(t) + 1
  BY DEF Strings
<1>2. Rests(t, digit, char)[1] \in Strings /\ Pointers!Replace(t, digit, char) = Rests(t, digit, char)[1]
  BY <1>1, RestsAre
<1> QED BY <1>2

LEMMA ReplaceNone ==
  ASSUME NEW digit \in Chars, NEW char \in Chars
  PROVE  Pointers!Replace(<<>>, digit, char) = <<>>
<1> DEFINE t == <<>>
           f == Rests(t, digit, char)
<1>1. t \in Strings /\ Len(t) = 0 /\ 1 \in 1 .. Len(t) + 1
  BY Texts
<1>2. f[1] = RestOf(f, t, digit, char, 1) /\ Pointers!Replace(t, digit, char) = f[1]
  BY <1>1, RestsAre
<1> HIDE DEF t, f
<1>3. f[1] = <<>>
  BY <1>1, <1>2 DEF RestOf
<1> QED BY <1>2, <1>3 DEF t

LEMMA ReplaceOne ==
  ASSUME NEW c \in Chars, NEW digit \in Chars, NEW char \in Chars
  PROVE  Pointers!Replace(<<c>>, digit, char) = <<c>>
<1> DEFINE t == <<c>>
           f == Rests(t, digit, char)
<1>1. t \in Strings /\ Len(t) = 1 /\ t[1] = c /\ 1 \in 1 .. Len(t) + 1 /\ 2 \in 1 .. Len(t) + 1
  BY Texts
<1>2. /\ f[1] = RestOf(f, t, digit, char, 1) /\ f[2] = RestOf(f, t, digit, char, 2)
      /\ Pointers!Replace(t, digit, char) = f[1]
  BY <1>1, RestsAre
<1>3. <<c>> \o <<>> = <<c>>
  OBVIOUS
<1> HIDE DEF t, f
<1>4. f[2] = <<>>
  BY <1>1, <1>2 DEF RestOf
<1>5. ~ Pair(t, digit, 1)
  BY <1>1 DEF Pair
<1>6. f[1] = <<t[1]>> \o f[2]
  <2>1. 1 + 1 = 2 /\ ~ (1 > 1)
    OBVIOUS
  <2> QED BY <1>1, <1>2, <1>5, <2>1 DEF RestOf
<1> QED BY <1>1, <1>2, <1>3, <1>4, <1>6 DEF t

LEMMA ReplaceTwo ==
  ASSUME NEW c \in Chars, NEW digit \in Chars, NEW char \in Chars
  PROVE  Pointers!Replace(<<"~", c>>, digit, char) = IF c = digit THEN <<char>> ELSE <<"~", c>>
<1> DEFINE t == <<"~", c>>
           f == Rests(t, digit, char)
<1>0. t \in Strings
  <2> DEFINE C == Chars
  <2>1. "~" \in C /\ c \in C
    BY Written
  <2> HIDE DEF C
  <2>2. <<"~", c>> \in Seq(C)
    BY <2>1
  <2> QED BY <2>2 DEF C, Strings
<1>1. /\ Len(t) = 2 /\ t[1] = "~" /\ t[2] = c
      /\ 1 \in 1 .. Len(t) + 1 /\ 2 \in 1 .. Len(t) + 1 /\ 3 \in 1 .. Len(t) + 1
  OBVIOUS
<1>2. /\ f[1] = RestOf(f, t, digit, char, 1) /\ f[2] = RestOf(f, t, digit, char, 2)
      /\ f[3] = RestOf(f, t, digit, char, 3) /\ Pointers!Replace(t, digit, char) = f[1]
  BY <1>0, <1>1, RestsAre
<1>3. <<c>> \o <<>> = <<c>> /\ <<char>> \o <<>> = <<char>> /\ <<"~">> \o <<c>> = <<"~", c>>
  <2> DEFINE C == Chars
  <2>1. "~" \in C /\ c \in C
    BY Written
  <2> HIDE DEF C
  <2>2. <<"~">> \in Seq(C) /\ <<c>> \in Seq(C) /\ <<"~", c>> \in Seq(C)
    BY <2>1
  <2>3. /\ Len(<<"~">> \o <<c>>) = 2 /\ (<<"~">> \o <<c>>)[1] = "~" /\ (<<"~">> \o <<c>>)[2] = c
        /\ <<"~">> \o <<c>> \in Seq(C)
    BY <2>1, <2>2
  <2>4. Len(<<"~", c>>) = 2 /\ <<"~", c>>[1] = "~" /\ <<"~", c>>[2] = c
    OBVIOUS
  <2>5. \A i \in 1 .. 2 : (<<"~">> \o <<c>>)[i] = <<"~", c>>[i]
    <3>1. \A i \in 1 .. 2 : i = 1 \/ i = 2
      OBVIOUS
    <3> QED BY <2>3, <2>4, <3>1
  <2>6. PICK u \in Seq(C) : u = <<"~">> \o <<c>>
    BY <2>3
  <2>7. PICK v \in Seq(C) : v = <<"~", c>>
    BY <2>2
  <2>8. u = v
    BY <2>3, <2>4, <2>5, <2>6, <2>7, SameSeq
  <2>9. <<c>> \o <<>> = <<c>>
    OBVIOUS
  <2>10. <<char>> \o <<>> = <<char>>
    OBVIOUS
  <2> QED BY <2>6, <2>7, <2>8, <2>9, <2>10
<1> HIDE DEF t, f
<1>4. f[3] = <<>>
  BY <1>1, <1>2 DEF RestOf
<1>5. ~ Pair(t, digit, 2) /\ (Pair(t, digit, 1) <=> c = digit)
  BY <1>1 DEF Pair
<1>6. 1 + 1 = 2 /\ 1 + 2 = 3 /\ 2 + 1 = 3 /\ ~ (1 > 2) /\ ~ (2 > 2)
  OBVIOUS
<1>8. f[2] = <<c>>
  <2>1. f[2] = <<t[2]>> \o f[2 + 1]
    BY <1>1, <1>2, <1>5, <1>6 DEF RestOf
  <2> QED BY <1>1, <1>3, <1>4, <1>6, <2>1
<1>7. f[1] = IF c = digit THEN <<char>> ELSE <<"~", c>>
  <2>1. f[1] = IF Pair(t, digit, 1) THEN <<char>> \o f[1 + 2] ELSE <<t[1]>> \o f[1 + 1]
    BY <1>1, <1>2, <1>6 DEF RestOf
  <2>2. CASE c = digit
    BY <1>3, <1>4, <1>5, <1>6, <2>1, <2>2
  <2>3. CASE c # digit
    BY <1>1, <1>3, <1>5, <1>6, <1>8, <2>1, <2>3
  <2> QED BY <2>2, <2>3
<1> QED BY <1>2, <1>7 DEF t

\* A text without "~" remains as it is.
LEMMA ReplacePlain ==
  ASSUME NEW digit \in Chars, NEW char \in Chars
  PROVE  \A t \in Strings : NoTilde(t) => Pointers!Replace(t, digit, char) = t
<1> DEFINE T == {t \in Strings : NoTilde(t) => Pointers!Replace(t, digit, char) = t}
<1>1. <<>> \in T
  BY ReplaceNone, Texts
<1>2. ASSUME NEW s \in Strings, NEW c \in Chars, s \in T PROVE Append(s, c) \in T
  <2>1. Append(s, c) \in Strings /\ Append(s, c) = s \o <<c>> /\ <<c>> \in Strings
    BY Texts
  <2>2. SUFFICES ASSUME NoTilde(Append(s, c)) PROVE Pointers!Replace(Append(s, c), digit, char) = Append(s, c)
    BY <2>1
  <2>3. NoTilde(s)
    <3>1. Len(Append(s, c)) = Len(s) + 1 /\ Len(s) \in Nat /\ \A i \in 1 .. Len(s) : Append(s, c)[i] = s[i]
      BY DEF Strings
    <3> QED BY <2>2, <3>1 DEF NoTilde
  <2>4. s = <<>> \/ s[Len(s)] # "~"
    BY <2>3 DEF NoTilde, Strings
  <2>5. Pointers!Replace(s \o <<c>>, digit, char)
          = Pointers!Replace(s, digit, char) \o Pointers!Replace(<<c>>, digit, char)
    BY <2>1, <2>4, ReplaceJoined
  <2>6. Pointers!Replace(s, digit, char) = s
    BY <1>2, <2>3
  <2> QED BY <2>1, <2>5, <2>6, ReplaceOne
<1> HIDE DEF T
<1>3. Strings \subseteq T
  BY <1>1, <1>2, EverySeq DEF Strings
<1> QED BY <1>3 DEF T

LEMMA UnescapePlain == \A t \in Strings : NoTilde(t) => Pointers!Unescape(t) = t
<1>1. ASSUME NEW t \in Strings, NoTilde(t) PROVE Pointers!Unescape(t) = t
  <2>1. Pointers!Replace(t, "1", "/") = t
    BY <1>1, ReplacePlain, Written
  <2>2. Pointers!Replace(t, "0", "~") = t
    BY <1>1, ReplacePlain, Written
  <2> QED BY <2>1, <2>2 DEF Pointers!Unescape
<1> QED BY <1>1

-----------------------------------------------------------------------------
\* A name is written as "/" and a text without "/" that is read as the name.
WrittenAs(n, b) ==
  /\ Pointers!Escape(n) = <<"/">> \o b /\ NoSlash(b) /\ EndsPlain(b)
  /\ EndsPlain(Pointers!Replace(b, "1", "/")) /\ Pointers!Unescape(b) = n

LEMMA NoneWritten == WrittenAs(<<>>, <<>>)
<1>1. Pointers!Escape(<<>>) = <<"/">> \o <<>>
  <2>1. <<"/">> \o <<>> = <<"/">>
    OBVIOUS
  <2> QED BY <2>1, EscapeSteps
<1>2. Pointers!Replace(<<>>, "1", "/") = <<>> /\ Pointers!Replace(<<>>, "0", "~") = <<>>
  BY ReplaceNone, Written
<1> QED BY <1>1, <1>2 DEF WrittenAs, NoSlash, EndsPlain, Pointers!Unescape

\* What the first replacement makes of a code.
Half(c) == IF c = "~" THEN <<"~", "0">> ELSE <<c>>

LEMMA CodesRead ==
  ASSUME NEW c \in Chars
  PROVE  /\ Code(c) \in Strings /\ Half(c) \in Strings
         /\ Pointers!Replace(Code(c), "1", "/") = Half(c) /\ Pointers!Replace(Half(c), "0", "~") = <<c>>
         /\ Code(c) # <<>> /\ Half(c) # <<>> /\ NoSlash(Code(c)) /\ EndsPlain(Code(c)) /\ EndsPlain(Half(c))
<1>1. CASE c = "~"
  <2>1. Code(c) = <<"~", "0">> /\ Half(c) = <<"~", "0">>
    BY <1>1 DEF Code, Half
  <2>2. Pointers!Replace(<<"~", "0">>, "1", "/") = <<"~", "0">> /\ Pointers!Replace(<<"~", "0">>, "0", "~") = <<"~">>
    <3>1. "0" # "1"
      OBVIOUS
    <3> QED BY <3>1, ReplaceTwo, Written
  <2>3. <<"~", "0">> # <<>> /\ NoSlash(<<"~", "0">>) /\ EndsPlain(<<"~", "0">>)
    BY DEF NoSlash, EndsPlain
  <2> QED BY <1>1, <2>1, <2>2, <2>3, Codes
<1>2. CASE c = "/"
  <2>1. Code(c) = <<"~", "1">> /\ Half(c) = <<c>>
    BY <1>2 DEF Code, Half
  <2>2. Pointers!Replace(<<"~", "1">>, "1", "/") = <<"/">> /\ Pointers!Replace(<<c>>, "0", "~") = <<c>>
    BY ReplaceTwo, ReplaceOne, Written
  <2>3. <<"~", "1">> # <<>> /\ NoSlash(<<"~", "1">>) /\ EndsPlain(<<"~", "1">>) /\ <<c>> # <<>> /\ EndsPlain(<<c>>)
    BY <1>2 DEF NoSlash, EndsPlain
  <2>4. <<c>> \in Strings
    BY Texts
  <2> QED BY <1>2, <2>1, <2>2, <2>3, <2>4, Codes
<1>3. CASE c # "~" /\ c # "/"
  <2>1. Code(c) = <<c>> /\ Half(c) = <<c>>
    BY <1>3 DEF Code, Half
  <2>2. Pointers!Replace(<<c>>, "1", "/") = <<c>> /\ Pointers!Replace(<<c>>, "0", "~") = <<c>>
    BY ReplaceOne, Written
  <2>3. <<c>> # <<>> /\ NoSlash(<<c>>) /\ EndsPlain(<<c>>)
    BY <1>3 DEF NoSlash, EndsPlain
  <2>4. <<c>> \in Strings
    BY Texts
  <2> QED BY <2>1, <2>2, <2>3, <2>4
<1> QED BY <1>1, <1>2, <1>3

LEMMA JoinedEnds ==
  ASSUME NEW s \in Strings, NEW u \in Strings, u # <<>>, EndsPlain(u)
  PROVE  EndsPlain(s \o u) /\ (NoSlash(s) /\ NoSlash(u) => NoSlash(s \o u))
<1>1. /\ Len(s \o u) = Len(s) + Len(u) /\ Len(s) \in Nat /\ Len(u) \in Nat \ {0}
      /\ \A i \in 1 .. Len(s) : (s \o u)[i] = s[i]
      /\ \A i \in 1 .. Len(u) : (s \o u)[Len(s) + i] = u[i]
  BY DEF Strings
<1>2. Len(u) \in 1 .. Len(u)
  BY <1>1
<1>3. EndsPlain(s \o u)
  <2>1. (s \o u)[Len(s \o u)] = u[Len(u)]
    BY <1>1, <1>2
  <2> QED BY <2>1 DEF EndsPlain
<1>4. ASSUME NoSlash(s), NoSlash(u) PROVE NoSlash(s \o u)
  <2>1. ASSUME NEW i \in 1 .. Len(s \o u) PROVE (s \o u)[i] # "/"
    <3>1. CASE i <= Len(s)
      <4>1. i \in 1 .. Len(s)
        BY <1>1, <3>1
      <4> QED BY <1>1, <1>4, <4>1 DEF NoSlash
    <3>2. CASE ~ (i <= Len(s))
      <4>1. i - Len(s) \in 1 .. Len(u) /\ i = Len(s) + (i - Len(s))
        BY <1>1, <3>2
      <4>2. (s \o u)[Len(s) + (i - Len(s))] = u[i - Len(s)]
        BY <1>1, <4>1
      <4> QED BY <1>4, <4>1, <4>2 DEF NoSlash
    <3> QED BY <3>1, <3>2
  <2> QED BY <2>1 DEF NoSlash
<1> QED BY <1>3, <1>4

LEMMA HalvesJoined ==
  ASSUME NEW s \in Strings, NEW u \in Strings, EndsPlain(s)
  PROVE  /\ Pointers!Replace(s \o u, "1", "/") = Pointers!Replace(s, "1", "/") \o Pointers!Replace(u, "1", "/")
         /\ Pointers!Replace(s \o u, "0", "~") = Pointers!Replace(s, "0", "~") \o Pointers!Replace(u, "0", "~")
<1>1. s = <<>> \/ s[Len(s)] # "~"
  BY DEF EndsPlain
<1>2. ASSUME NEW d \in Chars, NEW e \in Chars
      PROVE  Pointers!Replace(s \o u, d, e) = Pointers!Replace(s, d, e) \o Pointers!Replace(u, d, e)
  BY <1>1, ReplaceJoined
<1>3. "0" \in Chars /\ "1" \in Chars /\ "/" \in Chars /\ "~" \in Chars
  BY Written
<1> QED BY <1>2, <1>3, Zenon

LEMMA SlashFirst ==
  ASSUME NEW s \in Strings, NEW u \in Strings
  PROVE  (<<"/">> \o s) \o u = <<"/">> \o (s \o u)
<1>1. <<"/">> \in Strings
  <2>1. \A c \in Chars : <<c>> \in Strings
    BY Texts
  <2> QED BY <2>1, Written, Zenon
<1>2. \A x \in Strings : (x \o s) \o u = x \o (s \o u)
  BY Texts
<1> QED BY <1>1, <1>2, Zenon

LEMMA OneMoreWritten ==
  ASSUME NEW n \in Strings, NEW b \in Strings, WrittenAs(n, b), NEW c \in Chars
  PROVE  WrittenAs(Append(n, c), b \o Code(c))
<1>0. PICK k \in Strings : k = Code(c)
  BY CodesRead
<1>1. PICK h \in Strings : h = Half(c)
  BY CodesRead
<1>2. PICK m \in Strings : m = Pointers!Replace(b, "1", "/")
  BY ReplaceType, Written
<1>3. /\ Pointers!Replace(k, "1", "/") = h /\ Pointers!Replace(h, "0", "~") = <<c>>
      /\ k # <<>> /\ h # <<>> /\ NoSlash(k) /\ EndsPlain(k) /\ EndsPlain(h)
  BY <1>0, <1>1, CodesRead
<1>4. EndsPlain(b) /\ NoSlash(b) /\ EndsPlain(m) /\ Pointers!Replace(m, "0", "~") = n
  BY <1>2 DEF WrittenAs, Pointers!Unescape
<1>5. Pointers!Replace(b \o k, "1", "/") = m \o h
  <2>1. Pointers!Replace(b \o k, "1", "/") = Pointers!Replace(b, "1", "/") \o Pointers!Replace(k, "1", "/")
    BY <1>4, HalvesJoined
  <2> QED BY <1>2, <1>3, <2>1
<1>6. Pointers!Replace(m \o h, "0", "~") = n \o <<c>>
  <2>1. Pointers!Replace(m \o h, "0", "~") = Pointers!Replace(m, "0", "~") \o Pointers!Replace(h, "0", "~")
    BY <1>4, HalvesJoined
  <2> QED BY <1>3, <1>4, <2>1
<1>7. NoSlash(b \o k) /\ EndsPlain(b \o k) /\ EndsPlain(m \o h)
  BY <1>3, <1>4, JoinedEnds
<1>8. Pointers!Unescape(b \o k) = Append(n, c)
  <2>1. Append(n, c) = n \o <<c>>
    BY Texts
  <2> QED BY <1>5, <1>6, <2>1 DEF Pointers!Unescape
<1>9. Pointers!Escape(Append(n, c)) = <<"/">> \o (b \o k)
  <2>1. Pointers!Escape(Append(n, c)) = Pointers!Escape(n) \o k
    BY <1>0, EscapeSteps DEF EscapeStep, Strings
  <2>2. (<<"/">> \o b) \o k = <<"/">> \o (b \o k)
    BY SlashFirst
  <2>3. Pointers!Escape(n) = <<"/">> \o b
    BY DEF WrittenAs
  <2> QED BY <2>1, <2>2, <2>3
<1> QED BY <1>0, <1>5, <1>7, <1>8, <1>9 DEF WrittenAs

LEMMA EveryNameWritten == \A n \in Strings : \E b \in Strings : WrittenAs(n, b)
<1> DEFINE T == {n \in Strings : \E b \in Strings : WrittenAs(n, b)}
<1>1. <<>> \in T
  BY NoneWritten, Texts
<1>2. ASSUME NEW s \in Strings, NEW c \in Chars, s \in T PROVE Append(s, c) \in T
  <2>1. PICK b \in Strings : WrittenAs(s, b)
    BY <1>2
  <2>2. WrittenAs(Append(s, c), b \o Code(c))
    BY <2>1, OneMoreWritten
  <2>3. b \o Code(c) \in Strings /\ Append(s, c) \in Strings
    <3>1. Code(c) \in Strings
      BY Codes
    <3> QED BY <3>1, Texts
  <2> QED BY <2>2, <2>3
<1> HIDE DEF T
<1>3. Strings \subseteq T
  BY <1>1, <1>2, EverySeq DEF Strings
<1> QED BY <1>3 DEF T

LEMMA SlashesAppended ==
  ASSUME NEW s \in Strings, NEW c \in Chars, NoSlash(Append(s, c))
  PROVE  NoSlash(s) /\ c # "/"
<1>1. /\ Len(Append(s, c)) = Len(s) + 1 /\ Len(s) \in Nat /\ Append(s, c)[Len(s) + 1] = c
      /\ \A i \in 1 .. Len(s) : Append(s, c)[i] = s[i]
  BY DEF Strings
<1>2. Append(s, c)[Len(s) + 1] # "/"
  <2>1. Len(s) + 1 \in 1 .. Len(Append(s, c))
    BY <1>1
  <2> QED BY <2>1 DEF NoSlash
<1> QED BY <1>1, <1>2 DEF NoSlash

\* What is split after a "/" is the next token, whatever was before it.
LEMMA OneMore ==
  ASSUME NEW C
  PROVE  \A s \in Seq(C) : \A c \in C : Append(s, c) \in Seq(C) /\ Append(s, c) # <<>>
<1> SUFFICES ASSUME NEW s \in Seq(C), NEW c \in C PROVE Append(s, c) \in Seq(C) /\ Append(s, c) # <<>>
  OBVIOUS
<1>1. Append(s, c) \in Seq(C)
  OBVIOUS
<1>2. Len(Append(s, c)) = Len(s) + 1 /\ Len(s) \in Nat
  OBVIOUS
<1> QED BY <1>1, <1>2

LEMMA SplitOne == \A b \in Strings : NoSlash(b) => Pointers!Split(b) = <<b>>
<1> DEFINE T == {b \in Strings : NoSlash(b) => Pointers!Split(b) = <<b>>}
<1>1. <<>> \in T
  BY SplitSteps, Texts
<1>2. ASSUME NEW s \in Strings, NEW c \in Chars, s \in T PROVE Append(s, c) \in T
  <2>1. Append(s, c) \in Strings
    BY Texts
  <2>2. SUFFICES ASSUME NoSlash(Append(s, c)) PROVE Pointers!Split(Append(s, c)) = <<Append(s, c)>>
    BY <2>1
  <2>3. NoSlash(s) /\ c # "/"
    BY <2>2, SlashesAppended
  <2>4. Pointers!Split(s) = <<s>>
    BY <1>2, <2>3
  <2>5. Pointers!Split(Append(s, c)) = SplitStep(<<s>>, c)
    BY <2>4, SplitSteps DEF Strings
  <2>6. SplitStep(<<s>>, c) = [<<s>> EXCEPT ![Len(<<s>>)] = Append(@, c)]
    BY <2>3 DEF SplitStep
  <2>7. [<<s>> EXCEPT ![Len(<<s>>)] = Append(@, c)] = <<Append(s, c)>>
    OBVIOUS
  <2> QED BY <2>5, <2>6, <2>7
<1> HIDE DEF T
<1>3. Strings \subseteq T
  BY <1>1, <1>2, EverySeq DEF Strings
<1> QED BY <1>3 DEF T

LEMMA SplitMore ==
  ASSUME NEW t \in Strings
  PROVE  \A b \in Strings : NoSlash(b) =>
           Pointers!Split(Append(t, "/") \o b) = Append(Pointers!Split(t), b)
<1> DEFINE T == {b \in Strings : NoSlash(b) => Pointers!Split(Append(t, "/") \o b) = Append(Pointers!Split(t), b)}
<1>0. Append(t, "/") \in Strings /\ Pointers!Split(t) \in Parts
  <2>1. \A c \in Chars : Append(t, c) \in Strings
    BY Texts
  <2>2. Pointers!Split(t) \in Parts
    BY SplitSteps DEF Strings
  <2> QED BY <2>1, <2>2, Written, Zenon
<1>1. <<>> \in T
  <2>1. Append(t, "/") \o <<>> = Append(t, "/")
    BY <1>0, Texts
  <2>2. Pointers!Split(Append(t, "/")) = SplitStep(Pointers!Split(t), "/")
    <3>1. \A c \in Chars : Pointers!Split(Append(t, c)) = SplitStep(Pointers!Split(t), c)
      BY SplitSteps DEF Strings
    <3> QED BY <3>1, Written, Zenon
  <2>3. SplitStep(Pointers!Split(t), "/") = Append(Pointers!Split(t), <<>>)
    BY DEF SplitStep
  <2> QED BY <2>1, <2>2, <2>3, Texts
<1>2. ASSUME NEW s \in Strings, NEW c \in Chars, s \in T PROVE Append(s, c) \in T
  <2>1. Append(s, c) \in Strings
    BY Texts
  <2>2. SUFFICES ASSUME NoSlash(Append(s, c))
                 PROVE  Pointers!Split(Append(t, "/") \o Append(s, c)) = Append(Pointers!Split(t), Append(s, c))
    BY <2>1
  <2>3. NoSlash(s) /\ c # "/"
    BY <2>2, SlashesAppended
  <2>4. PICK p \in Strings : p = Append(t, "/")
    BY <1>0
  <2>5. PICK v \in Parts : v = Pointers!Split(t)
    BY <1>0
  <2>6. Pointers!Split(p \o s) = Append(v, s)
    BY <1>2, <2>3, <2>4, <2>5
  <2>7. p \o Append(s, c) = Append(p \o s, c) /\ p \o s \in Strings
    <3>1. \A x, y \in Seq(Chars) : x \o Append(y, c) = Append(x \o y, c) /\ x \o y \in Seq(Chars)
      BY Appended, Joined
    <3> QED BY <3>1 DEF Strings
  <2>8. Pointers!Split(Append(p \o s, c)) = SplitStep(Append(v, s), c)
    BY <2>6, <2>7, SplitSteps DEF Strings
  <2>9. SplitStep(Append(v, s), c) = [Append(v, s) EXCEPT ![Len(Append(v, s))] = Append(@, c)]
    BY <2>3 DEF SplitStep
  <2>10. [Append(v, s) EXCEPT ![Len(Append(v, s))] = Append(@, c)] = Append(v, Append(s, c))
    <3>1. v \in Seq(Strings)
      BY DEF Parts
    <3>2. PICK x \in Strings : x = Append(s, c)
      BY <2>1
    <3>3. Append(v, s)[Len(Append(v, s))] = s
      BY <3>1
    <3>4. [Append(v, s) EXCEPT ![Len(Append(v, s))] = x] = Append(v, x)
      <4>0. \A u \in Strings : Append(v, u) \in Seq(Strings)
        BY <3>1
      <4>1. PICK w \in Seq(Strings) : w = Append(v, s)
        BY <4>0
      <4>2. PICK y \in Seq(Strings) : y = Append(v, x)
        BY <4>0
      <4>3. /\ Len(w) = Len(v) + 1 /\ Len(y) = Len(v) + 1 /\ Len(v) \in Nat /\ y[Len(v) + 1] = x
            /\ \A i \in 1 .. Len(v) : w[i] = v[i] /\ y[i] = v[i]
        BY <3>1, <4>1, <4>2
      <4>4. PICK z \in Seq(Strings) : z = [w EXCEPT ![Len(w)] = x]
        BY <4>3
      <4>5. Len(z) = Len(w) /\ \A i \in 1 .. Len(w) : z[i] = IF i = Len(w) THEN x ELSE w[i]
        BY <4>3, <4>4
      <4>6. \A i \in 1 .. Len(z) : z[i] = y[i]
        <5>1. \A i \in 1 .. Len(z) : i = Len(v) + 1 \/ i \in 1 .. Len(v)
          BY <4>3, <4>5
        <5> QED BY <4>3, <4>5, <5>1
      <4>7. z = y
        BY <4>3, <4>5, <4>6, SameSeq
      <4> QED BY <4>1, <4>2, <4>4, <4>7
    <3> QED BY <3>2, <3>3, <3>4
  <2> QED BY <2>4, <2>5, <2>7, <2>8, <2>9, <2>10
<1> HIDE DEF T
<1>3. Strings \subseteq T
  BY <1>1, <1>2, EverySeq DEF Strings
<1> QED BY <1>3 DEF T

-----------------------------------------------------------------------------
\* An index is written with digits, and read as what it is.
LEMMA DecimalRead ==
  \A n \in Nat : /\ Pointers!Decimal[n] \in Strings /\ NoSlash(Pointers!Decimal[n])
                 /\ Pointers!Unescape(Pointers!Decimal[n]) = Pointers!Decimal[n]
                 /\ Pointers!IsDecimal(Pointers!Decimal[n]) /\ Pointers!Number(Pointers!Decimal[n]) = n
<1> DEFINE D == DOMAIN Pointers!Digit
           V == Seq(D)
           R(g, n) == IF n < 10 THEN <<Pointers!Digits[n + 1]>>
                      ELSE Append(g[n \div 10], Pointers!Digits[(n % 10) + 1])
           h == [n \in Nat |-> [g \in [0 .. n - 1 -> V] |-> R(g, n)]]
           Q(f) == f = [n \in Nat |-> R(f, n)]
           f == CHOOSE g : Q(g)
<1>1. /\ \A d \in 0 .. 9 : Pointers!Digits[d + 1] \in D /\ Pointers!Digit[Pointers!Digits[d + 1]] = d
      /\ D \subseteq Chars \ {"~", "/"}
  BY DigitsRead
<1>2. \A n \in Nat : n % 10 \in 0 .. 9 /\ (n >= 10 => n \div 10 \in 0 .. n - 1 /\ n = 10 * (n \div 10) + (n % 10))
  OBVIOUS
<1>3. \A n \in Nat : \A g \in [0 .. n - 1 -> V] : h[n][g] \in V
  <2> SUFFICES ASSUME NEW n \in Nat, NEW g \in [0 .. n - 1 -> V] PROVE R(g, n) \in V
    OBVIOUS
  <2> HIDE DEF D
  <2>1. CASE n < 10
    <3>1. n \in 0 .. 9
      BY <2>1
    <3>2. Pointers!Digits[n + 1] \in D
      BY <1>1, <3>1
    <3> QED BY <2>1, <3>2
  <2>2. CASE ~ (n < 10)
    <3>1. n \div 10 \in 0 .. n - 1 /\ n % 10 \in 0 .. 9
      BY <1>2, <2>2
    <3>2. Pointers!Digits[(n % 10) + 1] \in D
      BY <1>1, <3>1
    <3>3. g[n \div 10] \in Seq(D)
      BY <3>1
    <3> QED BY <2>2, <3>2, <3>3
  <2> QED BY <2>1, <2>2
<1>4. PICK k \in [Nat -> V] : Recurs(k, h)
  <2> HIDE DEF h, V
  <2> QED BY <1>3, Recursion
<1>5. ASSUME NEW n \in Nat PROVE k[n] = R(k, n)
  <2> DEFINE g == [m \in 0 .. n - 1 |-> k[m]]
  <2> HIDE DEF V
  <2>1. g \in [0 .. n - 1 -> V]
    OBVIOUS
  <2>2. k[n] = h[n][g]
    BY <1>4 DEF Recurs
  <2>3. h[n][g] = R(g, n)
    BY <2>1
  <2>4. R(g, n) = R(k, n)
    <3>1. n >= 10 => g[n \div 10] = k[n \div 10]
      BY <1>2
    <3> HIDE DEF g
    <3> QED BY <3>1
  <2> HIDE DEF g, h, R
  <2> QED BY <2>2, <2>3, <2>4
<1>6. Q(k)
  <2>1. k = [n \in Nat |-> k[n]]
    OBVIOUS
  <2> HIDE DEF R
  <2> QED BY <1>5, <2>1
<1>7. Q(f)
  <2> HIDE DEF Q
  <2> QED BY <1>6, Zenon
<1>8. Pointers!Decimal = f
  BY Zenon DEF Pointers!Decimal
<1>9. ASSUME NEW n \in Nat PROVE Pointers!Decimal[n] = R(Pointers!Decimal, n)
  <2> HIDE DEF f
  <2>1. f[n] = R(f, n)
    <3> HIDE DEF R
    <3> QED BY <1>7
  <2> HIDE DEF R
  <2> QED BY <1>8, <2>1
<1> DEFINE Read == {n \in Nat : /\ Pointers!Decimal[n] \in V /\ Pointers!Decimal[n] # <<>>
                                /\ Pointers!Number(Pointers!Decimal[n]) = n}
<1>10. /\ Pointers!Number(<<>>) = 0
       /\ \A t \in V : \A c \in D : Pointers!Number(Append(t, c)) = 10 * Pointers!Number(t) + Pointers!Digit[c]
  BY NumberSteps DEF NumberStep
<1>11. ASSUME NEW n \in Nat, 0 .. n - 1 \subseteq Read PROVE n \in Read
  <2> HIDE DEF D
  <2>1. CASE n < 10
    <3>1. n \in 0 .. 9
      BY <2>1
    <3>2. PICK c \in D : c = Pointers!Digits[n + 1] /\ Pointers!Digit[c] = n
      BY <1>1, <3>1
    <3>3. Pointers!Decimal[n] = <<c>>
      BY <1>9, <2>1, <3>2
    <3>4. <<>> \in V /\ <<c>> = Append(<<>>, c) /\ <<c>> \in V /\ <<c>> # <<>>
      OBVIOUS
    <3>5. Pointers!Number(Append(<<>>, c)) = 10 * Pointers!Number(<<>>) + Pointers!Digit[c]
      BY <1>10, <3>4
    <3>6. Pointers!Number(<<c>>) = n
      BY <1>10, <3>2, <3>4, <3>5
    <3> QED BY <3>3, <3>4, <3>6
  <2>2. CASE ~ (n < 10)
    <3>1. n \div 10 \in 0 .. n - 1 /\ n % 10 \in 0 .. 9 /\ n = 10 * (n \div 10) + (n % 10)
      BY <1>2, <2>2
    <3>2. PICK c \in D : c = Pointers!Digits[(n % 10) + 1] /\ Pointers!Digit[c] = n % 10
      BY <1>1, <3>1
    <3>3. PICK t \in V : t = Pointers!Decimal[n \div 10] /\ Pointers!Number(t) = n \div 10
      BY <1>11, <3>1
    <3>4. Pointers!Decimal[n] = Append(t, c)
      BY <1>9, <2>2, <3>2, <3>3
    <3>5. Append(t, c) \in V /\ Append(t, c) # <<>>
      BY OneMore
    <3>6. Pointers!Number(Append(t, c)) = n
      BY <1>10, <3>1, <3>2, <3>3
    <3> QED BY <3>4, <3>5, <3>6
  <2> QED BY <2>1, <2>2
<1>12. Nat \subseteq Read
  <2> HIDE DEF Read
  <2> QED BY <1>11, EveryNat
<1>13. ASSUME NEW t \in V, t # <<>>
       PROVE  t \in Strings /\ NoSlash(t) /\ NoTilde(t) /\ Pointers!IsDecimal(t)
  <2>1. /\ Len(t) \in Nat /\ DOMAIN t = 1 .. Len(t)
        /\ \A i \in 1 .. Len(t) : t[i] \in D
    <3> HIDE DEF D
    <3> QED OBVIOUS
  <2>2. \A i \in 1 .. Len(t) : t[i] \in Chars /\ t[i] # "~" /\ t[i] # "/"
    <3> HIDE DEF D
    <3> QED BY <1>1, <2>1
  <2>3. t \in Strings
    <3> HIDE DEF D
    <3> QED BY <2>1, <2>2 DEF Strings
  <2>4. Pointers!IsDecimal(t)
    BY <1>13, <2>1 DEF Pointers!IsDecimal
  <2> QED BY <2>2, <2>3, <2>4 DEF NoSlash, NoTilde
<1>14. ASSUME NEW n \in Nat
       PROVE  /\ Pointers!Decimal[n] \in V /\ Pointers!Decimal[n] # <<>>
              /\ Pointers!Number(Pointers!Decimal[n]) = n
  BY <1>12
<1> HIDE DEF V, D, R, h, f, Read
<1> QED BY <1>13, <1>14, UnescapePlain

-----------------------------------------------------------------------------
(***************************************************************************)
(* The places of a document, level by level, and the way to each of them.  *)
(***************************************************************************)
Root == [pointer |-> <<>>, value |-> Document]
AllBelow(S) == UNION {Pointers!Below(p) : p \in S}
Levels(g, n) == g[0] = {Root} /\ \A k \in 1 .. n : g[k] = AllBelow(g[k - 1])

LEMMA LevelsExist == \A n \in Nat : \E g : Levels(g, n)
<1> DEFINE T == {n \in Nat : \E g : Levels(g, n)}
<1>1. ASSUME NEW n \in Nat, 0 .. n - 1 \subseteq T PROVE n \in T
  <2>1. CASE n = 0
    <3> DEFINE g == [k \in {0} |-> {Root}]
    <3>1. g[0] = {Root} /\ 1 .. 0 = {}
      OBVIOUS
    <3> HIDE DEF g
    <3>2. Levels(g, 0)
      BY <3>1 DEF Levels
    <3> QED BY <2>1, <3>2
  <2>2. CASE n # 0
    <3>1. n - 1 \in T
      BY <1>1, <2>2
    <3>2. PICK g : Levels(g, n - 1)
      BY <3>1
    <3> DEFINE h == [k \in 0 .. n |-> IF k = n THEN AllBelow(g[n - 1]) ELSE g[k]]
    <3>3. h[n] = AllBelow(g[n - 1]) /\ \A k \in 0 .. n - 1 : h[k] = g[k]
      OBVIOUS
    <3>4. 0 \in 0 .. n - 1 /\ n - 1 \in 0 .. n - 1 /\ \A k \in 1 .. n - 1 : k \in 0 .. n - 1 /\ k - 1 \in 0 .. n - 1
      BY <2>2
    <3>5. \A k \in 1 .. n : k = n \/ k \in 1 .. n - 1
      OBVIOUS
    <3> HIDE DEF h
    <3>6. h[0] = {Root}
      BY <3>2, <3>3, <3>4 DEF Levels
    <3>7. ASSUME NEW k \in 1 .. n PROVE h[k] = AllBelow(h[k - 1])
      <4>1. CASE k = n
        BY <3>3, <3>4, <4>1
      <4>2. CASE k \in 1 .. n - 1
        BY <3>2, <3>3, <3>4, <4>2 DEF Levels
      <4> QED BY <3>5, <4>1, <4>2
    <3>8. Levels(h, n)
      BY <3>6, <3>7 DEF Levels
    <3> QED BY <3>8
  <2> QED BY <2>1, <2>2
<1>2. Nat \subseteq T
  <2> HIDE DEF T
  <2> QED BY <1>1, EveryNat
<1> QED BY <1>2

LEMMA LevelsAgree ==
  ASSUME NEW m \in Nat, NEW n \in Nat, NEW f, NEW g, Levels(f, m), Levels(g, n)
  PROVE  \A k \in Nat : k <= m /\ k <= n => f[k] = g[k]
<1> DEFINE T == {k \in Nat : k <= m /\ k <= n => f[k] = g[k]}
<1>1. ASSUME NEW k \in Nat, 0 .. k - 1 \subseteq T PROVE k \in T
  <2>1. CASE k = 0
    BY <2>1 DEF Levels
  <2>2. CASE k # 0
    <3>1. k - 1 \in T /\ (k <= m => k \in 1 .. m /\ k - 1 <= m) /\ (k <= n => k \in 1 .. n /\ k - 1 <= n)
      BY <1>1, <2>2
    <3> SUFFICES ASSUME k <= m, k <= n PROVE f[k] = g[k]
      OBVIOUS
    <3>2. f[k - 1] = g[k - 1]
      BY <3>1
    <3>3. f[k] = AllBelow(f[k - 1]) /\ g[k] = AllBelow(g[k - 1])
      BY <3>1 DEF Levels
    <3> QED BY <3>2, <3>3
  <2> QED BY <2>1, <2>2
<1>2. Nat \subseteq T
  <2> HIDE DEF T
  <2> QED BY <1>1, EveryNat
<1> QED BY <1>2

LEMMA LevelIs ==
  /\ Pointers!Level[0] = {Root}
  /\ \A n \in Nat : Pointers!Level[n + 1] = AllBelow(Pointers!Level[n])
<1> DEFINE upTo(n) == CHOOSE g : Levels(g, n)
           f == [n \in Nat |-> upTo(n)[n]]
           R(g, n) == IF n = 0 THEN {Root} ELSE AllBelow(g[n - 1])
           Q(g) == g = [n \in Nat |-> R(g, n)]
           level == CHOOSE g : Q(g)
<1>1. \A n \in Nat : Levels(upTo(n), n)
  BY LevelsExist, Zenon
<1> HIDE DEF upTo
<1>2. ASSUME NEW n \in Nat PROVE f[n] = R(f, n)
  <2>1. CASE n = 0
    BY <1>1, <2>1 DEF Levels
  <2>2. CASE n # 0
    <3>1. n - 1 \in Nat /\ n \in 1 .. n /\ n - 1 <= n
      BY <2>2
    <3>2. f[n - 1] = upTo(n - 1)[n - 1] /\ f[n] = upTo(n)[n]
      BY <3>1
    <3>3. upTo(n)[n] = AllBelow(upTo(n)[n - 1])
      BY <1>1, <3>1 DEF Levels
    <3>4. upTo(n)[n - 1] = upTo(n - 1)[n - 1]
      <4>1. PICK g : g = upTo(n) /\ Levels(g, n)
        BY <1>1
      <4>2. PICK h : h = upTo(n - 1) /\ Levels(h, n - 1)
        BY <1>1, <3>1
      <4>3. g[n - 1] = h[n - 1]
        BY <3>1, <4>1, <4>2, LevelsAgree
      <4> QED BY <4>1, <4>2, <4>3
    <3> HIDE DEF f
    <3> QED BY <2>2, <3>2, <3>3, <3>4
  <2> QED BY <2>1, <2>2
<1>3. Q(f)
  <2> HIDE DEF R
  <2> QED BY <1>2
<1>4. Q(level)
  <2> HIDE DEF Q
  <2> QED BY <1>3, Zenon
<1>5. Pointers!Level = level
  BY Zenon DEF Pointers!Level, AllBelow, Root
<1> HIDE DEF level
<1>6. ASSUME NEW n \in Nat PROVE level[n] = R(level, n)
  <2> HIDE DEF R
  <2> QED BY <1>4
<1>7. level[0] = {Root}
  BY <1>6
<1>8. ASSUME NEW n \in Nat PROVE level[n + 1] = AllBelow(level[n])
  <2>1. n + 1 \in Nat /\ n + 1 # 0 /\ (n + 1) - 1 = n
    OBVIOUS
  <2>2. level[n + 1] = R(level, n + 1)
    BY <1>6, <2>1
  <2> QED BY <2>1, <2>2
<1> QED BY <1>5, <1>7, <1>8

\* Where a token leads.
Leads(v, token, w) ==
  \/ "object" \in DOMAIN v /\ token \in DOMAIN v.object /\ w = v.object[token]
  \/ /\ "array" \in DOMAIN v /\ Pointers!IsDecimal(token) /\ Pointers!Number(token) < Len(v.array)
     /\ w = v.array[Pointers!Number(token) + 1]

\* The way to a place: a value and a token for each level.
Way(p, n, c, toks) ==
  /\ n \in Nat /\ toks \in Seq(Strings) /\ Len(toks) = n
  /\ c[0] = Document /\ c[n] = p.value
  /\ \A i \in 0 .. n : Pointers!IsValue(c[i])
  /\ \A i \in 0 .. n - 1 : Leads(c[i], Pointers!Unescape(toks[i + 1]), c[i + 1])
  /\ IF n = 0 THEN p.pointer = <<>>
     ELSE \E t \in Strings : p.pointer = <<"/">> \o t /\ Pointers!Split(t) = toks

LEMMA NamesAreStrings == Seq(STRING) \subseteq Strings
<1>1. ASSUME NEW C, NEW D, C \subseteq D PROVE Seq(C) \subseteq Seq(D)
  BY <1>1
<1> QED BY <1>1, Written DEF Strings

\* What is below a place is one token further.
LEMMA BelowLeads ==
  ASSUME NEW p, Pointers!IsValue(p.value), p.pointer \in Strings, NEW q \in Pointers!Below(p)
  PROVE  \E b \in Strings : /\ NoSlash(b) /\ q.pointer = p.pointer \o (<<"/">> \o b)
                            /\ Leads(p.value, Pointers!Unescape(b), q.value)
<1> DEFINE v == p.value
<1>1. CASE "object" \in DOMAIN v
  <2>1. PICK name \in DOMAIN v.object : q = [pointer |-> p.pointer \o Pointers!Escape(name), value |-> v.object[name]]
    BY <1>1 DEF Pointers!Below
  <2>2. DOMAIN v = {"object"} /\ DOMAIN v.object \subseteq Seq(STRING)
    BY <1>1 DEF Pointers!IsValue
  <2>3. name \in Strings
    BY <2>2, NamesAreStrings
  <2>4. PICK b \in Strings : WrittenAs(name, b)
    BY <2>3, EveryNameWritten
  <2>5. /\ Pointers!Escape(name) = <<"/">> \o b /\ NoSlash(b) /\ Pointers!Unescape(b) = name
    BY <2>4 DEF WrittenAs
  <2>6. q.pointer = p.pointer \o Pointers!Escape(name) /\ q.value = v.object[name]
    BY <2>1
  <2>7. Leads(v, Pointers!Unescape(b), q.value)
    BY <1>1, <2>5, <2>6 DEF Leads
  <2> QED BY <2>4, <2>5, <2>6, <2>7
<1>2. CASE ~ ("object" \in DOMAIN v) /\ "array" \in DOMAIN v
  <2>1. PICK i \in DOMAIN v.array :
          q = [pointer |-> p.pointer \o <<"/">> \o Pointers!Decimal[i - 1], value |-> v.array[i]]
    BY <1>2 DEF Pointers!Below
  <2>2. PICK C : v.array \in Seq(C)
    BY <1>2 DEF Pointers!IsValue
  <2>3. i - 1 \in Nat /\ i - 1 < Len(v.array) /\ (i - 1) + 1 = i
    BY <2>2
  <2>4. PICK b \in Strings : b = Pointers!Decimal[i - 1]
    BY <2>3, DecimalRead
  <2>5. /\ NoSlash(b) /\ Pointers!Unescape(b) = b /\ Pointers!IsDecimal(b) /\ Pointers!Number(b) = i - 1
    BY <2>3, <2>4, DecimalRead
  <2>6. q.pointer = (p.pointer \o <<"/">>) \o b /\ q.value = v.array[i]
    BY <2>1, <2>4
  <2>7. (p.pointer \o <<"/">>) \o b = p.pointer \o (<<"/">> \o b)
    <3>1. \A c \in Chars : <<c>> \in Strings
      BY Texts
    <3>2. \A x \in Strings : (p.pointer \o x) \o b = p.pointer \o (x \o b)
      BY Texts
    <3> QED BY <3>1, <3>2, Written, Zenon
  <2>8. Leads(v, Pointers!Unescape(b), q.value)
    BY <1>2, <2>3, <2>5, <2>6 DEF Leads
  <2> QED BY <2>4, <2>5, <2>6, <2>7, <2>8
<1>3. CASE ~ ("object" \in DOMAIN v) /\ ~ ("array" \in DOMAIN v)
  BY <1>3 DEF Pointers!Below
<1> QED BY <1>1, <1>2, <1>3

LEMMA WayMore ==
  ASSUME NEW p, NEW n, NEW c, NEW toks, Way(p, n, c, toks),
         NEW q \in Pointers!Below(p), Pointers!IsValue(q.value)
  PROVE  \E d, more : Way(q, n + 1, d, more)
<1>1. /\ n \in Nat /\ toks \in Seq(Strings) /\ Len(toks) = n /\ c[0] = Document /\ c[n] = p.value
      /\ \A i \in 0 .. n : Pointers!IsValue(c[i])
      /\ \A i \in 0 .. n - 1 : Leads(c[i], Pointers!Unescape(toks[i + 1]), c[i + 1])
  BY DEF Way
<1>2. n = 0 => p.pointer = <<>>
  BY DEF Way
<1>3. n # 0 => \E t \in Strings : p.pointer = <<"/">> \o t /\ Pointers!Split(t) = toks
  BY DEF Way
<1>4. p.pointer \in Strings /\ <<"/">> \in Strings
  <2>1. \A x \in Chars : <<x>> \in Strings
    BY Texts
  <2>2. <<"/">> \in Strings
    BY <2>1, Written, Zenon
  <2>3. \A x, y \in Strings : x \o y \in Strings
    BY Texts
  <2> QED BY <1>1, <1>2, <1>3, <2>2, <2>3, Texts
<1>5. Pointers!IsValue(p.value)
  <2>1. n \in 0 .. n
    BY <1>1
  <2> QED BY <1>1, <2>1
<1>6. PICK b \in Strings : /\ NoSlash(b) /\ q.pointer = p.pointer \o (<<"/">> \o b)
                           /\ Leads(p.value, Pointers!Unescape(b), q.value)
  BY <1>4, <1>5, BelowLeads
<1> DEFINE d == [i \in 0 .. n + 1 |-> IF i <= n THEN c[i] ELSE q.value]
           more == Append(toks, b)
<1>7. /\ more \in Seq(Strings) /\ Len(more) = n + 1 /\ more[n + 1] = b
      /\ \A i \in 1 .. n : more[i] = toks[i]
  BY <1>1
<1>8. d[n + 1] = q.value /\ \A i \in 0 .. n : d[i] = c[i]
  BY <1>1
<1>9. \E t \in Strings : q.pointer = <<"/">> \o t /\ Pointers!Split(t) = more
  <2>1. CASE n = 0
    <3>1. <<>> \o (<<"/">> \o b) = <<"/">> \o b
      <4>1. \A x, y \in Strings : <<>> \o (x \o y) = x \o y
        BY Texts
      <4> QED BY <1>4, <4>1, Zenon
    <3>2. toks = <<>>
      BY <1>1, <2>1
    <3>3. Append(<<>>, b) = <<b>>
      OBVIOUS
    <3>4. Pointers!Split(b) = <<b>>
      BY <1>6, SplitOne
    <3> QED BY <1>2, <1>6, <2>1, <3>1, <3>2, <3>3, <3>4
  <2>2. CASE n # 0
    <3>1. PICK t \in Strings : p.pointer = <<"/">> \o t /\ Pointers!Split(t) = toks
      BY <1>3, <2>2
    <3>2. \A x \in Strings : (x \o t) \o (x \o b) = x \o ((t \o x) \o b) /\ (t \o x) \o b \in Strings
      <4> SUFFICES ASSUME NEW x \in Strings
                   PROVE  (x \o t) \o (x \o b) = x \o ((t \o x) \o b) /\ (t \o x) \o b \in Strings
        OBVIOUS
      <4>1. PICK y \in Strings : y = x \o b
        BY Texts
      <4>2. PICK z \in Strings : z = t \o x
        BY Texts
      <4>3. (x \o t) \o y = x \o (t \o y)
        BY Texts
      <4>4. z \o b = t \o y
        <5>1. (t \o x) \o b = t \o (x \o b)
          BY Texts
        <5> QED BY <4>1, <4>2, <5>1
      <4>5. z \o b \in Strings
        BY Texts
      <4> QED BY <4>1, <4>2, <4>3, <4>4, <4>5
    <3>3. t \o <<"/">> = Append(t, "/")
      <4>1. \A x \in Chars : Append(t, x) = t \o <<x>>
        BY Texts
      <4> QED BY <4>1, Written, Zenon
    <3>4. /\ (<<"/">> \o t) \o (<<"/">> \o b) = <<"/">> \o (Append(t, "/") \o b)
          /\ Append(t, "/") \o b \in Strings
      BY <1>4, <3>2, <3>3, Zenon
    <3>5. Pointers!Split(Append(t, "/") \o b) = Append(toks, b)
      BY <1>6, <3>1, SplitMore
    <3> HIDE DEF d
    <3> QED BY <1>6, <3>1, <3>4, <3>5
  <2> QED BY <2>1, <2>2
<1> HIDE DEF d, more
<1>10. \A i \in 0 .. n + 1 : i = n + 1 \/ i \in 0 .. n
  BY <1>1
<1>11. \A i \in 0 .. n + 1 : Pointers!IsValue(d[i])
  BY <1>1, <1>8, <1>10
<1>12. ASSUME NEW i \in 0 .. (n + 1) - 1
       PROVE  Leads(d[i], Pointers!Unescape(more[i + 1]), d[i + 1])
  <2>1. CASE i = n
    <3>1. n \in 0 .. n
      BY <1>1
    <3>2. d[i] = p.value /\ more[i + 1] = b /\ d[i + 1] = q.value
      BY <1>1, <1>7, <1>8, <2>1, <3>1
    <3> QED BY <1>6, <3>2
  <2>2. CASE i # n
    <3>1. i \in 0 .. n - 1 /\ i \in 0 .. n /\ i + 1 \in 0 .. n /\ i + 1 \in 1 .. n
      BY <1>1, <2>2
    <3>2. d[i] = c[i] /\ more[i + 1] = toks[i + 1] /\ d[i + 1] = c[i + 1]
      BY <1>7, <1>8, <3>1
    <3> QED BY <1>1, <3>1, <3>2
  <2> QED BY <2>1, <2>2
<1>13. n + 1 \in Nat /\ n + 1 # 0 /\ d[0] = Document
  <2>1. 0 \in 0 .. n
    BY <1>1
  <2> QED BY <1>1, <1>8, <2>1
<1>14. Way(q, n + 1, d, more)
  BY <1>7, <1>8, <1>9, <1>11, <1>12, <1>13 DEF Way
<1> QED BY <1>14

LEMMA PlaceIs ==
  /\ MaxDepth \in Nat
  /\ \A p : p \in Pointers!Place <=> \E n \in 0 .. MaxDepth : p \in Pointers!Level[n]
  /\ \A p \in Pointers!Place : Pointers!IsValue(p.value)
BY DocumentAssumption DEF Pointers!Place

\* There is a way to every place.
LEMMA EveryPlaceHasItsWay ==
  \A p \in Pointers!Place : \E n, c, toks : Way(p, n, c, toks)
<1> DEFINE T == {n \in Nat : n <= MaxDepth =>
                   \A p \in Pointers!Level[n] : \E c, toks : Way(p, n, c, toks)}
<1>1. ASSUME NEW n \in Nat, 0 .. n - 1 \subseteq T PROVE n \in T
  <2> SUFFICES ASSUME n <= MaxDepth, NEW p \in Pointers!Level[n] PROVE \E c, toks : Way(p, n, c, toks)
    OBVIOUS
  <2>0. n \in 0 .. MaxDepth
    BY PlaceIs
  <2>1. Pointers!IsValue(p.value)
    BY <2>0, PlaceIs
  <2>2. CASE n = 0
    <3>1. p = Root
      BY <2>2, LevelIs
    <3>2. p.pointer = <<>> /\ p.value = Document
      BY <3>1 DEF Root
    <3> DEFINE c == [i \in {0} |-> Document]
    <3>3. c[0] = Document /\ <<>> \in Seq(Strings) /\ Len(<<>>) = 0 /\ 0 .. 0 = {0} /\ 0 .. 0 - 1 = {}
      OBVIOUS
    <3> HIDE DEF c
    <3>4. Way(p, 0, c, <<>>)
      BY <2>1, <3>2, <3>3 DEF Way
    <3> QED BY <2>2, <3>4
  <2>3. CASE n # 0
    <3>1. n - 1 \in Nat /\ n - 1 <= MaxDepth /\ n - 1 \in 0 .. n - 1 /\ (n - 1) + 1 = n
      BY <2>0, <2>3, PlaceIs
    <3>2. Pointers!Level[n] = AllBelow(Pointers!Level[n - 1])
      BY <3>1, LevelIs
    <3>3. PICK o \in Pointers!Level[n - 1] : p \in Pointers!Below(o)
      BY <3>2 DEF AllBelow
    <3>4. PICK c, toks : Way(o, n - 1, c, toks)
      BY <1>1, <3>1
    <3>5. \E d, more : Way(p, (n - 1) + 1, d, more)
      BY <2>1, <3>3, <3>4, WayMore
    <3> QED BY <3>1, <3>5
  <2> QED BY <2>2, <2>3
<1>2. Nat \subseteq T
  <2> HIDE DEF T
  <2> QED BY <1>1, EveryNat
<1>3. ASSUME NEW p \in Pointers!Place PROVE \E n, c, toks : Way(p, n, c, toks)
  <2>1. PICK n \in 0 .. MaxDepth : p \in Pointers!Level[n]
    BY PlaceIs
  <2>2. n \in Nat /\ n <= MaxDepth
    BY PlaceIs
  <2>3. \E c, toks : Way(p, n, c, toks)
    BY <1>2, <2>1, <2>2
  <2> QED BY <2>3
<1> QED BY <1>3

\* What is below a place of the document is a place of the document.
LEMMA BelowIsPlace == \A p \in Pointers!Place : Pointers!Below(p) \subseteq Pointers!Place
<1> SUFFICES ASSUME NEW p \in Pointers!Place, NEW q \in Pointers!Below(p) PROVE q \in Pointers!Place
  OBVIOUS
<1>1. PICK n \in 0 .. MaxDepth : p \in Pointers!Level[n]
  BY PlaceIs
<1>2. n \in Nat /\ n + 1 \in 0 .. MaxDepth + 1
  BY PlaceIs
<1>3. q \in Pointers!Level[n + 1]
  BY <1>1, <1>2, LevelIs DEF AllBelow
<1>4. n + 1 # MaxDepth + 1
  BY <1>3, DocumentAssumption
<1>5. n + 1 \in 0 .. MaxDepth
  BY <1>2, <1>4, PlaceIs
<1> QED BY <1>3, <1>5, PlaceIs

\* The pointer of p has led to the i-th value of the way to p, and its remaining
\* tokens are those that are left.
OnWay(p) ==
  \E n, c, toks : \E i \in 0 .. n :
    /\ Way(p, n, c, toks) /\ current = c[i]
    /\ Len(tokens) = n - i /\ \A j \in 1 .. n - i : tokens[j] = toks[i + j]
    /\ status = IF i = n THEN "found" ELSE "resolving"

PointersInv ==
  /\ tokens \in Seq(Strings) /\ \E p \in Pointers!Place : current = p.value
  /\ (status \in {"found", "not a pointer"}) <=> (tokens = <<>>)
  /\ \A p \in Pointers!Place : p.pointer = pointer => OnWay(p)

LEMMA PointersStart == Pointers!Init => PointersInv
<1> SUFFICES ASSUME Pointers!Init PROVE PointersInv
  OBVIOUS
<1>1. pointer \in Strings /\ current = Document
  BY DocumentAssumption, NamesAreStrings DEF Pointers!Init
<1>2. /\ tokens = IF pointer # <<>> /\ Head(pointer) = "/" THEN Pointers!Split(Tail(pointer)) ELSE <<>>
      /\ status = IF pointer = <<>> THEN "found"
                  ELSE IF Head(pointer) = "/" THEN "resolving" ELSE "not a pointer"
  BY DEF Pointers!Init
<1>3. pointer # <<>> => Pointers!Split(Tail(pointer)) \in Parts
  <2>1. pointer # <<>> => Tail(pointer) \in Seq(Chars)
    BY <1>1 DEF Strings
  <2> QED BY <2>1, SplitSteps
<1>4. tokens \in Seq(Strings) /\ ((status \in {"found", "not a pointer"}) <=> (tokens = <<>>))
  <2>1. CASE pointer # <<>> /\ Head(pointer) = "/"
    <3>1. tokens \in Seq(Strings) /\ tokens # <<>> /\ status = "resolving"
      BY <1>2, <1>3, <2>1 DEF Parts
    <3> QED BY <3>1
  <2>2. CASE ~ (pointer # <<>> /\ Head(pointer) = "/")
    <3>1. tokens = <<>> /\ (status = "found" \/ status = "not a pointer")
      BY <1>2, <2>2
    <3>2. <<>> \in Seq(Strings)
      OBVIOUS
    <3> QED BY <3>1, <3>2
  <2> QED BY <2>1, <2>2
<1>5. \E p \in Pointers!Place : current = p.value
  <2>1. 0 \in 0 .. MaxDepth /\ Root \in Pointers!Level[0]
    BY PlaceIs, LevelIs
  <2>2. Root \in Pointers!Place /\ Root.value = Document
    BY <2>1, PlaceIs DEF Root
  <2> QED BY <1>1, <2>2
<1>6. ASSUME NEW p \in Pointers!Place, p.pointer = pointer PROVE OnWay(p)
  <2>1. PICK n, c, toks : Way(p, n, c, toks)
    BY EveryPlaceHasItsWay
  <2>2. n \in Nat /\ toks \in Seq(Strings) /\ Len(toks) = n /\ c[0] = Document
    BY <2>1 DEF Way
  <2>3. CASE n = 0
    <3>1. pointer = <<>>
      BY <1>6, <2>1, <2>3 DEF Way
    <3>2. tokens = <<>> /\ status = "found"
      BY <1>2, <3>1
    <3>3. 0 \in 0 .. n /\ Len(<<>>) = n - 0 /\ 1 .. n - 0 = {} /\ 0 = n
      BY <2>3
    <3> QED BY <1>1, <2>1, <2>2, <3>2, <3>3 DEF OnWay
  <2>4. CASE n # 0
    <3>1. PICK t \in Strings : pointer = <<"/">> \o t /\ Pointers!Split(t) = toks
      BY <1>6, <2>1, <2>4 DEF Way
    <3>2. pointer # <<>> /\ Head(pointer) = "/" /\ Tail(pointer) = t
      <4>1. ASSUME NEW C, NEW x \in C, NEW s \in Seq(C)
            PROVE  <<x>> \o s # <<>> /\ Head(<<x>> \o s) = x /\ Tail(<<x>> \o s) = s
        <5>1. /\ <<x>> \o s \in Seq(C) /\ Len(<<x>> \o s) = Len(s) + 1 /\ (<<x>> \o s)[1] = x
              /\ \A i \in 1 .. Len(s) : (<<x>> \o s)[i + 1] = s[i]
          OBVIOUS
        <5>2. PICK w \in Seq(C) : w = <<x>> \o s
          BY <5>1
        <5>3. Len(w) = Len(s) + 1 /\ Len(s) \in Nat /\ w[1] = x /\ \A i \in 1 .. Len(s) : w[i + 1] = s[i]
          BY <5>1, <5>2
        <5>4. w # <<>> /\ Head(w) = x
          BY <5>3
        <5>8. \A y \in Seq(C) : y # <<>> => Tail(y) \in Seq(C)
          OBVIOUS
        <5>5. PICK u \in Seq(C) : u = Tail(w)
          BY <5>4, <5>8
        <5>6. Len(u) = Len(s) /\ \A i \in 1 .. Len(u) : u[i] = s[i]
          BY <5>3, <5>4, <5>5
        <5>7. u = s
          BY <5>6, SameSeq
        <5> QED BY <5>2, <5>4, <5>5, <5>7
      <4>2. ASSUME NEW x \in Chars
            PROVE  <<x>> \o t # <<>> /\ Head(<<x>> \o t) = x /\ Tail(<<x>> \o t) = t
        BY <4>1 DEF Strings
      <4>3. <<"/">> \o t # <<>> /\ Head(<<"/">> \o t) = "/" /\ Tail(<<"/">> \o t) = t
        BY <4>2, Written, Zenon
      <4> QED BY <3>1, <4>3
    <3>3. tokens = toks /\ status = "resolving"
      BY <1>2, <3>1, <3>2
    <3>4. 0 \in 0 .. n /\ Len(toks) = n - 0 /\ (\A j \in 1 .. n - 0 : toks[j] = toks[0 + j]) /\ 0 # n
      BY <2>2, <2>4
    <3> QED BY <1>1, <2>1, <2>2, <3>3, <3>4 DEF OnWay
  <2> QED BY <2>3, <2>4
<1> QED BY <1>4, <1>5, <1>6 DEF PointersInv

\* An index is a number.
LEMMA IndexRead ==
  ASSUME NEW t \in Strings, Pointers!IsDecimal(t)
  PROVE  Pointers!Number(t) \in Nat
<1>1. \A i \in 1 .. Len(t) : t[i] \in DOMAIN Pointers!Digit
  <2>1. DOMAIN t = 1 .. Len(t)
    BY DEF Strings
  <2> QED BY <2>1 DEF Pointers!IsDecimal
<1>2. t \in Seq(DOMAIN Pointers!Digit)
  <2> DEFINE D == DOMAIN Pointers!Digit
  <2>1. \A i \in 1 .. Len(t) : t[i] \in D
    BY <1>1
  <2> HIDE DEF D
  <2>2. t \in Seq(D)
    BY <2>1 DEF Strings
  <2> QED BY <2>2 DEF D
<1> QED BY <1>2, NumberSteps

\* What is read is a text.
LEMMA TokenRead ==
  ASSUME PointersInv, Pointers!Next
  PROVE  /\ tokens # <<>> /\ Head(tokens) = tokens[1] /\ Pointers!Unescape(Head(tokens)) \in Strings
         /\ status = "resolving" /\ pointer' = pointer
<1>1. status = "resolving" /\ pointer' = pointer
  BY DEF Pointers!Next
<1>2. tokens # <<>> /\ tokens \in Seq(Strings)
  BY <1>1 DEF PointersInv
<1>3. Head(tokens) = tokens[1] /\ Head(tokens) \in Strings
  BY <1>2
<1>4. Pointers!Unescape(Head(tokens)) \in Strings
  <2>1. \A d, e \in Chars : \A t \in Strings : Pointers!Replace(t, d, e) \in Strings
    BY ReplaceType
  <2>2. Pointers!Replace(Head(tokens), "1", "/") \in Strings
    BY <1>3, <2>1, Written, Zenon
  <2>3. Pointers!Replace(Pointers!Replace(Head(tokens), "1", "/"), "0", "~") \in Strings
    BY <2>1, <2>2, Written, Zenon
  <2> QED BY <2>3 DEF Pointers!Unescape
<1> QED BY <1>1, <1>2, <1>3, <1>4

\* A token leads to a value or nowhere.
LEMMA PointersMove ==
  ASSUME PointersInv, Pointers!Next
  PROVE  LET token == Pointers!Unescape(Head(tokens)) IN
         \/ \E w : Leads(current, token, w) /\ Pointers!Go(w)
         \/ /\ ~ \E w : Leads(current, token, w)
            /\ UNCHANGED <<current, tokens>>
            /\ status' \in {"no such name", "not an index", "out of range", "traverses a scalar"}
<1> DEFINE token == Pointers!Unescape(Head(tokens))
<1>1. PICK p \in Pointers!Place : current = p.value
  BY DEF PointersInv
<1>2. Pointers!IsValue(current)
  BY <1>1, PlaceIs
<1>3. token \in Strings
  BY TokenRead
<1>4. Pointers!InObject(token) \/ Pointers!InArray(token) \/ Pointers!InScalar(token)
  BY DEF Pointers!Next
<1> HIDE DEF token
<1>5. CASE Pointers!InObject(token)
  <2>1. "object" \in DOMAIN current
    BY <1>5 DEF Pointers!InObject
  <2>2. ~ ("array" \in DOMAIN current)
    BY <1>2, <2>1 DEF Pointers!IsValue
  <2>3. CASE token \in DOMAIN current.object
    <3>1. Pointers!Go(current.object[token])
      BY <1>5, <2>3 DEF Pointers!InObject
    <3>2. Leads(current, token, current.object[token])
      BY <2>1, <2>3 DEF Leads
    <3> QED BY <3>1, <3>2 DEF token
  <2>4. CASE ~ (token \in DOMAIN current.object)
    <3>1. Pointers!Fail("no such name")
      BY <1>5, <2>4 DEF Pointers!InObject
    <3>2. UNCHANGED <<current, tokens>> /\ status' = "no such name"
      BY <3>1 DEF Pointers!Fail
    <3>3. ~ \E w : Leads(current, token, w)
      BY <2>2, <2>4 DEF Leads
    <3> QED BY <3>2, <3>3 DEF token
  <2> QED BY <2>3, <2>4 DEF token
<1>6. CASE Pointers!InArray(token)
  <2>1. "array" \in DOMAIN current
    BY <1>6 DEF Pointers!InArray
  <2>2. ~ ("object" \in DOMAIN current) /\ Len(current.array) \in Nat
    BY <1>2, <2>1 DEF Pointers!IsValue
  <2>3. CASE ~ Pointers!IsDecimal(token)
    <3>1. Pointers!Fail("not an index")
      BY <1>6, <2>3 DEF Pointers!InArray
    <3>2. UNCHANGED <<current, tokens>> /\ status' = "not an index"
      BY <3>1 DEF Pointers!Fail
    <3>3. ~ \E w : Leads(current, token, w)
      BY <2>2, <2>3 DEF Leads
    <3> QED BY <3>2, <3>3 DEF token
  <2>4. CASE Pointers!IsDecimal(token) /\ Pointers!Number(token) >= Len(current.array)
    <3>1. Pointers!Fail("out of range")
      BY <1>6, <2>4 DEF Pointers!InArray
    <3>2. UNCHANGED <<current, tokens>> /\ status' = "out of range"
      BY <3>1 DEF Pointers!Fail
    <3>3. ~ (Pointers!Number(token) < Len(current.array))
      BY <1>3, <2>2, <2>4, IndexRead
    <3>4. ~ \E w : Leads(current, token, w)
      BY <2>2, <3>3 DEF Leads
    <3> QED BY <3>2, <3>4 DEF token
  <2>5. CASE Pointers!IsDecimal(token) /\ ~ (Pointers!Number(token) >= Len(current.array))
    <3>1. Pointers!Go(current.array[Pointers!Number(token) + 1])
      BY <1>6, <2>5 DEF Pointers!InArray
    <3>2. Pointers!Number(token) < Len(current.array)
      BY <1>3, <2>2, <2>5, IndexRead
    <3>3. Leads(current, token, current.array[Pointers!Number(token) + 1])
      BY <2>1, <2>5, <3>2 DEF Leads
    <3> QED BY <3>1, <3>3 DEF token
  <2> QED BY <2>3, <2>4, <2>5
<1>7. CASE Pointers!InScalar(token)
  <2>1. "scalar" \in DOMAIN current /\ Pointers!Fail("traverses a scalar")
    BY <1>7 DEF Pointers!InScalar
  <2>2. UNCHANGED <<current, tokens>> /\ status' = "traverses a scalar"
    BY <2>1 DEF Pointers!Fail
  <2>4. ~ ("object" \in DOMAIN current) /\ ~ ("array" \in DOMAIN current)
    <3>1. DOMAIN current = {"scalar"}
      BY <1>2, <2>1 DEF Pointers!IsValue
    <3> QED BY <3>1
  <2>3. ~ \E w : Leads(current, token, w)
    BY <2>4 DEF Leads
  <2> QED BY <2>2, <2>3 DEF token
<1> QED BY <1>4, <1>5, <1>6, <1>7

\* Where a token leads is unique, and is a place of the document.
LEMMA LeadsOnce ==
  ASSUME NEW v, Pointers!IsValue(v), NEW token, NEW w, NEW u, Leads(v, token, w), Leads(v, token, u)
  PROVE  w = u
BY DEF Leads, Pointers!IsValue

LEMMA LeadsBelow ==
  ASSUME NEW p \in Pointers!Place, NEW token \in Strings, NEW w, Leads(p.value, token, w)
  PROVE  \E q \in Pointers!Place : w = q.value
<1> DEFINE v == p.value
<1>0. Pointers!IsValue(v) /\ Pointers!Below(p) \subseteq Pointers!Place
  BY PlaceIs, BelowIsPlace
<1>1. CASE "object" \in DOMAIN v
  <2>1. token \in DOMAIN v.object /\ w = v.object[token]
    BY <1>0, <1>1 DEF Leads, Pointers!IsValue
  <2> DEFINE q == [pointer |-> p.pointer \o Pointers!Escape(token), value |-> v.object[token]]
  <2>2. q \in Pointers!Below(p)
    BY <1>1, <2>1 DEF Pointers!Below
  <2>3. w = q.value
    BY <2>1
  <2> HIDE DEF q
  <2> QED BY <1>0, <2>2, <2>3
<1>2. CASE ~ ("object" \in DOMAIN v)
  <2>1. /\ "array" \in DOMAIN v /\ Pointers!IsDecimal(token) /\ Pointers!Number(token) < Len(v.array)
        /\ w = v.array[Pointers!Number(token) + 1]
    BY <1>2 DEF Leads
  <2>2. PICK C : v.array \in Seq(C)
    BY <1>0, <2>1 DEF Pointers!IsValue
  <2> DEFINE i == Pointers!Number(token) + 1
             q == [pointer |-> p.pointer \o <<"/">> \o Pointers!Decimal[i - 1], value |-> v.array[i]]
  <2>3. i \in DOMAIN v.array
    BY <2>1, <2>2, IndexRead
  <2>4. q \in Pointers!Below(p)
    <3> HIDE DEF i
    <3> QED BY <1>2, <2>1, <2>3 DEF Pointers!Below
  <2>5. w = q.value
    BY <2>1
  <2> HIDE DEF q
  <2> QED BY <1>0, <2>4, <2>5
<1> QED BY <1>1, <1>2

LEMMA PointersStep == PointersInv /\ [Pointers!Next]_(Pointers!vars) => PointersInv'
<1>1. ASSUME PointersInv, UNCHANGED Pointers!vars PROVE PointersInv'
  <2>1. pointer' = pointer /\ tokens' = tokens /\ current' = current /\ status' = status
    BY <1>1 DEF Pointers!vars
  <2>2. ASSUME NEW p, OnWay(p) PROVE OnWay(p)'
    BY <2>1, <2>2 DEF OnWay
  <2> QED BY <1>1, <2>1, <2>2 DEF PointersInv
<1>2. ASSUME PointersInv, Pointers!Next PROVE PointersInv'
  <2> DEFINE token == Pointers!Unescape(Head(tokens))
  <2>1. /\ tokens # <<>> /\ Head(tokens) = tokens[1] /\ token \in Strings
        /\ status = "resolving" /\ pointer' = pointer
    BY <1>2, TokenRead
  <2>2. tokens \in Seq(Strings) /\ Len(tokens) \in Nat \ {0}
    BY <1>2, <2>1 DEF PointersInv
  <2>3. PICK p \in Pointers!Place : current = p.value
    BY <1>2 DEF PointersInv
  <2>4. ASSUME NEW o \in Pointers!Place, o.pointer = pointer
        PROVE  \E n, c, toks : \E i \in 0 .. n :
                 /\ Way(o, n, c, toks) /\ current = c[i] /\ n \in Nat /\ i < n
                 /\ Len(tokens) = n - i /\ \A j \in 1 .. n - i : tokens[j] = toks[i + j]
                 /\ Leads(current, token, c[i + 1])
    <3>1. OnWay(o)
      BY <1>2, <2>4 DEF PointersInv
    <3>2. PICK n, c, toks : \E i \in 0 .. n :
            /\ Way(o, n, c, toks) /\ current = c[i]
            /\ Len(tokens) = n - i /\ \A j \in 1 .. n - i : tokens[j] = toks[i + j]
            /\ status = IF i = n THEN "found" ELSE "resolving"
      BY <3>1 DEF OnWay
    <3>3. PICK i \in 0 .. n :
            /\ Way(o, n, c, toks) /\ current = c[i]
            /\ Len(tokens) = n - i /\ \A j \in 1 .. n - i : tokens[j] = toks[i + j]
            /\ status = IF i = n THEN "found" ELSE "resolving"
      BY <3>2
    <3>4. n \in Nat /\ \A k \in 0 .. n - 1 : Leads(c[k], Pointers!Unescape(toks[k + 1]), c[k + 1])
      BY <3>3 DEF Way
    <3>5. i # n
      BY <2>1, <3>3
    <3>6. i \in 0 .. n - 1 /\ i < n /\ 1 \in 1 .. n - i
      BY <3>4, <3>5
    <3>7. tokens[1] = toks[i + 1]
      BY <3>3, <3>6
    <3>8. Leads(current, token, c[i + 1])
      BY <2>1, <3>3, <3>4, <3>6, <3>7
    <3> HIDE DEF token
    <3> QED BY <3>3, <3>4, <3>6, <3>8
  <2>5. \/ \E w : Leads(current, token, w) /\ Pointers!Go(w)
        \/ /\ ~ \E w : Leads(current, token, w)
           /\ UNCHANGED <<current, tokens>>
           /\ status' \in {"no such name", "not an index", "out of range", "traverses a scalar"}
    BY <1>2, PointersMove
  <2> HIDE DEF token
  <2>6. CASE \E w : Leads(current, token, w) /\ Pointers!Go(w)
    <3>1. PICK w : Leads(current, token, w) /\ Pointers!Go(w)
      BY <2>6
    <3>2. current' = w /\ tokens' = Tail(tokens) /\ status' = IF Len(tokens) = 1 THEN "found" ELSE "resolving"
      BY <2>1, <3>1 DEF Pointers!Go
    <3>3. \E q \in Pointers!Place : current' = q.value
      BY <2>1, <2>3, <3>1, <3>2, LeadsBelow
    <3>4. /\ tokens' \in Seq(Strings) /\ Len(tokens') = Len(tokens) - 1
          /\ \A j \in 1 .. Len(tokens) - 1 : tokens'[j] = tokens[j + 1]
      BY <2>2, <3>2
    <3>5. tokens' = <<>> <=> Len(tokens) = 1
      BY <2>2, <3>4
    <3>6. (status' \in {"found", "not a pointer"}) <=> (tokens' = <<>>)
      BY <3>2, <3>5
    <3>7. ASSUME NEW o \in Pointers!Place, o.pointer = pointer PROVE OnWay(o)'
      <4>1. PICK n, c, toks : \E i \in 0 .. n :
              /\ Way(o, n, c, toks) /\ current = c[i] /\ n \in Nat /\ i < n
              /\ Len(tokens) = n - i /\ \A j \in 1 .. n - i : tokens[j] = toks[i + j]
              /\ Leads(current, token, c[i + 1])
        BY <2>4, <3>7
      <4>2. PICK i \in 0 .. n :
              /\ Way(o, n, c, toks) /\ current = c[i] /\ n \in Nat /\ i < n
              /\ Len(tokens) = n - i /\ \A j \in 1 .. n - i : tokens[j] = toks[i + j]
              /\ Leads(current, token, c[i + 1])
        BY <4>1
      <4>3. w = c[i + 1]
        <5>1. Pointers!IsValue(current)
          BY <2>3, PlaceIs
        <5> QED BY <3>1, <4>2, <5>1, LeadsOnce
      <4>4. /\ i + 1 \in 0 .. n /\ Len(tokens') = n - (i + 1) /\ (Len(tokens) = 1 <=> i + 1 = n)
        BY <3>4, <4>2
      <4>5. ASSUME NEW j \in 1 .. n - (i + 1) PROVE tokens'[j] = toks[(i + 1) + j]
        <5>0. n \in Nat /\ i \in 0 .. n /\ Len(tokens) = n - i
          BY <4>2
        <5>2. i \in Nat /\ j \in Nat /\ j >= 1 /\ j <= n - (i + 1)
          BY <5>0
        <5>1. j \in 1 .. Len(tokens) - 1 /\ j + 1 \in 1 .. n - i /\ (i + 1) + j = i + (j + 1)
          BY <5>0, <5>2
        <5> QED BY <3>4, <4>2, <5>1
      <4>6. status' = IF i + 1 = n THEN "found" ELSE "resolving"
        BY <3>2, <4>4
      <4> QED BY <3>2, <4>2, <4>3, <4>4, <4>5, <4>6 DEF OnWay
    <3> QED BY <2>1, <3>3, <3>4, <3>6, <3>7 DEF PointersInv
  <2>7. CASE /\ ~ \E w : Leads(current, token, w)
             /\ UNCHANGED <<current, tokens>>
             /\ status' \in {"no such name", "not an index", "out of range", "traverses a scalar"}
    <3>1. ASSUME NEW o \in Pointers!Place, o.pointer = pointer PROVE FALSE
      BY <2>4, <2>7, <3>1
    <3>2. tokens' # <<>> /\ tokens' \in Seq(Strings) /\ ~ (status' \in {"found", "not a pointer"})
      BY <2>1, <2>2, <2>7
    <3>3. \E q \in Pointers!Place : current' = q.value
      BY <2>3, <2>7
    <3> QED BY <2>1, <3>1, <3>2, <3>3 DEF PointersInv
  <2> QED BY <2>5, <2>6, <2>7
<1> QED BY <1>1, <1>2

LEMMA PointersTyped == PointersInv => Pointers!TypeOK
BY DEF PointersInv, Pointers!TypeOK

LEMMA PointersFind == PointersInv => Pointers!EveryPlaceIsFound
<1> SUFFICES ASSUME PointersInv, NEW p \in Pointers!Place, p.pointer = pointer, status # "resolving"
             PROVE  status = "found" /\ current = p.value
  BY DEF Pointers!EveryPlaceIsFound
<1>1. OnWay(p)
  BY DEF PointersInv
<1>2. PICK n, c, toks : \E i \in 0 .. n : /\ Way(p, n, c, toks) /\ current = c[i]
                                          /\ status = IF i = n THEN "found" ELSE "resolving"
  BY <1>1 DEF OnWay
<1>3. c[n] = p.value
  BY <1>2 DEF Way
<1> QED BY <1>2, <1>3

-----------------------------------------------------------------------------
(***************************************************************************)
(* Files.  What reading rows comes to can be said without their order, as  *)
(* long as the services are read first.                                    *)
(***************************************************************************)
Error == {"invalid_service", "invalid_acl", "unconfigured_acl",
          "unconfigured_permission", "undefined_permission",
          "invalid_enabled", "duplicated_permission", "permissions_differ",
          "invalid_input", "unconfigured_input",
          "unconfigured_shared"}
AnyKey == Files!ServiceId \X (Permission \cup {Other})
Result == [configured : SUBSET Files!ServiceId, seen : SUBSET AnyKey, granted : SUBSET AnyKey,
           errors : SUBSET Error]

\* What a row is reported for whatever stands before it, when known services are
\* configured.
Faults(known, row) ==
  CASE row.file = "services" -> Files!Report(row.service \notin Service, "invalid_service")
    [] row.file = "acl" -> Files!Report(row.service \notin Service, "invalid_acl")
                           \cup Files!Report(row.service \notin known, "unconfigured_acl")
    [] row.file = "permissions" -> Files!RowError(known, row)

Good(known, row) == row.file = "permissions" /\ Files!RowError(known, row) = {}
Grants(row) == row.file = "permissions" /\ row.enabled = TRUE

Known(s) == {s[i].service : i \in {j \in DOMAIN s : s[j].file = "services"}}
GoodKeys(s) == {Files!Key(s[i]) : i \in {j \in DOMAIN s : Good(Known(s), s[j])}}
GrantedKeys(s) == {Files!Key(s[i]) : i \in {j \in DOMAIN s : Grants(s[j])}}
Twice(s) ==
  \E i, j \in DOMAIN s : /\ i # j /\ Files!Key(s[i]) = Files!Key(s[j])
                         /\ Good(Known(s), s[i]) /\ Good(Known(s), s[j])
Told(s) ==
  (UNION {Faults(Known(s), s[i]) : i \in DOMAIN s}) \cup Files!Report(Twice(s), "duplicated_permission")

\* r says of the rows of s what there is to say.
Tells(s, r) ==
  /\ r.configured = Known(s) /\ r.seen = GoodKeys(s) /\ r.errors = Told(s)
  /\ r.granted \subseteq r.seen
  /\ r.errors = {} => r.granted = GrantedKeys(s)

ServicesFirst(s) ==
  \A i, j \in DOMAIN s : i < j /\ s[j].file = "services" => s[i].file = "services"

LEMMA RowFields ==
  ASSUME NEW row \in Files!Row
  PROVE  /\ row.service \in Files!ServiceId
         /\ row.file \in {"services", "acl", "permissions"}
         /\ row.file = "services" => row \in Files!ServiceRow
         /\ row.file = "acl" => row \in Files!AclRow
         /\ row.file = "permissions" => /\ row \in Files!PermissionRow
                                        /\ Files!Key(row) \in AnyKey
BY DEF Files!Row, Files!ServiceRow, Files!AclRow, Files!PermissionRow, Files!Key, AnyKey

\* The tests of a permission row leave nothing to doubt.
LEMMA RowErrors ==
  ASSUME NEW known, NEW row \in Files!PermissionRow
  PROVE  /\ Files!RowError(known, row) \subseteq Error
         /\ Files!RowError(known, row) = {} => Files!Key(row) \in (Service \cap known) \X Permission
<1>1. CASE row.service \notin Service \cap known
  BY <1>1 DEF Files!RowError, Error
<1>2. CASE row.service \in Service \cap known /\ row.permission \notin Permission
  BY <1>2 DEF Files!RowError, Error
<1>3. CASE row.service \in Service \cap known /\ row.permission \in Permission
  BY <1>3 DEF Files!RowError, Files!Report, Files!Key, Error
<1> QED BY <1>1, <1>2, <1>3

LEMMA AfterAService ==
  ASSUME NEW r \in Result, NEW row \in Files!Row, row.file = "services"
  PROVE  /\ Files!After(r, row) \in Result
         /\ Files!After(r, row).configured = r.configured \cup {row.service}
         /\ Files!After(r, row).seen = r.seen /\ Files!After(r, row).granted = r.granted
         /\ Files!After(r, row).errors = r.errors \cup Faults(r.configured, row)
<1> DEFINE said == Files!Report(row.service \notin Service, "invalid_service")
           known == r.configured \cup {row.service}
<1>1. /\ Files!After(r, row) = [r EXCEPT !.configured = known, !.errors = r.errors \cup said]
      /\ Faults(r.configured, row) = said
  BY DEF Files!After, Files!AfterService, Faults
<1>2. said \subseteq Error
  BY DEF Files!Report, Error
<1>3. known \subseteq Files!ServiceId
  BY RowFields DEF Result
<1> HIDE DEF said, known
<1>4. /\ Files!After(r, row) \in Result
      /\ Files!After(r, row).configured = known /\ Files!After(r, row).errors = r.errors \cup said
      /\ Files!After(r, row).seen = r.seen /\ Files!After(r, row).granted = r.granted
  BY <1>1, <1>2, <1>3 DEF Result
<1> QED BY <1>1, <1>4 DEF known

LEMMA AfterAnAcl ==
  ASSUME NEW r \in Result, NEW row \in Files!Row, row.file = "acl"
  PROVE  /\ Files!After(r, row) \in Result
         /\ Files!After(r, row).configured = r.configured
         /\ Files!After(r, row).seen = r.seen /\ Files!After(r, row).granted = r.granted
         /\ Files!After(r, row).errors = r.errors \cup Faults(r.configured, row)
<1> DEFINE said == Files!Report(row.service \notin Service, "invalid_acl")
                    \cup Files!Report(row.service \notin r.configured, "unconfigured_acl")
<1>1. Files!After(r, row) = [r EXCEPT !.errors = r.errors \cup said] /\ Faults(r.configured, row) = said
  BY DEF Files!After, Files!AfterAcl, Faults
<1>2. said \subseteq Error
  BY DEF Files!Report, Error
<1> HIDE DEF said
<1> QED BY <1>1, <1>2 DEF Result

LEMMA AfterAPermission ==
  ASSUME NEW r \in Result, NEW row \in Files!Row, row.file = "permissions"
  PROVE  LET after == Files!After(r, row)
             key == Files!Key(row)
             good == Good(r.configured, row)
         IN  /\ after \in Result
             /\ after.configured = r.configured
             /\ after.errors = r.errors \cup Faults(r.configured, row)
                               \cup Files!Report(good /\ key \in r.seen, "duplicated_permission")
             /\ after.seen = IF good THEN r.seen \cup {key} ELSE r.seen
             /\ IF good /\ key \notin r.seen /\ Grants(row) THEN after.granted = r.granted \cup {key}
                ELSE after.granted = r.granted
<1> DEFINE key == Files!Key(row)
           problem == Files!RowError(r.configured, row)
           duplicate == Files!Report(key \in r.seen, "duplicated_permission")
           said == IF problem # {} THEN problem ELSE duplicate
           granted == IF row.enabled = TRUE THEN r.granted \cup {key} ELSE r.granted
           after == Files!After(r, row)
<1>1. after = IF said # {} THEN [r EXCEPT !.errors = r.errors \cup said]
              ELSE [r EXCEPT !.seen = r.seen \cup {key}, !.granted = granted]
  BY DEF Files!After, Files!AfterPermission, Files!Remember
<1>2. Faults(r.configured, row) = problem /\ (Good(r.configured, row) <=> problem = {})
      /\ (Grants(row) <=> row.enabled = TRUE)
  BY DEF Faults, Good, Grants
<1>3. key \in AnyKey /\ problem \subseteq Error
  BY RowFields, RowErrors
<1>4. /\ key \in r.seen => duplicate = {"duplicated_permission"}
      /\ key \notin r.seen => duplicate = {}
      /\ "duplicated_permission" \in Error
  BY DEF Files!Report, Error
<1>5. granted \subseteq AnyKey /\ granted = IF row.enabled = TRUE THEN r.granted \cup {key} ELSE r.granted
  BY <1>3 DEF Result
<1> HIDE DEF key, problem, duplicate, after, granted
<1>6. CASE problem # {}
  <2>1. after = [r EXCEPT !.errors = r.errors \cup problem] /\ ~ Good(r.configured, row)
    BY <1>1, <1>2, <1>6
  <2>2. Files!Report(Good(r.configured, row) /\ key \in r.seen, "duplicated_permission") = {}
    BY <2>1 DEF Files!Report
  <2> QED BY <1>2, <1>3, <2>1, <2>2 DEF Result, key, after
<1>7. CASE problem = {} /\ key \in r.seen
  <2>1. after = [r EXCEPT !.errors = r.errors \cup {"duplicated_permission"}] /\ Good(r.configured, row)
    BY <1>1, <1>2, <1>4, <1>7
  <2>2. Files!Report(Good(r.configured, row) /\ key \in r.seen, "duplicated_permission")
          = {"duplicated_permission"}
    BY <1>7, <2>1 DEF Files!Report
  <2> QED BY <1>2, <1>4, <1>7, <2>1, <2>2 DEF Result, key, after
<1>8. CASE problem = {} /\ key \notin r.seen
  <2>1. after = [r EXCEPT !.seen = r.seen \cup {key}, !.granted = granted] /\ Good(r.configured, row)
    BY <1>1, <1>2, <1>4, <1>8
  <2>2. Files!Report(Good(r.configured, row) /\ key \in r.seen, "duplicated_permission") = {}
    BY <1>8 DEF Files!Report
  <2>3. /\ after \in Result /\ after.configured = r.configured /\ after.errors = r.errors
        /\ after.seen = r.seen \cup {key} /\ after.granted = granted
    BY <1>3, <1>5, <2>1 DEF Result
  <2> QED BY <1>2, <1>5, <1>8, <2>1, <2>2, <2>3 DEF key, after
<1> QED BY <1>6, <1>7, <1>8

LEMMA AfterType ==
  /\ Files!Blank \in Result
  /\ \A r \in Result, row \in Files!Row : Files!After(r, row) \in Result
<1>1. Files!Blank \in Result
  BY DEF Files!Blank, Result
<1>2. ASSUME NEW r \in Result, NEW row \in Files!Row PROVE Files!After(r, row) \in Result
  <2>1. CASE row.file = "services"
    BY <2>1, AfterAService
  <2>2. CASE row.file = "acl"
    BY <2>2, AfterAnAcl
  <2>3. CASE row.file = "permissions"
    BY <2>3, AfterAPermission
  <2> QED BY <2>1, <2>2, <2>3, RowFields
<1> QED BY <1>1, <1>2

\* ReadAll, one row after the other.
LEMMA SameMax == ASSUME NEW S PROVE Files!Max(S) = Pointers!Max(S)
BY DEF Files!Max, Pointers!Max

ReadVia(f, s) ==
  f = [t \in SUBSET DOMAIN s |->
         IF t = {} THEN Files!Blank ELSE Files!After(f[t \ {Files!Max(t)}], s[Files!Max(t)])]
Stepping == [r \in Result |-> [row \in Files!Row |-> Files!After(r, row)]]

LEMMA ReadTraced ==
  ASSUME NEW s \in Seq(Files!Row)
  PROVE  Files!ReadAll(s) \in Result /\ \E f : Files!ReadAll(s) = f[DOMAIN s] /\ Traced(f, s, Files!Blank, Stepping)
<1> DEFINE C == Files!Row
           V == Result
           o == Stepping
           start == Files!Blank
<1>1. start \in V /\ o \in [V -> [C -> V]] /\ s \in Seq(C)
      /\ \A v \in V : \A c \in C : o[v][c] = Files!After(v, c)
  BY AfterType DEF Stepping
<1>2. \A t \in SUBSET DOMAIN s : t # {} => Pointers!Max(t) \in t /\ s[Pointers!Max(t)] \in C
                                           /\ Files!Max(t) = Pointers!Max(t)
  <2>1. DOMAIN s = 1 .. Len(s) /\ Len(s) \in Nat /\ \A i \in DOMAIN s : s[i] \in C
    OBVIOUS
  <2> HIDE DEF C
  <2> QED BY <2>1, LastIsMax, SameMax
<1> HIDE DEF C, V, o, start
<1>3. PICK g \in [SUBSET DOMAIN s -> V] : LastFirst(g, s, start, o)
  BY <1>1, LeftFoldExists
<1>4. ReadVia(g, s)
  <2>1. ASSUME NEW t \in SUBSET DOMAIN s
        PROVE  (IF t = {} THEN start ELSE o[g[t \ {Pointers!Max(t)}]][s[Pointers!Max(t)]])
                 = IF t = {} THEN start ELSE Files!After(g[t \ {Files!Max(t)}], s[Files!Max(t)])
    <3>1. CASE t = {}
      BY <3>1
    <3>2. CASE t # {}
      <4>1. g[t \ {Pointers!Max(t)}] \in V /\ s[Pointers!Max(t)] \in C /\ Files!Max(t) = Pointers!Max(t)
        BY <1>2, <3>2
      <4> QED BY <1>1, <3>2, <4>1
    <3> QED BY <3>1, <3>2
  <2>2. g = [t \in SUBSET DOMAIN s |->
               IF t = {} THEN start ELSE o[g[t \ {Pointers!Max(t)}]][s[Pointers!Max(t)]]]
    BY <1>3 DEF LastFirst
  <2>3. g = [t \in SUBSET DOMAIN s |->
               IF t = {} THEN start ELSE Files!After(g[t \ {Files!Max(t)}], s[Files!Max(t)])]
    BY <2>1, <2>2
  <2> QED BY <2>3 DEF ReadVia, start
<1> DEFINE Q(h) == ReadVia(h, s)
           f == CHOOSE h : Q(h)
<1>5. Q(f)
  <2>1. Q(g)
    BY <1>4
  <2> HIDE DEF Q
  <2> QED BY <2>1, Zenon
<1>6. Files!ReadAll(s) = f[DOMAIN s]
  BY Zenon DEF Files!ReadAll, Files!FoldLeft, Files!MapThenFoldSet, ReadVia
<1> HIDE DEF f
<1>7. f = [t \in SUBSET DOMAIN s |->
             IF t = {} THEN start ELSE Files!After(f[t \ {Files!Max(t)}], s[Files!Max(t)])]
  BY <1>5 DEF ReadVia, start
<1>8. f[{}] = start
  <2>1. {} \in SUBSET DOMAIN s
    OBVIOUS
  <2> QED BY <1>7, <2>1
<1>9. ASSUME NEW t \in SUBSET DOMAIN s, t # {}, f[t \ {Pointers!Max(t)}] \in V
      PROVE  f[t] = o[f[t \ {Pointers!Max(t)}]][s[Pointers!Max(t)]]
  <2>1. f[t] = Files!After(f[t \ {Files!Max(t)}], s[Files!Max(t)])
    BY <1>7, <1>9
  <2>2. s[Pointers!Max(t)] \in C /\ Files!Max(t) = Pointers!Max(t)
    BY <1>2, <1>9
  <2> QED BY <1>1, <1>9, <2>1, <2>2
<1>10. Follows(f, s, V, start, o)
  BY <1>8, <1>9 DEF Follows
<1>11. f[DOMAIN s] \in V /\ Traced(f, s, start, o)
  BY <1>1, <1>10, LeftFoldSteps
<1> QED BY <1>6, <1>11 DEF V, start, o

LEMMA ReadSteps ==
  /\ Files!ReadAll(<<>>) = Files!Blank
  /\ \A s \in Seq(Files!Row) : Files!ReadAll(s) \in Result
  /\ \A s \in Seq(Files!Row) : \A row \in Files!Row :
       Files!ReadAll(Append(s, row)) = Files!After(Files!ReadAll(s), row)
<1> DEFINE C == Files!Row
           V == Result
           o == Stepping
           start == Files!Blank
<1>1. ASSUME NEW s \in Seq(C)
      PROVE  Files!ReadAll(s) \in V /\ \E f : Files!ReadAll(s) = f[DOMAIN s] /\ Traced(f, s, start, o)
  BY ReadTraced
<1>2. \A v \in V : \A c \in C : o[v][c] = Files!After(v, c)
  BY DEF Stepping
<1> HIDE DEF C, V, o, start
<1>3. Files!ReadAll(<<>>) = start
  <2>1. <<>> \in Seq(C)
    OBVIOUS
  <2>2. PICK f : Files!ReadAll(<<>>) = f[DOMAIN <<>>] /\ Traced(f, <<>>, start, o)
    BY <1>1, <2>1
  <2> QED BY <2>2, LeftFoldNone
<1>4. ASSUME NEW s \in Seq(C), NEW row \in C
      PROVE  Files!ReadAll(Append(s, row)) = Files!After(Files!ReadAll(s), row)
  <2>1. Append(s, row) \in Seq(C)
    OBVIOUS
  <2>2. PICK f : Files!ReadAll(s) = f[DOMAIN s] /\ Traced(f, s, start, o)
    BY <1>1
  <2>3. PICK g : Files!ReadAll(Append(s, row)) = g[DOMAIN Append(s, row)] /\ Traced(g, Append(s, row), start, o)
    BY <1>1, <2>1
  <2>4. g[DOMAIN Append(s, row)] = o[f[DOMAIN s]][row]
    BY <2>2, <2>3, LeftFoldAppend
  <2>5. Files!ReadAll(s) \in V
    BY <1>1
  <2> QED BY <1>2, <2>2, <2>3, <2>4, <2>5
<1> QED BY <1>1, <1>3, <1>4 DEF C, V, start

LEMMA TellsNone == Tells(<<>>, Files!Blank)
BY DEF Tells, Files!Blank, Known, GoodKeys, GrantedKeys, Told, Twice, Files!Report

\* One row more, after the services.
LEMMA TellsMore ==
  ASSUME NEW s \in Seq(Files!Row), NEW row \in Files!Row, NEW r \in Result, Tells(s, r),
         ServicesFirst(Append(s, row))
  PROVE  Tells(Append(s, row), Files!After(r, row))
<1> DEFINE t == Append(s, row)
           n == Len(s) + 1
           after == Files!After(r, row)
<1>1. /\ DOMAIN t = DOMAIN s \cup {n} /\ n \notin DOMAIN s /\ t[n] = row
      /\ \A i \in DOMAIN s : t[i] = s[i] /\ i < n /\ s[i] \in Files!Row
  OBVIOUS
<1>2. ServicesFirst(t)
  OBVIOUS
<1>3. /\ r.configured = Known(s) /\ r.seen = GoodKeys(s) /\ r.errors = Told(s)
      /\ r.granted \subseteq r.seen /\ (r.errors = {} => r.granted = GrantedKeys(s))
  BY DEF Tells
<1> HIDE DEF t, n
<1>4. Known(t) = IF row.file = "services" THEN Known(s) \cup {row.service} ELSE Known(s)
  BY <1>1 DEF Known
<1>5. GrantedKeys(t) = IF Grants(row) THEN GrantedKeys(s) \cup {Files!Key(row)} ELSE GrantedKeys(s)
  BY <1>1 DEF GrantedKeys
<1>6. \A i \in DOMAIN s : Faults(Known(t), s[i]) = Faults(Known(s), s[i])
                          /\ (Good(Known(t), s[i]) <=> Good(Known(s), s[i]))
  <2>1. CASE row.file = "services"
    <3>1. \A i \in DOMAIN s : s[i].file = "services"
      BY <1>1, <1>2, <2>1 DEF ServicesFirst
    <3> QED BY <3>1 DEF Faults, Good
  <2>2. CASE row.file # "services"
    BY <1>4, <2>2
  <2> QED BY <2>1, <2>2
<1>7. UNION {Faults(Known(t), t[i]) : i \in DOMAIN t}
        = (UNION {Faults(Known(s), s[i]) : i \in DOMAIN s}) \cup Faults(Known(t), row)
  <2> DEFINE F(i) == Faults(Known(s), s[i])
             G(i) == Faults(Known(t), t[i])
  <2>1. (\A i \in DOMAIN s : G(i) = F(i)) /\ G(n) = Faults(Known(t), row)
    BY <1>1, <1>6
  <2> HIDE DEF F, G
  <2>2. ASSUME NEW e
        PROVE  (\E i \in DOMAIN t : e \in G(i)) <=> (\E i \in DOMAIN s : e \in F(i)) \/ e \in G(n)
    BY <1>1, <2>1
  <2>3. \A e : e \in UNION {G(i) : i \in DOMAIN t} <=> e \in (UNION {F(i) : i \in DOMAIN s}) \cup G(n)
    BY <2>2
  <2>4. UNION {G(i) : i \in DOMAIN t} = (UNION {F(i) : i \in DOMAIN s}) \cup G(n)
    BY <2>3
  <2> QED BY <2>1, <2>4 DEF F, G
<1>8. GoodKeys(t) = IF Good(Known(t), row) THEN GoodKeys(s) \cup {Files!Key(row)} ELSE GoodKeys(s)
  BY <1>1, <1>6 DEF GoodKeys
<1>9. Twice(t) <=> Twice(s) \/ (Good(Known(t), row) /\ Files!Key(row) \in GoodKeys(s))
  BY <1>1, <1>6 DEF Twice, GoodKeys
<1>10. Faults(Known(t), row) = Faults(Known(s), row) /\ (Good(Known(t), row) <=> Good(Known(s), row))
  <2>1. CASE row.file = "services"
    BY <2>1 DEF Faults, Good
  <2>2. CASE row.file # "services"
    BY <1>4, <2>2
  <2> QED BY <2>1, <2>2
<1> DEFINE more == Good(Known(s), row) /\ Files!Key(row) \in GoodKeys(s)
<1>11. Told(t) = Told(s) \cup Faults(Known(s), row) \cup Files!Report(more, "duplicated_permission")
  <2>1. Files!Report(Twice(t), "duplicated_permission")
          = Files!Report(Twice(s), "duplicated_permission") \cup Files!Report(more, "duplicated_permission")
    BY <1>9, <1>10 DEF Files!Report
  <2> DEFINE A == UNION {Faults(Known(s), s[i]) : i \in DOMAIN s}
             B == Faults(Known(s), row)
             D == Files!Report(Twice(s), "duplicated_permission")
             E == Files!Report(more, "duplicated_permission")
  <2>2. Told(t) = (A \cup B) \cup (D \cup E)
    <3> HIDE DEF more
    <3> QED BY <1>7, <1>10, <2>1, Zenon DEF Told
  <2>3. Told(s) = A \cup D
    BY DEF Told
  <2> HIDE DEF A, B, D, E
  <2>4. Told(t) = Told(s) \cup B \cup E
    BY <2>2, <2>3
  <2> QED BY <2>4, Zenon DEF B, E
<1>12. /\ after.configured = Known(t) /\ after.errors = Told(t)
       /\ after.seen = IF Good(Known(s), row) THEN GoodKeys(s) \cup {Files!Key(row)} ELSE GoodKeys(s)
       /\ IF Good(Known(s), row) /\ ~ more /\ Grants(row) THEN after.granted = r.granted \cup {Files!Key(row)}
          ELSE after.granted = r.granted
  <2>1. CASE row.file = "services"
    <3>1. ~ Good(Known(s), row) /\ Files!Report(more, "duplicated_permission") = {}
      BY <2>1 DEF Good, Files!Report
    <3> QED BY <1>3, <1>4, <1>11, <2>1, <3>1, AfterAService
  <2>2. CASE row.file = "acl"
    <3>1. ~ Good(Known(s), row) /\ Files!Report(more, "duplicated_permission") = {}
      BY <2>2 DEF Good, Files!Report
    <3> QED BY <1>3, <1>4, <1>11, <2>2, <3>1, AfterAnAcl
  <2>3. CASE row.file = "permissions"
    BY <1>3, <1>4, <1>11, <2>3, AfterAPermission
  <2> QED BY <2>1, <2>2, <2>3, RowFields
<1> HIDE DEF after
<1>13. after.granted \subseteq after.seen
  BY <1>3, <1>12
<1>14. ASSUME after.errors = {} PROVE after.granted = GrantedKeys(t)
  <2>1. r.errors = {} /\ Faults(Known(s), row) = {} /\ ~ more
    BY <1>3, <1>11, <1>12, <1>14 DEF Files!Report
  <2>2. Grants(row) => Good(Known(s), row)
    BY <2>1 DEF Grants, Good, Faults
  <2> QED BY <1>3, <1>5, <1>12, <2>1, <2>2
<1> QED BY <1>8, <1>10, <1>12, <1>13, <1>14 DEF Tells, t, after

LEMMA ReadTells == \A s \in Seq(Files!Row) : ServicesFirst(s) => Tells(s, Files!ReadAll(s))
<1> DEFINE C == Files!Row
           T == {s \in Seq(C) : ServicesFirst(s) => Tells(s, Files!ReadAll(s))}
<1>1. <<>> \in T
  BY TellsNone, ReadSteps
<1>2. ASSUME NEW s \in Seq(C), NEW row \in C, s \in T PROVE Append(s, row) \in T
  <2>1. Append(s, row) \in Seq(C)
    OBVIOUS
  <2>2. ASSUME ServicesFirst(Append(s, row)) PROVE Tells(Append(s, row), Files!ReadAll(Append(s, row)))
    <3>1. ServicesFirst(s)
      <4>1. DOMAIN s \subseteq DOMAIN Append(s, row) /\ \A i \in DOMAIN s : Append(s, row)[i] = s[i]
        OBVIOUS
      <4> QED BY <2>2, <4>1 DEF ServicesFirst
    <3>2. Tells(s, Files!ReadAll(s))
      BY <1>2, <3>1
    <3> QED BY <2>2, <3>2, ReadSteps, TellsMore
  <2> QED BY <2>1, <2>2
<1>3. Seq(C) \subseteq T
  <2> HIDE DEF C, T
  <2> QED BY <1>1, <1>2, EverySeq
<1> QED BY <1>3

\* What there is to say of rows is the same in another order.
LEMMA Reordered ==
  ASSUME NEW s, NEW t, NEW q \in [DOMAIN s -> DOMAIN s], t = [i \in DOMAIN s |-> s[q[i]]],
         \A i, j \in DOMAIN s : q[i] = q[j] => i = j,
         \A j \in DOMAIN s : \E i \in DOMAIN s : q[i] = j
  PROVE  Told(t) = Told(s) /\ GrantedKeys(t) = GrantedKeys(s)
<1>1. DOMAIN t = DOMAIN s /\ \A i \in DOMAIN s : q[i] \in DOMAIN s /\ t[i] = s[q[i]]
  OBVIOUS
<1>2. \A j \in DOMAIN s : \E i \in DOMAIN s : t[i] = s[j] /\ q[i] = j
  BY <1>1
<1>3. Known(t) = Known(s)
  BY <1>1, <1>2 DEF Known
<1>4. UNION {Faults(Known(t), t[i]) : i \in DOMAIN t} = UNION {Faults(Known(s), s[i]) : i \in DOMAIN s}
  BY <1>1, <1>2, <1>3
<1>5. Twice(t) => Twice(s)
  BY <1>1, <1>3 DEF Twice
<1>6. Twice(s) => Twice(t)
  <2> SUFFICES ASSUME NEW k \in DOMAIN s, NEW l \in DOMAIN s, k # l, Files!Key(s[k]) = Files!Key(s[l]),
                      Good(Known(s), s[k]), Good(Known(s), s[l])
               PROVE  Twice(t)
    BY DEF Twice
  <2>1. PICK i \in DOMAIN s : t[i] = s[k] /\ q[i] = k
    BY <1>2
  <2>2. PICK j \in DOMAIN s : t[j] = s[l] /\ q[j] = l
    BY <1>2
  <2>3. i # j
    BY <2>1, <2>2
  <2> QED BY <1>1, <1>3, <2>1, <2>2, <2>3 DEF Twice
<1>7. GrantedKeys(t) = GrantedKeys(s)
  BY <1>1, <1>2 DEF GrantedKeys
<1>8. Files!Report(Twice(t), "duplicated_permission") = Files!Report(Twice(s), "duplicated_permission")
  BY <1>5, <1>6 DEF Files!Report
<1> QED BY <1>4, <1>7, <1>8, Zenon DEF Told

\* The services are read first, and until the comparison what was read is what
\* reading all rows comes to; the comparison only reports more.
FilesInv ==
  /\ phase \in 1 .. 5 /\ rows \in Seq(Files!Row) /\ reading \in Result
  /\ ServicesFirst(rows)
  /\ phase = 1 => \A i \in DOMAIN rows : rows[i].file = "services"
  /\ phase \in 1 .. 4 => reading = Files!ReadAll(rows)
  /\ LET all == Files!ReadAll(rows) IN
       /\ reading.configured = all.configured /\ reading.seen = all.seen
       /\ reading.granted = all.granted /\ all.errors \subseteq reading.errors

LEMMA Phases ==
  /\ DOMAIN Files!Phase = 1 .. 5
  /\ phase \in 1 .. 5 => /\ Files!In("services") <=> phase = 1
                         /\ Files!In("acl") <=> phase = 2
                         /\ Files!In("permissions") <=> phase = 3
                         /\ Files!In("expected") <=> phase = 4
BY DEF Files!Phase, Files!In

LEMMA FilesStart == Files!Init => FilesInv
BY ReadSteps, AfterType DEF Files!Init, FilesInv, ServicesFirst

LEMMA FilesRead ==
  ASSUME FilesInv, NEW row \in Files!Row, Files!Read(row)
  PROVE  FilesInv'
<1>1. /\ rows' = Append(rows, row) /\ reading' = Files!After(reading, row) /\ phase' = phase
      /\ Files!In(row.file)
  BY DEF Files!Read
<1>2. phase \in 1 .. 3 /\ (phase = 1 <=> row.file = "services")
  BY <1>1, RowFields, Phases DEF FilesInv
<1>3. /\ rows \in Seq(Files!Row) /\ reading \in Result /\ reading = Files!ReadAll(rows)
      /\ ServicesFirst(rows) /\ (phase = 1 => \A i \in DOMAIN rows : rows[i].file = "services")
  BY <1>2 DEF FilesInv
<1>4. /\ DOMAIN rows' = DOMAIN rows \cup {Len(rows) + 1} /\ rows'[Len(rows) + 1] = row
      /\ \A i \in DOMAIN rows : rows'[i] = rows[i] /\ i < Len(rows) + 1
      /\ rows' \in Seq(Files!Row) /\ DOMAIN rows = 1 .. Len(rows) /\ Len(rows) \in Nat
  BY <1>1, <1>3
<1>5. phase' = 1 => \A i \in DOMAIN rows' : rows'[i].file = "services"
  BY <1>1, <1>2, <1>3, <1>4
<1>6. ServicesFirst(rows')
  <2> SUFFICES ASSUME NEW i \in DOMAIN rows', NEW j \in DOMAIN rows', i < j, rows'[j].file = "services"
               PROVE  rows'[i].file = "services"
    BY DEF ServicesFirst
  <2>1. CASE j \in DOMAIN rows
    <3>1. i \in DOMAIN rows
      BY <1>4, <2>1
    <3> QED BY <1>3, <1>4, <2>1, <3>1 DEF ServicesFirst
  <2>2. CASE j = Len(rows) + 1
    BY <1>1, <1>2, <1>4, <1>5, <2>2
  <2> QED BY <1>4, <2>1, <2>2
<1>7. reading' = Files!ReadAll(rows') /\ reading' \in Result
  BY <1>1, <1>3, ReadSteps, AfterType
<1> QED BY <1>1, <1>2, <1>4, <1>5, <1>6, <1>7 DEF FilesInv

LEMMA FilesCompare ==
  ASSUME FilesInv, NEW agree \in BOOLEAN, NEW inputs \in SUBSET Files!ServiceId, NEW shared \in Files!ServiceId,
         Files!Compare(agree, inputs, shared)
  PROVE  FilesInv'
<1> DEFINE said == Files!Report(~ agree, "permissions_differ")
                    \cup Files!Report(~ inputs \subseteq Service, "invalid_input")
                    \cup Files!Report(~ inputs \cap Service \subseteq reading.configured, "unconfigured_input")
                    \cup Files!Report(shared \notin reading.configured, "unconfigured_shared")
<1>1. /\ phase = 4 /\ phase' = 5 /\ rows' = rows
      /\ reading' = [reading EXCEPT !.errors = reading.errors \cup said]
  <2>1. Files!In("expected") /\ phase' = phase + 1 /\ rows' = rows
    BY DEF Files!Compare
  <2>2. reading' = [reading EXCEPT !.errors = reading.errors
          \cup Files!Report(~ agree, "permissions_differ")
          \cup Files!Report(~ inputs \subseteq Service, "invalid_input")
          \cup Files!Report(~ inputs \cap Service \subseteq reading.configured, "unconfigured_input")
          \cup Files!Report(shared \notin reading.configured, "unconfigured_shared")]
    BY DEF Files!Compare
  <2>3. phase = 4 /\ phase' = 5
    BY <2>1, Phases DEF FilesInv
  <2>4. \A A, B, D, E, F : ((((A \cup B) \cup D) \cup E) \cup F) = A \cup (((B \cup D) \cup E) \cup F)
    OBVIOUS
  <2>5. reading' = [reading EXCEPT !.errors = reading.errors \cup said]
    BY <2>2, <2>4, Zenon
  <2> QED BY <2>1, <2>3, <2>5
<1>2. said \subseteq Error
  BY DEF Files!Report, Error
<1> HIDE DEF said
<1>3. /\ reading' \in Result /\ reading'.configured = reading.configured /\ reading'.seen = reading.seen
      /\ reading'.granted = reading.granted /\ reading.errors \subseteq reading'.errors
  BY <1>1, <1>2 DEF FilesInv, Result
<1> QED BY <1>1, <1>3 DEF FilesInv

LEMMA FilesStep == FilesInv /\ [Files!Next]_(Files!vars) => FilesInv'
<1> SUFFICES ASSUME FilesInv, [Files!Next]_(Files!vars) PROVE FilesInv'
  OBVIOUS
<1>1. CASE Files!NextFile
  BY <1>1 DEF Files!NextFile, FilesInv
<1>2. CASE UNCHANGED Files!vars
  BY <1>2 DEF Files!vars, FilesInv
<1> QED BY <1>1, <1>2, FilesRead, FilesCompare DEF Files!Next

LEMMA FilesTell ==
  ASSUME FilesInv
  PROVE  /\ Tells(rows, Files!ReadAll(rows)) /\ Known(rows) = {rows[i].service : i \in Files!At("services")}
         /\ reading.errors = {} => /\ Told(rows) = {}
                                   /\ reading.granted = GrantedKeys(rows)
BY ReadTells DEF FilesInv, Tells, Known, Files!At

LEMMA FilesTyped == FilesInv => Files!TypeOK
<1> SUFFICES ASSUME FilesInv PROVE Files!TypeOK
  OBVIOUS
<1>1. /\ reading.configured = Known(rows) /\ reading.seen = GoodKeys(rows) /\ reading.granted \subseteq reading.seen
  BY FilesTell DEF FilesInv, Tells
<1>2. reading.seen \subseteq (Service \cap reading.configured) \X Permission
  <2> SUFFICES ASSUME NEW i \in DOMAIN rows, Good(Known(rows), rows[i])
               PROVE  Files!Key(rows[i]) \in (Service \cap Known(rows)) \X Permission
    BY <1>1 DEF GoodKeys
  <2>1. rows[i] \in Files!PermissionRow
    BY RowFields DEF FilesInv, Good
  <2> QED BY <2>1, RowErrors DEF Good
<1>3. DOMAIN reading = DOMAIN Files!Blank
  BY DEF FilesInv, Result, Files!Blank
<1> QED BY <1>1, <1>2, <1>3, FilesTell, Phases DEF FilesInv, Files!TypeOK

\* Orders of the rows of each file are an order of all rows.
LEMMA FilesOrdered == FilesInv => Files!OrderIrrelevant
<1> SUFFICES ASSUME FilesInv, Files!In("expected"), NEW s \in Files!Orders("services"),
                    NEW a \in Files!Orders("acl"), NEW p \in Files!Orders("permissions")
             PROVE  LET place == [services |-> s, acl |-> a, permissions |-> p]
                        other == Files!ReadAll([i \in DOMAIN rows |-> rows[place[rows[i].file][i]]])
                    IN  /\ other.errors = reading.errors
                        /\ reading.errors = {} => other.granted = reading.granted
  BY DEF Files!OrderIrrelevant
<1> DEFINE place == [services |-> s, acl |-> a, permissions |-> p]
           q == [i \in DOMAIN rows |-> place[rows[i].file][i]]
           t == [i \in DOMAIN rows |-> rows[place[rows[i].file][i]]]
<1>1. ASSUME NEW i \in DOMAIN rows PROVE rows[i] \in Files!Row /\ rows[i].file \in {"services", "acl", "permissions"}
  BY RowFields DEF FilesInv
<1>2. ASSUME NEW file \in {"services", "acl", "permissions"}
      PROVE  /\ place[file] \in [Files!At(file) -> Files!At(file)]
             /\ \A i, j \in Files!At(file) : place[file][i] = place[file][j] => i = j
             /\ \A j \in Files!At(file) : \E i \in Files!At(file) : place[file][i] = j
  <2>1. place[file] \in Files!Orders(file)
    OBVIOUS
  <2> HIDE DEF place
  <2> QED BY <2>1 DEF Files!Orders, Files!Bijection, Files!Injection, Files!Surjection, Files!IsInjective
<1> HIDE DEF place
<1>3. ASSUME NEW i \in DOMAIN rows PROVE q[i] \in DOMAIN rows /\ rows[q[i]].file = rows[i].file /\ t[i] = rows[q[i]]
  <2>1. i \in Files!At(rows[i].file)
    BY DEF Files!At
  <2>2. q[i] \in Files!At(rows[i].file)
    BY <1>1, <1>2, <2>1
  <2> QED BY <2>2 DEF Files!At
<1>4. \A i, j \in DOMAIN rows : q[i] = q[j] => i = j
  <2> SUFFICES ASSUME NEW i \in DOMAIN rows, NEW j \in DOMAIN rows, q[i] = q[j] PROVE i = j
    OBVIOUS
  <2>1. rows[i].file = rows[j].file
    BY <1>3
  <2>2. i \in Files!At(rows[i].file) /\ j \in Files!At(rows[i].file)
    BY <2>1 DEF Files!At
  <2>3. place[rows[i].file][i] = place[rows[i].file][j]
    BY <2>1
  <2> QED BY <1>1, <1>2, <2>2, <2>3
<1>5. \A j \in DOMAIN rows : \E i \in DOMAIN rows : q[i] = j
  <2> SUFFICES ASSUME NEW j \in DOMAIN rows PROVE \E i \in DOMAIN rows : q[i] = j
    OBVIOUS
  <2>1. j \in Files!At(rows[j].file)
    BY DEF Files!At
  <2>2. PICK i \in Files!At(rows[j].file) : place[rows[j].file][i] = j
    BY <1>1, <1>2, <2>1
  <2>3. i \in DOMAIN rows /\ rows[i].file = rows[j].file
    BY DEF Files!At
  <2> QED BY <2>2, <2>3
<1>6. q \in [DOMAIN rows -> DOMAIN rows] /\ t = [i \in DOMAIN rows |-> rows[q[i]]]
  BY <1>3
<1>7. t \in Seq(Files!Row) /\ ServicesFirst(t)
  <2>1. rows \in Seq(Files!Row) /\ ServicesFirst(rows) /\ DOMAIN rows = 1 .. Len(rows) /\ Len(rows) \in Nat
    BY DEF FilesInv
  <2>2. t \in [1 .. Len(rows) -> Files!Row]
    BY <1>1, <1>3, <2>1
  <2>3. DOMAIN t = DOMAIN rows /\ \A i \in DOMAIN rows : t[i].file = rows[i].file
    BY <1>3
  <2> HIDE DEF t
  <2>4. t \in Seq(Files!Row)
    BY <2>1, <2>2
  <2> QED BY <2>1, <2>3, <2>4 DEF ServicesFirst
<1> HIDE DEF t, q
<1>8. Told(t) = Told(rows) /\ GrantedKeys(t) = GrantedKeys(rows)
  BY <1>4, <1>5, <1>6, Reordered
<1>9. reading = Files!ReadAll(rows)
  BY Phases DEF FilesInv
<1>10. Tells(t, Files!ReadAll(t)) /\ Tells(rows, reading)
  BY <1>7, <1>9, ReadTells DEF FilesInv
<1>11. Files!ReadAll(t).errors = reading.errors
       /\ (reading.errors = {} => Files!ReadAll(t).granted = reading.granted)
  BY <1>8, <1>10 DEF Tells
<1> QED BY <1>11 DEF t, place

LEMMA FilesGranted == FilesInv => Files!NoRowWins
<1> SUFFICES ASSUME FilesInv, reading.errors = {}
             PROVE  /\ reading.granted
                         = {Files!Key(rows[i]) : i \in {j \in Files!At("permissions") : rows[j].enabled = TRUE}}
                    /\ \A i, j \in Files!At("permissions") : Files!Key(rows[i]) = Files!Key(rows[j]) => i = j
  BY Zenon DEF Files!NoRowWins
<1>1. Told(rows) = {} /\ reading.granted = GrantedKeys(rows)
  BY FilesTell
<1>2. GrantedKeys(rows) = {Files!Key(rows[i]) : i \in {j \in Files!At("permissions") : rows[j].enabled = TRUE}}
  BY DEF GrantedKeys, Grants, Files!At
<1>3. ASSUME NEW i \in Files!At("permissions") PROVE i \in DOMAIN rows /\ Good(Known(rows), rows[i])
  <2>1. i \in DOMAIN rows /\ rows[i].file = "permissions"
    BY DEF Files!At
  <2>2. Faults(Known(rows), rows[i]) = {}
    BY <1>1, <2>1 DEF Told
  <2> QED BY <2>1, <2>2 DEF Faults, Good
<1>4. ~ Twice(rows)
  <2>1. Files!Report(Twice(rows), "duplicated_permission") = {}
    BY <1>1 DEF Told
  <2> QED BY <2>1 DEF Files!Report
<1>5. ASSUME NEW i \in Files!At("permissions"), NEW j \in Files!At("permissions"),
             Files!Key(rows[i]) = Files!Key(rows[j])
      PROVE  i = j
  BY <1>3, <1>4, <1>5 DEF Twice
<1> QED BY <1>1, <1>2, <1>5

-----------------------------------------------------------------------------
(***************************************************************************)
(* Together.                                                               *)
(***************************************************************************)
SuiteVars == <<subject, run, pointers, targeting, files, blocks, credentials, media, directory>>

\* A step of the whole is a step of each part, or that part rests.
LEMMA EachMoves ==
  ASSUME [Next]_SuiteVars
  PROVE  /\ [Run!Next]_(Run!vars) /\ [Pointers!Next]_(Pointers!vars)
         /\ [Targets!Next]_(Targets!vars) /\ [Files!Next]_(Files!vars)
         /\ [Blocks!Next]_(Blocks!vars)
         /\ [Credentials!Next]_(Credentials!vars) /\ [Media!Next]_(Media!vars)
         /\ [Directory!Next]_(Directory!vars)
<1>1. CASE UNCHANGED SuiteVars
  BY <1>1 DEF SuiteVars, run, pointers, targeting, files, blocks, credentials, media, directory, Run!vars,
              Pointers!vars, Targets!vars, Files!vars, Blocks!vars, Credentials!vars, Media!vars, Directory!vars
<1>2. CASE Next
  BY <1>2 DEF Next, run, pointers, targeting, files, blocks, credentials, media, directory, Run!vars,
              Pointers!vars, Targets!vars, Files!vars, Blocks!vars, Credentials!vars, Media!vars, Directory!vars
<1> QED BY <1>1, <1>2

\* Every value of a document has its pointer, and it leads there and nowhere
\* else: for any document, however deep, whatever characters its names have.
THEOREM PlacesAreFound == Spec => []EveryPlaceIsFound
<1>1. Init => PointersInv
  BY PointersStart DEF Init
<1>2. PointersInv /\ [Next]_SuiteVars => PointersInv'
  BY EachMoves, PointersStep
<1>3. PointersInv => EveryPlaceIsFound
  BY PointersFind DEF EveryPlaceIsFound
<1> QED BY <1>1, <1>2, <1>3, PTL DEF Spec, SuiteVars

\* A block is rendered as it was sent, whichever two of its frames are lost, and
\* only given up when it lost more: for any field, any size of a block, any
\* frames and wherever its sequences begin.
THEOREM BlocksAreRecovered == Spec => []BlocksRecovered
<1>1. Init => BlocksInv
  BY BlocksStart DEF Init
<1>2. BlocksInv /\ [Next]_SuiteVars => BlocksInv'
  BY EachMoves, BlocksStep
<1>3. BlocksInv => BlocksRecovered
  BY BlocksRendered
<1> QED BY <1>1, <1>2, <1>3, PTL DEF Spec, SuiteVars

\* A target is reported exactly when it is wrong by itself, whatever was cached
\* or failed before it, and silence means that every schema is usable and that
\* everything its targets select was validated, for any number of targets.
THEOREM TargetsAreJudged == Spec => []TargetsAreJudgedAlone
<1>1. Init => TargetsInv
  BY TargetsStart DEF Init
<1>2. TargetsInv /\ [Next]_SuiteVars => TargetsInv'
  BY EachMoves, TargetsStep
<1>3. TargetsInv => TargetsAreJudgedAlone
  BY TargetsReported, TargetsSilence DEF TargetsAreJudgedAlone
<1> QED BY <1>1, <1>2, <1>3, PTL DEF Spec, SuiteVars

\* What is reported of the Management files, and what they grant if it is nothing,
\* does not depend on the order of their rows, however many there are, and
\* neither of two rows about one permission wins.
THEOREM RowsInAnyOrder == Spec => []RowOrderIrrelevant
<1>1. Init => FilesInv
  BY FilesStart DEF Init
<1>2. FilesInv /\ [Next]_SuiteVars => FilesInv'
  BY EachMoves, FilesStep
<1>3. FilesInv => RowOrderIrrelevant
  BY FilesOrdered, FilesGranted DEF RowOrderIrrelevant
<1> QED BY <1>1, <1>2, <1>3, PTL DEF Spec, SuiteVars

\* A vector is given the key that a fresh deriver would give it, and no key
\* serves two channels or two purposes, for any vectors in any order.
THEOREM KeysAreDerived == Spec => []KeysAsDerived
<1>1. Init => CredentialsInv
  BY CredentialsStart DEF Init
<1>2. CredentialsInv /\ [Next]_SuiteVars => CredentialsInv'
  BY EachMoves, CredentialsStep
<1>3. CredentialsInv => KeysAsDerived
  BY KeysAreFresh, KeysApart DEF KeysAsDerived
<1> QED BY <1>1, <1>2, <1>3, PTL DEF Spec, SuiteVars

\* No key is used twice with one nonce, for any talkers and sessions whose bases
\* keep their distance and any senders, epochs and restarts of the directory.
THEOREM NoncesAreUsedOnce == Spec => []NonceOnce
<1>1. Init => MediaInv /\ DirectoryInv
  BY MediaStarts, DirectoryStarts DEF Init
<1>2. MediaInv /\ [Next]_SuiteVars => MediaInv'
  BY EachMoves, MediaStep
<1>3. DirectoryInv /\ [Next]_SuiteVars => DirectoryInv'
  BY EachMoves, DirectoryStep
<1>4. MediaInv /\ DirectoryInv => NonceOnce
  BY MediaNonces, NonceOfDirectory DEF NonceOnce
<1> QED BY <1>1, <1>2, <1>3, <1>4, PTL DEF Spec, SuiteVars

\* What a run reports is complete at every moment, in the sense of RunInv.
THEOREM ReportIsComplete == Spec => []RunInv
<1>1. Init => RunInv
  BY RunStart DEF Init
<1>2. RunInv /\ [Next]_SuiteVars => RunInv'
  BY EachMoves, RunStep
<1> QED BY <1>1, <1>2, PTL DEF Spec, SuiteVars

\* A run that ends with a report ran all that was asked for and names exactly
\* the validators that met a defect, for any number of items and defects.
THEOREM AllDefectsAreNamed == Spec => []DefectsAreNamed
<1>1. RunInv => DefectsAreNamed
  BY RunNames DEF DefectsAreNamed
<1> QED BY <1>1, ReportIsComplete, PTL

\* Status 0 is never reported over a defect, of whatever class and wherever it
\* was handled.
THEOREM SuccessIsTrue == Spec => []SuccessMeansAllMatched
<1>1. RunInv => SuccessMeansAllMatched
  BY RunSucceeds DEF SuccessMeansAllMatched
<1> QED BY <1>1, ReportIsComplete, PTL

\* The variables' types, and what caches, indexes and records contain.
THEOREM TypeCorrect == Spec => []TypeOK
<1> DEFINE Inv == /\ RunInv /\ PointersInv /\ TargetsInv /\ FilesInv /\ BlocksInv
                  /\ CredentialsInv /\ MediaInv /\ DirectoryInv
<1>1. Init => Inv
  BY RunStart, PointersStart, TargetsStart, FilesStart, BlocksStart, CredentialsStart, MediaStarts,
     DirectoryStarts DEF Init
<1>2. Inv /\ [Next]_SuiteVars => Inv'
  BY EachMoves, RunStep, PointersStep, TargetsStep, FilesStep, BlocksStep, CredentialsStep, MediaStep,
     DirectoryStep
<1>3. Inv => TypeOK
  BY PointersTyped, BlocksTyped, FilesTyped
     DEF TypeOK, RunInv, TargetsInv, CredentialsInv, MediaInv, DirectoryInv
<1> QED BY <1>1, <1>2, <1>3, PTL DEF Spec, SuiteVars
=============================================================================
