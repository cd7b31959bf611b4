--------------------------- MODULE ReceiversProofs --------------------------
(***************************************************************************)
(* What the receivers of a Relay's state show is one state of the Relay,   *)
(* whole, for any number and size of responses, revisions, chunks and      *)
(* counters, and for any number of faults.                                 *)
(*                                                                         *)
(* The argument, for each of the four by itself: what travels and what is  *)
(* collected always belongs to one state of the sender, no part of it is   *)
(* there twice, and as many distinct parts as there can be are all.        *)
(***************************************************************************)
EXTENDS Receivers, FiniteSetTheorems, TLAPS

\* As many distinct numbers below n as there can be are all of them.
LEMMA AllNumbers ==
  ASSUME NEW S, NEW n \in Nat, NEW f \in Injection(S, 0 .. n - 1)
  PROVE  /\ IsFiniteSet(S) /\ Cardinality(S) <= n
         /\ Cardinality(S) = n <=> f \in Surjection(S, 0 .. n - 1)
<1>1. IsFiniteSet(0 .. n - 1) /\ Cardinality(0 .. n - 1) = n
  BY FS_Interval
<1> QED
  BY <1>1, FS_Injection

\* The instances count as the library does.
LEMMA OneCardinality ==
  ASSUME NEW S
  PROVE  /\ Fragments!Cardinality(S) = Cardinality(S) /\ Paging!Cardinality(S) = Cardinality(S)
         /\ Chunks!Cardinality(S) = Cardinality(S)
  BY DEF Fragments!Cardinality, Paging!Cardinality, Chunks!Cardinality, Cardinality

\* Every set of natural numbers has a least element.
LEMMA LeastNat ==
  ASSUME NEW T, T \subseteq Nat, T # {}
  PROVE  \E n \in T : \A m \in T : n <= m
<1> DEFINE R == OpToRel(<, Nat)
<1>1. PICK n \in T : \A m \in T : ~ (<<m, n>> \in R)
  BY NatLessThanWellFounded, WFMin
<1>2. ASSUME NEW m \in T PROVE n <= m
  <2>1. m \in Nat /\ n \in Nat
    OBVIOUS
  <2>2. m < n => <<m, n>> \in R
    BY <2>1 DEF OpToRel
  <2>3. ~ (m < n)
    BY <1>1, <2>2, Zenon
  <2> QED BY <2>1, <2>3
<1> QED BY <1>2

\* Induction, with a set in the place of a predicate.
LEMMA EveryNat ==
  ASSUME NEW T, 0 \in T, \A n \in Nat : n \in T => n + 1 \in T
  PROVE  Nat \subseteq T
<1> SUFFICES ASSUME NEW k \in Nat, k \notin T PROVE FALSE
  OBVIOUS
<1>1. PICK n \in Nat \ T : \A m \in Nat \ T : n <= m
  BY LeastNat
<1>2. n # 0 /\ n - 1 \in Nat
  BY <1>1
<1>3. n - 1 \in T
  BY <1>1, <1>2
<1> QED
  BY <1>2, <1>3

-----------------------------------------------------------------------------
\* A flat sequence of sequences of a set is a sequence of that set.
LEMMA FlatType ==
  ASSUME NEW T, NEW s \in Seq(Seq(T))
  PROVE  Fragments!FlattenSeq(s) \in Seq(T)
<1> DEFINE Step(f, n) == f = [i \in 1 .. n |-> IF i = 1 THEN s[i] ELSE f[i - 1] \o s[i]]
           Reached == {n \in Nat : \E f : Step(f, n)}
           flatten == CHOOSE f : Step(f, Len(s))
           Typed == {n \in Nat : n \in 1 .. Len(s) => flatten[n] \in Seq(T)}
<1>1. Len(s) \in Nat /\ \A i \in 1 .. Len(s) : s[i] \in Seq(T)
  OBVIOUS
<1>2. 0 \in Reached
  <2>1. Step([i \in 1 .. 0 |-> <<>>], 0)
    OBVIOUS
  <2> HIDE DEF Step
  <2> QED BY <2>1
<1>3. ASSUME NEW n \in Nat, n \in Reached PROVE n + 1 \in Reached
  <2>1. PICK f : Step(f, n)
    BY <1>3
  <2> DEFINE next == IF n = 0 THEN s[n + 1] ELSE f[n] \o s[n + 1]
             g == [i \in 1 .. n + 1 |-> IF i = n + 1 THEN next ELSE f[i]]
  <2>2. \A i \in 1 .. n + 1 : g[i] = IF i = 1 THEN s[i] ELSE g[i - 1] \o s[i]
    <3> SUFFICES ASSUME NEW i \in 1 .. n + 1
                 PROVE  g[i] = IF i = 1 THEN s[i] ELSE g[i - 1] \o s[i]
      OBVIOUS
    <3>1. CASE i = n + 1
      <4>1. g[i] = next
        BY <3>1
      <4>2. CASE n = 0
        BY <3>1, <4>1, <4>2
      <4>3. CASE n # 0
        <5>1. i # 1 /\ i - 1 = n /\ n \in 1 .. n + 1 /\ n # n + 1
          BY <3>1, <4>3
        <5>2. g[n] = f[n]
          BY <5>1
        <5> QED BY <3>1, <4>1, <4>3, <5>1, <5>2
      <4> QED BY <4>2, <4>3
    <3>2. CASE i # n + 1
      <4>1. i \in 1 .. n /\ g[i] = f[i]
        BY <3>2
      <4>2. f[i] = IF i = 1 THEN s[i] ELSE f[i - 1] \o s[i]
        BY <2>1, <4>1
      <4>3. i # 1 => g[i - 1] = f[i - 1]
        BY <4>1
      <4> QED BY <4>1, <4>2, <4>3
    <3> QED BY <3>1, <3>2
  <2>3. Step(g, n + 1)
    <3>1. g = [i \in 1 .. n + 1 |-> g[i]]
      OBVIOUS
    <3> QED BY <2>2, <3>1
  <2> HIDE DEF Step, g
  <2> QED BY <2>3
<1>4. Step(flatten, Len(s))
  <2> HIDE DEF Step
  <2>1. Len(s) \in Reached
    <3> HIDE DEF Reached
    <3>1. Nat \subseteq Reached
      BY <1>2, <1>3, EveryNat
    <3> QED BY <1>1, <3>1
  <2>2. PICK f : Step(f, Len(s))
    BY <2>1
  <2> QED BY <2>2, Zenon
<1> HIDE DEF flatten
<1>5. \A i \in 1 .. Len(s) : flatten[i] = IF i = 1 THEN s[i] ELSE flatten[i - 1] \o s[i]
  BY <1>4
<1>6. \A n \in 1 .. Len(s) : flatten[n] \in Seq(T)
  <2>1. 0 \in Typed
    OBVIOUS
  <2>2. ASSUME NEW n \in Nat, n \in Typed PROVE n + 1 \in Typed
    <3> SUFFICES ASSUME n + 1 \in 1 .. Len(s) PROVE flatten[n + 1] \in Seq(T)
      OBVIOUS
    <3>1. CASE n = 0
      BY <1>1, <1>5, <3>1
    <3>2. CASE n # 0
      <4>1. n \in 1 .. Len(s) /\ (n + 1) - 1 = n /\ n + 1 # 1
        BY <1>1, <3>2
      <4>2. flatten[n] \in Seq(T) /\ s[n + 1] \in Seq(T)
        BY <1>1, <2>2, <4>1
      <4>3. flatten[n + 1] = flatten[n] \o s[n + 1]
        BY <1>5, <4>1
      <4> QED BY <4>2, <4>3
    <3> QED BY <3>1, <3>2
  <2>3. Nat \subseteq Typed
    <3> HIDE DEF Typed
    <3> QED BY <2>1, <2>2, EveryNat
  <2> QED BY <2>3
<1>7. CASE Len(s) = 0
  BY <1>7 DEF Fragments!FlattenSeq
<1>8. CASE Len(s) # 0
  <2>1. Fragments!FlattenSeq(s) = flatten[Len(s)]
    BY <1>8, Zenon DEF Fragments!FlattenSeq, flatten
  <2>2. Len(s) \in 1 .. Len(s)
    BY <1>1, <1>8
  <2> QED BY <1>6, <2>1, <2>2
<1> QED
  BY <1>7, <1>8

-----------------------------------------------------------------------------
\* The participants in fragments: everything that was accepted and is not over
\* has its copy in the set of its response, with the same content.
FragmentsInv ==
  /\ Fragments!TypeOK
  /\ sets \in [Fragments!Response -> SUBSET accepted]
  /\ \A t \in accepted \ spent : \E c \in sets[sent[t].response] :
       sent[c].index = sent[t].index /\ sent[c].content = sent[t].content

LEMMA FragmentsAssumption ==
  /\ Fragments!Response = 1 .. Len(Count) /\ Len(Count) \in Nat
  /\ \A r \in Fragments!Response : Count[r] \in Nat \ {0}
  BY ReceiversAssumption DEF Fragments!Response

LEMMA PlanType ==
  /\ Fragments!Plan \in Seq(Fragments!Fragment)
  /\ \A n \in Nat : n < Len(Fragments!Plan) => Fragments!Plan[n + 1] \in Fragments!Fragment
<1> DEFINE of(r) == [i \in 1 .. Count[r] |-> [response |-> r, index |-> i - 1, content |-> "own"]]
<1>1. ASSUME NEW r \in Fragments!Response PROVE of(r) \in Seq(Fragments!Fragment)
  <2>1. Count[r] \in Nat
    BY FragmentsAssumption
  <2>2. \A i \in 1 .. Count[r] : of(r)[i] \in Fragments!Fragment
    BY <2>1 DEF Fragments!Fragment
  <2>3. of(r) \in [1 .. Count[r] -> Fragments!Fragment]
    BY <2>2
  <2> HIDE DEF of
  <2> QED BY <2>1, <2>3
<1> HIDE DEF of
<1>2. [r \in Fragments!Response |-> of(r)] \in Seq(Seq(Fragments!Fragment))
  BY <1>1, FragmentsAssumption
<1>3. Fragments!Plan = Fragments!FlattenSeq([r \in Fragments!Response |-> of(r)])
  BY DEF Fragments!Plan, of
<1>4. Fragments!Plan \in Seq(Fragments!Fragment)
  BY <1>2, <1>3, FlatType
<1> QED BY <1>4

\* The number of planned fragments among those sent is a number.
LEMMA PlannedType ==
  ASSUME FragmentsInv
  PROVE  Fragments!Planned \in Nat
<1>1. IsFiniteSet(Fragments!ToSet(sent))
  <2>1. Len(sent) \in Nat /\ DOMAIN sent = 1 .. Len(sent)
    BY DEF FragmentsInv, Fragments!TypeOK
  <2>2. sent \in Surjection(1 .. Len(sent), Fragments!ToSet(sent))
    BY <2>1 DEF Surjection, Fragments!ToSet, FragmentsInv, Fragments!TypeOK
  <2> QED BY <2>1, <2>2, FS_NatSurjection DEF ExistsSurjection
<1> DEFINE S == Fragments!ToSet(sent) \cap Fragments!ToSet(Fragments!Plan)
<1>2. IsFiniteSet(S)
  <2>1. S \in SUBSET Fragments!ToSet(sent)
    OBVIOUS
  <2> QED BY <1>1, <2>1, FS_Subset
<1>3. Cardinality(S) \in Nat
  BY <1>2, FS_CardinalityType
<1> QED
  BY <1>3, OneCardinality DEF Fragments!Planned

LEMMA FragmentsInit == Fragments!Init => FragmentsInv
<1> SUFFICES ASSUME Fragments!Init PROVE FragmentsInv
  OBVIOUS
<1>1. /\ sent = <<>> /\ accepted = {} /\ spent = {} /\ response = {}
      /\ sets = [r \in Fragments!Response |-> {}]
  BY DEF Fragments!Init
<1>2. \A r \in Fragments!Response : ~ Fragments!Complete(r, sets[r])
  <2> SUFFICES ASSUME NEW r \in Fragments!Response PROVE ~ Fragments!Complete(r, {})
    BY <1>1
  <2>1. 0 \in 0 .. Count[r] - 1
    BY FragmentsAssumption
  <2> QED BY <2>1 DEF Fragments!Complete
<1>3. Fragments!TypeOK
  BY <1>1, <1>2 DEF Fragments!TypeOK
<1> QED
  BY <1>1, <1>3 DEF FragmentsInv

\* Emitting leaves what was emitted.
LEMMA EmitKeepsFragments ==
  ASSUME FragmentsInv, UNCHANGED <<accepted, sets, spent, response>>,
         NEW f \in Fragments!Fragment, sent' = Append(sent, f)
  PROVE  FragmentsInv' /\ \A s \in DOMAIN sent : s \in DOMAIN sent' /\ sent'[s] = sent[s]
<1>1. /\ sent' \in Seq(Fragments!Fragment)
      /\ \A s \in DOMAIN sent : s \in DOMAIN sent' /\ sent'[s] = sent[s]
  BY DEF FragmentsInv, Fragments!TypeOK
<1>2. \A s \in accepted : s \in DOMAIN sent /\ sent'[s] = sent[s]
  BY <1>1 DEF FragmentsInv, Fragments!TypeOK
<1>3. \A r \in Fragments!Response : \A s \in sets[r] : s \in accepted
  BY DEF FragmentsInv
<1>4. \A r \in Fragments!Response : ~ Fragments!Complete(r, sets[r])'
  <2> SUFFICES ASSUME NEW r \in Fragments!Response PROVE ~ Fragments!Complete(r, sets[r])'
    OBVIOUS
  <2>1. {sent'[s].index : s \in sets[r]} = {sent[s].index : s \in sets[r]}
    BY <1>2, <1>3
  <2>2. ~ Fragments!Complete(r, sets[r])
    BY DEF FragmentsInv, Fragments!TypeOK
  <2> QED BY <2>1, <2>2 DEF Fragments!Complete
<1>5. Fragments!TypeOK'
  <2>1. accepted \subseteq DOMAIN sent'
    BY <1>1, <1>2
  <2>2. \A r \in Fragments!Response : \A s \in sets[r] : sent'[s].response = r
    BY <1>2, <1>3 DEF FragmentsInv, Fragments!TypeOK
  <2>3. \A r \in Fragments!Response, s, t \in accepted :
          {s, t} \subseteq sets[r] /\ sent'[s].index = sent'[t].index => s = t
    BY <1>2 DEF FragmentsInv, Fragments!TypeOK
  <2> QED BY <1>1, <1>4, <2>1, <2>2, <2>3 DEF FragmentsInv, Fragments!TypeOK
<1>6. \A t \in accepted \ spent : \E c \in sets[sent'[t].response] :
        sent'[c].index = sent'[t].index /\ sent'[c].content = sent'[t].content
  <2> SUFFICES ASSUME NEW t \in accepted \ spent
               PROVE  \E c \in sets[sent'[t].response] :
                        sent'[c].index = sent'[t].index /\ sent'[c].content = sent'[t].content
    OBVIOUS
  <2>1. PICK c \in sets[sent[t].response] :
          sent[c].index = sent[t].index /\ sent[c].content = sent[t].content
    BY DEF FragmentsInv
  <2>2. sent[t].response \in Fragments!Response
    <3>1. sent[t] \in Fragments!Fragment
      BY <1>2 DEF FragmentsInv, Fragments!TypeOK
    <3> QED BY <3>1 DEF Fragments!Fragment
  <2>3. sent'[t] = sent[t] /\ sent'[c] = sent[c]
    BY <1>2, <1>3, <2>1, <2>2
  <2> QED BY <2>1, <2>3
<1> QED
  BY <1>1, <1>5, <1>6 DEF FragmentsInv

LEMMA RelayKeepsFragments ==
  ASSUME FragmentsInv,
         \/ Fragments!Emit
         \/ \E s \in DOMAIN sent, content \in {"own", "other"} : Fragments!EmitAgain(s, content)
  PROVE  /\ FragmentsInv' /\ response' = response
         /\ \A s \in DOMAIN sent : s \in DOMAIN sent' /\ sent'[s] = sent[s]
<1>1. CASE Fragments!Emit
  <2>1. Fragments!Plan[Fragments!Planned + 1] \in Fragments!Fragment
    BY <1>1, PlannedType, PlanType DEF Fragments!Emit
  <2> QED BY <1>1, <2>1, EmitKeepsFragments DEF Fragments!Emit
<1>2. CASE \E s \in DOMAIN sent, content \in {"own", "other"} : Fragments!EmitAgain(s, content)
  <2>1. PICK s \in DOMAIN sent, content \in {"own", "other"} : Fragments!EmitAgain(s, content)
    BY <1>2
  <2>2. sent[s] \in Fragments!Fragment
    BY DEF FragmentsInv, Fragments!TypeOK
  <2>3. [sent[s] EXCEPT !.content = content] \in Fragments!Fragment
    BY <2>2 DEF Fragments!Fragment
  <2> QED BY <2>1, <2>3, EmitKeepsFragments DEF Fragments!EmitAgain
<1> QED BY <1>1, <1>2

\* Sequences that were accepted are emitted fragments of a response.
LEMMA AcceptedType ==
  ASSUME FragmentsInv, NEW t \in DOMAIN sent
  PROVE  sent[t] \in Fragments!Fragment /\ sent[t].response \in Fragments!Response /\ sent[t].index \in Nat
<1>1. sent[t] \in Fragments!Fragment
  BY DEF FragmentsInv, Fragments!TypeOK
<1> QED BY <1>1 DEF Fragments!Fragment

\* The end of a set spends what was accepted for it and leaves the other sets.
LEMMA EndKeepsFragments ==
  ASSUME FragmentsInv, sent' = sent, NEW r \in Fragments!Response, Fragments!End(r),
         accepted \subseteq accepted', accepted' \subseteq DOMAIN sent,
         \A t \in accepted' \ accepted : sent[t].response = r,
         response' = response \/ \A t \in response' : t \in accepted' /\ sent[t].response = r
  PROVE  FragmentsInv'
<1>1. /\ sets \in [Fragments!Response -> SUBSET accepted]
      /\ sets' = [sets EXCEPT ![r] = {}]
      /\ spent' = spent \cup {t \in accepted' : sent[t].response = r}
  BY DEF Fragments!End, FragmentsInv
<1>2. /\ sets'[r] = {}
      /\ \A q \in Fragments!Response : q # r => sets'[q] = sets[q]
      /\ sets' \in [Fragments!Response -> SUBSET accepted']
  BY <1>1
<1>3. \A q \in Fragments!Response : \A t \in sets[q] : t \in accepted \ spent /\ sent[t].response = q
  BY DEF FragmentsInv, Fragments!TypeOK
<1>4. spent' \subseteq accepted' /\ response' \subseteq spent'
  BY <1>1 DEF FragmentsInv, Fragments!TypeOK
<1>5. \A q \in Fragments!Response :
        /\ sets'[q] \subseteq accepted' \ spent'
        /\ \A t \in sets'[q] : sent[t].response = q
        /\ ~ Fragments!Complete(q, sets[q])'
  <2> SUFFICES ASSUME NEW q \in Fragments!Response
               PROVE  /\ sets'[q] \subseteq accepted' \ spent'
                      /\ \A t \in sets'[q] : sent[t].response = q
                      /\ ~ Fragments!Complete(q, sets[q])'
    OBVIOUS
  <2>1. CASE q = r
    <3>1. 0 \in 0 .. Count[r] - 1
      BY FragmentsAssumption
    <3> QED BY <1>2, <2>1, <3>1 DEF Fragments!Complete
  <2>2. CASE q # r
    <3>1. ~ Fragments!Complete(q, sets[q])
      BY DEF FragmentsInv, Fragments!TypeOK
    <3>2. ~ Fragments!Complete(q, sets[q])'
      BY <1>2, <2>2, <3>1 DEF Fragments!Complete
    <3> QED BY <1>1, <1>2, <1>3, <2>2, <3>2
  <2> QED BY <2>1, <2>2
<1>6. \A q \in Fragments!Response, t, u \in accepted' :
        {t, u} \subseteq sets'[q] /\ sent[t].index = sent[u].index => t = u
  <2> SUFFICES ASSUME NEW q \in Fragments!Response, NEW t \in sets'[q], NEW u \in sets'[q],
                      sent[t].index = sent[u].index
               PROVE  t = u
    BY Zenon
  <2>1. q # r /\ t \in sets[q] /\ u \in sets[q] /\ t \in accepted /\ u \in accepted
    BY <1>2, <1>3
  <2> QED BY <2>1 DEF FragmentsInv, Fragments!TypeOK
<1>7. Fragments!TypeOK'
  BY <1>4, <1>5, <1>6 DEF FragmentsInv, Fragments!TypeOK
<1>8. \A t \in accepted' \ spent' : \E c \in sets'[sent[t].response] :
        sent[c].index = sent[t].index /\ sent[c].content = sent[t].content
  <2> SUFFICES ASSUME NEW t \in accepted' \ spent'
               PROVE  \E c \in sets'[sent[t].response] :
                        sent[c].index = sent[t].index /\ sent[c].content = sent[t].content
    OBVIOUS
  <2>1. t \in accepted \ spent /\ sent[t].response # r /\ sent[t].response \in Fragments!Response
    BY <1>1, AcceptedType
  <2> QED BY <1>2, <2>1 DEF FragmentsInv
<1> QED
  BY <1>2, <1>7, <1>8 DEF FragmentsInv

\* What a set that is applied consists of.
WholeSet(r, S) ==
  /\ \A t \in S : t \in DOMAIN sent /\ sent[t].response = r
  /\ Fragments!Complete(r, S)
  /\ \A t, u \in S : sent[t].index = sent[u].index => t = u

\* Whatever arrives: a copy is ignored when it agrees and ends the set when it
\* does not; a new fragment is retained, or completes the set.
LEMMA ReceiveKeepsFragments ==
  ASSUME FragmentsInv, NEW s \in DOMAIN sent, Fragments!Receive(s)
  PROVE  /\ FragmentsInv' /\ sent' = sent
         /\ response' # response =>
              /\ \E r \in Fragments!Response : WholeSet(r, response')
              /\ response' \cap spent = {}
              /\ \A a \in response', t \in accepted' \ spent :
                   sent[a].response = sent[t].response /\ sent[a].index = sent[t].index
                     => sent[a].content = sent[t].content
<1> DEFINE r == sent[s].response
<1>1. s \notin accepted /\ accepted' = accepted \cup {s} /\ sent' = sent
  BY DEF Fragments!Receive, Fragments!ReplayVerdict
<1>2. r \in Fragments!Response /\ sent[s] \in Fragments!Fragment
  BY AcceptedType
<1>3. /\ sets \in [Fragments!Response -> SUBSET accepted]
      /\ \A q \in Fragments!Response : \A t \in sets[q] :
           t \in accepted \ spent /\ t \in DOMAIN sent /\ t # s /\ sent[t].response = q
  BY <1>1 DEF FragmentsInv, Fragments!TypeOK
<1>4. \A t, u \in sets[r] : sent[t].index = sent[u].index => t = u
  BY <1>2, <1>3 DEF FragmentsInv, Fragments!TypeOK
<1>5. accepted' \subseteq DOMAIN sent
  BY <1>1 DEF FragmentsInv, Fragments!TypeOK
<1>6. s \notin spent
  BY <1>1 DEF FragmentsInv, Fragments!TypeOK
<1>7. Fragments!Copies(s) = {t \in sets[r] : sent[t].index = sent[s].index}
  BY DEF Fragments!Copies, Fragments!ReassemblySet
<1>8. CASE Fragments!Ignore(s)
  <2>1. UNCHANGED <<sets, spent, response>>
    BY <1>8 DEF Fragments!Ignore
  <2>2. PICK c \in sets[r] : sent[c].index = sent[s].index /\ sent[c].content = sent[s].content
    BY <1>7, <1>8 DEF Fragments!Ignore, Fragments!Conflicting
  <2>3. Fragments!TypeOK'
    <3>1. \A q \in Fragments!Response : ~ Fragments!Complete(q, sets[q])'
      BY <1>1, <2>1 DEF FragmentsInv, Fragments!TypeOK, Fragments!Complete
    <3>2. \A q \in Fragments!Response, t, u \in accepted' :
            {t, u} \subseteq sets[q] /\ sent[t].index = sent[u].index => t = u
      BY <1>1, <1>3 DEF FragmentsInv, Fragments!TypeOK
    <3> QED BY <1>1, <1>5, <2>1, <3>1, <3>2 DEF FragmentsInv, Fragments!TypeOK
  <2> QED BY <1>1, <2>1, <2>2, <2>3 DEF FragmentsInv
<1>9. CASE Fragments!Conflict(s)
  <2>1. Fragments!End(r) /\ response' = response
    BY <1>9 DEF Fragments!Conflict
  <2> QED BY <1>1, <1>2, <1>5, <2>1, EndKeepsFragments
<1>10. CASE Fragments!Retain(s)
  <2> DEFINE set == sets[r] \cup {s}
  <2>1. \A t, u \in set : sent[t].index = sent[u].index => t = u
    <3>1. Fragments!Copies(s) = {}
      BY <1>10 DEF Fragments!Retain
    <3> QED BY <1>4, <1>7, <3>1
  <2>2. CASE Fragments!Complete(r, set)
    <3>1. response' = set /\ Fragments!End(r)
      BY <1>10, <2>2 DEF Fragments!Retain, Fragments!ReassemblySet
    <3>2. \A t \in response' : t \in accepted' /\ t \in DOMAIN sent /\ sent[t].response = r
      BY <1>1, <1>2, <1>3, <3>1
    <3>3. FragmentsInv'
      BY <1>1, <1>2, <1>5, <3>1, <3>2, EndKeepsFragments
    <3>4. WholeSet(r, response')
      BY <2>1, <2>2, <3>1, <3>2 DEF WholeSet
    <3>5. response' \cap spent = {}
      BY <1>2, <1>3, <1>6, <3>1
    <3>6. ASSUME NEW a \in response', NEW t \in accepted' \ spent,
                 sent[a].response = sent[t].response, sent[a].index = sent[t].index
          PROVE  sent[a].content = sent[t].content
      <4>1. sent[t].response = r
        BY <3>2, <3>6
      <4>2. CASE t = s
        BY <2>1, <3>1, <3>6, <4>2
      <4>3. CASE t # s
        <5>1. PICK c \in sets[r] : sent[c].index = sent[t].index /\ sent[c].content = sent[t].content
          BY <1>1, <4>1, <4>3 DEF FragmentsInv
        <5> QED BY <2>1, <3>1, <3>6, <5>1
      <4> QED BY <4>2, <4>3
    <3> QED BY <1>1, <1>2, <3>3, <3>4, <3>5, <3>6
  <2>3. CASE ~ Fragments!Complete(r, set)
    <3>1. sets' = [sets EXCEPT ![r] = @ \cup {s}] /\ UNCHANGED <<spent, response>>
      BY <1>10, <2>3 DEF Fragments!Retain, Fragments!ReassemblySet
    <3>2. /\ sets'[r] = set /\ \A q \in Fragments!Response : q # r => sets'[q] = sets[q]
          /\ sets' \in [Fragments!Response -> SUBSET accepted']
      BY <1>1, <1>2, <1>3, <3>1
    <3>3. \A q \in Fragments!Response :
            /\ sets'[q] \subseteq accepted' \ spent
            /\ \A t \in sets'[q] : sent[t].response = q
            /\ ~ Fragments!Complete(q, sets[q])'
            /\ \A t, u \in sets'[q] : sent[t].index = sent[u].index => t = u
      <4> SUFFICES ASSUME NEW q \in Fragments!Response
                   PROVE  /\ sets'[q] \subseteq accepted' \ spent
                          /\ \A t \in sets'[q] : sent[t].response = q
                          /\ ~ Fragments!Complete(q, sets[q])'
                          /\ \A t, u \in sets'[q] : sent[t].index = sent[u].index => t = u
        OBVIOUS
      <4>1. CASE q = r
        BY <1>1, <1>2, <1>3, <1>6, <2>1, <2>3, <3>2, <4>1 DEF Fragments!Complete
      <4>2. CASE q # r
        <5>1. ~ Fragments!Complete(q, sets[q])'
          BY <1>1, <3>2, <4>2 DEF FragmentsInv, Fragments!TypeOK, Fragments!Complete
        <5>2. \A t, u \in sets[q] : sent[t].index = sent[u].index => t = u
          BY <1>3 DEF FragmentsInv, Fragments!TypeOK
        <5> QED BY <1>1, <1>3, <3>2, <4>2, <5>1, <5>2
      <4> QED BY <4>1, <4>2
    <3>4. Fragments!TypeOK'
      BY <1>1, <1>5, <3>1, <3>3 DEF FragmentsInv, Fragments!TypeOK
    <3>5. \A t \in accepted' \ spent : \E c \in sets'[sent[t].response] :
            sent[c].index = sent[t].index /\ sent[c].content = sent[t].content
      <4> SUFFICES ASSUME NEW t \in accepted' \ spent
                   PROVE  \E c \in sets'[sent[t].response] :
                            sent[c].index = sent[t].index /\ sent[c].content = sent[t].content
        OBVIOUS
      <4>1. CASE t = s
        BY <3>2, <4>1
      <4>2. CASE t # s
        <5>1. t \in accepted \ spent /\ t \in DOMAIN sent
          BY <1>1, <1>5, <4>2
        <5>2. PICK c \in sets[sent[t].response] :
                sent[c].index = sent[t].index /\ sent[c].content = sent[t].content
          BY <5>1 DEF FragmentsInv
        <5>3. sent[t].response \in Fragments!Response
          BY <5>1, AcceptedType
        <5>4. c \in sets'[sent[t].response]
          BY <3>2, <5>2, <5>3
        <5> QED BY <5>2, <5>4
      <4> QED BY <4>1, <4>2
    <3> QED BY <1>1, <3>1, <3>2, <3>4, <3>5 DEF FragmentsInv
  <2> QED BY <2>2, <2>3
<1> QED
  BY <1>8, <1>9, <1>10 DEF Fragments!Receive

LEMMA DiscardKeepsFragments ==
  ASSUME FragmentsInv, NEW r \in Fragments!Response, Fragments!Discard(r)
  PROVE  FragmentsInv' /\ UNCHANGED <<sent, response>>
<1>1. UNCHANGED <<sent, accepted, response>> /\ Fragments!End(r)
  BY DEF Fragments!Discard
<1>2. accepted' \subseteq DOMAIN sent
  BY <1>1 DEF FragmentsInv, Fragments!TypeOK
<1> QED
  BY <1>1, <1>2, EndKeepsFragments

-----------------------------------------------------------------------------
\* The state is shown anew only when a set is whole, unspent and of one version.
LEMMA FragmentsStep ==
  ASSUME FragmentsInv, [Fragments!Next]_fragments
  PROVE  /\ FragmentsInv'
         /\ \A s \in DOMAIN sent : s \in DOMAIN sent' /\ sent'[s] = sent[s]
         /\ response' # response =>
              /\ sent' = sent
              /\ \E r \in Fragments!Response : WholeSet(r, response')
              /\ response' \cap spent = {}
              /\ \A a \in response', t \in accepted' \ spent :
                   sent[a].response = sent[t].response /\ sent[a].index = sent[t].index
                     => sent[a].content = sent[t].content
<1>1. CASE UNCHANGED fragments
  <2>1. UNCHANGED <<sent, accepted, sets, spent, response>>
    BY <1>1 DEF fragments
  <2> QED BY <2>1 DEF FragmentsInv, Fragments!TypeOK, Fragments!Complete
<1>2. CASE Fragments!Emit \/ \E s \in DOMAIN sent, content \in {"own", "other"} : Fragments!EmitAgain(s, content)
  BY <1>2, RelayKeepsFragments
<1>3. CASE \E s \in DOMAIN sent : Fragments!Receive(s)
  BY <1>3, ReceiveKeepsFragments
<1>4. CASE \E r \in Fragments!Response : Fragments!Discard(r)
  BY <1>4, DiscardKeepsFragments
<1> QED
  BY <1>1, <1>2, <1>3, <1>4 DEF Fragments!Next

\* A whole set has as many fragments as its response.
LEMMA WholeIsPublished ==
  ASSUME FragmentsInv, NEW r \in Fragments!Response, NEW S, WholeSet(r, S)
  PROVE  /\ S # {} /\ S \in SUBSET DOMAIN sent
         /\ Fragments!Cardinality(S) = Count[r] /\ Fragments!Complete(r, S)
         /\ \A s \in S : sent[s].response = r
<1> DEFINE f == [t \in S |-> sent[t].index]
<1>1. Count[r] \in Nat \ {0}
  BY FragmentsAssumption
<1>2. {sent[t].index : t \in S} = 0 .. Count[r] - 1
  BY DEF WholeSet, Fragments!Complete
<1>3. f \in Injection(S, 0 .. Count[r] - 1) /\ f \in Surjection(S, 0 .. Count[r] - 1)
  <2>1. f \in [S -> 0 .. Count[r] - 1]
    BY <1>2
  <2>2. \A t, u \in S : f[t] = f[u] => t = u
    BY DEF WholeSet
  <2>3. \A i \in 0 .. Count[r] - 1 : \E t \in S : f[t] = i
    BY <1>2
  <2> QED BY <2>1, <2>2, <2>3 DEF Injection, IsInjective, Surjection
<1>4. Cardinality(S) = Count[r]
  BY <1>1, <1>3, AllNumbers
<1>5. S # {}
  <2>1. 0 \in 0 .. Count[r] - 1
    BY <1>1
  <2> QED BY <1>2, <2>1
<1> QED
  BY <1>4, <1>5, OneCardinality DEF WholeSet

LEMMA FragmentsPromised ==
  ASSUME FragmentsInv, [Fragments!Next]_fragments
  PROVE  [Fragments!Promise!Next]_<<
           {S \in SUBSET DOMAIN sent : \E r \in Fragments!Response :
              /\ Fragments!Cardinality(S) = Count[r] /\ Fragments!Complete(r, S)
              /\ \A s \in S : sent[s].response = r},
           IF response = {} THEN {} ELSE {response}>>
<1> DEFINE Published(S) == \E r \in Fragments!Response :
             /\ Fragments!Cardinality(S) = Count[r] /\ Fragments!Complete(r, S)
             /\ \A s \in S : sent[s].response = r
           published == {S \in SUBSET DOMAIN sent : Published(S)}
           applied == IF response = {} THEN {} ELSE {response}
<1>1. CASE response' = response
  <2>1. ASSUME NEW S \in SUBSET DOMAIN sent, Published(S)
        PROVE  S \in SUBSET DOMAIN sent' /\ Published(S)'
    <3>1. \A s \in S : s \in DOMAIN sent' /\ sent'[s] = sent[s]
      BY FragmentsStep
    <3>2. PICK r \in Fragments!Response :
            /\ Fragments!Cardinality(S) = Count[r] /\ Fragments!Complete(r, S)
            /\ \A s \in S : sent[s].response = r
      BY <2>1
    <3>3. {sent'[s].index : s \in S} = {sent[s].index : s \in S}
      BY <3>1
    <3>4. Fragments!Complete(r, S)'
      BY <3>2, <3>3 DEF Fragments!Complete
    <3> QED BY <3>1, <3>2, <3>4
  <2>2. published \subseteq published'
    BY <2>1
  <2>3. applied' = applied
    BY <1>1
  <2> HIDE DEF published, applied
  <2>4. Fragments!Promise!Publish
    BY <2>2, <2>3 DEF Fragments!Promise!Publish, published, applied
  <2> QED BY <2>4 DEF Fragments!Promise!Next
<1>2. CASE response' # response
  <2>1. PICK r \in Fragments!Response : WholeSet(r, response')
    BY <1>2, FragmentsStep
  <2>2. sent' = sent
    BY <1>2, FragmentsStep
  <2>3. response' # {} /\ response' \in published
    BY <2>1, WholeIsPublished
  <2>4. published' = published
    BY <2>2 DEF Fragments!Complete
  <2>5. applied' = {response'}
    BY <2>3
  <2>6. Fragments!Promise!Apply
    BY <2>3, <2>4, <2>5 DEF Fragments!Promise!Apply
  <2> QED BY <2>6 DEF Fragments!Promise!Next
<1> QED BY <1>1, <1>2

\* Participants: whole responses of one version are shown, each fragment at most
\* once, whatever is lost, repeated, reordered or emitted again at fault.
THEOREM FragmentsStayWhole ==
  Spec => []FragmentsInv /\ Fragments!PromiseSpec /\ Fragments!UsedOnce /\ Fragments!OneVersionShown
<1>1. Init => FragmentsInv
  BY FragmentsInit DEF Init
<1>2. [Next]_vars => [Fragments!Next]_fragments
  BY DEF Next, vars, OfChunks, OfFragments, OfPages, OfPolls
<1>3. FragmentsInv /\ [Next]_vars => FragmentsInv'
  BY <1>2, FragmentsStep
<1>4. Init => Fragments!Promise!Init
  BY DEF Init, Fragments!Init, Fragments!Promise!Init
<1>5. FragmentsInv /\ [Next]_vars
        => [Fragments!Promise!Next]_<<
             {S \in SUBSET DOMAIN sent : \E r \in Fragments!Response :
                /\ Fragments!Cardinality(S) = Count[r] /\ Fragments!Complete(r, S)
                /\ \A s \in S : sent[s].response = r},
             IF response = {} THEN {} ELSE {response}>>
  BY <1>2, FragmentsPromised
<1>6. FragmentsInv /\ [Next]_vars
        => [response' # response => response' \cap spent = {}]_(Fragments!vars)
  BY <1>2, FragmentsStep
<1>7. FragmentsInv /\ [Next]_vars
        => [response' # response =>
              \A s \in response', t \in accepted' \ spent :
                sent[s].response = sent[t].response /\ sent[s].index = sent[t].index
                  => sent[s].content = sent[t].content]_(Fragments!vars)
  BY <1>2, FragmentsStep
<1> QED
  BY <1>1, <1>3, <1>4, <1>5, <1>6, <1>7, PTL
     DEF Spec, Fragments!PromiseSpec, Fragments!Promise!Spec, Fragments!UsedOnce, Fragments!OneVersionShown

-----------------------------------------------------------------------------
\* The static snapshot in pages: the beginning of a revision, and a page that
\* may follow n pages of the client, of a revision not older than it shows.
Beginning(r, n) == [i \in 1 .. n |-> Paging!PageOf(r, i - 1)]
NotOlder(r) == \A p \in snapshot : p.revision <= r
Follows(page, n) == \E r \in 1 .. current : n < Pages[r] /\ NotOlder(r) /\ page = Paging!PageOf(r, n)

PagesInv ==
  /\ Paging!TypeOK
  /\ snapshot = {} \/ \E r \in 1 .. current : snapshot = Paging!Whole(r)
  /\ staged = <<>> \/ \E r \in 1 .. current, n \in Nat \ {0} :
                        n < Pages[r] /\ NotOlder(r) /\ staged = Beginning(r, n)
  /\ wire = "page" => Follows(answer, Len(staged))

LEMMA PagesAssumption ==
  /\ Paging!Revision = 1 .. Len(Pages) /\ Len(Pages) \in Nat \ {0}
  /\ \A r \in Paging!Revision : Pages[r] \in Nat \ {0}
  /\ MaxLapses \in Nat
  BY ReceiversAssumption DEF Paging!Revision

LEMMA BeginningLength ==
  ASSUME NEW r, NEW n \in Nat
  PROVE  /\ Len(Beginning(r, n)) = n /\ DOMAIN Beginning(r, n) = 1 .. n
         /\ \A i \in 1 .. n : Beginning(r, n)[i] = Paging!PageOf(r, i - 1)
         /\ Beginning(r, n) \in Seq({Paging!PageOf(r, i) : i \in Nat})
  BY DEF Beginning

\* A whole revision is of one revision, and has a page.
LEMMA WholeRevision ==
  ASSUME NEW r \in Paging!Revision
  PROVE  /\ \A p \in Paging!Whole(r) : p.revision = r
         /\ Paging!Whole(r) # {}
<1>1. \A p \in Paging!Whole(r) : p.revision = r
  BY DEF Paging!Whole, Paging!PageOf
<1>2. 0 \in 0 .. Pages[r] - 1
  BY PagesAssumption
<1> QED BY <1>1, <1>2 DEF Paging!Whole

\* What the client stages is empty or a beginning of a revision of the Relay.
LEMMA StagedType ==
  ASSUME PagesInv
  PROVE  /\ current \in 1 .. Len(Pages) /\ current \in Nat
         /\ Len(staged) \in Nat /\ (Len(staged) = 0 <=> staged = <<>>)
         /\ staged # <<>> =>
              \E r \in 1 .. current :
                /\ Len(staged) < Pages[r] /\ NotOlder(r) /\ staged = Beginning(r, Len(staged))
                /\ Paging!Last(staged) = Paging!PageOf(r, Len(staged) - 1)
<1>1. current \in 1 .. Len(Pages) /\ current \in Nat
  BY PagesAssumption DEF PagesInv, Paging!TypeOK
<1>2. CASE staged = <<>>
  BY <1>1, <1>2
<1>3. CASE staged # <<>>
  <2>1. PICK r \in 1 .. current, n \in Nat \ {0} :
          n < Pages[r] /\ NotOlder(r) /\ staged = Beginning(r, n)
    BY <1>3 DEF PagesInv
  <2>2. Len(staged) = n /\ staged[n] = Paging!PageOf(r, n - 1)
    <3>1. n \in 1 .. n /\ n \in Nat
      OBVIOUS
    <3> QED BY <2>1, <3>1, BeginningLength
  <2> QED BY <1>1, <1>3, <2>1, <2>2 DEF Paging!Last
<1> QED BY <1>2, <1>3

LEMMA PagesInit == Paging!Init => PagesInv
<1> SUFFICES ASSUME Paging!Init PROVE PagesInv
  OBVIOUS
<1>1. /\ current = 1 /\ pinned = {} /\ wire = "idle" /\ answer = Paging!PageOf(1, 0)
      /\ staged = <<>> /\ snapshot = {} /\ lapses = 0
  BY DEF Paging!Init
<1>2. answer \in Paging!Page
  BY <1>1, PagesAssumption DEF Paging!Page, Paging!PageOf
<1>3. Paging!TypeOK
  BY <1>1, <1>2, PagesAssumption DEF Paging!TypeOK
<1> QED
  BY <1>1, <1>3 DEF PagesInv

LEMMA ReviseKeepsPages == ASSUME PagesInv, Paging!Revise PROVE PagesInv'
<1>1. /\ current < Len(Pages) /\ current' = current + 1
      /\ UNCHANGED <<pinned, wire, answer, staged, snapshot, lapses>>
  BY DEF Paging!Revise, Paging!client
<1>2. current' \in Paging!Revision /\ 1 .. current \subseteq 1 .. current'
  BY <1>1, PagesAssumption, StagedType
<1>3. Paging!TypeOK'
  BY <1>1, <1>2 DEF PagesInv, Paging!TypeOK
<1>4. \A r : NotOlder(r)' <=> NotOlder(r)
  BY <1>1 DEF NotOlder
<1> QED
  BY <1>1, <1>2, <1>3, <1>4 DEF PagesInv, Follows

LEMMA LapseKeepsPages ==
  ASSUME PagesInv, (\E r \in Paging!Revision : Paging!Lapse(r)) \/ Paging!Lose
  PROVE  PagesInv'
<1>1. /\ lapses < MaxLapses /\ lapses' = lapses + 1
      /\ UNCHANGED <<current, answer, staged, snapshot>>
      /\ pinned' \subseteq pinned /\ wire' \in {wire, "idle"}
  BY DEF Paging!Lapse, Paging!Lose, Paging!client, Paging!relay
<1>2. lapses' \in 0 .. MaxLapses
  BY <1>1, PagesAssumption DEF PagesInv, Paging!TypeOK
<1>3. Paging!TypeOK'
  BY <1>1, <1>2 DEF PagesInv, Paging!TypeOK
<1> QED
  BY <1>1, <1>3 DEF PagesInv, Follows, NotOlder

LEMMA AskKeepsPages == ASSUME PagesInv, Paging!Ask PROVE PagesInv'
<1>1. wire' = "request" /\ UNCHANGED <<current, pinned, answer, staged, snapshot, lapses>>
  BY DEF Paging!Ask, Paging!client, Paging!relay
<1>2. Paging!TypeOK'
  BY <1>1 DEF PagesInv, Paging!TypeOK
<1> QED
  BY <1>1, <1>2 DEF PagesInv, NotOlder

\* The Relay answers with the page the client lacks, of the revision it began
\* with or of the current one.
LEMMA AnswerKeepsPages == ASSUME PagesInv, Paging!Answer PROVE PagesInv'
<1>1. UNCHANGED <<current, staged, snapshot, lapses>>
  BY DEF Paging!Answer, Paging!client
<1>2. NotOlder(current) /\ current \in 1 .. current /\ Pages[current] \in Nat \ {0}
  <2>1. \A p \in snapshot : p.revision <= current
    <3>1. CASE snapshot = {}
      BY <3>1
    <3>2. CASE \E r \in 1 .. current : snapshot = Paging!Whole(r)
      BY <3>2, WholeRevision, StagedType, PagesAssumption
    <3> QED BY <3>1, <3>2 DEF PagesInv
  <2> QED BY <2>1, StagedType, PagesAssumption DEF NotOlder
<1>3. \/ wire' = "error" /\ answer' = answer
      \/ wire' = "page" /\ Follows(answer', Len(staged))
  <2>1. CASE staged = <<>>
    <3>1. wire' = "page" /\ answer' = Paging!PageOf(current, 0) /\ Len(staged) = 0
      BY <2>1, StagedType DEF Paging!Answer
    <3> QED BY <1>2, <3>1 DEF Follows
  <2>2. CASE staged # <<>>
    <3> DEFINE cursor == Paging!Last(staged)
    <3>1. PICK r \in 1 .. current :
            Len(staged) < Pages[r] /\ NotOlder(r) /\ cursor = Paging!PageOf(r, Len(staged) - 1)
      BY <2>2, StagedType
    <3>2. cursor.revision = r /\ cursor.index + 1 = Len(staged)
      BY <3>1, StagedType DEF Paging!PageOf
    <3>3. \/ wire' = "page" /\ answer' = Paging!PageOf(cursor.revision, cursor.index + 1)
          \/ wire' = "page" /\ cursor.index + 1 < Pages[current] /\ answer' = Paging!PageOf(current, cursor.index + 1)
          \/ wire' = "error" /\ answer' = answer
      BY <2>2 DEF Paging!Answer
    <3> QED BY <1>2, <3>1, <3>2, <3>3 DEF Follows
  <2> QED BY <2>1, <2>2
<1>4. answer' \in Paging!Page
  <2>1. CASE answer' = answer
    BY <2>1 DEF PagesInv, Paging!TypeOK
  <2>2. CASE Follows(answer', Len(staged))
    <3>1. PICK r \in 1 .. current : answer' = Paging!PageOf(r, Len(staged))
      BY <2>2 DEF Follows
    <3>2. r \in Paging!Revision /\ Len(staged) \in Nat
      BY StagedType, PagesAssumption
    <3> QED BY <3>1, <3>2 DEF Paging!Page, Paging!PageOf
  <2> QED BY <1>3, <2>1, <2>2
<1>5. pinned' \subseteq Paging!Revision
  <2>1. pinned' = pinned \/ pinned' = pinned \cup {answer'.revision}
    BY DEF Paging!Answer
  <2>2. answer'.revision \in Paging!Revision
    BY <1>4 DEF Paging!Page
  <2> QED BY <2>1, <2>2 DEF PagesInv, Paging!TypeOK
<1>6. Paging!TypeOK'
  BY <1>1, <1>3, <1>4, <1>5 DEF PagesInv, Paging!TypeOK
<1>7. wire' = "page" => Follows(answer, Len(staged))'
  BY <1>1, <1>3 DEF Follows, NotOlder
<1> QED
  BY <1>1, <1>6, <1>7 DEF PagesInv, NotOlder

LEMMA PageFields ==
  ASSUME NEW r, NEW i
  PROVE  LET page == Paging!PageOf(r, i) IN
         page.revision = r /\ page.index = i /\ page.last = (i = Pages[r] - 1)
  BY DEF Paging!PageOf

\* One page more of the same revision makes the beginning longer.
LEMMA BeginningGrows ==
  ASSUME NEW r, NEW n \in Nat, NEW got,
         got = Append(Beginning(r, n), Paging!PageOf(r, n))
  PROVE  got = Beginning(r, n + 1)
<1>1. Beginning(r, n) \in Seq({Paging!PageOf(r, i) : i \in Nat}) /\ Len(Beginning(r, n)) = n
  BY BeginningLength
<1>2. got \in Seq({Paging!PageOf(r, i) : i \in Nat}) /\ Len(got) = n + 1
  BY <1>1
<1>3. \A i \in 1 .. n + 1 : got[i] = Paging!PageOf(r, i - 1)
  <2> SUFFICES ASSUME NEW i \in 1 .. n + 1 PROVE got[i] = Paging!PageOf(r, i - 1)
    OBVIOUS
  <2>1. CASE i = n + 1
    <3>1. i - 1 = n /\ got[n + 1] = Paging!PageOf(r, n)
      BY <1>1, <2>1
    <3> QED BY <2>1, <3>1
  <2>2. CASE i # n + 1
    <3>1. i \in 1 .. n /\ got[i] = Beginning(r, n)[i]
      BY <1>1, <2>2
    <3> QED BY <3>1, BeginningLength
  <2> QED BY <2>1, <2>2
<1> QED
  BY <1>2, <1>3 DEF Beginning

\* Verdict: a beginning is applied when it is the whole and kept otherwise.
LEMMA VerdictOnBeginning ==
  ASSUME NEW r \in Paging!Revision, NEW n \in Nat \ {0}, n <= Pages[r]
  PROVE  /\ n = Pages[r] => /\ Paging!Verdict(Beginning(r, n)) = "replace_static_snapshot_atomically"
                            /\ Paging!ToSet(Beginning(r, n)) = Paging!Whole(r)
         /\ n # Pages[r] => Paging!Verdict(Beginning(r, n)) = "retain_previous_snapshot"
<1> DEFINE got == Beginning(r, n)
<1>1. /\ DOMAIN got = 1 .. n /\ Len(got) = n /\ n \in 1 .. n
      /\ \A i \in 1 .. n : got[i] = Paging!PageOf(r, i - 1)
  <2>1. n \in Nat /\ n \in 1 .. n
    OBVIOUS
  <2> QED BY <2>1, BeginningLength
<1> HIDE DEF got
<1>2. \A i \in 1 .. n : got[i].revision = r /\ got[i].index = i - 1
  BY <1>1, PageFields
<1>3. {got[i].revision : i \in DOMAIN got} = {r}
  BY <1>1, <1>2
<1>4. ~ (Paging!Cardinality({got[i].revision : i \in DOMAIN got}) > 1)
  <2>1. Paging!Cardinality({r}) = 1
    BY OneCardinality, FS_Singleton
  <2> QED BY <1>3, <2>1
<1>5. [i \in DOMAIN got |-> got[i].index] = [i \in DOMAIN got |-> i - 1]
  BY <1>1, <1>2
<1>6. Paging!Last(got).last = (n = Pages[r])
  <2>1. got[n] = Paging!PageOf(r, n - 1)
    BY <1>1
  <2>2. got[n].last = (n - 1 = Pages[r] - 1)
    BY <2>1, PageFields
  <2>3. (n - 1 = Pages[r] - 1) = (n = Pages[r])
    BY PagesAssumption
  <2> QED BY <1>1, <2>2, <2>3 DEF Paging!Last
<1>7. n = Pages[r] => Paging!ToSet(got) = Paging!Whole(r)
  <2> SUFFICES ASSUME n = Pages[r] PROVE Paging!ToSet(got) = Paging!Whole(r)
    OBVIOUS
  <2>1. Paging!ToSet(got) = {Paging!PageOf(r, i - 1) : i \in 1 .. n}
    BY <1>1 DEF Paging!ToSet
  <2>2. \A i \in 0 .. n - 1 : i + 1 \in 1 .. n /\ (i + 1) - 1 = i
    OBVIOUS
  <2>3. \A i \in 1 .. n : i - 1 \in 0 .. n - 1
    OBVIOUS
  <2> QED BY <2>1, <2>2, <2>3 DEF Paging!Whole
<1>8. /\ n = Pages[r] => Paging!Verdict(got) = "replace_static_snapshot_atomically"
      /\ n # Pages[r] => Paging!Verdict(got) = "retain_previous_snapshot"
  BY <1>4, <1>5, <1>6 DEF Paging!Verdict
<1> QED
  BY <1>7, <1>8 DEF got

\* Verdict: pages of two revisions are thrown away.
LEMMA VerdictOnMixture ==
  ASSUME NEW r, NEW n \in Nat \ {0}, NEW page, page.revision # r
  PROVE  Paging!Verdict(Append(Beginning(r, n), page)) = "discard_staged_snapshot_restart_pagination"
<1> DEFINE got == Append(Beginning(r, n), page)
           revisions == {got[i].revision : i \in DOMAIN got}
<1>1. /\ DOMAIN got = 1 .. n + 1 /\ got[n + 1] = page
      /\ \A i \in 1 .. n : got[i] = Paging!PageOf(r, i - 1)
  <2>1. n \in Nat
    OBVIOUS
  <2>2. /\ Beginning(r, n) \in Seq({Paging!PageOf(r, i) : i \in Nat}) /\ Len(Beginning(r, n)) = n
        /\ \A i \in 1 .. n : Beginning(r, n)[i] = Paging!PageOf(r, i - 1)
    BY <2>1, BeginningLength
  <2> QED BY <2>1, <2>2
<1> HIDE DEF got
<1>2. got[n + 1].revision = page.revision /\ \A i \in 1 .. n : got[i].revision = r
  BY <1>1, PageFields
<1>3. 1 \in 1 .. n /\ 1 .. n + 1 = (1 .. n) \cup {n + 1}
  OBVIOUS
<1>4. revisions = {r} \cup {page.revision}
  BY <1>1, <1>2, <1>3
<1>5. Cardinality(revisions) = 2
  <2>1. IsFiniteSet({r}) /\ Cardinality({r}) = 1 /\ page.revision \notin {r}
    BY FS_Singleton
  <2>2. Cardinality({r} \cup {page.revision}) = 2
    <3> DEFINE S == {r} x == page.revision
    <3> HIDE DEF S, x
    <3>1. IsFiniteSet(S) /\ Cardinality(S) = 1 /\ x \notin S
      BY <2>1 DEF S, x
    <3>2. Cardinality(S \cup {x}) = 2
      BY <3>1, FS_AddElement
    <3> QED BY <3>2 DEF S, x
  <2> QED BY <1>4, <2>2
<1>6. Paging!Cardinality(revisions) > 1
  BY <1>5, OneCardinality
<1> QED
  BY <1>6 DEF Paging!Verdict, got

\* What is applied is a whole revision, not older than the one before.
LEMMA ReceiveKeepsPages ==
  ASSUME PagesInv, Paging!Receive
  PROVE  /\ PagesInv' /\ current' = current
         /\ snapshot' = snapshot \/ \E r \in 1 .. current : NotOlder(r) /\ snapshot' = Paging!Whole(r)
<1> DEFINE got == Append(staged, answer)
<1>1. wire = "page" /\ wire' = "idle" /\ UNCHANGED <<current, pinned, answer, lapses>>
  BY DEF Paging!Receive, Paging!relay
<1>2. PICK r \in 1 .. current :
        Len(staged) < Pages[r] /\ NotOlder(r) /\ answer = Paging!PageOf(r, Len(staged))
  BY <1>1 DEF PagesInv, Follows
<1>3. r \in Paging!Revision /\ Pages[r] \in Nat \ {0} /\ Len(staged) \in Nat /\ answer.revision = r
  BY <1>2, StagedType, PagesAssumption DEF Paging!PageOf
\* Of one revision: the beginning is longer by the page, and perhaps the whole.
<1>4. CASE got = Beginning(r, Len(staged) + 1)
  <2> DEFINE n == Len(staged) + 1
  <2>1. n \in Nat \ {0} /\ n <= Pages[r]
    BY <1>2, <1>3
  <2>2. CASE n = Pages[r]
    <3>1. Paging!Verdict(got) = "replace_static_snapshot_atomically" /\ Paging!ToSet(got) = Paging!Whole(r)
      BY <1>3, <1>4, <2>1, <2>2, VerdictOnBeginning
    <3>2. snapshot' = Paging!Whole(r) /\ staged' = <<>>
      BY <3>1 DEF Paging!Receive
    <3>3. Paging!TypeOK'
      BY <1>1, <1>3, <3>2 DEF PagesInv, Paging!TypeOK
    <3> QED BY <1>1, <1>2, <3>2, <3>3 DEF PagesInv
  <2>3. CASE n # Pages[r]
    <3>1. Paging!Verdict(got) = "retain_previous_snapshot"
      BY <1>3, <1>4, <2>1, <2>3, VerdictOnBeginning
    <3>2. snapshot' = snapshot /\ staged' = Beginning(r, n) /\ n < Pages[r]
      BY <1>3, <1>4, <2>1, <2>3, <3>1 DEF Paging!Receive
    <3>3. Len(staged') = n
      BY <2>1, <3>2, BeginningLength
    <3>4. Paging!TypeOK'
      BY <1>1, <1>3, <3>2, <3>3 DEF PagesInv, Paging!TypeOK, Beginning
    <3> QED BY <1>1, <1>2, <2>1, <3>2, <3>4 DEF PagesInv, NotOlder
  <2> QED BY <2>2, <2>3
\* Of two revisions: nothing remains of either.
<1>5. CASE Paging!Verdict(got) = "discard_staged_snapshot_restart_pagination"
  <2>1. snapshot' = snapshot /\ staged' = <<>>
    BY <1>5 DEF Paging!Receive
  <2>2. Paging!TypeOK'
    BY <1>1, <2>1 DEF PagesInv, Paging!TypeOK
  <2> QED BY <1>1, <2>1, <2>2 DEF PagesInv
<1>6. CASE staged = <<>>
  <2>1. Len(staged) = 0 /\ staged = Beginning(r, 0)
    BY <1>6 DEF Beginning
  <2>2. got = Append(Beginning(r, 0), Paging!PageOf(r, 0))
    BY <1>2, <2>1
  <2>3. got = Beginning(r, 0 + 1)
    BY <2>2, BeginningGrows
  <2> QED BY <1>4, <2>1, <2>3
<1>7. CASE staged # <<>>
  <2>1. PICK q \in 1 .. current : staged = Beginning(q, Len(staged))
    BY <1>7, StagedType
  <2>2. CASE q = r
    <3>1. got = Append(Beginning(r, Len(staged)), Paging!PageOf(r, Len(staged)))
      BY <1>2, <2>1, <2>2
    <3>2. got = Beginning(r, Len(staged) + 1)
      BY <1>3, <3>1, BeginningGrows
    <3> QED BY <1>4, <3>2
  <2>3. CASE q # r
    <3>1. Len(staged) \in Nat \ {0} /\ answer.revision # q
      BY <1>3, <1>7, <2>3, StagedType
    <3>2. Paging!Verdict(got) = "discard_staged_snapshot_restart_pagination"
      BY <2>1, <3>1, VerdictOnMixture
    <3> QED BY <1>5, <3>2
  <2> QED BY <2>2, <2>3
<1> QED
  BY <1>6, <1>7

-----------------------------------------------------------------------------
LEMMA PagesStep ==
  ASSUME PagesInv, [Paging!Next]_pages
  PROVE  /\ PagesInv' /\ current' \in Nat /\ current <= current'
         /\ \/ snapshot' = snapshot
            \/ current' = current /\ \E r \in 1 .. current : NotOlder(r) /\ snapshot' = Paging!Whole(r)
<1>1. current \in Nat /\ current <= current
  BY StagedType
<1>2. CASE UNCHANGED pages
  BY <1>1, <1>2 DEF pages, PagesInv, Paging!TypeOK, Follows, NotOlder
<1>3. CASE Paging!Revise
  BY <1>1, <1>3, ReviseKeepsPages DEF Paging!Revise, Paging!client
<1>4. CASE (\E r \in Paging!Revision : Paging!Lapse(r)) \/ Paging!Lose
  <2>1. UNCHANGED <<current, snapshot>>
    BY <1>4 DEF Paging!Lapse, Paging!Lose, Paging!client, Paging!relay
  <2> QED BY <1>1, <1>4, <2>1, LapseKeepsPages
<1>5. CASE Paging!Ask
  BY <1>1, <1>5, AskKeepsPages DEF Paging!Ask, Paging!client, Paging!relay
<1>6. CASE Paging!Answer
  BY <1>1, <1>6, AnswerKeepsPages DEF Paging!Answer, Paging!client
<1>7. CASE Paging!Receive
  BY <1>1, <1>7, ReceiveKeepsPages
<1>8. CASE Paging!ReceiveError
  <2>1. wire' = "idle" /\ staged' = <<>> /\ UNCHANGED <<current, pinned, answer, snapshot, lapses>>
    BY <1>8 DEF Paging!ReceiveError, Paging!relay
  <2>2. Paging!TypeOK'
    BY <2>1 DEF PagesInv, Paging!TypeOK
  <2> QED BY <1>1, <2>1, <2>2 DEF PagesInv
<1> QED
  BY <1>2, <1>3, <1>4, <1>5, <1>6, <1>7, <1>8 DEF Paging!Next

LEMMA PagesPromised ==
  ASSUME PagesInv, [Paging!Next]_pages
  PROVE  [Paging!Promise!Next]_<<{Paging!Whole(r) : r \in 1 .. current},
                                 IF snapshot = {} THEN {} ELSE {snapshot}>>
<1> DEFINE published == {Paging!Whole(r) : r \in 1 .. current}
           applied == IF snapshot = {} THEN {} ELSE {snapshot}
<1>1. CASE snapshot' = snapshot
  <2>1. 1 .. current \subseteq 1 .. current'
    BY PagesStep, StagedType
  <2>2. published \subseteq published'
    BY <2>1
  <2> QED BY <1>1, <2>2 DEF Paging!Promise!Next, Paging!Promise!Publish
<1>2. CASE snapshot' # snapshot
  <2>1. PICK r \in 1 .. current : snapshot' = Paging!Whole(r)
    BY <1>2, PagesStep
  <2>2. current' = current /\ r \in Paging!Revision
    BY <1>2, PagesStep, StagedType, PagesAssumption
  <2>3. snapshot' # {}
    BY <2>1, <2>2, WholeRevision
  <2> QED BY <2>1, <2>2, <2>3 DEF Paging!Promise!Next, Paging!Promise!Apply
<1> QED BY <1>1, <1>2

\* The static snapshot: whole revisions are shown, and never an older one after a
\* newer one, however revisions change and cursors lapse between two pages.
THEOREM PagesStayWhole == Spec => []PagesInv /\ Paging!PromiseSpec /\ Paging!NeverBackwards
<1>1. Init => PagesInv
  BY PagesInit DEF Init
<1>2. [Next]_vars => [Paging!Next]_pages
  BY DEF Next, vars, OfChunks, OfFragments, OfPages, OfPolls
<1>3. PagesInv /\ [Next]_vars => PagesInv'
  BY <1>2, PagesStep
<1>4. Init => Paging!Promise!Init
  BY DEF Init, Paging!Init, Paging!Promise!Init
<1>5. PagesInv /\ [Next]_vars
        => [Paging!Promise!Next]_<<{Paging!Whole(r) : r \in 1 .. current},
                                   IF snapshot = {} THEN {} ELSE {snapshot}>>
  BY <1>2, PagesPromised
<1>6. PagesInv /\ [Next]_vars
        => [\A old \in snapshot, new \in snapshot' : old.revision <= new.revision]_(Paging!vars)
  <2> SUFFICES ASSUME PagesInv, [Next]_vars, NEW old \in snapshot, NEW new \in snapshot'
               PROVE  old.revision <= new.revision
    OBVIOUS
  <2>1. PICK q \in 1 .. current : snapshot = Paging!Whole(q)
    BY DEF PagesInv
  <2>2. old.revision = q /\ q \in Nat
    BY <2>1, WholeRevision, StagedType, PagesAssumption
  <2>3. CASE snapshot' = snapshot
    BY <2>1, <2>2, <2>3, WholeRevision, StagedType, PagesAssumption
  <2>4. CASE snapshot' # snapshot
    <3>1. PICK r \in 1 .. current : NotOlder(r) /\ snapshot' = Paging!Whole(r)
      BY <1>2, <2>4, PagesStep
    <3>2. new.revision = r
      BY <3>1, WholeRevision, StagedType, PagesAssumption
    <3> QED BY <3>1, <3>2 DEF NotOlder
  <2> QED BY <2>3, <2>4
<1> QED
  BY <1>1, <1>3, <1>4, <1>5, <1>6, PTL DEF Spec, Paging!PromiseSpec, Paging!Promise!Spec, Paging!NeverBackwards

-----------------------------------------------------------------------------
\* The channels in chunks: what travels, and which of it answers requests.
Question == [ask : Nat]
Reply == [in_reply_to : Nat, index : Nat, count : Nat, at : Nat]
Replies == {m \in link \cup received : m \in Reply}

\* Every answer is of one view, the answer of the last request of one since then.
ChunksInv ==
  /\ Chunks!TypeOK
  /\ \A m \in link : m \in Question \/ m \in Reply
  /\ IsFiniteSet(received) /\ received \subseteq Reply
  /\ \A m \in received : m.index < Len(Chunk)
  /\ \A m \in Replies : m.index < Len(Chunk) \/ Chunks!Misplaced(m)
  /\ \A m \in Replies :
       /\ m.count >= Len(Chunk) /\ m.in_reply_to <= request /\ m.at \in DOMAIN held
       /\ m.in_reply_to = request => m.at >= requested
  /\ \A m, n \in Replies : m.in_reply_to = n.in_reply_to => m.at = n.at
  /\ \A m \in link : m \in Question =>
       m.ask <= request /\ \A n \in Replies : m.ask # n.in_reply_to
  /\ shown = {} \/ \E at \in DOMAIN held : shown = Chunks!Whole(at)

\* A question is no reply.
LEMMA QuestionsAndReplies ==
  /\ \A m \in Question : "ask" \in DOMAIN m /\ m \notin Reply /\ m.ask \in Nat
  /\ \A m \in Reply : "ask" \notin DOMAIN m /\ m \notin Question
<1>1. \A m \in Question : DOMAIN m = {"ask"} /\ m.ask \in Nat
  BY DEF Question
<1>2. \A m \in Reply : DOMAIN m = {"in_reply_to", "index", "count", "at"}
  BY DEF Reply
<1> QED
  BY <1>1, <1>2

\* Distinct chunks of one view, as many as they say, make up the view.
LEMMA CompleteIsWhole ==
  ASSUME NEW at, NEW S \in SUBSET Reply,
         \A m \in S : m.at = at /\ m.count >= Len(Chunk) /\ m.index < Len(Chunk),
         \A m, n \in S : m.index = n.index => m = n,
         NEW m \in S, Cardinality(S) = m.count
  PROVE  Chunks!Channels(S) = Chunks!Whole(at)
<1> DEFINE f == [n \in S |-> n.index]
<1>1. Len(Chunk) \in Nat /\ DOMAIN Chunk = 1 .. Len(Chunk)
  BY ReceiversAssumption
<1>2. f \in Injection(S, 0 .. Len(Chunk) - 1)
  <2>1. f \in [S -> 0 .. Len(Chunk) - 1]
    BY <1>1 DEF Reply
  <2> QED BY <2>1 DEF Injection, IsInjective
<1>3. Cardinality(S) <= Len(Chunk) /\ (Cardinality(S) = Len(Chunk) <=> f \in Surjection(S, 0 .. Len(Chunk) - 1))
  BY <1>1, <1>2, AllNumbers
<1>4. f \in Surjection(S, 0 .. Len(Chunk) - 1)
  <2>1. m.count \in Nat /\ m.count >= Len(Chunk)
    BY DEF Reply
  <2> QED BY <1>1, <1>3, <2>1
<1>5. \A i \in DOMAIN Chunk : \E n \in S : n.index + 1 = i
  <2> SUFFICES ASSUME NEW i \in 1 .. Len(Chunk) PROVE \E n \in S : n.index + 1 = i
    BY <1>1
  <2>1. i - 1 \in 0 .. Len(Chunk) - 1
    BY <1>1
  <2>2. PICK n \in S : f[n] = i - 1
    <3> HIDE DEF f
    <3> QED BY <1>4, <2>1 DEF Surjection
  <2> QED BY <1>1, <2>2
<1>6. \A n \in S : n.index + 1 \in DOMAIN Chunk /\ n.at = at
  BY <1>1 DEF Reply
<1> QED
  BY <1>5, <1>6 DEF Chunks!Channels, Chunks!Whole, Chunks!Channel, Chunks!Range

-----------------------------------------------------------------------------
\* Whatever the Relay, the link and the service do, an answer stays one view.
LEMMA ChunksInit == Chunks!Init => ChunksInv
<1> SUFFICES ASSUME Chunks!Init PROVE ChunksInv
  OBVIOUS
<1>1. held \in Seq([Chunks!Channel -> Nat]) /\ DOMAIN held = 1 .. 1
  BY DEF Chunks!Init
<1>2. IsFiniteSet(received)
  BY FS_EmptySet DEF Chunks!Init
<1>3. MaxRequests \in Nat /\ MaxFaults \in Nat
  BY ReceiversAssumption
<1>4. link = {} /\ received = {} /\ shown = {} /\ request = 0 /\ faults = 0 /\ requested = 1 /\ waiting = FALSE
  BY DEF Chunks!Init
<1>5. requested \in DOMAIN held /\ request \in 0 .. MaxRequests /\ faults \in 0 .. MaxFaults
  BY <1>1, <1>3, <1>4
<1>6. Chunks!TypeOK
  BY <1>1, <1>4, <1>5, Zenon DEF Chunks!TypeOK
<1> QED
  BY <1>2, <1>4, <1>6 DEF ChunksInv, Replies

\* A change of the channels leaves the views that were held.
LEMMA ChangeKeepsChunks ==
  ASSUME ChunksInv, NEW c \in Chunks!Channel, Chunks!Change(c)
  PROVE  ChunksInv' /\ \A at \in DOMAIN held : at \in DOMAIN held' /\ Chunks!Whole(at)' = Chunks!Whole(at)
<1>1. PICK view \in [Chunks!Channel -> Nat] : held' = Append(held, view)
  <2>1. held # <<>> /\ held \in Seq([Chunks!Channel -> Nat])
    BY DEF ChunksInv, Chunks!TypeOK
  <2>2. Chunks!Last(held) \in [Chunks!Channel -> Nat]
    BY <2>1 DEF Chunks!Last
  <2>3. [Chunks!Last(held) EXCEPT ![c] = @ + 1] \in [Chunks!Channel -> Nat]
    BY <2>2
  <2> QED BY <2>3 DEF Chunks!Change
<1>2. held \in Seq([Chunks!Channel -> Nat])
  BY DEF ChunksInv, Chunks!TypeOK
<1>3. /\ held' \in Seq([Chunks!Channel -> Nat]) /\ Len(held') = Len(held) + 1 /\ Len(held) \in Nat
      /\ DOMAIN held = 1 .. Len(held) /\ DOMAIN held' = 1 .. Len(held')
      /\ \A at \in DOMAIN held : held'[at] = held[at]
  BY <1>1, <1>2
<1>4. UNCHANGED <<request, waiting, requested, link, received, shown, faults>>
  BY DEF Chunks!Change
<1>5. \A at \in DOMAIN held : at \in DOMAIN held' /\ Chunks!Whole(at)' = Chunks!Whole(at)
  BY <1>3 DEF Chunks!Whole
<1>6. Replies' = Replies
  BY <1>4 DEF Replies
<1>7. Chunks!TypeOK'
  BY <1>3, <1>4 DEF ChunksInv, Chunks!TypeOK
<1>8. shown' = {} \/ \E at \in DOMAIN held' : shown' = Chunks!Whole(at)'
  BY <1>4, <1>5 DEF ChunksInv
<1>9. \A m \in Replies' : m.at \in DOMAIN held'
  BY <1>3, <1>6 DEF ChunksInv
<1> QED
  BY <1>4, <1>5, <1>6, <1>7, <1>8, <1>9 DEF ChunksInv, Chunks!Misplaced

\* A new request has no answer yet, and no question has its number.
LEMMA AskKeepsChunks ==
  ASSUME ChunksInv, Chunks!Ask
  PROVE  ChunksInv'
<1> DEFINE q == [ask |-> request']
<1>1. /\ ~ waiting /\ request < MaxRequests /\ request' = request + 1 /\ waiting' = TRUE
      /\ requested' = Len(held) /\ link' = link \cup {q}
      /\ UNCHANGED <<held, received, shown, faults>>
  BY DEF Chunks!Ask
<1>2. /\ request \in Nat /\ MaxRequests \in Nat /\ request' \in 0 .. MaxRequests
      /\ received = {}
  BY <1>1, ReceiversAssumption DEF ChunksInv, Chunks!TypeOK
<1>3. q \in Question /\ q.ask = request + 1 /\ q \notin Reply
  BY <1>1, <1>2, QuestionsAndReplies DEF Question
<1>4. Replies' = Replies
  BY <1>1, <1>3 DEF Replies
<1>5. requested' \in DOMAIN held'
  BY <1>1 DEF ChunksInv, Chunks!TypeOK
<1>6. Chunks!TypeOK'
  BY <1>1, <1>2, <1>5 DEF ChunksInv, Chunks!TypeOK
<1>7. \A m \in Replies : m.in_reply_to \in Nat /\ m.in_reply_to <= request
  BY DEF ChunksInv, Replies, Reply
<1>8. \A m \in Replies' : m.in_reply_to <= request' /\ m.in_reply_to # request'
  BY <1>1, <1>2, <1>4, <1>7
<1>9. \A m \in link' : m \in Question =>
        m.ask <= request' /\ \A n \in Replies' : m.ask # n.in_reply_to
  <2> SUFFICES ASSUME NEW m \in link', m \in Question
               PROVE  m.ask <= request' /\ \A n \in Replies' : m.ask # n.in_reply_to
    OBVIOUS
  <2>1. CASE m \in link
    <3>1. m.ask \in Nat
      BY QuestionsAndReplies
    <3> QED BY <1>1, <1>2, <1>4, <2>1, <3>1 DEF ChunksInv
  <2>2. CASE m = q
    BY <1>1, <1>2, <1>3, <1>8, <2>2
  <2> QED BY <1>1, <2>1, <2>2
<1>10. shown' = {} \/ \E at \in DOMAIN held' : shown' = Chunks!Whole(at)'
  BY <1>1 DEF ChunksInv, Chunks!Whole
<1> QED
  BY <1>1, <1>3, <1>4, <1>6, <1>8, <1>9, <1>10 DEF ChunksInv, Chunks!Misplaced

\* The answer to a question is of the present view.
LEMMA CaptureKeepsChunks ==
  ASSUME ChunksInv, Chunks!Capture
  PROVE  ChunksInv'
<1>1. PICK q \in Chunks!Asked :
        link' = (link \ {q}) \cup {Chunks!ChunkOf(q.ask, i - 1, Len(held)) : i \in DOMAIN Chunk}
  BY DEF Chunks!Capture
<1> DEFINE New == {Chunks!ChunkOf(q.ask, i - 1, Len(held)) : i \in DOMAIN Chunk}
<1>2. UNCHANGED <<held, request, waiting, requested, received, shown, faults>>
  BY DEF Chunks!Capture
<1>3. q \in link /\ q \in Question
  BY <1>1, QuestionsAndReplies DEF Chunks!Asked, ChunksInv
<1>4. Len(Chunk) \in Nat /\ DOMAIN Chunk = 1 .. Len(Chunk)
  BY ReceiversAssumption
<1>5. Len(held) \in Nat /\ DOMAIN held = 1 .. Len(held) /\ requested \in DOMAIN held
  BY DEF ChunksInv, Chunks!TypeOK
<1>6. \A n \in New : /\ n \in Reply /\ n.in_reply_to = q.ask /\ n.count = Len(Chunk) /\ n.at = Len(held)
                     /\ n.index < Len(Chunk)
  <2> SUFFICES ASSUME NEW i \in DOMAIN Chunk
               PROVE  LET n == Chunks!ChunkOf(q.ask, i - 1, Len(held)) IN
                      /\ n \in Reply /\ n.in_reply_to = q.ask /\ n.count = Len(Chunk) /\ n.at = Len(held)
                      /\ n.index < Len(Chunk)
    OBVIOUS
  <2>1. i - 1 \in 0 .. Len(Chunk) - 1 /\ q.ask \in Nat
    BY <1>3, <1>4, QuestionsAndReplies
  <2> QED BY <1>4, <1>5, <2>1 DEF Chunks!ChunkOf, Reply
<1>7. Replies' \subseteq Replies \cup New
  BY <1>1, <1>2 DEF Replies
<1>8. \A n \in Replies : n.in_reply_to # q.ask
  BY <1>3 DEF ChunksInv
<1>9. q.ask <= request
  BY <1>3 DEF ChunksInv
<1>10. Chunks!TypeOK'
  BY <1>2 DEF ChunksInv, Chunks!TypeOK
<1>11. \A m \in Replies' :
         /\ m.count >= Len(Chunk) /\ m.in_reply_to <= request' /\ m.at \in DOMAIN held'
         /\ m.in_reply_to = request' => m.at >= requested'
  BY <1>2, <1>4, <1>5, <1>6, <1>7, <1>9 DEF ChunksInv
<1>12. \A m, n \in Replies' : m.in_reply_to = n.in_reply_to => m.at = n.at
  BY <1>6, <1>7, <1>8 DEF ChunksInv
<1>13. \A m \in link' : m \in Question =>
         m.ask <= request' /\ \A n \in Replies' : m.ask # n.in_reply_to
  <2> SUFFICES ASSUME NEW m \in link', m \in Question
               PROVE  m.ask <= request' /\ \A n \in Replies' : m.ask # n.in_reply_to
    OBVIOUS
  <2>1. m \in link /\ m # q
    BY <1>1, <1>6, QuestionsAndReplies
  <2>2. m.ask # q.ask
    BY <1>3, <2>1 DEF Question
  <2> QED BY <1>2, <1>6, <1>7, <2>1, <2>2 DEF ChunksInv
<1>14. \A m \in link' : m \in Question \/ m \in Reply
  BY <1>1, <1>6 DEF ChunksInv
<1>15. shown' = {} \/ \E at \in DOMAIN held' : shown' = Chunks!Whole(at)'
  BY <1>2 DEF ChunksInv, Chunks!Whole
<1>16. (\A m \in Replies : m.index < Len(Chunk) \/ Chunks!Misplaced(m))'
  BY <1>6, <1>7 DEF ChunksInv, Chunks!Misplaced
<1> QED
  BY <1>2, <1>10, <1>11, <1>12, <1>13, <1>14, <1>15, <1>16 DEF ChunksInv

\* A chunk that is sent again, or at fault, is still of the view of its answer.
LEMMA ResendKeepsChunks ==
  ASSUME ChunksInv, NEW c \in link \ Chunks!Asked, Chunks!Resend(c)
  PROVE  ChunksInv'
<1> DEFINE Again == {Chunks!ChunkOf(c.in_reply_to, i - 1, c.at) : i \in DOMAIN Chunk}
<1>1. PICK wrong \in {[c EXCEPT !.count = @ + 1], [c EXCEPT !.index = c.count]} :
        /\ ~ Chunks!Misplaced(c) /\ faults < MaxFaults /\ faults' = faults + 1
        /\ link' = link \cup Again \cup {wrong}
        /\ UNCHANGED <<held, request, waiting, requested, received, shown>>
  BY DEF Chunks!Resend
<1>2. c \in Reply /\ c \in Replies
  BY QuestionsAndReplies DEF ChunksInv, Chunks!Asked, Replies
<1>3. Len(Chunk) \in Nat /\ DOMAIN Chunk = 1 .. Len(Chunk)
  BY ReceiversAssumption
<1>4. c.in_reply_to \in Nat /\ c.at \in Nat /\ c.count \in Nat
  BY <1>2 DEF Reply
<1>5. \A n \in Again \cup {wrong} :
        /\ n \in Reply /\ n.in_reply_to = c.in_reply_to /\ n.count >= Len(Chunk) /\ n.at = c.at
        /\ n.index < Len(Chunk) \/ Chunks!Misplaced(n)
  <2>1. ASSUME NEW i \in DOMAIN Chunk
        PROVE  LET n == Chunks!ChunkOf(c.in_reply_to, i - 1, c.at) IN
               /\ n \in Reply /\ n.in_reply_to = c.in_reply_to /\ n.count >= Len(Chunk) /\ n.at = c.at
               /\ n.index < Len(Chunk)
    <3>1. i - 1 \in 0 .. Len(Chunk) - 1
      BY <1>3
    <3> QED BY <1>3, <1>4, <3>1 DEF Chunks!ChunkOf, Reply
  <2>2. c.index < Len(Chunk) /\ c.index \in Nat /\ c.count >= Len(Chunk)
    BY <1>1, <1>2 DEF ChunksInv, Reply
  <2>3. wrong \in Reply /\ wrong.in_reply_to = c.in_reply_to /\ wrong.at = c.at
    BY <1>1, <1>2, <1>4 DEF Reply
  <2>4. CASE wrong = [c EXCEPT !.count = @ + 1]
    <3>1. wrong.count = c.count + 1 /\ wrong.index = c.index
      BY <1>2, <2>4 DEF Reply
    <3> QED BY <1>3, <1>4, <2>1, <2>2, <2>3, <3>1
  <2>5. CASE wrong = [c EXCEPT !.index = c.count]
    <3>1. wrong.count = c.count /\ wrong.index = c.count
      BY <1>2, <2>5 DEF Reply
    <3> QED BY <1>3, <1>4, <2>1, <2>2, <2>3, <3>1 DEF Chunks!Misplaced
  <2> QED BY <1>1, <2>4, <2>5
<1> HIDE DEF Again
<1>6. Replies' \subseteq Replies \cup Again \cup {wrong}
  BY <1>1 DEF Replies
<1>7. faults' \in 0 .. MaxFaults
  <2>1. faults \in 0 .. MaxFaults /\ MaxFaults \in Nat
    BY ReceiversAssumption, Zenon DEF ChunksInv, Chunks!TypeOK
  <2> QED BY <1>1, <2>1
<1>8. Chunks!TypeOK'
  <2>1. Chunks!TypeOK
    BY DEF ChunksInv
  <2>2. UNCHANGED <<held, request, waiting, requested, received>>
    BY <1>1
  <2> QED BY <1>7, <2>1, <2>2 DEF Chunks!TypeOK
<1>9. \A m \in Replies' : \E n \in Replies : m.in_reply_to = n.in_reply_to /\ m.at = n.at
  BY <1>2, <1>5, <1>6
<1>10. \A m \in Replies' :
         /\ m.count >= Len(Chunk) /\ m.in_reply_to <= request' /\ m.at \in DOMAIN held'
         /\ m.in_reply_to = request' => m.at >= requested'
  <2>1. \A m \in Replies' : m.count >= Len(Chunk)
    BY <1>5, <1>6 DEF ChunksInv
  <2> QED BY <1>1, <1>9, <2>1 DEF ChunksInv
<1>11. \A m, n \in Replies' : m.in_reply_to = n.in_reply_to => m.at = n.at
  BY <1>9 DEF ChunksInv
<1>12. \A m \in link' : m \in Question =>
         m.ask <= request' /\ \A n \in Replies' : m.ask # n.in_reply_to
  <2>1. \A m \in link' : m \in Question => m \in link
    BY <1>1, <1>5, QuestionsAndReplies
  <2> QED BY <1>1, <1>9, <2>1 DEF ChunksInv
<1>13. \A m \in link' : m \in Question \/ m \in Reply
  BY <1>1, <1>5 DEF ChunksInv
<1>14. shown' = {} \/ \E at \in DOMAIN held' : shown' = Chunks!Whole(at)'
  BY <1>1 DEF ChunksInv, Chunks!Whole
<1>15. (\A m \in Replies : m.index < Len(Chunk) \/ Chunks!Misplaced(m))'
  BY <1>5, <1>6 DEF ChunksInv, Chunks!Misplaced
<1> QED
  BY <1>1, <1>8, <1>10, <1>11, <1>12, <1>13, <1>14, <1>15 DEF ChunksInv

LEMMA BreakKeepsChunks ==
  ASSUME ChunksInv, Chunks!BreakLink
  PROVE  ChunksInv'
<1>1. /\ faults < MaxFaults /\ faults' = faults + 1 /\ waiting' = FALSE /\ link' = {} /\ received' = {}
      /\ UNCHANGED <<held, request, requested, shown>>
  BY DEF Chunks!BreakLink
<1>2. faults' \in 0 .. MaxFaults
  <2>1. faults \in 0 .. MaxFaults /\ MaxFaults \in Nat
    BY ReceiversAssumption, Zenon DEF ChunksInv, Chunks!TypeOK
  <2> QED BY <1>1, <2>1
<1>3. Chunks!TypeOK'
  BY <1>1, <1>2 DEF ChunksInv, Chunks!TypeOK
<1>4. IsFiniteSet(received')
  BY <1>1, FS_EmptySet
<1>5. shown' = {} \/ \E at \in DOMAIN held' : shown' = Chunks!Whole(at)'
  BY <1>1 DEF ChunksInv, Chunks!Whole
<1> QED
  BY <1>1, <1>3, <1>4, <1>5 DEF ChunksInv, Replies, Chunks!Misplaced

\* What is applied is the view of the answer; what is kept stays incomplete.
LEMMA ReceiveKeepsChunks ==
  ASSUME ChunksInv, NEW c \in link \ Chunks!Asked, Chunks!Receive(c)
  PROVE  /\ ChunksInv'
         /\ held' = held
         /\ \/ shown' = shown
            \/ \E at \in DOMAIN held : at >= requested /\ shown' = Chunks!Whole(at)
<1> DEFINE collected == received \cup {c}
<1>1. link' = link \ {c} /\ UNCHANGED <<held, request, requested, faults>>
  BY DEF Chunks!Receive
<1>2. c \in Reply /\ c \in Replies
  BY QuestionsAndReplies DEF ChunksInv, Chunks!Asked, Replies
<1>3. received \subseteq Replies
  BY DEF ChunksInv, Replies
<1>4. c.count \in Nat /\ request \in Nat
  BY <1>2 DEF Reply, ChunksInv, Chunks!TypeOK
<1>5. IsFiniteSet(collected) /\ Cardinality(collected) \in Nat
  BY FS_AddElement, FS_CardinalityType DEF ChunksInv
\* The rest of the invariant follows from what is collected afterwards.
<1>6. ASSUME received' \in {received, {}, collected}, Chunks!TypeOK',
             \A m \in received' : m.index < Len(Chunk),
             shown' = shown \/ \E at \in DOMAIN held : at >= requested /\ shown' = Chunks!Whole(at)
      PROVE  ChunksInv'
  <2>1. Replies' \subseteq Replies /\ received' \subseteq Replies
    BY <1>1, <1>2, <1>3, <1>6 DEF Replies
  <2>2. IsFiniteSet(received') /\ received' \subseteq Reply
    <3>1. IsFiniteSet(received) /\ IsFiniteSet({})
      BY FS_EmptySet DEF ChunksInv
    <3> QED BY <1>5, <1>6, <2>1, <3>1 DEF Replies
  <2>3. shown' = {} \/ \E at \in DOMAIN held' : shown' = Chunks!Whole(at)'
    BY <1>1, <1>6 DEF ChunksInv, Chunks!Whole
  <2> QED BY <1>1, <1>6, <2>1, <2>2, <2>3 DEF ChunksInv, Chunks!Misplaced
<1>7. CASE ~ Chunks!Matches(c)
  <2>1. UNCHANGED <<received, waiting, shown>>
    BY <1>7 DEF Chunks!Receive
  <2>2. Chunks!TypeOK'
    BY <1>1, <2>1 DEF ChunksInv, Chunks!TypeOK
  <2> QED BY <1>1, <1>6, <2>1, <2>2 DEF ChunksInv
<1>8. CASE Chunks!Matches(c) /\ Chunks!Invalid(c)
  <2>1. received' = {} /\ waiting' = FALSE /\ shown' = shown
    BY <1>8 DEF Chunks!Receive, Chunks!Reject
  <2>2. Chunks!TypeOK'
    BY <1>1, <2>1 DEF ChunksInv, Chunks!TypeOK
  <2> QED BY <1>1, <1>6, <2>1, <2>2
<1>9. ASSUME Chunks!Matches(c), ~ Chunks!Invalid(c)
      PROVE  \/ /\ Cardinality(collected) < c.count
                /\ received' = collected /\ waiting' = waiting /\ shown' = shown
             \/ /\ Cardinality(collected) = c.count
                /\ received' = {} /\ waiting' = FALSE /\ shown' = Chunks!Channels(collected)
  BY <1>9, OneCardinality DEF Chunks!Receive
<1>10. CASE Chunks!Matches(c) /\ ~ Chunks!Invalid(c)
  <2>1. waiting = TRUE /\ c.in_reply_to = request
    BY <1>10 DEF Chunks!Matches, ChunksInv, Chunks!TypeOK
  <2>2. \A m, n \in collected :
          /\ m.in_reply_to = request /\ m.at = n.at /\ m.at >= requested
          /\ m.index = n.index => m = n
          /\ m.count = c.count /\ m.index < Len(Chunk)
    <3>1. \A m \in received : m.in_reply_to = request
      BY DEF ChunksInv, Chunks!TypeOK
    <3>2. \A m \in collected : m \in Replies /\ m.in_reply_to = request
      BY <1>2, <1>3, <2>1, <3>1
    <3>3. \A m, n \in collected : m.at = n.at /\ m.at >= requested
      BY <3>2 DEF ChunksInv
    <3>4. \A m \in received : m.index # c.index /\ m.count = c.count
      BY <1>10 DEF Chunks!Invalid
    <3>5. \A m, n \in received : m.index = n.index => m = n
      BY DEF ChunksInv, Chunks!TypeOK
    <3>6. \A m \in collected : m.index < Len(Chunk)
      BY <1>2, <1>10 DEF ChunksInv, Chunks!Invalid
    <3> QED BY <3>2, <3>3, <3>4, <3>5, <3>6
  <2>3. CASE Cardinality(collected) < c.count
    <3>1. received' = collected /\ waiting' = waiting /\ shown' = shown
      <4>1. Cardinality(collected) # c.count
        BY <1>4, <1>5, <2>3
      <4> QED BY <1>10, <1>9, <4>1
    <3>2. \A m, n \in received' :
            /\ m.in_reply_to = request' /\ m.at = n.at /\ m.at >= requested'
            /\ m.index = n.index => m = n
            /\ Chunks!Cardinality(received') < m.count
      BY <1>1, <2>2, <2>3, <3>1, OneCardinality
    <3>3. Chunks!TypeOK'
      BY <1>1, <2>1, <3>1, <3>2 DEF ChunksInv, Chunks!TypeOK
    <3> QED BY <1>1, <1>6, <2>2, <3>1, <3>3
  <2>4. CASE ~ (Cardinality(collected) < c.count)
    <3>1. /\ Cardinality(collected) = c.count /\ received' = {} /\ waiting' = FALSE
          /\ shown' = Chunks!Channels(collected)
      BY <1>4, <1>5, <1>9, <1>10, <2>4
    <3>2. Chunks!TypeOK'
      BY <1>1, <3>1 DEF ChunksInv, Chunks!TypeOK
    <3>3. c.at \in DOMAIN held /\ c.at >= requested /\ c.count >= Len(Chunk)
      BY <1>2, <2>2 DEF ChunksInv
    <3>4. Chunks!Channels(collected) = Chunks!Whole(c.at)
      <4>1. collected \in SUBSET Reply
        BY <1>2 DEF ChunksInv
      <4>2. \A m \in collected : m.at = c.at /\ m.count >= Len(Chunk) /\ m.index < Len(Chunk)
        BY <2>2, <3>3
      <4> QED BY <2>2, <3>1, <4>1, <4>2, CompleteIsWhole
    <3> QED BY <1>1, <1>6, <3>1, <3>2, <3>3, <3>4
  <2> QED BY <2>3, <2>4
<1> QED
  BY <1>7, <1>8, <1>10

-----------------------------------------------------------------------------
\* A step keeps the invariant; it publishes views, or applies one of those that
\* were held since the request.
LEMMA ChunksStep ==
  ASSUME ChunksInv, [Chunks!Next]_chunks
  PROVE  /\ ChunksInv'
         /\ \A at \in DOMAIN held : at \in DOMAIN held' /\ Chunks!Whole(at)' = Chunks!Whole(at)
         /\ \/ shown' = shown
            \/ /\ held' = held
               /\ \E at \in DOMAIN held : at >= requested /\ shown' = Chunks!Whole(at)
<1>1. CASE UNCHANGED chunks
  BY <1>1 DEF chunks, ChunksInv, Chunks!TypeOK, Replies, Chunks!Whole, Chunks!Misplaced
<1>2. CASE \E c \in Chunks!Channel : Chunks!Change(c)
  BY <1>2, ChangeKeepsChunks DEF Chunks!Change
<1>3. ASSUME held' = held
      PROVE  \A at \in DOMAIN held : at \in DOMAIN held' /\ Chunks!Whole(at)' = Chunks!Whole(at)
  BY <1>3 DEF Chunks!Whole
<1>4. CASE Chunks!Ask
  BY <1>3, <1>4, AskKeepsChunks DEF Chunks!Ask
<1>5. CASE Chunks!Capture
  BY <1>3, <1>5, CaptureKeepsChunks DEF Chunks!Capture
<1>6. CASE \E m \in link \ Chunks!Asked : Chunks!Resend(m)
  BY <1>3, <1>6, ResendKeepsChunks DEF Chunks!Resend
<1>7. CASE \E m \in link \ Chunks!Asked : Chunks!Receive(m)
  BY <1>3, <1>7, ReceiveKeepsChunks
<1>8. CASE Chunks!BreakLink
  BY <1>3, <1>8, BreakKeepsChunks DEF Chunks!BreakLink
<1> QED
  BY <1>1, <1>2, <1>4, <1>5, <1>6, <1>7, <1>8 DEF Chunks!Next

\* Publishing and applying are the two steps of the promise.
LEMMA ChunksPromised ==
  ASSUME ChunksInv, ChunksInv',
         \A at \in DOMAIN held : at \in DOMAIN held' /\ Chunks!Whole(at)' = Chunks!Whole(at),
         \/ shown' = shown
         \/ held' = held /\ \E at \in DOMAIN held : shown' = Chunks!Whole(at)
  PROVE  [Chunks!Promise!Next]_<<{Chunks!Whole(at) : at \in DOMAIN held},
                                 IF shown = {} THEN {} ELSE {shown}>>
<1> DEFINE published == {Chunks!Whole(at) : at \in DOMAIN held}
           applied == IF shown = {} THEN {} ELSE {shown}
<1>1. published \subseteq published'
  OBVIOUS
<1>2. CASE shown' = shown
  BY <1>1, <1>2 DEF Chunks!Promise!Next, Chunks!Promise!Publish
<1>3. CASE shown' # shown
  <2>1. PICK at \in DOMAIN held : shown' = Chunks!Whole(at)
    BY <1>3
  <2>2. held' = held /\ published' = published
    BY <1>3 DEF Chunks!Whole
  <2>3. shown' # {}
    <3> SUFFICES ASSUME shown' = {} PROVE shown = {}
      BY <1>3
    <3>1. ASSUME NEW c \in Chunks!Channel PROVE FALSE
      <4>1. <<c, held[at][c]>> \in Chunks!Whole(at)
        BY DEF Chunks!Whole
      <4> QED BY <2>1, <4>1
    <3> QED BY <3>1 DEF ChunksInv, Chunks!Whole
  <2>4. applied' = {Chunks!Whole(at)} /\ Chunks!Whole(at) \in published
    BY <2>1, <2>3
  <2> QED BY <2>2, <2>4 DEF Chunks!Promise!Next, Chunks!Promise!Apply
<1> QED BY <1>2, <1>3

\* The channels: what is shown is a whole view which the Relay held after it was
\* asked for, whatever chunks are repeated, inconsistent or lost with the link.
THEOREM ChunksStayWhole == Spec => []ChunksInv /\ Chunks!PromiseSpec /\ Chunks!FreshView
<1>1. Init => ChunksInv
  BY ChunksInit DEF Init
<1>2. [Next]_vars => [Chunks!Next]_chunks
  BY DEF Next, vars, OfChunks, OfFragments, OfPages, OfPolls
<1>3. ChunksInv /\ [Next]_vars => ChunksInv'
  BY <1>2, ChunksStep
<1>4. Init => Chunks!Promise!Init
  BY DEF Init, Chunks!Init, Chunks!Promise!Init
<1>5. ChunksInv /\ [Next]_vars
        => [Chunks!Promise!Next]_<<{Chunks!Whole(at) : at \in DOMAIN held},
                                   IF shown = {} THEN {} ELSE {shown}>>
  BY <1>2, ChunksStep, ChunksPromised
<1>6. ChunksInv /\ [Next]_vars
        => [shown' # shown => \E at \in requested .. Len(held) : shown' = Chunks!Whole(at)]_(Chunks!vars)
  <2> SUFFICES ASSUME ChunksInv, [Next]_vars, shown' # shown
               PROVE  \E at \in requested .. Len(held) : shown' = Chunks!Whole(at)
    OBVIOUS
  <2>1. PICK at \in DOMAIN held : at >= requested /\ shown' = Chunks!Whole(at)
    BY <1>2, ChunksStep
  <2>2. at \in requested .. Len(held)
    BY <2>1 DEF ChunksInv, Chunks!TypeOK
  <2> QED BY <2>1, <2>2
<1> QED
  BY <1>1, <1>3, <1>4, <1>5, <1>6, PTL DEF Spec, Chunks!PromiseSpec, Chunks!Promise!Spec, Chunks!FreshView

-----------------------------------------------------------------------------
\* The counters that are polled: what was accepted last is the highest that was
\* reported in its epoch, and an epoch that comes is one nothing was reported in.
Grants == "grants_total"
Preemptions == "preemptions_total"

PollsInv ==
  /\ Polling!TypeOK
  /\ supports \in BOOLEAN /\ enabled \in BOOLEAN /\ slipped \in BOOLEAN
  /\ reported \in [Polling!Epoch -> [Polling!Counter -> Nat]]
  /\ verdict # "accept_monotonic" => slipped
  /\ verdict = "accept_monotonic" /\ previous # Polling!NoSnapshot
       => reported[previous.epoch] = previous.values
  /\ previous.epoch # epoch => reported[epoch] = Polling!Zero
  /\ ~ slipped =>
       /\ counters[Preemptions] <= counters[Grants]
       /\ previous.epoch = epoch => \A c \in Polling!Counter : previous.values[c] <= counters[c]

LEMMA PollsAssumption == Interval \in Nat \ {0} /\ Maximum \in Nat \ {0}
  BY ReceiversAssumption

LEMMA CounterFacts ==
  /\ Grants \in Polling!Counter /\ Preemptions \in Polling!Counter
  /\ Polling!Zero \in [Polling!Counter -> Nat] /\ \A c \in Polling!Counter : Polling!Zero[c] = 0
  BY DEF Grants, Preemptions, Polling!Counter, Polling!Zero

\* A preemption is a grant.
LEMMA CountsFacts ==
  ASSUME NEW decision \in DOMAIN Polling!Counts
  PROVE  Preemptions \in Polling!Counts[decision] => Grants \in Polling!Counts[decision]
  BY DEF Polling!Counts, Preemptions, Grants

\* The counters and the last snapshot are numbers.
LEMMA PollsTypes ==
  ASSUME PollsInv
  PROVE  /\ counters \in [Polling!Counter -> Nat] /\ epoch \in Polling!Epoch /\ 0 \notin Polling!Epoch
         /\ previous.values \in [Polling!Counter -> Nat]
         /\ previous = Polling!NoSnapshot <=> previous.epoch = 0
         /\ previous = Polling!NoSnapshot \/ previous.epoch \in Polling!Epoch
<1>1. counters \in [Polling!Counter -> Nat] /\ epoch \in Polling!Epoch /\ 0 \notin Polling!Epoch
  BY PollsAssumption DEF PollsInv, Polling!TypeOK, Polling!Epoch
<1>2. CASE previous = Polling!NoSnapshot
  BY <1>1, <1>2, CounterFacts DEF Polling!NoSnapshot
<1>3. CASE previous \in Polling!Snapshot
  <2>1. previous.epoch \in Polling!Epoch /\ previous.values \in [Polling!Counter -> 0 .. Maximum]
    BY <1>3 DEF Polling!Snapshot
  <2>2. previous.epoch # 0
    BY <1>1, <2>1
  <2>3. previous # Polling!NoSnapshot
    BY <2>2 DEF Polling!NoSnapshot
  <2>4. previous.values \in [Polling!Counter -> Nat]
    BY <2>1, PollsAssumption
  <2> QED BY <1>1, <2>1, <2>2, <2>3, <2>4
<1> QED BY <1>2, <1>3 DEF PollsInv, Polling!TypeOK

LEMMA PollsInit == Polling!Init => PollsInv
<1> SUFFICES ASSUME Polling!Init PROVE PollsInv
  OBVIOUS
<1>1. /\ supports \in BOOLEAN /\ enabled \in BOOLEAN
      /\ epoch = 1 /\ counters = Polling!Zero
      /\ negotiated = FALSE /\ since = Interval /\ result = "unsupported_message"
      /\ previous = Polling!NoSnapshot /\ verdict = "accept_monotonic"
      /\ reported = [e \in Polling!Epoch |-> Polling!Zero]
      /\ slipped = FALSE
  BY DEF Polling!Init
<1>2. counters \in [Polling!Counter -> 0 .. Maximum] /\ counters[Preemptions] <= counters[Grants]
  BY <1>1, PollsAssumption DEF Polling!Zero, Preemptions, Grants, Polling!Counter
<1>3. epoch \in Polling!Epoch /\ since \in 0 .. Interval
  BY <1>1, PollsAssumption DEF Polling!Epoch
<1>4. Polling!TypeOK
  BY <1>1, <1>2, <1>3 DEF Polling!TypeOK
<1>5. previous.epoch # epoch
  BY <1>1 DEF Polling!NoSnapshot
<1>6. reported \in [Polling!Epoch -> [Polling!Counter -> Nat]] /\ reported[epoch] = Polling!Zero
  BY <1>1, <1>3, CounterFacts
<1> QED
  BY <1>1, <1>2, <1>4, <1>5, <1>6, Zenon DEF PollsInv

\* Counting only adds, and grants at least as often as preemptions.
LEMMA DecideKeepsPolls ==
  ASSUME PollsInv, NEW decision \in DOMAIN Polling!Counts, Polling!Decide(decision)
  PROVE  PollsInv'
<1>1. /\ enabled = TRUE
      /\ \A c \in Polling!Counts[decision] : counters[c] < Maximum
      /\ counters' = [c \in Polling!Counter |->
           IF c \in Polling!Counts[decision] THEN counters[c] + 1 ELSE counters[c]]
      /\ UNCHANGED <<supports, enabled, epoch, slipped, negotiated, since, result, previous, verdict, reported>>
  BY DEF Polling!Decide, Polling!session, Polling!manager, PollsInv
<1>2. counters \in [Polling!Counter -> 0 .. Maximum]
  BY DEF PollsInv, Polling!TypeOK
<1>3. counters' \in [Polling!Counter -> 0 .. Maximum]
  BY <1>1, <1>2, PollsAssumption
<1>4. \A c \in Polling!Counter :
        counters'[c] = IF c \in Polling!Counts[decision] THEN counters[c] + 1 ELSE counters[c]
  BY <1>1
<1>5. Polling!TypeOK'
  BY <1>1, <1>3 DEF PollsInv, Polling!TypeOK
<1>6. ~ slipped => counters'[Preemptions] <= counters'[Grants]
  <2>1. counters[Preemptions] \in Nat /\ counters[Grants] \in Nat
    BY PollsTypes, CounterFacts
  <2> QED BY <1>4, <2>1, CounterFacts, CountsFacts DEF PollsInv
<1>7. ~ slipped /\ previous.epoch = epoch =>
        \A c \in Polling!Counter : previous.values[c] <= counters'[c]
  <2> SUFFICES ASSUME ~ slipped, previous.epoch = epoch, NEW c \in Polling!Counter
               PROVE  previous.values[c] <= counters'[c]
    OBVIOUS
  <2>1. previous.values[c] <= counters[c]
    BY DEF PollsInv
  <2>2. previous.values[c] \in Nat /\ counters[c] \in Nat
    BY PollsTypes
  <2> QED BY <1>4, <2>1, <2>2
<1> QED
  BY <1>1, <1>5, <1>6, <1>7 DEF PollsInv

\* Of three epochs one is neither the present nor the reported one.
LEMMA FreshEpoch ==
  ASSUME PollsInv, Polling!Renew
  PROVE  epoch' \in Polling!Epoch /\ epoch' # epoch /\ epoch' # previous.epoch
<1>1. \E e \in Polling!Epoch : e \notin {epoch, previous.epoch}
  <2>1. {1, 2, 3} \subseteq Polling!Epoch
    BY DEF Polling!Epoch
  <2> QED BY <2>1
<1> QED
  BY <1>1 DEF Polling!Renew

LEMMA RenewKeepsPolls ==
  ASSUME PollsInv, Polling!Rollover \/ Polling!Restart
  PROVE  PollsInv' /\ UNCHANGED <<previous, verdict>>
<1>1. /\ Polling!Renew /\ UNCHANGED <<supports, enabled, slipped, since, result, previous, verdict>>
      /\ negotiated' => negotiated
  BY DEF Polling!Rollover, Polling!Restart, Polling!session
<1>2. /\ epoch' \in Polling!Epoch /\ epoch' # previous'.epoch
  BY <1>1, FreshEpoch
<1>3. /\ counters' = Polling!Zero
      /\ reported' = [e \in Polling!Epoch |-> IF e = previous.epoch THEN reported[e] ELSE Polling!Zero]
  BY <1>1 DEF Polling!Renew
<1>4. counters' \in [Polling!Counter -> 0 .. Maximum] /\ counters'[Preemptions] <= counters'[Grants]
  BY <1>3, PollsAssumption DEF Polling!Zero, Preemptions, Grants, Polling!Counter
<1>5. /\ reported' \in [Polling!Epoch -> [Polling!Counter -> Nat]]
      /\ reported'[epoch'] = Polling!Zero
      /\ previous # Polling!NoSnapshot => reported'[previous.epoch] = reported[previous.epoch]
  BY <1>1, <1>2, <1>3, CounterFacts, PollsTypes DEF PollsInv
<1>6. Polling!TypeOK'
  BY <1>1, <1>2, <1>3, <1>4 DEF PollsInv, Polling!TypeOK
<1> QED
  BY <1>1, <1>2, <1>4, <1>5, <1>6 DEF PollsInv

LEMMA SlipKeepsPolls ==
  ASSUME PollsInv, NEW c \in Polling!Counter, Polling!Slip(c)
  PROVE  PollsInv' /\ UNCHANGED <<previous, verdict>>
<1>1. /\ counters[c] > 0 /\ counters' = [counters EXCEPT ![c] = 0] /\ slipped' = TRUE
      /\ UNCHANGED <<supports, enabled, epoch, negotiated, since, result, previous, verdict, reported>>
  BY DEF Polling!Slip, Polling!session, Polling!manager
<1>2. counters' \in [Polling!Counter -> 0 .. Maximum]
  <2>1. counters \in [Polling!Counter -> 0 .. Maximum]
    BY DEF PollsInv, Polling!TypeOK
  <2> QED BY <1>1, <2>1, PollsAssumption
<1>3. enabled
  <2>1. counters # Polling!Zero
    BY <1>1, CounterFacts
  <2> QED BY <2>1 DEF PollsInv, Polling!TypeOK
<1>4. Polling!TypeOK'
  BY <1>1, <1>2, <1>3 DEF PollsInv, Polling!TypeOK
<1> QED
  BY <1>1, <1>4 DEF PollsInv

LEMMA TalkKeepsPolls ==
  ASSUME PollsInv, Polling!Tick \/ \E wants \in BOOLEAN : Polling!Negotiate(wants)
  PROVE  PollsInv' /\ UNCHANGED <<previous, verdict>>
<1>1. UNCHANGED <<supports, enabled, epoch, counters, slipped, result, previous, verdict, reported>>
  BY DEF Polling!Tick, Polling!Negotiate, Polling!relay, Polling!manager
<1>3. since' \in 0 .. Interval
  BY PollsAssumption DEF PollsInv, Polling!TypeOK, Polling!Tick, Polling!Negotiate
<1>4. negotiated' => supports
  BY Zenon DEF PollsInv, Polling!TypeOK, Polling!Tick, Polling!Negotiate, Polling!Accepted
<1>2. Polling!TypeOK'
  BY <1>1, <1>3, <1>4, Zenon DEF PollsInv, Polling!TypeOK
<1> QED
  BY <1>1, <1>2 DEF PollsInv

\* A Relay that did not slip is judged well, and what is accepted is the highest
\* that was reported in its epoch.
LEMMA ObserveKeepsPolls ==
  ASSUME PollsInv, Polling!Observe([epoch |-> epoch, values |-> counters]), supports = TRUE,
         UNCHANGED <<supports, enabled, epoch, counters, slipped, negotiated>>,
         since' \in 0 .. Interval, result' = "relay_diagnostics_snapshot"
  PROVE  /\ PollsInv'
         /\ verdict' = "accept_monotonic" =>
              \A c \in Polling!Counter : previous'.values[c] >= reported[previous'.epoch][c]
<1> DEFINE snapshot1 == [epoch |-> epoch, values |-> counters]
<1>1. /\ previous' = [epoch |-> epoch, values |-> counters]
      /\ verdict' = IF Polling!Judgement(snapshot1) = "accept_monotonic" THEN verdict
                    ELSE Polling!Judgement(snapshot1)
      /\ reported' = [reported EXCEPT ![epoch] =
           [c \in Polling!Counter |-> IF counters[c] > reported[epoch][c] THEN counters[c] ELSE reported[epoch][c]]]
  BY DEF Polling!Observe
<1>2. previous'.epoch = epoch /\ previous'.values = counters /\ previous' \in Polling!Snapshot
  BY <1>1 DEF PollsInv, Polling!TypeOK, Polling!Snapshot
<1>3. /\ counters \in [Polling!Counter -> Nat] /\ epoch \in Polling!Epoch
      /\ previous.values \in [Polling!Counter -> Nat]
  BY PollsTypes
<1>4. /\ reported' \in [Polling!Epoch -> [Polling!Counter -> Nat]]
      /\ reported'[epoch] = [c \in Polling!Counter |->
           IF counters[c] > reported[epoch][c] THEN counters[c] ELSE reported[epoch][c]]
  <2>1. reported \in [Polling!Epoch -> [Polling!Counter -> Nat]]
    BY DEF PollsInv
  <2>2. [c \in Polling!Counter |-> IF counters[c] > reported[epoch][c] THEN counters[c] ELSE reported[epoch][c]]
          \in [Polling!Counter -> Nat]
    BY <1>3, <2>1
  <2> QED BY <1>1, <1>3, <2>1, <2>2
<1>5. Polling!Judgement(snapshot1) =
        IF ~ enabled /\ counters # Polling!Zero THEN "reject_disabled_feature_counter"
        ELSE IF counters[Preemptions] > counters[Grants] THEN "reject_preemptions_exceed_grants"
        ELSE IF previous.epoch = epoch /\ \E c \in Polling!Counter : counters[c] < previous.values[c]
        THEN "reject_counter_regression"
        ELSE "accept_monotonic"
  BY DEF Polling!Judgement, Polling!Regresses, Preemptions, Grants
<1> HIDE DEF snapshot1
<1>6. verdict' # "accept_monotonic" => slipped
  <2> SUFFICES ASSUME ~ slipped PROVE Polling!Judgement(snapshot1) = "accept_monotonic"
    BY <1>1 DEF PollsInv
  <2>1. enabled \/ counters = Polling!Zero
    BY DEF PollsInv, Polling!TypeOK
  <2>2. ~ (counters[Preemptions] > counters[Grants])
    <3>1. counters[Preemptions] <= counters[Grants]
      BY DEF PollsInv
    <3> QED BY <1>3, <3>1, CounterFacts
  <2>3. previous.epoch = epoch => \A c \in Polling!Counter : ~ (counters[c] < previous.values[c])
    <3> SUFFICES ASSUME previous.epoch = epoch, NEW c \in Polling!Counter
                 PROVE  ~ (counters[c] < previous.values[c])
      OBVIOUS
    <3>1. previous.values[c] <= counters[c]
      BY DEF PollsInv
    <3> QED BY <1>3, <3>1
  <2> QED BY <1>5, <2>1, <2>2, <2>3
<1>7. verdict' = "accept_monotonic" => \A c \in Polling!Counter : counters[c] >= reported[epoch][c]
  <2> SUFFICES ASSUME verdict' = "accept_monotonic", NEW c \in Polling!Counter
               PROVE  counters[c] >= reported[epoch][c]
    OBVIOUS
  <2>1. verdict = "accept_monotonic" /\ Polling!Judgement(snapshot1) = "accept_monotonic"
    BY <1>1
  <2>2. CASE previous.epoch = epoch
    <3>1. ~ (counters[c] < previous.values[c])
      BY <1>5, <2>1, <2>2
    <3>2. reported[epoch] = previous.values
      BY <2>1, <2>2, PollsTypes DEF PollsInv
    <3> QED BY <1>3, <3>1, <3>2
  <2>3. CASE previous.epoch # epoch
    BY <1>3, <2>3, CounterFacts DEF PollsInv
  <2> QED BY <2>2, <2>3
<1>8. verdict' = "accept_monotonic" => reported'[epoch] = counters
  <2> SUFFICES ASSUME verdict' = "accept_monotonic" PROVE reported'[epoch] = counters
    OBVIOUS
  <2>1. \A c \in Polling!Counter : counters[c] \in Nat /\ reported[epoch][c] \in Nat
    BY <1>3 DEF PollsInv
  <2>2. \A c \in Polling!Counter :
          (IF counters[c] > reported[epoch][c] THEN counters[c] ELSE reported[epoch][c]) = counters[c]
    BY <1>7, <2>1
  <2> QED BY <1>3, <1>4, <2>2
<1>9. Polling!TypeOK'
  BY <1>2 DEF PollsInv, Polling!TypeOK
<1>10. ~ slipped' =>
         /\ counters'[Preemptions] <= counters'[Grants]
         /\ \A c \in Polling!Counter : previous'.values[c] <= counters'[c]
  BY <1>2, <1>3 DEF PollsInv
<1> QED
  BY <1>2, <1>4, <1>6, <1>7, <1>8, <1>9, <1>10 DEF PollsInv

LEMMA PollKeepsPolls ==
  ASSUME PollsInv, NEW arrives \in BOOLEAN, Polling!Poll(arrives)
  PROVE  /\ PollsInv'
         /\ verdict' = "accept_monotonic" /\ previous' # previous =>
              \A c \in Polling!Counter : previous'.values[c] >= reported[previous'.epoch][c]
<1>1. UNCHANGED <<supports, enabled, epoch, counters, slipped, negotiated>>
  BY DEF Polling!Poll, Polling!relay
<1>2. /\ since' \in 0 .. Interval
      /\ result' \in {"unsupported_message", "overloaded", "relay_diagnostics_snapshot"}
  <2>1. since' \in {since, 0} /\ since \in 0 .. Interval
    BY Zenon DEF Polling!Poll, Polling!AfterRejection, PollsInv, Polling!TypeOK
  <2>2. result' \in {"unsupported_message", "overloaded", "relay_diagnostics_snapshot"}
    BY Zenon DEF Polling!Poll
  <2> QED BY <2>1, <2>2, PollsAssumption
<1>3. CASE UNCHANGED <<previous, verdict, reported>>
  <2>1. Polling!TypeOK'
    BY <1>1, <1>2, <1>3, Zenon DEF PollsInv, Polling!TypeOK
  <2> QED BY <1>1, <1>3, <2>1 DEF PollsInv
<1>4. CASE negotiated /\ since = Interval /\ arrives
  <2>1. Polling!Observe([epoch |-> epoch, values |-> counters]) /\ result' = "relay_diagnostics_snapshot"
    BY <1>4, PollsAssumption DEF Polling!Poll
  <2>2. supports = TRUE
    BY <1>4, Zenon DEF PollsInv, Polling!TypeOK
  <2> QED BY <1>1, <1>2, <2>1, <2>2, ObserveKeepsPolls
<1> QED
  BY <1>3, <1>4 DEF Polling!Poll, Polling!manager

-----------------------------------------------------------------------------
LEMMA PollsStep ==
  ASSUME PollsInv, [Polling!Next]_polls
  PROVE  /\ PollsInv'
         /\ verdict' = "accept_monotonic" /\ previous' # previous =>
              \A c \in Polling!Counter : previous'.values[c] >= reported[previous'.epoch][c]
<1>1. CASE UNCHANGED polls
  BY <1>1 DEF polls, PollsInv, Polling!TypeOK
<1>2. CASE \E decision \in DOMAIN Polling!Counts : Polling!Decide(decision)
  BY <1>2, DecideKeepsPolls DEF Polling!Decide, Polling!manager
<1>3. CASE Polling!Rollover \/ Polling!Restart
  BY <1>3, RenewKeepsPolls
<1>4. CASE \E c \in Polling!Counter : Polling!Slip(c)
  BY <1>4, SlipKeepsPolls
<1>5. CASE Polling!Tick \/ \E wants \in BOOLEAN : Polling!Negotiate(wants)
  BY <1>5, TalkKeepsPolls
<1>6. CASE \E arrives \in BOOLEAN : Polling!Poll(arrives)
  BY <1>6, PollKeepsPolls
<1> QED
  BY <1>1, <1>2, <1>3, <1>4, <1>5, <1>6 DEF Polling!Next

\* Diagnostics: a Relay that never lost a counter is never accused, and accepted
\* counters do not go back in their epoch although only neighbours are compared.
THEOREM CountersAreJudged == Spec => []PollsInv /\ CountersJudged
<1>1. Init => PollsInv
  BY PollsInit DEF Init
<1>2. [Next]_vars => [Polling!Next]_polls
  BY DEF Next, vars, OfChunks, OfFragments, OfPages, OfPolls
<1>3. PollsInv /\ [Next]_vars => PollsInv'
  BY <1>2, PollsStep
<1>4. PollsInv' => Polling!NoFalseAlarm'
  BY DEF PollsInv, Polling!NoFalseAlarm
<1>5. PollsInv /\ [Next]_vars
        => [\A c \in Polling!Counter : verdict' = "accept_monotonic" /\ previous' # previous
              => previous'.values[c] >= reported[previous'.epoch][c]]_(Polling!vars)
  BY <1>2, PollsStep
<1> QED
  BY <1>1, <1>3, <1>4, <1>5, PTL DEF Spec, CountersJudged, Polling!MonotoneInDomain

-----------------------------------------------------------------------------
\* What is shown is one state of the sender, whole, never a part and never a
\* mixture, for fragments, pages and chunks alike.
THEOREM ReceiversPromise == Spec => PromiseSpec
<1> QED
  BY FragmentsStayWhole, PagesStayWhole, ChunksStayWhole, PTL DEF PromiseSpec

\* Nothing old passes for new with any of the receivers.
THEOREM NothingOldPasses == Spec => NothingOld
<1> QED
  BY FragmentsStayWhole, PagesStayWhole, ChunksStayWhole, PTL DEF NothingOld

\* The variables keep their types, and what is collected stays incomplete,
\* without duplicates and of one state.
THEOREM TypeCorrect == Spec => []TypeOK
<1>1. FragmentsInv /\ PagesInv /\ ChunksInv /\ PollsInv => TypeOK
  BY DEF TypeOK, FragmentsInv, PagesInv, ChunksInv, PollsInv
<1> QED
  BY <1>1, FragmentsStayWhole, PagesStayWhole, ChunksStayWhole, CountersAreJudged, PTL
=============================================================================
