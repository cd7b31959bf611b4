------------------------- MODULE RelaySessionProofs -------------------------
(***************************************************************************)
(* The floor of RelaySession is safe, and its deadlines mean what they     *)
(* say, for every number of senders and slots, every admission, every set  *)
(* of server configurations, every clock and however late the sweeps are.  *)
(*                                                                         *)
(* The argument: every step is one of a few kinds of change of the floor,  *)
(* and seen from one membership it leaves it alone, begins, refreshes or   *)
(* ends it.  A membership is refreshed only before both of its deadlines,  *)
(* and to no more than now plus its lease.                                 *)
(***************************************************************************)
EXTENDS RelaySession, FiniteSetTheorems, WellFoundedInduction, TLAPS

-----------------------------------------------------------------------------
(* Orders on admissions.                                                   *)

\* A non-empty set of naturals has a least element.
LEMMA NatMin ==
  ASSUME NEW T \in SUBSET Nat, T # {}
  PROVE  \E m \in T : \A n \in T : m <= n
<1>1. PICK m \in T : \A n \in T : ~(<<n, m>> \in OpToRel(<, Nat))
  BY NatLessThanWellFounded, WFMin
<1>2. \A n \in T : ~(n < m)
  BY <1>1 DEF OpToRel
<1> QED BY <1>2

LEMMA AdmissionFacts ==
  \A s \in Sender :
    /\ s \in Nat
    /\ Admission[s].priority \in Nat /\ Admission[s].priority <= 255
    /\ Admission[s].exp \in Nat /\ Admission[s].grace \in Nat
BY AdmissionAssumption, SenderAssumption DEF AdmissionType

\* Sorting active talkers by priority and sender_id picks one of them that is
\* below all others (_validate_floor_interrupt, min over active talkers).
LEMMA VictimIsLeast ==
  ASSUME NEW T \in SUBSET Sender, T # {}
  PROVE  Victim(T) \in T /\ \A w \in T : Below(Victim(T), w)
<1> DEFINE P == {Admission[v].priority : v \in T}
<1>0. P \in SUBSET Nat /\ P # {}
  BY AdmissionFacts
<1>1. PICK p \in P : \A q \in P : p <= q
  <2> HIDE DEF P
  <2> QED BY <1>0, NatMin
<1> DEFINE L == {v \in T : Admission[v].priority = p}
<1>2. PICK m \in L : \A n \in L : m <= n
  <2>1. L \in SUBSET Nat /\ L # {}
    BY <1>1, AdmissionFacts
  <2> HIDE DEF L
  <2> QED BY <2>1, NatMin
<1>3. \A w \in T : Below(m, w)
  <2> SUFFICES ASSUME NEW w \in T PROVE Below(m, w)
    OBVIOUS
  <2>1. p <= Admission[w].priority
    BY <1>1
  <2>2. CASE Admission[w].priority = p
    BY <1>2, <2>2 DEF Below
  <2>3. CASE Admission[w].priority # p
    BY <1>2, <2>1, <2>3, AdmissionFacts DEF Below
  <2> QED BY <2>2, <2>3
<1> QED BY <1>2, <1>3 DEF Victim

-----------------------------------------------------------------------------
(* Type correctness.                                                       *)

LEMMA ReasonType ==
  ASSUME NEW n, NEW a PROVE ExpiryReason(n, a) \in ReleaseReason
BY DEF ExpiryReason, ReleaseReason

LEMMA RefreshedType ==
  ASSUME TypeOK, NEW s \in Sender, Live(s)
  PROVE  /\ Refreshed(s) \in [Sender -> MembershipType]
         /\ \A r \in Sender : Refreshed(s)[r].present = member[r].present
<1> DEFINE m == [member[s] EXCEPT !.normal = now + member[s].lease]
<1>1. member[s] \in [present : {TRUE}, lease : 15..300, keepalive : Nat, normal : Nat]
  <2>1. member[s] \in MembershipType /\ member[s].present
    BY DEF TypeOK, Live
  <2>2. member[s] # Absent
    BY <2>1 DEF Absent
  <2> QED BY <2>1, <2>2 DEF MembershipType
<1>2. now + member[s].lease \in Nat
  BY <1>1 DEF TypeOK
<1>3. m \in MembershipType /\ m.present = member[s].present
  BY <1>1, <1>2 DEF MembershipType
<1>4. Refreshed(s) = [member EXCEPT ![s] = m]
  BY DEF Refreshed
<1> QED BY <1>3, <1>4 DEF TypeOK

LEMMA GrantType ==
  ASSUME TypeOK, NEW t \in [Sender -> TalkType], NEW s \in Sender
  PROVE  /\ NewGrant(t, s) \in [Sender -> TalkType]
         /\ NewGrant(t, s)[s].present
         /\ \A r \in Sender \ {s} : NewGrant(t, s)[r] = t[r]
<1>1. policy.maximum \in Nat /\ now \in Nat
  BY PoliciesAssumption DEF TypeOK, PolicyType
<1>2. TalkDeadline(now, policy.maximum) \in Nat \cup {NoDeadline}
  BY <1>1 DEF TalkDeadline
<1> QED BY <1>2 DEF NewGrant, TalkType

LEMMA ReleasedCount ==
  ASSUME TypeOK, NEW s \in Sender, NEW reason, NEW r \in Sender
  PROVE  Released(s, reason)[r].count = releases[r].count + (IF r = s THEN 1 ELSE 0)
<1>1. releases \in [Sender -> [count : Nat, last : ReleaseReason]]
  BY DEF TypeOK
<1>2. CASE r = s
  BY <1>1, <1>2 DEF Released
<1>3. CASE r # s
  BY <1>1, <1>3 DEF Released
<1> QED BY <1>2, <1>3

LEMMA ReleasedType ==
  ASSUME TypeOK, NEW s \in Sender, NEW reason \in ReleaseReason
  PROVE  /\ Released(s, reason) \in [Sender -> [count : Nat, last : ReleaseReason]]
         /\ Released(s, reason)[s].count = releases[s].count + 1
         /\ \A r \in Sender \ {s} : Released(s, reason)[r] = releases[r]
BY DEF TypeOK, Released

LEMMA TalkersFinite ==
  ASSUME TypeOK
  PROVE  /\ Talkers \subseteq Sender /\ IsFiniteSet(Talkers)
         /\ Cardinality(Talkers) \in Nat
BY SenderAssumption, FS_Subset, FS_CardinalityType DEF Talkers

\* What a PTT_REQUEST can do: nothing to the floor, take a free slot, or take
\* the slot of a lower talker on a full floor.
LEMMA RequestCases ==
  ASSUME TypeOK, NEW s \in Sender, NEW valid, NEW authenticated,
         PttRequest(s, valid, authenticated)
  PROVE  \/ UNCHANGED <<talk, grants, releases, preempted>>
         \/ /\ ~talk[s].present /\ "talk" \in Admission[s].perm
            /\ Cardinality(Talkers) < MaxTalkers
            /\ talk' = NewGrant(talk, s)
            /\ grants' = [grants EXCEPT ![s] = @ + 1]
            /\ UNCHANGED <<releases, preempted>>
         \/ \E v \in Talkers :
              /\ ~talk[s].present /\ "talk" \in Admission[s].perm
              /\ Cardinality(Talkers) >= MaxTalkers
              /\ Admission[s].priority > Admission[v].priority
              /\ \A w \in Talkers : Below(v, w)
              /\ talk' = NewGrant([talk EXCEPT ![v] = Absent], s)
              /\ grants' = [grants EXCEPT ![s] = @ + 1]
              /\ releases' = Released(v, "PREEMPTED")
              /\ preempted' = preempted \cup {<<s, v>>}
<1>1. CASE talk[s].present \/ ~InterruptPermitted(Admission[s]) \/ grants[s] >= MaxGrants
  BY <1>1 DEF PttRequest
<1>2. CASE ~(talk[s].present \/ ~InterruptPermitted(Admission[s]) \/ grants[s] >= MaxGrants)
  <2>1. ~talk[s].present /\ "talk" \in Admission[s].perm
    BY <1>2 DEF InterruptPermitted
  <2>2. CASE Cardinality(Talkers) < MaxTalkers
    BY <1>2, <2>1, <2>2 DEF PttRequest
  <2>3. CASE ~(Cardinality(Talkers) < MaxTalkers)
    <3>1. Cardinality(Talkers) >= MaxTalkers /\ Talkers # {}
      BY <2>3, TalkersFinite, BoundsAssumption, FS_EmptySet
    <3>2. Victim(Talkers) \in Talkers /\ \A w \in Talkers : Below(Victim(Talkers), w)
      BY <3>1, TalkersFinite, VictimIsLeast
    <3>3. MayPreempt(s, Victim(Talkers))
            => Admission[s].priority > Admission[Victim(Talkers)].priority
      BY DEF MayPreempt
    <3>4. CASE ~MayPreempt(s, Victim(Talkers))
      BY <1>2, <2>3, <3>4 DEF PttRequest
    <3>5. CASE MayPreempt(s, Victim(Talkers))
      <4>1. /\ talk' = NewGrant([talk EXCEPT ![Victim(Talkers)] = Absent], s)
            /\ grants' = [grants EXCEPT ![s] = @ + 1]
            /\ releases' = Released(Victim(Talkers), "PREEMPTED")
            /\ preempted' = preempted \cup {<<s, Victim(Talkers)>>}
        BY <1>2, <2>3, <3>5 DEF PttRequest
      <4> HIDE DEF Victim
      <4> QED BY <2>1, <3>1, <3>2, <3>3, <3>5, <4>1
    <3> QED BY <3>4, <3>5
  <2> QED BY <2>2, <2>3
<1> QED BY <1>1, <1>2

LEMMA StepTypeOK == TypeOK /\ [Next]_vars => TypeOK'
<1> SUFFICES ASSUME TypeOK, [Next]_vars PROVE TypeOK'
  OBVIOUS
<1>a. Absent \in TalkType /\ Absent \in MembershipType
  BY DEF TalkType, MembershipType
<1>b. {"CLIENT_PTT_OFF", "SERVER_TALK_TIMEOUT", "CLIENT_LEAVE", "PREEMPTED"}
        \subseteq ReleaseReason
  BY DEF ReleaseReason
<1>1. ASSUME NEW s \in Sender, Join(s) PROVE TypeOK'
  <2>1. /\ policy.lease \in 15..300 /\ policy.keepalive \in Nat
        /\ now + policy.lease \in Nat
    BY PoliciesAssumption DEF TypeOK, PolicyType, ValidMembershipPair
  <2>2. member' \in [Sender -> MembershipType]
    BY <1>1, <2>1 DEF Join, TypeOK, MembershipType
  <2> QED BY <1>1, <2>2 DEF Join, TypeOK
<1>2. ASSUME NEW s \in Sender, NEW type, NEW valid, NEW authenticated,
             Refresh(s, type, valid, authenticated)
      PROVE  TypeOK'
  BY <1>2, RefreshedType DEF Refresh, TypeOK
<1>3. ASSUME NEW s \in Sender, NEW valid, NEW authenticated, PttOn(s, valid, authenticated)
      PROVE  TypeOK'
  <2>1. member' \in [Sender -> MembershipType]
    BY <1>3, RefreshedType DEF PttOn
  <2>2. talk' \in [Sender -> TalkType]
    <3>1. talk \in [Sender -> TalkType]
      BY DEF TypeOK
    <3>2. talk' = talk \/ talk' = NewGrant(talk, s)
      BY <1>3 DEF PttOn
    <3> QED BY <3>1, <3>2, GrantType
  <2>3. grants' \in [Sender -> Nat]
    BY <1>3 DEF PttOn, TypeOK
  <2> QED BY <1>3, <2>1, <2>2, <2>3 DEF PttOn, TypeOK
<1>4. ASSUME NEW s \in Sender, NEW valid, NEW authenticated, PttOff(s, valid, authenticated)
      PROVE  TypeOK'
  <2>1. member' \in [Sender -> MembershipType] /\ talk' \in [Sender -> TalkType]
    BY <1>4, <1>a, RefreshedType DEF PttOff, TypeOK
  <2>2. releases' \in [Sender -> [count : Nat, last : ReleaseReason]]
    <3>1. releases' = releases \/ releases' = Released(s, "CLIENT_PTT_OFF")
      BY <1>4 DEF PttOff
    <3>2. releases \in [Sender -> [count : Nat, last : ReleaseReason]]
      BY DEF TypeOK
    <3>3. Released(s, "CLIENT_PTT_OFF") \in [Sender -> [count : Nat, last : ReleaseReason]]
      BY <1>b, ReleasedType
    <3> QED BY <3>1, <3>2, <3>3, Zenon
  <2> QED BY <1>4, <2>1, <2>2 DEF PttOff, TypeOK
<1>5. ASSUME NEW s \in Sender, NEW valid, NEW authenticated,
             PttRequest(s, valid, authenticated)
      PROVE  TypeOK'
  <2>1. member' \in [Sender -> MembershipType]
    BY <1>5, RefreshedType DEF PttRequest
  <2>2. now' = now /\ policy' = policy
    BY <1>5 DEF PttRequest
  <2>3. CASE UNCHANGED <<talk, grants, releases, preempted>>
    BY <2>1, <2>2, <2>3 DEF TypeOK
  <2>4. CASE /\ talk' = NewGrant(talk, s)
             /\ grants' = [grants EXCEPT ![s] = @ + 1]
             /\ UNCHANGED <<releases, preempted>>
    <3>1. talk \in [Sender -> TalkType] /\ grants' \in [Sender -> Nat]
      BY <2>4 DEF TypeOK
    <3>2. talk' \in [Sender -> TalkType]
      BY <2>4, <3>1, GrantType
    <3> QED BY <2>1, <2>2, <2>4, <3>1, <3>2 DEF TypeOK
  <2>5. ASSUME NEW v \in Sender,
               talk' = NewGrant([talk EXCEPT ![v] = Absent], s),
               grants' = [grants EXCEPT ![s] = @ + 1],
               releases' = Released(v, "PREEMPTED"),
               preempted' = preempted \cup {<<s, v>>}
        PROVE  TypeOK'
    <3>1. [talk EXCEPT ![v] = Absent] \in [Sender -> TalkType]
      BY <1>a DEF TypeOK
    <3>2. talk' \in [Sender -> TalkType]
      BY <2>5, <3>1, GrantType
    <3>3. releases' \in [Sender -> [count : Nat, last : ReleaseReason]]
      BY <2>5, <1>b, ReleasedType
    <3>4. grants' \in [Sender -> Nat] /\ preempted' \subseteq Sender \X Sender
      BY <2>5 DEF TypeOK
    <3> QED BY <2>1, <2>2, <3>2, <3>3, <3>4 DEF TypeOK
  <2>6. Talkers \subseteq Sender
    BY DEF Talkers
  <2>7. PICK v \in Sender :
          \/ UNCHANGED <<talk, grants, releases, preempted>>
          \/ /\ talk' = NewGrant(talk, s)
             /\ grants' = [grants EXCEPT ![s] = @ + 1]
             /\ UNCHANGED <<releases, preempted>>
          \/ /\ talk' = NewGrant([talk EXCEPT ![v] = Absent], s)
             /\ grants' = [grants EXCEPT ![s] = @ + 1]
             /\ releases' = Released(v, "PREEMPTED")
             /\ preempted' = preempted \cup {<<s, v>>}
    BY <1>5, <2>6, RequestCases, Zenon
  <2> QED BY <2>3, <2>4, <2>5, <2>7
<1>6. ASSUME NEW s \in Sender, Media(s) PROVE TypeOK'
  BY <1>6, RefreshedType DEF Media, TypeOK
<1>7. ASSUME NEW s \in Sender, ExpireTalk(s) PROVE TypeOK'
  BY <1>7, <1>a, <1>b, ReleasedType DEF ExpireTalk, TypeOK
<1>8. ASSUME NEW s \in Sender, NEW reason \in ReleaseReason, EndMembership(s, reason)
      PROVE  TypeOK'
  BY <1>8, <1>a, ReleasedType DEF EndMembership, TypeOK
<1>9. ASSUME NEW s \in Sender, ExpireMembership(s) PROVE TypeOK'
  BY <1>8, <1>9, ReasonType DEF ExpireMembership
<1>10. ASSUME NEW s \in Sender, Leave(s) PROVE TypeOK'
  BY <1>8, <1>10, <1>b DEF Leave
<1>11. ASSUME NEW p \in Policies, Reload(p) PROVE TypeOK'
  BY <1>11 DEF Reload, TypeOK
<1>12. CASE Tick
  BY <1>12, BoundsAssumption DEF Tick, TypeOK
<1>13. CASE UNCHANGED vars
  BY <1>13 DEF TypeOK, vars
<1> QED
  BY <1>1, <1>2, <1>3, <1>4, <1>5, <1>6, <1>7, <1>9, <1>10, <1>11, <1>12, <1>13
  DEF Next, Packet, Sweep

-----------------------------------------------------------------------------
(* The floor.  Seen from the floor a step does one of four things.         *)

\* Nothing happens to the talk grants, and no talker loses its membership.
FloorUnchanged ==
  /\ UNCHANGED <<talk, grants, releases, preempted>>
  /\ \A r \in Talkers : member'[r].present

\* s takes a free slot.
Granted(s) ==
  /\ ~talk[s].present /\ "talk" \in Admission[s].perm
  /\ Cardinality(Talkers) < MaxTalkers
  /\ talk' = NewGrant(talk, s)
  /\ grants' = [grants EXCEPT ![s] = @ + 1]
  /\ UNCHANGED <<releases, preempted>>
  /\ \A r \in Talkers \cup {s} : member'[r].present

\* s takes the slot of v, the lowest talker of a full floor.
Replaced(s, v) ==
  /\ ~talk[s].present /\ "talk" \in Admission[s].perm
  /\ Cardinality(Talkers) >= MaxTalkers
  /\ Admission[s].priority > Admission[v].priority
  /\ \A w \in Talkers : Below(v, w)
  /\ talk' = NewGrant([talk EXCEPT ![v] = Absent], s)
  /\ grants' = [grants EXCEPT ![s] = @ + 1]
  /\ releases' = Released(v, "PREEMPTED")
  /\ preempted' = preempted \cup {<<s, v>>}
  /\ \A r \in Talkers \cup {s} : member'[r].present

\* The talk of s ends with a broadcast.
Ended(s) ==
  /\ talk[s].present
  /\ talk' = [talk EXCEPT ![s] = Absent]
  /\ \E reason \in ReleaseReason : releases' = Released(s, reason)
  /\ UNCHANGED <<grants, preempted>>
  /\ \A r \in Talkers \ {s} : member'[r].present

FloorStep ==
  \/ FloorUnchanged
  \/ \E s \in Sender : Granted(s) \/ Ended(s) \/ \E v \in Talkers : Replaced(s, v)

LEMMA EndMembershipIsFloorStep ==
  ASSUME TypeOK, FloorSafe, NEW s \in Sender, NEW reason \in ReleaseReason,
         EndMembership(s, reason)
  PROVE  FloorStep
<1>1. \A r \in Talkers : member[r].present /\ r \in Sender
  BY DEF FloorSafe, Talkers
<1>2. \A r \in Talkers \ {s} : member'[r].present
  BY <1>1 DEF EndMembership, TypeOK
<1>3. CASE talk[s].present
  <2>1. Ended(s)
    BY <1>2, <1>3 DEF EndMembership, Ended
  <2> QED BY <2>1 DEF FloorStep
<1>4. CASE ~talk[s].present
  <2>1. talk[s] = Absent
    BY <1>4 DEF TypeOK, TalkType
  <2>2. talk' = talk
    BY <2>1 DEF EndMembership, TypeOK
  <2>3. s \notin Talkers
    BY <1>4 DEF Talkers
  <2>4. UNCHANGED <<grants, releases, preempted>>
    BY <1>4 DEF EndMembership
  <2>5. FloorUnchanged
    BY <1>2, <2>2, <2>3, <2>4 DEF FloorUnchanged
  <2> QED BY <2>5 DEF FloorStep
<1> QED BY <1>3, <1>4

LEMMA StepIsFloorStep ==
  ASSUME TypeOK, FloorSafe, [Next]_vars
  PROVE  FloorStep
<1>a. \A r \in Talkers : member[r].present /\ r \in Sender
  BY DEF FloorSafe, Talkers
<1>b. ASSUME NEW s \in Sender, Live(s), member' = Refreshed(s)
      PROVE  \A r \in Talkers \cup {s} : member'[r].present
  BY <1>a, <1>b, RefreshedType DEF Live
<1>1. ASSUME NEW s \in Sender, Join(s) PROVE FloorStep
  <2>1. \A r \in Talkers : member'[r].present
    BY <1>a, <1>1 DEF Join, TypeOK
  <2> QED BY <1>1, <2>1 DEF Join, FloorStep, FloorUnchanged
<1>2. ASSUME NEW s \in Sender, NEW type, NEW valid, NEW authenticated,
             Refresh(s, type, valid, authenticated)
      PROVE  FloorStep
  <2>1. \A r \in Talkers : member'[r].present
    BY <1>b, <1>2 DEF Refresh
  <2> QED BY <1>2, <2>1 DEF Refresh, FloorStep, FloorUnchanged
<1>3. ASSUME NEW s \in Sender, NEW valid, NEW authenticated, PttOn(s, valid, authenticated)
      PROVE  FloorStep
  <2>1. \A r \in Talkers \cup {s} : member'[r].present
    BY <1>b, <1>3 DEF PttOn
  <2>2. FloorUnchanged \/ Granted(s)
    BY <1>3, <2>1 DEF PttOn, FloorUnchanged, Granted
  <2> QED BY <2>2 DEF FloorStep
<1>4. ASSUME NEW s \in Sender, NEW valid, NEW authenticated, PttOff(s, valid, authenticated)
      PROVE  FloorStep
  <2>1. \A r \in Talkers \cup {s} : member'[r].present
    BY <1>b, <1>4 DEF PttOff
  <2>2. "CLIENT_PTT_OFF" \in ReleaseReason
    BY DEF ReleaseReason
  <2>3. FloorUnchanged \/ Ended(s)
    BY <1>4, <2>1, <2>2 DEF PttOff, FloorUnchanged, Ended
  <2> QED BY <2>3 DEF FloorStep
<1>5. ASSUME NEW s \in Sender, NEW valid, NEW authenticated,
             PttRequest(s, valid, authenticated)
      PROVE  FloorStep
  <2>1. \A r \in Talkers \cup {s} : member'[r].present
    BY <1>b, <1>5 DEF PttRequest
  <2>2. FloorUnchanged \/ Granted(s) \/ \E v \in Talkers : Replaced(s, v)
    BY <1>5, <2>1, RequestCases, Zenon DEF FloorUnchanged, Granted, Replaced
  <2> QED BY <2>2 DEF FloorStep
<1>6. ASSUME NEW s \in Sender, Media(s) PROVE FloorStep
  <2>1. \A r \in Talkers : member'[r].present
    BY <1>b, <1>6 DEF Media
  <2> QED BY <1>6, <2>1 DEF Media, FloorStep, FloorUnchanged
<1>7. ASSUME NEW s \in Sender, ExpireTalk(s) PROVE FloorStep
  <2>1. "SERVER_TALK_TIMEOUT" \in ReleaseReason
    BY DEF ReleaseReason
  <2>2. Ended(s)
    BY <1>a, <1>7, <2>1 DEF ExpireTalk, Ended
  <2> QED BY <2>2 DEF FloorStep
<1>8. ASSUME NEW s \in Sender, ExpireMembership(s) PROVE FloorStep
  BY <1>8, ReasonType, EndMembershipIsFloorStep DEF ExpireMembership
<1>9. ASSUME NEW s \in Sender, Leave(s) PROVE FloorStep
  <2>1. "CLIENT_LEAVE" \in ReleaseReason
    BY DEF ReleaseReason
  <2> QED BY <1>9, <2>1, EndMembershipIsFloorStep DEF Leave
<1>10. ASSUME NEW p \in Policies, Reload(p) PROVE FloorStep
  BY <1>a, <1>10 DEF Reload, FloorStep, FloorUnchanged
<1>11. CASE Tick
  BY <1>a, <1>11 DEF Tick, FloorStep, FloorUnchanged
<1>12. CASE UNCHANGED vars
  BY <1>a, <1>12 DEF vars, FloorStep, FloorUnchanged
<1> QED
  BY <1>1, <1>2, <1>3, <1>4, <1>5, <1>6, <1>7, <1>8, <1>9, <1>10, <1>11, <1>12
  DEF Next, Packet, Sweep

-----------------------------------------------------------------------------
(* The inductive invariant.                                                *)

\* Whoever replaced somebody has the higher priority: what makes it impossible
\* for preemptions to go round.
PreemptionClimbs ==
  \A p \in preempted : Admission[p[1]].priority > Admission[p[2]].priority

IInv == TypeOK /\ FloorSafe /\ EveryGrantReleasedOnce /\ PreemptionClimbs

LEMMA InitIInv == Init => IInv
<1> SUFFICES ASSUME Init PROVE IInv
  OBVIOUS
<1>1. TypeOK
  BY DEF Init, TypeOK, MembershipType, TalkType, ReleaseReason
<1>2. Talkers = {}
  BY DEF Init, Talkers, Absent
<1>3. FloorSafe
  BY <1>2, FS_EmptySet, BoundsAssumption DEF FloorSafe
<1>4. EveryGrantReleasedOnce /\ PreemptionClimbs
  BY DEF Init, EveryGrantReleasedOnce, PreemptionClimbs, Absent
<1> QED BY <1>1, <1>3, <1>4 DEF IInv

\* The talkers after each of the four kinds of step.
LEMMA TalkersAfter ==
  ASSUME TypeOK
  PROVE  /\ FloorUnchanged => Talkers' = Talkers
         /\ \A s \in Sender : Granted(s) => s \notin Talkers /\ Talkers' = Talkers \cup {s}
         /\ \A s \in Sender : Ended(s) => s \in Talkers /\ Talkers' = Talkers \ {s}
         /\ \A s \in Sender, v \in Talkers :
              Replaced(s, v) => s \notin Talkers /\ Talkers' = (Talkers \ {v}) \cup {s}
<1>a. talk \in [Sender -> TalkType] /\ Absent \in TalkType /\ ~Absent.present
  BY DEF TypeOK, TalkType, Absent
<1>1. FloorUnchanged => Talkers' = Talkers
  BY DEF FloorUnchanged, Talkers
<1>2. ASSUME NEW s \in Sender, Granted(s)
      PROVE  s \notin Talkers /\ Talkers' = Talkers \cup {s}
  BY <1>a, <1>2, GrantType DEF Granted, Talkers
<1>3. ASSUME NEW s \in Sender, Ended(s)
      PROVE  s \in Talkers /\ Talkers' = Talkers \ {s}
  BY <1>a, <1>3 DEF Ended, Talkers
<1>4. ASSUME NEW s \in Sender, NEW v \in Talkers, Replaced(s, v)
      PROVE  s \notin Talkers /\ Talkers' = (Talkers \ {v}) \cup {s}
  <2> DEFINE t == [talk EXCEPT ![v] = Absent]
  <2>1. t \in [Sender -> TalkType] /\ \A r \in Sender : t[r].present <=> r \in Talkers \ {v}
    BY <1>a DEF Talkers
  <2>2. talk' = NewGrant(t, s) /\ s \notin Talkers
    BY <1>4 DEF Replaced, Talkers
  <2> HIDE DEF t
  <2>3. talk'[s].present /\ \A r \in Sender \ {s} : talk'[r].present <=> r \in Talkers \ {v}
    BY <2>1, <2>2, GrantType
  <2> QED BY <2>2, <2>3 DEF Talkers
<1> QED BY <1>1, <1>2, <1>3, <1>4

LEMMA CardinalityAdd ==
  \A S, x : IsFiniteSet(S) /\ x \notin S =>
    IsFiniteSet(S \cup {x}) /\ Cardinality(S \cup {x}) = Cardinality(S) + 1
BY FS_AddElement

LEMMA CardinalityRemove ==
  \A S, x : IsFiniteSet(S) /\ x \in S =>
    IsFiniteSet(S \ {x}) /\ Cardinality(S \ {x}) = Cardinality(S) - 1
BY FS_RemoveElement

\* A slot is taken only when one is free or freed by the same step, and only by
\* a member who may talk.
LEMMA StepFloorSafe ==
  ASSUME TypeOK, FloorSafe, FloorStep
  PROVE  FloorSafe'
<1>a. /\ \A r \in Talkers : "talk" \in Admission[r].perm
      /\ Cardinality(Talkers) <= MaxTalkers
  BY DEF FloorSafe
<1>b. IsFiniteSet(Talkers) /\ Cardinality(Talkers) \in Nat /\ MaxTalkers \in Nat
  BY TalkersFinite, BoundsAssumption
<1>1. CASE FloorUnchanged
  <2>1. Talkers' = Talkers
    BY <1>1, TalkersAfter
  <2> QED BY <1>1, <1>a, <2>1 DEF FloorUnchanged, FloorSafe
<1>2. ASSUME NEW s \in Sender, Granted(s) PROVE FloorSafe'
  <2>1. s \notin Talkers /\ Talkers' = Talkers \cup {s}
    BY <1>2, TalkersAfter
  <2>2. Cardinality(Talkers') <= MaxTalkers
    <3>1. Cardinality(Talkers \cup {s}) = Cardinality(Talkers) + 1
      BY <1>b, <2>1, CardinalityAdd, Zenon
    <3>2. Cardinality(Talkers') = Cardinality(Talkers) + 1
      BY <2>1, <3>1, Zenon
    <3>3. Cardinality(Talkers) < MaxTalkers
      BY <1>2 DEF Granted
    <3> QED BY <1>b, <3>2, <3>3
  <2> QED BY <1>2, <1>a, <2>1, <2>2 DEF Granted, FloorSafe
<1>3. ASSUME NEW s \in Sender, Ended(s) PROVE FloorSafe'
  <2>1. s \in Talkers /\ Talkers' = Talkers \ {s}
    BY <1>3, TalkersAfter
  <2>2. Cardinality(Talkers') <= MaxTalkers
    <3>1. Cardinality(Talkers \ {s}) = Cardinality(Talkers) - 1
      BY <1>b, <2>1, CardinalityRemove, Zenon
    <3>2. Cardinality(Talkers') = Cardinality(Talkers) - 1
      BY <2>1, <3>1, Zenon
    <3> QED BY <1>a, <1>b, <3>2
  <2> QED BY <1>3, <1>a, <2>1, <2>2 DEF Ended, FloorSafe
<1>4. ASSUME NEW s \in Sender, NEW v \in Talkers, Replaced(s, v) PROVE FloorSafe'
  <2>1. s \notin Talkers /\ Talkers' = (Talkers \ {v}) \cup {s}
    BY <1>4, TalkersAfter
  <2>2. IsFiniteSet(Talkers \ {v}) /\ Cardinality(Talkers \ {v}) = Cardinality(Talkers) - 1
    BY <1>b, FS_RemoveElement
  <2>3. Cardinality((Talkers \ {v}) \cup {s}) = Cardinality(Talkers \ {v}) + 1
    BY <2>1, <2>2, CardinalityAdd, Zenon
  <2>4. Cardinality(Talkers') <= MaxTalkers
    <3>1. Cardinality(Talkers') = Cardinality(Talkers \ {v}) + 1
      BY <2>1, <2>3, Zenon
    <3> QED BY <1>a, <1>b, <2>2, <3>1
  <2> QED BY <1>4, <1>a, <2>1, <2>4 DEF Replaced, FloorSafe
<1> QED BY <1>1, <1>2, <1>3, <1>4 DEF FloorStep

\* A grant and its release are counted by the same step that makes them.
LEMMA StepBalance ==
  ASSUME TypeOK, EveryGrantReleasedOnce, FloorStep
  PROVE  EveryGrantReleasedOnce'
<1> DEFINE talking(r) == IF talk[r].present THEN 1 ELSE 0
<1> SUFFICES ASSUME NEW r \in Sender
             PROVE  grants'[r] = releases'[r].count + (IF talk'[r].present THEN 1 ELSE 0)
  BY DEF EveryGrantReleasedOnce
<1>a. grants[r] = releases[r].count + talking(r)
  BY DEF EveryGrantReleasedOnce
<1>b. /\ grants \in [Sender -> Nat] /\ talk \in [Sender -> TalkType]
      /\ releases[r].count \in Nat
      /\ Absent \in TalkType /\ ~Absent.present
  BY DEF TypeOK, TalkType, Absent
<1>1. CASE FloorUnchanged
  BY <1>1, <1>a DEF FloorUnchanged
<1>2. ASSUME NEW s \in Sender, Granted(s)
      PROVE  grants'[r] = releases'[r].count + (IF talk'[r].present THEN 1 ELSE 0)
  <2>1. /\ ~talk[s].present /\ talk'[s].present
        /\ r # s => talk'[r] = talk[r]
    BY <1>2, <1>b, GrantType DEF Granted
  <2>2. releases'[r] = releases[r] /\ grants'[r] = grants[r] + (IF r = s THEN 1 ELSE 0)
    BY <1>2, <1>b DEF Granted
  <2> QED BY <1>a, <1>b, <2>1, <2>2
<1>3. ASSUME NEW s \in Sender, Ended(s)
      PROVE  grants'[r] = releases'[r].count + (IF talk'[r].present THEN 1 ELSE 0)
  <2>1. /\ talk[s].present /\ ~talk'[s].present
        /\ r # s => talk'[r] = talk[r]
    BY <1>3, <1>b DEF Ended
  <2>2. grants'[r] = grants[r]
    BY <1>3 DEF Ended
  <2>3. releases'[r].count = releases[r].count + (IF r = s THEN 1 ELSE 0)
    <3>1. PICK reason \in ReleaseReason : releases' = Released(s, reason)
      BY <1>3 DEF Ended
    <3> QED BY <3>1, ReleasedCount
  <2> QED BY <1>a, <1>b, <2>1, <2>2, <2>3
<1>4. ASSUME NEW s \in Sender, NEW v \in Talkers, Replaced(s, v)
      PROVE  grants'[r] = releases'[r].count + (IF talk'[r].present THEN 1 ELSE 0)
  <2>1. v \in Sender /\ talk[v].present /\ ~talk[s].present /\ v # s
    BY <1>4 DEF Replaced, Talkers
  <2>2. /\ talk'[s].present /\ ~talk'[v].present
        /\ r # s /\ r # v => talk'[r] = talk[r]
    <3>1. [talk EXCEPT ![v] = Absent] \in [Sender -> TalkType]
      BY <1>b
    <3>2. talk'[s].present /\ \A q \in Sender \ {s} : talk'[q] = [talk EXCEPT ![v] = Absent][q]
      BY <1>4, <3>1, GrantType DEF Replaced
    <3> QED BY <1>b, <2>1, <3>2
  <2>3. grants'[r] = grants[r] + (IF r = s THEN 1 ELSE 0)
    BY <1>4, <1>b DEF Replaced
  <2>4. releases'[r].count = releases[r].count + (IF r = v THEN 1 ELSE 0)
    <3>1. releases' = Released(v, "PREEMPTED")
      BY <1>4 DEF Replaced
    <3> QED BY <2>1, <3>1, ReleasedCount
  <2> QED BY <1>a, <1>b, <2>1, <2>2, <2>3, <2>4
<1> QED BY <1>1, <1>2, <1>3, <1>4 DEF FloorStep

LEMMA StepClimbs ==
  ASSUME PreemptionClimbs, FloorStep
  PROVE  PreemptionClimbs'
<1>1. CASE preempted' = preempted
  BY <1>1 DEF PreemptionClimbs
<1>2. ASSUME NEW s \in Sender, NEW v \in Talkers, Replaced(s, v) PROVE PreemptionClimbs'
  BY <1>2 DEF Replaced, PreemptionClimbs
<1> QED
  BY <1>1, <1>2 DEF FloorStep, FloorUnchanged, Granted, Ended

LEMMA StepIInv == IInv /\ [Next]_vars => IInv'
<1> SUFFICES ASSUME IInv, [Next]_vars PROVE IInv'
  OBVIOUS
<1>1. TypeOK'
  BY StepTypeOK DEF IInv
<1>2. FloorStep
  BY StepIsFloorStep DEF IInv
<1>3. FloorSafe' /\ EveryGrantReleasedOnce' /\ PreemptionClimbs'
  BY <1>2, StepFloorSafe, StepBalance, StepClimbs DEF IInv
<1> QED BY <1>1, <1>3 DEF IInv

LEMMA Invariance == Spec => []IInv
BY InitIInv, StepIInv, PTL DEF Spec

-----------------------------------------------------------------------------
(* Theorems.                                                               *)

\* Variables keep their types, the membership pair of every lease included.
THEOREM TypeCorrect == Spec => []TypeOK
BY Invariance, PTL DEF IInv

\* However leases, admissions and talks expire and whoever preempts whom, the
\* floor is held by members that may talk, and never by too many.
THEOREM FloorIsSafe == Spec => []FloorSafe
BY Invariance, PTL DEF IInv

\* No grant is released twice and none is forgotten.
THEOREM GrantsBalance == Spec => []EveryGrantReleasedOnce
BY Invariance, PTL DEF IInv

\* Among any senders there is one of the highest priority, and nobody of them
\* can have replaced it.
LEMMA HighestIsSafe ==
  ASSUME PreemptionClimbs, NEW group \in SUBSET Sender, group # {}
  PROVE  \E s \in group : \A r \in group : <<r, s>> \notin preempted
<1> DEFINE D == {255 - Admission[v].priority : v \in group}
<1>1. D \in SUBSET Nat /\ D # {}
  BY AdmissionFacts
<1>2. PICK d \in D : \A e \in D : d <= e
  <2> HIDE DEF D
  <2> QED BY <1>1, NatMin
<1>3. PICK s \in group : d = 255 - Admission[s].priority
  OBVIOUS
<1>4. \A r \in group : Admission[r].priority <= Admission[s].priority
  <2> SUFFICES ASSUME NEW r \in group PROVE Admission[r].priority <= Admission[s].priority
    OBVIOUS
  <2>1. 255 - Admission[s].priority <= 255 - Admission[r].priority
    BY <1>2, <1>3
  <2> QED BY <2>1, AdmissionFacts
<1>5. \A r \in group : <<r, s>> \in preempted => Admission[r].priority > Admission[s].priority
  BY DEF PreemptionClimbs
<1> QED BY <1>4, <1>5, AdmissionFacts

\* Preemptions cannot go round, for any number of senders with any priorities.
THEOREM PreemptionIsAcyclic == Spec => []NoPreemptionCycle
<1>1. IInv => NoPreemptionCycle
  BY HighestIsSafe DEF IInv, NoPreemptionCycle
<1> QED BY <1>1, Invariance, PTL

\* A full floor loses its lowest talker and nobody else.
LEMMA StepPreemption ==
  ASSUME IInv, FloorStep, NEW r \in Talkers' \ Talkers, Talkers \ Talkers' # {}
  PROVE  /\ Cardinality(Talkers \ Talkers') = 1 /\ Cardinality(Talkers) = MaxTalkers
         /\ \A v \in Talkers \ Talkers', w \in Talkers :
              /\ Admission[v].priority <= Admission[w].priority
              /\ Admission[v].priority < Admission[r].priority
              /\ Admission[w].priority = Admission[v].priority => v <= w
<1>a. TypeOK /\ FloorSafe
  BY DEF IInv
<1>1. ~FloorUnchanged
  BY <1>a, TalkersAfter
<1>2. \A s \in Sender : ~Granted(s) /\ ~Ended(s)
  BY <1>a, TalkersAfter
<1>3. PICK s \in Sender, v \in Talkers : Replaced(s, v)
  BY <1>1, <1>2 DEF FloorStep
<1>4. s \notin Talkers /\ Talkers' = (Talkers \ {v}) \cup {s}
  BY <1>a, <1>3, TalkersAfter
<1>5. r = s /\ Talkers \ Talkers' = {v}
  BY <1>4
<1>6. Cardinality(Talkers \ Talkers') = 1
  <2>1. Cardinality({v}) = 1
    BY FS_Singleton
  <2> QED BY <1>5, <2>1, Zenon
<1>7. Cardinality(Talkers) = MaxTalkers
  BY <1>a, <1>3, TalkersFinite, BoundsAssumption DEF Replaced, FloorSafe
<1>8. Admission[v].priority < Admission[r].priority
  BY <1>3, <1>5 DEF Replaced
<1>9. ASSUME NEW w \in Talkers
      PROVE  /\ Admission[v].priority <= Admission[w].priority
             /\ Admission[w].priority = Admission[v].priority => v <= w
  <2>1. Below(v, w) /\ v \in Sender /\ w \in Sender
    BY <1>3 DEF Replaced, Talkers
  <2> QED BY <2>1, AdmissionFacts DEF Below
<1> QED BY <1>5, <1>6, <1>7, <1>8, <1>9

\* A preemption takes exactly one slot, that of the lowest talker.
THEOREM PreemptionMinimal == Spec => PreemptionIsMinimal
<1>1. IInv /\ [Next]_vars =>
        [\A r \in Talkers' \ Talkers :
           LET out == Talkers \ Talkers'
           IN  out # {} =>
                 /\ Cardinality(out) = 1 /\ Cardinality(Talkers) = MaxTalkers
                 /\ \A v \in out, w \in Talkers :
                      /\ Admission[v].priority <= Admission[w].priority
                      /\ Admission[v].priority < Admission[r].priority
                      /\ Admission[w].priority = Admission[v].priority => v <= w]_vars
  <2> SUFFICES ASSUME IInv, [Next]_vars, NEW r \in Talkers' \ Talkers, Talkers \ Talkers' # {}
               PROVE  /\ Cardinality(Talkers \ Talkers') = 1 /\ Cardinality(Talkers) = MaxTalkers
                      /\ \A v \in Talkers \ Talkers', w \in Talkers :
                           /\ Admission[v].priority <= Admission[w].priority
                           /\ Admission[v].priority < Admission[r].priority
                           /\ Admission[w].priority = Admission[v].priority => v <= w
    OBVIOUS
  <2>1. FloorStep
    BY StepIsFloorStep DEF IInv
  <2> QED BY <2>1, StepPreemption
<1> QED BY <1>1, Invariance, PTL DEF Spec, PreemptionIsMinimal

\* Only the end of a talk or a new grant changes the terms of a grant.
LEMMA StepTalkLease ==
  ASSUME IInv, FloorStep, NEW s \in Sender,
         talk[s].present, talk'[s].present, grants'[s] = grants[s]
  PROVE  talk'[s] = talk[s]
<1>a. TypeOK /\ talk \in [Sender -> TalkType] /\ Absent \in TalkType /\ ~Absent.present
  BY DEF IInv, TypeOK, TalkType, Absent
<1>1. CASE FloorUnchanged
  BY <1>1 DEF FloorUnchanged
<1>2. ASSUME NEW r \in Sender, Granted(r) PROVE talk'[s] = talk[s]
  <2>1. r # s
    BY <1>2 DEF Granted
  <2> QED BY <1>2, <1>a, <2>1, GrantType DEF Granted
<1>3. ASSUME NEW r \in Sender, Ended(r) PROVE talk'[s] = talk[s]
  BY <1>3, <1>a DEF Ended
<1>4. ASSUME NEW r \in Sender, NEW v \in Talkers, Replaced(r, v) PROVE talk'[s] = talk[s]
  <2> DEFINE t == [talk EXCEPT ![v] = Absent]
  <2>1. t \in [Sender -> TalkType] /\ r # s
    BY <1>4, <1>a DEF Replaced
  <2>2. t[s] = talk[s] \/ t[s] = Absent
    BY <1>a
  <2>3. talk' = NewGrant(t, r)
    BY <1>4 DEF Replaced
  <2> HIDE DEF t
  <2>4. talk'[s] = t[s]
    BY <1>a, <2>1, <2>3, GrantType
  <2> QED BY <1>a, <2>2, <2>4
<1> QED BY <1>1, <1>2, <1>3, <1>4 DEF FloorStep

\* No packet and no reload moves the deadline of a running talk.
THEOREM TalkLeaseIsFixed == Spec => TalkLeaseFixed
<1>1. IInv /\ [Next]_vars =>
        [\A s \in Sender :
           talk[s].present /\ talk'[s].present /\ grants'[s] = grants[s]
           => talk'[s] = talk[s]]_vars
  BY StepIsFloorStep, StepTalkLease DEF IInv
<1> QED BY <1>1, Invariance, PTL DEF Spec, TalkLeaseFixed

-----------------------------------------------------------------------------
(* Deadlines: what a step does to one membership.                         *)

\* The reasons that say nothing about a deadline of the membership.
Ordinary == {"CLIENT_PTT_OFF", "SERVER_TALK_TIMEOUT", "CLIENT_LEAVE", "PREEMPTED"}
ReleasedOrdinarily(s) == releases'[s] = releases[s] \/ releases'[s].last \in Ordinary

Rests(s) ==
  /\ member'[s] = member[s] /\ grants'[s] = grants[s]
  /\ ReleasedOrdinarily(s)
  /\ now' \in Nat /\ now' >= now

Begins(s) ==
  /\ ~member[s].present /\ now < Admission[s].exp
  /\ \E lease \in 15..300, keepalive \in Nat :
       member'[s] = [present |-> TRUE, lease |-> lease, keepalive |-> keepalive,
                     normal |-> now + lease]
  /\ releases'[s] = releases[s]
  /\ now' = now

IsRefreshed(s) ==
  /\ Live(s)
  /\ member'[s] = [present |-> TRUE, lease |-> member[s].lease,
                   keepalive |-> member[s].keepalive, normal |-> now + member[s].lease]
  /\ ReleasedOrdinarily(s)
  /\ now' = now

Ends(s) ==
  /\ member[s].present /\ member'[s] = Absent
  /\ ~talk'[s].present /\ grants'[s] = grants[s]
  /\ IF talk[s].present
     THEN releases'[s].last = IF Live(s) THEN "CLIENT_LEAVE"
                              ELSE ExpiryReason(member[s].normal, Admission[s])
     ELSE releases'[s] = releases[s]
  /\ now' = now

LeaseStep(s) == Rests(s) \/ Begins(s) \/ IsRefreshed(s) \/ Ends(s)

LEMMA MemberFields ==
  ASSUME TypeOK, NEW s \in Sender, member[s].present
  PROVE  /\ member[s] \in [present : {TRUE}, lease : 15..300, keepalive : Nat, normal : Nat]
         /\ member[s] # Absent
<1>1. member[s] \in MembershipType
  BY DEF TypeOK
<1>2. member[s] # Absent
  BY DEF Absent
<1> QED BY <1>1, <1>2 DEF MembershipType

\* A refresh by r is a refresh of r, and the rest of the step is as given.
LEMMA RefreshIsLeaseStep ==
  ASSUME TypeOK, NEW r \in Sender, NEW s \in Sender,
         Live(r), member' = Refreshed(r), now' = now,
         ReleasedOrdinarily(s), s = r \/ grants'[s] = grants[s]
  PROVE  LeaseStep(s)
<1>a. member \in [Sender -> MembershipType] /\ now \in Nat
  BY DEF TypeOK
<1>1. CASE s = r
  <2>0. member[s] \in [present : {TRUE}, lease : 15..300, keepalive : Nat, normal : Nat]
    BY <1>1, MemberFields DEF Live
  <2>1. member'[s] = [present |-> TRUE, lease |-> member[s].lease,
                      keepalive |-> member[s].keepalive, normal |-> now + member[s].lease]
    BY <1>a, <1>1, <2>0 DEF Refreshed
  <2> QED BY <1>1, <2>1 DEF LeaseStep, IsRefreshed
<1>2. CASE s # r
  <2>1. member'[s] = member[s]
    BY <1>a, <1>2 DEF Refreshed
  <2> QED BY <1>a, <1>2, <2>1 DEF LeaseStep, Rests
<1> QED BY <1>1, <1>2

\* A release of r leaves every other release alone.
LEMMA ReleaseIsOrdinary ==
  ASSUME TypeOK, NEW r \in Sender, NEW s \in Sender, NEW reason \in Ordinary,
         releases' = Released(r, reason)
  PROVE  ReleasedOrdinarily(s)
<1>1. releases \in [Sender -> [count : Nat, last : ReleaseReason]]
  BY DEF TypeOK
<1>2. CASE s = r
  BY <1>1, <1>2 DEF Released, ReleasedOrdinarily
<1>3. CASE s # r
  BY <1>1, <1>3 DEF Released, ReleasedOrdinarily
<1> QED BY <1>2, <1>3

LEMMA EndIsLeaseStep ==
  ASSUME TypeOK, NEW r \in Sender, NEW s \in Sender, NEW reason,
         EndMembership(r, reason),
         reason = IF Live(r) THEN "CLIENT_LEAVE" ELSE ExpiryReason(member[r].normal, Admission[r])
  PROVE  LeaseStep(s)
<1>a. /\ member \in [Sender -> MembershipType] /\ talk \in [Sender -> TalkType] /\ now \in Nat
      /\ releases \in [Sender -> [count : Nat, last : ReleaseReason]]
      /\ ~Absent.present
  BY DEF TypeOK, Absent
<1>b. /\ member[r].present
      /\ member' = [member EXCEPT ![r] = Absent] /\ talk' = [talk EXCEPT ![r] = Absent]
      /\ releases' = IF talk[r].present THEN Released(r, reason) ELSE releases
      /\ now' = now /\ grants' = grants
  BY DEF EndMembership
<1>1. CASE s = r
  <2>1. member'[s] = Absent /\ ~talk'[s].present
    BY <1>a, <1>b, <1>1
  <2>2. IF talk[s].present THEN releases'[s].last = reason ELSE releases'[s] = releases[s]
    BY <1>a, <1>b, <1>1 DEF Released
  <2> QED BY <1>b, <1>1, <2>1, <2>2 DEF LeaseStep, Ends
<1>2. CASE s # r
  <2>1. member'[s] = member[s] /\ releases'[s] = releases[s]
    BY <1>a, <1>b, <1>2 DEF Released
  <2> QED BY <1>a, <1>b, <2>1 DEF LeaseStep, Rests, ReleasedOrdinarily
<1> QED BY <1>1, <1>2

\* Every step is one of the four for every sender.
LEMMA StepIsLeaseStep ==
  ASSUME TypeOK, [Next]_vars, NEW s \in Sender
  PROVE  LeaseStep(s)
<1>a. now \in Nat /\ member \in [Sender -> MembershipType] /\ grants \in [Sender -> Nat]
  BY DEF TypeOK
<1>b. releases' = releases => ReleasedOrdinarily(s)
  BY DEF ReleasedOrdinarily
<1>c. {"CLIENT_PTT_OFF", "SERVER_TALK_TIMEOUT", "PREEMPTED"} \subseteq Ordinary
  BY DEF Ordinary
<1>1. ASSUME NEW r \in Sender, Join(r) PROVE LeaseStep(s)
  <2>1. policy.lease \in 15..300 /\ policy.keepalive \in Nat
    BY PoliciesAssumption DEF TypeOK, PolicyType, ValidMembershipPair
  <2>2. CASE s = r
    <3>1. member'[s] = [present |-> TRUE, lease |-> policy.lease,
                        keepalive |-> policy.keepalive, normal |-> now + policy.lease]
      BY <1>a, <1>1, <2>2 DEF Join
    <3> QED BY <1>1, <2>1, <2>2, <3>1 DEF Join, LeaseStep, Begins
  <2>3. CASE s # r
    BY <1>a, <1>1, <1>b, <2>3 DEF Join, LeaseStep, Rests
  <2> QED BY <2>2, <2>3
<1>2. ASSUME NEW r \in Sender, NEW type, NEW valid, NEW authenticated,
             Refresh(r, type, valid, authenticated)
      PROVE  LeaseStep(s)
  BY <1>2, <1>b, RefreshIsLeaseStep DEF Refresh
<1>3. ASSUME NEW r \in Sender, NEW valid, NEW authenticated, PttOn(r, valid, authenticated)
      PROVE  LeaseStep(s)
  <2>1. s = r \/ grants'[s] = grants[s]
    BY <1>3, <1>a DEF PttOn
  <2> QED BY <1>3, <1>b, <2>1, RefreshIsLeaseStep DEF PttOn
<1>4. ASSUME NEW r \in Sender, NEW valid, NEW authenticated, PttOff(r, valid, authenticated)
      PROVE  LeaseStep(s)
  <2>1. ReleasedOrdinarily(s)
    BY <1>4, <1>b, <1>c, ReleaseIsOrdinary DEF PttOff
  <2> QED BY <1>4, <2>1, RefreshIsLeaseStep DEF PttOff
<1>5. ASSUME NEW r \in Sender, NEW valid, NEW authenticated, PttRequest(r, valid, authenticated)
      PROVE  LeaseStep(s)
  <2>1. \/ UNCHANGED <<talk, grants, releases, preempted>>
        \/ grants' = [grants EXCEPT ![r] = @ + 1] /\ releases' = releases
        \/ /\ grants' = [grants EXCEPT ![r] = @ + 1]
           /\ \E v \in Talkers : releases' = Released(v, "PREEMPTED")
    BY <1>5, RequestCases, Zenon
  <2>2. Talkers \subseteq Sender
    BY DEF Talkers
  <2>3. ReleasedOrdinarily(s)
    BY <1>b, <1>c, <2>1, <2>2, ReleaseIsOrdinary
  <2>4. s = r \/ grants'[s] = grants[s]
    BY <1>a, <2>1
  <2> QED BY <1>5, <2>3, <2>4, RefreshIsLeaseStep DEF PttRequest
<1>6. ASSUME NEW r \in Sender, Media(r) PROVE LeaseStep(s)
  BY <1>6, <1>b, RefreshIsLeaseStep DEF Media
<1>7. ASSUME NEW r \in Sender, ExpireTalk(r) PROVE LeaseStep(s)
  <2>1. ReleasedOrdinarily(s)
    BY <1>7, <1>c, ReleaseIsOrdinary DEF ExpireTalk
  <2> QED BY <1>7, <1>a, <2>1 DEF ExpireTalk, LeaseStep, Rests
<1>8. ASSUME NEW r \in Sender, ExpireMembership(r) PROVE LeaseStep(s)
  BY <1>8, EndIsLeaseStep DEF ExpireMembership, Live
<1>9. ASSUME NEW r \in Sender, Leave(r) PROVE LeaseStep(s)
  BY <1>9, EndIsLeaseStep DEF Leave
<1>10. ASSUME NEW p \in Policies, Reload(p) PROVE LeaseStep(s)
  BY <1>10, <1>a, <1>b DEF Reload, LeaseStep, Rests
<1>11. CASE Tick
  BY <1>11, <1>a, <1>b, BoundsAssumption DEF Tick, LeaseStep, Rests
<1>12. CASE UNCHANGED vars
  BY <1>12, <1>a, <1>b DEF vars, LeaseStep, Rests
<1> QED
  BY <1>1, <1>2, <1>3, <1>4, <1>5, <1>6, <1>7, <1>8, <1>9, <1>10, <1>11, <1>12
  DEF Next, Packet, Sweep

-----------------------------------------------------------------------------
(* The inductive invariant.                                                *)

\* A lease deadline is at most one lease away, and that of a sender who may talk
\* was set before its admission expired.
LeasesAreShort ==
  \A s \in Sender : member[s].present =>
    /\ member[s].normal <= now + member[s].lease
    /\ "talk" \in Admission[s].perm => member[s].normal < Admission[s].exp + member[s].lease

\* A release blames an admission only after it expired.
BlameIsTrue ==
  \A s \in Sender :
    /\ releases[s].last = "IDENTITY_EXPIRED" =>
         Admission[s].kind = "identity" /\ now >= Admission[s].exp
    /\ releases[s].last = "SERVICE_ADMISSION_EXPIRED" =>
         Admission[s].kind = "service" /\ now >= Admission[s].exp

DInv == IInv /\ LeasesAreShort /\ BlameIsTrue

LEMMA AdmissionKinds ==
  \A s \in Sender : Admission[s].kind \in {"identity", "service"}
BY AdmissionAssumption DEF AdmissionType

\* The deadline of an admission is its expiry, or later for a listening service.
LEMMA DeadlineFacts ==
  ASSUME NEW s \in Sender
  PROVE  /\ AdmissionDeadline(Admission[s]) \in Nat
         /\ AdmissionDeadline(Admission[s]) >= Admission[s].exp
         /\ "talk" \in Admission[s].perm => AdmissionDeadline(Admission[s]) = Admission[s].exp
BY AdmissionFacts DEF AdmissionDeadline

LEMMA InitDInv == Init => DInv
<1> SUFFICES ASSUME Init PROVE DInv
  OBVIOUS
<1>1. LeasesAreShort
  BY DEF Init, LeasesAreShort, Absent
<1>2. BlameIsTrue
  BY DEF Init, BlameIsTrue
<1> QED BY <1>1, <1>2, InitIInv DEF DInv

LEMMA StepLeasesAreShort ==
  ASSUME TypeOK, LeasesAreShort, NEW s \in Sender, LeaseStep(s), member'[s].present
  PROVE  /\ member'[s].normal <= now' + member'[s].lease
         /\ "talk" \in Admission[s].perm => member'[s].normal < Admission[s].exp + member'[s].lease
<1>a. now \in Nat /\ Admission[s].exp \in Nat
  BY AdmissionFacts DEF TypeOK
<1>1. CASE Rests(s)
  <2>1. member'[s] = member[s] /\ now' >= now
    BY <1>1 DEF Rests
  <2>2. member[s].present /\ member[s].normal <= now + member[s].lease
        /\ ("talk" \in Admission[s].perm => member[s].normal < Admission[s].exp + member[s].lease)
    BY <2>1 DEF LeasesAreShort
  <2>3. member[s].lease \in Nat /\ member[s].normal \in Nat
    <3>1. member[s] \in [present : {TRUE}, lease : 15..300, keepalive : Nat, normal : Nat]
      BY <2>2, MemberFields
    <3>2. member[s].lease \in 15..300 /\ member[s].normal \in Nat
      BY <3>1, Zenon
    <3> QED BY <3>2
  <2>4. now' \in Int
    BY <1>1 DEF Rests
  <2> QED BY <1>a, <2>1, <2>2, <2>3, <2>4
<1>2. CASE Begins(s)
  BY <1>a, <1>2 DEF Begins
<1>3. CASE IsRefreshed(s)
  <2>1. member[s].present /\ member[s].lease \in Nat /\ member[s].normal \in Nat
    <3>1. member[s].present
      BY <1>3 DEF IsRefreshed, Live
    <3>2. member[s] \in [present : {TRUE}, lease : 15..300, keepalive : Nat, normal : Nat]
      BY <3>1, MemberFields
    <3>3. member[s].lease \in 15..300 /\ member[s].normal \in Nat
      BY <3>2, Zenon
    <3> QED BY <3>1, <3>3
  <2>2. member'[s].normal = now + member[s].lease /\ member'[s].lease = member[s].lease
    BY <1>3 DEF IsRefreshed
  <2>3. now < AdmissionDeadline(Admission[s])
    BY <1>a, <1>3, <2>1, DeadlineFacts DEF IsRefreshed, Live, Lapsed, EffectiveExpiry
  <2> QED BY <1>a, <1>3, <2>1, <2>2, <2>3, DeadlineFacts DEF IsRefreshed
<1>4. CASE Ends(s)
  BY <1>4 DEF Ends, Absent
<1> QED BY <1>1, <1>2, <1>3, <1>4 DEF LeaseStep

\* The sweep of a lapsed membership blames the admission only when that is over.
LEMMA ReasonIsTrue ==
  ASSUME TypeOK, NEW s \in Sender, Lapsed(s)
  PROVE  LET reason == ExpiryReason(member[s].normal, Admission[s])
         IN  /\ reason = "IDENTITY_EXPIRED" =>
                  Admission[s].kind = "identity" /\ now >= Admission[s].exp
             /\ reason = "SERVICE_ADMISSION_EXPIRED" =>
                  Admission[s].kind = "service" /\ now >= Admission[s].exp
<1>1. member[s].normal \in Nat /\ now \in Nat /\ Admission[s].exp \in Nat
  BY MemberFields, AdmissionFacts DEF Lapsed, TypeOK
<1>2. CASE member[s].normal <= AdmissionDeadline(Admission[s])
  BY <1>2 DEF ExpiryReason
<1>3. CASE ~(member[s].normal <= AdmissionDeadline(Admission[s]))
  <2>1. now >= Admission[s].exp
    BY <1>1, <1>3, DeadlineFacts DEF Lapsed, EffectiveExpiry
  <2> QED BY <1>3, <2>1, AdmissionKinds DEF ExpiryReason
<1> QED BY <1>2, <1>3

LEMMA StepBlameIsTrue ==
  ASSUME TypeOK, BlameIsTrue, NEW s \in Sender, LeaseStep(s)
  PROVE  /\ releases'[s].last = "IDENTITY_EXPIRED" =>
              Admission[s].kind = "identity" /\ now' >= Admission[s].exp
         /\ releases'[s].last = "SERVICE_ADMISSION_EXPIRED" =>
              Admission[s].kind = "service" /\ now' >= Admission[s].exp
<1>a. now \in Nat /\ Admission[s].exp \in Nat
  BY AdmissionFacts DEF TypeOK
<1>b. now' >= now /\ now' \in Int
  <2>1. CASE Rests(s)
    BY <2>1 DEF Rests
  <2>2. CASE Begins(s) \/ IsRefreshed(s) \/ Ends(s)
    <3>1. now' = now
      BY <2>2, Zenon DEF Begins, IsRefreshed, Ends
    <3> QED BY <1>a, <3>1
  <2> QED BY <2>1, <2>2 DEF LeaseStep
<1>1. CASE releases'[s] = releases[s]
  BY <1>a, <1>b, <1>1 DEF BlameIsTrue
<1>2. CASE releases'[s].last \in Ordinary
  BY <1>2 DEF Ordinary
<1>3. CASE Ends(s) /\ releases'[s] # releases[s]
  <2>1. CASE Live(s)
    BY <1>3, <2>1 DEF Ends
  <2>2. CASE ~Live(s)
    <3>1. Lapsed(s) /\ releases'[s].last = ExpiryReason(member[s].normal, Admission[s])
      BY <1>3, <2>2 DEF Ends, Live
    <3> QED BY <1>a, <1>b, <3>1, ReasonIsTrue
  <2> QED BY <2>1, <2>2
<1> QED BY <1>1, <1>2, <1>3 DEF LeaseStep, Rests, Begins, IsRefreshed, ReleasedOrdinarily

LEMMA StepDInv == DInv /\ [Next]_vars => DInv'
<1> SUFFICES ASSUME DInv, [Next]_vars PROVE DInv'
  OBVIOUS
<1>0. TypeOK
  BY DEF DInv, IInv
<1>1. IInv'
  BY StepIInv DEF DInv
<1>2. LeasesAreShort'
  BY <1>0, StepIsLeaseStep, StepLeasesAreShort DEF DInv, LeasesAreShort
<1>3. BlameIsTrue'
  BY <1>0, StepIsLeaseStep, StepBlameIsTrue DEF DInv, BlameIsTrue
<1> QED BY <1>1, <1>2, <1>3 DEF DInv

LEMMA DeadlineInvariance == Spec => []DInv
BY InitDInv, StepDInv, PTL DEF Spec

-----------------------------------------------------------------------------
(* Theorems.                                                               *)

\* No refresh carries a talker past its admission by more than one lease, and no
\* release blames an admission that is not over, whatever the grace.
THEOREM AdmissionBoundsTalk == Spec => []AdmissionEndsTalk
<1>1. DInv => AdmissionEndsTalk
  <2> SUFFICES ASSUME DInv, NEW s \in Sender
               PROVE  /\ talk[s].present /\ member[s].present =>
                           member[s].normal < Admission[s].exp + member[s].lease
                      /\ releases[s].last = "IDENTITY_EXPIRED" =>
                           Admission[s].kind = "identity" /\ now >= Admission[s].exp
                      /\ releases[s].last = "SERVICE_ADMISSION_EXPIRED" =>
                           Admission[s].kind = "service" /\ now >= Admission[s].exp
    BY DEF AdmissionEndsTalk
  <2>1. talk[s].present => "talk" \in Admission[s].perm
    BY DEF DInv, IInv, FloorSafe, Talkers
  <2> QED BY <2>1 DEF DInv, LeasesAreShort, BlameIsTrue
<1> QED BY <1>1, DeadlineInvariance, PTL

\* Nothing but its removal happens to a membership that lapsed.
LEMMA StepLapse ==
  ASSUME TypeOK, NEW s \in Sender, LeaseStep(s), Lapsed(s)
  PROVE  /\ member'[s] \in {member[s], Absent}
         /\ grants'[s] = grants[s]
         /\ member'[s] = Absent /\ talk[s].present =>
              /\ ~talk'[s].present
              /\ RightlyBlamed(s, releases'[s].last)
<1>1. member[s].present /\ ~Live(s) /\ member[s] # Absent
  BY MemberFields DEF Lapsed, Live
<1>2. CASE Rests(s)
  BY <1>1, <1>2 DEF Rests
<1>3. CASE Ends(s)
  <2>1. RightlyBlamed(s, ExpiryReason(member[s].normal, Admission[s]))
    BY AdmissionKinds DEF RightlyBlamed, ExpiryReason
  <2> QED BY <1>1, <1>3, <2>1 DEF Ends
<1> QED BY <1>1, <1>2, <1>3 DEF LeaseStep, Begins, IsRefreshed

\* A lapsed membership is over, for sweeps as late as can be, and its reason
\* follows from its two deadlines alone.
THEOREM LapsesAreFinal == Spec => LapseIsFinal
<1>1. DInv /\ [Next]_vars =>
        [\A s \in Sender :
           Lapsed(s) =>
             /\ member'[s] \in {member[s], Absent}
             /\ grants'[s] = grants[s]
             /\ member'[s] = Absent /\ talk[s].present =>
                  /\ ~talk'[s].present
                  /\ RightlyBlamed(s, releases'[s].last)]_vars
  BY StepIsLeaseStep, StepLapse DEF DInv, IInv
<1> QED BY <1>1, DeadlineInvariance, PTL DEF Spec, LapseIsFinal

\* A membership keeps the terms of its JOIN, and its deadline moves forward only.
LEMMA StepSnapshot ==
  ASSUME TypeOK, LeasesAreShort, NEW s \in Sender, LeaseStep(s),
         member[s].present, member'[s].present
  PROVE  /\ member'[s].lease = member[s].lease
         /\ member'[s].keepalive = member[s].keepalive
         /\ member'[s].normal >= member[s].normal
<1>1. member[s] \in [present : {TRUE}, lease : 15..300, keepalive : Nat, normal : Nat]
  BY MemberFields
<1>2. CASE Rests(s)
  <2>1. member'[s] = member[s] /\ member[s].normal \in Nat
    BY <1>1, <1>2 DEF Rests
  <2>2. member[s].normal >= member[s].normal
    BY <2>1
  <2> QED BY <2>1, <2>2
<1>3. CASE IsRefreshed(s)
  <2>1. member[s].normal <= now + member[s].lease
    BY DEF LeasesAreShort
  <2> QED BY <1>1, <1>3, <2>1 DEF IsRefreshed
<1>4. ~Begins(s) /\ ~Ends(s)
  BY DEF Begins, Ends, Absent
<1> QED BY <1>2, <1>3, <1>4 DEF LeaseStep

\* A reload never changes the terms of a running membership.
THEOREM SnapshotsHold == Spec => SnapshotHolds
<1>1. DInv /\ [Next]_vars =>
        [\A s \in Sender :
           member[s].present /\ member'[s].present =>
             /\ member'[s].lease = member[s].lease
             /\ member'[s].keepalive = member[s].keepalive
             /\ member'[s].normal >= member[s].normal]_vars
  BY StepIsLeaseStep, StepSnapshot DEF DInv, IInv
<1> QED BY <1>1, DeadlineInvariance, PTL DEF Spec, SnapshotHolds
=============================================================================
