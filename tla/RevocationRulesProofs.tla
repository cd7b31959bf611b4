------------------------ MODULE RevocationRulesProofs ------------------------
(***************************************************************************)
(* Revocation keeps its promises for any grants, commands, deadlines and   *)
(* retention times.  Types, that denied grants stay out and that a command *)
(* takes effect once are inductive together; the life of a rule follows    *)
(* step by step.                                                           *)
(***************************************************************************)
EXTENDS RevocationRules, FiniteSetTheorems, TLAPS

IInv == TypeOK /\ DeniedStayOut

\* What the Relay remembers of a command carries the number of its releases.
LEMMA RememberedReleases ==
  ASSUME TypeOK, NEW c \in Command
  PROVE  /\ cache[c].known \in BOOLEAN /\ (cache[c].known => cache[c].releases \in Nat)
         /\ rules[c].known \in BOOLEAN /\ (rules[c].known => rules[c].releases \in Nat)
<1>1. NoAck.known = FALSE
  BY DEF NoAck
<1>2. /\ cache[c] = NoAck \/ cache[c] \in [known : {TRUE}, releases : Nat, at : Nat]
      /\ rules[c] = NoAck \/ rules[c] \in [known : {TRUE}, releases : Nat]
  BY DEF TypeOK, Ack, CachedAck
<1>3. ASSUME NEW r \in [known : {TRUE}, releases : Nat, at : Nat]
      PROVE  r.known = TRUE /\ r.releases \in Nat
  OBVIOUS
<1>4. ASSUME NEW r \in [known : {TRUE}, releases : Nat]
      PROVE  r.known = TRUE /\ r.releases \in Nat
  OBVIOUS
<1>5. cache[c].known \in BOOLEAN /\ (cache[c].known => cache[c].releases \in Nat)
  <2>1. CASE cache[c] = NoAck
    BY <1>1, <2>1
  <2>2. CASE cache[c] \in [known : {TRUE}, releases : Nat, at : Nat]
    BY <1>3, <2>2
  <2> QED BY <1>2, <2>1, <2>2
<1>6. rules[c].known \in BOOLEAN /\ (rules[c].known => rules[c].releases \in Nat)
  <2>1. CASE rules[c] = NoAck
    BY <1>1, <2>1
  <2>2. CASE rules[c] \in [known : {TRUE}, releases : Nat]
    BY <1>4, <2>2
  <2> QED BY <1>2, <2>1, <2>2
<1> QED BY <1>5, <1>6

\* The number of talks a command releases is a number.
LEMMA ReleasesAreCounted ==
  ASSUME TypeOK, NEW T \in SUBSET Grant
  PROVE  Cardinality(T \cap talking) \in Nat
<1>1. IsFiniteSet(T \cap talking)
  BY GrantAssumption, FS_Subset
<1> QED BY <1>1, FS_CardinalityType

\* A delivery keeps the types of what it changes.
LEMMA DeliverTypeOK ==
  ASSUME TypeOK, NEW c \in Command, Deliver(c)
  PROVE  TypeOK'
<1> USE DEF TypeOK
<1> DEFINE matching == {g \in present : MatchesRule(c, g)}
           releases == Cardinality(matching \cap talking)
<1>1. releases \in Nat
  <2>1. matching \in SUBSET Grant
    OBVIOUS
  <2> QED BY <2>1, ReleasesAreCounted
<1>2. UNCHANGED <<now, disabled, issued>>
  BY DEF Deliver
<1>3. CASE FirstDelivery(c)
  <2>1. DeadlineOutcome(now, Until(c)) \in Outcome
    BY DEF DeadlineOutcome, Outcome
  <2>2. reply' \in Reply
    BY <1>1, <1>3, <2>1 DEF FirstDelivery, Reply
  <2>3. CASE DeadlineOutcome(now, Until(c)) = "applied"
    <3> HIDE DEF matching, releases
    <3>1. /\ rules' = [rules EXCEPT ![c] = [known |-> TRUE, releases |-> releases]]
          /\ cache' = [cache EXCEPT ![c] = [known |-> TRUE, releases |-> releases, at |-> now]]
          /\ present' = present \ matching /\ talking' = talking \ matching
          /\ effects' = [effects EXCEPT ![c] = @ + releases]
          /\ applied' = applied \cup {c}
      BY <1>3, <2>3 DEF FirstDelivery, matching, releases
    <3>2. rules' \in [Command -> Ack] /\ cache' \in [Command -> CachedAck]
      BY <1>1, <3>1 DEF Ack, CachedAck
    <3>3. effects' \in [Command -> Nat]
      BY <1>1, <3>1
    <3> QED BY <1>2, <2>2, <3>1, <3>2, <3>3
  <2>4. CASE DeadlineOutcome(now, Until(c)) # "applied"
    BY <1>2, <1>3, <2>2, <2>4 DEF FirstDelivery
  <2> QED BY <2>3, <2>4
<1>4. CASE Retry(c)
  <2>1. RetryOutcome(now, Until(c), cache[c].known) \in Outcome
    BY DEF RetryOutcome, Outcome
  <2>2. reply' \in Reply
    BY <1>4, <2>1, RememberedReleases DEF Retry, Reply
  <2> QED BY <1>2, <1>4, <2>2 DEF Retry
<1> QED BY <1>3, <1>4 DEF Deliver

LEMMA StepTypeOK == TypeOK /\ [Next]_vars => TypeOK'
<1> SUFFICES ASSUME TypeOK, [Next]_vars PROVE TypeOK'
  OBVIOUS
<1>1. ASSUME NEW g \in Grant, IssueGrant(g) \/ Present(g) \/ Talk(g) \/ Depart(g)
      PROVE  TypeOK'
  BY <1>1 DEF TypeOK, IssueGrant, Present, Talk, Depart
<1>2. ASSUME NEW s \in Service, AdministrativeChange(s) PROVE TypeOK'
  BY <1>2 DEF TypeOK, AdministrativeChange
<1>3. ASSUME NEW c \in Command, Deliver(c) PROVE TypeOK'
  BY <1>3, DeliverTypeOK
<1>4. ASSUME NEW c \in Command, RemoveRule(c) PROVE TypeOK'
  BY <1>4 DEF TypeOK, RemoveRule, Ack
<1>5. ASSUME NEW c \in Command, ForgetAck(c) PROVE TypeOK'
  BY <1>5 DEF TypeOK, ForgetAck, CachedAck
<1>6. CASE Restart
  BY <1>6 DEF TypeOK, Restart, CachedAck
<1>7. CASE Tick
  BY <1>7 DEF TypeOK, Tick
<1>8. CASE UNCHANGED vars
  BY <1>8 DEF TypeOK, vars
<1> QED BY <1>1, <1>2, <1>3, <1>4, <1>5, <1>6, <1>7, <1>8 DEF Next

\* Variables keep their types: every membership has an issued grant and every
\* talk a membership, through revocations, retries and restarts.
THEOREM TypeCorrect == Spec => []TypeOK
<1>1. Init => TypeOK
  BY DEF Init, TypeOK, Ack, CachedAck, Reply
<1> QED BY <1>1, StepTypeOK, PTL DEF Spec

\* Time only ends rules, so that a grant that no rule denies stays so unless a
\* rule is added.
LEMMA DeniedOnlyByNewRules ==
  ASSUME TypeOK, now' \in Nat, now' >= now, NEW g,
         \A c \in Command : rules'[c].known => rules[c].known,
         ~DeniedByRule(g)
  PROVE  ~DeniedByRule(g)'
BY CommandAssumption DEF TypeOK, DeniedByRule, Active, MatchesRule, Until

LEMMA DeliverDenied ==
  ASSUME IInv, NEW c \in Command, Deliver(c)
  PROVE  DeniedStayOut'
<1> USE DEF IInv
<1>1. now' = now
  BY DEF Deliver
<1>2. CASE Retry(c)
  BY <1>1, <1>2 DEF Retry, DeniedStayOut, DeniedByRule, Active, MatchesRule, Until
<1>3. CASE FirstDelivery(c) /\ DeadlineOutcome(now, Until(c)) # "applied"
  BY <1>1, <1>3 DEF FirstDelivery, DeniedStayOut, DeniedByRule, Active, MatchesRule, Until
<1>4. CASE FirstDelivery(c) /\ DeadlineOutcome(now, Until(c)) = "applied"
  <2>1. present' = {g \in present : ~MatchesRule(c, g)}
    BY <1>4 DEF FirstDelivery
  <2>2. \A d \in Command : d # c => rules'[d] = rules[d]
    BY <1>4 DEF FirstDelivery, TypeOK
  <2>3. ASSUME NEW g \in present', NEW d \in Command, Active(d)', MatchesRule(d, g)
        PROVE  FALSE
    <3>1. CASE d = c
      BY <2>1, <2>3, <3>1
    <3>2. CASE d # c
      <4>1. Active(d)
        BY <1>1, <2>2, <2>3, <3>2 DEF Active
      <4> QED BY <2>1, <2>3, <4>1 DEF DeniedStayOut, DeniedByRule
    <3> QED BY <3>1, <3>2
  <2> QED BY <2>3 DEF DeniedStayOut, DeniedByRule, MatchesRule
<1> QED BY <1>2, <1>3, <1>4 DEF Deliver

LEMMA StepDenied == IInv /\ [Next]_vars => DeniedStayOut'
<1> SUFFICES ASSUME IInv, [Next]_vars PROVE DeniedStayOut'
  OBVIOUS
<1> USE DEF IInv
<1>1. ASSUME NEW g \in Grant, Present(g) PROVE DeniedStayOut'
  BY <1>1 DEF Present, DeniedStayOut, DeniedByRule, Active, MatchesRule, Until
<1>2. ASSUME NEW c \in Command, Deliver(c) PROVE DeniedStayOut'
  BY <1>2, DeliverDenied
<1>3. ASSUME /\ present' \subseteq present
             /\ now' \in Nat /\ now' >= now
             /\ \A c \in Command : rules'[c].known => rules[c].known
      PROVE  DeniedStayOut'
  BY <1>3, DeniedOnlyByNewRules DEF DeniedStayOut
<1>4. ASSUME NEW g \in Grant, IssueGrant(g) \/ Talk(g) \/ Depart(g) PROVE DeniedStayOut'
  BY <1>3, <1>4 DEF IssueGrant, Talk, Depart, TypeOK
<1>5. ASSUME NEW s \in Service, AdministrativeChange(s) PROVE DeniedStayOut'
  BY <1>3, <1>5 DEF AdministrativeChange, TypeOK
<1>6. ASSUME NEW c \in Command, RemoveRule(c) \/ ForgetAck(c) PROVE DeniedStayOut'
  <2>1. \A d \in Command : rules'[d].known => rules[d].known
    BY <1>6 DEF RemoveRule, ForgetAck, TypeOK, NoAck
  <2> QED BY <1>3, <1>6, <2>1 DEF RemoveRule, ForgetAck, TypeOK
<1>7. CASE Restart \/ Tick \/ UNCHANGED vars
  BY <1>3, <1>7 DEF Restart, Tick, vars, TypeOK
<1> QED BY <1>1, <1>2, <1>4, <1>5, <1>6, <1>7 DEF Next

\* No membership is left or let in against a rule in force, whatever is
\* presented, repeated, forgotten or restarted, for any overlap of rules.
THEOREM DeniedAreOut == Spec => []DeniedStayOut
<1>1. Init => IInv
  BY DEF Init, IInv, TypeOK, Ack, CachedAck, Reply, DeniedStayOut
<1>2. IInv /\ [Next]_vars => IInv'
  BY StepTypeOK, StepDenied DEF IInv
<1>3. IInv => DeniedStayOut
  BY DEF IInv
<1> QED BY <1>1, <1>2, <1>3, PTL DEF Spec

-----------------------------------------------------------------------------
\* A command is carried out before its deadline only.
LEMMA AppliedInTime ==
  ASSUME TypeOK, NEW c \in Command, DeadlineOutcome(now, Until(c)) = "applied"
  PROVE  now < Until(c)
BY CommandAssumption DEF DeadlineOutcome, Until, TypeOK

LEMMA StepRuleLasts ==
  ASSUME TypeOK, [Next]_vars, NEW c \in Command
  PROVE  /\ Active(c) /\ now' < Until(c) => rules'[c] = rules[c]
         /\ now' >= Until(c) => (rules'[c].known => rules[c].known)
<1> Until(c) \in Nat /\ now \in Nat
  BY CommandAssumption DEF Until, TypeOK
<1>1. ASSUME NEW d \in Command, FirstDelivery(d), now' = now
      PROVE  /\ Active(c) /\ now' < Until(c) => rules'[c] = rules[c]
             /\ now' >= Until(c) => (rules'[c].known => rules[c].known)
  <2>1. CASE d = c
    <3>1. CASE DeadlineOutcome(now, Until(c)) = "applied"
      BY <1>1, <2>1, <3>1, AppliedInTime DEF FirstDelivery, Active
    <3>2. CASE DeadlineOutcome(now, Until(c)) # "applied"
      BY <1>1, <2>1, <3>2 DEF FirstDelivery
    <3> QED BY <3>1, <3>2
  <2>2. CASE d # c
    BY <1>1, <2>2 DEF FirstDelivery, TypeOK
  <2> QED BY <2>1, <2>2
<1>2. ASSUME NEW d \in Command, RemoveRule(d)
      PROVE  /\ Active(c) /\ now' < Until(c) => rules'[c] = rules[c]
             /\ now' >= Until(c) => (rules'[c].known => rules[c].known)
  <2>1. now' = now /\ rules' = [rules EXCEPT ![d] = NoAck] /\ now >= Until(d)
    BY <1>2 DEF RemoveRule
  <2>2. CASE d = c
    BY <2>1, <2>2 DEF TypeOK, NoAck
  <2>3. CASE d # c
    BY <2>1, <2>3 DEF TypeOK
  <2> QED BY <2>2, <2>3
<1>3. CASE rules' = rules
  BY <1>3
<1>4. rules' = rules \/ \E d \in Command : (FirstDelivery(d) /\ now' = now) \/ RemoveRule(d)
  BY DEF Next, vars, IssueGrant, Present, Talk, Depart, AdministrativeChange, Deliver, Retry,
         ForgetAck, Restart, Tick
<1> QED BY <1>1, <1>2, <1>3, <1>4

\* A rule is in force from its acknowledgement to its deadline and never after:
\* no step but the clock ends it and no late command brings it back.
THEOREM RulesLast == Spec => RuleLastsUntilDeadline
<1>1. TypeOK /\ [Next]_vars
        => [\A c \in Command :
              /\ Active(c) /\ now' < Until(c) => rules'[c] = rules[c]
              /\ now' >= Until(c) => (rules'[c].known => rules[c].known)]_vars
  BY StepRuleLasts
<1> QED BY <1>1, TypeCorrect, PTL DEF Spec, RuleLastsUntilDeadline
-----------------------------------------------------------------------------
\* A command that is neither remembered nor late has had no effect, and one
\* that took effect is remembered until its deadline.
AppliedIsRemembered ==
  \A c \in Command :
    ~rules[c].known /\ now < Until(c) => effects[c] = 0 /\ c \notin applied

OInv == TypeOK /\ AppliedIsRemembered /\ EffectsOnce

LEMMA StepRemembered == TypeOK /\ AppliedIsRemembered /\ [Next]_vars => AppliedIsRemembered'
<1> SUFFICES ASSUME TypeOK, AppliedIsRemembered, [Next]_vars,
                    NEW c \in Command, ~rules'[c].known, now' < Until(c)
             PROVE  effects'[c] = 0 /\ c \notin applied'
  BY DEF AppliedIsRemembered, Until
<1> Until(c) \in Nat /\ now \in Nat
  BY CommandAssumption DEF Until, TypeOK
<1>1. ASSUME NEW d \in Command, FirstDelivery(d), now' = now
      PROVE  effects'[c] = 0 /\ c \notin applied'
  <2>1. CASE DeadlineOutcome(now, Until(d)) # "applied"
    BY <1>1, <2>1 DEF FirstDelivery, AppliedIsRemembered
  <2>2. CASE DeadlineOutcome(now, Until(d)) = "applied" /\ d = c
    BY <1>1, <2>2 DEF FirstDelivery, TypeOK
  <2>3. CASE DeadlineOutcome(now, Until(d)) = "applied" /\ d # c
    BY <1>1, <2>3 DEF FirstDelivery, TypeOK, AppliedIsRemembered
  <2> QED BY <2>1, <2>2, <2>3
<1>2. ASSUME NEW d \in Command, RemoveRule(d)
      PROVE  effects'[c] = 0 /\ c \notin applied'
  BY <1>2 DEF RemoveRule, TypeOK, AppliedIsRemembered
<1>3. ASSUME rules' = rules, effects' = effects, applied' = applied, now' \in Nat, now' >= now
      PROVE  effects'[c] = 0 /\ c \notin applied'
  BY <1>3 DEF AppliedIsRemembered
<1>4. \/ \E d \in Command : (FirstDelivery(d) /\ now' = now) \/ RemoveRule(d)
      \/ rules' = rules /\ effects' = effects /\ applied' = applied /\ now' \in Nat /\ now' >= now
  BY DEF Next, vars, IssueGrant, Present, Talk, Depart, AdministrativeChange, Deliver, Retry,
         ForgetAck, Restart, Tick
<1> QED BY <1>1, <1>2, <1>3, <1>4

\* The first delivery counts the releases of its own command and no other's.
LEMMA FirstDeliveryOnce ==
  ASSUME OInv, NEW d \in Command, FirstDelivery(d), now' = now
  PROVE  EffectsOnce'
<1> USE DEF OInv
<1> DEFINE releases == Cardinality({g \in present : MatchesRule(d, g)} \cap talking)
<1>1. releases \in Nat
  <2>1. {g \in present : MatchesRule(d, g)} \in SUBSET Grant
    BY DEF TypeOK
  <2> QED BY <2>1, ReleasesAreCounted
<1>2. CASE DeadlineOutcome(now, Until(d)) # "applied"
  <2>1. /\ reply'.outcome \notin {"applied", "cached_original_ack", "durable_original_ack"}
        /\ UNCHANGED <<rules, cache, effects>>
    BY <1>2 DEF FirstDelivery, DeadlineOutcome
  <2> QED BY <2>1 DEF EffectsOnce
<1>3. CASE DeadlineOutcome(now, Until(d)) = "applied"
  <2>1. effects[d] = 0
    BY <1>3, AppliedInTime DEF FirstDelivery, AppliedIsRemembered
  <2> HIDE DEF releases
  <2>2. /\ rules' = [rules EXCEPT ![d] = [known |-> TRUE, releases |-> releases]]
        /\ cache' = [cache EXCEPT ![d] = [known |-> TRUE, releases |-> releases, at |-> now]]
        /\ effects' = [effects EXCEPT ![d] = @ + releases]
        /\ reply' = [outcome |-> "applied", command |-> d, cached |-> FALSE, releases |-> releases]
    BY <1>3 DEF FirstDelivery, releases
  <2>3. /\ effects'[d] = releases
        /\ \A c \in Command : c # d => effects'[c] = effects[c]
    BY <1>1, <2>1, <2>2 DEF TypeOK
  <2>4. /\ rules'[d].releases = releases /\ cache'[d].releases = releases
        /\ \A c \in Command : c # d => rules'[c] = rules[c] /\ cache'[c] = cache[c]
    BY <2>2 DEF TypeOK
  <2>5. reply'.releases = effects'[reply'.command]
    BY <2>2, <2>3
  <2> QED BY <2>3, <2>4, <2>5 DEF EffectsOnce
<1> QED BY <1>2, <1>3

LEMMA RetryOnce ==
  ASSUME OInv, NEW d \in Command, Retry(d)
  PROVE  EffectsOnce'
<1> USE DEF OInv
<1>1. UNCHANGED <<rules, cache, effects>>
  BY DEF Retry
<1>2. reply'.outcome \in {"applied", "cached_original_ack", "durable_original_ack"}
        => reply'.releases = effects'[reply'.command]
  BY <1>1, RememberedReleases DEF Retry, RetryOutcome, EffectsOnce
<1> QED BY <1>1, <1>2 DEF EffectsOnce

LEMMA StepOnce == OInv /\ [Next]_vars => EffectsOnce'
<1> SUFFICES ASSUME OInv, [Next]_vars PROVE EffectsOnce'
  OBVIOUS
<1> USE DEF OInv
<1>1. ASSUME NEW d \in Command, Deliver(d) PROVE EffectsOnce'
  BY <1>1, FirstDeliveryOnce, RetryOnce DEF Deliver
<1>2. ASSUME UNCHANGED <<effects, reply>>,
             \A c \in Command : /\ rules'[c] = rules[c] \/ ~rules'[c].known
                                /\ cache'[c] = cache[c] \/ ~cache'[c].known
      PROVE  EffectsOnce'
  BY <1>2 DEF EffectsOnce
<1>3. ASSUME NEW d \in Command, RemoveRule(d) \/ ForgetAck(d) PROVE EffectsOnce'
  <2>1. \A c \in Command : /\ rules'[c] = rules[c] \/ ~rules'[c].known
                           /\ cache'[c] = cache[c] \/ ~cache'[c].known
    BY <1>3 DEF RemoveRule, ForgetAck, TypeOK, NoAck
  <2> QED BY <1>2, <1>3, <2>1 DEF RemoveRule, ForgetAck
<1>4. CASE Restart
  <2>1. \A c \in Command : ~cache'[c].known
    BY <1>4 DEF Restart, NoAck
  <2> QED BY <1>2, <1>4, <2>1 DEF Restart
<1>5. CASE UNCHANGED <<rules, cache, effects, reply>>
  BY <1>2, <1>5
<1>6. \/ \E d \in Command : Deliver(d) \/ RemoveRule(d) \/ ForgetAck(d)
      \/ Restart
      \/ UNCHANGED <<rules, cache, effects, reply>>
  BY DEF Next, vars, IssueGrant, Present, Talk, Depart, AdministrativeChange, Tick
<1> QED BY <1>1, <1>3, <1>4, <1>5, <1>6

\* However often a command is repeated, forgotten and found again, it releases
\* its talks once and every acknowledgement before the deadline says so.
THEOREM EffectsHappenOnce == Spec => []EffectsOnce
<1>1. Init => OInv
  BY DEF Init, OInv, TypeOK, Ack, CachedAck, Reply, AppliedIsRemembered, EffectsOnce, NoAck
<1>2. OInv /\ [Next]_vars => OInv'
  BY StepTypeOK, StepRemembered, StepOnce DEF OInv
<1>3. OInv => EffectsOnce
  BY DEF OInv
<1> QED BY <1>1, <1>2, <1>3, PTL DEF Spec

-----------------------------------------------------------------------------
\* A grant that ends no later than the rule can only be presented while the
\* rule is in force.
LEMMA StepGone ==
  TypeOK /\ AppliedIsRemembered /\ RevokedGrantIsGone /\ [Next]_vars => RevokedGrantIsGone'
<1> SUFFICES ASSUME TypeOK, AppliedIsRemembered, RevokedGrantIsGone, [Next]_vars,
                    NEW c \in applied', NEW g \in present', MatchesRule(c, g)
             PROVE  GrantClaims[g].exp > Until(c)
  BY DEF RevokedGrantIsGone, MatchesRule, Until
<1>1. CASE c \in applied /\ g \in present
  BY <1>1 DEF RevokedGrantIsGone
<1>2. CASE c \in applied /\ g \notin present
  <2>1. Present(g)
    BY <1>2 DEF Next, vars, IssueGrant, Present, Talk, Depart, AdministrativeChange, Deliver,
                FirstDelivery, Retry, RemoveRule, ForgetAck, Restart, Tick
  <2>2. /\ c \in Command /\ Until(c) \in Nat /\ now \in Nat
        /\ g \in Grant /\ GrantClaims[g].exp \in Nat /\ now < GrantClaims[g].exp
    BY <1>2, <2>1, CommandAssumption, GrantAssumption DEF TypeOK, Until, Present
  <2>3. ~(now < Until(c))
    BY <1>2, <2>1, <2>2 DEF AppliedIsRemembered, Present, DeniedByRule, Active
  <2> QED BY <2>2, <2>3
<1>3. CASE c \notin applied
  <2>1. FirstDelivery(c) /\ DeadlineOutcome(now, Until(c)) = "applied"
    <3>1. PICK d \in Command : FirstDelivery(d) /\ applied' # applied
      BY <1>3 DEF Next, vars, IssueGrant, Present, Talk, Depart, AdministrativeChange, Deliver,
                  Retry, RemoveRule, ForgetAck, Restart, Tick
    <3>2. DeadlineOutcome(now, Until(d)) = "applied" /\ applied' = applied \cup {d}
      BY <3>1 DEF FirstDelivery
    <3> QED BY <1>3, <3>1, <3>2
  <2>2. present' = present \ {h \in present : MatchesRule(c, h)}
    BY <2>1 DEF FirstDelivery
  <2> QED BY <2>2
<1> QED BY <1>1, <1>2, <1>3

\* Once revoked, a grant that the rule outlives never has a membership again,
\* not even when the rule is gone.
THEOREM RevokedIsGone == Spec => []RevokedGrantIsGone
<1> DEFINE GInv == TypeOK /\ AppliedIsRemembered /\ RevokedGrantIsGone
<1>1. Init => GInv
  BY DEF Init, TypeOK, Ack, CachedAck, Reply, AppliedIsRemembered, RevokedGrantIsGone, NoAck
<1>2. GInv /\ [Next]_vars => GInv'
  BY StepTypeOK, StepRemembered, StepGone
<1>3. GInv => RevokedGrantIsGone
  OBVIOUS
<1> QED BY <1>1, <1>2, <1>3, PTL DEF Spec
=============================================================================
