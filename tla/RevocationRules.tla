--------------------------- MODULE RevocationRules ---------------------------
(***************************************************************************)
(* Remote revocation of Managed Service Admission over the Private Control *)
(* Link.  The Management Service revokes by commands that install a deny   *)
(* rule at the Relay until an absolute deadline; it repeats a command that *)
(* is not acknowledged, so the Relay sees the same command again before    *)
(* and after the deadline, before and after its idempotency cache forgot   *)
(* it, and after a restart that kept only the durable rules.  Meanwhile    *)
(* services present their grants.                                          *)
(***************************************************************************)
EXTENDS Integers, FiniteSets

CONSTANTS
  Grant,         \* service admission grants, by their hash
  GrantClaims,   \* [service, channel, exp, talks] of each grant; exp is its
                 \* last moment, a grace included
  Command,       \* revoke_service_admission commands, by message_id
  CommandBody,   \* [channel, service, grant, until]: selector and deny_until
  Unset,         \* a selector field that a command leaves out
  CommandWindow, \* seconds deny_until may lie ahead: 5400 in the code
  Retention,     \* seconds the idempotency cache keeps an acknowledgement
  PclEnabled,    \* whether the deployment has the Private Control Link
  Horizon        \* bound: the clock stops here

ASSUME GrantAssumption ==
  /\ IsFiniteSet(Grant)
  /\ \A g \in Grant : GrantClaims[g].exp \in Nat /\ GrantClaims[g].talks \in BOOLEAN
ASSUME CommandAssumption ==
  \A c \in Command :
    /\ CommandBody[c].until \in Nat
    /\ CommandBody[c].service # Unset \/ CommandBody[c].grant # Unset
    /\ \A g \in Grant : CommandBody[c].grant = g => CommandBody[c].until <= GrantClaims[g].exp
ASSUME BoundsAssumption ==
  /\ CommandWindow \in Nat /\ Retention \in Nat /\ Horizon \in Nat
  /\ PclEnabled \in BOOLEAN

Service == {GrantClaims[g].service : g \in Grant}
Until(c) == CommandBody[c].until

NoAck == [known |-> FALSE]     \* nothing remembered of a command

VARIABLES
  now,      \* the Relay's UTC clock
  disabled, \* services the administrator has disabled or removed
  issued,   \* grants the Management Service has issued
  present,  \* grants with a membership on the Relay
  talking,  \* those whose endpoint is an active talker
  rules,    \* durable: the deny rule of each command, with its acknowledgement
  cache,    \* in memory: the acknowledgement and when it was sent
  reply,    \* the acknowledgement sent last
  effects,  \* history: TALK_RELEASEs caused by each command, by any delivery
  applied   \* history: the commands that took effect

vars == <<now, disabled, issued, present, talking, rules, cache, reply, effects, applied>>

-----------------------------------------------------------------------------
(* Decisions of the validator.                                             *)

\* The selector of a rule is conjunctive; a field left out matches everything.
MatchesRule(c, g) ==
  LET body == CommandBody[c]
  IN  /\ GrantClaims[g].channel = body.channel
      /\ body.service # Unset => GrantClaims[g].service = body.service
      /\ body.grant # Unset => g = body.grant

DeadlineOutcome(accepted_at, deny_until) ==
  IF deny_until > accepted_at + CommandWindow THEN "invalid_revocation_deadline"
  ELSE IF deny_until <= accepted_at THEN "already_expired"
  ELSE "applied"

\* The acknowledgement of a repeated command.
RetryOutcome(retry_at, deny_until, cache_retained) ==
  IF retry_at >= deny_until THEN "already_expired"
  ELSE IF cache_retained THEN "cached_original_ack"
  ELSE "durable_original_ack"

Outcome == {"none", "invalid_revocation_deadline", "already_expired", "applied",
            "cached_original_ack", "durable_original_ack"}

Active(c) == rules[c].known /\ now < Until(c)
DeniedByRule(g) == \E c \in Command : Active(c) /\ MatchesRule(c, g)

-----------------------------------------------------------------------------
Init ==
  /\ now = 0
  /\ disabled = {}
  /\ issued = {}
  /\ present = {}
  /\ talking = {}
  /\ rules = [c \in Command |-> NoAck]
  /\ cache = [c \in Command |-> NoAck]
  /\ reply = [outcome |-> "none"]
  /\ effects = [c \in Command |-> 0]
  /\ applied = {}

\* The Management Service issues a grant, but not to a service it disabled.
IssueGrant(g) ==
  /\ g \notin issued
  /\ GrantClaims[g].service \notin disabled
  /\ issued' = issued \cup {g}
  /\ UNCHANGED <<now, disabled, present, talking, rules, cache, reply, effects, applied>>

\* acl_removed, grant_revoked or service_disabled: no new grants from here on.
AdministrativeChange(s) ==
  /\ s \notin disabled
  /\ disabled' = disabled \cup {s}
  /\ UNCHANGED <<now, issued, present, talking, rules, cache, reply, effects, applied>>

\* Mutant of Present: the rules are not consulted.
PresentUnchecked(g) ==
  /\ g \in issued \ present
  /\ now < GrantClaims[g].exp
  /\ present' = present \cup {g}
  /\ UNCHANGED <<now, disabled, issued, talking, rules, cache, reply, effects, applied>>

\* A service presents a grant that the Relay's own validation accepts.
Present(g) ==
  /\ g \in issued \ present
  /\ now < GrantClaims[g].exp
  /\ ~DeniedByRule(g)
  /\ present' = present \cup {g}
  /\ UNCHANGED <<now, disabled, issued, talking, rules, cache, reply, effects, applied>>

Talk(g) ==
  /\ g \in present \ talking /\ GrantClaims[g].talks
  /\ talking' = talking \cup {g}
  /\ UNCHANGED <<now, disabled, issued, present, rules, cache, reply, effects, applied>>

\* The membership ends for another reason than a revocation.
Depart(g) ==
  /\ g \in present
  /\ present' = present \ {g}
  /\ talking' = talking \ {g}
  /\ UNCHANGED <<now, disabled, issued, rules, cache, reply, effects, applied>>

\* The command of a disabled service, or of one of its grants, reaches the
\* Relay for the first time: within the window it commits the durable rule,
\* removes every matching membership and releases those that talk.
FirstDelivery(c) ==
  LET outcome == DeadlineOutcome(now, Until(c))
      matching == {g \in present : MatchesRule(c, g)}
      releases == Cardinality(matching \cap talking)
      ack == [known |-> TRUE, releases |-> releases]
  IN  /\ ~rules[c].known /\ ~cache[c].known
      /\ reply' = [outcome |-> outcome, command |-> c, cached |-> FALSE,
                   releases |-> IF outcome = "applied" THEN releases ELSE 0]
      /\ IF outcome = "applied"
         THEN /\ rules' = [rules EXCEPT ![c] = ack]
              /\ cache' = [cache EXCEPT ![c] = [known |-> TRUE, releases |-> releases,
                                                at |-> now]]
              /\ present' = present \ matching
              /\ talking' = talking \ matching
              /\ effects' = [effects EXCEPT ![c] = @ + releases]
              /\ applied' = applied \cup {c}
         ELSE UNCHANGED <<present, talking, rules, cache, effects, applied>>

\* Mutant of Retry: the repeated command is carried out again.
RetryReapplies(c) ==
  LET matching == {g \in present : MatchesRule(c, g)}
      releases == Cardinality(matching \cap talking)
  IN  /\ rules[c].known \/ cache[c].known
      /\ reply' = [outcome |-> RetryOutcome(now, Until(c), cache[c].known), command |-> c,
                   cached |-> cache[c].known, releases |-> releases]
      /\ present' = present \ matching
      /\ talking' = talking \ matching
      /\ effects' = [effects EXCEPT ![c] = @ + releases]
      /\ UNCHANGED <<rules, cache, applied>>

\* The identical command again: its acknowledgement and no further effect.
Retry(c) ==
  LET outcome == RetryOutcome(now, Until(c), cache[c].known)
  IN  /\ rules[c].known \/ cache[c].known
      /\ reply' = [outcome |-> outcome, command |-> c, cached |-> cache[c].known,
                   releases |-> IF outcome = "already_expired" THEN 0
                                ELSE IF cache[c].known THEN cache[c].releases
                                ELSE rules[c].releases]
      /\ UNCHANGED <<present, talking, rules, cache, effects, applied>>

Deliver(c) ==
  /\ PclEnabled
  /\ \E s \in disabled : CommandBody[c].service \in {s, Unset}
  /\ FirstDelivery(c) \/ Retry(c)
  /\ UNCHANGED <<now, disabled, issued>>

\* The rule is removed at its deadline.
RemoveRule(c) ==
  /\ rules[c].known /\ now >= Until(c)
  /\ rules' = [rules EXCEPT ![c] = NoAck]
  /\ UNCHANGED <<now, disabled, issued, present, talking, cache, reply, effects, applied>>

\* The cache may forget an acknowledgement once the retention is over.
ForgetAck(c) ==
  /\ cache[c].known /\ now >= cache[c].at + Retention
  /\ cache' = [cache EXCEPT ![c] = NoAck]
  /\ UNCHANGED <<now, disabled, issued, present, talking, rules, reply, effects, applied>>

\* Mutant of Restart: the deny rules are held in memory only.
RestartLosesRules ==
  /\ present' = {} /\ talking' = {}
  /\ cache' = [c \in Command |-> NoAck]
  /\ rules' = [c \in Command |-> NoAck]
  /\ UNCHANGED <<now, disabled, issued, reply, effects, applied>>

\* Memberships and the cache are lost, the durable rules are restored.
Restart ==
  /\ present' = {} /\ talking' = {}
  /\ cache' = [c \in Command |-> NoAck]
  /\ UNCHANGED <<now, disabled, issued, rules, reply, effects, applied>>

Tick ==
  /\ now < Horizon
  /\ now' = now + 1
  /\ UNCHANGED <<disabled, issued, present, talking, rules, cache, reply, effects, applied>>

Next ==
  \/ \E g \in Grant : IssueGrant(g) \/ Present(g) \/ Talk(g) \/ Depart(g)
  \/ \E s \in Service : AdministrativeChange(s)
  \/ \E c \in Command : Deliver(c) \/ RemoveRule(c) \/ ForgetAck(c)
  \/ Restart
  \/ Tick

Spec == Init /\ [][Next]_vars

-----------------------------------------------------------------------------
Ack == {NoAck} \cup [known : {TRUE}, releases : Nat]
CachedAck == {NoAck} \cup [known : {TRUE}, releases : Nat, at : Nat]
Reply == {[outcome |-> "none"]}
         \cup [outcome : Outcome, command : Command, cached : BOOLEAN, releases : Nat]

\* Variables keep their types: a membership needs an issued grant, a talk a
\* membership.
TypeOK ==
  /\ now \in Nat
  /\ disabled \subseteq Service
  /\ issued \subseteq Grant
  /\ present \subseteq issued
  /\ talking \subseteq present
  /\ rules \in [Command -> Ack]
  /\ cache \in [Command -> CachedAck]
  /\ reply \in Reply
  /\ effects \in [Command -> Nat]
  /\ applied \subseteq Command

\* While a rule is in force no matching grant has a membership, whatever is
\* presented, retried, renewed, forgotten or restarted in the meantime.
DeniedStayOut == \A g \in present : ~DeniedByRule(g)

\* A command takes effect once: all its deliveries together released exactly
\* what its acknowledgement reports, and every repetition before the deadline
\* reports the same, from the cache or from the durable rule.
EffectsOnce ==
  \A c \in Command :
    /\ rules[c].known => effects[c] = rules[c].releases
    /\ cache[c].known => effects[c] = cache[c].releases
    /\ reply.outcome \in {"applied", "cached_original_ack", "durable_original_ack"}
         => reply.releases = effects[reply.command]

\* A rule that was acknowledged is in force until its deadline: nothing but
\* the clock ends it, and nothing brings it back.
RuleLastsUntilDeadline ==
  [][\A c \in Command :
       /\ Active(c) /\ now' < Until(c) => rules'[c] = rules[c]
       /\ now' >= Until(c) => (rules'[c].known => rules[c].known)]_vars

\* A grant that does not outlive the rule never returns once it was revoked,
\* even after the rule is gone.
RevokedGrantIsGone ==
  \A c \in applied, g \in present :
    MatchesRule(c, g) => GrantClaims[g].exp > Until(c)

\* What a documented duplicate must do: while the cache still holds the
\* acknowledgement of a command, a repetition resends it.
DuplicateResendsCachedAck ==
  reply.outcome # "none" /\ reply.cached => reply.outcome = "cached_original_ack"
=============================================================================
