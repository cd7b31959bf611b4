---------------------------- MODULE RelaySession ----------------------------
(***************************************************************************)
(* The Relay's view of one channel: memberships with their lease and their *)
(* admission deadline, talk grants with theirs, and Floor Interrupt, with  *)
(* the decisions the lifecycle validators recompute for every vector.      *)
(*                                                                         *)
(* Deadlines pass on the clock and are acted on later, by a sweep that may *)
(* be late: between the two the Relay still holds the record of a lapsed   *)
(* membership or talk, and packets still arrive for it.  The validators'   *)
(* second and millisecond timelines are one clock of seconds here.         *)
(***************************************************************************)
EXTENDS Integers, FiniteSets

CONSTANTS
  Sender,       \* endpoint identifiers, non-zero numbers
  Policies,     \* server configurations an operator may load
  Admission,    \* the admission each sender joins with
  Control,      \* [mode, configured]: the channel's Control Authentication
  IdentityMode, \* the Relay's Identity Admission mode
  MaxTalkers,   \* active-talker slots of the channel (maximumActiveTalkers)
  Step,         \* seconds the clock advances at a time
  Horizon,      \* bound: the clock stops here
  MaxGrants     \* bound: talk grants per sender

Permission == {"listen", "talk", "interrupt"}
Mode == {"required", "optional", "off"}

\* 15 <= L <= 300 and 1 <= K <= L // 3.
ValidMembershipPair(lease, keepalive) ==
  /\ lease \in 15..300
  /\ keepalive >= 1 /\ keepalive <= lease \div 3

PolicyType == [lease : Nat, keepalive : Nat, maximum : Nat]
AdmissionType == [kind : {"identity", "service"}, perm : SUBSET Permission,
                  priority : 0..255, exp : Nat, grace : Nat]

ASSUME SenderAssumption == Sender \subseteq Nat \ {0} /\ IsFiniteSet(Sender)
ASSUME PoliciesAssumption ==
  /\ Policies \subseteq PolicyType
  /\ \E p \in Policies : ValidMembershipPair(p.lease, p.keepalive)
ASSUME AdmissionAssumption == Admission \in [Sender -> AdmissionType]
ASSUME ControlAssumption == Control \in [mode : Mode, configured : BOOLEAN]
ASSUME BoundsAssumption ==
  /\ MaxTalkers \in Nat \ {0}
  /\ Step \in Nat \ {0}
  /\ Horizon \in Nat
  /\ MaxGrants \in Nat

ReleaseReason ==
  {"CLIENT_PTT_OFF", "SERVER_TALK_TIMEOUT", "MEMBERSHIP_TIMEOUT", "CLIENT_LEAVE",
   "SERVER_POLICY", "IDENTITY_EXPIRED", "SERVICE_ADMISSION_REVOKED", "PREEMPTED",
   "SERVICE_ADMISSION_EXPIRED"}

\* Control packets that refresh a membership; PING and PONG do not.
MembershipRefreshTypes == {"KEEPALIVE", "CODEC_CONFIG", "PTT_ON", "PTT_REQUEST", "PTT_OFF"}

Absent == [present |-> FALSE]  \* no membership, no talk grant
NoDeadline == -1               \* a maximum talk duration of zero

VARIABLES
  now,       \* the Relay's monotonic clock
  policy,    \* the loaded server configuration
  member,    \* the membership of each sender, with the lease taken at JOIN
  talk,      \* the talk grant of each sender
  grants,    \* history: talk grants given to each sender
  releases,  \* history: the TALK_RELEASE reasons broadcast, with their number
  preempted  \* history: pairs of a requester and the talker it replaced

vars == <<now, policy, member, talk, grants, releases, preempted>>

-----------------------------------------------------------------------------
(* Decisions of the validators.                                            *)

\* Whether a control packet passes the channel's Control Authentication.
ControlPacketAccepted(valid, authenticated) ==
  LET authentication_required ==
        \/ Control.mode = "required"
        \/ Control.mode = "optional" /\ Control.configured
  IN  valid /\ (authenticated \/ ~authentication_required)

\* Mutant of AdmissionDeadline: every service keeps its grace.
GraceForAll(a) == IF a.kind = "service" THEN a.exp + a.grace ELSE a.exp

\* Grace is for services that may only listen.
AdmissionDeadline(a) ==
  IF a.kind = "service" /\ "talk" \notin a.perm THEN a.exp + a.grace ELSE a.exp

EffectiveExpiry(normal, a) ==
  IF normal <= AdmissionDeadline(a) THEN normal ELSE AdmissionDeadline(a)

\* Mutant of ExpiryReason: a tie goes to the admission.
TieToAdmission(normal, a) ==
  IF normal < AdmissionDeadline(a) THEN "MEMBERSHIP_TIMEOUT"
  ELSE IF a.kind = "identity" THEN "IDENTITY_EXPIRED"
  ELSE "SERVICE_ADMISSION_EXPIRED"

\* Which of the two deadlines ended a membership; a tie goes to the lease.
ExpiryReason(normal, a) ==
  IF normal <= AdmissionDeadline(a) THEN "MEMBERSHIP_TIMEOUT"
  ELSE IF a.kind = "identity" THEN "IDENTITY_EXPIRED"
  ELSE "SERVICE_ADMISSION_EXPIRED"

TalkDeadline(grant_time, maximum) ==
  IF maximum = 0 THEN NoDeadline ELSE grant_time + maximum

\* Floor Interrupt needs a managed channel and an admission that carries it.
InterruptPermitted(a) ==
  /\ IdentityMode = "required"
  /\ Control.mode = "required"
  /\ {"talk", "interrupt"} \subseteq a.perm
  /\ a.priority > 0

\* Mutant of Below: ties go to the larger sender_id.
BelowTiesLast(v, w) ==
  \/ Admission[v].priority < Admission[w].priority
  \/ Admission[v].priority = Admission[w].priority /\ v >= w

\* The order in which active talkers are picked: priority, then sender_id.
Below(v, w) ==
  \/ Admission[v].priority < Admission[w].priority
  \/ Admission[v].priority = Admission[w].priority /\ v <= w

Victim(active) == CHOOSE v \in active : \A w \in active : Below(v, w)

\* Mutant of MayPreempt: an equal priority is enough.
MayPreemptEqual(r, v) ==
  /\ InterruptPermitted(Admission[r])
  /\ Admission[r].priority >= Admission[v].priority

MayPreempt(r, v) ==
  /\ InterruptPermitted(Admission[r])
  /\ Admission[r].priority > Admission[v].priority

-----------------------------------------------------------------------------
Talkers == {s \in Sender : talk[s].present}
TalkOver(s) == talk[s].deadline # NoDeadline /\ now >= talk[s].deadline
Lapsed(s) ==
  member[s].present /\ now >= EffectiveExpiry(member[s].normal, Admission[s])

\* Mutant of Live: a record not swept yet counts as a membership.
LiveUntilSwept(s) == member[s].present

Live(s) == member[s].present /\ ~Lapsed(s)

Init ==
  /\ now = 0
  /\ policy \in {p \in Policies : ValidMembershipPair(p.lease, p.keepalive)}
  /\ member = [s \in Sender |-> Absent]
  /\ talk = [s \in Sender |-> Absent]
  /\ grants = [s \in Sender |-> 0]
  /\ releases = [s \in Sender |-> [count |-> 0, last |-> "CLIENT_PTT_OFF"]]
  /\ preempted = {}

\* Mutant of Refreshed: the lease of the loaded configuration is used.
RefreshedFromPolicy(s) == [member EXCEPT ![s].normal = now + policy.lease]

\* An accepted packet of s moves its lease deadline.
Refreshed(s) == [member EXCEPT ![s].normal = now + member[s].lease]

NewGrant(t, s) ==
  [t EXCEPT ![s] = [present |-> TRUE, deadline |-> TalkDeadline(now, policy.maximum)]]

\* TALK_RELEASE for s is broadcast.
Released(s, reason) ==
  [releases EXCEPT ![s] = [count |-> @.count + 1, last |-> reason]]

\* JOIN accepted: the timing policy of the moment becomes the snapshot.
Join(s) ==
  /\ ~member[s].present
  /\ now < Admission[s].exp
  /\ member' = [member EXCEPT ![s] =
                 [present |-> TRUE, lease |-> policy.lease,
                  keepalive |-> policy.keepalive, normal |-> now + policy.lease]]
  /\ UNCHANGED <<now, policy, talk, grants, releases, preempted>>

\* A packet without floor control: KEEPALIVE and CODEC_CONFIG refresh, PING and
\* PONG leave everything as it was.
Refresh(s, type, valid, authenticated) ==
  /\ ControlPacketAccepted(valid, authenticated)
  /\ type \in MembershipRefreshTypes
  /\ Live(s)
  /\ member' = Refreshed(s)
  /\ UNCHANGED <<now, policy, talk, grants, releases, preempted>>

\* Mutant of PttOn: a repeated PTT_ON starts the talk lease again.
PttOnRestarts(s, valid, authenticated) ==
  /\ ControlPacketAccepted(valid, authenticated)
  /\ Live(s)
  /\ member' = Refreshed(s)
  /\ IF talk[s].present \/ (/\ "talk" \in Admission[s].perm
                            /\ Cardinality(Talkers) < MaxTalkers
                            /\ grants[s] < MaxGrants)
     THEN /\ talk' = NewGrant(talk, s)
          /\ grants' = IF talk[s].present THEN grants ELSE [grants EXCEPT ![s] = @ + 1]
     ELSE UNCHANGED <<talk, grants>>
  /\ UNCHANGED <<now, policy, releases, preempted>>

\* PTT_ON: a grant when a slot is free, else a denial; repeated by a talker it
\* changes nothing of the grant.  The membership is refreshed in every case.
PttOn(s, valid, authenticated) ==
  /\ ControlPacketAccepted(valid, authenticated)
  /\ Live(s)
  /\ member' = Refreshed(s)
  /\ IF /\ ~talk[s].present
        /\ "talk" \in Admission[s].perm
        /\ Cardinality(Talkers) < MaxTalkers
        /\ grants[s] < MaxGrants
     THEN /\ talk' = NewGrant(talk, s)
          /\ grants' = [grants EXCEPT ![s] = @ + 1]
     ELSE UNCHANGED <<talk, grants>>
  /\ UNCHANGED <<now, policy, releases, preempted>>

\* Mutant of PttOff: every PTT_OFF is answered with a broadcast.
PttOffAlwaysReleases(s, valid, authenticated) ==
  /\ ControlPacketAccepted(valid, authenticated)
  /\ Live(s) /\ releases[s].count < 2
  /\ member' = Refreshed(s)
  /\ talk' = [talk EXCEPT ![s] = Absent]
  /\ releases' = Released(s, "CLIENT_PTT_OFF")
  /\ UNCHANGED <<now, policy, grants, preempted>>

\* PTT_OFF: CLIENT_PTT_OFF for the talker, harmless for anybody else.
PttOff(s, valid, authenticated) ==
  /\ ControlPacketAccepted(valid, authenticated)
  /\ Live(s)
  /\ member' = Refreshed(s)
  /\ IF talk[s].present
     THEN /\ talk' = [talk EXCEPT ![s] = Absent]
          /\ releases' = Released(s, "CLIENT_PTT_OFF")
     ELSE UNCHANGED <<talk, releases>>
  /\ UNCHANGED <<now, policy, grants, preempted>>

\* PTT_REQUEST: a free slot, or the slot of the lowest talker if it is lower.
PttRequest(s, valid, authenticated) ==
  /\ ControlPacketAccepted(valid, authenticated)
  /\ Live(s)
  /\ member' = Refreshed(s)
  /\ IF talk[s].present \/ ~InterruptPermitted(Admission[s]) \/ grants[s] >= MaxGrants
     THEN UNCHANGED <<talk, grants, releases, preempted>>
     ELSE IF Cardinality(Talkers) < MaxTalkers
     THEN /\ talk' = NewGrant(talk, s)
          /\ grants' = [grants EXCEPT ![s] = @ + 1]
          /\ UNCHANGED <<releases, preempted>>
     ELSE LET v == Victim(Talkers)
          IN  IF MayPreempt(s, v)
              THEN /\ talk' = NewGrant([talk EXCEPT ![v] = Absent], s)
                   /\ grants' = [grants EXCEPT ![s] = @ + 1]
                   /\ releases' = Released(v, "PREEMPTED")
                   /\ preempted' = preempted \cup {<<s, v>>}
              ELSE UNCHANGED <<talk, grants, releases, preempted>>
  /\ UNCHANGED <<now, policy>>

\* AUDIO or FEC of a talker inside its lease is forwarded and refreshes.
Media(s) ==
  /\ Live(s)
  /\ talk[s].present /\ ~TalkOver(s)
  /\ member' = Refreshed(s)
  /\ UNCHANGED <<now, policy, talk, grants, releases, preempted>>

\* The talk sweep: the maximum talk duration is over.
ExpireTalk(s) ==
  /\ talk[s].present /\ TalkOver(s)
  /\ talk' = [talk EXCEPT ![s] = Absent]
  /\ releases' = Released(s, "SERVER_TALK_TIMEOUT")
  /\ UNCHANGED <<now, policy, member, grants, preempted>>

\* A membership ends: an active talk ends with it.
EndMembership(s, reason) ==
  /\ member[s].present
  /\ member' = [member EXCEPT ![s] = Absent]
  /\ talk' = [talk EXCEPT ![s] = Absent]
  /\ releases' = IF talk[s].present THEN Released(s, reason) ELSE releases
  /\ UNCHANGED <<now, policy, grants, preempted>>

\* Mutant of ExpireMembership: the talk is left to the talk sweep.
ExpireMembershipOnly(s) ==
  /\ Lapsed(s)
  /\ member' = [member EXCEPT ![s] = Absent]
  /\ UNCHANGED <<now, policy, talk, grants, releases, preempted>>

\* The membership sweep.
ExpireMembership(s) ==
  /\ Lapsed(s)
  /\ EndMembership(s, ExpiryReason(member[s].normal, Admission[s]))

Leave(s) == Live(s) /\ EndMembership(s, "CLIENT_LEAVE")

\* The operator loads a configuration; one with an invalid pair is refused.
Reload(p) ==
  /\ p # policy
  /\ ValidMembershipPair(p.lease, p.keepalive)
  /\ policy' = p
  /\ UNCHANGED <<now, member, talk, grants, releases, preempted>>

Tick ==
  /\ now < Horizon
  /\ now' = now + Step
  /\ UNCHANGED <<policy, member, talk, grants, releases, preempted>>

Packet(s) ==
  \E valid, authenticated \in BOOLEAN :
    \/ \E type \in {"KEEPALIVE", "CODEC_CONFIG", "PING", "PONG"} :
         Refresh(s, type, valid, authenticated)
    \/ PttOn(s, valid, authenticated)
    \/ PttOff(s, valid, authenticated)
    \/ PttRequest(s, valid, authenticated)

Sweep(s) == ExpireTalk(s) \/ ExpireMembership(s)

Next ==
  \/ \E s \in Sender : Join(s) \/ Packet(s) \/ Media(s) \/ Leave(s) \/ Sweep(s)
  \/ \E p \in Policies : Reload(p)
  \/ Tick

\* The event loop gets to every overdue deadline eventually.
Fairness == \A s \in Sender : WF_vars(Sweep(s))

Spec == Init /\ [][Next]_vars
FairSpec == Spec /\ Fairness
-----------------------------------------------------------------------------
MembershipType ==
  {Absent} \cup [present : {TRUE}, lease : 15..300, keepalive : Nat, normal : Nat]
TalkType == {Absent} \cup [present : {TRUE}, deadline : Nat \cup {NoDeadline}]

\* Variables keep their types; the loaded pair and every snapshot of one are valid.
TypeOK ==
  /\ now \in Nat
  /\ policy \in Policies /\ ValidMembershipPair(policy.lease, policy.keepalive)
  /\ member \in [Sender -> MembershipType]
  /\ talk \in [Sender -> TalkType]
  /\ grants \in [Sender -> Nat]
  /\ releases \in [Sender -> [count : Nat, last : ReleaseReason]]
  /\ preempted \subseteq Sender \X Sender

\* The floor is held by members whose admission lets them talk, and by no more
\* of them than the channel has slots, whatever expires or is preempted.
FloorSafe ==
  /\ \A s \in Talkers : member[s].present /\ "talk" \in Admission[s].perm
  /\ Cardinality(Talkers) <= MaxTalkers

\* Every grant that is over was released exactly once, with whichever of PTT_OFF,
\* LEAVE, preemption, talk timeout and membership expiry came first.
EveryGrantReleasedOnce ==
  \A s \in Sender :
    grants[s] = releases[s].count + (IF talk[s].present THEN 1 ELSE 0)

\* An admission bounds what it admitted.  A talker's membership was last
\* refreshed before the admission expired, grace or no grace, so the next expiry
\* ends the talk; and a release that blames an admission is of the right kind
\* and does not come before its expiry.
AdmissionEndsTalk ==
  \A s \in Sender :
    LET a == Admission[s]
    IN  /\ talk[s].present /\ member[s].present =>
             member[s].normal < a.exp + member[s].lease
        /\ releases[s].last = "IDENTITY_EXPIRED" => a.kind = "identity" /\ now >= a.exp
        /\ releases[s].last = "SERVICE_ADMISSION_EXPIRED" => a.kind = "service" /\ now >= a.exp

\* Preemptions never go round in a circle: in every group of senders there is
\* one that no other sender of the group has replaced.
NoPreemptionCycle ==
  \A group \in (SUBSET Sender) \ {{}} :
    \E s \in group : \A r \in group : <<r, s>> \notin preempted

\* The terms of a grant never change: no repeated PTT_ON or PTT_REQUEST, media,
\* keepalive or configuration reload moves a running talk's deadline.
TalkLeaseFixed ==
  [][\A s \in Sender :
       talk[s].present /\ talk'[s].present /\ grants'[s] = grants[s]
       => talk'[s] = talk[s]]_vars

\* The deadline that a reason blames is the earlier one, and of two equal ones
\* the lease.
RightlyBlamed(s, reason) ==
  /\ reason \in {"MEMBERSHIP_TIMEOUT", "IDENTITY_EXPIRED", "SERVICE_ADMISSION_EXPIRED"}
  /\ reason = "MEMBERSHIP_TIMEOUT"
       <=> member[s].normal <= AdmissionDeadline(Admission[s])
  /\ reason = "IDENTITY_EXPIRED" => Admission[s].kind = "identity"
  /\ reason = "SERVICE_ADMISSION_EXPIRED" => Admission[s].kind = "service"

\* A membership that lapsed is over although its record waits for the sweep: no
\* packet revives it or talks for it, and it is removed once.  What its talk is
\* released for depends on the deadlines and not on how late the sweep is: a
\* lease that was over with the admission or before it is what is blamed.
LapseIsFinal ==
  [][\A s \in Sender :
       Lapsed(s) =>
         /\ member'[s] \in {member[s], Absent}
         /\ grants'[s] = grants[s]
         /\ member'[s] = Absent /\ talk[s].present =>
              /\ ~talk'[s].present
              /\ RightlyBlamed(s, releases'[s].last)]_vars

\* The timing a membership runs on is the policy of its JOIN: after a reload
\* its lease only ends when it would have, or later.
SnapshotHolds ==
  [][\A s \in Sender :
       member[s].present /\ member'[s].present =>
         /\ member'[s].lease = member[s].lease
         /\ member'[s].keepalive = member[s].keepalive
         /\ member'[s].normal >= member[s].normal]_vars

\* A preemption replaces one talker of a full floor by one that outranks every
\* talker of the victim's priority, and the victim is of the lowest priority.
PreemptionIsMinimal ==
  [][\A r \in Talkers' \ Talkers :
       LET out == Talkers \ Talkers'
       IN  out # {} =>
             /\ Cardinality(out) = 1 /\ Cardinality(Talkers) = MaxTalkers
             /\ \A v \in out, w \in Talkers :
                  /\ Admission[v].priority <= Admission[w].priority
                  /\ Admission[v].priority < Admission[r].priority
                  /\ Admission[w].priority = Admission[v].priority => v <= w]_vars

\* Overdue talks do not hold the floor: a talk whose time is up, or whose
\* membership lapsed, is released although nobody sends anything.
Overdue(s) == talk[s].present /\ (TalkOver(s) \/ ~Live(s))

OverdueIsReleased == \A s \in Sender : Overdue(s) ~> ~talk[s].present
=============================================================================
