# Verification of IncomUdon-Spec

TLA+ models, TLC runs and TLAPS proofs for the code of this repository: the
reference validators under `tools/`.  The validators recompute, for every test
vector, what a conforming Relay, client, Directory or Management Service must do.
Each case is a single step: a state, a packet or command, and the state that
must follow.  The models take those steps **as the validators compute them** and
chain them, so that they meet every order of packets, deadlines, losses,
restarts and reloads, which no list of vectors can contain.  The two parts of
the repository that run as programs of their own, the validator runner and the
release gate, are modelled as they are.

Line numbers below are of `tools/spec_validator/lifecycle_vectors.py` unless a
file is named.  `PROJECT.json` maps every definition to its lines.

## 1. Inventory

| Component | State it keeps | Operations | What is hard about it |
|---|---|---|---|
| Media replay window (1511-1546), directory replay window (495-510) | highest counter, remembered counters, announced nonce base | announce, receive | loss, reordering, repetition, forgery, session change, the window's edge |
| Relay session: PTT timeout (85-126), membership lease (129-143, 190-287), admission expiry (290-330) | loaded policy, memberships with deadline and policy snapshot, talk grants with deadline | JOIN, refresh, PTT_ON/OFF, media, LEAVE, sweep, reload | four clocks for one talk, late sweeps, repeated packets, ties |
| Floor Interrupt (1549-1629) | active talkers | PTT_REQUEST, preempt | cycles of preemption, ties, full floor, two reasons to end at once |
| Private Control Link, revocation (902-1287) | durable deny rules, idempotency cache, memberships | command, retry, extension, presentation of a grant, expiry, restart | retries over a lost link, two lifetimes for one acknowledgement, restarts |
| Private Control Link, diagnostics (1289-1429) | counters and epoch, last poll, last snapshot | decide, negotiate, poll, roll over, restart | lost answers, epochs, rate limit |
| Private Control Link, state snapshots (1431-1508) | one capture, received chunks, shown channels | request, capture, chunk, break | answers of an abandoned request, repeated and inconsistent chunks |
| Private Control Link, framing and identifiers (657-900) | none | comparisons | - |
| Directory registration (570-654) | records with endpoint and expiry | register, heartbeat, expiry | silent drops, capacity, reordering, restart |
| Directory fragments (512-551) | accepted sequences, staged fragments | fragment, conflict, discard | mixed, partial and repeated sets |
| Directory pagination (553-568) | revision, cursors, staged pages | request, page, revise, lapse | a revision that changes between two pages |
| Management configuration files (836-900) | configured services, permissions seen and granted | row, next file | duplicates, skipped rows, order of files |
| Management event stream (333-480) | retained events, cursors | request, resume | stale cursors, retention, reconnects |
| Media security mode registry (146-187) | none | table lookup | - |
| Validator runner (`validate_vectors.py`, loops of every suite) | list of errors | run a validator, raise | which handler ends what |
| Release gate (`check_spec_version.py`, `.github/workflows/validate-spec.yml`) | commits, tags, jobs | commit, tag, push, run | races between tag and branch builds |
| Schema targets (`schema_targets.py`, `loader.py`) | vector and schema caches, declared schemas | target, pointer, finish | failed loads, shared files, escapes |
| Credential deriver and sealing (`crypto_vectors.py`) | Argon2 cache; nonce bases, epochs, sequences | derive, start, seal | cache keys, the end of the nonces, restarts |
| FEC (`fec_vectors.py`) | a block of frames | arrive, recover | GF(256), padding, wrapping sequences |
| Packet envelope encoder (`packet_encoder.py`) | none | encode and compare | byte layouts |
| JSON schemas, vectors, documents | data | - | - |

How they interact: a Relay session ends a talk for reasons produced by its own
leases, by Floor Interrupt and by the admission; the Private Control Link removes
memberships of the same kind; media flows only under a talk grant and through
the replay window of the session that was announced for it; the Directory shares
the window rule with media.  All validators are called by the runner, and the
release gate decides which tree may carry a released version at all.

Correctness, in one line each: nothing is heard twice and nothing genuine is
locked out; the floor is held by members that may talk, in no more than its
slots, and every grant is released once; a deadline means the same whoever
notices it late; a revoked service stays out for as long as its rule says;
registrations repair themselves; a subscriber never misses an event in silence;
success is never reported over a defect; a released version names one tree; a
client shows only whole states of the Relay, and the current one in the end; no
sound Relay is accused of a regression; what a suite computes for a case does
not depend on the cases before it; no key is used twice with one nonce.

The hazards behind these are listed in `PROJECT.json`, each at its line with
the properties that would catch it.

## 2. Modules

| Module | What it models |
|---|---|
| `AtMostOnce` | abstract: a sent item is delivered at most once, nothing else is delivered |
| `MediaReplay` | the receiver's window, the talker and a network; implements `AtMostOnce` |
| `MediaReplayProofs` | its theorems |
| `RelaySession` | policy, memberships, admissions, talk grants and Floor Interrupt of one channel |
| `RelaySessionProofs` | its theorems: the floor, and the deadlines |
| `RevocationRules` | deny rules, acknowledgement cache, grants and services over the Private Control Link |
| `DirectoryRegistration` | the Relay's records, clients on the renewal schedule, UDP |
| `EventReplay` | the event service, its retention and one subscriber |
| `ReleaseGate` | repository, pushes, jobs and `check_spec_version.py` |
| `RevocationRulesProofs`, `DirectoryRegistrationProofs`, `EventReplayProofs`, `ReleaseGateProofs` | the theorems about the modules they are named for |
| `WholeTransfer` | abstract: what a receiver shows is one state of the sender, as a whole |
| `DirectoryFragments` | participants responses in fragments over UDP, the directory replay window, reassembly; implements `WholeTransfer` |
| `DirectoryPages` | the static snapshot in pages under cursors; implements `WholeTransfer` |
| `StateChunks` | the channels of a Relay in chunks over the Private Control Link; implements `WholeTransfer` |
| `Diagnostics` | floor counters in epochs, negotiation, polling and the judgement of snapshots |
| `Receivers` | composes the four above and states what they promise together |
| `ReceiversProofs` | its theorems |
| `ValidatorRun` | one run of `validate_vectors.py` |
| `ManagementCsv` | services, ACLs and permissions, row by row |
| `SchemaTargets`, `JsonPointer` | the targets of the manifest with their caches, and the pointers they use |
| `GaloisField`, `FecBlock` | GF(2^w) and one block of frames with its recovery |
| `ChannelKeys` | the derivation of keys, as distinct values for distinct inputs |
| `CredentialDerivation`, `MediaSealing`, `DirectorySealing` | the deriver with its cache; the nonces of media and of Directory datagrams |
| `SuiteCases` | composes the run and the seven components in the rows since `ValidatorRun`, and states what the suites rely on |
| `SuiteProofs` | its theorems |
| `MC*` | constants of the runs |

Each module is parameterised by its CONSTANTS with named ASSUMEs and has one
action for each operation.  An operator named in a comment as a mutant is a
plausible wrong version of the operator that follows it; no specification uses
it, it is put in place of the right one to see that the property notices.

`Receivers` and `SuiteCases` run modules that share no state.  A behaviour is
about one of them: `subject` is chosen in the initial state and never changes,
the steps are those of the subject, the others rest.  Nothing is lost by that,
since a step of one can neither enable nor disturb a step of another, and no
product of their states has to be explored.  The actions are those of the
component modules, through INSTANCE, so that every definition is the component's own.
One subject of `SuiteCases` is the run of the validators itself: it sees of a
case only what the case ends in.

### MediaReplay

`announced`, `highest` and `seen` are the fields of a vector (`announced...`,
`initialHighestAuthenticatedCounter`, `initialSeenCounters`).  `MediaAction` is
the chain of conditions in 1532-1539 in its order, `RaiseTo` and `Pruned` the
update in 1540-1542, `DirectoryAction` the chain in 504-509.  `Receive` is the
accepting branch; the four rejections change nothing and are stuttering.
The network is the set `sent`: every sealed packet may arrive at any time, any
number of times or never; a packet with invalid authentication may carry any
counter.  External assumptions, both stated in the code's documents and needed:
a talker uses a counter once in a session, and a nonce base under which media was
accepted is not announced again.  Without the second, the empty window of a new
session would accept the old packets: that is how a session change works and not
something the window could prevent.

### RelaySession

One clock of seconds stands for the millisecond timelines of PTT and the second
timelines of memberships.  `member[s]` holds the snapshot taken at JOIN
(256-262) and the normal deadline; `talk[s]` the talk deadline (108-125).
Deadlines pass with `Tick` and are acted on by `ExpireTalk` and
`ExpireMembership` at some later time; until then the record is still there and
packets arrive for it, which is what 235 and 282 are about.  `Refresh`, `PttOn`,
`PttOff` and `PttRequest` are guarded by `ControlPacketAccepted` (133-143);
packets that are not accepted change nothing.  An authenticated and an
unauthenticated packet are both tried.  `EffectiveExpiry` and `ExpiryReason` are
296-304 and 317-325, `InterruptPermitted`, `Victim` and `MayPreempt` 1591-1609.
A grant needs a free slot of the `maximumActiveTalkers` in the configuration
(207); what a PTT_REQUEST does on a floor with a free slot is not in a vector
(the cases have a full floor) and is taken to be an ordinary grant to a
requester that Floor Interrupt permits.  `grants`, `releases` and `preempted` are
history variables.

Not in this module: the packet encodings of the vectors, the release reason
SERVER_POLICY (no validator computes when it occurs), the release by revocation
(it is in `RevocationRules`) and the receiver's playout after PREEMPTED (the
code compares constants).

### RevocationRules

`rules` is durable and survives `Restart`; `cache`, `present` and `talking` do
not (1196, 1226).  `FirstDelivery` computes 1280-1286 and, if applied, 1055-1110;
`Retry` is 1204-1213; `Present` is the decision in 999-1010 and 1097-1098.
Several rules can match one grant (a service rule, its extension by a fresh
command, a rule for a single grant), each with its own deadline.  The commands
that may be delivered belong to an administrative change (995).

### DirectoryRegistration

`AfterRegister` and `AfterHeartbeat` are the registration cases (600-651).  The
clients keep the schedule of 579-584: the clock does not advance past the
moment a heartbeat or a register is due.  Datagrams take up to `MaxDelay`,
arrive in any order, and no two datagrams of a client in a row are lost.  That
is the fault the schedule is designed for: with two in a row 90 seconds are not
enough, and no property could hold.  `since` and `steady` are
history variables for the two properties about time.

### EventReplay

`RequestStatus`, `SelectedCursor` and `Candidates` are 381-478 and 342-370.  The
service emits and prunes; it does not prune an authorized event an open stream
still has to send (retention of a stream that lags is not in the vectors).  The
subscriber does what an EventSource does: it repeats its URL with the old
`since` and adds the `Last-Event-ID` of what it received; after a refused cursor
it starts over without one.

### ValidatorRun

The order of suites and validators is that of `validate_vectors.py:43-60` and of
the tables (1634-1644, `crypto_vectors.py:571-578`, `fec_vectors.py:303`).  An
item matches, mismatches, or raises one of the classes its suite's code can
raise; `ItemHandlers` and `ValidatorHandlers` are the `except` clauses.  The
classes matter: a UnicodeDecodeError is a ValueError, which lifecycle, crypto
and fec catch and structural and packet do not, and an AttributeError is caught by
nobody and ends the run.

### ReleaseGate

A job is queued by a push and checks its commit out later; it asks git for the
tags of that commit at that time (`check_spec_version.py:32-42`).  `Passes` is
`main` with the arguments the workflow gives to branch and tag builds.  Tags are
not moved and the branch is not rewritten: the versioning rules of the
repository.

### DirectoryFragments

`Receive` is one datagram: the replay window (498-510), then the case that its
set decides (526-551): an equal copy is ignored, a different one discards the
set, a new one is retained and completes the set or not.  `Discard` is the end
of an incomplete set at `discardAtSeconds` (531-533).  The network is everything
that was sent.  A Relay at fault may emit a fragment again under a fresh
sequence, equal or different (541).  What was accepted for a set that is over is in the
history `spent`; without the replay window a late repetition would start the old
response again. 

### DirectoryPages

`Verdict` is 560-566 over the staged pages in their order.  A client has one
request outstanding.  A cursor pins a revision until it lapses; then the answer
is an error or, after a restart, a page of the current revision, which is how
pages of two revisions meet (564).

### StateChunks

One capture per request.  `Matches`, `Invalid` and the completeness of a set are
1466-1500.  A Relay at fault repeats its chunks and adds one with another
`chunk_count` or with an index beyond it (1473, 1487).  `held` is the history of views of the Relay, `since` the view when
the request was sent: an applied snapshot must be one held at or after that.

### Diagnostics

`Judgement` is the chain 1384-1393 in its order, `Poll` 1333-1353, `Rollover`
and `Renew` 1403-1429.  A snapshot becomes the base of the next comparison
whether it was accepted or not (1394-1398).  An epoch is random: three values
are enough, since only the current one, the last reported one and a fresh one can be told
apart.  `Slip` is the fault that the comparison is for.

### ManagementCsv, SchemaTargets, JsonPointer

`ManagementCsv` reads rows in the order of the files and tests them in the order
of the code (838-876): `After` is what a row makes of `reading`, which holds the
configured services, the permissions seen and granted, and the errors.  `Compare`
is 878-900.  The columns the code does not look at have no counterpart, and what
it accepts is more than `relay-csv.md` allows: `enabled` of a service is neither
tested for being `true` or `false` (28-32, 157) nor asked for (finding 3), a
service may have two rows (159), and certificates, roles, channels and priorities are
not read.  The property is therefore not that accepted files are correct
ones, but that the order of rows decides nothing: neither what is reported nor,
when that is nothing, what is granted.  In `SchemaTargets` a file is usable or
not and a target's items have one of four fates; `Wanted`, `Remembered` and
`Loaded` are the two caches, `Reports` the loops of 128-145 with what their
handlers end.  `JsonPointer` is the one module with characters, because the
order of the two replacements in `loader.py:46` is what it is about.  A place of a
document is a value with the one pointer RFC 6901 writes for it; `Level` are the
places so many steps below the document, `Place` all of them down to `MaxDepth`.

### FecBlock and GaloisField

An element is the set of its one-bits, addition is the symmetric difference.
`GfMul`, `GfPow` and `GfInv` follow `fec_vectors.py:37-63`; `Recovered` is 100-128
for no, one and two missing frames; sequences are matched modulo 2^16.  `GfPow`
takes the bits of the exponent from the top where the code takes them from the bottom.

### ChannelKeys, CredentialDerivation, MediaSealing, DirectorySealing

A hash or derivation is the sequence of its inputs: equal exactly when the inputs
are, the usual idealization.  The cache of `CredentialDeriver` is a set of entries under
the key of `crypto_vectors.py:123`, after NFC normalization (141).  `MediaSealing`
scales 2^96 and 2^32 down and keeps what matters, which is that sums near the
end are refused and not wrapped (232-236).  That two random bases do not overlap is an
assumption of the protocol, stated in `Start`: they keep the distance of a counter
space as numbers, so that one may lie at the end of the nonces and another at
their beginning, where a sum that was cut would meet it.  `DirectorySealing` has restarts
that reset the sequence and draw an epoch; an epoch of the Relay may equal one
of a client.  Additional data is left out: it enters no property here.

## 3. Runs

| Run | Bounds | Distinct states | What it shows |
|---|---|---|---|
| `media_replay` | window 3, counters 0-4, two sessions | 119 k | at most once, window = history, no poisoning, order of tests irrelevant, implements `AtMostOnce` |
| `relay_timing` | 3 senders, one slot, 3 policies (one invalid), clock to 25 in steps of 5, one grant each | 99 k | deadlines, reasons, snapshots, talk lease, release of overdue talks |
| `relay_floor` | 3 talkers, 2 slots, clock to 15, 2 grants each | 701 k | slots, one release per grant, preemption |
| `revocation` | 1 service with 2 grants, 3 commands, clock to 5 | 341 k | deny rules through retries, restarts, evictions and extensions |
| `cached_ack` | as `revocation` | violation | finding 1 below |
| `directory_registration` | 2 clients, 2 endpoints, 1 slot, 120 s in steps of 15, 1 move, 1 restart | 1.2 M | capacity, survival of a loss, repair in bounded time |
| `event_replay` | 6 events, 4 authorized, 3 retained, 3 disconnects, 3 modes | 8 k | order, no silent gap, every event arrives |
| `release_gate` | 2 commits, 1 version, 1 other tag | 431 k | one tree per release, green tags, atomic pushes |
| `receivers` | 2 responses of 2 fragments, 1 repetition; 4 revisions of 1 to 3 pages, 4 faults; 2 chunks, 3 requests, 2 faults; counters to 1, interval of 2 | 139 k | whole and current states only, shown in the end; no false accusation |
| `late_response` | as `receivers` | violation | finding 2 below |
| `suite_cases` | all validators with 2 items each and 2 defects; a document two levels deep, all texts of up to 5 of four characters as pointers; 2 targets of 2 items; 1 service row, 1 ACL row and 3 permission rows about 1 permission; blocks of 6 frames in GF(256); 3 passphrases, 2 channels; nonce space 12; 3 epochs, 2 datagrams | 1.3 M | success means everything matched, failures hide nothing; what each suite computes, over all its small cases |
| `disabled_service` | as `suite_cases`, the other suites at their smallest | violation | finding 3 below |

Why the bounds are enough for what is asked.  The window decision depends only
on the distance between counter and top, so three remembered positions have a
top, a bottom and an inside, and five counters leave room to slide past one in
flight; the proof covers every size.  Preemption needs three talkers, two slots
and a tie for a wrong victim to be distinguishable; again the proofs cover every
number.  Deadlines in `relay_timing` fall before, on and after one another on
the grid of the clock: leases of 15 and 20, admissions at 5, 10 and 20, graces of
10, a talk of 10, a tie of lease and admission, which `LapseIsFinal` gives to the lease.  `revocation` has deadlines on
both sides of the cache's retention and of each grant's expiry, and one command
that comes too early for its window.  In `directory_registration` the longest chain is a loss,
a late register of the endpoint the client left, and the next register: 60
seconds and two transits; 120 seconds contain it after a start.  Two commits, a
tag and an unrelated tag are the smallest repository in which a tree can be
released twice, since an offending pair has two commits.

`receivers` has neighbouring revisions of different lengths, so that a cursor of
the longer one has no page in the shorter; a channel that is spread over both
chunks; and a replay window in which the first sequences become stale.  In
`suite_cases` the field, the block size and the sequence space are those of the
code; two sample frames of different lengths contain zero bytes and carries into
the polynomial, and one of the two starts makes the block wrap.  Five characters write
two names with an escape each, and the document's names are all texts of up to two
special characters, on two levels.  A nonce space of 12 holds three sessions of three counters
at every distance from its end, and a nonce is used twice by two datagrams, with a
restart between them or not.  Three rows about one permission are two
that contradict each other and a skipped one before, between or after them.

`CHECK_DEADLOCK FALSE` is given everywhere because every model really stops: at
the bound of its clock or counter, or, for the runner, when the program exits.

### Fairness

Three runs check liveness.  `relay_timing` uses `FairSpec`: weak fairness of the
sweep of each sender and of nothing else; no packet need arrive and the clock
need not advance.  The Relay's timers are the only thing that acts on a passed
deadline, and 124-125 require forwarding to stop at the deadline: a Relay
without that fairness would not implement the vectors.  `event_replay` assumes weak fairness of
`Connect` (an EventSource reconnects by itself), `Send` and `Receive` (an open
connection makes progress).  Emission, pruning and disconnects are not fair.
`receivers` assumes that a client with an unfinished request goes on with it
(asking, answering and receiving a page; asking, capturing and receiving chunks),
that time passes and that a service keeps polling; losses, lapses, broken links
and faults are bounded, as they must be for anything to arrive.  Nothing is
assumed of fragments, all of which may be lost: no liveness is claimed for them.
That rejected polls do not starve a service is claimed from the point on where
sessions stay negotiated, since a new session resets the interval.

### Findings

1. `cached_ack`: a repeated command whose acknowledgement is still cached after
   `deny_until`.  The code (1204-1212) answers `already_expired`; the document
   (`private-control-link-v1.md:176-184`) requires a duplicate to resend the
   cached acknowledgement and reserves `already_expired` for when none is
   available.
2. `late_response`: completeness alone decides which participants response is
   applied (532-546); `directory-udp.md:421-424` forbids an older response that completes
   late to overwrite a newer one.
3. `disabled_service`: rows that refer to a disabled service.  The code (845-850, 861)
   asks only whether the file of services has a row of it; `relay-csv.md:185` and
   224 require an "existing enabled" one, and the fixture
   (`relay-csv-v1.json:41`) lists a disabled one in an ACL among what is rejected.

Prose that says something else than the code, without a run of its own:
`security.md:156` adds the counter modulo 2^96, `crypto_vectors.py:234-236`
refuses the sum; `relay-csv.md:159` wants each service once and 28-32 its
`enabled` to be `true` or `false`, neither of which 843-850 test;
`loader.py:53-55` accepts leading zeros in an array index, which RFC 6901 does not.

## 4. Proofs

Eight proof modules are checked by TLAPS, each from the assumptions named in the
module it is about and for all values of the constants.  The type invariants of
the modules with a run of their own are proved and therefore not run again.

A proof by induction over a number (`ReceiversProofs!FlatType`, what flattening
a sequence of sequences gives) does not use the library's induction theorems, which
take an operator: `LeastNat` derives the least element of a set of numbers from the
well-founded order on them, and `EveryNat` concludes that a set that contains 0
and with every number the next contains all.  `SuiteProofs` goes the same way to
what recursive functions and folds compute: `Recursion` shows that a
function with given steps exists, so that the one TLA+ chooses has these steps;
`LeftFoldSteps` and `LeftFoldAppend` do this for folds over a sequence, and
`SumOver` is the sum over a set that does not depend on the order in which its
elements are taken.  In all of them the operator is a function, which can be a
variable of a lemma.

**MediaReplay.**  `TypeOK` alone is inductive.  At-most-once is not: from a
state whose window forgot a counter that is not below its bottom, a copy would
be accepted again.  The strengthening is `WindowIsHistory`, which says that the window
forgot nothing it could still be asked about.  `IInv` is the conjunction of the
type invariant, at-most-once, the window and that only sealed packets were
accepted; a step either leaves the session, adds one counter, or starts a
session nothing was accepted in.  `NoPoisoning` and `OrderIrrelevant` follow
from `IInv` without a further step, `Refinement` maps every step to one of
`AtMostOnce` or to a stutter.

**RelaySession.**  `IInv` adds to the type invariant the floor invariant, the
balance of grants and releases, and `PreemptionClimbs`: every recorded
preemption went from a lower to a strictly higher priority.  The last is what
makes the absence of cycles inductive: a group of senders has one of the highest
priority, and nobody replaced that one.  The proof first shows that every step
is a `FloorStep`, one of four things that can happen to the floor (nothing, a
grant, a replacement, an end), and then each conjunct for the four, so that none of it
looks into the packet handlers again.

The second half of the module does the same for one membership: a step lets it rest,
begins, refreshes or ends it (`LeaseStep`).  It is refreshed only while it is
live, and then to one lease from now; hence `LeasesAreShort`, that a lease
deadline is never more than a lease away, which is what makes a refresh move the
deadline forward (`SnapshotHolds`) and what bounds how far a talker's membership
reaches past its admission (`AdmissionEndsTalk`, with `BlameIsTrue` about the
reasons already broadcast).  `LapseIsFinal` is the same case split for a
membership that is over; `RightlyBlamed` says of its reason, without the chain of
conditions that computed it, which of the two deadlines it may name.

**RevocationRules.**  `DeniedStayOut` is inductive with the types: an applied
command removes what its rule matches, a presentation asks all rules, and a
retry or restart changes neither.  That effects happen once follows from the
agreement of cache and durable rule about the number of releases; that a revoked
grant stays away until it expires, from the rule's deadline, and the life of a
rule step by step.

**DirectoryRegistration.**  A datagram leaves the records alone or replaces the
one of its own key, and a new record needs a free slot; the bound on the slots
is a fact about the cardinality of the held keys before and after.  For the
deadlines a step is one of seven things that can happen to one key (`KeyStep`).
`StaysRegistered` is not inductive: the strengthening `SteadyInv` follows the
datagrams under way.  While the last one was not lost, either nothing was sent
since the record was renewed or one sent within 30 seconds of it is under way,
and behind that one a second, sent within 60, is under way or still to come; a
loss uses up the first of them.  The theorem needs that a
transit is shorter than a heartbeat interval, since 60 + `MaxDelay` must be less
than the 90 seconds of a registration.  `HealsInTime` follows from `HealInv`:
after trouble a client waits for the first register that no datagram of the
time before can follow; when it arrives, the client is registered or turned
away, and stays so until the next trouble.  Here a transit must be shorter than
60 seconds.

**EventReplay.**  What was received and what is under way, one after the other,
are increasing, end at the position of the stream, and leave out no authorized
event after the subscriber's mark.  The first half gives the order, the second
that a gap is always announced.

**ReleaseGate.**  A verdict outlasts the state it was given in: commits and tags
do not change, and a job knows the tag it was pushed with.  What a job found
when it passed (`PassedFor`) is therefore invariant, and two green commits with
one version would both carry the version's tag.

**Receivers.**  One invariant for each component, all of them of one shape: what
a client has collected is of one origin and lacks nothing but what is missing.
`FragmentsInv` says that everything that was accepted and belongs to no finished
set has its equal in the set of its response, so that a set with as many
fragments as were announced is the response.  `PagesInv` says that the staged pages are a
proper beginning of one revision, no older than the one on screen, and that the
page under way continues some such revision at that place; the verdict refuses
it exactly when it is another revision.
`ChunksInv` says that all answers to one request are of one view, which is of the time
since the request when it is the last one; a complete set is that view whole.
From these each component's step is a step of `WholeTransfer` or a stutter, with
the published states growing and the shown one among them.  `PollsInv` says
that, unless the Relay slipped, the counters are not below the last snapshot of
their epoch; that while nothing was rejected this snapshot is the highest that
was reported in its epoch; and that nothing was reported yet in an epoch that is new.
The first gives that a sound Relay is never accused, the others that comparing
neighbours is enough (`CountersJudged`).  `NothingOld` joins the replay window,
the revisions that never go backwards and the views no older than their request.

**SuiteCases.**  One invariant for each part; `EachMoves` says that a step of the
whole is a step of every part or lets it rest.

- The run: what ran and what is to do is what was asked for, and the defects
  met so far are those reported and those of the running validator, whose list is not
  empty exactly when it met one.
- Targets: the reports are those of each target judged by the usable files
  alone (`Judged`), whatever the caches hold, which are usable files only.
- Files: `reading` is the fold of `After` over the rows.  What was reported is
  said without their order: each error is reported exactly when a row, or two
  rows of one permission, give rise to it in a file that was read after the
  services.  The same rows in another order of each file give rise to the same
  errors; and when there are none, what was granted is the set of what is enabled.
- Pointers: `Way` is the path to a place, the values and tokens from the document
  down to it, and every place has one (`EveryPlaceHasItsWay`, level by
  level).  For that, a token that was written with `Escape` or `Decimal` has no "/" in
  it, `Split` of a text followed by "/" and such a token is one token more
  (`SplitMore`), `Unescape` undoes `Escape` for every name (`EveryNameWritten`, one
  character after the other) and the number read from a written index is the index
  (`DecimalRead`).  `PointersInv` says that whenever the pointer is that of a place,
  the value that was reached is one on this way and the tokens left are its rest.  Where a
  token leads is unique (`LeadsOnce`), hence "nowhere else".
- Blocks: a product in GF(2^`Width`) is the sum, over the bits of one factor, of
  the other one shifted.  So multiplication is linear on both sides
  (`MulRight`, `MulLeft`), associative (`MulAssociative`), and an element but zero
  can be divided by (`Divides`).  The parities are sums of padded frames, for Q
  each with its weight (`ParityPIsSum`, `ParityQIsSum`); taking away those that
  arrived leaves the sum of the missing ones (`LeftOfParities`), from which one is read
  off and two are solved because their weights differ (`TwoSolved`).  The invariant
  `BlocksInv` adds that a member's sequence is its own also where the sequences wrap,
  so that what is missing is what did not arrive.
- Credentials: every vector holds the key that a fresh deriver computes.  Keys
  are sequences of inputs, so the inputs can be read back from the end of one
  (`LastDerivation`), and with them the channel and the purpose.
- Media: bases keep a distance of the counter space and no two talkers are in one session;
  two equal nonces of two bases would put these closer than a counter reaches, since
  no sum was cut.
- Directory: an epoch belongs to one sender of its direction, a sender counts
  on within it, and the sealing key tells channel, direction and epoch apart.

| Theorem | Property |
|---|---|
| `MediaReplayProofs!TypeCorrect`, `WindowCorrect`, `NoReplay`, `NoPoisoning`, `OrderIrrelevant`, `Refinement` | `TypeOK`, `WindowIsHistory`, `AtMostOnceAccepted`, `GenuineIsAccepted`, `OrdersAgree`, `PromiseSpec` |
| `RelaySessionProofs!TypeCorrect`, `FloorIsSafe`, `GrantsBalance`, `PreemptionIsAcyclic`, `PreemptionMinimal`, `TalkLeaseIsFixed`, `AdmissionBoundsTalk`, `LapsesAreFinal`, `SnapshotsHold` | `TypeOK`, `FloorSafe`, `EveryGrantReleasedOnce`, `NoPreemptionCycle`, `PreemptionIsMinimal`, `TalkLeaseFixed`, `AdmissionEndsTalk`, `LapseIsFinal`, `SnapshotHolds` |
| `RevocationRulesProofs!TypeCorrect`, `DeniedAreOut`, `EffectsHappenOnce`, `RevokedIsGone`, `RulesLast` | `TypeOK`, `DeniedStayOut`, `EffectsOnce`, `RevokedGrantIsGone`, `RuleLastsUntilDeadline` |
| `DirectoryRegistrationProofs!TypeCorrect`, `SlotsAreBounded`, `RegistrationsStay`, `RegistrationsHeal` | `TypeOK`, `SlotsBounded`, `StaysRegistered`, `HealsInTime` |
| `EventReplayProofs!TypeCorrect`, `EventsComeInOrder`, `GapsAreAnnounced` | `TypeOK`, `ReceivedInOrder`, `NoSilentGap` |
| `ReleaseGateProofs!TypeCorrect`, `ReleasesAreOneTree`, `GreenTagsAreReleases`, `AtomicPushesAgree` | `TypeOK`, `OneTreePerRelease`, `GreenTagIsRelease`, `AtomicPushAgrees` |
| `ReceiversProofs!TypeCorrect`, `ReceiversPromise`, `NothingOldPasses`, `CountersAreJudged` | `TypeOK`, `PromiseSpec`, `NothingOld`, `CountersJudged` |
| `SuiteProofs!AllDefectsAreNamed`, `SuccessIsTrue`, `TargetsAreJudged`, `RowsInAnyOrder`, `PlacesAreFound`, `BlocksAreRecovered`, `KeysAreDerived`, `NoncesAreUsedOnce`, `TypeCorrect` | `DefectsAreNamed`, `SuccessMeansAllMatched`, `TargetsAreJudgedAlone`, `RowOrderIrrelevant`, `EveryPlaceIsFound`, `BlocksRecovered`, `KeysAsDerived`, `NonceOnce`, `TypeOK` |

Every invariant and every action property of the passing runs is thus a theorem.
The theorems about `SuiteCases` rest on its named assumptions.  Most say what kind of
thing a constant is.  Two say more, and TLC evaluates them for the instance of the run:

- `PolynomialAssumption`: `GfInv` of an element other than zero is its inverse, and the powers of
  two that serve as weights are different.  With the field of the code, width 8 and
  the polynomial 0x11d, these are 255 products and six powers: the assumption
  holds in that field, and the theorem covers all frames, lengths and losses in it.
- `DocumentAssumption`: the document consists of objects, whose names are texts,
  arrays and scalars, and ends above level `MaxDepth` + 1.  Every JSON document
  satisfies it for some `MaxDepth`.

Only model-checked is liveness under fairness, which is out of the prover's
reach (`OverdueIsReleased`, `EveryEventArrives`, `ShownInTheEnd`).

## 5. Not modelled

- JSON Schema, OpenAPI and the values of hashes and ciphers: delegated to
  libraries and compared with constants.
- Byte layouts of packets, FEC payloads and the framing of the Private Control
  Link; the grant hash, service identifiers and redaction cases: one comparison
  over static values each, with no state and no order.
- The Control Authentication tag and cookie, the two admission transcripts and
  additional data: recomputed once over one fixture each.
- The media security mode registry: a lookup in a table of three modes.
- Which empty arrays the manifest's `each` targets select
  (`schema_targets.py:123`): such a target validates nothing and reports
  nothing; the code and its documents allow it, and `TargetsAreJudgedAlone` holds with it.
- Renewal of an admission that is about to expire, the policy by which an
  operator releases a talk, playout at the receiver: no validator computes
  anything about them.

## 6. Plan

The plan is carried out: each safety and action property of the passing runs is proved for
all values of the constants.  What is left is what cannot be proved here (the
liveness properties, which the runs check) and what section 5 leaves out.  When
the code changes, the lines in `PROJECT.json` say which definitions to compare;
a run then finds out cheaply whether a property still holds, and the step lemmas
of the module's proofs show which action it depended on.
