---------------------------- MODULE Diagnostics ----------------------------
(***************************************************************************)
(* The diagnostics of the Private Control Link: a Relay counts its floor   *)
(* decisions in counter epochs, a Management Service negotiates and polls  *)
(* the counters, and judges each snapshot by the one before it.            *)
(*                                                                         *)
(* An epoch is a random value.  Only three at a time can be told apart by  *)
(* anyone, so a small set of them is used again and again; a fresh one is  *)
(* neither the current nor the last reported.                              *)
(***************************************************************************)
EXTENDS Integers

CONSTANTS
  Interval,      \* minimum_poll_interval_ms, in ticks
  Maximum        \* maximum_counter

Counter == {"ptt_requests_total", "grants_total", "denials_total",
            "preemptions_total", "unauthorized_rejections_total"}

\* What a decision counts.
Counts ==
  [grant   |-> {"ptt_requests_total", "grants_total"},
   preempt |-> {"ptt_requests_total", "grants_total", "preemptions_total"},
   deny    |-> {"ptt_requests_total", "denials_total"},
   reject  |-> {"ptt_requests_total", "unauthorized_rejections_total"}]

Zero == [c \in Counter |-> 0]
Epoch == 1 .. 3
NoSnapshot == [epoch |-> 0, values |-> Zero]   \* previous_epoch is None

VARIABLES
  supports, enabled,  \* of the Relay: diagnostics, and Floor Interrupt
  epoch, counters,    \* its counter_epoch and floor_interrupt
  negotiated,         \* diagnostics_accepted of the session
  since,              \* ticks since the last accepted request, up to Interval
  result,             \* what the last request was answered
  previous, verdict,  \* of the Management Service: last snapshot, and judgement
  reported,           \* history: the highest counters reported in an epoch
  slipped             \* history: a counter was lost within an epoch

vars == <<supports, enabled, epoch, counters, negotiated, since, result,
          previous, verdict, reported, slipped>>
relay == <<supports, enabled, epoch, counters, slipped>>
session == <<negotiated, since, result>>
manager == <<previous, verdict, reported>>

Init ==
  /\ supports \in BOOLEAN /\ enabled \in BOOLEAN
  /\ epoch = 1 /\ counters = Zero
  /\ negotiated = FALSE /\ since = Interval /\ result = "unsupported_message"
  /\ previous = NoSnapshot /\ verdict = "accept_monotonic"
  /\ reported = [e \in Epoch |-> Zero]
  /\ slipped = FALSE

-----------------------------------------------------------------------------
\* A fresh epoch; nothing is remembered of one that cannot come back.
Renew ==
  /\ epoch' = CHOOSE e \in Epoch : e \notin {epoch, previous.epoch}
  /\ counters' = Zero
  /\ reported' = [e \in Epoch |->
       IF e = previous.epoch THEN reported[e] ELSE Zero]

Decide(decision) ==
  /\ enabled
  /\ \A c \in Counts[decision] : counters[c] < Maximum
  /\ counters' = [c \in Counter |-> IF c \in Counts[decision] THEN counters[c] + 1 ELSE counters[c]]
  /\ UNCHANGED <<supports, enabled, epoch, slipped, session, manager>>

\* Before a counter would exceed its maximum all of them start again.
Rollover ==
  /\ \E c \in Counter : counters[c] = Maximum
  /\ Renew
  /\ UNCHANGED <<supports, enabled, slipped, session, previous, verdict>>

Restart ==
  /\ Renew
  /\ negotiated' = FALSE
  /\ UNCHANGED <<supports, enabled, slipped, since, result, previous, verdict>>

\* A fault of the Relay: a counter wraps.
Slip(c) ==
  /\ ~slipped /\ counters[c] > 0
  /\ counters' = [counters EXCEPT ![c] = 0] /\ slipped' = TRUE
  /\ UNCHANGED <<supports, enabled, epoch, session, manager>>

Accepted(wants) == supports /\ wants

\* hello and hello_ack; a broken link is followed by another session.
Negotiate(wants) ==
  /\ negotiated' = Accepted(wants)
  /\ since' = Interval
  /\ UNCHANGED <<relay, result, manager>>

Tick ==
  /\ since < Interval /\ since' = since + 1
  /\ UNCHANGED <<relay, negotiated, result, manager>>

-----------------------------------------------------------------------------
Regresses(values) == \E c \in Counter : values[c] < previous.values[c]

\* Mutant of Judgement: counters are compared across epochs.
JudgementAcrossEpochs(snapshot) ==
  IF Regresses(snapshot.values) THEN "reject_counter_regression" ELSE "accept_monotonic"

Judgement(snapshot) ==
  IF ~enabled /\ snapshot.values # Zero THEN "reject_disabled_feature_counter"
  ELSE IF snapshot.values["preemptions_total"] > snapshot.values["grants_total"]
  THEN "reject_preemptions_exceed_grants"
  ELSE IF previous.epoch = snapshot.epoch /\ Regresses(snapshot.values)
  THEN "reject_counter_regression"
  ELSE "accept_monotonic"

\* A snapshot is judged and becomes the base of the next one, rejected or not.
\* An accepted one does not undo an earlier rejection.
Observe(snapshot) ==
  /\ previous' = snapshot
  /\ verdict' = IF Judgement(snapshot) = "accept_monotonic" THEN verdict ELSE Judgement(snapshot)
  /\ reported' = [reported EXCEPT ![snapshot.epoch] =
       [c \in Counter |-> IF snapshot.values[c] > @[c] THEN snapshot.values[c] ELSE @[c]]]

\* Mutant of AfterRejection: the interval is measured from the last request.
AfterRejectionRestarts == 0

\* A rejected request does not restart the interval.
AfterRejection == since

\* A request and its answer, which may be lost.
Poll(arrives) ==
  /\ \/ /\ ~negotiated
        /\ result' = "unsupported_message" /\ UNCHANGED <<since, manager>>
     \/ /\ negotiated /\ since < Interval
        /\ result' = "overloaded" /\ since' = AfterRejection /\ UNCHANGED manager
     \/ /\ negotiated /\ since = Interval
        /\ result' = "relay_diagnostics_snapshot" /\ since' = 0
        /\ IF arrives THEN Observe([epoch |-> epoch, values |-> counters]) ELSE UNCHANGED manager
  /\ UNCHANGED <<relay, negotiated>>

Next ==
  \/ \E decision \in DOMAIN Counts : Decide(decision)
  \/ Rollover \/ Restart
  \/ \E c \in Counter : Slip(c)
  \/ \E wants \in BOOLEAN : Negotiate(wants)
  \/ Tick
  \/ \E arrives \in BOOLEAN : Poll(arrives)

\* Time passes, and the Management Service keeps polling, as often as it likes.
Spec ==
  /\ Init /\ [][Next]_vars
  /\ WF_vars(Tick) /\ WF_vars(\E arrives \in BOOLEAN : Poll(arrives))

-----------------------------------------------------------------------------
Snapshot == [epoch : Epoch, values : [Counter -> 0 .. Maximum]]

\* The variables' types; a Relay without Floor Interrupt counts nothing, and
\* nothing is reported without diagnostics.
TypeOK ==
  /\ epoch \in Epoch /\ counters \in [Counter -> 0 .. Maximum]
  /\ enabled \/ counters = Zero
  /\ since \in 0 .. Interval /\ (negotiated => supports)
  /\ previous = NoSnapshot \/ (supports /\ previous \in Snapshot)
  /\ result \in {"unsupported_message", "overloaded", "relay_diagnostics_snapshot"}

\* A Relay that counts as it should is never accused: not after a restart, a
\* rollover, a lost answer or a new session, at whatever moment it is polled.
NoFalseAlarm == verdict # "accept_monotonic" => slipped

\* As long as nothing was rejected the counters of an epoch only grow, although
\* a snapshot is compared with its neighbour alone.  This needs epochs that do
\* not return: what an epoch reported before another one is not compared.
MonotoneInDomain ==
  [][\A c \in Counter : verdict' = "accept_monotonic" /\ previous' # previous
       => previous'.values[c] >= reported[previous'.epoch][c]]_vars

=============================================================================
