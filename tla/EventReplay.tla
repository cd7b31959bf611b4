---------------------------- MODULE EventReplay -----------------------------
(***************************************************************************)
(* The Management event stream and one subscriber that reconnects: which   *)
(* cursor a request selects, what the service answers, and which retained  *)
(* event comes first.                                                      *)
(*                                                                         *)
(* A reconnecting EventSource repeats its URL, with the since of the first *)
(* request, and adds the Last-Event-ID of what it received.                *)
(***************************************************************************)
EXTENDS Integers, Sequences

CONSTANTS
  Authorized,     \* ids of the events the caller may receive
  Retention,      \* events the service retains
  MaxEvents,      \* bound: events emitted
  MaxDisconnects  \* bound: connections that break

ASSUME NumbersAssumption ==
  /\ Authorized \subseteq Nat \ {0}
  /\ Retention \in Nat \ {0} /\ MaxEvents \in Nat /\ MaxDisconnects \in Nat

NoCursor == -1   \* the parameter or header is absent
Malformed == -2  \* it is no decimal cursor

VARIABLES
  mode,        \* event_delivery of the service: disabled, live or replay
  emitted,     \* the id of the newest event
  pruned,      \* the id of the newest event that is no longer retained
  position,    \* the id the open stream has come to, or Closed
  wire,        \* events sent on the open stream and not received
  since,       \* the since parameter of the subscriber's URL
  last,        \* its Last-Event-ID
  opened,      \* history: emitted when it last opened a cursor-free stream
  status,      \* the status of its last request
  received,    \* history: ids of the events it received
  gone,        \* history: number of 410 answers
  disconnects  \* broken connections so far

vars == <<mode, emitted, pruned, position, wire, since, last, opened, status, received, gone, disconnects>>

Closed == -1
Retained == pruned + 1 .. emitted

Init ==
  /\ mode \in {"disabled", "live", "replay"}
  /\ emitted = 0 /\ pruned = 0
  /\ position = Closed /\ wire = <<>>
  /\ since \in {NoCursor, Malformed} \cup 1..MaxEvents
  /\ last = NoCursor /\ opened = 0
  /\ status = 0 /\ received = <<>> /\ gone = 0 /\ disconnects = 0

-----------------------------------------------------------------------------
(* What a request is answered.                                             *)

IsDecimalEventCursor(cursor) == cursor # Malformed

\* Mutant of SelectedCursor: an explicit since comes first.
SinceFirst == IF since # NoCursor THEN since ELSE last

\* Last-Event-ID is selected over since, which is then not even validated.
SelectedCursor == IF last # NoCursor THEN last ELSE since

\* Mutant of RequestStatus: a cursor that is not retained is accepted.
StatusUnretained ==
  CASE mode = "disabled" -> 404
    [] mode = "live"     -> IF since # NoCursor THEN 400 ELSE 200
    [] mode = "replay"   -> IF IsDecimalEventCursor(SelectedCursor) THEN 200 ELSE 400

RequestStatus ==
  CASE mode = "disabled" -> 404
    [] mode = "live"     -> IF since # NoCursor THEN 400 ELSE 200
    [] mode = "replay"   ->
         IF SelectedCursor = NoCursor THEN 200
         ELSE IF ~IsDecimalEventCursor(SelectedCursor) THEN 400
         ELSE IF SelectedCursor \notin Retained THEN 410
         ELSE 200

\* Without a selected cursor only what is emitted from now on is delivered.
StartingPoint ==
  IF mode = "replay" /\ SelectedCursor # NoCursor THEN SelectedCursor ELSE emitted

\* Mutant of Candidates: the newest event waits for the next one.
CandidatesWithoutNewest(cursor) == {id \in Retained \cap Authorized : id > cursor /\ id < emitted}

\* Retained events after the cursor that the caller is authorized to receive.
Candidates(cursor) == {id \in Retained \cap Authorized : id > cursor}

-----------------------------------------------------------------------------
Emit ==
  /\ emitted < MaxEvents
  /\ emitted' = emitted + 1
  /\ UNCHANGED <<mode, pruned, position, wire, since, last, opened, status, received, gone, disconnects>>

\* Retention ends for the oldest event, once the open stream is past it.
Prune ==
  /\ emitted - pruned > Retention
  /\ position # Closed => Candidates(position) \subseteq pruned + 2 .. emitted
  /\ pruned' = pruned + 1
  /\ UNCHANGED <<mode, emitted, position, wire, since, last, opened, status, received, gone, disconnects>>

\* A request; a refused cursor is discarded before the next one.
Connect ==
  /\ position = Closed /\ status # 404
  /\ status' = RequestStatus
  /\ IF status' = 200
     THEN /\ position' = StartingPoint
          /\ opened' = IF SelectedCursor = NoCursor THEN emitted ELSE opened
          /\ UNCHANGED <<since, last>>
     ELSE /\ since' = NoCursor /\ last' = NoCursor
          /\ UNCHANGED <<position, opened>>
  /\ gone' = IF status' = 410 THEN gone + 1 ELSE gone
  /\ UNCHANGED <<mode, emitted, pruned, wire, received, disconnects>>

\* The stream goes on with the first candidate.
Send ==
  /\ position # Closed
  /\ \E id \in Candidates(position) :
       /\ \A later \in Candidates(position) : id <= later
       /\ position' = id /\ wire' = Append(wire, id)
  /\ UNCHANGED <<mode, emitted, pruned, since, last, opened, status, received, gone, disconnects>>

Receive ==
  /\ wire # <<>>
  /\ received' = Append(received, Head(wire))
  /\ last' = Head(wire)
  /\ wire' = Tail(wire)
  /\ UNCHANGED <<mode, emitted, pruned, position, since, opened, status, gone, disconnects>>

\* What was under way is lost with the connection.
Disconnect ==
  /\ position # Closed /\ disconnects < MaxDisconnects
  /\ disconnects' = disconnects + 1
  /\ position' = Closed /\ wire' = <<>>
  /\ UNCHANGED <<mode, emitted, pruned, since, last, opened, status, received, gone>>

Next == Emit \/ Prune \/ Connect \/ Send \/ Receive \/ Disconnect

\* The subscriber reconnects, and an open stream makes progress.
Fairness == WF_vars(Connect) /\ WF_vars(Send) /\ WF_vars(Receive)

Spec == Init /\ [][Next]_vars /\ Fairness
-----------------------------------------------------------------------------
\* Variables keep their types: only events the caller may receive are sent.
TypeOK ==
  /\ mode \in {"disabled", "live", "replay"}
  /\ emitted \in 0..MaxEvents /\ pruned \in 0..emitted
  /\ position \in {Closed} \cup 0..emitted
  /\ wire \in Seq(Authorized) /\ received \in Seq(Authorized)
  /\ since \in {NoCursor, Malformed} \cup 0..MaxEvents
  /\ last \in {NoCursor} \cup Authorized
  /\ opened \in 0..emitted
  /\ status \in {0, 200, 400, 404, 410}
  /\ gone \in Nat /\ disconnects \in 0..MaxDisconnects

\* No event is received twice or late, whatever connection brought it and
\* whichever cursor the request carried.
ReceivedInOrder == \A i, j \in DOMAIN received : i < j => received[i] < received[j]

\* The event up to which the subscriber's history is complete: what it received
\* last, else the cursor it asked for, else the start of its stream.
Mark == IF last # NoCursor THEN last ELSE IF since # NoCursor THEN since ELSE opened

\* In replay mode nothing is skipped in silence: what is received next is the
\* first authorized event after the subscriber's mark, however many connections
\* broke and whatever the service pruned in between; a hole is always a 410.
NoSilentGap ==
  [][received' # received /\ mode = "replay"
     => \A id \in Authorized : id > Mark => id >= Head(wire)]_vars

\* And nothing is withheld: a subscriber with a cursor gets every later event it
\* may see, or is told that its cursor is gone.
EveryEventArrives ==
  \A id \in Authorized \cap 1..MaxEvents, n \in 0..MaxDisconnects :
    /\ mode = "replay" /\ last # NoCursor
    /\ last < id /\ id <= emitted /\ gone = n
    ~> id \in {received[i] : i \in DOMAIN received} \/ gone > n
=============================================================================
