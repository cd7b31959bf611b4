----------------------------- MODULE Receivers ------------------------------
(***************************************************************************)
(* The four receivers of the state of a Relay: the participants of a       *)
(* channel in fragments, the static snapshot in pages, the channels in     *)
(* chunks, and the diagnostics counters, which are polled.  They share     *)
(* nothing, so that a behaviour is about one of them and the others rest:  *)
(* what holds of each alone holds of all of them together.                 *)
(***************************************************************************)
EXTENDS Integers, Sequences

CONSTANTS
  Count, Window, MaxRepeats,               \* of DirectoryFragments
  Pages, MaxLapses,                        \* of DirectoryPages
  Chunk, MaxChanges, MaxRequests, MaxFaults,  \* of StateChunks
  Interval, Maximum                        \* of Diagnostics

ASSUME ReceiversAssumption ==
  /\ Count \in Seq(Nat \ {0}) /\ Window \in Nat \ {0}
  /\ Pages \in Seq(Nat \ {0}) /\ Pages # <<>>
  /\ Chunk \in Seq({Chunk[i] : i \in DOMAIN Chunk}) \ {<<>>}
  /\ {MaxRepeats, MaxLapses, MaxChanges, MaxRequests, MaxFaults} \subseteq Nat
  /\ {Interval, Maximum} \subseteq Nat \ {0}

VARIABLES
  subject,                                                           \* what the behaviour is about
  sent, accepted, sets, spent, response,                             \* of DirectoryFragments
  current, pinned, wire, answer, staged, snapshot, lapses,           \* of DirectoryPages
  held, request, waiting, requested, link, received, shown, faults,  \* of StateChunks
  supports, enabled, epoch, counters, negotiated, since, result,
  previous, verdict, reported, slipped                               \* of Diagnostics

fragments == <<sent, accepted, sets, spent, response>>
pages == <<current, pinned, wire, answer, staged, snapshot, lapses>>
chunks == <<held, request, waiting, requested, link, received, shown, faults>>
polls == <<supports, enabled, epoch, counters, negotiated, since, result,
           previous, verdict, reported, slipped>>
vars == <<subject, fragments, pages, chunks, polls>>

Fragments == INSTANCE DirectoryFragments WITH staged <- sets, applied <- response
Paging == INSTANCE DirectoryPages WITH shown <- snapshot, faults <- lapses, MaxFaults <- MaxLapses
Chunks == INSTANCE StateChunks WITH since <- requested
Polling == INSTANCE Diagnostics

Init ==
  /\ subject \in {"fragments", "pages", "chunks", "polls"}
  /\ Fragments!Init /\ Paging!Init /\ Chunks!Init
  /\ Polling!Init /\ (subject = "polls" \/ (supports /\ enabled))

\* A step of the subject, and of nothing else.
OfFragments(step) == subject = "fragments" /\ step /\ UNCHANGED <<subject, pages, chunks, polls>>
OfPages(step) == subject = "pages" /\ step /\ UNCHANGED <<subject, fragments, chunks, polls>>
OfChunks(step) == subject = "chunks" /\ step /\ UNCHANGED <<subject, fragments, pages, polls>>
OfPolls(step) == subject = "polls" /\ step /\ UNCHANGED <<subject, fragments, pages, chunks>>

Next ==
  \/ OfFragments(Fragments!Next) \/ OfPages(Paging!Next)
  \/ OfChunks(Chunks!Next) \/ OfPolls(Polling!Next)

\* A client and a Relay go on with the page they are at, a service, its Relay
\* and their link with the snapshot; time passes between polls, and a service
\* keeps polling.  Fragments may all be lost.
Spec ==
  /\ Init /\ [][Next]_vars
  /\ WF_vars(OfPages(Paging!Ask \/ Paging!Answer \/ Paging!Receive \/ Paging!ReceiveError))
  /\ WF_vars(OfChunks(Chunks!Ask \/ Chunks!Capture \/ \E m \in link \ Chunks!Asked : Chunks!Receive(m)))
  /\ WF_vars(OfPolls(Polling!Tick))
  /\ WF_vars(OfPolls(\E arrives \in BOOLEAN : Polling!Poll(arrives)))

-----------------------------------------------------------------------------
\* The variables' types, and what each receiver keeps while it collects.
TypeOK == Fragments!TypeOK /\ Paging!TypeOK /\ Chunks!TypeOK /\ Polling!TypeOK

\* What is shown is one state of the sender, whole: never a part of one, never
\* parts of two, whatever is lost, repeated, reordered or sent again at fault.
PromiseSpec == Fragments!PromiseSpec /\ Paging!PromiseSpec /\ Chunks!PromiseSpec

\* Nothing old passes for new: a datagram of a set that is over is not shown
\* again and no second version of it goes unnoticed, a page of an older revision
\* does not follow a newer one, and channels are a view held since the request.
NothingOld ==
  Fragments!UsedOnce /\ Fragments!OneVersionShown /\ Paging!NeverBackwards /\ Chunks!FreshView

\* A Relay that counts as it should is never accused, at whatever moment it is
\* polled and whatever is lost, and counters that are accepted never go back in
\* their epoch, although a snapshot is compared with the one before it alone.
CountersJudged == [][Polling!NoFalseAlarm']_verdict /\ Polling!MonotoneInDomain

\* What stays is shown in the end: the current revision, whatever was lost or
\* lapsed before, and a snapshot of the channels after rejected and broken ones.
\* A service that polls too often is still served again and again.
ShownInTheEnd ==
  /\ subject = "pages" => Paging!CurrentIsShown
  /\ subject = "chunks" => Chunks!SnapshotArrives
  /\ subject = "polls" =>
       (<>[][~\E wants \in BOOLEAN : OfPolls(Polling!Negotiate(wants))]_vars /\ <>[]negotiated
          => []<>(result = "relay_diagnostics_snapshot"))

\* A response that completes late does not overwrite a newer one.  The code
\* decides by completeness alone, so this does not hold.
NewestStays ==
  [][response' # response => \E s \in response' : \A t \in response : s > t]_response
=============================================================================
