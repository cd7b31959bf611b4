-------------------------- MODULE DirectoryPages ---------------------------
(***************************************************************************)
(* The static snapshot of the Directory, which a client fetches page by    *)
(* page while the configuration changes.  A cursor pins the revision it    *)
(* was given for, but not for ever.                                        *)
(*                                                                         *)
(* A client has one request outstanding and drops what does not answer it, *)
(* so the network is one exchange that may be lost.  A page that misses a  *)
(* fragment is lost as a whole.                                            *)
(***************************************************************************)
EXTENDS Integers, SequencesExt

CONSTANTS
  Pages,      \* Pages[r]: the number of pages of the r-th revision
  MaxFaults   \* bound: lost datagrams and lapsed cursors

Revision == DOMAIN Pages
Page == [revision : Revision, index : Nat, last : BOOLEAN]  \* last: nextCursor is null
PageOf(r, i) == [revision |-> r, index |-> i, last |-> i = Pages[r] - 1]
Whole(r) == {PageOf(r, i) : i \in 0 .. Pages[r] - 1}

VARIABLES
  current,  \* the Relay's revision
  pinned,   \* the revisions it retains for cursors
  wire,     \* the outstanding exchange: "idle", "request", "error" or "page"
  answer,   \* the page on the wire
  staged,   \* the client's pages, in the order of their arrival
  shown,    \* its static snapshot
  faults    \* how often the network or the clock interfered

vars == <<current, pinned, wire, answer, staged, shown, faults>>
relay == <<current, pinned>>
client == <<staged, shown>>

Init ==
  /\ current = 1 /\ pinned = {}
  /\ wire = "idle" /\ answer = PageOf(1, 0)
  /\ staged = <<>> /\ shown = {}
  /\ faults = 0

-----------------------------------------------------------------------------
Revise ==
  /\ current < Len(Pages)
  /\ current' = current + 1
  /\ UNCHANGED <<pinned, wire, answer, client, faults>>

Lapse(r) ==
  /\ r \in pinned /\ faults < MaxFaults
  /\ pinned' = pinned \ {r} /\ faults' = faults + 1
  /\ UNCHANGED <<current, wire, answer, client>>

Lose ==
  /\ wire # "idle" /\ faults < MaxFaults
  /\ wire' = "idle" /\ faults' = faults + 1
  /\ UNCHANGED <<relay, answer, client>>

\* The client asks for the first page, or with the cursor of its last one; it
\* asks again when nothing was answered, and from the start when it is done.
Ask ==
  /\ wire = "idle" /\ wire' = "request"
  /\ UNCHANGED <<relay, answer, client, faults>>

\* A cursor is answered from the revision it pins.  When that is gone the Relay
\* answers with PAGING_SESSION_EXPIRED or, after a restart, from the current one.
Answer ==
  LET cursor == Last(staged) IN
  /\ wire = "request"
  /\ \/ /\ staged = <<>>
        /\ wire' = "page" /\ answer' = PageOf(current, 0)
     \/ /\ staged # <<>> /\ cursor.revision \in pinned
        /\ wire' = "page" /\ answer' = PageOf(cursor.revision, cursor.index + 1)
     \/ /\ staged # <<>> /\ cursor.revision \notin pinned /\ cursor.index + 1 < Pages[current]
        /\ wire' = "page" /\ answer' = PageOf(current, cursor.index + 1)
     \/ /\ staged # <<>> /\ cursor.revision \notin pinned
        /\ wire' = "error" /\ UNCHANGED answer
  /\ pinned' = IF wire' = "page" /\ ~answer'.last THEN pinned \cup {answer'.revision} ELSE pinned
  /\ UNCHANGED <<current, client, faults>>

-----------------------------------------------------------------------------
\* Mutant of Verdict: only the indexes decide.
VerdictByIndex(pages) ==
  IF /\ [i \in DOMAIN pages |-> pages[i].index] = [i \in DOMAIN pages |-> i - 1]
     /\ Last(pages).last
  THEN "replace_static_snapshot_atomically"
  ELSE "retain_previous_snapshot"

Verdict(pages) ==
  IF Cardinality({pages[i].revision : i \in DOMAIN pages}) > 1
  THEN "discard_staged_snapshot_restart_pagination"
  ELSE IF /\ [i \in DOMAIN pages |-> pages[i].index] = [i \in DOMAIN pages |-> i - 1]
          /\ Last(pages).last
  THEN "replace_static_snapshot_atomically"
  ELSE "retain_previous_snapshot"

Receive ==
  LET pages == Append(staged, answer) IN
  /\ wire = "page" /\ wire' = "idle"
  /\ \/ /\ Verdict(pages) = "replace_static_snapshot_atomically"
        /\ shown' = ToSet(pages) /\ staged' = <<>>
     \/ /\ Verdict(pages) = "discard_staged_snapshot_restart_pagination"
        /\ staged' = <<>> /\ UNCHANGED shown
     \/ /\ Verdict(pages) = "retain_previous_snapshot"
        /\ staged' = pages /\ UNCHANGED shown
  /\ UNCHANGED <<relay, answer, faults>>

ReceiveError ==
  /\ wire = "error" /\ wire' = "idle"
  /\ staged' = <<>>
  /\ UNCHANGED <<relay, answer, shown, faults>>

Next ==
  \/ Revise \/ (\E r \in Revision : Lapse(r)) \/ Lose
  \/ Ask \/ Answer \/ Receive \/ ReceiveError

\* A client keeps asking and a Relay that is asked answers.
Spec ==
  /\ Init /\ [][Next]_vars
  /\ WF_vars(Ask) /\ WF_vars(Answer) /\ WF_vars(Receive) /\ WF_vars(ReceiveError)

-----------------------------------------------------------------------------
\* The variables' types; what is staged is always the beginning of one revision.
TypeOK ==
  /\ current \in Revision /\ pinned \subseteq Revision
  /\ wire \in {"idle", "request", "page", "error"} /\ answer \in Page
  /\ shown = {} \/ \E r \in Revision : shown = Whole(r)
  /\ staged = <<>> \/ \E r \in Revision : staged = [i \in 1 .. Len(staged) |-> PageOf(r, i - 1)]
  /\ faults \in 0 .. MaxFaults

\* The client shows whole revisions of the Relay and never pages of two.
Promise == INSTANCE WholeTransfer WITH
  published <- {Whole(r) : r \in 1 .. current},
  applied <- IF shown = {} THEN {} ELSE {shown}
PromiseSpec == Promise!Spec

\* The shown revision never goes back, however long a cursor keeps an old one.
NeverBackwards ==
  [][\A old \in shown, new \in shown' : old.revision <= new.revision]_vars

\* A revision that stays is shown in the end, whatever was lost or lapsed
\* before, and however often the pages of an older one had to be thrown away.
CurrentIsShown == \A r \in Revision : current = r ~> shown = Whole(r) \/ current # r
=============================================================================
