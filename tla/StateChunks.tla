---------------------------- MODULE StateChunks ----------------------------
(***************************************************************************)
(* The Management Service asks a Relay for its channels.  The Relay        *)
(* captures one view and answers with chunks, which the service collects   *)
(* in any order and applies when they are all there.                       *)
(*                                                                         *)
(* A Relay at fault may send a chunk twice or with wrong numbers;           *)
(* the link may break and loses what is on it.                             *)
(***************************************************************************)
EXTENDS Integers, SequencesExt

CONSTANTS
  Chunk,        \* Chunk[i + 1]: the channels that travel in the chunk i
  MaxChanges,   \* bound: changes of the Relay's channels
  MaxRequests,  \* bound: requests of the Management Service
  MaxFaults     \* bound: repeated or wrong chunks, broken links

Channel == UNION Range(Chunk)

VARIABLES
  held,      \* the views the Relay held, the last one being the current one
  request,   \* the number of the last request: request_message_id
  waiting,   \* whether it waits for its snapshot
  since,     \* the current view when it was sent
  link,      \* the messages on the link: requests and relay_state_snapshot
  received,  \* the chunks collected for it
  shown,     \* the applied channel list
  faults

vars == <<held, request, waiting, since, link, received, shown, faults>>

\* A chunk of the view number at; its snapshot_id is as fresh as the request.
ChunkOf(reply, i, at) == [in_reply_to |-> reply, index |-> i, count |-> Len(Chunk), at |-> at]

\* The channel entries of chunks, and those of a whole view.
Channels(S) == UNION {{<<c, held[m.at][c]>> : c \in Chunk[m.index + 1]} : m \in S}
Whole(at) == {<<c, held[at][c]>> : c \in Channel}

Init ==
  /\ held = <<[c \in Channel |-> 0]>>
  /\ request = 0 /\ waiting = FALSE /\ since = 1
  /\ link = {} /\ received = {} /\ shown = {}
  /\ faults = 0

-----------------------------------------------------------------------------
\* Participants of a channel come and go.
Change(c) ==
  /\ Len(held) <= MaxChanges
  /\ held' = Append(held, [Last(held) EXCEPT ![c] = @ + 1])
  /\ UNCHANGED <<request, waiting, since, link, received, shown, faults>>

Ask ==
  /\ ~waiting /\ request < MaxRequests
  /\ request' = request + 1 /\ waiting' = TRUE
  /\ since' = Len(held)
  /\ link' = link \cup {[ask |-> request']}
  /\ UNCHANGED <<held, received, shown, faults>>

Asked == {m \in link : "ask" \in DOMAIN m}

Capture ==
  /\ \E m \in Asked :
       link' = (link \ {m}) \cup {ChunkOf(m.ask, i - 1, Len(held)) : i \in DOMAIN Chunk}
  /\ UNCHANGED <<held, request, waiting, since, received, shown, faults>>

\* An index that the chunk_count has no place for.
Misplaced(m) == m.index >= m.count

\* A fault of the Relay: its chunks are there again, and one with another
\* chunk_count or with an index beyond it.
Resend(m) ==
  /\ ~Misplaced(m) /\ faults < MaxFaults /\ faults' = faults + 1
  /\ \E wrong \in {[m EXCEPT !.count = @ + 1], [m EXCEPT !.index = m.count]} :
       link' = link \cup {ChunkOf(m.in_reply_to, i - 1, m.at) : i \in DOMAIN Chunk}
                    \cup {wrong}
  /\ UNCHANGED <<held, request, waiting, since, received, shown>>

\* An incomplete set is discarded with the link.
BreakLink ==
  /\ faults < MaxFaults /\ faults' = faults + 1
  /\ waiting' = FALSE /\ link' = {} /\ received' = {}
  /\ UNCHANGED <<held, request, since, shown>>

-----------------------------------------------------------------------------
\* Chunks of another request or snapshot are left aside.
Matches(m) == waiting /\ m.in_reply_to = request

\* An index that there is not, or twice, or chunks that disagree about their number.
Invalid(m) ==
  Misplaced(m) \/ \E n \in received : m.index = n.index \/ m.count # n.count

Reject == received' = {} /\ waiting' = FALSE

Receive(m) ==
  LET collected == received \cup {m} IN
  /\ link' = link \ {m}
  /\ \/ /\ ~Matches(m)
        /\ UNCHANGED <<received, waiting, shown>>
     \/ /\ Matches(m) /\ Invalid(m)                            \* reject_invalid_snapshot
        /\ Reject /\ UNCHANGED shown
     \/ /\ Matches(m) /\ ~Invalid(m) /\ Cardinality(collected) < m.count
        /\ received' = collected /\ UNCHANGED <<waiting, shown>>
     \/ /\ Matches(m) /\ ~Invalid(m) /\ Cardinality(collected) = m.count
        /\ received' = {} /\ waiting' = FALSE                  \* apply_complete_snapshot
        /\ shown' = Channels(collected)
  /\ UNCHANGED <<held, request, since, faults>>

Next ==
  \/ \E c \in Channel : Change(c)
  \/ Ask \/ Capture
  \/ \E m \in link \ Asked : Resend(m) \/ Receive(m)
  \/ BreakLink

\* The service asks until it has a snapshot; the Relay and the link deliver.
Spec ==
  /\ Init /\ [][Next]_vars
  /\ WF_vars(Ask) /\ WF_vars(Capture) /\ WF_vars(\E m \in link \ Asked : Receive(m))

-----------------------------------------------------------------------------
\* The variables' types; what is collected are distinct chunks of one answer,
\* and never all of them.
TypeOK ==
  /\ held \in Seq([Channel -> Nat]) /\ since \in DOMAIN held
  /\ request \in 0 .. MaxRequests /\ waiting \in BOOLEAN /\ faults \in 0 .. MaxFaults
  /\ received # {} => waiting
  /\ \A m, n \in received :
       /\ m.in_reply_to = request /\ m.at = n.at /\ m.at >= since
       /\ m.index = n.index => m = n
       /\ Cardinality(received) < m.count

\* What is shown is one view of the Relay, whole and never patched together.
Promise == INSTANCE WholeTransfer WITH
  published <- {Whole(at) : at \in DOMAIN held},
  applied <- IF shown = {} THEN {} ELSE {shown}
PromiseSpec == Promise!Spec

\* It is a view that the Relay held after it was asked for, so that an answer
\* which was long on its way cannot pass for the current state.
FreshView ==
  [][shown' # shown => \E at \in since .. Len(held) : shown' = Whole(at)]_vars

\* Rejected, repeated and broken answers do not keep the service from getting
\* a snapshot in the end.
SnapshotArrives == <>(shown # {})
=============================================================================
