---------------------------- MODULE MCReceivers ----------------------------
\* Two responses of two fragments each, enough to mix two sets and complete the
\* older one late; four revisions of which neighbours differ in their pages, so
\* that a cursor of the longer has no page in the shorter; two chunks with a
\* channel that is spread over both, as when its list crosses a frame; counters
\* that roll over after one decision, and two ticks between two polls, in
\* which more than one is rejected.
EXTENDS Receivers

TwoByTwo == <<2, 2>>
ManyPages == <<2, 3, 2, 1>>
TwoChunks == <<{"a", "b"}, {"b", "c"}>>
=============================================================================
