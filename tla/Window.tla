------------------------------- MODULE Window -------------------------------
(***************************************************************************)
(* The window of records the agent holds until they are acked              *)
(* (Client.unacked and the envelope of internal/ingest/client.go), as a    *)
(* value.  A source is one generation of a log file and has MaxOffset      *)
(* lines.  Offsets are positions of lines, and Size is the encoded size of *)
(* each.                                                                   *)
(***************************************************************************)
EXTENDS Seqs

CONSTANTS
    Source,     \* source keys
    MaxOffset,  \* bound: lines per source
    Size        \* encoded size of each line

Record == [src : Source, off : 1 .. MaxOffset]

ASSUME WindowAssumption == MaxOffset \in Nat /\ Size \in [Record -> Nat \ {0}]

Envelope == [src : Source, off : 1 .. MaxOffset, sent : BOOLEAN]
Line(e) == [src |-> e.src, off |-> e.off]
Lines(window) == {Line(window[i]) : i \in 1 .. Len(window)}
Bytes(window) == Total([i \in 1 .. Len(window) |-> Size[Line(window[i])]])

\* Ahead of every envelope the window holds all earlier lines of its source that
\* are not among those already done with.
HoldsEarlier(window, done) ==
    \A i \in 1 .. Len(window), r \in Record :
        r.src = window[i].src /\ r.off < window[i].off =>
            r \in done \/ \E j \in 1 .. i - 1 : Line(window[j]) = r

\* What was sent on this session lies in front of what was not.
SentInFront(window) ==
    \A i, j \in 1 .. Len(window) : i < j /\ window[j].sent => window[i].sent
=============================================================================
