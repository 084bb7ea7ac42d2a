------------------------------ MODULE Receiver ------------------------------
(***************************************************************************)
(* What the ingest server is promised by the sink it delivers to: the      *)
(* Receiver interface of internal/ingest/server.go.  Accept drops          *)
(* duplicates, and Committed moves only over records that are durable.     *)
(* The interface says nothing of segments; here the sink keeps accepted    *)
(* records pending and makes them durable in any batches that respect the  *)
(* order of each source.  A failure loses what is pending and both         *)
(* watermarks; the sink comes back with watermarks read off what is        *)
(* durable.                                                                *)
(***************************************************************************)
EXTENDS Naturals, FiniteSetsExt

CONSTANTS Source, MaxOffset

Record == [src : Source, off : 1 .. MaxOffset]
Watermark == [Source -> 0 .. MaxOffset]

VARIABLES
    up,        \* the sink exists
    received,  \* highest accepted offset per source
    committed, \* what Committed returns
    pending,   \* accepted, not durable yet
    durable    \* survives any failure

vars == <<up, received, committed, pending, durable>>

Init ==
    /\ up = FALSE
    /\ received = [s \in Source |-> 0]
    /\ committed = [s \in Source |-> 0]
    /\ pending = {}
    /\ durable = {}

\* A record at or below the watermark is a duplicate and changes nothing.
Accept(r) ==
    /\ up
    /\ r.off > received[r.src]
    /\ received' = [received EXCEPT ![r.src] = r.off]
    /\ pending' = pending \cup {r}
    /\ UNCHANGED <<up, committed, durable>>

\* A batch holds, with a record, all pending ones that precede it.
InOrder(recs) ==
    \A r \in recs, q \in pending : q.src = r.src /\ q.off <= r.off => q \in recs

Persist(recs) ==
    /\ up
    /\ recs # {}
    /\ InOrder(recs)
    /\ durable' = durable \cup recs
    /\ pending' = pending \ recs
    /\ UNCHANGED <<up, received, committed>>

\* No accepted record at or below the new watermark is still pending.
Commit ==
    /\ up
    /\ committed' \in Watermark
    /\ \A s \in Source : committed[s] <= committed'[s] /\ committed'[s] <= received[s]
    /\ \A r \in pending : committed'[r.src] < r.off
    /\ UNCHANGED <<up, received, pending, durable>>

Fail ==
    /\ up' = FALSE
    /\ received' = [s \in Source |-> 0]
    /\ committed' = [s \in Source |-> 0]
    /\ pending' = {}
    /\ UNCHANGED durable

\* The highest durable offset of each source.
HighestDurable ==
    [s \in Source |-> Max({0} \cup {r.off : r \in {q \in durable : q.src = s}})]

\* Mutant of Recover: the watermarks start from nothing.
RecoverFromZero ==
    /\ ~up
    /\ up' = TRUE
    /\ UNCHANGED <<received, committed, pending, durable>>

Recover ==
    /\ ~up
    /\ up' = TRUE
    /\ received' = HighestDurable
    /\ committed' = HighestDurable
    /\ UNCHANGED <<pending, durable>>

Next ==
    \/ \E r \in Record : Accept(r)
    \/ \E recs \in SUBSET pending : Persist(recs)
    \/ Commit \/ Fail \/ Recover

Spec == Init /\ [][Next]_vars
=============================================================================
