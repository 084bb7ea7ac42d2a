------------------------------ MODULE Segment ------------------------------
(***************************************************************************)
(* What a sealed segment holds: internal/segment/writer.go and reader.go,  *)
(* and the metadata the planner prunes by (internal/model/model.go).  A    *)
(* file is its blocks, each a sequence of records with its time bounds;    *)
(* encoding, compression and offsets are left out, and the footer's CRC    *)
(* with them: a file is either whole or, while it is being rewritten or    *)
(* after a write that failed, not a segment (module DiskCache).            *)
(***************************************************************************)
EXTENDS Naturals, SequencesExt, FiniteSetsExt

CONSTANT BlockTarget   \* defaultBlockTargetBytes, in records

ASSUME SegmentAssumption == BlockTarget \in Nat \ {0}

\* Envelope fields with a summary in SegmentMeta.
Summarised == {"_namespace", "_pod", "_node", "_container"}

Times(recs) == {r.ts : r \in ToSet(recs)}

FlushBlock(sw) ==
    IF sw.cur = <<>> THEN sw
    ELSE [sw EXCEPT !.cur = <<>>, !.blocks =
            Append(@, [recs |-> sw.cur, min |-> Min(Times(sw.cur)), max |-> Max(Times(sw.cur))])]

\* Writer.Append: the block is flushed before a record that would overfill it.
AppendRecord(sw, r) ==
    LET full == Len(sw.cur) > 0 /\ Len(sw.cur) + 1 > BlockTarget
        w == IF full THEN FlushBlock(sw) ELSE sw
    IN  [w EXCEPT !.cur = Append(@, r), !.all = Append(@, r)]

\* Finish: what the footer, the index and the summary say of the records.
Finish(sw) ==
    LET w == FlushBlock(sw) IN
    [blocks |-> w.blocks,
     min |-> Min(Times(w.all)),
     max |-> Max(Times(w.all)),
     summary |-> [f \in Summarised |-> {r.env[f] : r \in ToSet(w.all)} \ {""}]]

\* sort.Slice is not stable: records of equal times may come out in any order,
\* of which this is one.  What is checked of results does not depend on which.
ByTime(recs) == SortSeq(recs, LAMBDA a, b : a.ts < b.ts)

\* Spool.Seal writes the batch in the order of its timestamps.
SegmentOf(batch) ==
    Finish(FoldLeft(AppendRecord, [cur |-> <<>>, all |-> <<>>, blocks |-> <<>>], ByTime(batch)))

\* SegmentMeta.Overlaps and BlockMeta.Overlaps; time 0 is Go's zero time.
Overlaps(m, start, end) ==
    /\ start # 0 => m.max >= start
    /\ end # 0 => m.min <= end

Within(r, start, end) ==
    /\ start # 0 => r.ts >= start
    /\ end # 0 => r.ts <= end
=============================================================================
