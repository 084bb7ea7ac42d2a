------------------------------- MODULE Query -------------------------------
(***************************************************************************)
(* Queries over the sealed segments and the open buffer: handleQuery       *)
(* without follow (internal/manager/http.go), Executor.Run and             *)
(* segmentMatches (internal/query/planner.go) and the iterators of         *)
(* iter.go, over the language of module QueryLang, the files of module     *)
(* Segment and the disk cache of module DiskCache.                         *)
(*                                                                         *)
(* A job is what one run of the model is about: a store, and one or more   *)
(* requests to it, each handled by a goroutine of its own.  The open       *)
(* buffer stands still; how it moves is the business of modules Spool and  *)
(* Follow.                                                                 *)
(***************************************************************************)
EXTENDS DiskCache, QueryLang, Segment

CONSTANTS
    Stores,     \* by name: batches per segment, segments yet to seal, open buffer, faults
    Jobs,       \* a store's name and a request for each reader that makes one
    Samples     \* records to compare the meaning of queries on

ASSUME QueryAssumption ==
    \A j \in Jobs : j.store \in DOMAIN Stores /\ DOMAIN j.requests \subseteq Reader

Segments == [st \in DOMAIN Stores |-> [g \in DOMAIN Stores[st].batches |-> SegmentOf(Stores[st].batches[g])]]

VARIABLES
    job,
    pc,         \* where each request is
    ast,        \* Request.Expr
    todo,       \* the segments Run has still to visit
    iters,      \* the iterators, in the order Run made them
    closers,    \* the segments whose readers Run will close when it returns
    out,        \* what was emitted
    listed,     \* history: the segments the catalog listed
    dropped     \* history: Run left out an iterator that could not read its first block

queryVars == <<pc, ast, todo, iters, closers, out, listed, dropped>>
vars == <<job, queryVars, cacheVars>>

Req(q) == job.requests[q]
Store == Stores[job.store]
Segm(g) == Segments[job.store][g]

Init ==
    /\ job \in Jobs
    /\ CacheInit(DOMAIN Store.batches, Store.later, Store.faults)
    /\ pc = [q \in Reader |-> IF q \in DOMAIN job.requests THEN "start" ELSE "none"]
    /\ ast = [q \in Reader |-> MatchAll]
    /\ todo = [q \in Reader |-> <<>>]
    /\ iters = [q \in Reader |-> <<>>]
    /\ closers = [q \in Reader |-> {}]
    /\ out = [q \in Reader |-> <<>>]
    /\ listed = [q \in Reader |-> {}]
    /\ dropped = [q \in Reader |-> FALSE]

-----------------------------------------------------------------------------
\* Parse, which answers a query it rejects with an error, and Overlapping.
Start(q) ==
    LET n == Parse(Req(q).text)
        overlapping == {g \in Cataloged : Overlaps(Segm(g), Req(q).start, Req(q).end)}
    IN  /\ pc[q] = "start"
        /\ ast' = [ast EXCEPT ![q] = n]
        /\ pc' = [pc EXCEPT ![q] = IF n = Error THEN "rejected" ELSE "plan"]
        /\ todo' = [todo EXCEPT ![q] =
                IF n = Error THEN <<>>
                ELSE SetToSortSeq(overlapping, LAMBDA g, h : Segm(g).min < Segm(h).min)]
        /\ listed' = [listed EXCEPT ![q] = Cataloged]
        /\ UNCHANGED <<job, iters, closers, out, dropped, cacheVars>>

\* segmentMatches: a summary without any value excludes nothing.
SegmentMatches(g, n) ==
    \A p \in Required(n) :
        p.field \in Summarised =>
            LET values == Segm(g).summary[p.field] IN values = {} \/ p.value \in values

Prune(q) ==
    /\ pc[q] = "plan" /\ todo[q] # <<>> /\ fetch[q].pc = "idle"
    /\ ~SegmentMatches(Head(todo[q]), ast[q])
    /\ todo' = [todo EXCEPT ![q] = Tail(@)]
    /\ UNCHANGED <<job, pc, ast, iters, closers, out, listed, dropped, cacheVars>>

Visit(q) ==
    /\ pc[q] = "plan" /\ todo[q] # <<>> /\ fetch[q].pc = "idle"
    /\ SegmentMatches(Head(todo[q]), ast[q])
    /\ CallReader(q, Head(todo[q]))
    /\ UNCHANGED <<job, queryVars>>

\* Run returns: the deferred function closes the readers it has collected.
End(q, how) ==
    /\ pc' = [pc EXCEPT ![q] = how]
    /\ fds' = [fds EXCEPT ![q] = [g \in Seg |-> IF g \in closers[q] THEN 0 ELSE @[g]]]
    /\ fetch' = [fetch EXCEPT ![q] = Idle]
    /\ UNCHANGED <<closers, storeVars>>

ReaderFails(q) ==
    /\ fetch[q].pc = "failed"
    /\ End(q, "failed")
    /\ UNCHANGED <<job, ast, todo, iters, out, listed, dropped>>

Directed(q, s) == IF Req(q).desc THEN Reverse(s) ELSE s

\* segIter.load of the next block: ReadBlock fails on a file cut short.
Readable(q, it) == fds[q][it.seg] \in whole
Loaded(q, it) ==
    [it EXCEPT !.blocks = Tail(@), !.buf = Directed(q, Head(it.blocks).recs)]

\* newSegIter on the reader that Store.Reader gave to q.
NewSegIter(q) ==
    LET g == fetch[q].seg
        blocks == SelectSeq(Segm(g).blocks, LAMBDA b : Overlaps(b, Req(q).start, Req(q).end))
    IN  [seg |-> g, blocks |-> Directed(q, blocks), buf |-> <<>>, err |-> FALSE]

\* The first peek.  An iterator that has nothing to yield is not kept, nor is one
\* whose first block cannot be read.
FirstPeek(q) ==
    LET it == NewSegIter(q) IN
    /\ iters' = [iters EXCEPT ![q] = IF it.blocks # <<>> /\ Readable(q, it) THEN Append(@, Loaded(q, it)) ELSE @]
    /\ dropped' = [dropped EXCEPT ![q] = @ \/ (it.blocks # <<>> /\ ~Readable(q, it))]

\* Mutant of Attach: the reader is to be closed only if its iterator is kept.
AttachKept(q) ==
    /\ fetch[q].pc = "ready"
    /\ fetch' = [fetch EXCEPT ![q] = Idle]
    /\ FirstPeek(q)
    /\ closers' = [closers EXCEPT ![q] = IF iters'[q] # iters[q] THEN @ \cup {fetch[q].seg} ELSE @]
    /\ todo' = [todo EXCEPT ![q] = Tail(@)]
    /\ UNCHANGED <<job, pc, ast, out, listed, fds, storeVars>>

\* Store.Reader has returned.
Attach(q) ==
    /\ fetch[q].pc = "ready"
    /\ fetch' = [fetch EXCEPT ![q] = Idle]
    /\ FirstPeek(q)
    /\ closers' = [closers EXCEPT ![q] = @ \cup {fetch[q].seg}]
    /\ todo' = [todo EXCEPT ![q] = Tail(@)]
    /\ UNCHANGED <<job, pc, ast, out, listed, fds, storeVars>>

\* Spool.Snapshot: the open buffer in the range, in the order of time.
OpenSnapshot(q) ==
    LET open == ByTime(SelectSeq(Store.open, LAMBDA r : Within(r, Req(q).start, Req(q).end)))
        it == [seg |-> Idle.seg, blocks |-> <<>>, buf |-> Directed(q, open), err |-> FALSE]
    IN  /\ pc[q] = "plan" /\ todo[q] = <<>>
        /\ iters' = [iters EXCEPT ![q] = IF open # <<>> THEN Append(@, it) ELSE @]
        /\ pc' = [pc EXCEPT ![q] = "merge"]
        /\ UNCHANGED <<job, ast, todo, closers, out, listed, dropped, cacheVars>>

-----------------------------------------------------------------------------
(* The merge.                                                              *)

Exhausted(it) == it.buf = <<>> /\ it.blocks # <<>> /\ ~it.err
MustLoad(q) == {i \in DOMAIN iters[q] : Exhausted(iters[q][i])}

\* peek of an iterator at the end of a block.
LoadBlock(q) ==
    /\ pc[q] = "merge"
    /\ MustLoad(q) # {}
    /\ LET i == Min(MustLoad(q))
           it == iters[q][i]
       IN  iters' = [iters EXCEPT ![q][i] = IF Readable(q, it) THEN Loaded(q, it) ELSE [it EXCEPT !.err = TRUE]]
    /\ UNCHANGED <<job, pc, ast, todo, closers, out, listed, dropped, cacheVars>>

HeadTs(it) == Head(it.buf).ts
Heads(q) == {i \in DOMAIN iters[q] : iters[q][i].buf # <<>>}

\* pickNext: the first iterator with the earliest head, or the latest.
PickNext(q) ==
    CHOOSE i \in Heads(q) : \A j \in Heads(q) :
        LET a == HeadTs(iters[q][i])
            b == HeadTs(iters[q][j])
        IN  (IF Req(q).desc THEN a > b ELSE a < b) \/ (a = b /\ i <= j)

\* Run emits the record or passes it over.
Emit(q) ==
    LET i == PickNext(q)
        r == Head(iters[q][i].buf)
        hit == Within(r, Req(q).start, Req(q).end) /\ Match(ast[q], r)
    IN  /\ pc[q] = "merge"
        /\ MustLoad(q) = {} /\ Heads(q) # {}
        /\ iters' = [iters EXCEPT ![q][i].buf = Tail(@)]
        /\ out' = [out EXCEPT ![q] = IF hit THEN Append(@, r) ELSE @]
        /\ pc' = [pc EXCEPT ![q] = IF hit /\ Len(out'[q]) = Req(q).limit THEN "close" ELSE @]
        /\ UNCHANGED <<job, ast, todo, closers, listed, dropped, cacheVars>>

\* The end of the merge, or the limit: an iterator that failed fails the query.
Close(q) ==
    /\ \/ pc[q] = "close"
       \/ pc[q] = "merge" /\ MustLoad(q) = {} /\ Heads(q) = {}
    /\ End(q, IF \E i \in DOMAIN iters[q] : iters[q][i].err THEN "failed" ELSE "done")
    /\ iters' = [iters EXCEPT ![q] = <<>>]
    /\ UNCHANGED <<job, ast, todo, out, listed, dropped>>

-----------------------------------------------------------------------------
Next ==
    \/ \E q \in Reader :
        \/ Start(q) \/ Prune(q) \/ Visit(q) \/ ReaderFails(q) \/ Attach(q)
        \/ OpenSnapshot(q) \/ LoadBlock(q) \/ Emit(q) \/ Close(q)
        \/ CacheStep(q) /\ UNCHANGED <<job, queryVars>>
    \/ SealStep /\ UNCHANGED <<job, queryVars>>

Spec == Init /\ [][Next]_vars

\* Queries are callers such as the cache expects, which is what its invariants
\* rest on: planned from a list taken before, they never ask for a segment the
\* catalog does not have or that they have open, and when Run returns, by an
\* error, at the limit or at the end, the closers it collected are all the files
\* it has open (Run, Store.Reader).
UsesCache == CacheSpec

-----------------------------------------------------------------------------
Answered(q) == pc[q] \in {"rejected", "done"}

\* The parser accepts nothing but phrases of the grammar in ast.go's comment, the
\* grammar gives each phrase one meaning, and the tree means the same: precedence,
\* the nesting of "not" and parentheses, and the form of fields.  It does not
\* accept them all: the grammar lets every value follow every operator, and the
\* phrases the parser rejects are those with a value that is a misfit.
GrammarExact ==
    \A q \in Reader : Answered(q) =>
        LET meanings == Select(Req(q).text, Samples) IN
        \/ ast[q] = Error /\ \A m \in meanings : m.misfit
        \/ ast[q] # Error /\ meanings = {Selects({r \in Samples : Match(ast[q], r)})}

\* The comparisons of a field with a literal that is a number or a string fit
\* together whatever kinds of value the field has, none included: != is the
\* complement of =, at most one of <, = and > holds, and <= and >= are < and >
\* with = (cmpEq and cmpOrder coerce each on its own).
ComparisonsAgree ==
    \A q \in Reader : pc[q] = "done" /\ ast[q].type = "cmp" /\ ast[q].lit.kind # "bool" =>
        \A r \in Samples :
            LET holds(op) == CmpMatch([ast[q] EXCEPT !.op = op], r) IN
            /\ holds("!=") = ~holds("=")
            /\ holds("<=") = (holds("<") \/ holds("="))
            /\ holds(">=") = (holds(">") \/ holds("="))
            /\ ~(holds("<") /\ holds(">")) /\ ~(holds("<") /\ holds("=")) /\ ~(holds(">") /\ holds("="))

\* What a query asks for, of the segments it was shown and the open buffer.
Wanted(q) ==
    {r \in UNION {ToSet(Store.batches[g]) : g \in listed[q]} \cup ToSet(Store.open) :
        Within(r, Req(q).start, Req(q).end) /\ Match(ast[q], r)}

InOrder(q, a, b) == IF Req(q).desc THEN a.ts >= b.ts ELSE a.ts <= b.ts

\* The records a query that succeeds returns are the ones it asks for, each once,
\* in the order of time, the first ones when there is a limit: no segment or
\* block that holds one of them is pruned, and none is lost or doubled in the
\* merge (Run, segmentMatches, Overlaps, Append).
ResultExact(q) ==
    LET n == Len(out[q]) IN
    /\ IsInjective(out[q]) /\ ToSet(out[q]) \subseteq Wanted(q)
    /\ \A i, j \in 1 .. n : i < j => InOrder(q, out[q][i], out[q][j])
    /\ \A r \in Wanted(q) \ ToSet(out[q]) : n > 0 /\ n = Req(q).limit /\ InOrder(q, out[q][n], r)

\* The result is exact unless Run left out an iterator that could not read its
\* first block: then it is short, and the query succeeds all the same.
ResultExactUnlessDropped ==
    \A q \in Reader : pc[q] = "done" /\ ~dropped[q] => ResultExact(q)

\* A query fails, or drops an iterator, only when another request or a seal cut
\* or removed a file under it, a download failed or could not be written, or a
\* segment is larger than the whole cache (ensureLocal, Reader): eviction alone never does.
FailsOnlyWhenShaken ==
    \A q \in Reader : pc[q] = "failed" \/ dropped[q] =>
        \/ shaken[q] \/ spoiled # {}
        \/ \E g \in listed[q] : SizeOf[g] > MaxByte
=============================================================================
