------------------------------- MODULE Follow -------------------------------
(***************************************************************************)
(* Live tail: GET /v1/query?follow=true (internal/manager/http.go), the    *)
(* hub it subscribes to (internal/query/hub.go), and the three places a    *)
(* received record moves through while a follower scans history: the open  *)
(* buffer, a Seal under way, the catalog (internal/manager/spool.go).      *)
(*                                                                         *)
(* A follower subscribes, lists the catalog, reads the open buffer, sends  *)
(* what it found in the order of time stamps, then forwards its channel    *)
(* and drops what lies at or below the highest offset it has sent of that  *)
(* source.  Accept appends a record under Spool.mu and publishes it after  *)
(* the unlock, so that two streams that carry the same source may publish  *)
(* in the other order.  One follower and one life of the manager; seals do *)
(* not overlap (module Spool has the ones that do).                        *)
(***************************************************************************)
EXTENDS Naturals, SequencesExt

CONSTANTS
    Source,     \* source keys
    MaxOffset,  \* bound: lines per source
    Stamp,      \* Record.Timestamp: the time stamp of each line
    MaxStamp,   \* bound: the latest time stamp
    Clock,      \* what the manager's clock may show when somebody subscribes
    Matching,   \* the lines that satisfy the follower's expression
    Start,      \* the request's start; 0 when there is none
    Stream,     \* ingest streams, the abandoned one of a reconnected agent included
    BufSize,    \* Hub.bufSize
    MaxFaults   \* bound: seals that fail

Record == [src : Source, off : 1 .. MaxOffset]
NoRecord == [src |-> {}, off |-> 0]
Watermark == [Source -> 0 .. MaxOffset]

\* The runtime stamps the lines of a file as its clock says: nothing makes the
\* stamps of a source distinct, or increasing.
ASSUME FollowAssumption ==
    /\ MaxOffset \in Nat /\ MaxStamp \in Nat /\ Start \in Nat /\ MaxFaults \in Nat
    /\ BufSize \in Nat \ {0}
    /\ Matching \subseteq Record
    /\ Stamp \in [Record -> 0 .. MaxStamp] /\ Clock \subseteq 0 .. MaxStamp
    /\ {} \notin Source

VARIABLES
    received,   \* Spool.received
    buf,        \* Spool.buf
    batch,      \* the records of the Seal under way
    catalog,    \* the records of the cataloged segments
    accepted,   \* per stream, the record Accept has appended and not yet published
    faults,
    sub,        \* the subscription: "none", "open", or "closed"
    chan,       \* the subscriber's channel
    pc,         \* where streamFollow is
    treg,       \* its clock when it had subscribed, the end of the history
    segs,       \* records of the segments Overlapping returned
    todo,       \* what the merge of the history has left to send, or had at the end
    maxEmitted, \* the highest offset sent per source, 0 when absent
    emitted,    \* what the client was sent
    inSeal,     \* history: records in a Seal while the follower read both places
    ahead,      \* history: records received before the scan, stamped after treg
    overtaken,  \* history: records published after a later one of their source
    replayed    \* history: records the scan found

spoolVars == <<received, buf, batch, catalog, accepted, faults>>
hubVars == <<sub, chan>>
followVars == <<pc, treg, segs, todo, maxEmitted, emitted>>
history == <<inSeal, ahead, overtaken, replayed>>
vars == <<spoolVars, hubVars, followVars, history>>

Init ==
    /\ received = [s \in Source |-> 0]
    /\ buf = {} /\ batch = {} /\ catalog = {}
    /\ accepted = [t \in Stream |-> NoRecord]
    /\ faults = 0
    /\ sub = "none"
    /\ chan = <<>>
    /\ pc = "idle"
    /\ treg = 0
    /\ segs = {} /\ todo = {}
    /\ maxEmitted = [s \in Source |-> 0]
    /\ emitted = <<>>
    /\ inSeal = {} /\ ahead = {} /\ overtaken = {} /\ replayed = {}

-----------------------------------------------------------------------------
(* Ingest.                                                                 *)

\* A stream delivers a line.  A line that was received is dropped; a new one is
\* the next of its source, whatever stream it comes on (module Delivery).
Accept(t, r) ==
    /\ accepted[t] = NoRecord
    /\ r.off = received[r.src] + 1
    /\ received' = [received EXCEPT ![r.src] = r.off]
    /\ buf' = buf \cup {r}
    /\ accepted' = [accepted EXCEPT ![t] = r]
    /\ UNCHANGED <<batch, catalog, faults, hubVars, followVars, history>>

\* Mutant of Publish: a full channel does not end the subscription.
PublishUnbounded(t) ==
    /\ accepted[t] # NoRecord
    /\ LET r == accepted[t] IN
        /\ chan' = IF sub = "open" /\ r \in Matching THEN Append(chan, r) ELSE chan
        /\ overtaken' = overtaken \cup {q \in Range(accepted) : q.src = r.src /\ q.off < r.off}
    /\ accepted' = [accepted EXCEPT ![t] = NoRecord]
    /\ UNCHANGED <<received, buf, batch, catalog, faults, sub, followVars, inSeal, ahead, replayed>>

\* Mutant of Publish: a record that does not fit the channel is left out.
PublishSkips(t) ==
    /\ accepted[t] # NoRecord
    /\ LET r == accepted[t] IN
        /\ chan' = IF sub = "open" /\ r \in Matching /\ Len(chan) < BufSize
                   THEN Append(chan, r) ELSE chan
        /\ overtaken' = overtaken \cup {q \in Range(accepted) : q.src = r.src /\ q.off < r.off}
    /\ accepted' = [accepted EXCEPT ![t] = NoRecord]
    /\ UNCHANGED <<received, buf, batch, catalog, faults, sub, followVars, inSeal, ahead, replayed>>

\* Accept calls Hub.Publish after it has released Spool.mu.  A subscriber whose
\* channel is full is removed and its channel closed.
Publish(t) ==
    /\ accepted[t] # NoRecord
    /\ LET r == accepted[t] IN
        /\ \/ /\ sub # "open" \/ r \notin Matching
              /\ UNCHANGED hubVars
           \/ /\ sub = "open" /\ r \in Matching /\ Len(chan) < BufSize
              /\ chan' = Append(chan, r)
              /\ UNCHANGED sub
           \/ /\ sub = "open" /\ r \in Matching /\ Len(chan) >= BufSize
              /\ sub' = "closed"
              /\ UNCHANGED chan
        /\ overtaken' = overtaken \cup {q \in Range(accepted) : q.src = r.src /\ q.off < r.off}
    /\ accepted' = [accepted EXCEPT ![t] = NoRecord]
    /\ UNCHANGED <<received, buf, batch, catalog, faults, followVars, inSeal, ahead, replayed>>

-----------------------------------------------------------------------------
(* Spool.Seal, as far as a query sees it: the buffer is emptied at once,   *)
(* the catalog entry comes last, a failure puts the batch back.            *)

TakeBuffer ==
    /\ buf # {} /\ batch = {}
    /\ batch' = buf
    /\ buf' = {}
    /\ inSeal' = IF pc = "listed" THEN inSeal \cup batch' ELSE inSeal
    /\ UNCHANGED <<received, catalog, accepted, faults, hubVars, followVars, ahead, overtaken, replayed>>

PutCatalog ==
    /\ batch # {}
    /\ catalog' = catalog \cup batch
    /\ batch' = {}
    /\ UNCHANGED <<received, buf, accepted, faults, hubVars, followVars, history>>

Requeue ==
    /\ batch # {}
    /\ faults < MaxFaults
    /\ faults' = faults + 1
    /\ buf' = batch \cup buf
    /\ batch' = {}
    /\ UNCHANGED <<received, catalog, accepted, hubVars, followVars, history>>

-----------------------------------------------------------------------------
(* streamFollow.                                                           *)

\* Hub.Subscribe, then time.Now: the manager's clock may lie behind the clock
\* that stamped a line it has already received.
Subscribe ==
    /\ pc = "idle"
    /\ sub' = "open"
    /\ treg' \in Clock
    /\ pc' = "subscribed"
    /\ UNCHANGED <<spoolVars, chan, segs, todo, maxEmitted, emitted, history>>

\* Executor.Run asks for the overlapping segments and opens their readers.
List ==
    /\ pc = "subscribed"
    /\ segs' = catalog
    /\ inSeal' = batch
    /\ pc' = "listed"
    /\ UNCHANGED <<spoolVars, hubVars, treg, todo, maxEmitted, emitted, ahead, overtaken, replayed>>

InRange(r) == (Start = 0 \/ Stamp[r] >= Start) /\ Stamp[r] <= treg

\* Run then takes the snapshot of the open buffer.  The records are fixed from
\* here on; the merge filters them by range and expression.
Snapshot ==
    /\ pc = "listed"
    /\ todo' = {r \in segs \cup buf : InRange(r) /\ r \in Matching}
    /\ ahead' = {r \in Record : r.off <= received[r.src] /\ Stamp[r] > treg}
    /\ replayed' = todo'
    /\ segs' = {}
    /\ pc' = "history"
    /\ UNCHANGED <<spoolVars, hubVars, treg, maxEmitted, emitted, inSeal, overtaken>>

\* The closure emit of handleQuery.
Emit(r) ==
    /\ emitted' = Append(emitted, r)
    /\ maxEmitted' = [maxEmitted EXCEPT ![r.src] = IF r.off > @ THEN r.off ELSE @]

\* The merge sends the earliest record any of the sources of history has.  Among
\* equal stamps any may come first: Seal and Snapshot sort by stamp alone, with a
\* sort that is not stable.
EmitHistory(r) ==
    /\ pc = "history"
    /\ r \in todo
    /\ \A q \in todo : Stamp[r] <= Stamp[q]
    /\ Emit(r)
    /\ todo' = todo \ {r}
    /\ UNCHANGED <<spoolVars, hubVars, pc, treg, segs, history>>

\* Mutant of HistoryDone: the follower subscribes once the history is sent.
HistoryDoneSubscribes ==
    /\ pc = "history"
    /\ todo = {}
    /\ pc' = "live"
    /\ chan' = <<>>
    /\ sub' = "open"
    /\ UNCHANGED <<spoolVars, treg, segs, todo, maxEmitted, emitted, history>>

HistoryDone ==
    /\ pc = "history"
    /\ todo = {}
    /\ pc' = "live"
    /\ UNCHANGED <<spoolVars, hubVars, treg, segs, todo, maxEmitted, emitted, history>>

\* Mutant of Forwards: what equals the mark is sent again.
ForwardsEqual(r) == (Start = 0 \/ Stamp[r] >= Start) /\ r.off >= maxEmitted[r.src]

Forwards(r) == (Start = 0 \/ Stamp[r] >= Start) /\ r.off > maxEmitted[r.src]

Live ==
    /\ pc = "live"
    /\ chan # <<>>
    /\ IF Forwards(Head(chan)) THEN Emit(Head(chan)) ELSE UNCHANGED <<maxEmitted, emitted>>
    /\ chan' = Tail(chan)
    /\ UNCHANGED <<spoolVars, sub, pc, treg, segs, todo, history>>

\* The channel was closed because the follower lagged, and is empty.
Lagged ==
    /\ pc = "live"
    /\ sub = "closed"
    /\ chan = <<>>
    /\ pc' = "gone"
    /\ UNCHANGED <<spoolVars, hubVars, treg, segs, todo, maxEmitted, emitted, history>>

\* The scan fails, or the client goes away: noticed by a failing emit, or by the
\* request's context once the history is sent.  Sub.Close removes the subscription.
Leave ==
    /\ pc \in {"subscribed", "listed", "history", "live"}
    /\ pc' = "gone"
    /\ sub' = "closed"
    /\ chan' = <<>>
    /\ segs' = {}
    /\ UNCHANGED <<spoolVars, treg, todo, maxEmitted, emitted, history>>

-----------------------------------------------------------------------------
FollowerStep ==
    \/ List \/ Snapshot \/ HistoryDone \/ Live \/ Lagged
    \/ \E r \in Record : EmitHistory(r)

Next ==
    \/ \E t \in Stream : (\E r \in Record : Accept(t, r)) \/ Publish(t)
    \/ TakeBuffer \/ PutCatalog \/ Requeue
    \/ Subscribe \/ FollowerStep \/ Leave

Spec == Init /\ [][Next]_vars

\* A stream that has appended a record goes on to publish it; the follower's
\* goroutine runs.  Nothing is assumed of arrivals, seals or the client.
Fairness ==
    /\ \A t \in Stream : WF_vars(Publish(t))
    /\ WF_vars(FollowerStep)

LiveSpec == Spec /\ Fairness

-----------------------------------------------------------------------------
Wanted == {r \in Matching : Start = 0 \/ Stamp[r] >= Start}
Sent == Range(emitted)

TypeOK ==
    /\ received \in Watermark /\ maxEmitted \in Watermark
    /\ buf \in SUBSET Record /\ batch \in SUBSET Record /\ catalog \in SUBSET Record
    /\ accepted \in [Stream -> Record \cup {NoRecord}]
    /\ faults \in 0 .. MaxFaults
    /\ sub \in {"none", "open", "closed"}
    /\ chan \in Seq(Record) /\ Len(chan) <= BufSize
    /\ pc \in {"idle", "subscribed", "listed", "history", "live", "gone"}
    /\ treg \in 0 .. MaxStamp
    /\ segs \in SUBSET Record /\ todo \in SUBSET Record
    /\ emitted \in Seq(Record)
    /\ inSeal \in SUBSET Record /\ ahead \in SUBSET Record /\ overtaken \in SUBSET Record
    /\ replayed \in SUBSET Record

\* The client is sent each line once, and the lines of a source in the order of the
\* log, across the boundary of history and live feed and although publishers
\* overtake one another (http.go:238 and the merge).  The one exception is within
\* the history, between lines whose stamps are equal or contradict the log: they
\* come in the order of stamps, and at equal stamps in any.
InOrderOnce ==
    \A i, j \in 1 .. Len(emitted) :
        LET a == emitted[i]
            b == emitted[j]
        IN  i < j /\ a.src = b.src =>
                \/ a.off < b.off
                \/ a # b /\ a \in replayed /\ b \in replayed /\ Stamp[a] <= Stamp[b]

\* What the code keeps of the gapless feed that README.md:104 and http.go:206
\* promise: a wanted line is left out before a later one of its source only if it
\* was in a Seal between the two reads of the history scan, if its stamp lay ahead of the
\* manager's clock when the scan read it, or if a later line of its source was
\* published first.  The history may send the later line first, when its stamp is
\* no later; then the other is still to come, unless the feed ends there.  A
\* follower that lags is cut off, never skipped ahead.
GaplessButForRaces ==
    \A q \in Sent, r \in Wanted \ (inSeal \cup ahead \cup overtaken) :
        r.src = q.src /\ r.off < q.off => r \in Sent \cup todo

\* A wanted line that is accepted while somebody follows reaches the client, or
\* the feed ends, or one of the races above hits it.
LiveReaches ==
    \A r \in Wanted :
        r \in Range(accepted) /\ pc # "idle"
            ~> r \in Sent \cup inSeal \cup ahead \cup overtaken \/ pc = "gone" \/ sub = "closed"

-----------------------------------------------------------------------------
(* The inductive invariant.                                                *)

OnChan == Range(chan)
Unpublished == Range(accepted) \ {NoRecord}
\* The lines the races do not excuse.
Owed == Wanted \ (inSeal \cup ahead \cup overtaken)

\* What was received is in one of the three places, and what moves on was
\* received.  Between the two reads of the scan a record that has left the
\* buffer is in a listed segment or known to have been in a Seal.
Placed ==
    /\ \A r \in Record : r.off <= received[r.src] <=> r \in buf \cup batch \cup catalog
    /\ \A r \in OnChan \cup Sent \cup todo \cup segs \cup Unpublished : r.off <= received[r.src]
    /\ pc = "listed" => batch \subseteq inSeal /\ catalog \subseteq segs \cup inSeal
    /\ pc \in {"idle", "subscribed", "listed"} => emitted = <<>>
    /\ pc = "idle" => sub = "none" /\ chan = <<>>
    /\ pc \notin {"history", "gone"} => todo = {}

\* maxEmitted is the highest line sent of each source.  The merge has left what it
\* has not sent, and has sent nothing of a later stamp.
Marked ==
    /\ InOrderOnce
    /\ \A q \in Sent : q.off <= maxEmitted[q.src]
    /\ \A s \in Source :
        maxEmitted[s] > 0 => \E q \in Sent : q.src = s /\ q.off = maxEmitted[s]
    /\ todo \subseteq replayed
    /\ pc = "history" => Sent \subseteq replayed
    /\ \A q \in Sent, r \in todo : q # r /\ Stamp[q] <= Stamp[r]

\* A line that is behind a later one of its source, in the channel or on its way
\* to it, was overtaken.
Overtaking ==
    /\ \A q \in OnChan, r \in Unpublished : q.src = r.src /\ r.off < q.off => r \in overtaken
    /\ \A i, j \in 1 .. Len(chan) :
        i < j /\ chan[i].src = chan[j].src /\ chan[j].off < chan[i].off => chan[j] \in overtaken

\* The lines of owed that come before q in its source are in place.
Precede(owed, q, place) == \A r \in owed : r.src = q.src /\ r.off < q.off => r \in place

\* Ahead of whatever is sent, about to be sent or in the channel, nothing owed is
\* missing; while the subscription is open, nothing owed is missing at all.
Complete ==
    /\ \A q \in Sent : Precede(Owed, q, Sent \cup todo)
    /\ \A q \in todo : Precede(Owed, q, Sent \cup todo)
    /\ pc \in {"history", "live"} =>
        /\ \A q \in OnChan : Precede(Owed, q, Sent \cup todo \cup OnChan)
        /\ sub = "open" =>
            \A r \in Owed : r.off <= received[r.src] => r \in Sent \cup todo \cup OnChan \cup Unpublished

\* What streamFollow, the hub and the spool keep true together: every step of one
\* of them preserves it, whatever the others are in the middle of.
IndInv == TypeOK /\ Placed /\ Marked /\ Overtaking /\ Complete
=============================================================================
