---------------------------- MODULE FollowProofs ----------------------------
(***************************************************************************)
(* Proofs about Follow, for any sources, lines, time stamps, expression,   *)
(* start, number of streams and size of the subscriber's channel.          *)
(***************************************************************************)
EXTENDS Follow, TLAPS

-----------------------------------------------------------------------------
(* Sequences as sets of their elements.                                    *)

\* What the channel and the feed hold after a send.
LEMMA RangeAppend ==
    ASSUME NEW S, NEW s \in Seq(S), NEW e \in S
    PROVE  Range(Append(s, e)) = Range(s) \cup {e}
PROOF
<1>. DEFINE a == Append(s, e)
<1>1. /\ DOMAIN a = 1 .. Len(s) + 1
      /\ \A i \in 1 .. Len(s) : a[i] = s[i]
      /\ a[Len(s) + 1] = e
      /\ DOMAIN s = 1 .. Len(s) /\ Len(s) \in Nat
  OBVIOUS
<1>2. 1 .. Len(s) + 1 = (1 .. Len(s)) \cup {Len(s) + 1}
  BY <1>1
<1>. HIDE DEF a
<1>. QED  BY <1>1, <1>2 DEF Range

\* What a receive takes off the channel.
LEMMA RangeTail ==
    ASSUME NEW S, NEW s \in Seq(S), s # <<>>
    PROVE  /\ Head(s) \in S /\ Tail(s) \in Seq(S) /\ Len(s) \in Nat \ {0}
           /\ Len(Tail(s)) = Len(s) - 1 /\ Head(s) = s[1]
           /\ \A i \in 1 .. Len(s) - 1 : Tail(s)[i] = s[i + 1]
           /\ Range(s) = {Head(s)} \cup Range(Tail(s))
PROOF
<1>. DEFINE t == Tail(s)
<1>1. /\ Head(s) \in S /\ t \in Seq(S) /\ Len(s) \in Nat \ {0}
      /\ Len(t) = Len(s) - 1 /\ Head(s) = s[1]
      /\ \A i \in 1 .. Len(s) - 1 : t[i] = s[i + 1]
      /\ DOMAIN s = 1 .. Len(s) /\ DOMAIN t = 1 .. Len(s) - 1
  OBVIOUS
<1>. HIDE DEF t
<1>2. ASSUME NEW i \in 1 .. Len(s)
      PROVE  i = 1 \/ (i - 1 \in 1 .. Len(s) - 1 /\ s[i] = t[i - 1])
  BY <1>1
<1>3. 1 \in 1 .. Len(s) /\ \A i \in 1 .. Len(s) - 1 : i + 1 \in 1 .. Len(s)
  BY <1>1
<1>4. Range(s) \subseteq {Head(s)} \cup Range(t)
  BY <1>1, <1>2 DEF Range
<1>5. {Head(s)} \cup Range(t) \subseteq Range(s)
  <2>1. Head(s) \in Range(s)
    BY <1>1, <1>3 DEF Range
  <2>2. \A i \in DOMAIN t : i + 1 \in DOMAIN s /\ t[i] = s[i + 1]
    BY <1>1, <1>3
  <2>3. Range(t) \subseteq Range(s)
    BY <2>2 DEF Range
  <2>. QED  BY <2>1, <2>3
<1>. QED  BY <1>1, <1>4, <1>5 DEF t

\* The elements of a sequence are those at its indices.
LEMMA RangeIndex ==
    ASSUME NEW S, NEW s \in Seq(S)
    PROVE  /\ Range(s) \subseteq S
           /\ \A x \in Range(s) : \E i \in 1 .. Len(s) : x = s[i]
           /\ \A i \in 1 .. Len(s) : s[i] \in Range(s)
           /\ Len(s) \in Nat
BY DEF Range

-----------------------------------------------------------------------------
(* Records.                                                                *)

\* A record has a source and an offset, and they determine it.
LEMMA RecordFacts ==
    /\ \A r \in Record : r.src \in Source /\ r.off \in 1 .. MaxOffset /\ r.off \in Nat
    /\ \A r, q \in Record : r.src = q.src /\ r.off = q.off => r = q
    /\ NoRecord \notin Record
BY FollowAssumption DEF Record, NoRecord

\* An offset vector has a number for every record's source.
LEMMA WatermarkFacts ==
    ASSUME NEW w \in Watermark, NEW r \in Record
    PROVE  w[r.src] \in Nat /\ w[r.src] \in 0 .. MaxOffset
PROOF
<1>1. r.src \in Source
  BY RecordFacts
<1>. QED  BY <1>1, FollowAssumption DEF Watermark

\* What the derived sets hold is records.
LEMMA SetFacts ==
    ASSUME TypeOK
    PROVE  /\ OnChan \in SUBSET Record /\ Sent \in SUBSET Record /\ Unpublished \in SUBSET Record
           /\ Wanted \in SUBSET Record /\ Owed \in SUBSET Wanted
PROOF
<1>1. OnChan \subseteq Record /\ Sent \subseteq Record
  BY RangeIndex DEF TypeOK, OnChan, Sent
<1>2. Unpublished \subseteq Record
  BY DEF TypeOK, Unpublished, Range
<1>3. Wanted \subseteq Record
  BY FollowAssumption DEF Wanted
<1>. QED  BY <1>1, <1>2, <1>3 DEF Owed

\* What precedes a line stays in place when less is owed and more is in place.
LEMMA PrecedeMore ==
    ASSUME NEW o1, NEW o2 \in SUBSET o1, NEW p1, NEW p2, p1 \subseteq p2,
           NEW q, Precede(o1, q, p1)
    PROVE  Precede(o2, q, p2)
BY DEF Precede

-----------------------------------------------------------------------------
(* The initial state.                                                      *)

LEMMA InitKeeps == Init => IndInv
PROOF
<1>. SUFFICES ASSUME Init
              PROVE  IndInv
  OBVIOUS
<1>0. OnChan = {} /\ Sent = {} /\ Unpublished = {}
  BY DEF Init, OnChan, Sent, Unpublished, Range
<1>1. TypeOK
  BY FollowAssumption DEF Init, TypeOK, Watermark
<1>2. Placed
  <2>1. \A r \in Record : ~(r.off <= received[r.src])
    BY FollowAssumption DEF Init, Record
  <2>. QED  BY <1>0, <2>1 DEF Init, Placed
<1>3. Marked
  BY <1>0 DEF Init, Marked, InOrderOnce
<1>4. Overtaking
  BY <1>0 DEF Init, Overtaking
<1>5. Complete
  BY <1>0 DEF Init, Complete
<1>. QED  BY <1>1, <1>2, <1>3, <1>4, <1>5 DEF IndInv

-----------------------------------------------------------------------------
(* Ingest and seals.                                                       *)

\* A line that arrives is the next of its source: later than everything sent,
\* in the channel or on its way, so nothing has overtaken it.
LEMMA AcceptKeeps ==
    ASSUME IndInv, NEW t \in Stream, NEW r \in Record, Accept(t, r)
    PROVE  IndInv'
PROOF
<1>. USE DEF Accept, hubVars, followVars, history
<1>1. TypeOK /\ Placed /\ Marked /\ Overtaking /\ Complete
  BY DEF IndInv
<1>2. r.src \in Source /\ r.off \in 1 .. MaxOffset /\ received[r.src] \in Nat
  BY <1>1, RecordFacts, WatermarkFacts DEF TypeOK
<1>3. /\ received' \in Watermark
      /\ \A s \in Source : received'[s] = IF s = r.src THEN r.off ELSE received[s]
  <2>1. received \in [Source -> 0 .. MaxOffset] /\ r.off \in 0 .. MaxOffset
    BY <1>1, <1>2 DEF TypeOK, Watermark
  <2>. QED  BY <1>2, <2>1 DEF Watermark
<1>4. /\ OnChan' = OnChan /\ Sent' = Sent
      /\ Unpublished' \subseteq Unpublished \cup {r} /\ Unpublished \cup {r} \subseteq Unpublished'
  <2>1. accepted \in [Stream -> Record \cup {NoRecord}] /\ r # NoRecord
    BY <1>1, RecordFacts DEF TypeOK
  <2>2. Range(accepted') \subseteq Range(accepted) \cup {r}
    BY <2>1 DEF Range
  <2>3. accepted'[t] = r /\ \A u \in Stream : u # t => accepted'[u] = accepted[u]
    BY <2>1
  <2>4. r \in Range(accepted') /\ \A x \in Range(accepted) : x # NoRecord => x \in Range(accepted')
    BY <2>1, <2>3 DEF Range
  <2>. QED  BY <2>1, <2>2, <2>4 DEF OnChan, Sent, Unpublished
<1>5. \A q \in Record : /\ q.src \in Source /\ q.off \in Nat /\ received[q.src] \in Nat
                        /\ received'[q.src] \in Nat /\ received[q.src] <= received'[q.src]
  <2>. SUFFICES ASSUME NEW q \in Record
                PROVE  /\ q.src \in Source /\ q.off \in Nat /\ received[q.src] \in Nat
                       /\ received'[q.src] \in Nat /\ received[q.src] <= received'[q.src]
    OBVIOUS
  <2>1. q.src \in Source /\ q.off \in Nat
    BY RecordFacts
  <2>2. received[q.src] \in Nat /\ received'[q.src] \in Nat
    BY <1>1, <1>3, WatermarkFacts DEF TypeOK
  <2>. QED  BY <1>2, <1>3, <2>1, <2>2
<1>6. TypeOK'
  <2>1. accepted' \in [Stream -> Record \cup {NoRecord}]
    BY <1>1 DEF TypeOK
  <2>. QED  BY <1>1, <1>3, <2>1 DEF TypeOK
<1>7. Placed'
  <2>1. ASSUME NEW q \in Record
        PROVE  q.off <= received'[q.src] <=> q \in buf' \cup batch' \cup catalog'
    <3>1. q.off <= received[q.src] <=> q \in buf \cup batch \cup catalog
      BY <1>1 DEF Placed
    <3>2. q.off <= received'[q.src] <=> q.off <= received[q.src] \/ q = r
      <4>1. q.src = r.src /\ q.off = r.off => q = r
        BY RecordFacts
      <4>. QED  BY <1>2, <1>3, <1>5, <4>1
    <3>. QED  BY <3>1, <3>2
  <2>2. ASSUME NEW q \in OnChan \cup Sent \cup todo \cup segs \cup Unpublished
        PROVE  q.off <= received'[q.src]
    <3>1. q \in Record
      BY <1>1, SetFacts DEF TypeOK
    <3>2. q.off <= received[q.src]
      BY <1>1 DEF Placed
    <3>. QED  BY <1>5, <3>1, <3>2
  <2>3. r.off <= received'[r.src]
    BY <1>2, <1>3
  <2>4. \A q \in (OnChan \cup Sent \cup todo \cup segs \cup Unpublished)' : q.off <= received'[q.src]
    BY <1>4, <2>2, <2>3
  <2>. QED  BY <1>1, <2>1, <2>4 DEF Placed
<1>8. Marked'
  BY <1>1, <1>4 DEF Marked, InOrderOnce
<1>9. Overtaking'
  <2>1. \A q \in OnChan : ~(q.src = r.src /\ r.off < q.off)
    <3>1. \A q \in OnChan : q \in Record /\ q.off <= received[q.src]
      BY <1>1, SetFacts DEF Placed
    <3>. QED  BY <1>2, <1>5, <3>1
  <2>. QED  BY <1>1, <1>4, <2>1 DEF Overtaking
<1>10. Complete'
  <2>1. Owed' = Owed
    BY DEF Owed, Wanted
  <2>2. ASSUME NEW q \in Owed, q.off <= received'[q.src]
        PROVE  q.off <= received[q.src] \/ q = r
    <3>1. q \in Record
      BY <1>1, SetFacts
    <3>2. q.src = r.src /\ q.off = r.off => q = r
      BY <3>1, RecordFacts
    <3>. QED  BY <1>2, <1>3, <1>5, <2>2, <3>1, <3>2
  <2>. QED  BY <1>1, <1>4, <2>1, <2>2 DEF Complete
<1>. QED  BY <1>6, <1>7, <1>8, <1>9, <1>10 DEF IndInv

\* A seal starts: what leaves the buffer between the reads is in the Seal.
LEMMA TakeBufferKeeps ==
    ASSUME IndInv, TakeBuffer
    PROVE  IndInv'
PROOF
<1>. USE DEF TakeBuffer, hubVars, followVars
<1>1. TypeOK /\ Placed /\ Marked /\ Overtaking /\ Complete
  BY DEF IndInv
<1>2. OnChan' = OnChan /\ Sent' = Sent /\ Unpublished' = Unpublished
  BY DEF OnChan, Sent, Unpublished
<1>3. Owed' \subseteq Owed
  BY DEF Owed, Wanted
<1>4. TypeOK'
  BY <1>1 DEF TypeOK
<1>5. Placed'
  BY <1>1, <1>2 DEF Placed
<1>6. Marked'
  BY <1>1, <1>2 DEF Marked, InOrderOnce
<1>7. Overtaking'
  BY <1>1, <1>2 DEF Overtaking
<1>8. Complete'
  BY <1>1, <1>2, <1>3, PrecedeMore DEF Complete
<1>. QED  BY <1>4, <1>5, <1>6, <1>7, <1>8 DEF IndInv

\* A seal ends in the catalog or back in the buffer: nothing gets lost, and what
\* the catalog gains after the follower listed it was in the Seal.
LEMMA SealEndKeeps ==
    ASSUME IndInv, PutCatalog \/ Requeue
    PROVE  IndInv'
PROOF
<1>. USE DEF PutCatalog, Requeue, hubVars, followVars, history
<1>1. TypeOK /\ Placed /\ Marked /\ Overtaking /\ Complete
  BY DEF IndInv
<1>2. OnChan' = OnChan /\ Sent' = Sent /\ Unpublished' = Unpublished /\ Owed' = Owed
  BY DEF OnChan, Sent, Unpublished, Owed, Wanted
<1>3. TypeOK'
  BY <1>1, FollowAssumption DEF TypeOK
<1>4. Placed'
  BY <1>1, <1>2 DEF Placed
<1>5. Marked'
  BY <1>1, <1>2 DEF Marked, InOrderOnce
<1>6. Overtaking'
  BY <1>1, <1>2 DEF Overtaking
<1>7. Complete'
  BY <1>1, <1>2 DEF Complete
<1>. QED  BY <1>3, <1>4, <1>5, <1>6, <1>7 DEF IndInv

\* A publication may overtake earlier lines of its source, which is noted, and
\* finds every other earlier line sent, about to be sent or in the channel.
LEMMA PublishKeeps ==
    ASSUME IndInv, NEW t \in Stream, Publish(t)
    PROVE  IndInv'
PROOF
<1>. DEFINE r == accepted[t]
            over == {q \in Range(accepted) : q.src = r.src /\ q.off < r.off}
<1>0. /\ UNCHANGED <<received, buf, batch, catalog, faults, pc, treg, segs, todo,
                     maxEmitted, emitted, inSeal, ahead, replayed>>
      /\ r # NoRecord
      /\ accepted' = [accepted EXCEPT ![t] = NoRecord]
      /\ overtaken' = overtaken \cup over
  BY DEF Publish, followVars
<1>1. TypeOK /\ Placed /\ Marked /\ Overtaking /\ Complete
  BY DEF IndInv
<1>2. /\ r \in Record /\ r \in Unpublished
      /\ over \subseteq Record
      /\ Unpublished' \subseteq Unpublished
      /\ Unpublished \subseteq Unpublished' \cup {r}
      /\ \A x \in Unpublished : x.src = r.src /\ x.off < r.off => x \in over
  <2>1. accepted \in [Stream -> Record \cup {NoRecord}]
    BY <1>1 DEF TypeOK
  <2>2. r \in Record /\ r \in Unpublished
    BY <1>0, <2>1 DEF Unpublished, Range
  <2>3. over \subseteq Record
    <3>1. ASSUME NEW q \in over  PROVE q # NoRecord
      <4>1. r.src # {}
        BY <2>2, RecordFacts, FollowAssumption
      <4>. QED  BY <4>1 DEF NoRecord
    <3>. QED  BY <2>1, <3>1 DEF Range
  <2>4. Range(accepted') \subseteq Range(accepted) \cup {NoRecord}
    BY <1>0, <2>1 DEF Range
  <2>5. Range(accepted) \subseteq Range(accepted') \cup {r}
    BY <1>0, <2>1 DEF Range
  <2>. QED  BY <2>2, <2>3, <2>4, <2>5 DEF Unpublished
<1>3. \/ (sub # "open" \/ r \notin Matching) /\ UNCHANGED <<chan, sub>>
      \/ sub = "open" /\ r \in Matching /\ Len(chan) < BufSize /\ chan' = Append(chan, r) /\ sub' = sub
      \/ sub = "open" /\ r \in Matching /\ sub' = "closed" /\ chan' = chan
  BY DEF Publish, hubVars
<1>. HIDE DEF over
<1>4. Sent' = Sent /\ Owed' \subseteq Owed /\ \A x \in Owed' : x \notin over
  BY <1>0 DEF Sent, Owed, Wanted
<1>5. \A x \in Record : x.src \in Source /\ x.off \in Nat /\ received[x.src] \in Nat
  BY <1>1, RecordFacts, WatermarkFacts DEF TypeOK
<1>6. Marked'
  BY <1>0, <1>1, <1>4 DEF Marked, InOrderOnce
<1>7. /\ accepted' \in [Stream -> Record \cup {NoRecord}]
      /\ overtaken' \subseteq Record
  BY <1>0, <1>1, <1>2 DEF TypeOK
<1>8. CASE /\ chan' = chan
           /\ sub' = sub \/ (sub = "open" /\ sub' = "closed")
           /\ sub' = "open" => r \notin Matching
  <2>1. OnChan' = OnChan
    BY <1>8 DEF OnChan
  <2>2. TypeOK'
    BY <1>0, <1>1, <1>7, <1>8 DEF TypeOK
  <2>3. Placed'
    BY <1>0, <1>1, <1>2, <1>4, <1>8, <2>1 DEF Placed
  <2>4. Overtaking'
    BY <1>0, <1>1, <1>2, <1>8, <2>1 DEF Overtaking
  <2>5. Complete'
    <3>1. sub' = "open" => sub = "open" /\ r \notin Owed'
      BY <1>4, <1>8 DEF Owed, Wanted
    <3>. QED  BY <1>0, <1>1, <1>2, <1>4, <2>1, <3>1, PrecedeMore DEF Complete
  <2>. QED  BY <1>6, <2>2, <2>3, <2>4, <2>5 DEF IndInv
<1>9. CASE sub = "open" /\ r \in Matching /\ Len(chan) < BufSize /\ chan' = Append(chan, r) /\ sub' = sub
  <2>1. chan \in Seq(Record) /\ chan' \in Seq(Record) /\ Len(chan) \in Nat /\ Len(chan') = Len(chan) + 1
    BY <1>1, <1>2, <1>9 DEF TypeOK
  <2>2. OnChan' = OnChan \cup {r}
    BY <1>2, <1>9, <2>1, RangeAppend DEF OnChan
  <2>3. TypeOK'
    BY <1>0, <1>1, <1>7, <1>9, <2>1, FollowAssumption DEF TypeOK
  <2>4. Placed'
    <3>1. pc # "idle"
      BY <1>1, <1>9 DEF Placed
    <3>. QED  BY <1>0, <1>1, <1>2, <1>4, <2>2, <3>1 DEF Placed
  <2>5. Overtaking'
    <3>1. ASSUME NEW q \in OnChan', NEW x \in Unpublished', q.src = x.src, x.off < q.off
          PROVE  x \in overtaken'
      BY <1>0, <1>1, <1>2, <2>2, <3>1 DEF Overtaking
    <3>2. ASSUME NEW i \in 1 .. Len(chan'), NEW j \in 1 .. Len(chan'), i < j,
                 chan'[i].src = chan'[j].src, chan'[j].off < chan'[i].off
          PROVE  chan'[j] \in overtaken'
      <4>1. i \in 1 .. Len(chan) /\ chan'[i] = chan[i] /\ chan[i] \in OnChan
        BY <1>2, <1>9, <2>1, <3>2, RangeIndex DEF OnChan
      <4>2. CASE j = Len(chan) + 1
        <5>1. chan'[j] = r
          BY <1>2, <1>9, <2>1, <4>2
        <5>. QED  BY <1>0, <1>1, <1>2, <3>2, <4>1, <5>1 DEF Overtaking
      <4>3. CASE j \in 1 .. Len(chan)
        <5>1. chan'[j] = chan[j]
          BY <1>2, <1>9, <2>1, <4>3
        <5>. QED  BY <1>0, <1>1, <3>2, <4>1, <4>3, <5>1 DEF Overtaking
      <4>. QED  BY <2>1, <4>2, <4>3
    <3>. QED  BY <3>1, <3>2 DEF Overtaking
  <2>6. Complete'
    <3>1. ASSUME pc \in {"history", "live"}
          PROVE  Precede(Owed', r, Sent \cup todo \cup OnChan)
      <4>. SUFFICES ASSUME NEW x \in Owed', x.src = r.src, x.off < r.off
                    PROVE  x \in Sent \cup todo \cup OnChan
        BY DEF Precede
      <4>1. x \in Record /\ r.off <= received[r.src]
        BY <1>1, <1>2, <1>4, SetFacts DEF Placed
      <4>2. x.off <= received[x.src]
        BY <1>2, <1>5, <4>1
      <4>3. x \in Sent \cup todo \cup OnChan \cup Unpublished
        BY <1>1, <1>4, <1>9, <3>1, <4>2 DEF Complete
      <4>. QED  BY <1>2, <1>4, <4>3
    <3>. QED  BY <1>0, <1>1, <1>2, <1>4, <1>9, <2>2, <3>1, PrecedeMore DEF Complete
  <2>. QED  BY <1>6, <2>3, <2>4, <2>5, <2>6 DEF IndInv
<1>. QED  BY <1>3, <1>8, <1>9

-----------------------------------------------------------------------------
(* The follower.                                                           *)

\* Before the history is read nothing was sent and nothing is owed yet.
LEMMA BeforeHistoryKeeps ==
    ASSUME IndInv, Subscribe \/ List
    PROVE  IndInv'
PROOF
<1>. USE DEF Subscribe, List, spoolVars, hubVars, history
<1>1. TypeOK /\ Placed /\ Marked /\ Overtaking /\ Complete
  BY DEF IndInv
<1>2. OnChan' = OnChan /\ Sent' = Sent /\ Unpublished' = Unpublished
  BY DEF OnChan, Sent, Unpublished
<1>3. Sent = {} /\ todo = {}
  BY <1>1 DEF Placed, Sent, Range
<1>4. TypeOK'
  BY <1>1, FollowAssumption DEF TypeOK
<1>5. Placed'
  BY <1>1, <1>2, <1>4 DEF Placed, TypeOK
<1>6. Marked'
  BY <1>1, <1>2 DEF Marked, InOrderOnce
<1>7. Overtaking'
  BY <1>1, <1>2 DEF Overtaking
<1>8. Complete'
  BY <1>2, <1>3 DEF Complete
<1>. QED  BY <1>4, <1>5, <1>6, <1>7, <1>8 DEF IndInv

\* The two reads of the scan: a wanted line that was received by now is part of
\* the history, was in a Seal, or is stamped ahead of the manager's clock.
LEMMA SnapshotKeeps ==
    ASSUME IndInv, Snapshot
    PROVE  IndInv'
PROOF
<1>. USE DEF Snapshot, spoolVars, hubVars
<1>1. TypeOK /\ Placed /\ Marked /\ Overtaking /\ Complete
  BY DEF IndInv
<1>2. OnChan' = OnChan /\ Sent' = Sent /\ Unpublished' = Unpublished
  BY DEF OnChan, Sent, Unpublished
<1>3. Sent = {} /\ emitted = <<>>
  BY <1>1 DEF Placed, Sent, Range
<1>4. TypeOK'
  BY <1>1 DEF TypeOK
<1>5. Placed'
  BY <1>1, <1>2, <1>4 DEF Placed, TypeOK
<1>6. Marked'
  BY <1>1, <1>2, <1>3 DEF Marked, InOrderOnce
<1>7. Overtaking'
  BY <1>1, <1>2 DEF Overtaking
<1>8. ASSUME NEW x \in Owed', x.off <= received[x.src]
      PROVE  x \in todo'
  <2>1. x \in Wanted /\ x \notin inSeal /\ x \notin ahead' /\ x \in Record
    BY <1>1, SetFacts DEF Owed, Wanted
  <2>2. x \in segs \cup buf
    BY <1>1, <1>8, <2>1 DEF Placed
  <2>3. Stamp[x] \in Nat /\ treg \in Nat
    BY <1>1, <2>1, FollowAssumption DEF TypeOK
  <2>4. Stamp[x] <= treg
    BY <1>8, <2>1, <2>3
  <2>. QED  BY <2>1, <2>2, <2>4 DEF InRange, Wanted
<1>9. ASSUME NEW q \in todo \cup todo' \cup OnChan
      PROVE  Precede(Owed', q, todo')
  <2>. SUFFICES ASSUME NEW x \in Owed', x.src = q.src, x.off < q.off
                PROVE  x \in todo'
    BY DEF Precede
  <2>1. q \in Record /\ x \in Record
    BY <1>1, <1>4, SetFacts DEF TypeOK, Owed, Wanted
  <2>2. q.off <= received[q.src]
    BY <1>1, <1>2, <1>5 DEF Placed
  <2>3. x.off \in Nat /\ q.off \in Nat /\ received[q.src] \in Nat
    BY <1>1, <2>1, RecordFacts, WatermarkFacts DEF TypeOK
  <2>4. x.off <= received[x.src]
    BY <2>2, <2>3
  <2>. QED  BY <1>8, <2>4
<1>10. Complete'
  <2>1. \A q \in todo' : Precede(Owed', q, Sent' \cup todo')
    BY <1>9, PrecedeMore
  <2>2. \A q \in OnChan : Precede(Owed', q, Sent' \cup todo' \cup OnChan')
    BY <1>9, PrecedeMore
  <2>. QED  BY <1>2, <1>3, <1>8, <2>1, <2>2 DEF Complete
<1>. QED  BY <1>4, <1>5, <1>6, <1>7, <1>10 DEF IndInv

\* b may be sent after a of the same source.
MayFollow(a, b) ==
    \/ a.off < b.off
    \/ a # b /\ a \in replayed /\ b \in replayed /\ Stamp[a] <= Stamp[b]

\* What a send does to the feed: r may come after everything sent of its source,
\* so the feed stays in order, and the mark is the highest line.
LEMMA EmitFacts ==
    ASSUME TypeOK, Marked, NEW r \in Record, Emit(r), replayed' = replayed,
           \A q \in Sent : q.src = r.src => MayFollow(q, r)
    PROVE  /\ emitted' \in Seq(Record) /\ maxEmitted' \in Watermark
           /\ Sent' = Sent \cup {r}
           /\ InOrderOnce'
           /\ \A q \in Sent' : q.off <= maxEmitted'[q.src]
           /\ \A s \in Source :
                maxEmitted'[s] > 0 => \E q \in Sent' : q.src = s /\ q.off = maxEmitted'[s]
PROOF
<1>1. /\ emitted \in Seq(Record) /\ emitted' = Append(emitted, r) /\ emitted' \in Seq(Record)
      /\ Len(emitted) \in Nat /\ Len(emitted') = Len(emitted) + 1
  BY DEF TypeOK, Emit
<1>2. Sent' = Sent \cup {r}
  BY <1>1, RangeAppend DEF Sent
<1>3. r.src \in Source /\ r.off \in 1 .. MaxOffset /\ r.off \in Nat /\ maxEmitted[r.src] \in 0 .. MaxOffset
  BY RecordFacts, WatermarkFacts DEF TypeOK
<1>4. /\ maxEmitted' \in Watermark
      /\ \A s \in Source : s # r.src => maxEmitted'[s] = maxEmitted[s]
      /\ maxEmitted'[r.src] = IF r.off > maxEmitted[r.src] THEN r.off ELSE maxEmitted[r.src]
  <2>1. maxEmitted \in [Source -> 0 .. MaxOffset] /\ r.off \in 0 .. MaxOffset
    BY <1>3 DEF TypeOK, Watermark
  <2>. QED  BY <1>3, <2>1 DEF Emit, Watermark
<1>5. /\ r.off <= maxEmitted'[r.src] /\ maxEmitted[r.src] <= maxEmitted'[r.src]
      /\ maxEmitted'[r.src] \in {r.off, maxEmitted[r.src]}
  BY <1>3, <1>4
<1>6. InOrderOnce'
  <2>. SUFFICES ASSUME NEW i \in 1 .. Len(emitted'), NEW j \in 1 .. Len(emitted'), i < j,
                       emitted'[i].src = emitted'[j].src
                PROVE  MayFollow(emitted'[i], emitted'[j])
    BY DEF InOrderOnce, MayFollow
  <2>1. i \in 1 .. Len(emitted) /\ emitted'[i] = emitted[i] /\ emitted[i] \in Sent
    BY <1>1, RangeIndex DEF Sent
  <2>2. CASE j = Len(emitted) + 1
    <3>1. emitted'[j] = r
      BY <1>1, <2>2
    <3>. QED  BY <2>1, <3>1
  <2>3. CASE j \in 1 .. Len(emitted)
    <3>1. emitted'[j] = emitted[j]
      BY <1>1, <2>3
    <3>. QED  BY <2>1, <2>3, <3>1 DEF Marked, InOrderOnce, MayFollow
  <2>. QED  BY <1>1, <2>2, <2>3
<1>7. ASSUME NEW q \in Sent'
      PROVE  q.off <= maxEmitted'[q.src]
  <2>1. CASE q = r
    BY <1>3, <1>5, <2>1
  <2>2. CASE q \in Sent
    <3>1. q \in Record
      BY <2>2, SetFacts
    <3>2. q.src \in Source /\ q.off \in Nat
      BY <3>1, RecordFacts
    <3>3. q.off <= maxEmitted[q.src]
      BY <2>2 DEF Marked
    <3>. QED  BY <1>3, <1>4, <1>5, <2>2, <3>2, <3>3
  <2>. QED  BY <1>2, <2>1, <2>2
<1>8. ASSUME NEW s \in Source, maxEmitted'[s] > 0
      PROVE  \E q \in Sent' : q.src = s /\ q.off = maxEmitted'[s]
  <2>1. CASE s = r.src
    <3>1. CASE maxEmitted'[s] = r.off
      BY <1>2, <2>1, <3>1
    <3>2. CASE maxEmitted'[s] = maxEmitted[s]
      BY <1>2, <1>8, <3>2 DEF Marked
    <3>. QED  BY <1>5, <2>1, <3>1, <3>2
  <2>2. CASE s # r.src
    BY <1>2, <1>4, <1>8, <2>2 DEF Marked
  <2>. QED  BY <2>1, <2>2
<1>. QED  BY <1>1, <1>2, <1>4, <1>6, <1>7, <1>8

\* The merge sends by time stamp, what it has left comes no earlier.
LEMMA EmitHistoryKeeps ==
    ASSUME IndInv, NEW r \in Record, EmitHistory(r)
    PROVE  IndInv'
PROOF
<1>. USE DEF EmitHistory, spoolVars, hubVars, history
<1>1. TypeOK /\ Placed /\ Marked /\ Overtaking /\ Complete
  BY DEF IndInv
<1>2. OnChan' = OnChan /\ Unpublished' = Unpublished /\ Owed' = Owed
  BY DEF OnChan, Unpublished, Owed, Wanted
<1>3. \A q \in Sent : MayFollow(q, r)
  BY <1>1 DEF Marked, MayFollow
<1>4. /\ emitted' \in Seq(Record) /\ maxEmitted' \in Watermark
      /\ Sent' = Sent \cup {r}
      /\ InOrderOnce'
      /\ \A q \in Sent' : q.off <= maxEmitted'[q.src]
      /\ \A s \in Source :
           maxEmitted'[s] > 0 => \E q \in Sent' : q.src = s /\ q.off = maxEmitted'[s]
  BY <1>1, <1>3, EmitFacts
<1>5. Sent' \cup todo' = Sent \cup todo
  BY <1>4
<1>6. \A q \in todo' : r # q /\ Stamp[r] <= Stamp[q]
  OBVIOUS
<1>7. TypeOK'
  BY <1>1, <1>4 DEF TypeOK
<1>8. Placed'
  BY <1>1, <1>2, <1>4 DEF Placed
<1>9. Marked'
  BY <1>1, <1>4, <1>6 DEF Marked
<1>10. Overtaking'
  BY <1>1, <1>2 DEF Overtaking
<1>11. Complete'
  <2>2. \A q \in Sent' : Precede(Owed', q, Sent' \cup todo')
    BY <1>1, <1>2, <1>4, <1>5 DEF Complete
  <2>3. \A q \in todo' : Precede(Owed', q, Sent' \cup todo')
    BY <1>1, <1>2, <1>5 DEF Complete
  <2>. QED  BY <1>1, <1>2, <1>5, <2>2, <2>3 DEF Complete
<1>. QED  BY <1>7, <1>8, <1>9, <1>10, <1>11 DEF IndInv

\* A line from the channel is sent when it is later than the mark; the earlier
\* ones of its source still in the channel were overtaken.  One that is not sent
\* was sent, was overtaken, or lies before the request's start.
LEMMA LiveKeeps ==
    ASSUME IndInv, Live
    PROVE  IndInv'
PROOF
<1>. DEFINE r == Head(chan)
<1>0. /\ UNCHANGED <<received, buf, batch, catalog, accepted, faults, sub, pc, treg, segs, todo,
                     inSeal, ahead, overtaken, replayed>>
      /\ pc = "live" /\ chan # <<>> /\ chan' = Tail(chan)
      /\ IF Forwards(r) THEN Emit(r) ELSE UNCHANGED <<maxEmitted, emitted>>
  BY DEF Live, spoolVars, history
<1>1. TypeOK /\ Placed /\ Marked /\ Overtaking /\ Complete
  BY DEF IndInv
<1>2. Unpublished' = Unpublished /\ Owed' = Owed
  BY <1>0 DEF Unpublished, Owed, Wanted
<1>3. /\ r \in Record /\ chan' \in Seq(Record) /\ Len(chan) \in Nat \ {0} /\ r = chan[1]
      /\ Len(chan') = Len(chan) - 1
      /\ \A i \in 1 .. Len(chan) - 1 : chan'[i] = chan[i + 1]
      /\ OnChan = {r} \cup OnChan'
  BY <1>0, <1>1, RangeTail DEF TypeOK, OnChan
<1>4. todo = {} /\ todo' = {}
  BY <1>0, <1>1 DEF Placed
<1>. HIDE DEF r
<1>5. Overtaking'
  <2>1. ASSUME NEW i \in 1 .. Len(chan'), NEW j \in 1 .. Len(chan'), i < j,
               chan'[i].src = chan'[j].src, chan'[j].off < chan'[i].off
        PROVE  chan'[j] \in overtaken'
    <3>1. /\ i + 1 \in 1 .. Len(chan) /\ j + 1 \in 1 .. Len(chan) /\ i + 1 < j + 1
          /\ chan'[i] = chan[i + 1] /\ chan'[j] = chan[j + 1]
      BY <1>3, <2>1
    <3>. QED  BY <1>0, <1>1, <2>1, <3>1 DEF Overtaking
  <2>. QED  BY <1>0, <1>1, <1>2, <1>3, <2>1 DEF Overtaking
<1>6. ASSUME NEW x \in OnChan', x \in Owed, x.src = r.src, x.off < r.off
      PROVE  FALSE
  <2>1. PICK j \in 1 .. Len(chan') : x = chan'[j]
    BY <1>3, RangeIndex DEF OnChan
  <2>2. 1 \in 1 .. Len(chan) /\ j + 1 \in 1 .. Len(chan) /\ 1 < j + 1 /\ x = chan[j + 1]
    BY <1>3, <2>1
  <2>3. x \in overtaken
    BY <1>1, <1>3, <1>6, <2>2 DEF Overtaking
  <2>. QED  BY <1>6, <2>3 DEF Owed
<1>7. \A q \in OnChan : Precede(Owed, q, Sent \cup OnChan)
  BY <1>0, <1>1, <1>4, PrecedeMore DEF Complete
<1>8. Precede(Owed, r, Sent)
  <2>. SUFFICES ASSUME NEW x \in Owed, x.src = r.src, x.off < r.off, x \in OnChan
                PROVE  FALSE
    BY <1>3, <1>7 DEF Precede
  <2>1. x # r
    BY <1>3, RecordFacts
  <2>. QED  BY <1>3, <1>6, <2>1
<1>9. Len(chan') <= BufSize
  BY <1>1, <1>3, FollowAssumption DEF TypeOK
<1>10. CASE Forwards(r)
  <2>1. Emit(r)
    BY <1>0, <1>10
  <2>2. \A q \in Sent : q.src = r.src => MayFollow(q, r)
    <3>. SUFFICES ASSUME NEW q \in Sent, q.src = r.src
                  PROVE  q.off < r.off
      BY DEF MayFollow
    <3>1. q \in Record /\ q.off <= maxEmitted[q.src]
      BY <1>1, SetFacts DEF Marked
    <3>2. q.off \in Nat /\ r.off \in Nat /\ maxEmitted[r.src] \in Nat
      BY <1>1, <1>3, <3>1, RecordFacts, WatermarkFacts DEF TypeOK
    <3>3. r.off > maxEmitted[r.src]
      BY <1>10 DEF Forwards
    <3>. QED  BY <3>1, <3>2, <3>3
  <2>3. /\ emitted' \in Seq(Record) /\ maxEmitted' \in Watermark
        /\ Sent' = Sent \cup {r}
        /\ InOrderOnce'
        /\ \A q \in Sent' : q.off <= maxEmitted'[q.src]
        /\ \A s \in Source :
             maxEmitted'[s] > 0 => \E q \in Sent' : q.src = s /\ q.off = maxEmitted'[s]
    BY <1>0, <1>1, <1>3, <2>1, <2>2, EmitFacts
  <2>4. TypeOK'
    BY <1>0, <1>1, <1>3, <1>9, <2>3 DEF TypeOK
  <2>5. Placed'
    BY <1>0, <1>1, <1>2, <1>3, <2>3 DEF Placed
  <2>6. Marked'
    BY <1>0, <1>4, <2>3 DEF Marked
  <2>7. Complete'
    <3>1. Sent' \cup OnChan' = Sent \cup OnChan
      BY <1>3, <2>3
    <3>2. \A q \in Sent' : Precede(Owed', q, Sent' \cup todo')
      BY <1>1, <1>2, <1>4, <1>8, <2>3, PrecedeMore DEF Complete
    <3>. QED  BY <1>0, <1>1, <1>2, <1>3, <1>4, <1>7, <3>1, <3>2 DEF Complete
  <2>. QED  BY <1>5, <2>4, <2>5, <2>6, <2>7 DEF IndInv
<1>11. CASE ~Forwards(r)
  <2>1. maxEmitted' = maxEmitted /\ emitted' = emitted /\ Sent' = Sent
    BY <1>0, <1>11 DEF Sent
  <2>2. r \in Owed => r \in Sent
    <3>. SUFFICES ASSUME r \in Owed
                  PROVE  r \in Sent
      OBVIOUS
    <3>1. r.src \in Source /\ r.off \in Nat /\ r.off > 0 /\ maxEmitted[r.src] \in Nat
      BY <1>1, <1>3, RecordFacts, WatermarkFacts DEF TypeOK
    <3>2. r.off <= maxEmitted[r.src]
      BY <1>11, <3>1 DEF Forwards, Owed, Wanted
    <3>3. PICK q \in Sent : q.src = r.src /\ q.off = maxEmitted[r.src]
      BY <1>1, <3>1, <3>2 DEF Marked
    <3>4. q \in Record
      BY <1>1, <3>3, SetFacts
    <3>5. CASE r.off = q.off
      BY <1>3, <3>3, <3>4, <3>5, RecordFacts
    <3>6. CASE r.off < q.off
      BY <1>1, <1>4, <3>3, <3>6 DEF Complete, Precede
    <3>. QED  BY <3>1, <3>2, <3>3, <3>5, <3>6
  <2>3. TypeOK'
    BY <1>0, <1>1, <1>3, <1>9, <2>1 DEF TypeOK
  <2>4. Placed'
    BY <1>0, <1>1, <1>2, <1>3, <2>1 DEF Placed
  <2>5. Marked'
    BY <1>0, <1>1, <1>4, <2>1 DEF Marked, InOrderOnce
  <2>6. Complete'
    <3>1. ASSUME NEW q \in OnChan'
          PROVE  Precede(Owed', q, Sent' \cup OnChan')
      BY <1>2, <1>3, <1>7, <2>1, <2>2 DEF Precede
    <3>2. sub = "open" => \A x \in Owed : x.off <= received[x.src] => x \in Sent \cup OnChan' \cup Unpublished
      BY <1>0, <1>1, <1>3, <1>4, <2>2 DEF Complete
    <3>. QED  BY <1>0, <1>1, <1>2, <1>4, <2>1, <3>1, <3>2 DEF Complete
  <2>. QED  BY <1>5, <2>3, <2>4, <2>5, <2>6 DEF IndInv
<1>. QED  BY <1>10, <1>11

\* The end of the history, and the end of the feed.
LEMMA EndKeeps ==
    ASSUME IndInv, HistoryDone \/ Lagged \/ Leave
    PROVE  IndInv'
PROOF
<1>. USE DEF HistoryDone, Lagged, Leave, spoolVars, hubVars, history
<1>1. TypeOK /\ Placed /\ Marked /\ Overtaking /\ Complete
  BY DEF IndInv
<1>2. OnChan' \in {OnChan, {}} /\ Sent' = Sent /\ Unpublished' = Unpublished /\ Owed' = Owed
  BY DEF OnChan, Sent, Unpublished, Owed, Wanted, Range
<1>3. todo' = todo /\ (pc' = "live" => todo = {}) /\ replayed' = replayed /\ pc' # "history"
  OBVIOUS
<1>4. TypeOK'
  <2>1. chan' \in Seq(Record) /\ Len(chan') <= BufSize
    <3>1. chan' = chan \/ chan' = <<>>
      OBVIOUS
    <3>2. CASE chan' = chan
      BY <1>1, <3>2 DEF TypeOK
    <3>3. CASE chan' = <<>>
      <4>1. Len(chan') = 0 /\ 0 <= BufSize
        BY <3>3, FollowAssumption
      <4>. QED  BY <3>3, <4>1
    <3>. QED  BY <3>1, <3>2, <3>3
  <2>. QED  BY <1>1, <2>1 DEF TypeOK
<1>5. Placed'
  BY <1>1, <1>2, <1>3 DEF Placed
<1>6. Marked'
  BY <1>1, <1>2, <1>3 DEF Marked, InOrderOnce
<1>7. Overtaking'
  BY <1>1, <1>2 DEF Overtaking
<1>8. Complete'
  <2>1. CASE HistoryDone
    <3>1. OnChan' = OnChan
      BY <2>1 DEF OnChan
    <3>. QED  BY <1>1, <1>2, <1>3, <2>1, <3>1 DEF Complete
  <2>2. CASE Lagged \/ Leave
    BY <1>1, <1>2, <1>3, <2>2 DEF Complete
  <2>. QED  BY <2>1, <2>2
<1>. QED  BY <1>4, <1>5, <1>6, <1>7, <1>8 DEF IndInv

-----------------------------------------------------------------------------
(* The theorems.                                                           *)

\* The inductive invariant holds in every reachable state.
THEOREM FollowInvariant == Spec => []IndInv
PROOF
<1>1. IndInv /\ [Next]_vars => IndInv'
  <2>. SUFFICES ASSUME IndInv, [Next]_vars
                PROVE  IndInv'
    OBVIOUS
  <2>1. ASSUME NEW t \in Stream, NEW r \in Record, Accept(t, r)
        PROVE  IndInv'
    BY <2>1, AcceptKeeps
  <2>2. ASSUME NEW t \in Stream, Publish(t)
        PROVE  IndInv'
    BY <2>2, PublishKeeps
  <2>3. CASE TakeBuffer
    BY <2>3, TakeBufferKeeps
  <2>4. CASE PutCatalog \/ Requeue
    BY <2>4, SealEndKeeps
  <2>5. CASE Subscribe \/ List
    BY <2>5, BeforeHistoryKeeps
  <2>6. CASE Snapshot
    BY <2>6, SnapshotKeeps
  <2>7. ASSUME NEW r \in Record, EmitHistory(r)
        PROVE  IndInv'
    BY <2>7, EmitHistoryKeeps
  <2>8. CASE Live
    BY <2>8, LiveKeeps
  <2>9. CASE HistoryDone \/ Lagged \/ Leave
    BY <2>9, EndKeeps
  <2>10. CASE UNCHANGED vars
    <3>. USE <2>10 DEF vars, spoolVars, hubVars, followVars, history
    <3>1. TypeOK /\ Placed /\ Marked /\ Overtaking /\ Complete
      BY DEF IndInv
    <3>2. OnChan' = OnChan /\ Sent' = Sent /\ Unpublished' = Unpublished /\ Owed' = Owed
      BY DEF OnChan, Sent, Unpublished, Owed, Wanted
    <3>3. TypeOK' /\ Placed'
      BY <3>1, <3>2 DEF TypeOK, Placed
    <3>4. Marked' /\ Overtaking'
      BY <3>1, <3>2 DEF Marked, InOrderOnce, Overtaking
    <3>5. Complete'
      BY <3>1, <3>2 DEF Complete
    <3>. QED  BY <3>3, <3>4, <3>5 DEF IndInv
  <2>. QED  BY <2>1, <2>2, <2>3, <2>4, <2>5, <2>6, <2>7, <2>8, <2>9, <2>10 DEF Next, FollowerStep
<1>. QED  BY <1>1, InitKeeps, PTL DEF Spec

\* The follower and the hub keep their types; in particular the subscriber's
\* channel never exceeds its buffer (hub.go:75).
THEOREM FollowTypes == Spec => []TypeOK
PROOF
<1>1. IndInv => TypeOK
  BY DEF IndInv
<1>. QED  BY <1>1, FollowInvariant, PTL

\* A client gets each line at most once, and the lines of a source in order but
\* for those of the history whose stamps do not tell it, whatever publishers
\* overtake one another (http.go:238).
THEOREM FeedInOrderOnce == Spec => []InOrderOnce
PROOF
<1>1. IndInv => InOrderOnce
  BY DEF IndInv, Marked
<1>. QED  BY <1>1, FollowInvariant, PTL

\* The three races are the only reasons for a gap in the feed (http.go:206).
THEOREM GapsOnlyByRaces == Spec => []GaplessButForRaces
PROOF
<1>1. IndInv => GaplessButForRaces
  BY DEF IndInv, Complete, Precede, GaplessButForRaces, Owed
<1>. QED  BY <1>1, FollowInvariant, PTL
=============================================================================
