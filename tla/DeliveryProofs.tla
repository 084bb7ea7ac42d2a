--------------------------- MODULE DeliveryProofs ---------------------------
(***************************************************************************)
(* Proofs about Delivery, for any sources, lines, sizes and caps, any      *)
(* number of connections and any number of lost sessions and crashes of    *)
(* either end.                                                             *)
(***************************************************************************)
EXTENDS Delivery, AgentLemmas

USE AgentAssumption, DeliveryAssumption

-----------------------------------------------------------------------------
(* The manager.                                                            *)

\* The watermarks Recover reads off the stored records.
LEMMA HighestFacts ==
    ASSUME durable \in SUBSET Record
    PROVE  /\ M!HighestDurable \in [Source -> 0 .. MaxOffset]
           /\ \A r \in durable : r.off <= M!HighestDurable[r.src]
           /\ \A s \in Source : M!HighestDurable[s] = 0
                \/ \E r \in durable : r.src = s /\ r.off = M!HighestDurable[s]
PROOF
<1>. DEFINE S(s) == {0} \cup {r.off : r \in {q \in durable : q.src = s}}
            H == [s \in Source |-> Max(S(s))]
<1>1. M!HighestDurable = H
  BY DEF M!HighestDurable, M!Max, Max
<1>2. ASSUME NEW s \in Source
      PROVE  /\ Max(S(s)) \in S(s) /\ \A y \in S(s) : Max(S(s)) >= y
             /\ S(s) \in SUBSET (0 .. MaxOffset)
  <2>1. S(s) \subseteq 0 .. MaxOffset
    <3>1. 0 \in 0 .. MaxOffset
      BY WindowAssumption
    <3>2. \A r \in durable : r.off \in 0 .. MaxOffset
      BY DEF Record
    <3>. QED  BY <3>1, <3>2
  <2>2. S(s) # {}
    OBVIOUS
  <2>. HIDE DEF S
  <2>. QED  BY <2>1, <2>2, WindowAssumption, MaxIsGreatest
<1>3. \A r \in durable : r.src \in Source /\ r.off \in Nat /\ r.off \in S(r.src)
  BY DEF Record
<1>4. \A r \in durable : r.off <= H[r.src]
  <2>. SUFFICES ASSUME NEW r \in durable
                PROVE  r.off <= H[r.src]
    OBVIOUS
  <2>. DEFINE s == r.src
              X == S(s)
  <2>1. s \in Source /\ r.off \in X /\ H[s] = Max(X)
    BY <1>3
  <2>2. Max(X) >= r.off
    BY <1>2, <2>1
  <2>3. Max(X) \in 0 .. MaxOffset /\ r.off \in 0 .. MaxOffset
    BY <1>2, <2>1
  <2>. HIDE DEF X
  <2>. QED  BY <2>1, <2>2, <2>3
<1>5. \A s \in Source : H[s] = 0 \/ \E r \in durable : r.src = s /\ r.off = H[s]
  BY <1>2
<1>6. H \in [Source -> 0 .. MaxOffset]
  BY <1>2
<1>. QED  BY <1>1, <1>4, <1>5, <1>6

\* The types the manager's steps rely on.
ManagerTypes ==
    /\ managerUp \in BOOLEAN
    /\ received \in [Source -> 0 .. MaxOffset] /\ committed \in [Source -> 0 .. MaxOffset]
    /\ pending \in SUBSET Record /\ durable \in SUBSET Record /\ shed \in SUBSET Record

\* The agent may shed a record at any time.
LEMMA ShedManager ==
    ASSUME ManagerOK, UNCHANGED managerVars, shed \subseteq shed'
    PROVE  ManagerOK'
BY DEF ManagerOK, managerVars, Settled, NotStoredAgain

\* Accept, when all earlier lines of the source are taken.
LEMMA AcceptManager ==
    ASSUME ManagerTypes, ManagerOK, NEW r \in Record, M!Accept(r), UNCHANGED shed,
           \A q \in Record : q.src = r.src /\ q.off < r.off => q \in Taken
    PROVE  ManagerTypes' /\ ManagerOK'
PROOF
<1>1. /\ managerUp /\ r.off > received[r.src]
      /\ received' = [received EXCEPT ![r.src] = r.off]
      /\ pending' = pending \cup {r}
      /\ UNCHANGED <<managerUp, committed, durable>>
  BY DEF M!Accept
<1>2. /\ r.src \in Source /\ r.off \in 1 .. MaxOffset
      /\ \A q \in Record : q.src \in Source /\ q.off \in Nat
  BY DEF Record
<1>3. ManagerTypes'
  BY <1>1, <1>2 DEF ManagerTypes
<1>4. \A s \in Source : /\ received[s] \in Nat /\ received'[s] \in Nat
                        /\ received[s] <= received'[s]
                        /\ s # r.src => received'[s] = received[s]
  BY <1>1, <1>2, <1>3, WindowAssumption DEF ManagerTypes
<1>5. received'[r.src] = r.off
  BY <1>1, <1>2 DEF ManagerTypes
<1>6. Settled' = Settled
  BY <1>1 DEF Settled
<1>7. \A q \in pending' \cup durable' : q.off <= received'[q.src]
  <2>. SUFFICES ASSUME NEW q \in pending' \cup durable'
                PROVE  q.off <= received'[q.src]
    OBVIOUS
  <2>1. CASE q = r
    BY <1>2, <1>5, <2>1
  <2>2. CASE q \in pending \cup durable
    <3>1. q \in Record /\ q.src \in Source /\ q.off \in Nat
      BY <1>2, <2>2 DEF ManagerTypes
    <3>2. q.off <= received[q.src]
      BY <1>1, <2>2 DEF ManagerOK
    <3>. QED  BY <1>4, <3>1, <3>2
  <2>. QED  BY <1>1, <2>1, <2>2
<1>8. \A q \in Record : q.off <= received'[q.src] => q \in pending' \cup Settled'
  <2>. SUFFICES ASSUME NEW q \in Record, q.off <= received'[q.src]
                PROVE  q \in pending' \cup Settled
    BY <1>6
  <2>1. CASE q.off <= received[q.src]
    BY <1>1, <2>1 DEF ManagerOK
  <2>2. CASE ~(q.off <= received[q.src])
    <3>1. q.src = r.src /\ q.off <= r.off
      BY <1>2, <1>4, <1>5, <2>2
    <3>2. CASE q.off = r.off
      BY <1>1, <3>1, <3>2, SameRecord
    <3>3. CASE q.off < r.off
      BY <2>2, <3>1, <3>3 DEF Taken, Settled
    <3>. QED  BY <1>2, <3>1, <3>2, <3>3
  <2>. QED  BY <2>1, <2>2
<1>9. \A s \in Source : committed'[s] <= received'[s]
  <2>1. \A s \in Source : committed[s] \in Nat /\ committed[s] <= received[s]
    BY WindowAssumption DEF ManagerOK, ManagerTypes
  <2>. QED  BY <1>1, <1>4, <2>1
<1>10. \A q \in pending' : committed'[q.src] < q.off
  <2>1. committed[r.src] < r.off
    <3>1. committed[r.src] \in Nat /\ received[r.src] \in Nat /\ committed[r.src] <= received[r.src]
      BY <1>2, WindowAssumption DEF ManagerOK, ManagerTypes
    <3>. QED  BY <1>1, <1>2, <3>1
  <2>. QED  BY <1>1, <2>1 DEF ManagerOK
<1>11. pending' \cap durable' = {}
  <2>1. r \notin durable
    BY <1>1, <1>2, <1>4 DEF ManagerOK
  <2>. QED  BY <1>1, <2>1 DEF ManagerOK, NotStoredAgain
<1>12. \A q \in durable', x \in Record : x.src = q.src /\ x.off < q.off => x \in Settled'
  BY <1>1, <1>6 DEF ManagerOK
<1>. QED  BY <1>1, <1>3, <1>7, <1>8, <1>9, <1>10, <1>11, <1>12 DEF ManagerOK, NotStoredAgain

\* A segment is stored: the batch is closed under earlier pending records.
LEMMA PersistManager ==
    ASSUME ManagerTypes, ManagerOK, NEW recs \in SUBSET pending, M!Persist(recs), UNCHANGED shed
    PROVE  ManagerTypes' /\ ManagerOK'
PROOF
<1>1. /\ managerUp /\ durable' = durable \cup recs /\ pending' = pending \ recs
      /\ UNCHANGED <<managerUp, received, committed>>
      /\ \A r \in recs, q \in pending : q.src = r.src /\ q.off <= r.off => q \in recs
  BY DEF M!Persist, M!InOrder
<1>2. ManagerTypes'
  BY <1>1 DEF ManagerTypes
<1>3. Settled' = Settled \cup recs
  BY <1>1 DEF Settled
<1>4. \A r \in Record : r.off <= received[r.src] => r \in pending' \cup Settled'
  BY <1>1, <1>3 DEF ManagerOK
<1>5. \A r \in durable', q \in Record : q.src = r.src /\ q.off < r.off => q \in Settled'
  <2>. SUFFICES ASSUME NEW r \in durable', NEW q \in Record, q.src = r.src, q.off < r.off
                PROVE  q \in Settled'
    OBVIOUS
  <2>1. CASE r \in durable
    BY <1>3, <2>1 DEF ManagerOK
  <2>2. CASE r \in recs
    <3>1. r \in Record /\ r.src \in Source /\ r.off \in Nat /\ q.off \in Nat
      BY <2>2 DEF ManagerTypes, Record
    <3>2. r.off <= received[r.src] /\ received[r.src] \in Nat
      BY <1>1, <2>2, <3>1 DEF ManagerOK, ManagerTypes
    <3>3. q \in pending \cup Settled
      BY <3>1, <3>2 DEF ManagerOK
    <3>4. q \in pending => q \in recs
      BY <1>1, <2>2, <3>1
    <3>. QED  BY <1>3, <3>3, <3>4
  <2>. QED  BY <1>1, <2>1, <2>2
<1>6. pending' \cap durable' = {}
  BY <1>1 DEF ManagerOK, NotStoredAgain
<1>7. \A r \in pending' \cup durable' : r.off <= received[r.src]
  BY <1>1 DEF ManagerOK
<1>. QED  BY <1>1, <1>2, <1>4, <1>5, <1>6, <1>7 DEF ManagerOK, NotStoredAgain

\* The watermark moves below what is pending.
LEMMA CommitManager ==
    ASSUME ManagerTypes, ManagerOK, M!Commit, UNCHANGED shed
    PROVE  ManagerTypes' /\ ManagerOK'
PROOF
<1>1. /\ managerUp /\ committed' \in [Source -> 0 .. MaxOffset]
      /\ \A s \in Source : committed'[s] <= received[s]
      /\ \A r \in pending : committed'[r.src] < r.off
      /\ UNCHANGED <<managerUp, received, pending, durable>>
  BY DEF M!Commit, M!Watermark
<1>. QED  BY <1>1 DEF ManagerTypes, ManagerOK, NotStoredAgain, Settled

\* A crash loses what is pending and the watermarks.
LEMMA FailManager ==
    ASSUME ManagerTypes, ManagerOK, M!Fail, UNCHANGED shed
    PROVE  ManagerTypes' /\ ManagerOK'
PROOF
<1>1. /\ managerUp' = FALSE /\ pending' = {} /\ UNCHANGED durable
      /\ received' = [s \in Source |-> 0] /\ committed' = [s \in Source |-> 0]
  BY DEF M!Fail
<1>2. 0 \in 0 .. MaxOffset
  BY WindowAssumption
<1>3. ManagerTypes'
  BY <1>1, <1>2 DEF ManagerTypes
<1>4. \A r \in Record : ~(r.off <= received'[r.src])
  BY <1>1 DEF Record
<1>5. Settled' = Settled
  BY <1>1 DEF Settled
<1>. QED  BY <1>1, <1>3, <1>4, <1>5 DEF ManagerOK, NotStoredAgain

\* The next manager finds in the store how far the last one had got.
LEMMA RecoverManager ==
    ASSUME ManagerTypes, ManagerOK, M!Recover, UNCHANGED shed
    PROVE  ManagerTypes' /\ ManagerOK'
PROOF
<1>. DEFINE H == M!HighestDurable
<1>1. ~managerUp /\ managerUp' = TRUE /\ received' = H /\ committed' = H /\ UNCHANGED <<pending, durable>>
  BY DEF M!Recover
<1>2. /\ H \in [Source -> 0 .. MaxOffset]
      /\ \A r \in durable : r.off <= H[r.src]
      /\ \A s \in Source : H[s] = 0 \/ \E r \in durable : r.src = s /\ r.off = H[s]
  BY HighestFacts DEF ManagerTypes
<1>. HIDE DEF H
<1>3. ManagerTypes'
  BY <1>1, <1>2 DEF ManagerTypes
<1>4. Settled' = Settled /\ pending = {} /\ durable \subseteq Settled
  BY <1>1 DEF Settled, ManagerOK
<1>5. ASSUME NEW q \in Record, q.off <= H[q.src]  PROVE q \in Settled
  <2>1. q.src \in Source /\ q.off \in 1 .. MaxOffset
    BY DEF Record
  <2>2. PICK r \in durable : r.src = q.src /\ r.off = H[q.src]
    BY <1>2, <1>5, <2>1
  <2>3. r \in Record /\ r.off \in Nat
    BY DEF ManagerTypes, Record
  <2>4. CASE q.off = r.off
    BY <1>4, <2>2, <2>3, <2>4, SameRecord
  <2>5. CASE q.off < r.off
    BY <2>2, <2>5 DEF ManagerOK
  <2>. QED  BY <1>5, <2>1, <2>2, <2>3, <2>4, <2>5
<1>6. \A s \in Source : H[s] <= H[s]
  BY <1>2
<1>. QED  BY <1>1, <1>2, <1>3, <1>4, <1>5, <1>6 DEF ManagerOK, NotStoredAgain

-----------------------------------------------------------------------------
(* The streams.                                                            *)

\* The types the streams' steps rely on.
LinkTypes ==
    /\ cur \in Conn \cup {NoConn}
    /\ cur # NoConn => stream[cur] = "open"
    /\ stream \in [Conn -> StreamState]
    /\ toServer \in [Conn -> Seq(Record)]
    /\ toAgent \in [Conn -> SUBSET [Source -> 0 .. MaxOffset]]
    /\ seen \in [Conn -> SUBSET Source]

\* A step that carries nothing over a stream: it may end streams that are not
\* the session's, drop acks, settle lines, and change the window by envelopes
\* that are not sent.
LEMMA LinkKeeps ==
    ASSUME LinkOK, LinkTypes, Taken \subseteq Taken', Settled \subseteq Settled',
           UNCHANGED managerUp, cur' = cur \/ cur' = NoConn,
           \A c \in Conn :
                \/ /\ toServer'[c] = toServer[c]
                   /\ stream'[c] \in {"open", "orphan"} <=> stream[c] \in {"open", "orphan"}
                \/ c # cur' /\ toServer'[c] = <<>> /\ stream'[c] \notin {"open", "orphan"},
           \A c \in Conn : toAgent'[c] \subseteq toAgent[c],
           \A i \in 1 .. Len(unacked') : unacked'[i].sent =>
                \E j \in 1 .. Len(unacked) : unacked[j].sent /\ Line(unacked[j]) = Line(unacked'[i])
    PROVE  LinkOK'
PROOF
<1>1. ASSUME NEW c \in Conn
      PROVE  /\ IF stream'[c] \in {"open", "orphan"} THEN managerUp' ELSE toServer'[c] = <<>>
             /\ HoldsEarlier(toServer'[c], Taken')
  <2>1. CASE /\ toServer'[c] = toServer[c]
             /\ stream'[c] \in {"open", "orphan"} <=> stream[c] \in {"open", "orphan"}
    <3>1. HoldsEarlier(toServer[c], Taken)
      BY DEF LinkOK
    <3>2. HoldsEarlier(toServer[c], Taken')
      BY <3>1, HoldsMore
    <3>3. IF stream[c] \in {"open", "orphan"} THEN managerUp ELSE toServer[c] = <<>>
      BY DEF LinkOK, ServerAlive
    <3>. QED  BY <2>1, <3>2, <3>3
  <2>2. CASE toServer'[c] = <<>> /\ stream'[c] \notin {"open", "orphan"}
    BY <2>2 DEF HoldsEarlier
  <2>. QED  BY <2>1, <2>2
<1>2. ASSUME cur' # NoConn, NEW i \in 1 .. Len(unacked'), unacked'[i].sent
      PROVE  Line(unacked'[i]) \in Taken' \cup ToSet(toServer'[cur'])
  <2>1. cur' = cur /\ cur \in Conn /\ toServer'[cur] = toServer[cur]
    BY <1>2 DEF LinkTypes
  <2>2. PICK j \in 1 .. Len(unacked) : unacked[j].sent /\ Line(unacked[j]) = Line(unacked'[i])
    BY <1>2
  <2>3. Line(unacked[j]) \in Taken \cup ToSet(toServer[cur])
    BY <1>2, <2>1, <2>2 DEF LinkOK
  <2>. QED  BY <2>1, <2>2, <2>3
<1>3. \A c \in Conn : \A ack \in toAgent'[c], r \in Record :
        r.off <= ack[r.src] => r \in Settled'
  BY DEF LinkOK
<1>. QED  BY <1>1, <1>2, <1>3 DEF LinkOK, ServerAlive

\* The set of a sequence's elements, by index.
LEMMA ToSetByIndex ==
    ASSUME NEW S, NEW s \in Seq(S)
    PROVE  ToSet(s) = {s[i] : i \in 1 .. Len(s)}
PROOF
<1>1. DOMAIN s = 1 .. Len(s)
  OBVIOUS
<1>. QED  BY <1>1, Zenon DEF ToSet

\* A new session finds an empty stream and a window in which nothing is sent.
LEMMA ConnectLink ==
    ASSUME LinkOK, LinkTypes, NEW c \in Conn, managerUp, stream[c] = "free", cur' = c,
           stream' = [stream EXCEPT ![c] = "open"], UNCHANGED <<managerUp, toServer, toAgent>>,
           Taken' = Taken, Settled' = Settled,
           \A i \in 1 .. Len(unacked') : ~unacked'[i].sent
    PROVE  LinkOK'
PROOF
<1>1. ASSUME NEW d \in Conn
      PROVE  /\ IF stream'[d] \in {"open", "orphan"} THEN managerUp' ELSE toServer'[d] = <<>>
             /\ HoldsEarlier(toServer'[d], Taken')
  <2>1. d # c => stream'[d] = stream[d]
    BY DEF LinkTypes
  <2>2. stream'[c] = "open"
    BY DEF LinkTypes
  <2>3. IF stream[d] \in {"open", "orphan"} THEN managerUp ELSE toServer[d] = <<>>
    BY DEF LinkOK, ServerAlive
  <2>4. HoldsEarlier(toServer[d], Taken)
    BY DEF LinkOK
  <2>. QED  BY <2>1, <2>2, <2>3, <2>4
<1>2. \A d \in Conn : \A ack \in toAgent'[d], r \in Record :
        r.off <= ack[r.src] => r \in Settled'
  BY DEF LinkOK
<1>. QED  BY <1>1, <1>2 DEF LinkOK, ServerAlive

\* The manager takes the head of a stream: the lines before it are taken, and
\* so is the head.
LEMMA DeliverLink ==
    ASSUME LinkOK, LinkTypes, NEW c \in Conn, toServer[c] # <<>>,
           toServer' = [toServer EXCEPT ![c] = Tail(@)],
           Taken \cup {Head(toServer[c])} \subseteq Taken', Settled \subseteq Settled',
           UNCHANGED <<managerUp, cur, stream, toAgent, unacked>>
    PROVE  LinkOK'
PROOF
<1>1. ASSUME NEW d \in Conn
      PROVE  /\ IF stream'[d] \in {"open", "orphan"} THEN managerUp' ELSE toServer'[d] = <<>>
             /\ HoldsEarlier(toServer'[d], Taken')
             /\ ToSet(toServer[d]) \subseteq Taken' \cup ToSet(toServer'[d])
  <2>1. /\ IF stream[d] \in {"open", "orphan"} THEN managerUp ELSE toServer[d] = <<>>
        /\ HoldsEarlier(toServer[d], Taken)
    BY DEF LinkOK, ServerAlive
  <2>2. CASE d # c
    <3>1. toServer'[d] = toServer[d]
      BY <2>2 DEF LinkTypes
    <3>2. HoldsEarlier(toServer[d], Taken')
      BY <2>1, HoldsMore
    <3>. QED  BY <2>1, <3>1, <3>2
  <2>3. CASE d = c
    <3>. DEFINE w == toServer[c]
                v == Tail(w)
    <3>1. w \in Seq(Record) /\ toServer'[c] = v /\ w # <<>>
      BY DEF LinkTypes
    <3>2. /\ v \in Seq(Record) /\ Len(v) = Len(w) - 1 /\ w[1] = Head(w) /\ Len(w) \in Nat
          /\ \A i \in 1 .. Len(v) : v[i] = w[i + 1]
      BY <3>1
    <3>3. HoldsEarlier(w, Taken)
      BY <2>1, <2>3
    <3>4. w[1] \in Record /\ Line(w[1]) = w[1] /\ w[1] \in Taken'
      <4>1. w[1] \in Record
        BY <3>1
      <4>. QED  BY <3>2, <4>1, RecordLine
    <3>. HIDE DEF v, w
    <3>5. ASSUME NEW i \in 1 .. Len(v), NEW r \in Record, r.src = v[i].src, r.off < v[i].off,
                 r \notin Taken'
          PROVE  \E j \in 1 .. i - 1 : Line(v[j]) = r
      <4>1. i + 1 \in 1 .. Len(w) /\ v[i] = w[i + 1]
        BY <3>2
      <4>2. PICK l \in 1 .. (i + 1) - 1 : Line(w[l]) = r
        BY <3>3, <3>5, <4>1 DEF HoldsEarlier
      <4>3. l # 1
        BY <3>4, <3>5, <4>2
      <4>4. l - 1 \in 1 .. i - 1 /\ l - 1 \in 1 .. Len(v) /\ (l - 1) + 1 = l
        BY <3>2, <4>2, <4>3
      <4>5. v[l - 1] = w[l]
        BY <3>2, <4>4
      <4>. QED  BY <4>2, <4>4, <4>5
    <3>6. HoldsEarlier(v, Taken')
      BY <3>5 DEF HoldsEarlier
    <3>7. \A i \in 1 .. Len(w) : w[i] \in Taken' \/ \E j \in 1 .. Len(v) : w[i] = v[j]
      <4>. SUFFICES ASSUME NEW i \in 1 .. Len(w), i # 1
                    PROVE  \E j \in 1 .. Len(v) : w[i] = v[j]
        BY <3>4
      <4>1. i - 1 \in 1 .. Len(v) /\ (i - 1) + 1 = i
        BY <3>2
      <4>. QED  BY <3>2, <4>1
    <3>8. ToSet(w) = {w[i] : i \in 1 .. Len(w)} /\ ToSet(v) = {v[i] : i \in 1 .. Len(v)}
      BY <3>1, <3>2, ToSetByIndex
    <3>9. ToSet(w) \subseteq Taken' \cup ToSet(v)
      BY <3>7, <3>8, Zenon
    <3>10. IF stream'[d] \in {"open", "orphan"} THEN managerUp' ELSE toServer'[d] = <<>>
      BY <2>1, <2>3, <3>1 DEF w
    <3>. QED  BY <2>3, <3>1, <3>6, <3>9, <3>10, Zenon DEF w
  <2>. QED  BY <2>2, <2>3
<1>2. cur' # NoConn => \A i \in 1 .. Len(unacked') :
        unacked'[i].sent => Line(unacked'[i]) \in Taken' \cup ToSet(toServer'[cur'])
  BY <1>1 DEF LinkOK, LinkTypes
<1>3. \A d \in Conn : \A ack \in toAgent'[d], r \in Record :
        r.off <= ack[r.src] => r \in Settled'
  BY DEF LinkOK
<1>. QED  BY <1>1, <1>2, <1>3 DEF LinkOK, ServerAlive

\* A batch goes on the session's stream: an earlier line of a record in it is
\* settled, was sent before, or comes before it in the batch.
LEMMA SendLink ==
    ASSUME LinkOK, LinkTypes, unacked \in Seq(Envelope), HoldsEarlier(unacked, Settled),
           Settled \subseteq Taken, cur # NoConn, NEW k \in 1 .. Len(unacked),
           toServer' = [toServer EXCEPT ![cur] = @ \o Batch(k)],
           Len(unacked') = Len(unacked),
           \A i \in 1 .. Len(unacked) :
                /\ Line(unacked'[i]) = Line(unacked[i])
                /\ unacked'[i].sent <=> unacked[i].sent \/ i <= k,
           Taken' = Taken, Settled' = Settled, UNCHANGED <<managerUp, cur, stream, toAgent>>
    PROVE  LinkOK'
PROOF
<1>. DEFINE w == toServer[cur]
            b == Batch(k)
            v == w \o b
<1>1. /\ cur \in Conn /\ w \in Seq(Record) /\ toServer'[cur] = v /\ stream[cur] = "open"
      /\ \A d \in Conn : d # cur => toServer'[d] = toServer[d]
  BY DEF LinkTypes
<1>2. b \in Seq(Record) /\ \E m : BatchPicks(k, m)
  BY BatchFacts
<1>3. PICK m : BatchPicks(k, m)
  BY <1>2
<1>4. /\ m \in [1 .. Len(b) -> 1 .. Len(unacked)]
      /\ \A j \in 1 .. Len(b) : m[j] \in Unsent(k) /\ b[j] = Line(unacked[m[j]])
      /\ \A i, j \in 1 .. Len(b) : i < j => m[i] < m[j]
      /\ \A t \in 1 .. Len(unacked) : t \in Unsent(k) => \E j \in 1 .. Len(b) : m[j] = t
  BY <1>3 DEF BatchPicks
<1>5. \A t \in 1 .. Len(unacked) : t \in Unsent(k) <=> t <= k /\ ~unacked[t].sent
  BY DEF Unsent
<1>6. \A i \in 1 .. Len(unacked) : unacked[i].sent => Line(unacked[i]) \in Taken \cup ToSet(w)
  BY DEF LinkOK
<1>7. HoldsEarlier(w, Taken)
  BY <1>1 DEF LinkOK
<1>. HIDE DEF w, b
<1>8. /\ v \in Seq(Record) /\ Len(v) = Len(w) + Len(b) /\ Len(w) \in Nat /\ Len(b) \in Nat
      /\ \A i \in 1 .. Len(w) : v[i] = w[i]
      /\ \A j \in 1 .. Len(b) : v[Len(w) + j] = b[j]
  BY <1>1, <1>2
<1>. HIDE DEF v
<1>9. /\ \A r \in ToSet(w) : \E i \in 1 .. Len(w) : w[i] = r
      /\ ToSet(v) = {v[i] : i \in 1 .. Len(v)}
  <2>1. ToSet(w) = {w[i] : i \in 1 .. Len(w)}
    BY <1>1, ToSetByIndex
  <2>2. ToSet(v) = {v[i] : i \in 1 .. Len(v)}
    <3>1. v \in Seq(Record)
      BY <1>8
    <3>. QED  BY <3>1, ToSetByIndex
  <2>. QED  BY <2>1, <2>2
<1>10. ASSUME NEW i \in 1 .. Len(v), NEW r \in Record, r.src = v[i].src, r.off < v[i].off,
              r \notin Taken
       PROVE  \E l \in 1 .. i - 1 : Line(v[l]) = r
  <2>1. CASE i \in 1 .. Len(w)
    <3>1. v[i] = w[i]
      BY <1>8, <2>1
    <3>2. PICK l \in 1 .. i - 1 : Line(w[l]) = r
      BY <1>7, <1>10, <2>1, <3>1 DEF HoldsEarlier
    <3>3. l \in 1 .. Len(w)
      BY <1>8, <2>1
    <3>4. v[l] = w[l]
      BY <1>8, <3>3
    <3>. QED  BY <3>2, <3>4
  <2>2. CASE i \notin 1 .. Len(w)
    <3>. DEFINE j == i - Len(w)
    <3>1. j \in 1 .. Len(b) /\ i = Len(w) + j
      BY <1>8, <2>2
    <3>2. v[i] = b[j]
      BY <1>8, <3>1
    <3>. HIDE DEF j
    <3>3. m[j] \in 1 .. Len(unacked) /\ m[j] \in Unsent(k) /\ b[j] = Line(unacked[m[j]])
      BY <1>4, <3>1
    <3>4. r.src = unacked[m[j]].src /\ r.off < unacked[m[j]].off
      BY <1>10, <3>2, <3>3 DEF Line
    <3>5. r \notin Settled
      BY <1>10
    <3>6. PICK t \in 1 .. m[j] - 1 : Line(unacked[t]) = r
      BY <3>3, <3>4, <3>5 DEF HoldsEarlier
    <3>7. t \in 1 .. Len(unacked) /\ t <= k /\ t < m[j]
      BY <1>5, <3>3
    <3>8. CASE unacked[t].sent
      <4>1. r \in ToSet(w)
        BY <1>6, <1>10, <3>6, <3>7, <3>8
      <4>2. PICK l \in 1 .. Len(w) : w[l] = r
        BY <1>9, <4>1
      <4>3. l \in 1 .. i - 1 /\ v[l] = r
        BY <1>8, <3>1, <4>2
      <4>. QED  BY <4>3, RecordLine
    <3>9. CASE ~unacked[t].sent
      <4>1. PICK x \in 1 .. Len(b) : m[x] = t
        BY <1>4, <1>5, <3>7, <3>9
      <4>2. x # j /\ ~(j < x)
        <5>1. j < x => m[j] < m[x]
          BY <1>4, <3>1
        <5>. QED  BY <3>3, <3>7, <4>1, <5>1
      <4>3. Len(w) + x \in 1 .. i - 1
        <5>1. Len(w) \in Nat /\ Len(b) \in Nat
          BY <1>8
        <5>. QED  BY <3>1, <4>2, <5>1
      <4>4. v[Len(w) + x] = r
        BY <1>4, <1>8, <3>6, <4>1
      <4>. QED  BY <4>3, <4>4, RecordLine
    <3>. QED  BY <3>8, <3>9
  <2>. QED  BY <2>1, <2>2
<1>11. HoldsEarlier(v, Taken)
  BY <1>10 DEF HoldsEarlier
<1>12. ASSUME NEW i \in 1 .. Len(unacked), unacked'[i].sent
       PROVE  Line(unacked'[i]) \in Taken \cup ToSet(v)
  <2>1. CASE unacked[i].sent
    <3>1. ToSet(w) \subseteq ToSet(v)
      <4>. SUFFICES ASSUME NEW r \in ToSet(w)
                    PROVE  r \in ToSet(v)
        OBVIOUS
      <4>1. PICK l \in 1 .. Len(w) : w[l] = r
        BY <1>9
      <4>2. l \in 1 .. Len(v) /\ v[l] = r
        BY <1>8, <4>1
      <4>. QED  BY <1>9, <4>2
    <3>. QED  BY <1>6, <2>1, <3>1
  <2>2. CASE ~unacked[i].sent
    <3>1. i <= k
      BY <1>12, <2>2
    <3>2. PICK x \in 1 .. Len(b) : m[x] = i
      BY <1>4, <1>5, <2>2, <3>1
    <3>3. v[Len(w) + x] = Line(unacked[i]) /\ Len(w) + x \in 1 .. Len(v)
      BY <1>4, <1>8, <3>2
    <3>. QED  BY <1>9, <3>3
  <2>. QED  BY <2>1, <2>2
<1>13. \A d \in Conn : /\ IF stream'[d] \in {"open", "orphan"} THEN managerUp' ELSE toServer'[d] = <<>>
                       /\ HoldsEarlier(toServer'[d], Taken')
  BY <1>1, <1>11 DEF LinkOK, ServerAlive
<1>14. \A d \in Conn : \A ack \in toAgent'[d], r \in Record :
        r.off <= ack[r.src] => r \in Settled'
  BY DEF LinkOK
<1>. QED  BY <1>1, <1>12, <1>13, <1>14 DEF LinkOK, ServerAlive

-----------------------------------------------------------------------------
(* Every step keeps the invariant.                                         *)

\* The type invariant by parts.
LEMMA Types ==
    /\ IndInv => /\ WindowOK /\ InCare(pos, waiting, unacked, checkpoint, Settled)
                 /\ ManagerOK /\ LinkOK /\ ManagerTypes /\ LinkTypes /\ faults \in 0 .. MaxFaults
    /\ WindowOK' /\ InCare(pos', waiting', unacked', checkpoint', Settled') /\ ManagerOK' /\ LinkOK'
       /\ ManagerTypes' /\ LinkTypes' /\ faults' \in 0 .. MaxFaults => IndInv'
PROOF
<1>1. IndInv => ManagerTypes /\ LinkTypes /\ faults \in 0 .. MaxFaults
  BY DEF IndInv, TypeOK, AgentTypeOK, ManagerTypes, LinkTypes, M!Watermark
<1>2. WindowOK' /\ ManagerTypes' /\ LinkTypes' /\ faults' \in 0 .. MaxFaults => TypeOK'
  BY DEF TypeOK, WindowOK, ManagerTypes, LinkTypes, M!Watermark
<1>. QED  BY <1>1, <1>2 DEF IndInv

\* What the manager's and the agent's steps leave as they are.
LEMMA SetFacts ==
    /\ UNCHANGED <<durable, shed>> => Settled' = Settled
    /\ UNCHANGED <<received, shed>> => Taken' = Taken
    /\ UNCHANGED <<durable, received>> /\ shed \subseteq shed' =>
            Settled \cup shed' \subseteq Settled' /\ Taken \subseteq Taken'
BY DEF Settled, Taken

\* A step of the agent that leaves the manager and the streams alone.
LEMMA AgentStep ==
    ASSUME IndInv, UNCHANGED <<managerVars, linkVars>>, shed \subseteq shed',
           WindowOK', InCare(pos', waiting', unacked', checkpoint', Settled'),
           faults' \in 0 .. MaxFaults,
           \A i \in 1 .. Len(unacked') : unacked'[i].sent =>
                \E j \in 1 .. Len(unacked) : unacked[j].sent /\ Line(unacked[j]) = Line(unacked'[i])
    PROVE  IndInv'
PROOF
<1>1. /\ UNCHANGED <<managerUp, received, committed, pending, durable>>
      /\ UNCHANGED <<cur, stream, toServer, toAgent, seen>>
  BY DEF managerVars, linkVars
<1>2. ManagerOK /\ LinkOK /\ ManagerTypes /\ LinkTypes
  BY Types
<1>3. Settled \subseteq Settled' /\ Taken \subseteq Taken'
  BY <1>1, SetFacts
<1>4. ManagerOK'
  BY <1>2, ShedManager
<1>5. LinkOK'
  BY <1>1, <1>2, <1>3, LinkKeeps
<1>6. LinkTypes'
  BY <1>1, <1>2 DEF LinkTypes
<1>7. ManagerTypes'
  BY <1>1, <1>2 DEF ManagerTypes, WindowOK, AgentTypeOK
<1>. QED  BY <1>4, <1>5, <1>6, <1>7, Types

\* The steps of a tail add no sent envelope to the window.
LEMMA TailStepKeeps ==
    ASSUME IndInv, NEW s \in Source, TailStep(s)
    PROVE  IndInv'
PROOF
<1>1. /\ WindowOK /\ InCare(pos, waiting, unacked, checkpoint, Settled)
      /\ UNCHANGED <<managerVars, linkVars>> /\ faults' \in 0 .. MaxFaults
      /\ unacked \in Seq(Envelope) /\ UNCHANGED <<durable, received>>
  BY Types DEF TailStep, WindowOK, AgentTypeOK, managerVars
<1>2. \A e : ~NewEnvelope(e).sent
  BY DEF NewEnvelope
<1>3. CASE Read(s)
  <2>1. UNCHANGED <<shed, unacked>>
    BY <1>3 DEF Read
  <2>2. Settled' = Settled
    BY <1>1, <2>1, SetFacts
  <2>3. WindowOK' /\ InCare(pos', waiting', unacked', checkpoint', Settled)
    BY <1>1, <1>3, ReadCares
  <2>. QED  BY <1>1, <2>1, <2>2, <2>3, AgentStep
<1>4. CASE Enqueue(s)
  <2>1. unacked' = Append(unacked, NewEnvelope(s)) /\ UNCHANGED shed
    BY <1>4 DEF Enqueue
  <2>2. Settled' = Settled
    BY <1>1, <2>1, SetFacts
  <2>3. WindowOK' /\ InCare(pos', waiting', unacked', checkpoint', Settled)
    BY <1>1, <1>4, EnqueueCares
  <2>4. \A i \in 1 .. Len(unacked') :
            (i \in 1 .. Len(unacked) /\ unacked'[i] = unacked[i]) \/ unacked'[i] = NewEnvelope(s)
    BY <1>1, <2>1
  <2>. QED  BY <1>1, <1>2, <2>1, <2>2, <2>3, <2>4, AgentStep
<1>5. CASE EnqueueOverHard(s)
  <2>1. shed \subseteq shed'
    BY <1>5 DEF EnqueueOverHard
  <2>2. Settled \cup shed' \subseteq Settled'
    BY <1>1, <2>1, SetFacts
  <2>3. WindowOK' /\ InCare(pos', waiting', unacked', checkpoint', Settled')
    BY <1>1, <1>5, <2>2, EnqueueOverHardCares
  <2>4. \A i \in 1 .. Len(unacked') :
            (\E j \in 1 .. Len(unacked) : unacked'[i] = unacked[j]) \/ unacked'[i] = NewEnvelope(s)
    <3>1. CASE unacked = <<>>
      <4>1. unacked' = <<NewEnvelope(s)>>
        BY <1>5, <3>1 DEF EnqueueOverHard
      <4>. QED  BY <4>1
    <3>2. CASE unacked # <<>>
      <4>. DEFINE v == Tail(unacked)
      <4>1. unacked' = Append(v, NewEnvelope(s))
        BY <1>5, <3>2 DEF EnqueueOverHard
      <4>2. /\ v \in Seq(Envelope) /\ Len(v) = Len(unacked) - 1 /\ Len(unacked) \in Nat
            /\ \A i \in 1 .. Len(v) : v[i] = unacked[i + 1] /\ i + 1 \in 1 .. Len(unacked)
        BY <1>1, <3>2
      <4>. HIDE DEF v
      <4>3. \A i \in 1 .. Len(unacked') :
                (i \in 1 .. Len(v) /\ unacked'[i] = v[i]) \/ unacked'[i] = NewEnvelope(s)
        BY <4>1, <4>2
      <4>. QED  BY <4>2, <4>3
    <3>. QED  BY <3>1, <3>2
  <2>. QED  BY <1>1, <1>2, <2>1, <2>3, <2>4, AgentStep
<1>. QED  BY <1>3, <1>4, <1>5 DEF TailStep

\* A step of the manager that leaves the agent and the streams alone.
LEMMA ManagerStep ==
    ASSUME IndInv, UNCHANGED <<agentVars, linkVars, faults>>, UNCHANGED managerUp,
           ManagerTypes', ManagerOK', Settled \subseteq Settled', Taken \subseteq Taken'
    PROVE  IndInv'
PROOF
<1>1. /\ UNCHANGED <<phase, pos, waiting, unacked, heldByte, checkpoint, shed>>
      /\ UNCHANGED <<cur, stream, toServer, toAgent, seen>> /\ faults' \in 0 .. MaxFaults
  BY Types DEF agentVars, linkVars
<1>2. /\ WindowOK /\ LinkOK /\ LinkTypes /\ InCare(pos, waiting, unacked, checkpoint, Settled)
      /\ phase \in {"running", "stopping", "down"}
  BY Types DEF WindowOK, AgentTypeOK
<1>3. InCare(pos, waiting, unacked, checkpoint, Settled')
  BY <1>2, InCareMore
<1>4. WindowOK' /\ InCare(pos', waiting', unacked', checkpoint', Settled')
  BY <1>1, <1>2, <1>3, QuietCares
<1>5. LinkOK'
  BY <1>1, <1>2, LinkKeeps
<1>6. LinkTypes'
  BY <1>1, <1>2 DEF LinkTypes
<1>. QED  BY <1>1, <1>4, <1>5, <1>6, Types

\* A segment is stored; the watermark moves.
LEMMA PersistCommitKeeps ==
    ASSUME IndInv, Persist \/ Commit
    PROVE  IndInv'
PROOF
<1>1. ManagerTypes /\ ManagerOK
  BY Types
<1>2. UNCHANGED <<agentVars, linkVars, faults>> /\ UNCHANGED shed
  BY DEF Persist, Commit, agentVars
<1>3. CASE Persist
  <2>1. PICK recs \in SUBSET pending : M!Persist(recs)
    BY <1>3 DEF Persist
  <2>2. ManagerTypes' /\ ManagerOK'
    BY <1>1, <1>2, <2>1, PersistManager
  <2>3. Settled \subseteq Settled' /\ Taken \subseteq Taken' /\ UNCHANGED managerUp
    BY <1>2, <2>1 DEF M!Persist, Settled, Taken
  <2>. QED  BY <1>2, <2>2, <2>3, ManagerStep
<1>4. CASE Commit
  <2>1. M!Commit
    BY <1>4 DEF Commit
  <2>2. ManagerTypes' /\ ManagerOK'
    BY <1>1, <1>2, <2>1, CommitManager
  <2>3. Settled \subseteq Settled' /\ Taken \subseteq Taken' /\ UNCHANGED managerUp
    BY <1>2, <2>1 DEF M!Commit, Settled, Taken
  <2>. QED  BY <1>2, <2>2, <2>3, ManagerStep
<1>. QED  BY <1>3, <1>4

\* The manager's streams die with it; the acks it sent are still good.
LEMMA ManagerCrashKeeps ==
    ASSUME IndInv, ManagerCrash
    PROVE  IndInv'
PROOF
<1>1. /\ M!Fail /\ cur' = NoConn
      /\ stream' = [c \in Conn |-> IF stream[c] \in {"open", "late"} THEN "late" ELSE "free"]
      /\ toServer' = [c \in Conn |-> <<>>] /\ seen' = [c \in Conn |-> {}]
      /\ UNCHANGED <<phase, pos, waiting, unacked, heldByte, checkpoint, shed, toAgent>>
      /\ faults' \in 0 .. MaxFaults
  BY Types DEF ManagerCrash, agentVars, Fault
<1>2. /\ WindowOK /\ LinkOK /\ LinkTypes /\ InCare(pos, waiting, unacked, checkpoint, Settled)
      /\ ManagerTypes /\ ManagerOK /\ phase \in {"running", "stopping", "down"}
  BY Types DEF WindowOK, AgentTypeOK
<1>3. ManagerTypes' /\ ManagerOK'
  BY <1>1, <1>2, FailManager
<1>4. Settled' = Settled
  BY <1>1, SetFacts DEF M!Fail
<1>5. WindowOK' /\ InCare(pos', waiting', unacked', checkpoint', Settled')
  BY <1>1, <1>2, <1>4, QuietCares
<1>6. \A c \in Conn : stream'[c] \in {"late", "free"} /\ toServer'[c] = <<>>
  BY <1>1
<1>7. \A c \in Conn : \A ack \in toAgent'[c], r \in Record :
        r.off <= ack[r.src] => r \in Settled'
  BY <1>1, <1>2, <1>4 DEF LinkOK
<1>8. LinkOK'
  <2>1. HoldsEarlier(<<>>, Taken')
    BY DEF HoldsEarlier
  <2>. QED  BY <1>1, <1>6, <1>7, <2>1 DEF LinkOK, ServerAlive
<1>9. LinkTypes'
  BY <1>1, <1>2 DEF LinkTypes, StreamState
<1>. QED  BY <1>1, <1>3, <1>5, <1>8, <1>9, Types

\* No stream is alive before the manager is back.
LEMMA ManagerRecoverKeeps ==
    ASSUME IndInv, ManagerRecover
    PROVE  IndInv'
PROOF
<1>1. /\ M!Recover /\ ~managerUp /\ UNCHANGED <<durable, cur, stream, toServer, toAgent, seen, faults>>
      /\ UNCHANGED <<phase, pos, waiting, unacked, heldByte, checkpoint, shed>>
  BY DEF ManagerRecover, M!Recover, agentVars, linkVars
<1>2. /\ WindowOK /\ LinkOK /\ LinkTypes /\ InCare(pos, waiting, unacked, checkpoint, Settled)
      /\ ManagerTypes /\ ManagerOK /\ faults \in 0 .. MaxFaults
      /\ phase \in {"running", "stopping", "down"}
  BY Types DEF WindowOK, AgentTypeOK
<1>3. ManagerTypes' /\ ManagerOK'
  BY <1>1, <1>2, RecoverManager
<1>4. Settled' = Settled
  BY <1>1, SetFacts
<1>5. WindowOK' /\ InCare(pos', waiting', unacked', checkpoint', Settled')
  BY <1>1, <1>2, <1>4, QuietCares
<1>6. \A c \in Conn : stream[c] \notin {"open", "orphan"} /\ toServer[c] = <<>>
  BY <1>1, <1>2 DEF LinkOK, ServerAlive
<1>7. cur = NoConn
  BY <1>2, <1>6 DEF LinkTypes
<1>8. \A c \in Conn : \A ack \in toAgent'[c], r \in Record :
        r.off <= ack[r.src] => r \in Settled'
  BY <1>1, <1>2, <1>4 DEF LinkOK
<1>9. LinkOK'
  <2>1. HoldsEarlier(<<>>, Taken')
    BY DEF HoldsEarlier
  <2>. QED  BY <1>1, <1>6, <1>7, <1>8, <2>1 DEF LinkOK, ServerAlive
<1>10. LinkTypes'
  BY <1>1, <1>2 DEF LinkTypes
<1>. QED  BY <1>1, <1>2, <1>3, <1>5, <1>9, <1>10, Types

\* The head of a stream is the next line of its source the manager can take.
LEMMA HeadInTurn ==
    ASSUME LinkOK, LinkTypes, NEW c \in Conn, toServer[c] # <<>>
    PROVE  /\ Head(toServer[c]) \in Record
           /\ \A q \in Record : q.src = Head(toServer[c]).src /\ q.off < Head(toServer[c]).off =>
                q \in Taken
PROOF
<1>. DEFINE w == toServer[c]
<1>1. w \in Seq(Record) /\ w # <<>> /\ HoldsEarlier(w, Taken)
  BY DEF LinkOK, LinkTypes
<1>. HIDE DEF w
<1>2. w[1] = Head(w) /\ Head(w) \in Record /\ 1 \in 1 .. Len(w) /\ 1 .. 1 - 1 = {}
  BY <1>1
<1>3. \A q \in Record : q.src = Head(w).src /\ q.off < Head(w).off => q \in Taken
  BY <1>1, <1>2 DEF HoldsEarlier
<1>. QED  BY <1>2, <1>3 DEF w

\* Stream passes the head of a connection to Accept.
LEMMA DeliverKeeps ==
    ASSUME IndInv, NEW c \in Conn, Deliver(c)
    PROVE  IndInv'
PROOF
<1>. DEFINE r == Head(toServer[c])
<1>1. /\ toServer[c] # <<>> /\ toServer' = [toServer EXCEPT ![c] = Tail(@)]
      /\ seen' = [seen EXCEPT ![c] = @ \cup {r.src}]
      /\ UNCHANGED <<phase, pos, waiting, unacked, heldByte, checkpoint, shed>>
      /\ UNCHANGED <<cur, stream, toAgent, faults>>
      /\ IF r.off > received[r.src] THEN M!Accept(r) ELSE UNCHANGED managerVars
  BY DEF Deliver, agentVars
<1>2. /\ WindowOK /\ LinkOK /\ LinkTypes /\ InCare(pos, waiting, unacked, checkpoint, Settled)
      /\ ManagerTypes /\ ManagerOK /\ faults \in 0 .. MaxFaults
      /\ phase \in {"running", "stopping", "down"}
  BY Types DEF WindowOK, AgentTypeOK
<1>3. r \in Record /\ \A q \in Record : q.src = r.src /\ q.off < r.off => q \in Taken
  BY <1>1, <1>2, HeadInTurn
<1>. HIDE DEF r
<1>4. /\ ManagerTypes' /\ ManagerOK' /\ Settled' = Settled /\ UNCHANGED managerUp
      /\ Taken \cup {r} \subseteq Taken'
  <2>0. /\ r.src \in Source /\ r.off \in Nat /\ received[r.src] \in Nat
        /\ \A q \in Record : q.src \in Source /\ q.off \in Nat
    <3>1. \A q \in Record : q.src \in Source /\ q.off \in Nat
      BY DEF Record
    <3>2. \A s \in Source : received[s] \in Nat
      BY <1>2, WindowAssumption DEF ManagerTypes
    <3>. QED  BY <1>3, <3>1, <3>2
  <2>1. CASE r.off > received[r.src]
    <3>1. M!Accept(r)
      BY <1>1, <2>1
    <3>2. ManagerTypes' /\ ManagerOK'
      BY <1>1, <1>2, <1>3, <3>1, AcceptManager
    <3>3. /\ received' = [received EXCEPT ![r.src] = r.off] /\ UNCHANGED <<managerUp, durable>>
      BY <3>1 DEF M!Accept
    <3>4. Settled' = Settled
      BY <1>1, <3>3, SetFacts
    <3>5. \A q \in Record : q.off <= received[q.src] => q.off <= received'[q.src]
      <4>1. \A s \in Source : received[s] \in Nat /\ received'[s] = IF s = r.src THEN r.off ELSE received[s]
        BY <1>2, <3>3, WindowAssumption DEF ManagerTypes
      <4>. QED  BY <2>0, <2>1, <4>1
    <3>6. r.off <= received'[r.src]
      BY <1>2, <2>0, <3>3 DEF ManagerTypes
    <3>. QED  BY <1>1, <1>3, <3>2, <3>3, <3>4, <3>5, <3>6 DEF Taken
  <2>2. CASE ~(r.off > received[r.src])
    <3>1. UNCHANGED <<managerUp, received, committed, pending, durable, shed>>
      BY <1>1, <2>2 DEF managerVars
    <3>2. ManagerTypes' /\ ManagerOK' /\ Settled' = Settled /\ Taken' = Taken
      BY <1>2, <3>1, SetFacts DEF ManagerTypes, ManagerOK, NotStoredAgain
    <3>3. r.off <= received[r.src]
      BY <2>0, <2>2
    <3>. QED  BY <1>3, <3>1, <3>2, <3>3 DEF Taken
  <2>. QED  BY <2>1, <2>2
<1>5. WindowOK' /\ InCare(pos', waiting', unacked', checkpoint', Settled')
  BY <1>1, <1>2, <1>4, QuietCares
<1>6. LinkOK'
  BY <1>1, <1>2, <1>4, DeliverLink DEF r
<1>7. LinkTypes'
  <2>1. Tail(toServer[c]) \in Seq(Record)
    BY <1>1, <1>2 DEF LinkTypes
  <2>2. toServer' \in [Conn -> Seq(Record)]
    BY <1>1, <1>2, <2>1 DEF LinkTypes
  <2>3. seen' \in [Conn -> SUBSET Source]
    BY <1>1, <1>2, <1>3 DEF LinkTypes, Record
  <2>. QED  BY <1>1, <1>2, <2>2, <2>3 DEF LinkTypes
<1>. QED  BY <1>1, <1>2, <1>4, <1>5, <1>6, <1>7, Types

\* A batch is sent on a stream whose manager is up, so what is settled is taken.
LEMMA SendKeeps ==
    ASSUME IndInv, Send
    PROVE  IndInv'
PROOF
<1>1. /\ WindowOK /\ LinkOK /\ LinkTypes /\ InCare(pos, waiting, unacked, checkpoint, Settled)
      /\ ManagerTypes /\ ManagerOK /\ faults \in 0 .. MaxFaults
      /\ unacked \in Seq(Envelope) /\ HoldsEarlier(unacked, Settled)
  BY Types DEF WindowOK, AgentTypeOK, InCare
<1>2. /\ cur # NoConn /\ UNCHANGED <<managerUp, received, committed, pending, durable>>
      /\ UNCHANGED <<cur, stream, toAgent, seen, faults>>
  BY DEF Send, managerVars
<1>3. PICK k \in 1 .. Len(unacked) :
        Flush(k) /\ toServer' = [toServer EXCEPT ![cur] = @ \o Batch(k)]
  BY DEF Send
<1>4. UNCHANGED shed
  BY <1>3 DEF Flush
<1>5. Settled' = Settled /\ Taken' = Taken
  BY <1>2, <1>4, SetFacts
<1>6. /\ WindowOK' /\ InCare(pos', waiting', unacked', checkpoint', Settled)
      /\ Len(unacked') = Len(unacked)
      /\ \A i \in 1 .. Len(unacked) :
            /\ Line(unacked'[i]) = Line(unacked[i])
            /\ unacked'[i].sent <=> unacked[i].sent \/ i <= k
  BY <1>1, <1>3, FlushCares
<1>7. cur \in Conn /\ managerUp
  BY <1>1, <1>2 DEF LinkTypes, LinkOK, ServerAlive
<1>8. Settled \subseteq Taken
  BY <1>1, <1>7 DEF ManagerOK, ManagerTypes, Settled, Taken
<1>9. LinkOK'
  BY <1>1, <1>2, <1>3, <1>5, <1>6, <1>8, SendLink
<1>10. LinkTypes'
  <2>1. Batch(k) \in Seq(Record)
    BY <1>1, BatchFacts
  <2>2. toServer[cur] \o Batch(k) \in Seq(Record)
    BY <1>1, <1>7, <2>1 DEF LinkTypes
  <2>3. toServer' \in [Conn -> Seq(Record)]
    BY <1>1, <1>3, <2>2 DEF LinkTypes
  <2>. QED  BY <1>1, <1>2, <2>3 DEF LinkTypes
<1>11. ManagerOK' /\ ManagerTypes'
  BY <1>1, <1>2, <1>4, <1>5 DEF ManagerOK, ManagerTypes, NotStoredAgain
<1>. QED  BY <1>1, <1>2, <1>5, <1>6, <1>9, <1>10, <1>11, Types

\* The manager and what is settled stay as they are: enough for the steps below.
LEMMA LinkStep ==
    ASSUME IndInv, UNCHANGED managerVars, UNCHANGED shed,
           WindowOK', InCare(pos', waiting', unacked', checkpoint', Settled),
           LinkOK', LinkTypes', faults' \in 0 .. MaxFaults
    PROVE  IndInv'
PROOF
<1>1. UNCHANGED <<managerUp, received, committed, pending, durable>>
  BY DEF managerVars
<1>2. Settled' = Settled
  BY <1>1, SetFacts
<1>3. ManagerOK' /\ ManagerTypes'
  BY <1>1, <1>2, Types DEF ManagerOK, ManagerTypes, NotStoredAgain
<1>. QED  BY <1>2, <1>3, Types

\* The agent dials.
LEMMA ConnectKeeps ==
    ASSUME IndInv, NEW c \in Conn, Connect(c)
    PROVE  IndInv'
PROOF
<1>1. /\ managerUp /\ stream[c] = "free" /\ cur' = c /\ stream' = [stream EXCEPT ![c] = "open"]
      /\ Resend /\ UNCHANGED <<managerVars, toServer, toAgent, seen, faults>>
  BY DEF Connect
<1>2. UNCHANGED <<managerUp, received, durable, shed>>
  BY <1>1 DEF managerVars, Resend
<1>3. /\ WindowOK /\ LinkOK /\ LinkTypes /\ InCare(pos, waiting, unacked, checkpoint, Settled)
      /\ faults' \in 0 .. MaxFaults
  BY <1>1, Types
<1>4. /\ WindowOK' /\ InCare(pos', waiting', unacked', checkpoint', Settled)
      /\ \A i \in 1 .. Len(unacked') : ~unacked'[i].sent
  BY <1>1, <1>3, ResendCares
<1>5. Settled' = Settled /\ Taken' = Taken
  BY <1>2, SetFacts
<1>6. LinkOK'
  BY <1>1, <1>2, <1>3, <1>4, <1>5, ConnectLink
<1>7. LinkTypes'
  BY <1>1, <1>3 DEF LinkTypes, StreamState
<1>. QED  BY <1>1, <1>2, <1>3, <1>4, <1>6, <1>7, LinkStep

\* An ack is applied: every line it passes is settled.
LEMMA ReceiveAckKeeps ==
    ASSUME IndInv, NEW c \in Conn, ReceiveAck(c)
    PROVE  IndInv'
PROOF
<1>1. PICK ack \in toAgent[c] :
        ApplyAck(ack) /\ toAgent' = [toAgent EXCEPT ![c] = @ \ {ack}]
  BY DEF ReceiveAck
<1>2. /\ UNCHANGED <<managerVars, cur, stream, toServer, seen, faults>>
      /\ UNCHANGED <<managerUp, received, durable, shed>>
  BY <1>1 DEF ReceiveAck, managerVars, ApplyAck
<1>3. /\ WindowOK /\ LinkOK /\ LinkTypes /\ InCare(pos, waiting, unacked, checkpoint, Settled)
      /\ faults' \in 0 .. MaxFaults
  BY <1>2, Types
<1>4. ack \in [Source -> 0 .. MaxOffset] /\ \A r \in Record : r.off <= ack[r.src] => r \in Settled
  BY <1>3 DEF LinkTypes, LinkOK
<1>5. /\ WindowOK' /\ InCare(pos', waiting', unacked', checkpoint', Settled)
      /\ \A i \in 1 .. Len(unacked') : \E j \in 1 .. Len(unacked) : unacked'[i] = unacked[j]
  BY <1>1, <1>3, <1>4, ApplyAckCares
<1>6. Settled' = Settled /\ Taken' = Taken
  BY <1>2, SetFacts
<1>7. \A d \in Conn : toAgent'[d] \subseteq toAgent[d]
  BY <1>1, <1>3 DEF LinkTypes
<1>8. \A i \in 1 .. Len(unacked') : unacked'[i].sent =>
        \E j \in 1 .. Len(unacked) : unacked[j].sent /\ Line(unacked[j]) = Line(unacked'[i])
  BY <1>5
<1>9. LinkOK'
  BY <1>2, <1>3, <1>6, <1>7, <1>8, LinkKeeps
<1>10. LinkTypes'
  <2>1. toAgent' \in [Conn -> SUBSET [Source -> 0 .. MaxOffset]]
    BY <1>1, <1>3 DEF LinkTypes
  <2>. QED  BY <1>2, <1>3, <2>1 DEF LinkTypes
<1>. QED  BY <1>2, <1>3, <1>5, <1>9, <1>10, LinkStep

\* An ack names committed lines, which are taken and no longer pending.
LEMMA SendAckKeeps ==
    ASSUME IndInv, NEW c \in Conn, SendAck(c)
    PROVE  IndInv'
PROOF
<1>1. /\ toAgent' = [toAgent EXCEPT ![c] = IF stream[c] = "open" THEN @ \cup {BuildAck(c)} ELSE @]
      /\ UNCHANGED <<agentVars, managerVars, cur, stream, toServer, seen, faults>>
      /\ UNCHANGED <<phase, pos, waiting, unacked, heldByte, checkpoint, shed>>
      /\ UNCHANGED <<managerUp, received, durable>>
  BY DEF SendAck, agentVars, managerVars
<1>2. /\ WindowOK /\ LinkOK /\ LinkTypes /\ InCare(pos, waiting, unacked, checkpoint, Settled)
      /\ ManagerOK /\ ManagerTypes
      /\ faults' \in 0 .. MaxFaults /\ phase' \in {"running", "stopping", "down"}
  BY <1>1, Types DEF WindowOK, AgentTypeOK
<1>3. WindowOK' /\ InCare(pos', waiting', unacked', checkpoint', Settled)
  BY <1>1, <1>2, QuietCares
<1>4. BuildAck(c) \in [Source -> 0 .. MaxOffset]
  <2>1. 0 \in 0 .. MaxOffset
    BY WindowAssumption
  <2>. QED  BY <1>2, <2>1 DEF BuildAck, ManagerTypes
<1>5. ASSUME NEW r \in Record, r.off <= BuildAck(c)[r.src]  PROVE r \in Settled
  <2>1. r.src \in Source /\ r.off \in Nat /\ r.off > 0
    BY DEF Record
  <2>2. committed[r.src] \in Nat /\ received[r.src] \in Nat
    BY <1>2, <2>1, WindowAssumption DEF ManagerTypes
  <2>3. r.off <= committed[r.src] /\ committed[r.src] <= received[r.src]
    BY <1>2, <1>5, <2>1, <2>2 DEF BuildAck, ManagerOK
  <2>4. r \in pending \cup Settled /\ r \notin pending
    BY <1>2, <2>1, <2>2, <2>3 DEF ManagerOK
  <2>. QED  BY <2>4
<1>6. Settled' = Settled /\ Taken' = Taken
  BY <1>1, SetFacts
<1>7. \A d \in Conn : \A ack \in toAgent'[d] : ack \in toAgent[d] \/ ack = BuildAck(c)
  BY <1>1, <1>2 DEF LinkTypes
<1>8. \A d \in Conn : \A ack \in toAgent'[d], r \in Record : r.off <= ack[r.src] => r \in Settled'
  BY <1>2, <1>5, <1>6, <1>7 DEF LinkOK
<1>9. LinkOK'
  BY <1>1, <1>2, <1>6, <1>8 DEF LinkOK, ServerAlive
<1>10. LinkTypes'
  <2>1. \A d \in Conn : toAgent'[d] \subseteq [Source -> 0 .. MaxOffset]
    BY <1>2, <1>4, <1>7 DEF LinkTypes
  <2>2. toAgent' \in [Conn -> SUBSET [Source -> 0 .. MaxOffset]]
    BY <1>1, <1>2, <2>1 DEF LinkTypes
  <2>. QED  BY <1>1, <1>2, <2>2 DEF LinkTypes
<1>. QED  BY <1>1, <1>2, <1>3, <1>9, <1>10, LinkStep

\* The session ends, or an abandoned stream does.
LEMMA DisconnectKeeps ==
    ASSUME IndInv, Disconnect \/ \E c \in Conn : EndStream(c)
    PROVE  IndInv'
PROOF
<1>1. UNCHANGED <<agentVars, managerVars>> /\ faults' \in 0 .. MaxFaults
  BY Types DEF Disconnect, EndStream, Fault
<1>2. /\ UNCHANGED <<phase, pos, waiting, unacked, heldByte, checkpoint, shed>>
      /\ UNCHANGED <<managerUp, received, durable>>
  BY <1>1 DEF agentVars, managerVars
<1>3. /\ WindowOK /\ LinkOK /\ LinkTypes /\ InCare(pos, waiting, unacked, checkpoint, Settled)
      /\ phase' \in {"running", "stopping", "down"}
  BY <1>2, Types DEF WindowOK, AgentTypeOK
<1>4. WindowOK' /\ InCare(pos', waiting', unacked', checkpoint', Settled)
  BY <1>2, <1>3, QuietCares
<1>5. Settled' = Settled /\ Taken' = Taken
  BY <1>2, SetFacts
<1>6. CASE Disconnect
  <2>1. cur' = NoConn /\ UNCHANGED <<stream, toServer, toAgent, seen>>
    BY <1>6 DEF Disconnect
  <2>2. LinkOK'
    BY <1>2, <1>3, <1>5, <2>1, LinkKeeps
  <2>3. LinkTypes'
    BY <1>3, <2>1 DEF LinkTypes
  <2>. QED  BY <1>1, <1>2, <1>4, <2>2, <2>3, LinkStep
<1>7. ASSUME NEW c \in Conn, EndStream(c)  PROVE IndInv'
  <2>1. /\ c # cur /\ stream' = [stream EXCEPT ![c] = "free"]
        /\ toServer' = [toServer EXCEPT ![c] = <<>>] /\ toAgent' = [toAgent EXCEPT ![c] = {}]
        /\ seen' = [seen EXCEPT ![c] = {}] /\ UNCHANGED cur
    BY <1>7 DEF EndStream
  <2>2. LinkTypes'
    BY <1>3, <2>1 DEF LinkTypes, StreamState
  <2>3. /\ stream'[c] = "free" /\ toServer'[c] = <<>> /\ toAgent'[c] = {}
        /\ \A d \in Conn \ {c} :
            stream'[d] = stream[d] /\ toServer'[d] = toServer[d] /\ toAgent'[d] = toAgent[d]
    BY <1>3, <2>1 DEF LinkTypes
  <2>4. LinkOK'
    BY <1>2, <1>3, <1>5, <2>1, <2>3, LinkKeeps
  <2>. QED  BY <1>1, <1>2, <1>4, <2>2, <2>4, LinkStep
<1>. QED  BY <1>6, <1>7

\* The agent's process dies; its streams live on at the manager.
LEMMA AgentCrashKeeps ==
    ASSUME IndInv, AgentCrash
    PROVE  IndInv'
PROOF
<1>1. /\ Start /\ cur' = NoConn /\ faults' \in 0 .. MaxFaults
      /\ stream' = [c \in Conn |-> IF ServerAlive(c) THEN "orphan" ELSE "free"]
      /\ toAgent' = [c \in Conn |-> {}] /\ UNCHANGED <<managerVars, toServer, seen>>
  BY Types DEF AgentCrash, Fault
<1>2. UNCHANGED <<managerUp, received, durable, shed>> /\ unacked' = <<>>
  BY <1>1 DEF managerVars, Start
<1>3. WindowOK /\ LinkOK /\ LinkTypes /\ InCare(pos, waiting, unacked, checkpoint, Settled)
  BY Types
<1>4. WindowOK' /\ InCare(pos', waiting', unacked', checkpoint', Settled)
  BY <1>1, <1>3, StartCares
<1>5. Settled' = Settled /\ Taken' = Taken
  BY <1>2, SetFacts
<1>6. \A c \in Conn : /\ stream'[c] \in {"open", "orphan"} <=> stream[c] \in {"open", "orphan"}
                      /\ toServer'[c] = toServer[c] /\ toAgent'[c] = {}
  BY <1>1 DEF ServerAlive
<1>7. 1 .. Len(unacked') = {}
  BY <1>2
<1>8. LinkOK'
  BY <1>1, <1>2, <1>3, <1>5, <1>6, <1>7, LinkKeeps
<1>9. LinkTypes'
  BY <1>1, <1>3 DEF LinkTypes, StreamState
<1>. QED  BY <1>1, <1>2, <1>4, <1>8, <1>9, LinkStep

-----------------------------------------------------------------------------
(* The invariant of the specification.                                     *)

\* Nothing is read, sent or stored yet, and the manager is down.
LEMMA InitHolds ==
    ASSUME Init
    PROVE  IndInv
PROOF
<1>1. WindowOK /\ InCare(pos, waiting, unacked, checkpoint, Settled)
  BY InitCares DEF Init
<1>2. 0 \in 0 .. MaxOffset /\ 0 \in 0 .. MaxFaults
  BY WindowAssumption
<1>3. /\ ~managerUp /\ received = [s \in Source |-> 0] /\ committed = [s \in Source |-> 0]
      /\ pending = {} /\ durable = {} /\ shed = {} /\ unacked = <<>>
      /\ cur = NoConn /\ stream = [c \in Conn |-> "free"] /\ toServer = [c \in Conn |-> <<>>]
      /\ toAgent = [c \in Conn |-> {}] /\ seen = [c \in Conn |-> {}] /\ faults = 0
  BY DEF Init, M!Init, AgentInit
<1>4. TypeOK
  <2>1. received \in M!Watermark /\ committed \in M!Watermark
    BY <1>2, <1>3 DEF M!Watermark
  <2>2. stream \in [Conn -> StreamState] /\ toServer \in [Conn -> Seq(Record)]
    BY <1>3 DEF StreamState
  <2>3. AgentTypeOK /\ managerUp \in BOOLEAN
    BY <1>1 DEF WindowOK, Init, M!Init
  <2>. QED  BY <1>2, <1>3, <2>1, <2>2, <2>3 DEF TypeOK
<1>5. ManagerOK
  <2>1. \A r \in Record : ~(r.off <= received[r.src])
    BY <1>3 DEF Record
  <2>. QED  BY <1>3, <2>1 DEF ManagerOK, NotStoredAgain
<1>6. LinkOK
  <2>1. HoldsEarlier(<<>>, Taken)
    BY DEF HoldsEarlier
  <2>. QED  BY <1>3, <2>1 DEF LinkOK, ServerAlive
<1>. QED  BY <1>1, <1>4, <1>5, <1>6 DEF IndInv

\* Whatever the two ends and the network do next.
LEMMA StepKeeps ==
    ASSUME IndInv, [Next]_vars
    PROVE  IndInv'
PROOF
<1>1. /\ WindowOK /\ InCare(pos, waiting, unacked, checkpoint, Settled)
      /\ LinkOK /\ LinkTypes /\ faults \in 0 .. MaxFaults
      /\ phase \in {"running", "stopping", "down"}
  BY Types DEF WindowOK, AgentTypeOK
<1>2. ASSUME NEW s \in Source, RestartTail(s)  PROVE IndInv'
  <2>1. /\ Retail(s) /\ UNCHANGED <<managerVars, linkVars>> /\ faults' \in 0 .. MaxFaults
        /\ UNCHANGED <<shed, unacked, durable>>
    BY <1>1, <1>2 DEF RestartTail, Fault, Retail, managerVars
  <2>2. WindowOK' /\ InCare(pos', waiting', unacked', checkpoint', Settled)
    BY <1>1, <2>1, RetailCares
  <2>3. Settled' = Settled
    BY <2>1, SetFacts
  <2>. QED  BY <2>1, <2>2, <2>3, AgentStep
<1>3. CASE UNCHANGED vars
  <2>1. /\ UNCHANGED <<agentVars, linkVars, faults, managerUp, received, committed, pending, durable, shed>>
    BY <1>3 DEF vars, agentVars, managerVars
  <2>2. Settled' = Settled /\ Taken' = Taken
    BY <2>1, SetFacts
  <2>3. ManagerOK' /\ ManagerTypes'
    BY <2>1, <2>2, Types DEF ManagerOK, ManagerTypes, NotStoredAgain
  <2>. QED  BY <2>1, <2>2, <2>3, ManagerStep
<1>. QED
  BY <1>2, <1>3, TailStepKeeps, ConnectKeeps, ReceiveAckKeeps, DeliverKeeps, SendAckKeeps,
     DisconnectKeeps, SendKeeps, AgentCrashKeeps, PersistCommitKeeps, ManagerCrashKeeps,
     ManagerRecoverKeeps DEF Next

\* The inductive invariant holds of every state of the agent, the streams and the
\* manager together.
THEOREM DeliveryInvariant == Spec => []IndInv
PROOF
<1>1. Init => IndInv
  BY InitHolds
<1>2. IndInv /\ [Next]_vars => IndInv'
  BY StepKeeps
<1>. QED  BY <1>1, <1>2, PTL DEF Spec

\* No checkpoint passes a line that is neither in the object store nor shed,
\* with stale acks of older sessions and crashes of either end.
THEOREM CheckpointAlwaysDurable == Spec => []CheckpointDurable
PROOF
<1>1. IndInv => CheckpointDurable
  BY DEF IndInv, InCare, CheckpointDurable, Settled
<1>. QED  BY <1>1, DeliveryInvariant, PTL

\* At-least-once delivery: a line that was read is stored, shed, or still held by
\* the agent.
THEOREM NothingEverLost == Spec => []NothingLost
PROOF
<1>1. IndInv => NothingLost
  BY DEF IndInv, InCare, NothingLost, Settled
<1>. QED  BY <1>1, DeliveryInvariant, PTL

\* What is stored is never buffered a second time, however it is redelivered.
THEOREM NeverStoredAgain == Spec => []NotStoredAgain
PROOF
<1>1. IndInv => NotStoredAgain
  BY DEF IndInv, ManagerOK
<1>. QED  BY <1>1, DeliveryInvariant, PTL

\* Every variable of the two ends and the streams keeps its type; the session is
\* on an open stream.
THEOREM DeliveryTypes == Spec => []TypeOK
PROOF
<1>1. IndInv => TypeOK
  BY DEF IndInv
<1>. QED  BY <1>1, DeliveryInvariant, PTL

\* The manager takes the lines of a source in turn: its watermark runs over
\* nothing but shed lines.
THEOREM AlwaysAcceptsInTurn == Spec => AcceptsInTurn
PROOF
<1>. DEFINE InTurn == \A r \in pending' \ pending, q \in Record :
                q.src = r.src /\ received[r.src] < q.off /\ q.off < r.off => q \in shed
<1>1. ASSUME IndInv, [Next]_vars  PROVE [InTurn]_vars
  <2>1. ASSUME NEW c \in Conn, Deliver(c)  PROVE InTurn
    <3>. SUFFICES ASSUME NEW r \in pending' \ pending, NEW q \in Record,
                         q.src = r.src, received[r.src] < q.off, q.off < r.off
                  PROVE  q \in shed
      OBVIOUS
    <3>1. toServer[c] # <<>> /\ r = Head(toServer[c])
      BY <2>1 DEF Deliver, M!Accept, managerVars
    <3>2. q \in Taken
      BY <1>1, <3>1, HeadInTurn, Types
    <3>3. q.src \in Source /\ q.off \in Nat
      BY DEF Record
    <3>4. received[q.src] \in Nat
      BY <1>1, <3>3, Types, WindowAssumption DEF ManagerTypes
    <3>. QED  BY <3>2, <3>3, <3>4 DEF Taken
  <2>2. CASE \E c \in Conn : Deliver(c)
    BY <2>1, <2>2
  <2>3. CASE UNCHANGED pending \/ pending' \subseteq pending
    BY <2>3
  <2>4. CASE Persist \/ ManagerCrash
    BY <2>3, <2>4 DEF Persist, M!Persist, ManagerCrash, M!Fail
  <2>5. CASE \E s \in Source : TailStep(s) \/ RestartTail(s)
    BY <2>3, <2>5 DEF TailStep, RestartTail, managerVars
  <2>6. CASE \E c \in Conn : Connect(c) \/ ReceiveAck(c) \/ SendAck(c) \/ EndStream(c)
    BY <2>3, <2>6 DEF Connect, ReceiveAck, SendAck, EndStream, managerVars
  <2>7. CASE Send \/ Disconnect \/ AgentCrash \/ Commit \/ ManagerRecover
    BY <2>3, <2>7 DEF Send, Disconnect, AgentCrash, Commit, M!Commit, ManagerRecover, M!Recover,
                      managerVars
  <2>8. CASE UNCHANGED vars
    BY <2>8
  <2>. QED  BY <1>1, <2>2, <2>4, <2>5, <2>6, <2>7, <2>8 DEF Next
<1>. QED  BY <1>1, DeliveryInvariant, PTL DEF Spec, AcceptsInTurn
=============================================================================
