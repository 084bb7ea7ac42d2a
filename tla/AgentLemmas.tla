---------------------------- MODULE AgentLemmas ----------------------------
(***************************************************************************)
(* What the agent's operations do, as facts the proofs about AgentAlone    *)
(* and Delivery share.  The two differ in the set of lines that are done   *)
(* with: committed by any manager, or durable in the object store.         *)
(***************************************************************************)
EXTENDS Agent, DataLemmas

-----------------------------------------------------------------------------
(* Enqueue, dropOldestLocked, flush and applyAck on a window.              *)

USE WindowAssumption

\* An envelope carries a line of its source.
LEMMA LineType ==
    ASSUME NEW e \in Envelope
    PROVE  Line(e) \in Record /\ Size[Line(e)] \in Nat
PROOF
<1>1. Line(e) \in Record
  BY DEF Line, Envelope, Record
<1>. QED  BY <1>1

\* The sizes that Bytes adds up.
Sizes(w) == [i \in 1 .. Len(w) |-> Size[Line(w[i])]]

\* They are as many as there are envelopes.
LEMMA SizesType ==
    ASSUME NEW w \in Seq(Envelope)
    PROVE  Sizes(w) \in Seq(Nat) /\ Sizes(w) \in Seq(Int) /\ Len(Sizes(w)) = Len(w)
PROOF
<1>1. \A i \in 1 .. Len(w) : w[i] \in Envelope
  OBVIOUS
<1>2. \A i \in 1 .. Len(w) : Size[Line(w[i])] \in Nat
  BY <1>1, LineType
<1>. QED  BY <1>2 DEF Sizes

\* The bytes of a window are a natural number, 0 for the empty one.
LEMMA BytesType ==
    /\ \A w \in Seq(Envelope) : Bytes(w) \in Nat
    /\ Bytes(<<>>) = 0
PROOF
<1>1. ASSUME NEW w \in Seq(Envelope)  PROVE Bytes(w) \in Nat
  BY SizesType, TotalType DEF Bytes, Sizes
<1>2. Bytes(<<>>) = 0
  <2>1. [i \in 1 .. Len(<<>>) |-> Size[Line(<<>>[i])]] = <<>>
    OBVIOUS
  <2>. QED  BY <2>1, TotalEmpty DEF Bytes
<1>. QED  BY <1>1, <1>2

\* Enqueue: the window grows by one envelope at its end.
LEMMA AppendWindow ==
    ASSUME NEW w \in Seq(Envelope), NEW e \in Envelope
    PROVE  /\ Append(w, e) \in Seq(Envelope)
           /\ Bytes(Append(w, e)) = Bytes(w) + Size[Line(e)]
           /\ Lines(Append(w, e)) = Lines(w) \cup {Line(e)}
           /\ SentInFront(w) /\ ~e.sent => SentInFront(Append(w, e))
PROOF
<1>. DEFINE v == Append(w, e)
<1>1. /\ v \in Seq(Envelope) /\ Len(w) \in Nat /\ Len(v) = Len(w) + 1
      /\ v[Len(w) + 1] = e
      /\ \A i \in 1 .. Len(w) : v[i] = w[i]
  OBVIOUS
<1>. HIDE DEF v
<1>2. Bytes(v) = Bytes(w) + Size[Line(e)]
  <2>1. Size[Line(e)] \in Int
    BY LineType
  <2>2. Sizes(v) = Append(Sizes(w), Size[Line(e)])
    <3>1. Sizes(v) \in Seq(Int) /\ Len(Sizes(v)) = Len(w) + 1
      BY <1>1, SizesType
    <3>2. Append(Sizes(w), Size[Line(e)]) \in Seq(Int)
          /\ Len(Append(Sizes(w), Size[Line(e)])) = Len(w) + 1
      BY SizesType, <2>1
    <3>3. ASSUME NEW i \in 1 .. Len(w) + 1
          PROVE  Sizes(v)[i] = Append(Sizes(w), Size[Line(e)])[i]
      <4>1. CASE i = Len(w) + 1
        BY <4>1, <1>1, SizesType, <2>1 DEF Sizes
      <4>2. CASE i \in 1 .. Len(w)
        BY <4>2, <1>1, SizesType, <2>1 DEF Sizes
      <4>3. i = Len(w) + 1 \/ i \in 1 .. Len(w)
        BY <1>1
      <4>. QED  BY <4>1, <4>2, <4>3
    <3>4. Len(Sizes(v)) = Len(Append(Sizes(w), Size[Line(e)]))
          /\ \A i \in 1 .. Len(Sizes(v)) : Sizes(v)[i] = Append(Sizes(w), Size[Line(e)])[i]
      BY <3>1, <3>2, <3>3
    <3>. QED  BY <3>1, <3>2, <3>4, SameSeq, Zenon
  <2>. QED  BY <2>1, <2>2, SizesType, TotalAppend DEF Bytes, Sizes
<1>3. Lines(v) = Lines(w) \cup {Line(e)}
  <2>1. ASSUME NEW i \in 1 .. Len(v)  PROVE Line(v[i]) \in Lines(w) \cup {Line(e)}
    <3>1. i \in 1 .. Len(w) \/ i = Len(w) + 1
      BY <1>1
    <3>2. i \in 1 .. Len(w) => Line(v[i]) \in Lines(w)
      BY <1>1 DEF Lines
    <3>. QED  BY <1>1, <3>1, <3>2
  <2>2. ASSUME NEW i \in 1 .. Len(w)  PROVE Line(w[i]) \in Lines(v)
    <3>1. i \in 1 .. Len(v) /\ v[i] = w[i]
      BY <1>1
    <3>. QED  BY <3>1 DEF Lines
  <2>3. Line(e) \in Lines(v)
    <3>1. Len(w) + 1 \in 1 .. Len(v)
      BY <1>1
    <3>. QED  BY <1>1, <3>1 DEF Lines
  <2>. QED  BY <2>1, <2>2, <2>3 DEF Lines
<1>4. ASSUME SentInFront(w), ~e.sent  PROVE SentInFront(v)
  <2>. SUFFICES ASSUME NEW i \in 1 .. Len(v), NEW j \in 1 .. Len(v), i < j, v[j].sent
                PROVE  v[i].sent
    BY DEF SentInFront
  <2>1. j \in 1 .. Len(w)
    BY <1>1, <1>4
  <2>2. i \in 1 .. Len(w)
    BY <1>1, <2>1
  <2>. QED  BY <1>1, <1>4, <2>1, <2>2 DEF SentInFront
<1>. QED  BY <1>1, <1>2, <1>3, <1>4 DEF v

\* The new envelope may stand at the end when every earlier line of its source
\* is done with or in the window.
LEMMA AppendHolds ==
    ASSUME NEW w \in Seq(Envelope), NEW e \in Envelope, NEW done, HoldsEarlier(w, done),
           \A r \in Record : r.src = e.src /\ r.off < e.off => r \in done \cup Lines(w)
    PROVE  HoldsEarlier(Append(w, e), done)
PROOF
<1>. DEFINE v == Append(w, e)
<1>1. /\ Len(w) \in Nat /\ Len(v) = Len(w) + 1
      /\ v[Len(w) + 1] = e
      /\ \A i \in 1 .. Len(w) : v[i] = w[i]
  OBVIOUS
<1>. HIDE DEF v
<1>2. ASSUME NEW i \in 1 .. Len(v), NEW r \in Record, r.src = v[i].src, r.off < v[i].off, r \notin done
      PROVE  \E j \in 1 .. i - 1 : Line(v[j]) = r
  <2>1. CASE i = Len(w) + 1
    <3>1. PICK j \in 1 .. Len(w) : Line(w[j]) = r
      BY <1>1, <1>2, <2>1 DEF Lines
    <3>. QED  BY <1>1, <2>1, <3>1
  <2>2. CASE i \in 1 .. Len(w)
    <3>1. PICK j \in 1 .. i - 1 : Line(w[j]) = r
      BY <1>1, <1>2, <2>2 DEF HoldsEarlier
    <3>. QED  BY <1>1, <2>2, <3>1
  <2>. QED  BY <2>1, <2>2, <1>1
<1>. QED  BY <1>2 DEF HoldsEarlier, v

\* dropOldestLocked: the window loses its first envelope.
LEMMA TailWindow ==
    ASSUME NEW w \in Seq(Envelope), w # <<>>
    PROVE  /\ Head(w) \in Envelope
           /\ Tail(w) \in Seq(Envelope)
           /\ Bytes(Tail(w)) = Bytes(w) - Size[Line(Head(w))]
           /\ Lines(w) = Lines(Tail(w)) \cup {Line(Head(w))}
           /\ SentInFront(w) => SentInFront(Tail(w))
PROOF
<1>. DEFINE v == Tail(w)
<1>1. /\ v \in Seq(Envelope) /\ Len(v) \in Nat /\ Len(w) = Len(v) + 1
      /\ w[1] = Head(w) /\ Head(w) \in Envelope
      /\ \A i \in 1 .. Len(v) : v[i] = w[i + 1]
  OBVIOUS
<1>. HIDE DEF v
<1>2. Bytes(v) = Bytes(w) - Size[Line(Head(w))]
  <2>1. Sizes(w) \in Seq(Int) /\ Len(Sizes(w)) = Len(v) + 1
        /\ Sizes(v) \in Seq(Int) /\ Len(Sizes(v)) = Len(v)
    BY <1>1, SizesType
  <2>2. Sizes(w) # <<>> /\ Head(Sizes(w)) = Sizes(w)[1] /\ Sizes(w)[1] = Size[Line(Head(w))]
    BY <1>1, <2>1 DEF Sizes
  <2>3. Tail(Sizes(w)) \in Seq(Int) /\ Len(Tail(Sizes(w))) = Len(v)
        /\ \A i \in 1 .. Len(v) : Tail(Sizes(w))[i] = Sizes(w)[i + 1]
    BY <1>1, <2>1, <2>2
  <2>4. \A i \in 1 .. Len(v) : Sizes(v)[i] = Sizes(w)[i + 1]
    BY <1>1 DEF Sizes
  <2>5. Sizes(v) = Tail(Sizes(w))
    <3>1. Len(Sizes(v)) = Len(Tail(Sizes(w)))
          /\ \A i \in 1 .. Len(Sizes(v)) : Sizes(v)[i] = Tail(Sizes(w))[i]
      BY <2>1, <2>3, <2>4
    <3>. QED  BY <2>1, <2>3, <3>1, SameSeq, Zenon
  <2>. QED  BY <2>1, <2>2, <2>5, TotalTail DEF Bytes, Sizes
<1>3. Lines(w) = Lines(v) \cup {Line(Head(w))}
  <2>1. ASSUME NEW i \in 1 .. Len(w)  PROVE Line(w[i]) \in Lines(v) \cup {Line(Head(w))}
    <3>1. CASE i = 1
      BY <1>1, <3>1
    <3>2. CASE i # 1
      <4>1. i - 1 \in 1 .. Len(v) /\ v[i - 1] = w[i]
        BY <1>1, <3>2
      <4>. QED  BY <4>1 DEF Lines
    <3>. QED  BY <3>1, <3>2
  <2>2. ASSUME NEW i \in 1 .. Len(v)  PROVE Line(v[i]) \in Lines(w)
    BY <1>1 DEF Lines
  <2>3. Line(Head(w)) \in Lines(w)
    BY <1>1 DEF Lines
  <2>. QED  BY <2>1, <2>2, <2>3 DEF Lines
<1>4. ASSUME SentInFront(w)  PROVE SentInFront(v)
  <2>. SUFFICES ASSUME NEW i \in 1 .. Len(v), NEW j \in 1 .. Len(v), i < j, v[j].sent
                PROVE  v[i].sent
    BY DEF SentInFront
  <2>1. i + 1 \in 1 .. Len(w) /\ j + 1 \in 1 .. Len(w) /\ i + 1 < j + 1
    BY <1>1
  <2>2. w[j + 1].sent
    BY <1>1
  <2>3. w[i + 1].sent
    BY <1>4, <2>1, <2>2 DEF SentInFront
  <2>. QED  BY <1>1, <2>3
<1>. QED  BY <1>1, <1>2, <1>3, <1>4 DEF v

\* The first envelope has nothing of its source left before it, and once its
\* line is done with the rest of the window is in order as before.
LEMMA TailHolds ==
    ASSUME NEW w \in Seq(Envelope), w # <<>>, NEW done, HoldsEarlier(w, done),
           NEW more, done \cup {Line(Head(w))} \subseteq more
    PROVE  /\ \A r \in Record : r.src = Head(w).src /\ r.off < Head(w).off => r \in done
           /\ HoldsEarlier(Tail(w), more)
PROOF
<1>. DEFINE v == Tail(w)
<1>1. /\ Len(v) \in Nat /\ Len(w) = Len(v) + 1
      /\ w[1] = Head(w)
      /\ \A i \in 1 .. Len(v) : v[i] = w[i + 1]
  OBVIOUS
<1>. HIDE DEF v
<1>2. \A r \in Record : r.src = Head(w).src /\ r.off < Head(w).off => r \in done
  BY <1>1 DEF HoldsEarlier
<1>3. ASSUME NEW i \in 1 .. Len(v), NEW r \in Record, r.src = v[i].src, r.off < v[i].off, r \notin more
      PROVE  \E j \in 1 .. i - 1 : Line(v[j]) = r
  <2>1. i + 1 \in 1 .. Len(w) /\ v[i] = w[i + 1] /\ r \notin done
    BY <1>1, <1>3
  <2>2. PICK j \in 1 .. i : Line(w[j]) = r
    BY <2>1, <1>3 DEF HoldsEarlier
  <2>3. j # 1
    BY <1>1, <1>3, <2>2
  <2>4. j - 1 \in 1 .. i - 1 /\ v[j - 1] = w[j]
    BY <1>1, <2>2, <2>3
  <2>. QED  BY <2>2, <2>4
<1>. QED  BY <1>2, <1>3 DEF HoldsEarlier, v

\* applyAck: the window keeps the envelopes at the indices of T.
LEMMA KeepWindow ==
    ASSUME NEW w \in Seq(Envelope), NEW T
    PROVE  /\ KeepAt(w, T) \in Seq(Envelope)
           /\ \A i \in 1 .. Len(w) : i \in T => Line(w[i]) \in Lines(KeepAt(w, T))
           /\ SentInFront(w) => SentInFront(KeepAt(w, T))
PROOF
<1>. DEFINE v == KeepAt(w, T)
<1>1. v \in Seq(Envelope)
  BY KeepAtFacts
<1>2. PICK m : Picks(w, T, Len(w), v, m)
  BY KeepAtFacts
<1>. HIDE DEF v
<1>3. ASSUME NEW i \in 1 .. Len(w), i \in T  PROVE Line(w[i]) \in Lines(v)
  <2>1. PICK j \in 1 .. Len(v) : m[j] = i
    BY <1>2, <1>3 DEF Picks
  <2>2. v[j] = w[i]
    BY <1>2, <2>1 DEF Picks
  <2>. QED  BY <2>2 DEF Lines
<1>4. ASSUME SentInFront(w)  PROVE SentInFront(v)
  BY <1>2, <1>4 DEF Picks, SentInFront
<1>. QED  BY <1>1, <1>3, <1>4 DEF v

\* What goes away is done with, so that what stays is in order as before.
LEMMA KeepHolds ==
    ASSUME NEW w \in Seq(Envelope), NEW T, NEW done, HoldsEarlier(w, done),
           \A i \in 1 .. Len(w) : i \notin T => Line(w[i]) \in done
    PROVE  HoldsEarlier(KeepAt(w, T), done)
PROOF
<1>. DEFINE v == KeepAt(w, T)
<1>1. v \in Seq(Envelope) /\ Len(v) \in Nat
  BY KeepAtFacts
<1>2. PICK m : Picks(w, T, Len(w), v, m)
  BY KeepAtFacts
<1>. HIDE DEF v
<1>3. ASSUME NEW i \in 1 .. Len(v), NEW r \in Record, r.src = v[i].src, r.off < v[i].off, r \notin done
      PROVE  \E j \in 1 .. i - 1 : Line(v[j]) = r
  <2>1. m[i] \in 1 .. Len(w) /\ v[i] = w[m[i]]
    BY <1>2 DEF Picks
  <2>2. PICK l \in 1 .. m[i] - 1 : Line(w[l]) = r
    BY <2>1, <1>3 DEF HoldsEarlier
  <2>3. l \in 1 .. Len(w) /\ l \in T
    BY <2>1, <2>2, <1>3
  <2>4. PICK j \in 1 .. Len(v) : m[j] = l
    BY <1>2, <2>3 DEF Picks
  <2>5. j < i
    <3>1. m[j] < m[i]
      BY <2>1, <2>2, <2>4
    <3>2. \A a, b \in 1 .. Len(v) : a < b => m[a] < m[b]
      BY <1>2 DEF Picks
    <3>. QED  BY <3>1, <3>2, <2>1, <2>2, <2>4, <1>1
  <2>6. v[j] = w[l]
    BY <1>2, <2>4 DEF Picks
  <2>. QED  BY <2>2, <2>4, <2>5, <2>6
<1>. QED  BY <1>3 DEF HoldsEarlier, v

\* flush and a new session change the marks alone.
LEMMA MarkWindow ==
    ASSUME NEW w \in Seq(Envelope), NEW v \in Seq(Envelope), Len(v) = Len(w),
           \A i \in 1 .. Len(w) : v[i].src = w[i].src /\ v[i].off = w[i].off
    PROVE  /\ Bytes(v) = Bytes(w)
           /\ Lines(v) = Lines(w)
           /\ \A done : HoldsEarlier(w, done) => HoldsEarlier(v, done)
PROOF
<1>1. \A i \in 1 .. Len(w) : Line(v[i]) = Line(w[i])
  BY DEF Line
<1>2. Sizes(v) = Sizes(w)
  BY <1>1 DEF Sizes
<1>3. Bytes(v) = Bytes(w)
  BY <1>2 DEF Bytes, Sizes
<1>4. Lines(v) = Lines(w)
  BY <1>1 DEF Lines
<1>5. ASSUME NEW done, HoldsEarlier(w, done)  PROVE HoldsEarlier(v, done)
  <2>. SUFFICES ASSUME NEW i \in 1 .. Len(w), NEW r \in Record,
                       r.src = v[i].src, r.off < v[i].off, r \notin done
                PROVE  \E j \in 1 .. i - 1 : Line(v[j]) = r
    BY DEF HoldsEarlier
  <2>1. r.src = w[i].src /\ r.off < w[i].off
    OBVIOUS
  <2>2. PICK j \in 1 .. i - 1 : Line(w[j]) = r
    BY <1>5, <2>1 DEF HoldsEarlier
  <2>3. j \in 1 .. Len(w)
    OBVIOUS
  <2>. QED  BY <1>1, <2>2, <2>3
<1>. QED  BY <1>3, <1>4, <1>5

\* The more is done with, the less there is to hold.
LEMMA HoldsMore ==
    ASSUME NEW w, NEW done, NEW more, done \subseteq more, HoldsEarlier(w, done)
    PROVE  HoldsEarlier(w, more)
BY DEF HoldsEarlier

\* An envelope whose sent mark is set or taken back.
LEMMA MarkedEnvelope ==
    ASSUME NEW e \in Envelope, NEW b \in BOOLEAN
    PROVE  /\ [e EXCEPT !.sent = b] \in Envelope
           /\ [e EXCEPT !.sent = b].src = e.src
           /\ [e EXCEPT !.sent = b].off = e.off
           /\ [e EXCEPT !.sent = b].sent = b
BY Zenon DEF Envelope

\* A new session: every mark is taken back.
Unmarked(w) == [i \in 1 .. Len(w) |-> [w[i] EXCEPT !.sent = FALSE]]

LEMMA UnmarkedWindow ==
    ASSUME NEW w \in Seq(Envelope), NEW v, v = Unmarked(w)
    PROVE  /\ v \in Seq(Envelope) /\ Len(v) = Len(w)
           /\ \A i \in 1 .. Len(w) :
                v[i].src = w[i].src /\ v[i].off = w[i].off /\ ~v[i].sent
           /\ SentInFront(v)
PROOF
<1>1. \A i \in 1 .. Len(w) : w[i] \in Envelope
  OBVIOUS
<1>2. \A i \in 1 .. Len(w) :
        /\ [w[i] EXCEPT !.sent = FALSE] \in Envelope
        /\ [w[i] EXCEPT !.sent = FALSE].src = w[i].src
        /\ [w[i] EXCEPT !.sent = FALSE].off = w[i].off
        /\ [w[i] EXCEPT !.sent = FALSE].sent = FALSE
  BY <1>1, MarkedEnvelope, Zenon
<1>3. \A i \in 1 .. Len(w) :
        v[i] \in Envelope /\ v[i].src = w[i].src /\ v[i].off = w[i].off /\ v[i].sent = FALSE
  BY <1>2, Zenon DEF Unmarked
<1>4. Len(w) \in Nat /\ DOMAIN v = 1 .. Len(w)
  BY DEF Unmarked
<1>5. v \in Seq(Envelope) /\ Len(v) = Len(w)
  <2>1. v \in [1 .. Len(w) -> Envelope]
    BY <1>3, Zenon DEF Unmarked
  <2>. QED  BY <1>4, <2>1
<1>. QED  BY <1>3, <1>5 DEF SentInFront

\* A round of flush: the marks are set up to the k-th envelope.
MarkUpTo(w, k) == [i \in 1 .. Len(w) |-> [w[i] EXCEPT !.sent = @ \/ i <= k]]

\* The lines stay, and what is sent stays in front.
LEMMA MarkedWindow ==
    ASSUME NEW w \in Seq(Envelope), NEW k \in 1 .. Len(w), NEW v, v = MarkUpTo(w, k)
    PROVE  /\ v \in Seq(Envelope) /\ Len(v) = Len(w)
           /\ \A i \in 1 .. Len(w) :
                /\ v[i].src = w[i].src /\ v[i].off = w[i].off
                /\ v[i].sent <=> w[i].sent \/ i <= k
           /\ SentInFront(w) => SentInFront(v)
PROOF
<1>1. \A i \in 1 .. Len(w) : w[i] \in Envelope
  OBVIOUS
<1>2. \A i \in 1 .. Len(w) :
        /\ [w[i] EXCEPT !.sent = @ \/ i <= k] \in Envelope
        /\ [w[i] EXCEPT !.sent = @ \/ i <= k].src = w[i].src
        /\ [w[i] EXCEPT !.sent = @ \/ i <= k].off = w[i].off
        /\ [w[i] EXCEPT !.sent = @ \/ i <= k].sent = (w[i].sent \/ i <= k)
  <2>. TAKE i \in 1 .. Len(w)
  <2>. DEFINE b == w[i].sent \/ i <= k
  <2>1. b \in BOOLEAN
    BY Zenon
  <2>2. w[i] \in Envelope
    BY <1>1
  <2>. HIDE DEF b
  <2>3. /\ [w[i] EXCEPT !.sent = b] \in Envelope
        /\ [w[i] EXCEPT !.sent = b].src = w[i].src
        /\ [w[i] EXCEPT !.sent = b].off = w[i].off
        /\ [w[i] EXCEPT !.sent = b].sent = b
    BY <2>1, <2>2, MarkedEnvelope, Zenon
  <2>. QED  BY <2>3, Zenon DEF b
<1>3. \A i \in 1 .. Len(w) :
        /\ v[i] \in Envelope /\ v[i].src = w[i].src /\ v[i].off = w[i].off
        /\ v[i].sent = (w[i].sent \/ i <= k)
  BY <1>2, Zenon DEF MarkUpTo
<1>4. Len(w) \in Nat /\ DOMAIN v = 1 .. Len(w)
  BY DEF MarkUpTo
<1>5. v \in Seq(Envelope) /\ Len(v) = Len(w)
  <2>1. v \in [1 .. Len(w) -> Envelope]
    BY <1>3, Zenon DEF MarkUpTo
  <2>. QED  BY <1>4, <2>1
<1>6. \A i \in 1 .. Len(w) :
        /\ v[i].src = w[i].src /\ v[i].off = w[i].off
        /\ v[i].sent <=> w[i].sent \/ i <= k
  BY <1>3, Zenon
<1>7. ASSUME SentInFront(w)  PROVE SentInFront(v)
  <2>. SUFFICES ASSUME NEW i \in 1 .. Len(w), NEW j \in 1 .. Len(w), i < j, v[j].sent
                PROVE  v[i].sent
    BY <1>5 DEF SentInFront
  <2>1. w[j].sent \/ j <= k
    BY <1>6
  <2>2. w[j].sent => w[i].sent
    BY <1>7 DEF SentInFront
  <2>3. j <= k => i <= k
    OBVIOUS
  <2>. QED  BY <1>6, <2>1, <2>2, <2>3
<1>. QED  BY <1>5, <1>6, <1>7

HIDE WindowAssumption

-----------------------------------------------------------------------------
(* What the actions are made of.                                           *)

USE AgentAssumption

\* A record is its source and its offset.
LEMMA SameRecord ==
    ASSUME NEW r \in Record, NEW q \in Record, r.src = q.src, r.off = q.off
    PROVE  r = q
BY DEF Record

\* Advance moves each checkpoint to the new offset or not at all.
LEMMA AdvanceFacts ==
    ASSUME checkpoint \in [Source -> 0 .. MaxOffset], NEW offsets \in [Source -> 0 .. MaxOffset],
           Advance(offsets)
    PROVE  /\ checkpoint' \in [Source -> 0 .. MaxOffset]
           /\ \A s \in Source : checkpoint'[s] \in {checkpoint[s], offsets[s]}
PROOF
<1>1. \A s \in Source : Max({checkpoint[s], offsets[s]}) \in {checkpoint[s], offsets[s]}
  BY MaxOfTwo
<1>2. PICK failed \in SUBSET Source :
        checkpoint' = [s \in Source |->
            IF s \in failed THEN checkpoint[s] ELSE Max({checkpoint[s], offsets[s]})]
  BY DEF Advance
<1>3. \A s \in Source : checkpoint'[s] \in {checkpoint[s], offsets[s]}
  BY <1>1, <1>2
<1>4. \A s \in Source : checkpoint'[s] \in 0 .. MaxOffset
  BY <1>3
<1>. QED  BY <1>2, <1>3, <1>4

\* The line a tail waits with becomes an envelope of that line.
LEMMA WaitingFacts ==
    ASSUME AgentTypeOK, NEW s \in waiting, pos[s] > 0
    PROVE  /\ NewEnvelope(s) \in Envelope
           /\ Line(NewEnvelope(s)) = WaitingLine(s)
           /\ WaitingLine(s) \in Record
           /\ Size[WaitingLine(s)] \in Nat
           /\ NewEnvelope(s).src = s /\ NewEnvelope(s).off = pos[s] /\ ~NewEnvelope(s).sent
PROOF
<1>1. s \in Source /\ pos[s] \in 1 .. MaxOffset
  BY DEF AgentTypeOK
<1>2. WaitingLine(s) \in Record
  BY <1>1 DEF WaitingLine, Record
<1>3. Size[WaitingLine(s)] \in Nat
  BY <1>2, WindowAssumption
<1>. QED  BY <1>1, <1>2, <1>3 DEF NewEnvelope, Envelope, Line, WaitingLine

\* A record is its own line.
LEMMA RecordLine ==
    ASSUME NEW r \in Record
    PROVE  Line(r) = r
BY DEF Line, Record

\* The batch flush sends: the unsent envelopes among the first k, in order, the
\* j-th one from index m[j].
BatchPicks(k, m) ==
    /\ m \in [1 .. Len(Batch(k)) -> 1 .. Len(unacked)]
    /\ \A j \in 1 .. Len(Batch(k)) : m[j] \in Unsent(k) /\ Batch(k)[j] = Line(unacked[m[j]])
    /\ \A i, j \in 1 .. Len(Batch(k)) : i < j => m[i] < m[j]
    /\ \A t \in 1 .. Len(unacked) : t \in Unsent(k) => \E j \in 1 .. Len(Batch(k)) : m[j] = t

\* A batch is made of records of the window.
LEMMA BatchFacts ==
    ASSUME unacked \in Seq(Envelope), NEW k
    PROVE  Batch(k) \in Seq(Record) /\ \E m : BatchPicks(k, m)
PROOF
<1>. DEFINE b == KeepAt(unacked, Unsent(k))
<1>1. b \in Seq(Envelope) /\ \E m : Picks(unacked, Unsent(k), Len(unacked), b, m)
  BY KeepAtFacts
<1>2. PICK m : Picks(unacked, Unsent(k), Len(unacked), b, m)
  BY <1>1
<1>3. \A i \in 1 .. Len(b) : Line(b[i]) \in Record
  BY <1>1, LineType
<1>4. Batch(k) = [i \in 1 .. Len(b) |-> Line(b[i])]
  BY DEF Batch
<1>. HIDE DEF b
<1>5. Len(b) \in Nat
  BY <1>1
<1>6. Batch(k) \in Seq(Record) /\ Len(Batch(k)) = Len(b)
  BY <1>3, <1>4, <1>5
<1>7. \A j \in 1 .. Len(b) : Batch(k)[j] = Line(b[j])
  BY <1>4
<1>8. BatchPicks(k, m)
  BY <1>2, <1>6, <1>7 DEF Picks, BatchPicks
<1>. QED  BY <1>6, <1>8

\* A line may only become done with.
LEMMA InCareMore ==
    ASSUME NEW p, NEW wt, NEW w, NEW c, NEW done, InCare(p, wt, w, c, done),
           NEW more, done \subseteq more
    PROVE  InCare(p, wt, w, c, more)
PROOF
<1>1. HoldsEarlier(w, more)
  BY HoldsMore DEF InCare
<1>. QED  BY <1>1 DEF InCare

\* A tail's line enters a window that has all earlier ones that are owed.
LEMMA InCareAppend ==
    ASSUME NEW p \in [Source -> 0 .. MaxOffset], NEW wt \in SUBSET Source, NEW s \in wt,
           NEW w \in Seq(Envelope), NEW c, NEW done, NEW e \in Envelope,
           e.src = s, e.off = p[s],
           \A t \in wt : p[t] > 0,
           HoldsEarlier(w, done),
           \A r \in Record : r.off <= p[r.src] =>
                r \in done \/ (r.src \in wt /\ r.off = p[r.src]) \/ r \in Lines(w),
           \A r \in Record : r.off <= c[r.src] => r \in done
    PROVE  InCare(p, wt \ {s}, Append(w, e), c, done)
PROOF
<1>1. Lines(Append(w, e)) = Lines(w) \cup {Line(e)}
  BY AppendWindow
<1>2. \A r \in Record : r.src = s /\ r.off < p[s] => r \in done \cup Lines(w)
  <2>. SUFFICES ASSUME NEW r \in Record, r.src = s, r.off < p[s]
                PROVE  r \in done \cup Lines(w)
    OBVIOUS
  <2>1. r.off \in Nat
    BY DEF Record
  <2>2. s \in Source
    OBVIOUS
  <2>3. p[s] \in Nat
    BY <2>2
  <2>4. r.off <= p[r.src] /\ r.off # p[r.src]
    BY <2>1, <2>3
  <2>. QED  BY <2>4
<1>3. HoldsEarlier(Append(w, e), done)
  BY <1>2, AppendHolds
<1>4. \A r \in Record : r.src = s /\ r.off = p[s] => r = Line(e)
  BY DEF Line, Record
<1>5. \A r \in Record : r.off <= p[r.src] =>
        r \in done \/ (r.src \in wt \ {s} /\ r.off = p[r.src]) \/ r \in Lines(Append(w, e))
  BY <1>1, <1>4
<1>. QED  BY <1>3, <1>5 DEF InCare

-----------------------------------------------------------------------------
(* The operations: the window stays right, and no line leaves the agent's  *)
(* care that is not done with.                                             *)

\* Nothing is owed yet.
LEMMA InitCares ==
    ASSUME AgentInit, NEW done
    PROVE  WindowOK /\ InCare(pos, waiting, unacked, checkpoint, done)
PROOF
<1>1. 0 \in 0 .. MaxOffset
  BY WindowAssumption
<1>2. [s \in Source |-> 0] \in [Source -> 0 .. MaxOffset] /\ <<>> \in Seq(Envelope)
  BY <1>1
<1>3. AgentTypeOK
  BY <1>2 DEF AgentInit, AgentTypeOK
<1>4. heldByte = Bytes(unacked)
  BY BytesType DEF AgentInit
<1>5. SentInFront(unacked) /\ HoldsEarlier(unacked, done)
  BY DEF AgentInit, SentInFront, HoldsEarlier
<1>6. \A r \in Record : ~(r.off <= pos[r.src]) /\ ~(r.off <= checkpoint[r.src])
  BY DEF AgentInit, Record
<1>. QED  BY <1>3, <1>4, <1>5, <1>6 DEF WindowOK, InCare, AgentInit

\* pump reads the next line.
LEMMA ReadCares ==
    ASSUME WindowOK, NEW done, InCare(pos, waiting, unacked, checkpoint, done),
           NEW s \in Source, Read(s)
    PROVE  WindowOK' /\ InCare(pos', waiting', unacked', checkpoint', done)
PROOF
<1>1. /\ s \notin waiting /\ pos[s] < MaxOffset
      /\ pos' = [pos EXCEPT ![s] = @ + 1] /\ waiting' = waiting \cup {s}
      /\ UNCHANGED <<phase, unacked, heldByte, checkpoint, shed>>
  BY DEF Read
<1>2. /\ pos \in [Source -> 0 .. MaxOffset] /\ pos' \in [Source -> 0 .. MaxOffset]
      /\ pos'[s] = pos[s] + 1 /\ \A t \in Source \ {s} : pos'[t] = pos[t]
  BY <1>1, WindowAssumption DEF WindowOK, AgentTypeOK
<1>3. waiting \in SUBSET Source /\ waiting' \in SUBSET Source
  BY <1>1 DEF WindowOK, AgentTypeOK
<1>4. WindowOK'
  BY <1>1, <1>2, <1>3 DEF WindowOK, AgentTypeOK
<1>5. \A t \in waiting' : pos'[t] > 0
  BY <1>1, <1>2, <1>3 DEF InCare
<1>6. ASSUME NEW r \in Record, r.off <= pos'[r.src]
      PROVE  r \in done \/ (r.src \in waiting' /\ r.off = pos'[r.src]) \/ r \in Lines(unacked)
  <2>1. r.src \in Source /\ r.off \in Nat
    BY DEF Record
  <2>2. r.off <= pos[r.src] \/ (r.src = s /\ r.off = pos'[s])
    BY <1>2, <1>6, <2>1
  <2>3. ~(r.src = s /\ s \in waiting)
    BY <1>1
  <2>4. r.src # s => pos'[r.src] = pos[r.src]
    BY <1>2, <2>1
  <2>. QED  BY <1>1, <2>2, <2>3, <2>4 DEF InCare
<1>. QED  BY <1>1, <1>4, <1>5, <1>6 DEF InCare

\* The line of a tail in Enqueue becomes an envelope at the end of a window.
LEMMA AppendCares ==
    ASSUME WindowOK, NEW done, NEW s \in waiting, NEW w \in Seq(Envelope),
           \A t \in waiting : pos[t] > 0,
           SentInFront(w), HoldsEarlier(w, done),
           \A r \in Record : r.off <= pos[r.src] =>
                r \in done \/ (r.src \in waiting /\ r.off = pos[r.src]) \/ r \in Lines(w),
           \A r \in Record : r.off <= checkpoint'[r.src] => r \in done,
           unacked' = Append(w, NewEnvelope(s)),
           heldByte' = Bytes(w) + Size[WaitingLine(s)],
           checkpoint' \in [Source -> 0 .. MaxOffset], shed' \in SUBSET Record,
           waiting' = waiting \ {s}, UNCHANGED <<phase, pos>>
    PROVE  WindowOK' /\ InCare(pos', waiting', unacked', checkpoint', done)
PROOF
<1>1. /\ NewEnvelope(s) \in Envelope
      /\ Line(NewEnvelope(s)) = WaitingLine(s)
      /\ NewEnvelope(s).src = s /\ NewEnvelope(s).off = pos[s] /\ ~NewEnvelope(s).sent
  BY WaitingFacts DEF WindowOK
<1>2. /\ unacked' \in Seq(Envelope) /\ SentInFront(unacked')
      /\ Bytes(unacked') = Bytes(w) + Size[WaitingLine(s)]
  BY <1>1, AppendWindow
<1>3. heldByte' \in Nat /\ heldByte' = Bytes(unacked')
  BY <1>2, BytesType
<1>4. WindowOK'
  BY <1>2, <1>3 DEF WindowOK, AgentTypeOK
<1>5. pos \in [Source -> 0 .. MaxOffset] /\ waiting \in SUBSET Source
  BY DEF WindowOK, AgentTypeOK
<1>. DEFINE e == NewEnvelope(s)
            c == checkpoint'
<1>6. e \in Envelope /\ e.src = s /\ e.off = pos[s]
  BY <1>1
<1>7. \A r \in Record : r.off <= c[r.src] => r \in done
  OBVIOUS
<1>8. InCare(pos, waiting \ {s}, Append(w, e), c, done)
  <2>. HIDE DEF e, c
  <2>. QED  BY <1>5, <1>6, <1>7, InCareAppend
<1>. QED  BY <1>4, <1>8

\* Enqueue with room in the window.
LEMMA EnqueueCares ==
    ASSUME WindowOK, NEW done, InCare(pos, waiting, unacked, checkpoint, done),
           NEW s \in Source, Enqueue(s)
    PROVE  WindowOK' /\ InCare(pos', waiting', unacked', checkpoint', done)
PROOF
<1>1. /\ s \in waiting
      /\ unacked' = Append(unacked, NewEnvelope(s))
      /\ heldByte' = Bytes(unacked) + Size[WaitingLine(s)]
      /\ waiting' = waiting \ {s}
      /\ UNCHANGED <<phase, pos, checkpoint, shed>>
  BY DEF Enqueue, WindowOK
<1>2. /\ unacked \in Seq(Envelope) /\ SentInFront(unacked)
      /\ checkpoint' \in [Source -> 0 .. MaxOffset] /\ shed' \in SUBSET Record
  BY <1>1 DEF WindowOK, AgentTypeOK
<1>3. /\ \A t \in waiting : pos[t] > 0
      /\ HoldsEarlier(unacked, done)
      /\ \A r \in Record : r.off <= pos[r.src] =>
            r \in done \/ (r.src \in waiting /\ r.off = pos[r.src]) \/ r \in Lines(unacked)
      /\ \A r \in Record : r.off <= checkpoint'[r.src] => r \in done
  BY <1>1 DEF InCare
<1>. QED  BY <1>1, <1>2, <1>3, AppendCares

\* Enqueue above the hard cap: the record shed is the first one owed, so the
\* checkpoint may move to it.
LEMMA EnqueueOverHardCares ==
    ASSUME WindowOK, NEW done, InCare(pos, waiting, unacked, checkpoint, done),
           NEW s \in Source, EnqueueOverHard(s), NEW more, done \cup shed' \subseteq more
    PROVE  /\ WindowOK' /\ shed \subseteq shed'
           /\ InCare(pos', waiting', unacked', checkpoint', more)
PROOF
<1>1. s \in waiting /\ waiting' = waiting \ {s} /\ UNCHANGED <<phase, pos>>
  BY DEF EnqueueOverHard
<1>2. /\ unacked \in Seq(Envelope) /\ SentInFront(unacked) /\ heldByte = Bytes(unacked)
      /\ checkpoint \in [Source -> 0 .. MaxOffset] /\ shed \in SUBSET Record
  BY DEF WindowOK, AgentTypeOK
<1>3. InCare(pos, waiting, unacked, checkpoint, more)
  BY InCareMore
<1>4. /\ \A t \in waiting : pos[t] > 0
      /\ HoldsEarlier(unacked, more)
      /\ \A r \in Record : r.off <= pos[r.src] =>
            r \in more \/ (r.src \in waiting /\ r.off = pos[r.src]) \/ r \in Lines(unacked)
      /\ \A r \in Record : r.off <= checkpoint[r.src] => r \in more
  BY <1>3 DEF InCare
<1>5. CASE unacked = <<>>
  <2>1. /\ unacked' = Append(unacked, NewEnvelope(s))
        /\ heldByte' = Bytes(unacked) + Size[WaitingLine(s)]
        /\ UNCHANGED <<checkpoint, shed>>
    BY <1>2, <1>5 DEF EnqueueOverHard
  <2>. QED  BY <1>1, <1>2, <1>4, <2>1, AppendCares
<1>6. CASE unacked # <<>>
  <2>. DEFINE old == Head(unacked)
              rest == Tail(unacked)
              offsets == [t \in Source |-> IF t = old.src THEN old.off ELSE 0]
  <2>1. /\ unacked' = Append(rest, NewEnvelope(s))
        /\ heldByte' = heldByte - Size[Line(old)] + Size[WaitingLine(s)]
        /\ Advance(offsets)
        /\ shed' = shed \cup {Line(old)}
    BY <1>6 DEF EnqueueOverHard
  <2>2. /\ old \in Envelope /\ rest \in Seq(Envelope)
        /\ Bytes(rest) = Bytes(unacked) - Size[Line(old)]
        /\ Lines(unacked) = Lines(rest) \cup {Line(old)}
        /\ SentInFront(rest)
    BY <1>2, <1>6, TailWindow
  <2>3. Line(old) \in Record /\ Line(old).src = old.src /\ Line(old).off = old.off
    BY <2>2, LineType DEF Line
  <2>4. shed' \in SUBSET Record /\ shed \subseteq shed' /\ Line(old) \in more
    BY <1>2, <2>1, <2>3
  <2>5. /\ \A r \in Record : r.src = old.src /\ r.off < old.off => r \in more
        /\ HoldsEarlier(rest, more)
    BY <1>2, <1>4, <1>6, <2>4, TailHolds
  <2>6. /\ checkpoint' \in [Source -> 0 .. MaxOffset]
        /\ \A t \in Source : checkpoint'[t] \in {checkpoint[t], offsets[t]}
    <3>1. old.off \in 0 .. MaxOffset /\ 0 \in 0 .. MaxOffset
      BY <2>2, WindowAssumption DEF Envelope
    <3>2. offsets \in [Source -> 0 .. MaxOffset]
      BY <3>1
    <3>. HIDE DEF offsets
    <3>. QED  BY <1>2, <2>1, <3>2, AdvanceFacts
  <2>7. heldByte' = Bytes(rest) + Size[WaitingLine(s)]
    BY <1>2, <2>1, <2>2
  <2>8. ASSUME NEW r \in Record, r.off <= checkpoint'[r.src]  PROVE r \in more
    <3>1. r.src \in Source /\ r.off \in 1 .. MaxOffset
      BY DEF Record
    <3>2. CASE r.off <= checkpoint[r.src]
      BY <1>4, <3>2
    <3>3. CASE ~(r.off <= checkpoint[r.src])
      <4>1. checkpoint'[r.src] = offsets[r.src]
        BY <2>6, <2>8, <3>1, <3>3
      <4>2. r.src = old.src /\ r.off <= old.off
        BY <2>8, <3>1, <4>1
      <4>3. CASE r.off = old.off
        BY <2>3, <2>4, <4>2, <4>3, SameRecord
      <4>4. CASE r.off < old.off
        BY <2>5, <4>2, <4>4
      <4>. QED  BY <2>2, <3>1, <4>2, <4>3, <4>4 DEF Envelope
    <3>. QED  BY <3>2, <3>3
  <2>9. \A r \in Record : r.off <= pos[r.src] =>
            r \in more \/ (r.src \in waiting /\ r.off = pos[r.src]) \/ r \in Lines(rest)
    <3>. HIDE DEF old, rest
    <3>. QED  BY <1>4, <2>2, <2>4
  <2>. HIDE DEF rest
  <2>. QED  BY <1>1, <1>4, <2>1, <2>2, <2>4, <2>5, <2>6, <2>7, <2>8, <2>9, AppendCares
<1>. QED  BY <1>5, <1>6

\* discover starts a tail again from the checkpoint.
LEMMA RetailCares ==
    ASSUME WindowOK, NEW done, InCare(pos, waiting, unacked, checkpoint, done),
           NEW s \in Source, Retail(s)
    PROVE  WindowOK' /\ InCare(pos', waiting', unacked', checkpoint', done)
PROOF
<1>1. /\ s \notin waiting /\ pos' = [pos EXCEPT ![s] = checkpoint[s]]
      /\ UNCHANGED <<phase, waiting, unacked, heldByte, checkpoint, shed>>
  BY DEF Retail
<1>2. /\ pos \in [Source -> 0 .. MaxOffset] /\ pos' \in [Source -> 0 .. MaxOffset]
      /\ pos'[s] = checkpoint[s] /\ \A t \in Source \ {s} : pos'[t] = pos[t]
      /\ waiting \in SUBSET Source
  BY <1>1 DEF WindowOK, AgentTypeOK
<1>3. WindowOK'
  BY <1>1, <1>2 DEF WindowOK, AgentTypeOK
<1>4. \A t \in waiting : pos'[t] > 0
  BY <1>1, <1>2 DEF InCare
<1>5. ASSUME NEW r \in Record, r.off <= pos'[r.src]
      PROVE  r \in done \/ (r.src \in waiting /\ r.off = pos'[r.src]) \/ r \in Lines(unacked)
  <2>1. r.src \in Source
    BY DEF Record
  <2>2. CASE r.src = s
    BY <1>2, <1>5, <2>2 DEF InCare
  <2>3. CASE r.src # s
    <3>1. pos'[r.src] = pos[r.src]
      BY <1>2, <2>1, <2>3
    <3>. QED  BY <1>5, <3>1 DEF InCare
  <2>. QED  BY <2>2, <2>3
<1>. QED  BY <1>1, <1>3, <1>4, <1>5 DEF InCare

\* A step that only marks envelopes or changes the phase.
LEMMA MarkingCares ==
    ASSUME WindowOK, NEW done, InCare(pos, waiting, unacked, checkpoint, done),
           NEW v \in Seq(Envelope), unacked' = v, Len(v) = Len(unacked), SentInFront(v),
           \A i \in 1 .. Len(unacked) : v[i].src = unacked[i].src /\ v[i].off = unacked[i].off,
           phase' \in {"running", "stopping", "down"},
           UNCHANGED <<pos, waiting, heldByte, checkpoint, shed>>
    PROVE  WindowOK' /\ InCare(pos', waiting', unacked', checkpoint', done)
PROOF
<1>1. unacked \in Seq(Envelope)
  BY DEF WindowOK, AgentTypeOK
<1>2. /\ Bytes(v) = Bytes(unacked)
      /\ Lines(v) = Lines(unacked)
      /\ \A d : HoldsEarlier(unacked, d) => HoldsEarlier(v, d)
  BY <1>1, MarkWindow
<1>3. WindowOK'
  BY <1>2 DEF WindowOK, AgentTypeOK
<1>. QED  BY <1>2, <1>3 DEF InCare

\* A new session takes the sent marks back.
LEMMA ResendCares ==
    ASSUME WindowOK, NEW done, InCare(pos, waiting, unacked, checkpoint, done), Resend
    PROVE  /\ WindowOK' /\ InCare(pos', waiting', unacked', checkpoint', done)
           /\ \A i \in 1 .. Len(unacked') : ~unacked'[i].sent
PROOF
<1>. DEFINE v == Unmarked(unacked)
<1>1. unacked \in Seq(Envelope)
  BY DEF WindowOK, AgentTypeOK
<1>2. unacked' = v /\ UNCHANGED <<phase, pos, waiting, heldByte, checkpoint, shed>>
  BY DEF Resend, Unmarked
<1>3. v = Unmarked(unacked)
  OBVIOUS
<1>4. phase' \in {"running", "stopping", "down"}
  BY <1>2 DEF WindowOK, AgentTypeOK
<1>. HIDE DEF v
<1>5. /\ v \in Seq(Envelope) /\ Len(v) = Len(unacked)
      /\ \A i \in 1 .. Len(unacked) :
            v[i].src = unacked[i].src /\ v[i].off = unacked[i].off /\ ~v[i].sent
      /\ SentInFront(v)
  BY <1>1, <1>3, UnmarkedWindow
<1>6. \A i \in 1 .. Len(unacked') : ~unacked'[i].sent
  BY <1>2, <1>5
<1>. QED  BY <1>2, <1>4, <1>5, <1>6, MarkingCares

\* A round of flush marks the window up to the last record of the batch.
LEMMA FlushCares ==
    ASSUME WindowOK, NEW done, InCare(pos, waiting, unacked, checkpoint, done),
           NEW k \in 1 .. Len(unacked), Flush(k)
    PROVE  /\ WindowOK' /\ InCare(pos', waiting', unacked', checkpoint', done)
           /\ Len(unacked') = Len(unacked)
           /\ \A i \in 1 .. Len(unacked) :
                /\ Line(unacked'[i]) = Line(unacked[i])
                /\ unacked'[i].sent <=> unacked[i].sent \/ i <= k
PROOF
<1>. DEFINE v == MarkSent(k)
<1>1. unacked \in Seq(Envelope)
  BY DEF WindowOK, AgentTypeOK
<1>2. unacked' = v /\ UNCHANGED <<phase, pos, waiting, heldByte, checkpoint, shed>>
  BY DEF Flush
<1>3. v = MarkUpTo(unacked, k)
  BY Zenon DEF MarkSent, MarkUpTo
<1>4. phase' \in {"running", "stopping", "down"} /\ SentInFront(unacked)
  BY <1>2 DEF WindowOK, AgentTypeOK
<1>. HIDE DEF v
<1>5. /\ v \in Seq(Envelope) /\ Len(v) = Len(unacked) /\ SentInFront(v)
      /\ \A i \in 1 .. Len(unacked) :
            /\ v[i].src = unacked[i].src /\ v[i].off = unacked[i].off
            /\ v[i].sent <=> unacked[i].sent \/ i <= k
  BY <1>1, <1>3, <1>4, MarkedWindow
<1>6. WindowOK' /\ InCare(pos', waiting', unacked', checkpoint', done)
  BY <1>2, <1>4, <1>5, MarkingCares
<1>7. /\ Len(unacked') = Len(unacked)
      /\ \A i \in 1 .. Len(unacked) :
            /\ Line(unacked'[i]) = Line(unacked[i])
            /\ unacked'[i].sent <=> unacked[i].sent \/ i <= k
  BY <1>2, <1>5 DEF Line
<1>. QED  BY <1>6, <1>7

\* An ack, however late, trims only lines that are done with.  What it leaves
\* was in the window before.
LEMMA ApplyAckCares ==
    ASSUME WindowOK, NEW done, InCare(pos, waiting, unacked, checkpoint, done),
           NEW ack \in [Source -> 0 .. MaxOffset], ApplyAck(ack),
           \A r \in Record : r.off <= ack[r.src] => r \in done
    PROVE  /\ WindowOK' /\ InCare(pos', waiting', unacked', checkpoint', done)
           /\ \A i \in 1 .. Len(unacked') : \E j \in 1 .. Len(unacked) : unacked'[i] = unacked[j]
PROOF
<1>1. /\ Advance(ack) /\ unacked' = Kept(ack) /\ heldByte' = Bytes(Kept(ack))
      /\ UNCHANGED <<phase, pos, waiting, shed>>
  BY DEF ApplyAck
<1>2. /\ unacked \in Seq(Envelope) /\ SentInFront(unacked) /\ HoldsEarlier(unacked, done)
      /\ checkpoint \in [Source -> 0 .. MaxOffset]
  BY DEF WindowOK, AgentTypeOK, InCare
<1>. DEFINE T == {i \in 1 .. Len(unacked) : unacked[i].off > ack[unacked[i].src]}
<1>3. unacked' = KeepAt(unacked, T)
  BY <1>1 DEF Kept
<1>4. \A i \in 1 .. Len(unacked) : i \notin T => Line(unacked[i]) \in done
  <2>. SUFFICES ASSUME NEW i \in 1 .. Len(unacked), i \notin T
                PROVE  Line(unacked[i]) \in done
    OBVIOUS
  <2>1. unacked[i] \in Envelope
    BY <1>2
  <2>2. /\ Line(unacked[i]) \in Record
        /\ Line(unacked[i]).src = unacked[i].src /\ Line(unacked[i]).off = unacked[i].off
    BY <2>1, LineType DEF Line
  <2>3. unacked[i].off <= ack[unacked[i].src]
    BY <2>1, WindowAssumption DEF Envelope
  <2>. QED  BY <2>2, <2>3
<1>. HIDE DEF T
<1>5. /\ unacked' \in Seq(Envelope) /\ SentInFront(unacked')
      /\ \A i \in 1 .. Len(unacked) : i \in T => Line(unacked[i]) \in Lines(unacked')
  BY <1>2, <1>3, KeepWindow
<1>6. HoldsEarlier(unacked', done)
  BY <1>2, <1>3, <1>4, KeepHolds
<1>7. heldByte' \in Nat /\ heldByte' = Bytes(unacked')
  BY <1>1, <1>5, BytesType
<1>8. /\ checkpoint' \in [Source -> 0 .. MaxOffset]
      /\ \A s \in Source : checkpoint'[s] \in {checkpoint[s], ack[s]}
  BY <1>1, <1>2, AdvanceFacts
<1>9. WindowOK'
  BY <1>1, <1>5, <1>7, <1>8 DEF WindowOK, AgentTypeOK
<1>10. \A r \in Lines(unacked) : r \in Lines(unacked') \/ r \in done
  BY <1>4, <1>5 DEF Lines
<1>11. \A r \in Record : r.off <= checkpoint'[r.src] => r \in done
  <2>. SUFFICES ASSUME NEW r \in Record, r.off <= checkpoint'[r.src]
                PROVE  r \in done
    OBVIOUS
  <2>1. r.src \in Source
    BY DEF Record
  <2>2. checkpoint'[r.src] = checkpoint[r.src] \/ checkpoint'[r.src] = ack[r.src]
    BY <1>8, <2>1
  <2>. QED  BY <2>2 DEF InCare
<1>12. InCare(pos', waiting', unacked', checkpoint', done)
  BY <1>1, <1>6, <1>10, <1>11 DEF InCare
<1>13. \A i \in 1 .. Len(unacked') : \E j \in 1 .. Len(unacked) : unacked'[i] = unacked[j]
  <2>1. PICK m : Picks(unacked, T, Len(unacked), unacked', m)
    BY <1>2, <1>3, KeepAtFacts
  <2>. QED  BY <2>1 DEF Picks
<1>. QED  BY <1>9, <1>12, <1>13

\* A new process reads on from the checkpoint.
LEMMA StartCares ==
    ASSUME WindowOK, NEW done, InCare(pos, waiting, unacked, checkpoint, done), Start
    PROVE  WindowOK' /\ InCare(pos', waiting', unacked', checkpoint', done)
PROOF
<1>1. /\ phase' = "running" /\ pos' = checkpoint /\ waiting' = {} /\ unacked' = <<>>
      /\ heldByte' = 0 /\ UNCHANGED <<checkpoint, shed>>
  BY DEF Start
<1>2. <<>> \in Seq(Envelope) /\ Bytes(<<>>) = 0
  BY BytesType
<1>3. SentInFront(<<>>) /\ HoldsEarlier(<<>>, done)
  BY DEF SentInFront, HoldsEarlier
<1>4. WindowOK'
  BY <1>1, <1>2, <1>3 DEF WindowOK, AgentTypeOK
<1>. QED  BY <1>1, <1>3, <1>4 DEF InCare

\* The end of the process, or a step of somebody else.
LEMMA QuietCares ==
    ASSUME WindowOK, NEW done, InCare(pos, waiting, unacked, checkpoint, done),
           UNCHANGED <<pos, waiting, unacked, heldByte, checkpoint, shed>>,
           phase' \in {"running", "stopping", "down"}
    PROVE  WindowOK' /\ InCare(pos', waiting', unacked', checkpoint', done)
BY DEF WindowOK, AgentTypeOK
=============================================================================
