---------------------------- MODULE CacheProofs ----------------------------
(***************************************************************************)
(* Proofs about the disk cache, for any segments, sizes, cap, callers and  *)
(* number of faults.                                                       *)
(***************************************************************************)
EXTENDS DiskCache, DataLemmas, FiniteSetTheorems

Item == [id : Seg, size : Nat]
UniqueIds(s) == \A i, j \in 1 .. Len(s) : s[i].id = s[j].id => i = j

-----------------------------------------------------------------------------
(* The bytes and the ids of a list of entries.                             *)

\* An entry of a list has an id and a size.
LEMMA ItemAt ==
    ASSUME NEW s \in Seq(Item)
    PROVE  \A i \in 1 .. Len(s) : s[i] \in Item /\ s[i].id \in Seg /\ s[i].size \in Nat
PROOF
<1>1. \A i \in 1 .. Len(s) : s[i] \in Item
  OBVIOUS
<1>2. \A x \in Item : x.id \in Seg /\ x.size \in Nat
  BY DEF Item
<1>. QED  BY <1>1, <1>2

\* The sizes of a list of entries are a sequence of numbers.
LEMMA SizesType ==
    ASSUME NEW s \in Seq(Item)
    PROVE  /\ [i \in 1 .. Len(s) |-> s[i].size] \in Seq(Nat)
           /\ Len([i \in 1 .. Len(s) |-> s[i].size]) = Len(s)
PROOF
<1>1. Len(s) \in Nat
  OBVIOUS
<1>2. \A i \in 1 .. Len(s) : s[i].size \in Nat
  BY ItemAt
<1>. QED  BY <1>1, <1>2

\* Sizes add up to a natural number.
LEMMA BytesType ==
    ASSUME NEW s \in Seq(Item)
    PROVE  Bytes(s) \in Nat
BY SizesType, TotalType DEF Bytes

\* No entries have no bytes.
LEMMA BytesEmpty == Bytes(<<>>) = 0
PROOF
<1>1. [i \in 1 .. Len(<<>>) |-> <<>>[i].size] = <<>>
  OBVIOUS
<1>. QED  BY <1>1, TotalEmpty DEF Bytes

\* One entry more adds its size.
LEMMA BytesAppend ==
    ASSUME NEW s \in Seq(Item), NEW x \in Item
    PROVE  Bytes(Append(s, x)) = Bytes(s) + x.size
PROOF
<1>. DEFINE f == [i \in 1 .. Len(s) |-> s[i].size]
            t == Append(s, x)
            g == [i \in 1 .. Len(t) |-> t[i].size]
<1>0. t \in Seq(Item) /\ Len(s) \in Nat
  OBVIOUS
<1>1. f \in Seq(Nat) /\ Len(f) = Len(s) /\ t \in Seq(Item) /\ x.size \in Nat /\ Len(s) \in Nat
  <2>1. x.size \in Nat
    BY DEF Item
  <2>. QED  BY <1>0, <2>1, SizesType
<1>2. g \in Seq(Nat) /\ Len(g) = Len(t)
  BY <1>1, SizesType
<1>3. Len(t) = Len(s) + 1 /\ t[Len(s) + 1] = x /\ \A i \in 1 .. Len(s) : t[i] = s[i]
  OBVIOUS
<1>4. \A i \in 1 .. Len(t) : g[i] = Append(f, x.size)[i]
  <2>. SUFFICES ASSUME NEW i \in 1 .. Len(t)  PROVE g[i] = Append(f, x.size)[i]
    OBVIOUS
  <2>1. CASE i = Len(s) + 1
    BY <2>1, <1>1, <1>3
  <2>2. CASE i \in 1 .. Len(s)
    BY <2>2, <1>1, <1>3
  <2>. QED  BY <2>1, <2>2, <1>1, <1>3
<1>5. Append(f, x.size) \in Seq(Nat) /\ Len(Append(f, x.size)) = Len(g)
  BY <1>1, <1>2, <1>3
<1>. HIDE DEF f, g, t
<1>6. g = Append(f, x.size)
  BY <1>2, <1>4, <1>5, SameSeq
<1>7. f \in Seq(Int) /\ x.size \in Int
  BY <1>1
<1>. QED  BY <1>6, <1>7, TotalAppend DEF Bytes, f, g, t

\* An entry in front adds its size.
LEMMA BytesCons ==
    ASSUME NEW s \in Seq(Item), NEW x \in Item
    PROVE  Bytes(<<x>> \o s) = x.size + Bytes(s)
PROOF
<1>. DEFINE f == [i \in 1 .. Len(s) |-> s[i].size]
            t == <<x>> \o s
            g == [i \in 1 .. Len(t) |-> t[i].size]
<1>0. t \in Seq(Item) /\ Len(s) \in Nat
  OBVIOUS
<1>1. f \in Seq(Nat) /\ Len(f) = Len(s) /\ t \in Seq(Item) /\ x.size \in Nat /\ Len(s) \in Nat
  <2>1. x.size \in Nat
    BY DEF Item
  <2>. QED  BY <1>0, <2>1, SizesType
<1>2. g \in Seq(Nat) /\ Len(g) = Len(t)
  BY <1>1, SizesType
<1>3. Len(t) = Len(s) + 1 /\ t[1] = x /\ \A i \in 1 .. Len(s) : t[i + 1] = s[i]
  OBVIOUS
<1>4. g[1] = x.size /\ \A i \in 1 .. Len(s) : g[i + 1] = f[i]
  BY <1>1, <1>3
<1>. HIDE DEF f, g, t
<1>5. Tail(g) \in Seq(Nat) /\ Len(Tail(g)) = Len(f) /\ Head(g) = g[1] /\ g # <<>>
  BY <1>1, <1>2, <1>3
<1>6. \A i \in 1 .. Len(f) : Tail(g)[i] = f[i]
  BY <1>1, <1>2, <1>3, <1>4
<1>7. Tail(g) = f
  BY <1>1, <1>5, <1>6, SameSeq
<1>8. g \in Seq(Int)
  BY <1>2
<1>9. Total(f) = Total(g) - x.size
  BY <1>4, <1>5, <1>7, <1>8, TotalTail
<1>10. Total(f) \in Nat /\ Total(g) \in Nat
  BY <1>1, <1>2, TotalType
<1>11. Total(g) = x.size + Total(f)
  BY <1>1, <1>9, <1>10
<1>. QED  BY <1>11 DEF Bytes, f, g, t

\* The bytes of one entry are its size.
LEMMA BytesOne ==
    ASSUME NEW x \in Item
    PROVE  Bytes(<<x>>) = x.size
PROOF
<1>1. <<x>> = <<x>> \o <<>> /\ <<>> \in Seq(Item)
  OBVIOUS
<1>2. Bytes(<<x>> \o <<>>) = x.size + Bytes(<<>>)
  BY <1>1, BytesCons
<1>3. x.size \in Nat
  BY DEF Item
<1>. QED  BY <1>1, <1>2, <1>3, BytesEmpty

\* Parting a list leaves its bytes the same: what the loops of addLocked and
\* MoveToFront do to the account.
LEMMA BytesSplit ==
    ASSUME NEW s \in Seq(Item), NEW T, NEW U, \A i \in 1 .. Len(s) : i \in T <=> i \notin U
    PROVE  Bytes(KeepAt(s, T)) + Bytes(KeepAt(s, U)) = Bytes(s)
PROOF
<1>. DEFINE k == KeptUpTo(s, T)
            l == KeptUpTo(s, U)
            f == [i \in 1 .. Len(s) |-> s[i].size]
            t == TotalUpTo(f)
            N == {i \in 0 .. Len(s) : Bytes(k[i]) + Bytes(l[i]) = t[i]}
<1>1. /\ k \in [0 .. Len(s) -> Seq(Item)] /\ k[0] = <<>>
      /\ \A i \in 1 .. Len(s) : k[i] = IF i \in T THEN Append(k[i - 1], s[i]) ELSE k[i - 1]
  BY KeptRecursion
<1>2. /\ l \in [0 .. Len(s) -> Seq(Item)] /\ l[0] = <<>>
      /\ \A i \in 1 .. Len(s) : l[i] = IF i \in U THEN Append(l[i - 1], s[i]) ELSE l[i - 1]
  BY KeptRecursion
<1>3. f \in Seq(Int) /\ Len(f) = Len(s) /\ Len(s) \in Nat
  BY SizesType
<1>4. \A i \in 1 .. Len(s) : f[i] = s[i].size
  OBVIOUS
<1>. HIDE DEF k, l, f
<1>5. /\ t \in [0 .. Len(s) -> Int] /\ t[0] = 0
      /\ \A i \in 1 .. Len(s) : t[i] = t[i - 1] + f[i]
  BY <1>3, TotalRecursion
<1>. HIDE DEF t
<1>6. 0 \in N
  BY <1>1, <1>2, <1>3, <1>5, BytesEmpty
<1>7. ASSUME NEW i \in 1 .. Len(s), i - 1 \in N  PROVE i \in N
  <2>1. i - 1 \in 0 .. Len(s) /\ i \in 0 .. Len(s)
    BY <1>3
  <2>2. k[i - 1] \in Seq(Item) /\ l[i - 1] \in Seq(Item) /\ s[i] \in Item /\ s[i].size \in Nat
    BY <1>1, <1>2, <2>1, ItemAt
  <2>3. Bytes(k[i - 1]) \in Nat /\ Bytes(l[i - 1]) \in Nat
    BY <2>2, BytesType
  <2>4. Bytes(k[i - 1]) + Bytes(l[i - 1]) = t[i - 1]
    BY <1>7
  <2>5. t[i] = t[i - 1] + s[i].size
    BY <1>4, <1>5
  <2>6. CASE i \in T
    <3>1. k[i] = Append(k[i - 1], s[i]) /\ l[i] = l[i - 1]
      BY <1>1, <1>2, <2>6
    <3>2. Bytes(k[i]) = Bytes(k[i - 1]) + s[i].size
      BY <3>1, <2>2, BytesAppend
    <3>3. Bytes(k[i]) + Bytes(l[i]) = t[i]
      BY <3>1, <3>2, <2>2, <2>3, <2>4, <2>5
    <3>. QED  BY <3>3, <2>1
  <2>7. CASE i \notin T
    <3>1. l[i] = Append(l[i - 1], s[i]) /\ k[i] = k[i - 1]
      BY <1>1, <1>2, <2>7
    <3>2. Bytes(l[i]) = Bytes(l[i - 1]) + s[i].size
      BY <3>1, <2>2, BytesAppend
    <3>3. Bytes(k[i]) + Bytes(l[i]) = t[i]
      BY <3>1, <3>2, <2>2, <2>3, <2>4, <2>5
    <3>. QED  BY <3>3, <2>1
  <2>. QED  BY <2>6, <2>7
<1>8. \A i \in 0 .. Len(s) : i \in N
  <2>. HIDE DEF N
  <2>. QED  BY <1>3, <1>6, <1>7, IntervalInduction
<1>9. Bytes(k[Len(s)]) + Bytes(l[Len(s)]) = t[Len(s)]
  BY <1>3, <1>8
<1>. QED  BY <1>3, <1>9 DEF k, l, t, f, KeepAt, Bytes, Total

-----------------------------------------------------------------------------
(* Taking an entry out and putting one in front.                           *)

\* Without drops the entry of g and nothing else.
LEMMA WithoutFacts ==
    ASSUME NEW s \in Seq(Item), UniqueIds(s), NEW g
    PROVE  /\ Without(s, g) \in Seq(Item) /\ UniqueIds(Without(s, g))
           /\ IdsOf(Without(s, g)) = IdsOf(s) \ {g}
           /\ Bytes(Of(s, g)) + Bytes(Without(s, g)) = Bytes(s)
PROOF
<1>. DEFINE T == {i \in 1 .. Len(s) : s[i].id # g}
            w == KeepAt(s, T)
<1>1. w \in Seq(Item) /\ \E m : Picks(s, T, Len(s), w, m)
  BY KeepAtFacts
<1>2. PICK m : Picks(s, T, Len(s), w, m)
  BY <1>1
<1>3. Without(s, g) = w
  BY DEF Without
<1>4. \A i \in 1 .. Len(s) : i \in T <=> s[i].id # g
  OBVIOUS
<1>5. Bytes(Of(s, g)) + Bytes(Without(s, g)) = Bytes(s)
  BY BytesSplit DEF Of, Without
<1>. HIDE DEF w, T
<1>6. /\ m \in [1 .. Len(w) -> 1 .. Len(s)]
      /\ \A j \in 1 .. Len(w) : s[m[j]].id # g /\ w[j] = s[m[j]]
      /\ \A i, j \in 1 .. Len(w) : i < j => m[i] < m[j]
      /\ \A t \in 1 .. Len(s) : s[t].id # g => \E j \in 1 .. Len(w) : m[j] = t
  BY <1>2, <1>4 DEF Picks
<1>7. IdsOf(w) = IdsOf(s) \ {g}
  <2>1. ASSUME NEW j \in 1 .. Len(w)  PROVE w[j].id \in IdsOf(s) \ {g}
    BY <1>6 DEF IdsOf
  <2>2. ASSUME NEW t \in 1 .. Len(s), s[t].id # g  PROVE s[t].id \in IdsOf(w)
    <3>1. PICK j \in 1 .. Len(w) : m[j] = t
      BY <2>2, <1>6
    <3>2. w[j].id = s[t].id
      BY <3>1, <1>6
    <3>. QED  BY <3>2 DEF IdsOf
  <2>. QED  BY <2>1, <2>2 DEF IdsOf
<1>8. UniqueIds(w)
  <2>. SUFFICES ASSUME NEW i \in 1 .. Len(w), NEW j \in 1 .. Len(w), w[i].id = w[j].id  PROVE i = j
    BY DEF UniqueIds
  <2>1. m[i] \in 1 .. Len(s) /\ m[j] \in 1 .. Len(s) /\ s[m[i]].id = s[m[j]].id
    BY <1>6
  <2>2. m[i] = m[j]
    BY <2>1 DEF UniqueIds
  <2>3. ~(i < j) /\ ~(j < i)
    BY <2>1, <2>2, <1>6
  <2>. QED  BY <2>3, <1>1
<1>. QED  BY <1>1, <1>3, <1>5, <1>7, <1>8

\* Of is the entry of g, or nothing when there is none.
LEMMA OfFacts ==
    ASSUME NEW s \in Seq(Item), UniqueIds(s), NEW g
    PROVE  \/ g \notin IdsOf(s) /\ Of(s, g) = <<>>
           \/ g \in IdsOf(s) /\ \E x \in Item : x.id = g /\ Of(s, g) = <<x>>
PROOF
<1>. DEFINE T == {i \in 1 .. Len(s) : s[i].id = g}
            w == KeepAt(s, T)
<1>1. w \in Seq(Item) /\ \E m : Picks(s, T, Len(s), w, m)
  BY KeepAtFacts
<1>2. PICK m : Picks(s, T, Len(s), w, m)
  BY <1>1
<1>3. Of(s, g) = w
  BY DEF Of
<1>4. \A i \in 1 .. Len(s) : i \in T <=> s[i].id = g
  OBVIOUS
<1>. HIDE DEF w, T
<1>5. /\ m \in [1 .. Len(w) -> 1 .. Len(s)]
      /\ \A j \in 1 .. Len(w) : s[m[j]].id = g /\ w[j] = s[m[j]]
      /\ \A i, j \in 1 .. Len(w) : i < j => m[i] < m[j]
      /\ \A t \in 1 .. Len(s) : s[t].id = g => \E j \in 1 .. Len(w) : m[j] = t
  BY <1>2, <1>4 DEF Picks
<1>6. Len(w) \in Nat
  BY <1>1
<1>7. CASE Len(w) = 0
  <2>1. w = <<>>
    BY <1>1, <1>7
  <2>2. g \notin IdsOf(s)
    BY <1>5, <1>7 DEF IdsOf
  <2>. QED  BY <2>1, <2>2, <1>3
<1>8. CASE Len(w) >= 1
  <2>1. 1 \in 1 .. Len(w)
    BY <1>6, <1>8
  <2>2. \A j \in 1 .. Len(w) : j = 1
    <3>. SUFFICES ASSUME NEW j \in 1 .. Len(w), j # 1  PROVE FALSE
      OBVIOUS
    <3>1. m[1] \in 1 .. Len(s) /\ m[j] \in 1 .. Len(s) /\ s[m[1]].id = s[m[j]].id
      BY <2>1, <1>5
    <3>2. m[1] = m[j]
      BY <3>1 DEF UniqueIds
    <3>3. 1 < j
      BY <1>6
    <3>4. m[1] < m[j]
      BY <3>3, <2>1, <1>5
    <3>. QED  BY <3>1, <3>2, <3>4
  <2>3. Len(w) = 1
    <3>1. Len(w) \in 1 .. Len(w)
      BY <1>6, <1>8
    <3>. QED  BY <3>1, <2>2
  <2>4. w[1] \in Item /\ w = <<w[1]>>
    <3>1. w[1] \in Item
      BY <1>1, <2>1
    <3>2. <<w[1]>> \in Seq(Item) /\ Len(<<w[1]>>) = 1 /\ \A i \in 1 .. 1 : <<w[1]>>[i] = w[i]
      BY <3>1
    <3>3. w = <<w[1]>>
      BY <1>1, <2>3, <3>2, SameSeq
    <3>. QED  BY <3>1, <3>3
  <2>5. w[1].id = g
    BY <2>1, <1>5
  <2>6. g \in IdsOf(s)
    BY <2>1, <1>5 DEF IdsOf
  <2>. QED  BY <2>4, <2>5, <2>6, <1>3
<1>. QED  BY <1>6, <1>7, <1>8

\* A new entry in front is one more.
LEMMA ConsFacts ==
    ASSUME NEW s \in Seq(Item), UniqueIds(s), NEW x \in Item, x.id \notin IdsOf(s)
    PROVE  LET t == <<x>> \o s IN
           /\ t \in Seq(Item) /\ UniqueIds(t) /\ Len(t) >= 1 /\ t[1] = x
           /\ IdsOf(t) = IdsOf(s) \cup {x.id}
PROOF
<1>. DEFINE t == <<x>> \o s
<1>1. t \in Seq(Item) /\ Len(t) = Len(s) + 1 /\ t[1] = x /\ Len(s) \in Nat
  OBVIOUS
<1>2. \A i \in 1 .. Len(s) : t[i + 1] = s[i]
  OBVIOUS
<1>. HIDE DEF t
<1>3. \A i \in 1 .. Len(t) : i = 1 \/ (i - 1 \in 1 .. Len(s) /\ t[i] = s[i - 1])
  BY <1>1, <1>2
<1>4. IdsOf(t) = IdsOf(s) \cup {x.id}
  <2>1. \A i \in 1 .. Len(t) : t[i].id \in IdsOf(s) \cup {x.id}
    BY <1>1, <1>3 DEF IdsOf
  <2>2. \A i \in 1 .. Len(s) : s[i].id \in IdsOf(t)
    <3>. SUFFICES ASSUME NEW i \in 1 .. Len(s)  PROVE s[i].id \in IdsOf(t)
      OBVIOUS
    <3>1. i + 1 \in 1 .. Len(t) /\ t[i + 1] = s[i]
      BY <1>1, <1>2
    <3>. QED  BY <3>1 DEF IdsOf
  <2>3. x.id \in IdsOf(t)
    <3>1. 1 \in 1 .. Len(t)
      BY <1>1
    <3>. QED  BY <3>1, <1>1 DEF IdsOf
  <2>. QED  BY <2>1, <2>2, <2>3 DEF IdsOf
<1>5. UniqueIds(t)
  <2>. SUFFICES ASSUME NEW i \in 1 .. Len(t), NEW j \in 1 .. Len(t), t[i].id = t[j].id  PROVE i = j
    BY DEF UniqueIds
  <2>1. \A k \in 1 .. Len(s) : s[k].id # x.id
    BY DEF IdsOf
  <2>2. CASE i = 1 \/ j = 1
    BY <2>1, <2>2, <1>1, <1>3
  <2>3. CASE i # 1 /\ j # 1
    <3>1. i - 1 \in 1 .. Len(s) /\ j - 1 \in 1 .. Len(s) /\ s[i - 1].id = s[j - 1].id
      BY <2>3, <1>3
    <3>2. i - 1 = j - 1
      BY <3>1 DEF UniqueIds
    <3>. QED  BY <3>2, <1>1
  <2>. QED  BY <2>2, <2>3
<1>. QED  BY <1>1, <1>4, <1>5 DEF t

-----------------------------------------------------------------------------
(* addLocked, touch and evictLocked.                                       *)

\* What the cache's list is.
LEMMA LruFacts ==
    ASSUME CacheTypeOK, CacheAccounted
    PROVE  lru \in Seq(Item) /\ UniqueIds(lru) /\ curByt = Bytes(lru) /\ curByt \in Nat /\ curByt <= MaxByte
BY DEF CacheTypeOK, CacheAccounted, Item, UniqueIds

\* addLocked leaves a list with g in front and each id once, and its bytes.
LEMMA AddedFacts ==
    ASSUME CacheTypeOK, CacheAccounted, NEW g \in Seg
    PROVE  LET c == Added(g) IN
           /\ c.items \in Seq(Item) /\ UniqueIds(c.items) /\ c.bytes = Bytes(c.items)
           /\ Len(c.items) >= 1 /\ c.items[1].id = g /\ c.items[1].size = SizeOf[g]
           /\ IdsOf(c.items) = Ids \cup {g}
PROOF
<1>. DEFINE x == [id |-> g, size |-> SizeOf[g]]
            w == Without(lru, g)
            t == <<x>> \o w
<1>1. x \in Item /\ x.id = g /\ x.size = SizeOf[g] /\ SizeOf[g] \in Nat
  BY DiskCacheAssumption DEF Item
<1>2. lru \in Seq(Item) /\ UniqueIds(lru) /\ curByt = Bytes(lru) /\ curByt \in Nat
  BY LruFacts
<1>3. /\ w \in Seq(Item) /\ UniqueIds(w) /\ IdsOf(w) = Ids \ {g}
      /\ Bytes(Of(lru, g)) + Bytes(w) = curByt
  BY <1>2, WithoutFacts DEF Ids
<1>4. Of(lru, g) \in Seq(Item)
  BY <1>2, KeepAtFacts DEF Of
<1>5. Bytes(Of(lru, g)) \in Nat /\ Bytes(w) \in Nat
  BY <1>3, <1>4, BytesType
<1>6. Added(g).items = t /\ Added(g).bytes = curByt + SizeOf[g] - Bytes(Of(lru, g))
  BY DEF Added
<1>. HIDE DEF x, w
<1>7. x.id \notin IdsOf(w)
  BY <1>1, <1>3
<1>8. t \in Seq(Item) /\ UniqueIds(t) /\ Len(t) >= 1 /\ t[1] = x /\ IdsOf(t) = IdsOf(w) \cup {x.id}
  BY <1>1, <1>3, <1>7, ConsFacts
<1>9. Bytes(t) = SizeOf[g] + Bytes(w)
  BY <1>1, <1>3, BytesCons
<1>. HIDE DEF t
<1>10. Added(g).bytes = Bytes(t)
  BY <1>1, <1>2, <1>3, <1>5, <1>6, <1>9
<1>11. IdsOf(t) = Ids \cup {g}
  BY <1>1, <1>3, <1>8
<1>. QED  BY <1>1, <1>6, <1>8, <1>10, <1>11

\* touch only moves an entry.
LEMMA TouchFacts ==
    ASSUME CacheTypeOK, CacheAccounted, NEW g \in Seg
    PROVE  LET t == Of(lru, g) \o Without(lru, g) IN
           t \in Seq(Item) /\ UniqueIds(t) /\ Bytes(t) = curByt /\ IdsOf(t) = Ids
PROOF
<1>. DEFINE w == Without(lru, g)
<1>1. lru \in Seq(Item) /\ UniqueIds(lru) /\ curByt = Bytes(lru) /\ curByt \in Nat
  BY LruFacts
<1>2. /\ w \in Seq(Item) /\ UniqueIds(w) /\ IdsOf(w) = Ids \ {g}
      /\ Bytes(Of(lru, g)) + Bytes(w) = curByt
  BY <1>1, WithoutFacts DEF Ids
<1>3. Bytes(w) \in Nat
  BY <1>2, BytesType
<1>. HIDE DEF w
<1>4. CASE g \notin Ids /\ Of(lru, g) = <<>>
  <2>1. <<>> \o w = w
    BY <1>2
  <2>2. Bytes(w) = curByt
    BY <1>2, <1>3, <1>4, BytesEmpty
  <2>. QED  BY <1>2, <1>4, <2>1, <2>2 DEF w
<1>5. ASSUME NEW x \in Item, x.id = g, Of(lru, g) = <<x>>, g \in Ids
      PROVE  LET t == Of(lru, g) \o w IN
             t \in Seq(Item) /\ UniqueIds(t) /\ Bytes(t) = curByt /\ IdsOf(t) = Ids
  <2>. DEFINE t == <<x>> \o w
  <2>1. x.id \notin IdsOf(w)
    BY <1>2, <1>5
  <2>2. t \in Seq(Item) /\ UniqueIds(t) /\ IdsOf(t) = IdsOf(w) \cup {x.id}
    BY <1>2, <2>1, ConsFacts
  <2>3. Bytes(t) = x.size + Bytes(w)
    BY <1>2, BytesCons
  <2>4. Bytes(<<x>>) = x.size
    BY BytesOne
  <2>. HIDE DEF t
  <2>5. Bytes(t) = curByt
    BY <1>2, <1>5, <2>3, <2>4
  <2>6. IdsOf(t) = Ids
    BY <1>2, <1>5, <2>2
  <2>. QED  BY <1>5, <2>2, <2>5, <2>6 DEF t
<1>6. \/ g \notin Ids /\ Of(lru, g) = <<>>
      \/ g \in Ids /\ \E x \in Item : x.id = g /\ Of(lru, g) = <<x>>
  BY <1>1, OfFacts DEF Ids
<1>. QED  BY <1>4, <1>5, <1>6 DEF w

\* A prefix of a list.
LEMMA PrefixFacts ==
    ASSUME NEW s \in Seq(Item), UniqueIds(s), NEW n \in 0 .. Len(s)
    PROVE  LET t == SubSeq(s, 1, n) IN
           /\ t \in Seq(Item) /\ UniqueIds(t) /\ IdsOf(t) \subseteq IdsOf(s) /\ Len(t) = n
           /\ \A i \in 1 .. n : t[i] = s[i]
PROOF
<1>. DEFINE t == SubSeq(s, 1, n)
<1>1. Len(t) = n /\ n \in Nat /\ Len(s) \in Nat
  OBVIOUS
<1>2. \A i \in 1 .. n : t[i] = s[i] /\ i \in 1 .. Len(s)
  OBVIOUS
<1>3. t \in Seq(Item)
  <2>1. \A i \in 1 .. n : s[i] \in Item
    BY ItemAt, <1>2
  <2>. QED  BY <2>1
<1>. HIDE DEF t
<1>4. UniqueIds(t)
  BY <1>1, <1>2 DEF UniqueIds
<1>5. IdsOf(t) \subseteq IdsOf(s)
  BY <1>1, <1>2 DEF IdsOf
<1>. QED  BY <1>1, <1>2, <1>3, <1>4, <1>5 DEF t

\* evictLocked leaves a list that fits, and its bytes; the entry in front stays
\* when it fits.
LEMMA EvictFacts ==
    ASSUME NEW c, c.items \in Seq(Item), UniqueIds(c.items), c.bytes = Bytes(c.items),
           Len(c.items) >= 1
    PROVE  LET k == Evict(c) IN
           /\ k.items \in Seq(Item) /\ UniqueIds(k.items) /\ IdsOf(k.items) \subseteq IdsOf(c.items)
           /\ k.bytes = Bytes(k.items) /\ k.bytes \in Nat /\ k.bytes <= MaxByte
           /\ c.items[1].size <= MaxByte => c.items[1].id \in IdsOf(k.items)
PROOF
<1>. DEFINE s == c.items
            front(k) == SubSeq(s, 1, k)
            S == {0} \cup {k \in 1 .. Len(s) : c.bytes - Behind(c, k) <= MaxByte}
            n == Max(S)
<1>1. Len(s) \in Nat /\ S \in SUBSET (0 .. Len(s)) /\ S # {}
  OBVIOUS
<1>2. n \in S /\ \A k \in S : n >= k
  <2>. HIDE DEF S
  <2>. QED  BY <1>1, MaxIsGreatest
<1>3. n \in 0 .. Len(s)
  BY <1>1, <1>2
<1>4. Evict(c).items = front(n) /\ Evict(c).bytes = c.bytes - Behind(c, n)
  BY DEF Evict, Fitting
<1>5. \A k \in 0 .. Len(s) : front(k) \in Seq(Item)
  BY PrefixFacts
<1>6. \A k \in 0 .. Len(s) : Bytes(front(k)) \in Nat
  BY <1>5, BytesType
<1>7. Bytes(s) \in Nat
  BY BytesType
<1>8. \A k \in 0 .. Len(s) : c.bytes - Behind(c, k) = Bytes(front(k))
  BY <1>6, <1>7 DEF Behind
<1>9. \A k \in S : Bytes(front(k)) <= MaxByte
  <2>1. Bytes(front(0)) = 0
    <3>1. front(0) = <<>>
      OBVIOUS
    <3>. QED  BY <3>1, BytesEmpty
  <2>2. MaxByte \in Nat
    BY DiskCacheAssumption
  <2>. QED  BY <1>1, <1>8, <2>1, <2>2
<1>10. c.items[1].size <= MaxByte => 1 \in S
  <2>1. 1 \in 1 .. Len(s) /\ s[1] \in Item
    BY <1>1
  <2>2. front(1) = <<s[1]>>
    <3>1. front(1) \in Seq(Item) /\ Len(front(1)) = 1 /\ \A i \in 1 .. 1 : front(1)[i] = s[i]
      BY <1>1, <2>1, PrefixFacts
    <3>2. <<s[1]>> \in Seq(Item) /\ Len(<<s[1]>>) = 1 /\ \A i \in 1 .. 1 : <<s[1]>>[i] = s[i]
      BY <2>1
    <3>. HIDE DEF front
    <3>. QED  BY <3>1, <3>2, SameSeq
  <2>3. Bytes(front(1)) = s[1].size
    BY <2>1, <2>2, BytesOne
  <2>4. c.bytes - Behind(c, 1) = s[1].size
    BY <1>1, <1>8, <2>1, <2>3
  <2>. QED  BY <2>1, <2>4
<1>. HIDE DEF S, n
<1>11. /\ front(n) \in Seq(Item) /\ UniqueIds(front(n)) /\ IdsOf(front(n)) \subseteq IdsOf(s)
       /\ Len(front(n)) = n /\ \A i \in 1 .. n : front(n)[i] = s[i]
  BY <1>3, PrefixFacts
<1>12. Evict(c).bytes = Bytes(front(n)) /\ Bytes(front(n)) \in Nat /\ Bytes(front(n)) <= MaxByte
  BY <1>2, <1>3, <1>4, <1>6, <1>8, <1>9
<1>13. c.items[1].size <= MaxByte => c.items[1].id \in IdsOf(front(n))
  <2>. SUFFICES ASSUME c.items[1].size <= MaxByte  PROVE s[1].id \in IdsOf(front(n))
    OBVIOUS
  <2>1. 1 \in 1 .. n
    BY <1>2, <1>3, <1>10
  <2>. QED  BY <2>1, <1>11 DEF IdsOf
<1>. HIDE DEF front
<1>. QED  BY <1>4, <1>11, <1>12, <1>13

-----------------------------------------------------------------------------
(* Files.                                                                  *)

\* A function has no more values than arguments.
LEMMA ValuesBound ==
    ASSUME NEW S, IsFiniteSet(S), NEW V, NEW f \in [S -> V]
    PROVE  LET T == {f[x] : x \in S} IN
           IsFiniteSet(T) /\ Cardinality(T) \in Nat /\ Cardinality(T) <= Cardinality(S)
PROOF
<1>. DEFINE T == {f[x] : x \in S}
<1>1. f \in Surjection(S, T)
  BY DEF Surjection
<1>. HIDE DEF T
<1>2. IsFiniteSet(T) /\ Cardinality(T) <= Cardinality(S)
  BY <1>1, FS_Surjection
<1>. QED  BY <1>2, FS_CardinalityType DEF T

\* A union has no more elements than its parts.
LEMMA UnionBound ==
    ASSUME NEW S, IsFiniteSet(S), NEW T, IsFiniteSet(T)
    PROVE  /\ IsFiniteSet(S \cup T) /\ Cardinality(S \cup T) \in Nat
           /\ Cardinality(S \cup T) <= Cardinality(S) + Cardinality(T)
PROOF
<1>1. IsFiniteSet(S \cup T) /\ Cardinality(S \cup T) = Cardinality(S) + Cardinality(T) - Cardinality(S \cap T)
  BY FS_Union
<1>2. IsFiniteSet(S \cap T)
  BY FS_Intersection
<1>3. Cardinality(S) \in Nat /\ Cardinality(T) \in Nat /\ Cardinality(S \cap T) \in Nat
  BY <1>2, FS_CardinalityType
<1>4. Cardinality(S \cup T) \in Nat
  BY <1>1, FS_CardinalityType
<1>. QED  BY <1>1, <1>3, <1>4

\* There is always an object that nobody refers to, for a file to be made.
LEMMA NewObjFacts ==
    ASSUME CacheTypeOK
    PROVE  NewObj \in Obj /\ \A g \in Seg : ~RefersTo(g, NewObj)
PROOF
<1>. DEFINE A == {disk[g] : g \in Seg}
            B == {fetch[q].obj : q \in Reader}
            P == Reader \X Seg
            C == {fds[x[1]][x[2]] : x \in P}
            m == Cardinality(Seg)
            n == Cardinality(Reader)
<1>1. IsFiniteSet(Seg) /\ IsFiniteSet(Reader) /\ m \in Nat /\ n \in Nat
  BY DiskCacheAssumption, FS_CardinalityType
<1>2. IsFiniteSet(P) /\ Cardinality(P) = n * m /\ Cardinality(P) \in Nat
  BY <1>1, FS_Product, FS_CardinalityType
<1>3. IsFiniteSet(A) /\ Cardinality(A) \in Nat /\ Cardinality(A) <= m
  <2>1. disk \in [Seg -> {0} \cup Obj]
    BY DEF CacheTypeOK
  <2>. QED  BY <1>1, <2>1, ValuesBound
<1>4. IsFiniteSet(B) /\ Cardinality(B) \in Nat /\ Cardinality(B) <= n
  <2>. DEFINE f == [q \in Reader |-> fetch[q].obj]
            T == {f[q] : q \in Reader}
  <2>1. f \in [Reader -> T] /\ T = B
    OBVIOUS
  <2>. HIDE DEF f, B
  <2>2. IsFiniteSet(T) /\ Cardinality(T) \in Nat /\ Cardinality(T) <= n
    BY <1>1, <2>1, ValuesBound
  <2>. QED  BY <2>1, <2>2
<1>5. IsFiniteSet(C) /\ Cardinality(C) \in Nat /\ Cardinality(C) <= n * m
  <2>. DEFINE f == [x \in P |-> fds[x[1]][x[2]]]
            T == {f[x] : x \in P}
  <2>1. f \in [P -> T] /\ T = C
    OBVIOUS
  <2>. HIDE DEF f, P, C
  <2>2. IsFiniteSet(T) /\ Cardinality(T) \in Nat /\ Cardinality(T) <= Cardinality(P)
    BY <1>2, <2>1, ValuesBound
  <2>. QED  BY <1>2, <2>1, <2>2
<1>6. Used = (A \cup B) \cup C
  BY DEF Used
<1>. HIDE DEF A, B, C, P
<1>7. IsFiniteSet(A \cup B) /\ Cardinality(A \cup B) \in Nat /\ Cardinality(A \cup B) <= m + n
  BY <1>1, <1>3, <1>4, UnionBound
<1>8. IsFiniteSet(Used) /\ Cardinality(Used) \in Nat /\ Cardinality(Used) <= m + n + n * m
  <2>1. /\ IsFiniteSet(Used) /\ Cardinality(Used) \in Nat
        /\ Cardinality(Used) <= Cardinality(A \cup B) + Cardinality(C)
    BY <1>5, <1>6, <1>7, UnionBound
  <2>. DEFINE k == n * m
  <2>2. k \in Nat
    BY <1>2
  <2>3. Cardinality(C) <= k /\ Cardinality(C) \in Nat
    BY <1>5
  <2>4. Cardinality(Used) <= m + n + k
    <3>. HIDE DEF k, m, n
    <3>. QED  BY <1>1, <1>7, <2>1, <2>2, <2>3
  <2>. QED  BY <2>1, <2>4
<1>9. Cardinality(Obj) = m + n + n * m + 1
  <2>. DEFINE k == n * m
  <2>1. k \in Nat
    BY <1>2
  <2>2. Obj = 1 .. (m + n + k + 1)
    BY DEF Obj
  <2>. HIDE DEF k, m, n
  <2>3. m + n + k + 1 \in Int /\ m + n + k + 1 >= 1
    BY <1>1, <2>1
  <2>4. Cardinality(Obj) = (m + n + k + 1) - 1 + 1
    BY <2>2, <2>3, FS_Interval
  <2>5. Cardinality(Obj) = m + n + k + 1
    BY <2>3, <2>4
  <2>. QED  BY <2>5 DEF k
<1>10. ~(Obj \subseteq Used)
  <2>. SUFFICES ASSUME Obj \subseteq Used  PROVE FALSE
    OBVIOUS
  <2>. DEFINE k == n * m
  <2>1. Cardinality(Obj) <= Cardinality(Used)
    BY <1>8, FS_Subset
  <2>2. k \in Nat /\ Cardinality(Used) <= m + n + k /\ Cardinality(Obj) = m + n + k + 1
    BY <1>2, <1>8, <1>9
  <2>. HIDE DEF k, m, n
  <2>. QED  BY <1>1, <1>8, <2>1, <2>2
<1>11. \E o \in Obj : o \notin Used
  BY <1>10
<1>12. NewObj \in Obj /\ NewObj \notin Used
  BY <1>11 DEF NewObj
<1>13. \A g \in Seg : ~RefersTo(g, NewObj)
  <2>. SUFFICES ASSUME NEW g \in Seg  PROVE ~RefersTo(g, NewObj)
    OBVIOUS
  <2>1. disk[g] \in Used /\ \A q \in Reader : fetch[q].obj \in Used
    BY DEF Used
  <2>2. ASSUME NEW q \in Reader  PROVE fds[q][g] \in Used
    <3>1. <<q, g>> \in Reader \X Seg /\ <<q, g>>[1] = q /\ <<q, g>>[2] = g
      OBVIOUS
    <3>. QED  BY <3>1 DEF Used
  <2>. QED  BY <1>12, <2>1, <2>2 DEF RefersTo
<1>. QED  BY <1>12, <1>13

\* What admit of g evicts.
Gone(g) == IdsOf(Added(g).items) \ IdsOf(Evict(Added(g)).items)

\* What admit does: a list that fits, and the files of what is gone are removed.
LEMMA AdmitFacts ==
    ASSUME CacheTypeOK, CacheAccounted, NEW g \in Seg, NEW q, Admit(q, g)
    PROVE  /\ lru' \in Seq(Item) /\ curByt' \in Nat /\ CacheAccounted'
           /\ Gone(g) \subseteq Ids \cup {g} /\ Ids' = (Ids \cup {g}) \ Gone(g)
           /\ SizeOf[g] <= MaxByte => g \notin Gone(g)
           /\ disk' = [h \in Seg |-> IF h \in Gone(g) THEN 0 ELSE disk[h]]
           /\ shaken' = [p \in Reader |-> shaken[p] \/ \E h \in Gone(g) : p \in Near(q, h)]
           /\ UNCHANGED <<whole, fds, faults, spoiled>>
PROOF
<1>. DEFINE c == Added(g)
            k == Evict(c)
<1>1. /\ c.items \in Seq(Item) /\ UniqueIds(c.items) /\ c.bytes = Bytes(c.items)
      /\ Len(c.items) >= 1 /\ c.items[1].id = g /\ c.items[1].size = SizeOf[g]
      /\ IdsOf(c.items) = Ids \cup {g}
  BY AddedFacts
<1>2. /\ lru' = k.items /\ curByt' = k.bytes
      /\ disk' = [h \in Seg |-> IF h \in Gone(g) THEN 0 ELSE disk[h]]
      /\ shaken' = [p \in Reader |-> shaken[p] \/ p \in UNION {Near(q, h) : h \in Gone(g)}]
      /\ UNCHANGED <<whole, fds, faults, spoiled>>
  BY DEF Admit, Shake, Gone
<1>3. Gone(g) = IdsOf(c.items) \ IdsOf(k.items)
  BY DEF Gone
<1>. HIDE DEF c
<1>4. /\ k.items \in Seq(Item) /\ UniqueIds(k.items) /\ IdsOf(k.items) \subseteq IdsOf(c.items)
      /\ k.bytes = Bytes(k.items) /\ k.bytes \in Nat /\ k.bytes <= MaxByte
      /\ c.items[1].size <= MaxByte => c.items[1].id \in IdsOf(k.items)
  BY <1>1, EvictFacts
<1>. HIDE DEF k
<1>5. CacheAccounted'
  BY <1>2, <1>4 DEF CacheAccounted, UniqueIds
<1>6. Ids' = (Ids \cup {g}) \ Gone(g)
  BY <1>1, <1>2, <1>3, <1>4 DEF Ids
<1>7. shaken' = [p \in Reader |-> shaken[p] \/ \E h \in Gone(g) : p \in Near(q, h)]
  BY <1>2
<1>. QED  BY <1>1, <1>2, <1>3, <1>4, <1>5, <1>6, <1>7

-----------------------------------------------------------------------------
(* The invariant, action by action.                                        *)

Pcs == {"idle", "lookup", "get", "write", "admit", "open", "ready", "failed"}
Call == [pc : Pcs, seg : Seg, obj : {0} \cup Obj]

\* 0 stands for no object.
LEMMA NoObject == 0 \notin Obj
BY DEF Obj

\* A caller that is nowhere has no object.
LEMMA IdleFacts == Idle \in Call /\ Idle.pc = "idle" /\ Idle.obj = 0
PROOF
<1>1. (CHOOSE g \in Seg : TRUE) \in Seg
  BY DiskCacheAssumption
<1>. QED  BY <1>1 DEF Idle, Call, Pcs

\* What a caller asks for, and what it fills.
LEMMA CallTypes ==
    ASSUME CacheTypeOK
    PROVE  \A q \in Reader : fetch[q] \in Call /\ fetch[q].seg \in Seg /\ fetch[q].obj \in {0} \cup Obj
PROOF
<1>1. \A q \in Reader : fetch[q] \in Call
  BY DEF CacheTypeOK, Call, Pcs
<1>2. \A c \in Call : c.seg \in Seg /\ c.obj \in {0} \cup Obj
  BY DEF Call
<1>. QED  BY <1>1, <1>2

\* A step of one caller.
LEMMA CallStep ==
    ASSUME CacheTypeOK, NEW q \in Reader, NEW c \in Call, fetch' = [fetch EXCEPT ![q] = c]
    PROVE  /\ fetch' \in [Reader -> Call] /\ fetch'[q] = c
           /\ \A p \in Reader : p # q => fetch'[p] = fetch[p]
PROOF
<1>1. fetch \in [Reader -> Call]
  BY DEF CacheTypeOK, Call, Pcs
<1>. QED  BY <1>1

\* The same for a step that only moves on.
LEMMA GotoStep ==
    ASSUME CacheTypeOK, NEW q \in Reader, NEW to \in Pcs, Goto(q, to)
    PROVE  /\ fetch' \in [Reader -> Call]
           /\ fetch'[q].pc = to /\ fetch'[q].seg = fetch[q].seg /\ fetch'[q].obj = fetch[q].obj
           /\ \A p \in Reader : p # q => fetch'[p] = fetch[p]
PROOF
<1>1. fetch \in [Reader -> Call] /\ fetch[q] \in Call
  BY DEF CacheTypeOK, Call, Pcs
<1>2. [fetch[q] EXCEPT !.pc = to] \in Call
  BY <1>1 DEF Call
<1>3. fetch' = [fetch EXCEPT ![q] = [fetch[q] EXCEPT !.pc = to]]
  BY DEF Goto
<1>4. \A c \in Call : [c EXCEPT !.pc = to].pc = to /\ [c EXCEPT !.pc = to].seg = c.seg /\ [c EXCEPT !.pc = to].obj = c.obj
  BY DEF Call
<1>. QED  BY <1>1, <1>2, <1>3, <1>4, CallStep

\* The same for a step of a writer, who takes an object or lets go of it.
LEMMA WriterStep ==
    ASSUME CacheTypeOK, NEW q \in Reader, NEW to \in Pcs, NEW o \in {0} \cup Obj,
           fetch' = [fetch EXCEPT ![q].pc = to, ![q].obj = o]
    PROVE  /\ fetch' \in [Reader -> Call]
           /\ fetch'[q].pc = to /\ fetch'[q].seg = fetch[q].seg /\ fetch'[q].obj = o
           /\ \A p \in Reader : p # q => fetch'[p] = fetch[p]
PROOF
<1>. DEFINE d(c) == [c EXCEPT !.pc = to, !.obj = o]
<1>1. fetch \in [Reader -> Call] /\ fetch[q] \in Call
  BY DEF CacheTypeOK, Call, Pcs
<1>2. \A c \in Call : d(c) \in Call /\ d(c).pc = to /\ d(c).seg = c.seg /\ d(c).obj = o
  BY DEF Call
<1>3. fetch' = [fetch EXCEPT ![q] = d(fetch[q])]
  BY <1>1 DEF Call
<1>. HIDE DEF d
<1>. QED  BY <1>1, <1>2, <1>3, CallStep

\* Nothing new is referred to.
LEMMA ApartStep ==
    ASSUME ObjectsApart, \A g \in Seg, o \in Obj : RefersTo(g, o)' => RefersTo(g, o)
    PROVE  ObjectsApart'
BY DEF ObjectsApart, Obj

\* At the start nothing is cached, open or under way.
LEMMA CacheInitInv == CacheStart => CacheInv
PROOF
<1>. SUFFICES ASSUME NEW stored \in SUBSET Seg, NEW later \in SUBSET Seg, NEW n \in 0 .. MaxFaults,
                     CacheInit(stored, later, n)
              PROVE  CacheInv
  BY DEF CacheStart
<1>1. /\ lru = <<>> /\ curByt = 0 /\ disk = [g \in Seg |-> 0] /\ whole = {}
      /\ sealed = [g \in Seg |-> IF g \in later THEN "later" ELSE IF g \in stored THEN "done" ELSE "never"]
      /\ fetch = [q \in Reader |-> Idle] /\ fds = [q \in Reader |-> [g \in Seg |-> 0]]
      /\ faults = n /\ shaken = [q \in Reader |-> FALSE] /\ spoiled = {}
  BY DEF CacheInit
<1>2. CacheTypeOK
  <2>1. lru \in Seq([id : Seg, size : Nat]) /\ curByt \in Nat /\ faults \in Nat
    BY <1>1, DiskCacheAssumption
  <2>2. fetch \in [Reader -> [pc : {"idle", "lookup", "get", "write", "admit", "open", "ready", "failed"},
                              seg : Seg, obj : {0} \cup Obj]]
    BY <1>1, IdleFacts DEF Call, Pcs
  <2>3. /\ disk \in [Seg -> {0} \cup Obj] /\ whole \in SUBSET Obj
        /\ sealed \in [Seg -> {"never", "later", "renamed", "put", "stranded", "done"}]
        /\ fds \in [Reader -> [Seg -> {0} \cup Obj]] /\ spoiled \in SUBSET Seg
    BY <1>1
  <2>4. shaken \in [Reader -> BOOLEAN]
    BY <1>1
  <2>. QED  BY <2>1, <2>2, <2>3, <2>4 DEF CacheTypeOK
<1>3. CacheAccounted
  <2>1. Len(lru) = 0 /\ Bytes(lru) = 0
    BY <1>1, BytesEmpty
  <2>. QED  BY <1>1, <2>1, DiskCacheAssumption DEF CacheAccounted
<1>4. \A q \in Reader : fetch[q].pc = "idle" /\ fetch[q].obj = 0
  BY <1>1, IdleFacts
<1>5. ObjectsApart
  BY <1>1, <1>4, NoObject DEF ObjectsApart, RefersTo
<1>6. FilesFilled
  BY <1>1 DEF FilesFilled, AtSeal, Stranded
<1>7. FetchSound
  BY <1>4 DEF FetchSound
<1>8. ReadsFailOnlyWhenShaken
  BY <1>1, <1>4 DEF ReadsFailOnlyWhenShaken
<1>. QED  BY <1>2, <1>3, <1>5, <1>6, <1>7, <1>8 DEF CacheInv

\* A caller asks for a segment.
LEMMA AskKeeps ==
    ASSUME CacheInv, NEW q \in Reader, NEW g \in Seg, Ask(q, g)
    PROVE  CacheInv'
PROOF
<1>. DEFINE c == [pc |-> "lookup", seg |-> g, obj |-> 0]
<1>1. /\ CacheTypeOK /\ fetch[q].pc = "idle" /\ fds[q][g] = 0 /\ fetch' = [fetch EXCEPT ![q] = c]
      /\ shaken' = [shaken EXCEPT ![q] = @ /\ \E h \in Seg : fds[q][h] # 0]
      /\ UNCHANGED <<lru, curByt, disk, whole, sealed, fds, faults, spoiled>>
  BY DEF CacheInv, Ask, CallReader
<1>2. c \in Call /\ c.pc = "lookup" /\ c.seg = g /\ c.obj = 0
  BY DEF Call, Pcs
<1>. HIDE DEF c
<1>3. fetch' \in [Reader -> Call] /\ fetch'[q] = c /\ \A p \in Reader : p # q => fetch'[p] = fetch[p]
  BY <1>1, <1>2, CallStep
<1>4. /\ shaken' \in [Reader -> BOOLEAN]
      /\ \A p \in Reader : p # q => shaken'[p] = shaken[p]
      /\ \A h \in Seg : fds[q][h] # 0 => shaken'[q] = shaken[q]
  BY <1>1 DEF CacheTypeOK
<1>5. CacheTypeOK'
  BY <1>1, <1>3, <1>4 DEF CacheTypeOK, Call, Pcs
<1>6. CacheAccounted'
  BY <1>1 DEF CacheInv, CacheAccounted
<1>7. ObjectsApart'
  <2>1. \A h \in Seg, o \in Obj : RefersTo(h, o)' => RefersTo(h, o)
    BY <1>1, <1>2, <1>3, NoObject DEF RefersTo
  <2>. QED  BY <2>1, ApartStep DEF CacheInv
<1>8. FilesFilled'
  BY <1>1, <1>2, <1>3 DEF CacheInv, FilesFilled, AtSeal, Stranded, Ids
<1>9. FetchSound'
  BY <1>1, <1>2, <1>3, <1>4 DEF CacheInv, FetchSound
<1>10. ReadsFailOnlyWhenShaken'
  BY <1>1, <1>2, <1>3, <1>4 DEF CacheInv, ReadsFailOnlyWhenShaken
<1>. QED  BY <1>5, <1>6, <1>7, <1>8, <1>9, <1>10 DEF CacheInv

\* touch and Stat.
LEMMA LookupKeeps ==
    ASSUME CacheInv, NEW q \in Reader, Lookup(q)
    PROVE  CacheInv'
PROOF
<1>. DEFINE g == fetch[q].seg
<1>1. PICK to \in {"open", "get"} : /\ to = "open" => disk[g] # 0
                                    /\ Goto(q, to)
  BY DEF Lookup
<1>2. /\ CacheTypeOK /\ CacheAccounted /\ g \in Seg /\ fetch[q].pc = "lookup" /\ lru' = Of(lru, g) \o Without(lru, g)
      /\ UNCHANGED <<curByt, disk, whole, sealed, fds, faults, shaken, spoiled>>
  BY DEF CacheInv, Lookup, CacheTypeOK
<1>3. lru' \in Seq(Item) /\ UniqueIds(lru)' /\ Bytes(lru') = curByt /\ Ids' = Ids
  BY <1>2, TouchFacts DEF Ids, UniqueIds
<1>4. /\ fetch' \in [Reader -> Call]
      /\ fetch'[q].pc = to /\ fetch'[q].seg = g /\ fetch'[q].obj = fetch[q].obj
      /\ \A p \in Reader : p # q => fetch'[p] = fetch[p]
  BY <1>1, <1>2, GotoStep DEF Pcs
<1>5. CacheTypeOK'
  BY <1>2, <1>3, <1>4 DEF CacheTypeOK, Call, Pcs, Item
<1>6. CacheAccounted'
  BY <1>2, <1>3 DEF CacheAccounted, UniqueIds
<1>7. ObjectsApart'
  <2>1. \A h \in Seg, o \in Obj : RefersTo(h, o)' => RefersTo(h, o)
    BY <1>2, <1>4 DEF RefersTo
  <2>. QED  BY <2>1, ApartStep DEF CacheInv
<1>8. FilesFilled'
  BY <1>2, <1>3, <1>4 DEF CacheInv, FilesFilled, AtSeal, Stranded
<1>9. FetchSound'
  BY <1>1, <1>2, <1>4 DEF CacheInv, FetchSound
<1>10. ReadsFailOnlyWhenShaken'
  BY <1>1, <1>2, <1>4 DEF CacheInv, ReadsFailOnlyWhenShaken
<1>. QED  BY <1>5, <1>6, <1>7, <1>8, <1>9, <1>10 DEF CacheInv

\* Get, and WriteFile as far as O_CREATE and O_TRUNC: the object it cuts is of
\* no other segment, and whoever has it open is shaken.
LEMMA CreateKeeps ==
    ASSUME CacheInv, NEW q \in Reader, Create(q)
    PROVE  CacheInv'
PROOF
<1>. DEFINE g == fetch[q].seg
            o == IF disk[g] # 0 THEN disk[g] ELSE NewObj
<1>1. /\ CacheTypeOK /\ fetch[q].pc = "get"
      /\ disk' = [disk EXCEPT ![g] = o] /\ whole' = whole \ {o}
      /\ fetch' = [fetch EXCEPT ![q].pc = "write", ![q].obj = o]
      /\ shaken' = [p \in Reader |-> shaken[p] \/ p \in Near(q, g) \cup Holding(q, disk[g])]
      /\ UNCHANGED <<lru, curByt, sealed, fds, faults, spoiled>>
  BY DEF CacheInv, Create, Shake
<1>2. g \in Seg /\ disk[g] \in {0} \cup Obj
  BY <1>1 DEF CacheTypeOK
<1>3. NewObj \in Obj /\ \A h \in Seg : ~RefersTo(h, NewObj)
  BY <1>1, NewObjFacts
<1>4. o \in Obj /\ (disk[g] = o \/ \A h \in Seg : ~RefersTo(h, o))
  BY <1>2, <1>3
<1>5. \A h \in Seg : h # g => ~RefersTo(h, o)
  <2>. HIDE DEF g, o
  <2>1. disk[g] = o => RefersTo(g, o)
    BY Zenon DEF RefersTo
  <2>. QED  BY <2>1, <1>2, <1>4 DEF CacheInv, ObjectsApart
<1>. HIDE DEF o
<1>6. /\ fetch' \in [Reader -> Call]
      /\ fetch'[q].pc = "write" /\ fetch'[q].seg = g /\ fetch'[q].obj = o
      /\ \A p \in Reader : p # q => fetch'[p] = fetch[p]
  BY <1>1, <1>4, WriterStep DEF Pcs
<1>7. disk' \in [Seg -> {0} \cup Obj] /\ disk'[g] = o /\ \A h \in Seg : h # g => disk'[h] = disk[h]
  BY <1>1, <1>2, <1>4 DEF CacheTypeOK
<1>8. /\ shaken' \in [Reader -> BOOLEAN]
      /\ \A p \in Reader : ~shaken'[p] => ~shaken[p] /\ p \notin Holding(q, disk[g])
  BY <1>1 DEF CacheTypeOK
<1>9. CacheTypeOK'
  BY <1>1, <1>6, <1>7, <1>8 DEF CacheTypeOK, Call, Pcs
<1>10. CacheAccounted'
  BY <1>1 DEF CacheInv, CacheAccounted
<1>11. ObjectsApart'
  <2>1. \A h \in Seg, x \in Obj : RefersTo(h, x)' => RefersTo(h, x) \/ (h = g /\ x = o)
    BY <1>1, <1>2, <1>6, <1>7 DEF RefersTo
  <2>. QED  BY <2>1, <1>2, <1>4, <1>5 DEF CacheInv, ObjectsApart, Obj
<1>12. FilesFilled'
  <2>. SUFFICES ASSUME NEW h \in Seg \ spoiled, disk'[h] # 0
                PROVE  /\ \/ disk'[h] \in whole'
                          \/ \E p \in Reader : fetch'[p].pc = "write" /\ fetch'[p].seg = h /\ fetch'[p].obj = disk'[h]
                       /\ \/ h \in Ids' \/ AtSeal(h)' \/ Stranded(h)'
                          \/ \E p \in Reader : fetch'[p].pc \in {"write", "admit"} /\ fetch'[p].seg = h
    BY <1>1 DEF FilesFilled, AtSeal, Stranded
  <2>1. CASE h = g
    BY <2>1, <1>6, <1>7
  <2>2. CASE h # g
    <3>1. disk'[h] = disk[h] /\ disk[h] # o
      BY <2>2, <1>5, <1>7 DEF RefersTo
    <3>2. disk[h] \in whole => disk'[h] \in whole'
      BY <3>1, <1>1
    <3>3. ASSUME NEW p \in Reader, fetch[p].pc \in {"write", "admit"}  PROVE fetch'[p] = fetch[p]
      BY <3>3, <1>1, <1>6
    <3>4. Ids' = Ids /\ sealed' = sealed
      BY <1>1 DEF Ids
    <3>. QED  BY <3>1, <3>2, <3>3, <3>4 DEF CacheInv, FilesFilled, AtSeal, Stranded
  <2>. QED  BY <2>1, <2>2
<1>13. FetchSound'
  <2>1. fds[q][g] = 0 /\ o # 0
    BY <1>1, <1>4, NoObject DEF CacheInv, FetchSound
  <2>2. \A h \in Seg : disk[h] # 0 => disk'[h] # 0
    BY <2>1, <1>7
  <2>3. \A p \in Reader : fetch[p].seg \in Seg
    BY <1>1 DEF CacheTypeOK
  <2>. QED  BY <2>1, <2>2, <2>3, <1>1, <1>6, <1>7, <1>8 DEF CacheInv, FetchSound
<1>14. ReadsFailOnlyWhenShaken'
  <2>1. ASSUME NEW p \in Reader, NEW h \in Seg, fds[p][h] # 0, ~shaken'[p]  PROVE fds[p][h] \in whole'
    <3>1. fds[p][h] \in whole
      BY <2>1, <1>8 DEF CacheInv, ReadsFailOnlyWhenShaken
    <3>2. fds[p][h] # o
      <4>. SUFFICES ASSUME fds[p][h] = o  PROVE FALSE
        OBVIOUS
      <4>1. RefersTo(h, o)
        BY DEF RefersTo
      <4>2. h = g /\ disk[g] = o
        BY <4>1, <1>4, <1>5
      <4>3. p # q
        BY <4>2, <2>1, <1>1 DEF CacheInv, FetchSound
      <4>4. p \in Holding(q, disk[g])
        BY <4>2, <4>3, <1>4, NoObject DEF Holding
      <4>. QED  BY <4>4, <2>1, <1>8
    <3>. QED  BY <3>1, <3>2, <1>1
  <2>2. ASSUME NEW p \in Reader, fetch'[p].pc = "failed"  PROVE p # q /\ fetch'[p] = fetch[p]
    BY <2>2, <1>6
  <2>3. \A p \in Reader : shaken[p] => shaken'[p]
    BY <1>8
  <2>4. \A p \in Reader : fetch'[p].pc = "failed" =>
            shaken'[p] \/ fetch'[p].seg \in spoiled \/ SizeOf[fetch'[p].seg] > MaxByte
    BY <2>2, <2>3 DEF CacheInv, ReadsFailOnlyWhenShaken
  <2>. QED  BY <2>1, <2>4, <1>1 DEF ReadsFailOnlyWhenShaken
<1>. QED  BY <1>9, <1>10, <1>11, <1>12, <1>13, <1>14 DEF CacheInv

\* The object store does not answer.
LEMMA GetFailsKeeps ==
    ASSUME CacheInv, NEW q \in Reader, GetFails(q)
    PROVE  CacheInv'
PROOF
<1>1. /\ CacheTypeOK /\ fetch[q].pc = "get" /\ Goto(q, "failed") /\ faults' \in Nat
      /\ shaken' = [p \in Reader |-> shaken[p] \/ p \in {q}]
      /\ UNCHANGED <<lru, curByt, disk, whole, sealed, fds, spoiled>>
  <2>1. faults \in Nat /\ faults > 0 /\ faults' = faults - 1
    BY DEF CacheInv, GetFails, Fault, CacheTypeOK
  <2>. QED  BY <2>1 DEF CacheInv, GetFails, Shake
<1>2. /\ fetch' \in [Reader -> Call]
      /\ fetch'[q].pc = "failed" /\ fetch'[q].seg = fetch[q].seg /\ fetch'[q].obj = fetch[q].obj
      /\ \A p \in Reader : p # q => fetch'[p] = fetch[p]
  BY <1>1, GotoStep DEF Pcs
<1>3. shaken' \in [Reader -> BOOLEAN] /\ shaken'[q] /\ \A p \in Reader : p # q => shaken'[p] = shaken[p]
  BY <1>1 DEF CacheTypeOK
<1>4. CacheTypeOK'
  BY <1>1, <1>2, <1>3 DEF CacheTypeOK, Call, Pcs
<1>5. CacheAccounted'
  BY <1>1 DEF CacheInv, CacheAccounted
<1>6. ObjectsApart'
  <2>1. \A h \in Seg, o \in Obj : RefersTo(h, o)' => RefersTo(h, o)
    BY <1>1, <1>2 DEF RefersTo
  <2>. QED  BY <2>1, ApartStep DEF CacheInv
<1>7. FilesFilled'
  BY <1>1, <1>2 DEF CacheInv, FilesFilled, AtSeal, Stranded, Ids
<1>8. FetchSound'
  BY <1>1, <1>2, <1>3 DEF CacheInv, FetchSound
<1>9. ReadsFailOnlyWhenShaken'
  BY <1>1, <1>2, <1>3 DEF CacheInv, ReadsFailOnlyWhenShaken
<1>. QED  BY <1>4, <1>5, <1>6, <1>7, <1>8, <1>9 DEF CacheInv

\* WriteFile ends: the object is whole.
LEMMA FillKeeps ==
    ASSUME CacheInv, NEW q \in Reader, Fill(q)
    PROVE  CacheInv'
PROOF
<1>. DEFINE g == fetch[q].seg
            o == fetch[q].obj
<1>1. /\ CacheTypeOK /\ fetch[q].pc = "write" /\ whole' = whole \cup {o}
      /\ fetch' = [fetch EXCEPT ![q].pc = "admit", ![q].obj = 0]
      /\ UNCHANGED <<lru, curByt, disk, sealed, fds, faults, shaken, spoiled>>
  BY DEF CacheInv, Fill
<1>2. o \in Obj
  <2>1. o # 0
    BY <1>1 DEF CacheInv, FetchSound
  <2>2. o \in {0} \cup Obj
    BY CallTypes DEF CacheInv
  <2>. QED  BY <2>1, <2>2
<1>3. /\ fetch' \in [Reader -> Call]
      /\ fetch'[q].pc = "admit" /\ fetch'[q].seg = g /\ fetch'[q].obj = 0
      /\ \A p \in Reader : p # q => fetch'[p] = fetch[p]
  BY <1>1, WriterStep DEF Pcs
<1>4. CacheTypeOK'
  BY <1>1, <1>2, <1>3 DEF CacheTypeOK, Call, Pcs
<1>5. CacheAccounted'
  BY <1>1 DEF CacheInv, CacheAccounted
<1>6. ObjectsApart'
  <2>1. \A h \in Seg, x \in Obj : RefersTo(h, x)' => RefersTo(h, x)
    BY <1>1, <1>3, NoObject DEF RefersTo
  <2>. QED  BY <2>1, ApartStep DEF CacheInv
<1>7. FilesFilled'
  BY <1>1, <1>3 DEF CacheInv, FilesFilled, AtSeal, Stranded, Ids
<1>8. FetchSound'
  BY <1>1, <1>3 DEF CacheInv, FetchSound
<1>9. ReadsFailOnlyWhenShaken'
  BY <1>1, <1>3 DEF CacheInv, ReadsFailOnlyWhenShaken
<1>. QED  BY <1>4, <1>5, <1>6, <1>7, <1>8, <1>9 DEF CacheInv

\* The disk is full.
LEMMA FillFailsKeeps ==
    ASSUME CacheInv, NEW q \in Reader, FillFails(q)
    PROVE  CacheInv'
PROOF
<1>. DEFINE g == fetch[q].seg
<1>1. /\ CacheTypeOK /\ fetch[q].pc = "write" /\ faults' \in Nat /\ spoiled' = spoiled \cup {g}
      /\ fetch' = [fetch EXCEPT ![q].pc = "failed", ![q].obj = 0]
      /\ UNCHANGED <<lru, curByt, disk, whole, sealed, fds, shaken>>
  <2>1. faults \in Nat /\ faults > 0 /\ faults' = faults - 1
    BY DEF CacheInv, FillFails, Fault, CacheTypeOK
  <2>. QED  BY <2>1 DEF CacheInv, FillFails
<1>2. g \in Seg
  BY CallTypes DEF CacheInv
<1>3. /\ fetch' \in [Reader -> Call]
      /\ fetch'[q].pc = "failed" /\ fetch'[q].seg = g /\ fetch'[q].obj = 0
      /\ \A p \in Reader : p # q => fetch'[p] = fetch[p]
  BY <1>1, WriterStep DEF Pcs
<1>4. CacheTypeOK'
  BY <1>1, <1>2, <1>3 DEF CacheTypeOK, Call, Pcs
<1>5. CacheAccounted'
  BY <1>1 DEF CacheInv, CacheAccounted
<1>6. ObjectsApart'
  <2>1. \A h \in Seg, x \in Obj : RefersTo(h, x)' => RefersTo(h, x)
    BY <1>1, <1>3, NoObject DEF RefersTo
  <2>. QED  BY <2>1, ApartStep DEF CacheInv
<1>7. FilesFilled'
  BY <1>1, <1>3 DEF CacheInv, FilesFilled, AtSeal, Stranded, Ids
<1>8. FetchSound'
  BY <1>1, <1>3 DEF CacheInv, FetchSound
<1>9. ReadsFailOnlyWhenShaken'
  BY <1>1, <1>3 DEF CacheInv, ReadsFailOnlyWhenShaken
<1>. QED  BY <1>4, <1>5, <1>6, <1>7, <1>8, <1>9 DEF CacheInv

\* A caller admits the file it wrote: what is gone from the list is gone from
\* the disk, and those who counted on it are shaken.
LEMMA AdmitReadKeeps ==
    ASSUME CacheInv, NEW q \in Reader, AdmitRead(q)
    PROVE  CacheInv'
PROOF
<1>. DEFINE g == fetch[q].seg
<1>1. /\ CacheTypeOK /\ CacheAccounted /\ fetch[q].pc = "admit" /\ Goto(q, "open") /\ Admit(q, g)
      /\ UNCHANGED sealed
  BY DEF CacheInv, AdmitRead
<1>2. g \in Seg /\ \A p \in Reader : fetch[p].seg \in Seg
  BY <1>1 DEF CacheTypeOK
<1>3. /\ lru' \in Seq(Item) /\ curByt' \in Nat /\ CacheAccounted'
      /\ Gone(g) \subseteq Ids \cup {g} /\ Ids' = (Ids \cup {g}) \ Gone(g)
      /\ SizeOf[g] <= MaxByte => g \notin Gone(g)
      /\ disk' = [h \in Seg |-> IF h \in Gone(g) THEN 0 ELSE disk[h]]
      /\ shaken' = [p \in Reader |-> shaken[p] \/ \E h \in Gone(g) : p \in Near(q, h)]
      /\ UNCHANGED <<whole, fds, faults, spoiled>>
  BY <1>1, <1>2, AdmitFacts
<1>4. /\ fetch' \in [Reader -> Call]
      /\ fetch'[q].pc = "open" /\ fetch'[q].seg = g /\ fetch'[q].obj = fetch[q].obj
      /\ \A p \in Reader : p # q => fetch'[p] = fetch[p]
  BY <1>1, GotoStep DEF Pcs
<1>5. /\ shaken' \in [Reader -> BOOLEAN]
      /\ \A p \in Reader : ~shaken'[p] => ~shaken[p] /\ \A h \in Gone(g) : p \notin Near(q, h)
  BY <1>1, <1>3 DEF CacheTypeOK
<1>6. /\ disk' \in [Seg -> {0} \cup Obj]
      /\ \A h \in Seg : h \in Gone(g) => disk'[h] = 0
      /\ \A h \in Seg : h \notin Gone(g) => disk'[h] = disk[h]
  BY <1>1, <1>3 DEF CacheTypeOK
<1>7. CacheTypeOK'
  BY <1>1, <1>3, <1>4, <1>5, <1>6 DEF CacheTypeOK, Call, Pcs, Item
<1>8. ObjectsApart'
  <2>1. \A h \in Seg, o \in Obj : RefersTo(h, o)' => RefersTo(h, o)
    BY <1>3, <1>4, <1>6, NoObject DEF RefersTo
  <2>. QED  BY <2>1, ApartStep DEF CacheInv
<1>9. FilesFilled'
  BY <1>1, <1>3, <1>4, <1>6 DEF CacheInv, FilesFilled, AtSeal, Stranded
<1>10. FetchSound'
  <2>1. ASSUME NEW p \in Reader, p # q, fetch[p].pc \in {"write", "admit", "open"}, ~shaken'[p]
        PROVE  fetch[p].seg \notin Gone(g)
    BY <2>1, <1>5 DEF Near
  <2>2. \A p \in Reader : ~shaken'[p] => ~shaken[p]
    BY <1>5
  <2>. QED  BY <2>1, <2>2, <1>1, <1>2, <1>3, <1>4, <1>6 DEF CacheInv, FetchSound
<1>11. ReadsFailOnlyWhenShaken'
  BY <1>3, <1>4, <1>5 DEF CacheInv, ReadsFailOnlyWhenShaken
<1>. QED  BY <1>3, <1>7, <1>8, <1>9, <1>10, <1>11 DEF CacheInv

\* Seal admits the segment it stored.
LEMMA SealAdmitKeeps ==
    ASSUME CacheInv, NEW g \in Seg, SealAdmit(g)
    PROVE  CacheInv'
PROOF
<1>1. /\ CacheTypeOK /\ CacheAccounted /\ sealed[g] = "put" /\ Admit(NoReader, g)
      /\ sealed' = [sealed EXCEPT ![g] = "done"] /\ UNCHANGED fetch
  BY DEF CacheInv, SealAdmit
<1>2. \A p \in Reader : p # NoReader /\ fetch[p].seg \in Seg
  BY <1>1, DiskCacheAssumption DEF CacheTypeOK
<1>3. /\ lru' \in Seq(Item) /\ curByt' \in Nat /\ CacheAccounted'
      /\ Gone(g) \subseteq Ids \cup {g} /\ Ids' = (Ids \cup {g}) \ Gone(g)
      /\ disk' = [h \in Seg |-> IF h \in Gone(g) THEN 0 ELSE disk[h]]
      /\ shaken' = [p \in Reader |-> shaken[p] \/ \E h \in Gone(g) : p \in Near(NoReader, h)]
      /\ UNCHANGED <<whole, fds, faults, spoiled>>
  BY <1>1, AdmitFacts
<1>4. /\ sealed' \in [Seg -> {"never", "later", "renamed", "put", "stranded", "done"}]
      /\ \A h \in Seg : h # g => sealed'[h] = sealed[h]
  BY <1>1 DEF CacheTypeOK
<1>5. /\ shaken' \in [Reader -> BOOLEAN]
      /\ \A p \in Reader : ~shaken'[p] => ~shaken[p] /\ \A h \in Gone(g) : p \notin Near(NoReader, h)
  BY <1>1, <1>3 DEF CacheTypeOK
<1>6. /\ disk' \in [Seg -> {0} \cup Obj]
      /\ \A h \in Seg : h \in Gone(g) => disk'[h] = 0
      /\ \A h \in Seg : h \notin Gone(g) => disk'[h] = disk[h]
  BY <1>1, <1>3 DEF CacheTypeOK
<1>7. CacheTypeOK'
  BY <1>1, <1>3, <1>4, <1>5, <1>6 DEF CacheTypeOK, Item
<1>8. ObjectsApart'
  <2>1. \A h \in Seg, o \in Obj : RefersTo(h, o)' => RefersTo(h, o)
    BY <1>1, <1>3, <1>6, NoObject DEF RefersTo
  <2>. QED  BY <2>1, ApartStep DEF CacheInv
<1>9. FilesFilled'
  BY <1>1, <1>3, <1>4, <1>6 DEF CacheInv, FilesFilled, AtSeal, Stranded
<1>10. FetchSound'
  <2>1. ASSUME NEW p \in Reader, fetch[p].pc \in {"write", "admit", "open"}, ~shaken'[p]
        PROVE  fetch[p].seg \notin Gone(g)
    BY <2>1, <1>2, <1>5 DEF Near
  <2>2. \A p \in Reader : ~shaken'[p] => ~shaken[p]
    BY <1>5
  <2>. QED  BY <2>1, <2>2, <1>1, <1>2, <1>3, <1>6 DEF CacheInv, FetchSound
<1>11. ReadsFailOnlyWhenShaken'
  BY <1>1, <1>3, <1>5 DEF CacheInv, ReadsFailOnlyWhenShaken
<1>. QED  BY <1>3, <1>7, <1>8, <1>9, <1>10, <1>11 DEF CacheInv

\* Seal renames its file, an object that nobody refers to yet.
LEMMA SealRenameKeeps ==
    ASSUME CacheInv, NEW g \in Seg, SealRename(g)
    PROVE  CacheInv'
PROOF
<1>. DEFINE o == NewObj
<1>1. /\ CacheTypeOK /\ disk' = [disk EXCEPT ![g] = o] /\ whole' = whole \cup {o}
      /\ sealed' = [sealed EXCEPT ![g] = "renamed"]
      /\ UNCHANGED <<lru, curByt, fetch, fds, faults, shaken, spoiled>>
  BY DEF CacheInv, SealRename
<1>2. o \in Obj /\ o # 0 /\ \A h \in Seg : ~RefersTo(h, o)
  BY <1>1, NewObjFacts, NoObject
<1>. HIDE DEF o
<1>3. disk' \in [Seg -> {0} \cup Obj] /\ disk'[g] = o /\ \A h \in Seg : h # g => disk'[h] = disk[h]
  BY <1>1, <1>2 DEF CacheTypeOK
<1>4. /\ sealed' \in [Seg -> {"never", "later", "renamed", "put", "stranded", "done"}] /\ sealed'[g] = "renamed"
      /\ \A h \in Seg : h # g => sealed'[h] = sealed[h]
  BY <1>1 DEF CacheTypeOK
<1>5. CacheTypeOK'
  BY <1>1, <1>2, <1>3, <1>4 DEF CacheTypeOK
<1>6. CacheAccounted'
  BY <1>1 DEF CacheInv, CacheAccounted
<1>7. ObjectsApart'
  <2>1. \A h \in Seg, x \in Obj : RefersTo(h, x)' => RefersTo(h, x) \/ (h = g /\ x = o)
    BY <1>1, <1>3 DEF RefersTo
  <2>. QED  BY <2>1, <1>2 DEF CacheInv, ObjectsApart, Obj
<1>8. FilesFilled'
  BY <1>1, <1>3, <1>4 DEF CacheInv, FilesFilled, AtSeal, Stranded, Ids
<1>9. FetchSound'
  <2>1. \A h \in Seg : disk[h] # 0 => disk'[h] # 0
    BY <1>2, <1>3
  <2>2. \A p \in Reader : fetch[p].seg \in Seg
    BY <1>1 DEF CacheTypeOK
  <2>. QED  BY <2>1, <2>2, <1>1 DEF CacheInv, FetchSound
<1>10. ReadsFailOnlyWhenShaken'
  BY <1>1 DEF CacheInv, ReadsFailOnlyWhenShaken
<1>. QED  BY <1>5, <1>6, <1>7, <1>8, <1>9, <1>10 DEF CacheInv

\* The other steps of Seal before admit leave the files alone: Rename may fail,
\* and the catalog may or may not be written.
LEMMA SealMovesKeeps ==
    ASSUME CacheInv, NEW g \in Seg, SealRenameFails(g) \/ SealPut(g) \/ SealPutFails(g)
    PROVE  CacheInv'
PROOF
<1>1. /\ CacheTypeOK /\ UNCHANGED <<lru, curByt, disk, whole, fetch, fds, shaken, spoiled>>
      /\ faults' = faults \/ (faults > 0 /\ faults' = faults - 1)
      /\ \/ sealed[g] = "later" /\ sealed' = [sealed EXCEPT ![g] = "renamed"]
         \/ sealed[g] = "renamed" /\ sealed' = [sealed EXCEPT ![g] = "put"]
         \/ sealed[g] = "renamed" /\ sealed' = [sealed EXCEPT ![g] = "stranded"]
  BY DEF CacheInv, SealRenameFails, SealPut, SealPutFails, Fault
<1>2. faults' \in Nat
  BY <1>1 DEF CacheTypeOK
<1>3. /\ sealed' \in [Seg -> {"never", "later", "renamed", "put", "stranded", "done"}]
      /\ \A h \in Seg : h # g => sealed'[h] = sealed[h]
      /\ sealed'[g] \in {"renamed", "put", "stranded"}
  BY <1>1 DEF CacheTypeOK
<1>4. CacheTypeOK'
  BY <1>1, <1>2, <1>3 DEF CacheTypeOK
<1>5. CacheAccounted'
  BY <1>1 DEF CacheInv, CacheAccounted
<1>6. ObjectsApart'
  BY <1>1 DEF CacheInv, ObjectsApart, RefersTo, Obj
<1>7. FilesFilled'
  BY <1>1, <1>3 DEF CacheInv, FilesFilled, AtSeal, Stranded, Ids
<1>8. FetchSound' /\ ReadsFailOnlyWhenShaken'
  BY <1>1 DEF CacheInv, FetchSound, ReadsFailOnlyWhenShaken
<1>. QED  BY <1>4, <1>5, <1>6, <1>7, <1>8 DEF CacheInv

\* Open and segment.Open: a file that is there and not being filled by another
\* caller is whole, so only a caller that was shaken fails.
LEMMA OpenKeeps ==
    ASSUME CacheInv, NEW q \in Reader, OpenFile(q)
    PROVE  CacheInv'
PROOF
<1>. DEFINE g == fetch[q].seg
            o == disk[g]
<1>1. /\ CacheTypeOK /\ fetch[q].pc = "open"
      /\ shaken' = [p \in Reader |-> shaken[p] \/ p \in (IF Filling(q, o) # {} THEN {q} ELSE {})]
      /\ UNCHANGED <<lru, curByt, disk, whole, sealed, faults, spoiled>>
  BY DEF CacheInv, OpenFile, Shake
<1>2. g \in Seg /\ fetch[q].obj = 0
  BY <1>1 DEF CacheInv, CacheTypeOK, FetchSound
<1>3. PICK to \in {"ready", "failed"} :
        /\ Goto(q, to)
        /\ to = "ready" => o \in whole /\ fds' = [fds EXCEPT ![q][g] = o]
        /\ to = "failed" => o \notin whole /\ fds' = fds
  BY DEF OpenFile, Sealed
<1>4. /\ fetch' \in [Reader -> Call]
      /\ fetch'[q].pc = to /\ fetch'[q].seg = g /\ fetch'[q].obj = 0
      /\ \A p \in Reader : p # q => fetch'[p] = fetch[p]
  BY <1>1, <1>2, <1>3, GotoStep DEF Pcs
<1>5. /\ shaken' \in [Reader -> BOOLEAN]
      /\ \A p \in Reader : ~shaken'[p] => ~shaken[p]
      /\ ~shaken'[q] => Filling(q, o) = {}
      /\ \A p \in Reader : p # q => shaken'[p] = shaken[p]
  BY <1>1 DEF CacheTypeOK
<1>6. /\ fds' \in [Reader -> [Seg -> {0} \cup Obj]]
      /\ \A p \in Reader, h \in Seg : fds'[p][h] = fds[p][h] \/ (p = q /\ h = g /\ fds'[p][h] = o /\ o \in whole)
      /\ \A p \in Reader, h \in Seg : p # q => fds'[p][h] = fds[p][h]
  <2>1. fds \in [Reader -> [Seg -> {0} \cup Obj]] /\ whole \subseteq Obj
    BY <1>1 DEF CacheTypeOK
  <2>2. CASE to = "ready"
    BY <2>1, <2>2, <1>2, <1>3
  <2>3. CASE to = "failed"
    BY <2>1, <2>3, <1>3
  <2>. QED  BY <2>2, <2>3
<1>7. CacheTypeOK'
  BY <1>1, <1>4, <1>5, <1>6 DEF CacheTypeOK, Call, Pcs
<1>8. CacheAccounted'
  BY <1>1 DEF CacheInv, CacheAccounted
<1>9. ObjectsApart'
  <2>1. \A h \in Seg, x \in Obj : RefersTo(h, x)' => RefersTo(h, x)
    BY <1>1, <1>2, <1>4, <1>6, NoObject DEF RefersTo
  <2>. QED  BY <2>1, ApartStep DEF CacheInv
<1>10. FilesFilled'
  BY <1>1, <1>4 DEF CacheInv, FilesFilled, AtSeal, Stranded, Ids
<1>11. FetchSound'
  <2>1. \A p \in Reader : fetch[p].seg \in Seg
    BY <1>1 DEF CacheTypeOK
  <2>. QED  BY <2>1, <1>1, <1>3, <1>4, <1>5, <1>6 DEF CacheInv, FetchSound
<1>12. ReadsFailOnlyWhenShaken'
  <2>1. ASSUME to = "failed", ~shaken'[q], g \notin spoiled, SizeOf[g] <= MaxByte  PROVE FALSE
    <3>1. o # 0 /\ o \notin whole
      BY <2>1, <1>1, <1>3, <1>5 DEF CacheInv, FetchSound
    <3>2. PICK p \in Reader : fetch[p].pc = "write" /\ fetch[p].obj = o
      BY <2>1, <3>1, <1>2 DEF CacheInv, FilesFilled, AtSeal, Stranded
    <3>3. p \in Filling(q, o)
      BY <3>2, <1>1 DEF Filling
    <3>. QED  BY <3>3, <2>1, <1>5
  <2>2. SizeOf[g] \in Nat /\ MaxByte \in Nat
    BY <1>2, DiskCacheAssumption
  <2>3. fetch'[q].pc = "failed" => shaken'[q] \/ g \in spoiled \/ SizeOf[g] > MaxByte
    BY <2>1, <2>2, <1>4
  <2>4. \A p \in Reader, h \in Seg : fds'[p][h] # 0 /\ ~shaken'[p] => fds'[p][h] \in whole
    BY <1>5, <1>6 DEF CacheInv, ReadsFailOnlyWhenShaken
  <2>. QED  BY <2>3, <2>4, <1>1, <1>4, <1>5 DEF CacheInv, ReadsFailOnlyWhenShaken
<1>. QED  BY <1>7, <1>8, <1>9, <1>10, <1>11, <1>12 DEF CacheInv

\* The caller goes on with what it has open.
LEMMA TakeKeeps ==
    ASSUME CacheInv, NEW q \in Reader, Take(q)
    PROVE  CacheInv'
PROOF
<1>1. /\ CacheTypeOK /\ fetch[q].pc = "ready" /\ fetch' = [fetch EXCEPT ![q] = Idle]
      /\ UNCHANGED <<lru, curByt, disk, whole, sealed, fds, faults, shaken, spoiled>>
  BY DEF CacheInv, Take
<1>2. fetch' \in [Reader -> Call] /\ fetch'[q] = Idle /\ \A p \in Reader : p # q => fetch'[p] = fetch[p]
  BY <1>1, IdleFacts, CallStep
<1>3. CacheTypeOK'
  BY <1>1, <1>2 DEF CacheTypeOK, Call, Pcs
<1>4. CacheAccounted'
  BY <1>1 DEF CacheInv, CacheAccounted
<1>5. ObjectsApart'
  <2>1. \A h \in Seg, o \in Obj : RefersTo(h, o)' => RefersTo(h, o)
    BY <1>1, <1>2, IdleFacts, NoObject DEF RefersTo
  <2>. QED  BY <2>1, ApartStep DEF CacheInv
<1>6. FilesFilled'
  BY <1>1, <1>2 DEF CacheInv, FilesFilled, AtSeal, Stranded, Ids
<1>7. FetchSound'
  BY <1>1, <1>2, IdleFacts DEF CacheInv, FetchSound
<1>8. ReadsFailOnlyWhenShaken'
  BY <1>1, <1>2, IdleFacts DEF CacheInv, ReadsFailOnlyWhenShaken
<1>. QED  BY <1>3, <1>4, <1>5, <1>6, <1>7, <1>8 DEF CacheInv

\* The caller closes its files.
LEMMA ReleaseKeeps ==
    ASSUME CacheInv, NEW q \in Reader, Release(q)
    PROVE  CacheInv'
PROOF
<1>1. /\ CacheTypeOK /\ fetch[q].pc \in {"idle", "failed"} /\ fetch' = [fetch EXCEPT ![q] = Idle]
      /\ fds' = [fds EXCEPT ![q] = [g \in Seg |-> 0]]
      /\ UNCHANGED <<lru, curByt, disk, whole, sealed, faults, shaken, spoiled>>
  BY DEF CacheInv, Release
<1>2. fetch' \in [Reader -> Call] /\ fetch'[q] = Idle /\ \A p \in Reader : p # q => fetch'[p] = fetch[p]
  BY <1>1, IdleFacts, CallStep
<1>3. /\ fds' \in [Reader -> [Seg -> {0} \cup Obj]]
      /\ \A h \in Seg : fds'[q][h] = 0
      /\ \A p \in Reader : p # q => fds'[p] = fds[p]
  BY <1>1 DEF CacheTypeOK
<1>4. CacheTypeOK'
  BY <1>1, <1>2, <1>3 DEF CacheTypeOK, Call, Pcs
<1>5. CacheAccounted'
  BY <1>1 DEF CacheInv, CacheAccounted
<1>6. ObjectsApart'
  <2>1. \A h \in Seg, o \in Obj : RefersTo(h, o)' => RefersTo(h, o)
    BY <1>1, <1>2, <1>3, IdleFacts, NoObject DEF RefersTo
  <2>. QED  BY <2>1, ApartStep DEF CacheInv
<1>7. FilesFilled'
  BY <1>1, <1>2 DEF CacheInv, FilesFilled, AtSeal, Stranded, Ids
<1>8. FetchSound'
  BY <1>1, <1>2, <1>3, IdleFacts DEF CacheInv, FetchSound
<1>9. ReadsFailOnlyWhenShaken'
  BY <1>1, <1>2, <1>3, IdleFacts DEF CacheInv, ReadsFailOnlyWhenShaken
<1>. QED  BY <1>4, <1>5, <1>6, <1>7, <1>8, <1>9 DEF CacheInv

-----------------------------------------------------------------------------
(* The theorems.                                                           *)

\* Every step of the cache and its callers keeps the invariant.
LEMMA CacheStepKeeps ==
    ASSUME CacheInv, [CacheNext]_cacheVars
    PROVE  CacheInv'
PROOF
<1>1. CASE SealStep
  BY <1>1, SealRenameKeeps, SealMovesKeeps, SealAdmitKeeps DEF SealStep
<1>2. ASSUME NEW q \in Reader, CacheStep(q)  PROVE CacheInv'
  BY <1>2, LookupKeeps, CreateKeeps, GetFailsKeeps, FillKeeps, FillFailsKeeps, AdmitReadKeeps, OpenKeeps
     DEF CacheStep
<1>3. ASSUME NEW q \in Reader, CallerStep(q)  PROVE CacheInv'
  BY <1>3, AskKeeps, TakeKeeps, ReleaseKeeps DEF CallerStep
<1>4. CASE UNCHANGED cacheVars
  <2>1. UNCHANGED <<lru, curByt, disk, whole, sealed, fetch, fds, faults, shaken, spoiled>>
    BY <1>4 DEF cacheVars
  <2>2. CacheTypeOK' /\ CacheAccounted'
    BY <2>1 DEF CacheInv, CacheTypeOK, CacheAccounted
  <2>3. ObjectsApart'
    BY <2>1 DEF CacheInv, ObjectsApart, RefersTo, Obj
  <2>4. FilesFilled'
    BY <2>1 DEF CacheInv, FilesFilled, AtSeal, Stranded, Ids
  <2>5. FetchSound' /\ ReadsFailOnlyWhenShaken'
    BY <2>1 DEF CacheInv, FetchSound, ReadsFailOnlyWhenShaken
  <2>. QED  BY <2>2, <2>3, <2>4, <2>5 DEF CacheInv
<1>. QED  BY <1>1, <1>2, <1>3, <1>4 DEF CacheNext

\* The invariant of the cache holds for any segments and sizes, any cap and any
\* number of callers and faults (cache.go, ensureLocal, Seal).
THEOREM CacheInvariant == CacheSpec => []CacheInv
PROOF
<1>1. CacheStart => CacheInv
  BY CacheInitInv
<1>2. CacheInv /\ [CacheNext]_cacheVars => CacheInv'
  BY CacheStepKeeps
<1>. QED  BY <1>1, <1>2, PTL DEF CacheSpec

\* The bytes the cache counts are those of its entries, each segment once, and
\* never more than the cap, however callers and seals admit over each other.
THEOREM CacheAlwaysAccounted == CacheSpec => []CacheAccounted
PROOF
<1>1. CacheInv => CacheAccounted
  BY DEF CacheInv
<1>. QED  BY <1>1, CacheInvariant, PTL

\* With no download and no seal under way every file is whole and counted, except
\* what a download that could not be written or a failed catalog left behind.
THEOREM CacheAlwaysSettles == CacheSpec => []CacheSettled
PROOF
<1>1. CacheInv => CacheSettled
  BY DEF CacheInv, CacheSettled, FilesFilled, AtSeal, Stranded
<1>. QED  BY <1>1, CacheInvariant, PTL

\* A reader fails, and an open file is cut, only for one of the stated reasons.
THEOREM ReadsAlwaysExplained == CacheSpec => []ReadsFailOnlyWhenShaken
PROOF
<1>1. CacheInv => ReadsFailOnlyWhenShaken
  BY DEF CacheInv
<1>. QED  BY <1>1, CacheInvariant, PTL
=============================================================================
