----------------------------- MODULE DataLemmas -----------------------------
(***************************************************************************)
(* What the models' operators on data compute: maxima over sets of         *)
(* offsets, and the loops of module Seqs.  The library's induction         *)
(* theorems range over operators; here induction and recursion are stated  *)
(* over sets and functions, where a citation needs no such instance.       *)
(***************************************************************************)
EXTENDS Seqs, FiniteSetsExt, WellFoundedInduction, TLAPS

-----------------------------------------------------------------------------
(* Maxima.                                                                 *)

\* A non-empty set of numbers up to a bound has a greatest element: this is
\* what makes the maxima over offsets (SourceWatermarks, maxOff) meaningful.
LEMMA GreatestExists ==
    ASSUME NEW N \in Nat, NEW S \in SUBSET (0 .. N), S # {}
    PROVE  \E x \in S : \A y \in S : x >= y
PROOF
<1> DEFINE T == {N - x : x \in S}
<1>1. T \subseteq Nat /\ T # {}
  <2>1. PICK e \in S : TRUE
    OBVIOUS
  <2>2. N - e \in T
    BY <2>1
  <2>3. \A x \in S : N - x \in Nat
    OBVIOUS
  <2>. QED  BY <2>2, <2>3
<1>2. PICK t \in T : \A u \in T : ~(<<u, t>> \in OpToRel(<, Nat))
  <2>. HIDE DEF T
  <2>. QED  BY <1>1, WFMin, NatLessThanWellFounded
<1>3. \A u \in T : u >= t
  <2>1. \A u \in T : ~(u < t)
    BY <1>1, <1>2 DEF OpToRel
  <2>. QED  BY <2>1, <1>1
<1>4. PICK x \in S : t = N - x
  OBVIOUS
<1>5. \A y \in S : x >= y
  BY <1>3, <1>4
<1>. QED  BY <1>5

\* Max returns that element.
LEMMA MaxIsGreatest ==
    ASSUME NEW N \in Nat, NEW S \in SUBSET (0 .. N), S # {}
    PROVE  Max(S) \in S /\ \A y \in S : Max(S) >= y
BY GreatestExists DEF Max

\* The maximum of two, as Spool.Seal and Checkpoint.Advance take it.
LEMMA MaxOfTwo ==
    ASSUME NEW a \in Nat, NEW b \in Nat
    PROVE  /\ Max({a, b}) \in {a, b}
           /\ Max({a, b}) >= a
           /\ Max({a, b}) >= b
PROOF
<1>1. \E x \in {a, b} : \A y \in {a, b} : x >= y
  <2>1. CASE a >= b
    BY <2>1
  <2>2. CASE b >= a
    BY <2>2
  <2>. QED  BY <2>1, <2>2
<1>. QED  BY <1>1 DEF Max

-----------------------------------------------------------------------------
(* Induction over an interval, and recursive definitions on one.           *)

\* A set that holds 0 and, with i - 1, also i holds the whole interval.
LEMMA IntervalInduction ==
    ASSUME NEW n \in Nat, NEW T, 0 \in T, \A i \in 1 .. n : i - 1 \in T => i \in T
    PROVE  \A i \in 0 .. n : i \in T
PROOF
<1>. DEFINE B == {i \in 0 .. n : i \notin T}
<1>. SUFFICES ASSUME B # {}  PROVE FALSE
  OBVIOUS
<1>1. B \subseteq Nat
  OBVIOUS
<1>2. PICK x \in B : \A y \in B : ~(<<y, x>> \in OpToRel(<, Nat))
  <2>. HIDE DEF B
  <2>. QED  BY <1>1, WFMin, NatLessThanWellFounded
<1>3. \A y \in B : ~(y < x)
    BY <1>1, <1>2 DEF OpToRel
<1>. QED  BY <1>3

\* f is computed by n steps from v0.
Iterates(V, n, v0, step, f) ==
    f \in [0 .. n -> V] /\ f[0] = v0 /\ \A i \in 1 .. n : f[i] = step[i][f[i - 1]]

\* A computation of n steps exists.
LEMMA RecursionExists ==
    ASSUME NEW V, NEW n \in Nat, NEW v0 \in V, NEW step \in [1 .. n -> [V -> V]]
    PROVE  \E f : Iterates(V, n, v0, step, f)
PROOF
<1>. DEFINE P(m) == \E f : Iterates(V, m, v0, step, f)
            T == {m \in 0 .. n : P(m)}
<1>1. P(0)
  <2>. DEFINE g == [i \in 0 .. 0 |-> v0]
  <2>1. g \in [0 .. 0 -> V] /\ g[0] = v0 /\ \A i \in 1 .. 0 : g[i] = step[i][g[i - 1]]
    OBVIOUS
  <2>2. Iterates(V, 0, v0, step, g)
    BY <2>1 DEF Iterates
  <2>. QED  BY <2>2
<1>2. ASSUME NEW m \in 1 .. n, P(m - 1)  PROVE P(m)
  <2>1. PICK f : Iterates(V, m - 1, v0, step, f)
    BY <1>2
  <2>. DEFINE g == [i \in 0 .. m |-> IF i = m THEN step[m][f[m - 1]] ELSE f[i]]
  <2>2. g \in [0 .. m -> V]
    BY <2>1 DEF Iterates
  <2>3. g[0] = v0
    BY <2>1 DEF Iterates
  <2>4. ASSUME NEW i \in 1 .. m  PROVE g[i] = step[i][g[i - 1]]
    BY <2>1 DEF Iterates
  <2>5. Iterates(V, m, v0, step, g)
    BY <2>2, <2>3, <2>4 DEF Iterates
  <2>. QED  BY <2>5
<1>3. 0 \in T
  BY <1>1
<1>4. ASSUME NEW m \in 1 .. n, m - 1 \in T  PROVE m \in T
  <2>1. P(m - 1)
    BY <1>4
  <2>2. P(m)
    BY <2>1, <1>2
  <2>. HIDE DEF P
  <2>. QED  BY <2>2
<1>5. n \in T
  <2>. HIDE DEF T
  <2>1. \A i \in 0 .. n : i \in T
    BY <1>3, <1>4, IntervalInduction
  <2>. QED  BY <2>1
<1>. QED  BY <1>5

-----------------------------------------------------------------------------
(* Sequences.                                                              *)

\* Sequences of one length with the same elements are the same.
LEMMA SameSeq ==
    ASSUME NEW S, NEW s \in Seq(S), NEW t \in Seq(S), Len(s) = Len(t),
           \A i \in 1 .. Len(s) : s[i] = t[i]
    PROVE  s = t
PROOF
<1>1. s \in [1 .. Len(s) -> S] /\ t \in [1 .. Len(s) -> S]
  OBVIOUS
<1>. QED  BY <1>1

-----------------------------------------------------------------------------
(* Keeping part of a sequence.                                              *)

\* KeptUpTo is computed by one pass over the sequence.
LEMMA KeptRecursion ==
    ASSUME NEW S, NEW s \in Seq(S), NEW T
    PROVE  LET k == KeptUpTo(s, T) IN
           /\ k \in [0 .. Len(s) -> Seq(S)]
           /\ k[0] = <<>>
           /\ \A i \in 1 .. Len(s) : k[i] = IF i \in T THEN Append(k[i - 1], s[i]) ELSE k[i - 1]
PROOF
<1>. DEFINE step == [i \in 1 .. Len(s) |-> [v \in Seq(S) |-> IF i \in T THEN Append(v, s[i]) ELSE v]]
            Body(k) == [i \in 0 .. Len(s) |->
                IF i = 0 THEN <<>>
                ELSE IF i \in T THEN Append(k[i - 1], s[i]) ELSE k[i - 1]]
<1>1. step \in [1 .. Len(s) -> [Seq(S) -> Seq(S)]]
  OBVIOUS
<1>2. <<>> \in Seq(S) /\ Len(s) \in Nat
  OBVIOUS
<1>3. PICK f : Iterates(Seq(S), Len(s), <<>>, step, f)
  <2>. HIDE DEF step
  <2>. QED  BY <1>1, <1>2, RecursionExists
<1>4. f = Body(f)
  <2>1. \A i \in 1 .. Len(s) : f[i - 1] \in Seq(S) /\ f[i] = step[i][f[i - 1]]
    <3>. HIDE DEF step
    <3>. QED  BY <1>2, <1>3 DEF Iterates
  <2>2. \A i \in 1 .. Len(s) : f[i] = IF i \in T THEN Append(f[i - 1], s[i]) ELSE f[i - 1]
    BY <2>1
  <2>3. f = [i \in 0 .. Len(s) |-> f[i]] /\ f[0] = <<>>
    BY <1>3 DEF Iterates
  <2>. QED  BY <2>2, <2>3
<1>. DEFINE k == KeptUpTo(s, T)
<1>5. k = Body(k)
  <2>1. k = CHOOSE g : g = Body(g)
    BY DEF KeptUpTo
  <2>. HIDE DEF Body
  <2>. QED  BY <1>4, <2>1
<1>. HIDE DEF k
<1>6. /\ k = [i \in 0 .. Len(s) |-> k[i]]
      /\ k[0] = <<>>
      /\ \A i \in 1 .. Len(s) : k[i] = IF i \in T THEN Append(k[i - 1], s[i]) ELSE k[i - 1]
  <2>1. \A i \in 0 .. Len(s) : k[i] = IF i = 0 THEN <<>>
                ELSE IF i \in T THEN Append(k[i - 1], s[i]) ELSE k[i - 1]
    BY <1>5
  <2>2. k = [i \in 0 .. Len(s) |-> k[i]]
    BY <1>5
  <2>. QED  BY <1>2, <2>1, <2>2
<1>. DEFINE N == {i \in 0 .. Len(s) : k[i] \in Seq(S)}
<1>7. 0 \in N
  BY <1>6
<1>8. ASSUME NEW i \in 1 .. Len(s), i - 1 \in N  PROVE i \in N
  <2>1. k[i - 1] \in Seq(S) /\ s[i] \in S
    BY <1>8
  <2>2. k[i] = Append(k[i - 1], s[i]) \/ k[i] = k[i - 1]
    BY <1>6
  <2>3. Append(k[i - 1], s[i]) \in Seq(S)
    BY <2>1
  <2>4. k[i] \in Seq(S)
    BY <2>1, <2>2, <2>3, Zenon
  <2>. QED  BY <2>4
<1>9. \A i \in 0 .. Len(s) : i \in N
  <2>. HIDE DEF N
  <2>. QED  BY <1>2, <1>7, <1>8, IntervalInduction
<1>. QED  BY <1>6, <1>9 DEF k

\* k consists of the elements of s at the indices of T up to n, in their order:
\* m says where each of them comes from.
Picks(s, T, n, k, m) ==
    /\ m \in [1 .. Len(k) -> 1 .. n]
    /\ \A j \in 1 .. Len(k) : m[j] \in T /\ k[j] = s[m[j]]
    /\ \A i, j \in 1 .. Len(k) : i < j => m[i] < m[j]
    /\ \A t \in 1 .. n : t \in T => \E j \in 1 .. Len(k) : m[j] = t

\* KeepAt keeps exactly the elements it should, in their order.
LEMMA KeepAtFacts ==
    ASSUME NEW S, NEW s \in Seq(S), NEW T
    PROVE  /\ KeepAt(s, T) \in Seq(S)
           /\ \E m : Picks(s, T, Len(s), KeepAt(s, T), m)
PROOF
<1>. DEFINE k == KeptUpTo(s, T)
            N == {n \in 0 .. Len(s) : \E m : Picks(s, T, n, k[n], m)}
<1>1. /\ k \in [0 .. Len(s) -> Seq(S)]
      /\ k[0] = <<>>
      /\ \A i \in 1 .. Len(s) : k[i] = IF i \in T THEN Append(k[i - 1], s[i]) ELSE k[i - 1]
  BY KeptRecursion
<1>2. Len(s) \in Nat
  OBVIOUS
<1>. HIDE DEF k
<1>3. 0 \in N
  <2>1. Picks(s, T, 0, k[0], <<>>)
    BY <1>1 DEF Picks
  <2>. QED  BY <2>1
<1>4. ASSUME NEW n \in 1 .. Len(s), n - 1 \in N  PROVE n \in N
  <2>1. PICK m : Picks(s, T, n - 1, k[n - 1], m)
    BY <1>4
  <2>2. k[n - 1] \in Seq(S) /\ s[n] \in S /\ Len(k[n - 1]) \in Nat
    BY <1>1
  <2>3. CASE n \notin T
    <3>1. k[n] = k[n - 1]
      BY <1>1, <2>3
    <3>2. Picks(s, T, n, k[n], m)
      BY <2>1, <2>2, <2>3, <3>1 DEF Picks
    <3>. QED  BY <3>2
  <2>4. CASE n \in T
    <3>. DEFINE l == Len(k[n - 1])
    <3>0. l \in Nat /\ \A j \in 1 .. l : m[j] \in 1 .. n - 1
      BY <2>1, <2>2 DEF Picks
    <3>. DEFINE p == [j \in 1 .. l + 1 |-> IF j = l + 1 THEN n ELSE m[j]]
    <3>1. k[n] = Append(k[n - 1], s[n])
      BY <1>1, <2>4
    <3>2. /\ Len(k[n]) = l + 1
          /\ k[n][l + 1] = s[n]
          /\ \A j \in 1 .. l : k[n][j] = k[n - 1][j]
      BY <3>1, <2>2
    <3>3. p \in [1 .. l + 1 -> 1 .. n]
      BY <2>1, <2>2 DEF Picks
    <3>4. ASSUME NEW j \in 1 .. l + 1  PROVE p[j] \in T /\ k[n][j] = s[p[j]]
      <4>1. \A i \in 1 .. l : m[i] \in T /\ k[n - 1][i] = s[m[i]]
        BY <2>1 DEF Picks
      <4>. HIDE DEF l
      <4>2. CASE j = l + 1
        BY <2>4, <3>2, <4>2
      <4>3. CASE j # l + 1
        <5>1. j \in 1 .. l /\ p[j] = m[j]
          BY <3>0, <4>3
        <5>. QED  BY <3>2, <4>1, <5>1
      <4>. QED  BY <4>2, <4>3
    <3>5. \A i, j \in 1 .. l + 1 : i < j => p[i] < p[j]
      <4>1. \A i, j \in 1 .. l : i < j => m[i] < m[j]
        BY <2>1 DEF Picks
      <4>. HIDE DEF l
      <4>. SUFFICES ASSUME NEW i \in 1 .. l + 1, NEW j \in 1 .. l + 1, i < j  PROVE p[i] < p[j]
        OBVIOUS
      <4>2. i \in 1 .. l /\ p[i] = m[i]
        BY <3>0
      <4>3. CASE j = l + 1
        BY <3>0, <4>2, <4>3
      <4>4. CASE j # l + 1
        <5>1. j \in 1 .. l /\ p[j] = m[j]
          BY <3>0, <4>4
        <5>. QED  BY <4>1, <4>2, <5>1
      <4>. QED  BY <4>3, <4>4
    <3>6. \A t \in 1 .. n : t \in T => \E j \in 1 .. l + 1 : p[j] = t
      <4>. SUFFICES ASSUME NEW t \in 1 .. n, t \in T  PROVE \E j \in 1 .. l + 1 : p[j] = t
        OBVIOUS
      <4>1. CASE t = n
        <5>. HIDE DEF l
        <5>1. l + 1 \in 1 .. l + 1 /\ p[l + 1] = n
          BY <3>0
        <5>. QED  BY <4>1, <5>1
      <4>2. CASE t # n
        <5>1. PICK j \in 1 .. l : m[j] = t
          BY <4>2, <2>1 DEF Picks
        <5>. HIDE DEF l
        <5>2. j \in 1 .. l + 1 /\ p[j] = t
          BY <5>1, <3>0
        <5>. QED  BY <5>2
      <4>. QED  BY <4>1, <4>2
    <3>7. Picks(s, T, n, k[n], p)
      <4>. HIDE DEF p
      <4>. QED  BY <3>2, <3>3, <3>4, <3>5, <3>6 DEF Picks
    <3>. QED  BY <3>7
  <2>. QED  BY <2>3, <2>4
<1>5. \A n \in 0 .. Len(s) : n \in N
  <2>. HIDE DEF N
  <2>. QED  BY <1>2, <1>3, <1>4, IntervalInduction
<1>. QED  BY <1>1, <1>2, <1>5 DEF k, KeepAt

-----------------------------------------------------------------------------
(* Sums.                                                                   *)

\* TotalUpTo is computed by one pass over the sequence.
LEMMA TotalRecursion ==
    ASSUME NEW f \in Seq(Int)
    PROVE  LET k == TotalUpTo(f) IN
           /\ k \in [0 .. Len(f) -> Int]
           /\ k[0] = 0
           /\ \A i \in 1 .. Len(f) : k[i] = k[i - 1] + f[i]
PROOF
<1>. DEFINE step == [i \in 1 .. Len(f) |-> [v \in Int |-> v + f[i]]]
            Body(g) == [i \in 0 .. Len(f) |-> IF i = 0 THEN 0 ELSE g[i - 1] + f[i]]
<1>1. step \in [1 .. Len(f) -> [Int -> Int]]
  OBVIOUS
<1>2. 0 \in Int /\ Len(f) \in Nat
  OBVIOUS
<1>3. PICK h : Iterates(Int, Len(f), 0, step, h)
  <2>. HIDE DEF step
  <2>. QED  BY <1>1, <1>2, RecursionExists
<1>4. h = Body(h)
  <2>1. \A i \in 1 .. Len(f) : h[i - 1] \in Int /\ h[i] = step[i][h[i - 1]]
    <3>. HIDE DEF step
    <3>. QED  BY <1>2, <1>3 DEF Iterates
  <2>2. \A i \in 1 .. Len(f) : h[i] = h[i - 1] + f[i]
    BY <2>1
  <2>3. h \in [0 .. Len(f) -> Int] /\ h[0] = 0
    BY <1>3 DEF Iterates
  <2>4. \A i \in 0 .. Len(f) : h[i] = IF i = 0 THEN 0 ELSE h[i - 1] + f[i]
    BY <2>2, <2>3
  <2>. QED  BY <2>3, <2>4
<1>. DEFINE k == TotalUpTo(f)
<1>5. k = Body(k)
  <2>1. k = CHOOSE g : g = Body(g)
    BY DEF TotalUpTo
  <2>. HIDE DEF Body
  <2>. QED  BY <1>4, <2>1
<1>. HIDE DEF k
<1>6. /\ k = [i \in 0 .. Len(f) |-> k[i]]
      /\ k[0] = 0
      /\ \A i \in 1 .. Len(f) : k[i] = k[i - 1] + f[i]
  <2>1. \A i \in 0 .. Len(f) : k[i] = IF i = 0 THEN 0 ELSE k[i - 1] + f[i]
    BY <1>5
  <2>2. k = [i \in 0 .. Len(f) |-> k[i]]
    BY <1>5
  <2>. QED  BY <1>2, <2>1, <2>2
<1>. DEFINE N == {i \in 0 .. Len(f) : k[i] \in Int}
<1>7. 0 \in N
  BY <1>6
<1>8. ASSUME NEW i \in 1 .. Len(f), i - 1 \in N  PROVE i \in N
  <2>1. k[i - 1] \in Int /\ f[i] \in Int
    BY <1>8
  <2>2. k[i] = k[i - 1] + f[i]
    BY <1>6
  <2>. QED  BY <2>1, <2>2
<1>9. \A i \in 0 .. Len(f) : i \in N
  <2>. HIDE DEF N
  <2>. QED  BY <1>2, <1>7, <1>8, IntervalInduction
<1>. QED  BY <1>6, <1>9 DEF k

\* The sum over a prefix depends on the prefix alone.
LEMMA TotalPrefix ==
    ASSUME NEW f \in Seq(Int), NEW g \in Seq(Int), NEW n \in Nat, n <= Len(f), n <= Len(g),
           \A i \in 1 .. n : f[i] = g[i]
    PROVE  TotalUpTo(f)[n] = TotalUpTo(g)[n]
PROOF
<1>. DEFINE k == TotalUpTo(f)
            l == TotalUpTo(g)
            N == {i \in 0 .. n : k[i] = l[i]}
<1>1. k[0] = 0 /\ \A i \in 1 .. n : k[i] = k[i - 1] + f[i]
  BY TotalRecursion
<1>2. l[0] = 0 /\ \A i \in 1 .. n : l[i] = l[i - 1] + g[i]
  BY TotalRecursion
<1>. HIDE DEF k, l
<1>3. 0 \in N
  BY <1>1, <1>2
<1>4. ASSUME NEW i \in 1 .. n, i - 1 \in N  PROVE i \in N
  <2>1. k[i - 1] = l[i - 1]
    BY <1>4
  <2>2. k[i] = l[i]
    BY <2>1, <1>1, <1>2
  <2>. QED  BY <2>2
<1>5. \A i \in 0 .. n : i \in N
  <2>. HIDE DEF N
  <2>. QED  BY <1>3, <1>4, IntervalInduction
<1>. QED  BY <1>5 DEF k, l

\* A sum is a number, and one of naturals is a natural.
LEMMA TotalType ==
    ASSUME NEW f \in Seq(Nat)
    PROVE  Total(f) \in Nat
PROOF
<1>. DEFINE k == TotalUpTo(f)
            N == {i \in 0 .. Len(f) : k[i] \in Nat}
<1>1. f \in Seq(Int) /\ Len(f) \in Nat
  OBVIOUS
<1>2. k[0] = 0 /\ \A i \in 1 .. Len(f) : k[i] = k[i - 1] + f[i]
  BY <1>1, TotalRecursion
<1>. HIDE DEF k
<1>3. 0 \in N
  BY <1>1, <1>2
<1>4. ASSUME NEW i \in 1 .. Len(f), i - 1 \in N  PROVE i \in N
  <2>1. k[i - 1] \in Nat /\ f[i] \in Nat
    BY <1>4
  <2>2. k[i] = k[i - 1] + f[i]
    BY <1>2
  <2>. QED  BY <2>1, <2>2
<1>5. \A i \in 0 .. Len(f) : i \in N
  <2>. HIDE DEF N
  <2>. QED  BY <1>1, <1>3, <1>4, IntervalInduction
<1>. QED  BY <1>1, <1>5 DEF k, Total

\* Nothing sums up to 0.
LEMMA TotalEmpty == Total(<<>>) = 0
PROOF
<1>1. <<>> \in Seq(Int) /\ Len(<<>>) = 0
  OBVIOUS
<1>. QED  BY <1>1, TotalRecursion DEF Total

\* One number more adds that number.
LEMMA TotalAppend ==
    ASSUME NEW f \in Seq(Int), NEW x \in Int
    PROVE  Total(Append(f, x)) = Total(f) + x
PROOF
<1>. DEFINE g == Append(f, x)
<1>1. g \in Seq(Int) /\ Len(g) = Len(f) + 1 /\ g[Len(f) + 1] = x /\ \A i \in 1 .. Len(f) : f[i] = g[i]
  OBVIOUS
<1>2. Len(f) \in Nat
  OBVIOUS
<1>. HIDE DEF g
<1>3. TotalUpTo(f)[Len(f)] = TotalUpTo(g)[Len(f)]
  <2>1. Len(f) <= Len(f) /\ Len(f) <= Len(g)
    BY <1>1, <1>2
  <2>. QED  BY <1>1, <1>2, <2>1, TotalPrefix
<1>4. TotalUpTo(g)[Len(f) + 1] = TotalUpTo(g)[Len(f)] + g[Len(f) + 1]
  <2>1. \A i \in 1 .. Len(g) : TotalUpTo(g)[i] = TotalUpTo(g)[i - 1] + g[i]
    BY <1>1, TotalRecursion
  <2>. QED  BY <2>1, <1>1, <1>2
<1>. QED  BY <1>1, <1>3, <1>4 DEF g, Total

\* The sum of the rest is the sum without the first number.
LEMMA TotalTail ==
    ASSUME NEW f \in Seq(Int), f # <<>>
    PROVE  Total(Tail(f)) = Total(f) - Head(f)
PROOF
<1>. DEFINE g == Tail(f)
            n == Len(g)
            k == TotalUpTo(f)
            l == TotalUpTo(g)
            N == {i \in 0 .. n : l[i] = k[i + 1] - f[1]}
<1>1. g \in Seq(Int) /\ n \in Nat /\ Len(f) = n + 1 /\ f[1] = Head(f) /\ f[1] \in Int
  OBVIOUS
<1>2. \A i \in 1 .. n : g[i] = f[i + 1] /\ f[i + 1] \in Int
  OBVIOUS
<1>. HIDE DEF g, n
<1>3. k \in [0 .. n + 1 -> Int] /\ k[0] = 0 /\ \A i \in 1 .. n + 1 : k[i] = k[i - 1] + f[i]
  BY <1>1, TotalRecursion
<1>4. l[0] = 0 /\ \A i \in 1 .. n : l[i] = l[i - 1] + g[i]
  BY <1>1, TotalRecursion DEF n
<1>. HIDE DEF k, l
<1>5. 0 \in N
  BY <1>1, <1>3, <1>4
<1>6. ASSUME NEW i \in 1 .. n, i - 1 \in N  PROVE i \in N
  <2>1. l[i - 1] = k[i] - f[1]
    BY <1>6, <1>1
  <2>2. l[i] = l[i - 1] + f[i + 1]
    BY <1>2, <1>4
  <2>3. k[i + 1] = k[i] + f[i + 1] /\ k[i] \in Int
    <3>1. i + 1 \in 1 .. n + 1 /\ i \in 0 .. n + 1 /\ (i + 1) - 1 = i
      BY <1>1
    <3>. QED  BY <1>3, <3>1
  <2>4. l[i] = k[i + 1] - f[1]
    BY <2>1, <2>2, <2>3, <1>1, <1>2
  <2>. QED  BY <2>4
<1>7. \A i \in 0 .. n : i \in N
  <2>. HIDE DEF N
  <2>. QED  BY <1>1, <1>5, <1>6, IntervalInduction
<1>8. l[n] = k[n + 1] - f[1]
  BY <1>1, <1>7
<1>. QED  BY <1>1, <1>8 DEF k, l, g, n, Total
=============================================================================
