---------------------------- MODULE TailerProofs ----------------------------
(***************************************************************************)
(* Proofs about Tailer, for any lines, any number of generations, inodes   *)
(* and faults.                                                             *)
(***************************************************************************)
EXTENDS Tailer, DataLemmas

-----------------------------------------------------------------------------
(* Entries.                                                                *)

\* The entry under way after line n, from the one before it.
LEMMA PendingStep ==
    ASSUME NEW lines \in Seq(Kind), NEW n \in 1 .. Len(lines)
    PROVE  /\ lines[n] = "partial" => Pending(lines, n) = Pending(lines, n - 1) \cup {n}
           /\ lines[n] = "full" => /\ Pending(lines, n) = {}
                                   /\ Entry(lines, n) = Pending(lines, n - 1) \cup {n}
           /\ lines[n] = "unparsed" => Pending(lines, n) = Pending(lines, n - 1)
PROOF
<1>1. n \in Nat /\ n >= 1 /\ n - 1 \in Nat
  OBVIOUS
<1>2. \A i \in 1 .. n : i = n \/ i \in 1 .. n - 1
  BY <1>1
<1>3. \A i \in 1 .. n - 1 : i \in 1 .. n /\ i # n /\ n \in i .. n
  BY <1>1
<1>4. \A i \in 1 .. n - 1 : \A j \in i .. n : j = n \/ j \in i .. n - 1
  BY <1>1
<1>5. \A i \in 1 .. n - 1 : \A j \in i .. n - 1 : j \in i .. n
  BY <1>1
<1>6. n \in n .. n /\ n \in 1 .. n /\ n .. n - 1 = {} /\ \A j \in n .. n : j = n
  BY <1>1
<1>7. CASE lines[n] = "partial"
  <2>1. \A i \in 1 .. n - 1 : i \in Pending(lines, n) <=> i \in Pending(lines, n - 1)
    BY <1>3, <1>4, <1>5, <1>7 DEF Pending
  <2>2. n \in Pending(lines, n)
    BY <1>6, <1>7 DEF Pending
  <2>3. Pending(lines, n) \subseteq 1 .. n /\ Pending(lines, n - 1) \subseteq 1 .. n - 1
    BY DEF Pending
  <2>. QED  BY <1>2, <1>3, <1>7, <2>1, <2>2, <2>3
<1>8. CASE lines[n] = "full"
  <2>1. \A i \in 1 .. n : i \notin Pending(lines, n)
    BY <1>2, <1>3, <1>6, <1>8 DEF Pending
  <2>2. \A i \in 1 .. n - 1 : i \in Entry(lines, n) <=> i \in Pending(lines, n - 1)
    BY <1>3 DEF Pending, Entry
  <2>3. n \in Entry(lines, n)
    BY <1>6, <1>8 DEF Entry
  <2>4. /\ Pending(lines, n) \subseteq 1 .. n /\ Pending(lines, n - 1) \subseteq 1 .. n - 1
        /\ Entry(lines, n) \subseteq 1 .. n
    BY DEF Pending, Entry
  <2>. QED  BY <1>2, <1>3, <1>8, <2>1, <2>2, <2>3, <2>4
<1>9. CASE lines[n] = "unparsed"
  <2>1. \A i \in 1 .. n - 1 : i \in Pending(lines, n) <=> i \in Pending(lines, n - 1)
    BY <1>3, <1>4, <1>5, <1>9 DEF Pending
  <2>2. n \notin Pending(lines, n)
    BY <1>6, <1>9 DEF Pending
  <2>3. Pending(lines, n) \subseteq 1 .. n /\ Pending(lines, n - 1) \subseteq 1 .. n - 1
    BY DEF Pending
  <2>. QED  BY <1>2, <1>3, <1>9, <2>1, <2>2, <2>3
<1>. QED  BY <1>7, <1>8, <1>9

\* At the start and behind a full line no entry is under way.
LEMMA NothingPending ==
    ASSUME NEW lines \in Seq(Kind), NEW n \in {0} \cup FullLines(lines)
    PROVE  Pending(lines, n) = {}
PROOF
<1>1. CASE n = 0
  BY <1>1 DEF Pending
<1>2. CASE n \in FullLines(lines)
  BY <1>2, PendingStep DEF FullLines
<1>. QED  BY <1>1, <1>2

\* A file only grows: what holds of its first lines goes on to hold.
Grows(lines, more) ==
    /\ lines \in Seq(Kind) /\ more \in Seq(Kind) /\ Len(lines) <= Len(more)
    /\ \A i \in 1 .. Len(lines) : more[i] = lines[i]

LEMMA GrowsFacts ==
    ASSUME NEW lines, NEW more, Grows(lines, more), NEW n \in Nat, n <= Len(lines)
    PROVE  /\ n \in FullLines(more) <=> n \in FullLines(lines)
           /\ Entry(more, n) = Entry(lines, n)
           /\ Pending(more, n) = Pending(lines, n)
PROOF
<1>1. Len(lines) \in Nat /\ Len(more) \in Nat /\ Len(lines) <= Len(more)
  BY DEF Grows
<1>2. \A i \in 1 .. n : /\ more[i] = lines[i]
                        /\ \A j \in i .. n : more[j] = lines[j]
                        /\ \A j \in i .. (n - 1) : more[j] = lines[j]
  <2>1. \A i \in 1 .. n : \A j \in i .. n : j \in 1 .. Len(lines) /\ i \in 1 .. Len(lines)
    BY <1>1
  <2>2. \A i \in 1 .. n : i \in i .. n /\ \A j \in i .. (n - 1) : j \in i .. n
    OBVIOUS
  <2>. QED  BY <2>1, <2>2 DEF Grows
<1>3. n \in FullLines(more) <=> n \in FullLines(lines)
  BY <1>1 DEF FullLines, Grows
<1>4. Entry(more, n) = Entry(lines, n)
  BY <1>2 DEF Entry
<1>5. Pending(more, n) = Pending(lines, n)
  BY <1>2 DEF Pending
<1>. QED  BY <1>3, <1>4, <1>5

LEMMA PassedStays ==
    ASSUME NEW lines, NEW more, Grows(lines, more), NEW offs, NEW offs2, offs \subseteq offs2,
           NEW n \in Nat
    PROVE  /\ Passed(lines, offs, n) => Passed(more, offs2, n)
           /\ Resumable(lines, offs, n) => Resumable(more, offs2, n)
PROOF
<1>1. Len(lines) \in Nat /\ Len(more) \in Nat /\ Len(lines) <= Len(more)
  BY DEF Grows
<1>2. ASSUME Passed(lines, offs, n)
      PROVE  Passed(more, offs2, n)
  <2>1. n <= Len(lines)
    BY <1>2 DEF Passed
  <2>2. ASSUME NEW m \in FullLines(more), m <= n
        PROVE  m \in offs2
    <3>1. m \in Nat /\ m <= Len(lines)
      BY <1>1, <2>1, <2>2 DEF FullLines
    <3>2. m \in FullLines(lines)
      BY <3>1, GrowsFacts
    <3>. QED  BY <1>2, <2>2, <3>2 DEF Passed
  <2>. QED  BY <1>1, <2>1, <2>2 DEF Passed
<1>3. ASSUME Resumable(lines, offs, n)
      PROVE  n \in {0} \cup FullLines(more)
  <2>1. n <= Len(lines)
    BY <1>3 DEF Passed, Resumable
  <2>. QED  BY <1>3, <2>1, GrowsFacts DEF Resumable
<1>. QED  BY <1>2, <1>3 DEF Resumable

-----------------------------------------------------------------------------
(* The loop of pump.                                                       *)

Reading == [off : Nat, partials : SUBSET Nat, done : SUBSET (Nat \X SUBSET Nat)]

\* One line.
LEMMA ConsumeType ==
    ASSUME NEW t \in Reading, NEW kind \in Kind
    PROVE  Consume(t, kind) \in Reading
PROOF
<1>. DEFINE n == t.off + 1
<1>1. /\ n \in Nat /\ t.partials \in SUBSET Nat /\ t.done \in SUBSET (Nat \X SUBSET Nat)
      /\ t.partials \cup {n} \in SUBSET Nat
  BY DEF Reading
<1>2. t.done \cup {<<n, t.partials \cup {n}>>} \in SUBSET (Nat \X SUBSET Nat)
  BY <1>1
<1>. QED  BY <1>1, <1>2 DEF Consume, Reading

\* PumpedUpTo is computed line by line.
LEMMA PumpRecursion ==
    ASSUME NEW lines \in Seq(Kind), NEW off \in Nat, NEW partials \in SUBSET Nat
    PROVE  LET k == PumpedUpTo(lines, off, partials)
               n == Unread(lines, off)
           IN  /\ n \in Nat
               /\ \A i \in 1 .. n : lines[off + i] \in Kind
               /\ k \in [0 .. n -> Reading]
               /\ k[0] = [off |-> off, partials |-> partials, done |-> {}]
               /\ \A i \in 1 .. n : k[i] = Consume(k[i - 1], lines[off + i])
PROOF
<1>. DEFINE n == Unread(lines, off)
            v0 == [off |-> off, partials |-> partials, done |-> {}]
            step == [i \in 1 .. n |-> [v \in Reading |-> Consume(v, lines[off + i])]]
            Body(k) == [i \in 0 .. n |-> IF i = 0 THEN v0 ELSE Consume(k[i - 1], lines[off + i])]
            k == PumpedUpTo(lines, off, partials)
<1>1. n \in Nat /\ \A i \in 1 .. n : off + i \in 1 .. Len(lines)
  BY DEF Unread
<1>2. \A i \in 1 .. n : lines[off + i] \in Kind
  BY <1>1
<1>3. k = CHOOSE g : g = Body(g)
  BY DEF PumpedUpTo
<1>. HIDE DEF n, k
<1>4. v0 \in Reading
  BY DEF Reading
<1>5. step \in [1 .. n -> [Reading -> Reading]]
  BY <1>2, ConsumeType
<1>6. PICK f : Iterates(Reading, n, v0, step, f)
  <2>. HIDE DEF step, v0
  <2>. QED  BY <1>1, <1>4, <1>5, RecursionExists
<1>. HIDE DEF v0
<1>7. f = Body(f)
  <2>1. \A i \in 1 .. n : f[i - 1] \in Reading /\ f[i] = step[i][f[i - 1]]
    <3>. HIDE DEF step
    <3>. QED  BY <1>1, <1>6 DEF Iterates
  <2>2. \A i \in 1 .. n : f[i] = Consume(f[i - 1], lines[off + i])
    BY <2>1
  <2>3. f \in [0 .. n -> Reading] /\ f[0] = v0
    BY <1>6 DEF Iterates
  <2>4. \A i \in 0 .. n : f[i] = IF i = 0 THEN v0 ELSE Consume(f[i - 1], lines[off + i])
    <3>1. \A i \in 0 .. n : i = 0 \/ i \in 1 .. n
      BY <1>1
    <3>. QED  BY <2>2, <2>3, <3>1
  <2>. QED  BY <2>3, <2>4
<1>8. k = Body(k)
  <2>. HIDE DEF Body
  <2>. QED  BY <1>3, <1>7
<1>9. /\ k = [i \in 0 .. n |-> k[i]]
      /\ k[0] = v0
      /\ \A i \in 1 .. n : k[i] = Consume(k[i - 1], lines[off + i])
  <2>1. \A i \in 0 .. n : k[i] = IF i = 0 THEN v0 ELSE Consume(k[i - 1], lines[off + i])
    BY <1>8
  <2>2. k = [i \in 0 .. n |-> k[i]]
    BY <1>8
  <2>. QED  BY <1>1, <2>1, <2>2
<1>. DEFINE N == {i \in 0 .. n : k[i] \in Reading}
<1>10. 0 \in N
  BY <1>1, <1>4, <1>9
<1>11. ASSUME NEW i \in 1 .. n, i - 1 \in N
       PROVE  i \in N
  <2>1. k[i - 1] \in Reading /\ lines[off + i] \in Kind /\ i \in 0 .. n
    BY <1>1, <1>2, <1>11
  <2>2. k[i] = Consume(k[i - 1], lines[off + i])
    BY <1>9
  <2>3. Consume(k[i - 1], lines[off + i]) \in Reading
    <3>. DEFINE t == k[i - 1]
                kind == lines[off + i]
    <3>. HIDE DEF t, kind
    <3>1. t \in Reading /\ kind \in Kind
      BY <2>1 DEF t, kind
    <3>2. Consume(t, kind) \in Reading
      BY ONLY <3>1, ConsumeType
    <3>. QED  BY <3>2 DEF t, kind
  <2>4. k[i] \in Reading
    BY <2>2, <2>3
  <2>. QED  BY <2>1, <2>4
<1>12. \A i \in 0 .. n : i \in N
  <2>. HIDE DEF N
  <2>. QED  BY <1>1, <1>10, <1>11, IntervalInduction
<1>13. k \in [0 .. n -> Reading]
  BY <1>9, <1>12
<1>. QED  BY <1>1, <1>2, <1>9, <1>13 DEF n, k, v0

\* What pump leaves behind wherever it starts: it ends at the end of the file, or
\* stays beyond it, and what it makes up consists of lines up to there.
LEMMA PumpBounds ==
    ASSUME NEW lines \in Seq(Kind), NEW off \in Nat, NEW partials \in SUBSET Nat
    PROVE  LET end == PumpedUpTo(lines, off, partials)[Unread(lines, off)]
           IN  /\ end \in Reading
               /\ end.off = IF Len(lines) > off THEN Len(lines) ELSE off
               /\ end.partials \subseteq partials \cup 1 .. end.off
               /\ \A d \in end.done : d[1] \in 1 .. end.off /\ d[2] \subseteq partials \cup 1 .. end.off
PROOF
<1>. DEFINE k == PumpedUpTo(lines, off, partials)
            n == Unread(lines, off)
            v0 == [off |-> off, partials |-> partials, done |-> {}]
<1>1. /\ n \in Nat
      /\ \A i \in 1 .. n : lines[off + i] \in Kind
      /\ k \in [0 .. n -> Reading]
      /\ k[0] = v0
      /\ \A i \in 1 .. n : k[i] = Consume(k[i - 1], lines[off + i])
  BY PumpRecursion
<1>2. n = IF Len(lines) > off THEN Len(lines) - off ELSE 0
  BY DEF Unread
<1>3. v0.off = off /\ v0.partials = partials /\ v0.done = {}
  OBVIOUS
<1>. HIDE DEF k, n, v0
<1>. DEFINE B(e) == /\ e.partials \subseteq partials \cup 1 .. e.off
                    /\ \A d \in e.done : d[1] \in 1 .. e.off /\ d[2] \subseteq partials \cup 1 .. e.off
            N == {i \in 0 .. n : k[i].off = off + i /\ B(k[i])}
<1>4. 0 \in N
  BY <1>1, <1>3
<1>5. ASSUME NEW i \in 1 .. n, i - 1 \in N
      PROVE  i \in N
  <2>. DEFINE t == k[i - 1]
              kind == lines[off + i]
              m == t.off + 1
  <2>1. t \in Reading /\ kind \in Kind /\ k[i] = Consume(t, kind) /\ t.off = off + (i - 1) /\ B(t)
    BY <1>1, <1>5
  <2>. HIDE DEF t, kind
  <2>2. /\ k[i].off = m
        /\ k[i].partials = IF kind = "partial" THEN t.partials \cup {m}
                           ELSE IF kind = "full" THEN {} ELSE t.partials
        /\ k[i].done = IF kind = "full" THEN t.done \cup {<<m, t.partials \cup {m}>>} ELSE t.done
    <3>1. t \in Reading /\ kind \in Kind /\ k[i] = Consume(t, kind)
      BY <2>1
    <3>2. k[i].off = t.off + 1
      BY ONLY <3>1 DEF Consume
    <3>3. k[i].partials = IF kind = "partial" THEN t.partials \cup {t.off + 1}
                          ELSE IF kind = "full" THEN {} ELSE t.partials
      BY ONLY <3>1 DEF Consume
    <3>4. k[i].done = IF kind = "full" THEN t.done \cup {<<t.off + 1, t.partials \cup {t.off + 1}>>}
                      ELSE t.done
      BY ONLY <3>1 DEF Consume
    <3>. QED  BY <3>2, <3>3, <3>4
  <2>3. m \in Nat /\ m = off + i /\ t.off \in Nat /\ m \in 1 .. m
    BY <1>1, <2>1
  <2>4. \A x \in 1 .. t.off : x \in 1 .. m
    BY <2>3
  <2>. HIDE DEF m
  <2>5. k[i].partials \subseteq partials \cup 1 .. m
    BY <2>1, <2>2, <2>3, <2>4
  <2>6. ASSUME NEW d \in k[i].done
        PROVE  d[1] \in 1 .. m /\ d[2] \subseteq partials \cup 1 .. m
    <3>1. CASE d \in t.done
      BY <2>1, <2>4, <3>1
    <3>2. CASE d = <<m, t.partials \cup {m}>>
      <4>1. d[1] = m /\ d[2] = t.partials \cup {m}
        BY <3>2
      <4>. QED  BY <2>1, <2>3, <2>4, <4>1
    <3>. QED  BY <2>2, <2>6, <3>1, <3>2
  <2>. QED  BY <1>1, <2>2, <2>3, <2>5, <2>6
<1>6. \A i \in 0 .. n : i \in N
  <2>. HIDE DEF N
  <2>. QED  BY <1>1, <1>4, <1>5, IntervalInduction
<1>7. k[n].off = off + n /\ B(k[n]) /\ k[n] \in Reading
  BY <1>1, <1>6
<1>. QED  BY <1>2, <1>7 DEF k, n

\* What pump makes of a file it has read from its start, or from behind a full
\* line: the entries that become complete, whole.
LEMMA PumpExact ==
    ASSUME NEW lines \in Seq(Kind), NEW off \in Nat, off <= Len(lines)
    PROVE  LET end == PumpedUpTo(lines, off, Pending(lines, off))[Unread(lines, off)]
           IN  /\ end.off = Len(lines)
               /\ end.partials = Pending(lines, Len(lines))
               /\ \A d \in end.done : d[1] \in FullLines(lines) /\ d[1] > off /\ d[2] = Entry(lines, d[1])
               /\ \A m \in FullLines(lines) : m > off => \E d \in end.done : d[1] = m
PROOF
<1>. DEFINE partials == Pending(lines, off)
            k == PumpedUpTo(lines, off, partials)
            n == Unread(lines, off)
            v0 == [off |-> off, partials |-> partials, done |-> {}]
<1>0. partials \in SUBSET Nat
  BY DEF Pending
<1>1. /\ n \in Nat
      /\ \A i \in 1 .. n : lines[off + i] \in Kind
      /\ k \in [0 .. n -> Reading]
      /\ k[0] = v0
      /\ \A i \in 1 .. n : k[i] = Consume(k[i - 1], lines[off + i])
  <2>. HIDE DEF partials
  <2>. QED  BY <1>0, PumpRecursion
<1>2. n = Len(lines) - off /\ Len(lines) \in Nat
  BY DEF Unread
<1>3. v0.off = off /\ v0.partials = partials /\ v0.done = {}
  OBVIOUS
<1>. HIDE DEF k, n, v0
<1>. DEFINE B(i, e) == /\ e.off = off + i
                       /\ e.partials = Pending(lines, off + i)
                       /\ \A d \in e.done :
                            d[1] \in FullLines(lines) /\ d[1] > off /\ d[2] = Entry(lines, d[1])
                       /\ \A m \in FullLines(lines) : m > off /\ m <= off + i => \E d \in e.done : d[1] = m
            N == {i \in 0 .. n : B(i, k[i])}
<1>4. 0 \in N
  <2>1. \A m \in FullLines(lines) : ~(m > off /\ m <= off + 0)
    BY DEF FullLines
  <2>. QED  BY <1>1, <1>3, <2>1
<1>5. ASSUME NEW i \in 1 .. n, i - 1 \in N
      PROVE  i \in N
  <2>. DEFINE t == k[i - 1]
              m == off + i
              kind == lines[m]
  <2>0. t \in Reading /\ kind \in Kind /\ k[i] = Consume(t, kind) /\ B(i - 1, t)
    BY <1>1, <1>5
  <2>1. m \in 1 .. Len(lines) /\ m - 1 = off + (i - 1) /\ m > off /\ m \in Nat /\ t.off + 1 = m
    BY <1>2, <2>0
  <2>2. /\ k[i].off = m
        /\ k[i].partials = IF kind = "partial" THEN t.partials \cup {m}
                           ELSE IF kind = "full" THEN {} ELSE t.partials
        /\ k[i].done = IF kind = "full" THEN t.done \cup {<<m, t.partials \cup {m}>>} ELSE t.done
    <3>. HIDE DEF t, kind, m
    <3>1. t \in Reading /\ kind \in Kind /\ k[i] = Consume(t, kind)
      BY <2>0
    <3>2. k[i].off = t.off + 1
      BY ONLY <3>1 DEF Consume
    <3>3. k[i].partials = IF kind = "partial" THEN t.partials \cup {t.off + 1}
                          ELSE IF kind = "full" THEN {} ELSE t.partials
      BY ONLY <3>1 DEF Consume
    <3>4. k[i].done = IF kind = "full" THEN t.done \cup {<<t.off + 1, t.partials \cup {t.off + 1}>>}
                      ELSE t.done
      BY ONLY <3>1 DEF Consume
    <3>. QED  BY <2>1, <3>2, <3>3, <3>4
  <2>3. t.partials = Pending(lines, m - 1)
    BY <2>0, <2>1
  <2>4. /\ kind = "partial" => Pending(lines, m) = Pending(lines, m - 1) \cup {m}
        /\ kind = "full" => Pending(lines, m) = {} /\ Entry(lines, m) = Pending(lines, m - 1) \cup {m}
        /\ kind = "unparsed" => Pending(lines, m) = Pending(lines, m - 1)
    <3>. HIDE DEF m
    <3>. QED  BY <2>1, PendingStep
  <2>5. k[i].partials = Pending(lines, m)
    <3>. HIDE DEF t, m, kind
    <3>. QED  BY <2>0, <2>2, <2>3, <2>4 DEF Kind
  <2>6. kind = "full" <=> m \in FullLines(lines)
    BY <2>1 DEF FullLines
  <2>7. /\ \A d \in t.done :
            d[1] \in FullLines(lines) /\ d[1] > off /\ d[2] = Entry(lines, d[1])
        /\ \A x \in FullLines(lines) : x > off /\ x <= off + (i - 1) => \E d \in t.done : d[1] = x
    BY <2>0
  <2>8. \A x \in FullLines(lines) : x <= m => x = m \/ x <= off + (i - 1)
    BY <2>1 DEF FullLines
  <2>9. ASSUME NEW d \in k[i].done
        PROVE  d[1] \in FullLines(lines) /\ d[1] > off /\ d[2] = Entry(lines, d[1])
    <3>. HIDE DEF t, m, kind
    <3>1. CASE d \in t.done
      BY <2>7, <3>1
    <3>2. CASE kind = "full" /\ d = <<m, t.partials \cup {m}>>
      <4>1. d[1] = m /\ d[2] = t.partials \cup {m}
        BY <3>2
      <4>. QED  BY <2>1, <2>3, <2>4, <2>6, <3>2, <4>1
    <3>. QED  BY <2>2, <2>9, <3>1, <3>2
  <2>10. ASSUME NEW x \in FullLines(lines), x > off, x <= m
         PROVE  \E d \in k[i].done : d[1] = x
    <3>. HIDE DEF t, m, kind
    <3>1. CASE x = m
      <4>1. <<m, t.partials \cup {m}>> \in k[i].done /\ <<m, t.partials \cup {m}>>[1] = m
        BY <2>2, <2>6, <3>1
      <4>. QED  BY <3>1, <4>1
    <3>2. CASE x <= off + (i - 1)
      <4>1. PICK d \in t.done : d[1] = x
        BY <2>7, <2>10, <3>2
      <4>. QED  BY <2>2, <4>1
    <3>. QED  BY <2>8, <2>10, <3>1, <3>2
  <2>11. B(i, k[i])
    <3>. HIDE DEF t, kind
    <3>. QED  BY <2>2, <2>5, <2>9, <2>10
  <2>. HIDE DEF B
  <2>. QED  BY <1>1, <2>11
<1>6. \A i \in 0 .. n : i \in N
  <2>. HIDE DEF N
  <2>. QED  BY <1>1, <1>4, <1>5, IntervalInduction
<1>7. B(n, k[n]) /\ off + n = Len(lines)
  BY <1>1, <1>2, <1>6
<1>8. \A m \in FullLines(lines) : m <= Len(lines)
  BY DEF FullLines
<1>. QED  BY <1>7, <1>8 DEF k, n

-----------------------------------------------------------------------------
(* Types.                                                                  *)

\* Offsets are numbers, and with an offset every smaller one is an offset.
LEMMA PositionFacts ==
    /\ Position \subseteq Nat /\ 0 \in Position
    /\ \A p \in Position : \A n \in 0 .. p : n \in Position
PROOF
<1>1. \A w \in Worlds : w.lines \in Seq(Kind) /\ Len(w.lines) \in Nat
  BY TailerAssumption DEF World
<1>2. \E w \in Worlds : 0 \in 0 .. Len(w.lines)
  BY <1>1, TailerAssumption
<1>3. ASSUME NEW p \in Position, NEW n \in 0 .. p
      PROVE  n \in Position
  <2>1. PICK w \in Worlds : p \in 0 .. Len(w.lines)
    BY DEF Position
  <2>2. n \in 0 .. Len(w.lines)
    BY <1>1, <2>1
  <2>. QED  BY <2>2 DEF Position
<1>. QED  BY <1>1, <1>2, <1>3 DEF Position

LEMMA GenFacts ==
    ASSUME TypeOK, NEW g \in 1 .. Len(inode)
    PROVE  /\ g \in Gen /\ KeyOf(g) \in Key /\ KeyOf(g).birth = g
           /\ written[g] \in Seq(Kind) /\ Len(written[g]) \in Nat
           /\ Len(inode) \in 1 .. Len(inode) /\ Len(inode) \in Nat
PROOF
<1>1. Len(inode) \in Nat /\ Len(inode) <= MaxGen /\ MaxGen \in Nat /\ inode \in Seq(Inode)
  BY TailerAssumption DEF TypeOK, Gen
<1>2. g \in Gen /\ inode[g] \in Inode /\ Len(inode) \in 1 .. Len(inode)
  BY <1>1 DEF Gen
<1>3. KeyOf(g) \in Key /\ KeyOf(g).birth = g
  BY <1>2 DEF KeyOf, Key, Birth
<1>4. written[g] \in Seq(Kind)
  BY <1>2 DEF TypeOK
<1>. QED  BY <1>1, <1>2, <1>3, <1>4

LEMMA LatestFacts ==
    ASSUME TypeOK
    PROVE  Len(inode) \in 1 .. Len(inode) /\ Len(inode) \in Nat
BY TailerAssumption DEF TypeOK, Gen

LEMMA KeyFacts ==
    ASSUME NEW k \in Key
    PROVE  k.birth \in Gen /\ k.birth \in Nat /\ k.birth >= 1
BY TailerAssumption DEF Key, Gen

LEMMA TailFacts ==
    ASSUME TypeOK, NEW k \in Key
    PROVE  /\ tails[k] \in TailState
           /\ tails[k].pc \in {"none", "open", "await", "pump", "eof", "drain"}
           /\ tails[k].file \in {0} \cup Gen
           /\ tails[k].off \in Position /\ tails[k].off \in Nat
           /\ tails[k].partials \in SUBSET Position /\ tails[k].partials \in SUBSET Nat
           /\ checkpoint[k] \in Position /\ checkpoint[k] \in Nat
PROOF
<1>1. tails[k] \in TailState /\ checkpoint[k] \in Position
  BY DEF TypeOK
<1>. QED  BY <1>1, PositionFacts DEF TailState

LEMMA RecFacts ==
    ASSUME TypeOK, NEW r \in sent
    PROVE  /\ r.key \in Key /\ r.file \in Gen /\ r.off \in Position /\ r.off \in Nat
           /\ r.lines \in SUBSET Position
PROOF
<1>1. r \in Rec
  BY DEF TypeOK
<1>. QED  BY <1>1, PositionFacts DEF Rec

LEMMA Tail0Type == /\ Tail0 \in TailState /\ Tail0.pc = "none" /\ Tail0.file = 0
                   /\ Tail0.off = 0 /\ Tail0.partials = {}
BY PositionFacts DEF Tail0, TailState

-----------------------------------------------------------------------------
(* What a step leaves as it is.                                            *)

\* Files grow, generations are added, and what was sent was sent.
Onward ==
    /\ written' \in [Gen -> Seq(Kind)]
    /\ \A g \in Gen : Grows(written[g], written'[g])
    /\ Len(inode') \in Nat /\ Len(inode) <= Len(inode')
    /\ \A g \in 1 .. Len(inode) : inode'[g] = inode[g]
    /\ sent \subseteq sent'

LEMMA UnchangedGrows ==
    ASSUME TypeOK, written' = written, inode' = inode, sent \subseteq sent'
    PROVE  Onward
BY LatestFacts DEF Onward, Grows, TypeOK

LEMMA OnwardFacts ==
    ASSUME TypeOK, Onward, NEW g \in 1 .. Len(inode)
    PROVE  /\ KeyOf(g)' = KeyOf(g)
           /\ SentOf(g) \subseteq SentOf(g)'
           /\ Grows(written[g], written'[g])
PROOF
<1>1. KeyOf(g)' = KeyOf(g)
  BY DEF KeyOf, Birth, Onward
<1>2. g \in Gen
  BY GenFacts
<1>. QED  BY <1>1, <1>2 DEF SentOf, Onward

\* A record that was sent stays as good as it was.
LEMMA RecordStays ==
    ASSUME TypeOK, Keys, Recorded, Onward, NEW r \in sent, r.key = KeyOf(r.file)'
    PROVE  /\ Resumable(written'[r.file], SentOf(r.file)', r.off)
           /\ r.lines = Entry(written'[r.file], r.off)
PROOF
<1>1. r.key \in Key /\ r.file \in Gen /\ r.off \in Nat
  BY RecFacts
<1>2. r.file \in 1 .. Len(inode)
  <2>1. r.file \in r.key.birth .. Len(inode)
    BY DEF Keys
  <2>. QED  BY <1>1, <2>1, LatestFacts, KeyFacts
<1>. DEFINE g == r.file
<1>3. KeyOf(g)' = KeyOf(g) /\ SentOf(g) \subseteq SentOf(g)' /\ Grows(written[g], written'[g])
  BY <1>2, OnwardFacts
<1>4. Resumable(written[g], SentOf(g), r.off) /\ r.lines = Entry(written[g], r.off)
  BY <1>3 DEF Recorded
<1>5. r.off <= Len(written[g])
  BY <1>4 DEF Resumable, Passed
<1>6. Resumable(written'[g], SentOf(g)', r.off)
  BY <1>1, <1>3, <1>4, PassedStays
<1>7. Entry(written'[g], r.off) = Entry(written[g], r.off)
  BY <1>1, <1>3, <1>5, GrowsFacts
<1>. QED  BY <1>4, <1>6, <1>7

\* So does a tail that does not move.
LEMMA TailStays ==
    ASSUME TypeOK, Keys, Following, Onward, NEW k \in Key, NEW g \in Gen,
           tails[k].file = g, k = KeyOf(g)'
    PROVE  /\ Passed(written'[g], SentOf(g)', tails[k].off)
           /\ tails[k].partials = Pending(written'[g], tails[k].off)
PROOF
<1>. DEFINE t == tails[k]
<1>1. t.off \in Nat /\ g # 0 /\ g \in Nat
  BY TailFacts, TailerAssumption DEF Gen
<1>2. g \in 1 .. Len(inode)
  <2>1. g \in k.birth .. Len(inode)
    BY <1>1, TailFacts, Tail0Type DEF Keys
  <2>. QED  BY <1>1, <2>1, LatestFacts, KeyFacts
<1>3. KeyOf(g)' = KeyOf(g) /\ SentOf(g) \subseteq SentOf(g)' /\ Grows(written[g], written'[g])
  BY <1>2, OnwardFacts
<1>4. Passed(written[g], SentOf(g), t.off) /\ t.partials = Pending(written[g], t.off)
  BY <1>1, <1>3 DEF Following
<1>5. t.off <= Len(written[g])
  BY <1>4 DEF Passed
<1>6. Passed(written'[g], SentOf(g)', t.off)
  BY <1>1, <1>3, <1>4, PassedStays
<1>7. Pending(written'[g], t.off) = Pending(written[g], t.off)
  BY <1>1, <1>3, <1>5, GrowsFacts
<1>. QED  BY <1>4, <1>6, <1>7

\* So does the place where a tail starts.
LEMMA StartStays ==
    ASSUME TypeOK, Onward, NEW g \in 1 .. Len(inode),
           NEW n \in Nat, Resumable(written[g], SentOf(g), n)
    PROVE  Resumable(written'[g], SentOf(g)', n)
BY OnwardFacts, PassedStays

-----------------------------------------------------------------------------
(* The initial state.                                                      *)

LEMMA InitKeeps == Init => IndInv
PROOF
<1>. SUFFICES ASSUME Init
              PROVE  IndInv
  OBVIOUS
<1>. USE DEF Init
<1>1. /\ inode \in Seq(Inode) /\ Len(inode) = 1 /\ 1 \in Gen
      /\ world \in World /\ world \in Worlds /\ \A g \in Gen : written[g] = <<>> /\ Len(written[g]) = 0
  BY TailerAssumption DEF Gen
<1>2. TypeOK
  <2>1. written \in [Gen -> Seq(Kind)] /\ \A g \in Gen : Len(written[g]) \in Position
    BY <1>1, PositionFacts
  <2>2. tails \in [Key -> TailState] /\ checkpoint \in [Key -> Position]
    BY Tail0Type, PositionFacts
  <2>. QED  BY <1>1, <2>1, <2>2 DEF TypeOK
<1>3. Generations
  <2>1. world.rotations \in 0 .. MaxGen - 1 /\ world.lines \in Seq(Kind) /\ Len(world.lines) \in Nat
    BY <1>1 DEF World
  <2>2. Len(inode) + world.rotations + 0 <= MaxGen
    BY <1>1, <2>1, TailerAssumption
  <2>3. \A g \in Gen : Len(written[g]) + Len(world.lines) <= Len(world.lines)
    BY <1>1, <2>1
  <2>. QED  BY <1>1, <2>2, <2>3 DEF Generations
<1>4. Keys
  BY Tail0Type DEF Keys
<1>5. Recorded
  BY DEF Recorded
<1>6. Resumed
  <2>1. KeyOf(1) \in Key
    BY <1>1, <1>2, GenFacts
  <2>2. FullLines(written[1]) = {} /\ Len(written[1]) = 0
    BY <1>1 DEF FullLines
  <2>3. Resumable(written[1], SentOf(1), 0)
    BY <2>2 DEF Resumable, Passed
  <2>. QED  BY <1>1, <2>1, <2>3, Tail0Type DEF Resumed
<1>7. Following
  BY Tail0Type, TailerAssumption DEF Following, Gen
<1>8. Finished /\ Gated
  BY Tail0Type DEF Finished, Gated, Admitted
<1>. QED  BY <1>2, <1>3, <1>4, <1>5, <1>6, <1>7, <1>8 DEF IndInv

\* No tail comes to read and the informer shows what it showed.
LEMMA GatedStays ==
    ASSUME Gated, UNCHANGED <<pod, bare, gaveUp, before, late>>,
           \A k \in Key : tails'[k].pc \in {"pump", "eof", "drain"} => tails[k].pc \in {"pump", "eof", "drain"}
    PROVE  Gated'
PROOF
<1>1. Admitted' \subseteq Admitted
  BY DEF Admitted
<1>. QED  BY <1>1 DEF Gated, Ready

-----------------------------------------------------------------------------
(* The runtime, the kubelet and the informer.                              *)

\* A step that leaves the tails alone and lets files grow keeps what was read,
\* if what was drained for good does not grow.
LEMMA ReadStays ==
    ASSUME TypeOK, Keys, Recorded, Resumed, Following, Finished, Onward, Len(inode') = Len(inode),
           UNCHANGED <<tails, checkpoint, sent, drained, early>>,
           \A g \in drained \ early : g # writer' /\ written'[g] = written[g]
    PROVE  Keys' /\ Recorded' /\ Resumed' /\ Following' /\ Finished'
PROOF
<1>1. Keys'
  BY DEF Keys
<1>2. Recorded'
  BY RecordStays DEF Recorded
<1>3. Resumed'
  <2>. SUFFICES ASSUME NEW g \in Gen, NEW k \in Key, g = Len(inode'), k = KeyOf(g)'
                PROVE  /\ Resumable(written'[g], SentOf(g)', checkpoint[k])
                       /\ tails[k].pc = "open" => Resumable(written'[g], SentOf(g)', tails[k].off)
    BY DEF Resumed
  <2>1. g \in 1 .. Len(inode) /\ g = Len(inode)
    BY LatestFacts
  <2>2. k = KeyOf(g)
    BY <2>1, OnwardFacts
  <2>3. checkpoint[k] \in Nat /\ tails[k].off \in Nat
    BY TailFacts
  <2>. QED  BY <2>1, <2>2, <2>3, StartStays DEF Resumed
<1>4. Following'
  BY TailStays DEF Following
<1>5. Finished'
  <2>. SUFFICES ASSUME NEW g \in drained \ early
                PROVE  /\ g <= Len(inode') /\ g # writer'
                       /\ FullLines(written'[g]) \subseteq SentOf(g)'
    BY DEF Finished
  <2>1. g \in Gen /\ g <= Len(inode) /\ FullLines(written[g]) \subseteq SentOf(g)
    BY DEF Finished, TypeOK
  <2>2. g \in 1 .. Len(inode)
    BY <2>1, LatestFacts, TailerAssumption DEF Gen
  <2>. QED  BY <2>1, <2>2, OnwardFacts
<1>. QED  BY <1>1, <1>2, <1>3, <1>4, <1>5

LEMMA WriteKeeps ==
    ASSUME IndInv, Write
    PROVE  IndInv'
PROOF
<1>. USE DEF Write, tailVars, history, gateVars
<1>1. TypeOK /\ Generations /\ Keys /\ Recorded /\ Resumed /\ Following /\ Finished /\ Gated
  BY DEF IndInv
<1>2. writer \in Gen /\ writer = Len(inode) /\ Len(inode) \in Nat
  BY <1>1, LatestFacts DEF TypeOK, Generations
<1>3. /\ world.lines \in Seq(Kind) /\ Head(world.lines) \in Kind /\ world \in World
      /\ Tail(world.lines) \in Seq(Kind) /\ Len(Tail(world.lines)) = Len(world.lines) - 1
      /\ Len(world.lines) \in Nat
  BY <1>1 DEF TypeOK, World
<1>4. /\ written \in [Gen -> Seq(Kind)]
      /\ written' \in [Gen -> Seq(Kind)]
      /\ \A g \in Gen : g # writer => written'[g] = written[g]
      /\ written'[writer] = Append(written[writer], Head(world.lines))
      /\ written[writer] \in Seq(Kind)
  BY <1>1, <1>2, <1>3 DEF TypeOK
<1>5. /\ Len(written'[writer]) = Len(written[writer]) + 1 /\ Len(written[writer]) \in Nat
      /\ \A i \in 1 .. Len(written[writer]) : written'[writer][i] = written[writer][i]
  BY <1>3, <1>4
<1>6. world' \in World /\ world'.lines = Tail(world.lines) /\ world'.rotations = world.rotations
  BY <1>3 DEF World
<1>7. Onward
  <2>1. \A g \in Gen : Grows(written[g], written'[g])
    BY <1>4, <1>5 DEF Grows
  <2>. QED  BY <1>1, <1>2, <1>4, <2>1 DEF Onward
<1>8. PICK w \in Worlds : \A g \in Gen : Len(written[g]) + Len(world.lines) <= Len(w.lines)
  BY <1>1 DEF Generations
<1>9. \A g \in Gen : Len(written[g]) \in Nat /\ Len(written'[g]) \in Nat
  BY <1>4
<1>10. Len(w.lines) \in Nat
  BY <1>8, TailerAssumption DEF World
<1>11. /\ Len(world'.lines) \in Nat
       /\ \A g \in Gen : Len(written'[g]) + Len(world'.lines) <= Len(w.lines)
  <2>1. Len(world'.lines) = Len(world.lines) - 1 /\ Len(world'.lines) \in Nat
    BY <1>3, <1>6
  <2>. SUFFICES ASSUME NEW g \in Gen
                PROVE  Len(written'[g]) + Len(world'.lines) <= Len(w.lines)
    BY <2>1
  <2>2. Len(written'[g]) <= Len(written[g]) + 1
    <3>1. CASE g = writer
      BY <1>5, <3>1
    <3>2. CASE g # writer
      BY <1>4, <1>9, <3>2
    <3>. QED  BY <3>1, <3>2
  <2>3. Len(written[g]) + Len(world.lines) <= Len(w.lines)
    BY <1>8
  <2>. DEFINE a == Len(written[g])
              b == Len(written'[g])
              c == Len(world.lines)
              d == Len(world'.lines)
              e == Len(w.lines)
  <2>4. a \in Nat /\ b \in Nat /\ c \in Nat /\ d \in Nat /\ e \in Nat
    BY <1>3, <1>9, <1>10, <2>1
  <2>5. d = c - 1 /\ b <= a + 1 /\ a + c <= e
    BY <2>1, <2>2, <2>3
  <2>. HIDE DEF a, b, c, d, e
  <2>6. b + d <= e
    BY <2>4, <2>5
  <2>. QED  BY <2>6 DEF b, d, e
<1>12. TypeOK'
  <2>1. \A g \in Gen : Len(written'[g]) \in Position
    <3>1. \A g \in Gen : Len(written'[g]) \in 0 .. Len(w.lines)
      <4>. SUFFICES ASSUME NEW g \in Gen
                    PROVE  Len(written'[g]) \in 0 .. Len(w.lines)
        OBVIOUS
      <4>. DEFINE b == Len(written'[g])
                  d == Len(world'.lines)
                  e == Len(w.lines)
      <4>1. b \in Nat /\ d \in Nat /\ e \in Nat /\ b + d <= e
        BY <1>9, <1>10, <1>11
      <4>. HIDE DEF b, d, e
      <4>2. b \in 0 .. e
        BY <4>1
      <4>. QED  BY <4>2 DEF b, e
    <3>. QED  BY <1>8, <3>1 DEF Position
  <2>. QED  BY <1>1, <1>4, <1>6, <2>1 DEF TypeOK
<1>13. Generations'
  BY <1>1, <1>6, <1>8, <1>11 DEF Generations
<1>14. Keys' /\ Recorded' /\ Resumed' /\ Following' /\ Finished'
  <2>1. \A g \in drained \ early : g \in Gen /\ g # writer
    BY <1>1 DEF Finished, TypeOK
  <2>. QED  BY <1>1, <1>4, <1>7, <2>1, ReadStays
<1>15. Gated'
  BY <1>1, GatedStays
<1>. QED  BY <1>12, <1>13, <1>14, <1>15 DEF IndInv

\* A name or the pod changes, the files do not.
LEMMA NameKeeps ==
    ASSUME IndInv, Rename \/ LogRemoved \/ Annotate \/ Upsert \/ PodRemoved
    PROVE  IndInv'
PROOF
<1>. USE DEF Rename, LogRemoved, Annotate, Upsert, PodRemoved, tailVars, history, gateVars, fileVars
<1>1. TypeOK /\ Generations /\ Keys /\ Recorded /\ Resumed /\ Following /\ Finished /\ Gated
  BY DEF IndInv
<1>2. /\ UNCHANGED <<tails, checkpoint, sent, drained, early, written, inode>>
      /\ writer' \in {writer, 0}
  OBVIOUS
<1>3. /\ world \in World /\ world.rotations \in 0 .. MaxGen - 1 /\ MaxGen \in Nat
      /\ Len(inode) \in Nat /\ Len(inode) >= 1
  BY <1>1, LatestFacts, TailerAssumption DEF TypeOK, World
<1>4. /\ world' \in World /\ world'.lines = world.lines
      /\ world'.rotations = IF Rename THEN world.rotations - 1 ELSE world.rotations
  <2>1. CASE Annotate
    <3>1. world.excluded \in BOOLEAN /\ world.changes \in Nat /\ world.changes - 1 \in Nat
      BY <1>3, <2>1 DEF World
    <3>2. ~Rename
      BY <2>1
    <3>. QED  BY <1>3, <2>1, <3>1, <3>2 DEF World
  <2>2. CASE Rename
    BY <1>3, <2>2 DEF World
  <2>3. CASE LogRemoved \/ Upsert \/ PodRemoved
    <3>1. world' = world
      BY <2>3
    <3>2. ~Rename \/ world'.rotations = world.rotations - 1
      BY <1>3 DEF World
    <3>. QED  BY <1>3, <3>1, <3>2
  <2>. QED  BY <2>1, <2>2, <2>3
<1>5. TypeOK'
  BY <1>1, <1>2, <1>4 DEF TypeOK, Listed, Admitted
<1>6. Generations'
  <2>1. path' \in {0, Len(inode)} /\ writer' \in {0, Len(inode)} /\ (pod' = "deleted" => writer' = 0)
    BY <1>1 DEF Generations, Listed
  <2>2. Len(inode) + world'.rotations + (IF path' = 0 /\ writer' # 0 THEN 1 ELSE 0) <= MaxGen
    BY <1>1, <1>3, <1>4 DEF Generations
  <2>. QED  BY <1>1, <1>2, <1>4, <2>1, <2>2 DEF Generations
<1>7. Keys' /\ Recorded' /\ Resumed' /\ Following' /\ Finished'
  <2>1. \A g \in drained \ early : g # writer' /\ written'[g] = written[g]
    <3>1. 0 \notin Gen
      BY TailerAssumption DEF Gen
    <3>. QED  BY <1>1, <1>2, <3>1 DEF Finished, TypeOK
  <2>2. Onward
    BY <1>1, <1>2, UnchangedGrows
  <2>. QED  BY <1>1, <1>2, <2>1, <2>2, ReadStays
<1>8. Gated'
  <2>1. CASE Rename \/ LogRemoved \/ Annotate
    BY <1>1, <1>2, <2>1, GatedStays
  <2>2. CASE Upsert
    BY <1>1, <1>2, <2>2 DEF Gated, Ready, Listed, Admitted
  <2>3. CASE PodRemoved
    BY <1>1, <1>2, <2>3 DEF Gated, Ready, Admitted
  <2>. QED  BY <2>1, <2>2, <2>3
<1>. QED  BY <1>5, <1>6, <1>7, <1>8 DEF IndInv

\* A new generation: its key is new, whatever its inode, so no tail, checkpoint
\* or record of an older one can be taken for its own.
LEMMA ReopenKeeps ==
    ASSUME IndInv, Reopen
    PROVE  IndInv'
PROOF
<1>. USE DEF Reopen, tailVars, history, gateVars
<1>1. TypeOK /\ Generations /\ Keys /\ Recorded /\ Resumed /\ Following /\ Finished /\ Gated
  BY DEF IndInv
<1>. DEFINE n == Len(inode)
<1>2. PICK i \in Inode : inode' = Append(inode, i)
  OBVIOUS
<1>3. inode \in Seq(Inode) /\ n \in Nat /\ n >= 1 /\ writer = n /\ world.rotations \in Nat /\ MaxGen \in Nat
  <2>1. inode \in Seq(Inode) /\ world.rotations \in Nat /\ MaxGen \in Nat
    BY <1>1, TailerAssumption DEF TypeOK, World
  <2>2. n \in Nat /\ n >= 1
    BY <1>1, LatestFacts
  <2>3. writer = n
    BY <1>1 DEF Generations
  <2>. QED  BY <2>1, <2>2, <2>3
<1>4. /\ inode' \in Seq(Inode) /\ Len(inode') = n + 1 /\ inode'[n + 1] = i
      /\ \A g \in 1 .. n : inode'[g] = inode[g]
  BY <1>2, <1>3
<1>5. n + 1 \in Gen /\ Len(inode) + world.rotations + 1 <= MaxGen
  BY <1>1, <1>3 DEF Generations, Gen
<1>6. TypeOK'
  BY <1>1, <1>4, <1>5 DEF TypeOK
<1>7. Generations'
  <2>1. path' = n + 1 /\ writer' = n + 1 /\ path' # 0
    BY <1>3
  <2>2. Len(inode') + world'.rotations + 0 <= MaxGen
    BY <1>3, <1>4, <1>5
  <2>3. pod # "deleted"
    BY <1>1 DEF Generations
  <2>. QED  BY <1>1, <1>4, <2>1, <2>2, <2>3 DEF Generations
<1>8. Keys'
  <2>1. \A b \in Nat : b <= n => b <= n + 1
    BY <1>3
  <2>2. \A k \in Key : k.birth \in Nat
    BY KeyFacts
  <2>3. \A b \in Nat : \A f \in b .. n : f \in b .. n + 1
    BY <1>3
  <2>4. \A r \in sent : r.key \in Key
    BY <1>1, RecFacts
  <2>. QED  BY <1>1, <1>4, <2>1, <2>2, <2>3, <2>4 DEF Keys
<1>9. Onward
  <2>1. \A g \in Gen : Grows(written[g], written'[g])
    BY <1>1 DEF TypeOK, Grows
  <2>. QED  BY <1>1, <1>3, <1>4, <2>1 DEF Onward, TypeOK
<1>10. Recorded'
  BY <1>1, <1>9, RecordStays DEF Recorded
<1>11. Resumed'
  <2>. SUFFICES ASSUME NEW g \in Gen, NEW k \in Key, g = Len(inode'), k = KeyOf(g)'
                PROVE  /\ Resumable(written[g], SentOf(g)', checkpoint[k])
                       /\ tails[k].pc # "open"
    BY DEF Resumed
  <2>1. k.birth = n + 1
    BY <1>4 DEF KeyOf, Birth
  <2>2. checkpoint[k] = 0 /\ tails[k].pc = "none"
    BY <1>1, <1>3, <2>1 DEF Keys
  <2>3. Resumable(written[g], SentOf(g)', 0)
    <3>1. Len(written[g]) \in Nat
      BY <1>1 DEF TypeOK
    <3>. QED  BY <3>1 DEF Resumable, Passed, FullLines
  <2>. QED  BY <2>2, <2>3
<1>12. Following'
  BY <1>1, <1>9, TailStays DEF Following
<1>13. Finished'
  <2>. SUFFICES ASSUME NEW g \in drained \ early
                PROVE  /\ g <= Len(inode') /\ g # writer'
                       /\ FullLines(written[g]) \subseteq SentOf(g)'
    BY DEF Finished
  <2>1. g \in Gen /\ g <= n /\ FullLines(written[g]) \subseteq SentOf(g)
    BY <1>1 DEF Finished, TypeOK
  <2>2. g \in 1 .. n /\ g <= n + 1 /\ g # n + 1
    BY <1>3, <2>1, TailerAssumption DEF Gen
  <2>. QED  BY <1>1, <1>4, <1>9, <2>1, <2>2, OnwardFacts
<1>14. Gated'
  BY <1>1, GatedStays
<1>. QED  BY <1>6, <1>7, <1>8, <1>10, <1>11, <1>12, <1>13, <1>14 DEF IndInv

-----------------------------------------------------------------------------
(* Steps of the tailer that read no lines.                                 *)

\* Nothing is written and nothing is sent.
Silent == UNCHANGED <<path, writer, written, inode, sent, drained, early, bare, late>>

LEMMA SilentFacts ==
    ASSUME Silent
    PROVE  /\ \A g : KeyOf(g)' = KeyOf(g) /\ SentOf(g)' = SentOf(g)
           /\ Recorded => Recorded'
           /\ Finished => Finished'
PROOF
<1>1. \A g : KeyOf(g)' = KeyOf(g) /\ SentOf(g)' = SentOf(g)
  BY DEF Silent, KeyOf, SentOf
<1>2. Recorded => Recorded'
  BY <1>1 DEF Silent, Recorded
<1>3. Finished => Finished'
  BY <1>1 DEF Silent, Finished
<1>. QED  BY <1>1, <1>2, <1>3

Reads == {"await", "pump", "eof", "drain"}

\* Tails that end, and tails that go on where they are.
LEMMA TailsMove ==
    ASSUME TypeOK, Keys, Resumed, Following, Silent, checkpoint' = checkpoint,
           tails' \in [Key -> TailState],
           \A k \in Key :
            \/ tails'[k] = tails[k]
            \/ tails'[k] = Tail0
            \/ /\ tails[k].pc \in Reads /\ tails'[k].pc \in Reads
               /\ tails'[k].file = tails[k].file /\ tails'[k].off = tails[k].off
               /\ tails'[k].partials = tails[k].partials
    PROVE  Keys' /\ Resumed' /\ Following'
PROOF
<1>1. Keys'
  <2>1. ASSUME NEW k \in Key
        PROVE  /\ tails'[k].pc = "none" => tails'[k] = Tail0
               /\ tails'[k].pc = "open" => tails'[k].file = 0 /\ tails'[k].partials = {}
               /\ tails'[k].pc # "none" \/ checkpoint[k] # 0 => k.birth <= Len(inode)
               /\ tails'[k].pc \in Reads => tails'[k].file \in k.birth .. Len(inode)
    BY Tail0Type DEF Keys, Reads
  <2>. QED  BY <2>1 DEF Keys, Silent, Reads
<1>2. Resumed'
  <2>1. \A k \in Key : tails'[k].pc = "open" => tails'[k] = tails[k]
    BY Tail0Type DEF Reads
  <2>. QED  BY <2>1, SilentFacts DEF Resumed, Silent
<1>3. Following'
  <2>1. \A k \in Key : tails'[k].file \in Gen =>
            /\ tails'[k].file = tails[k].file /\ tails'[k].off = tails[k].off
            /\ tails'[k].partials = tails[k].partials
    BY Tail0Type, TailerAssumption DEF Gen
  <2>. QED  BY <2>1, SilentFacts DEF Following, Silent
<1>. QED  BY <1>1, <1>2, <1>3

\* A wait that ends, a look at the path, a tail or all of them lost.
LEMMA MoveKeeps ==
    ASSUME IndInv, Restart \/ \E k \in Key : Await(k) \/ Stat(k) \/ ReadFails(k)
    PROVE  IndInv'
PROOF
<1>1. TypeOK /\ Generations /\ Keys /\ Recorded /\ Resumed /\ Following /\ Finished /\ Gated
  BY DEF IndInv
<1>. DEFINE Moves(k) ==
            \/ tails'[k] = tails[k]
            \/ tails'[k] = Tail0
            \/ /\ tails[k].pc \in Reads /\ tails'[k].pc \in Reads
               /\ tails'[k].file = tails[k].file /\ tails'[k].off = tails[k].off
               /\ tails'[k].partials = tails[k].partials
<1>2. tails \in [Key -> TailState]
  BY <1>1 DEF TypeOK
<1>3. ASSUME NEW k \in Key, NEW pc \in Reads, tails[k].pc \in Reads, Goto(k, pc)
      PROVE  /\ tails' \in [Key -> TailState] /\ \A j \in Key : Moves(j)
             /\ tails'[k].pc = pc /\ \A j \in Key : j # k => tails'[j] = tails[j]
  <2>1. tails[k] \in TailState
    BY <1>2
  <2>2. tails' = [tails EXCEPT ![k] = [tails[k] EXCEPT !.pc = pc]]
    BY <1>2, <1>3 DEF Goto
  <2>. DEFINE t == [tails[k] EXCEPT !.pc = pc]
  <2>3. /\ t \in TailState /\ t.pc = pc /\ t.file = tails[k].file /\ t.off = tails[k].off
        /\ t.partials = tails[k].partials
    BY <2>1 DEF TailState, Reads
  <2>. HIDE DEF t
  <2>4. tails'[k] = t /\ \A j \in Key : j # k => tails'[j] = tails[j]
    BY <1>2, <2>2 DEF t
  <2>5. tails' \in [Key -> TailState]
    BY <1>2, <2>2, <2>3 DEF t
  <2>. QED  BY <1>3, <2>3, <2>4, <2>5
<1>4. ASSUME NEW k \in Key, EndTail(k)
      PROVE  /\ tails' \in [Key -> TailState] /\ \A j \in Key : Moves(j)
             /\ tails'[k] = Tail0 /\ \A j \in Key : j # k => tails'[j] = tails[j]
  BY <1>2, <1>4, Tail0Type DEF EndTail
<1>5. ASSUME Fault
      PROVE  /\ world' \in World
             /\ world'.rotations = world.rotations /\ world'.lines = world.lines
  <2>1. world \in World /\ world.faults \in Nat /\ world.faults > 0 /\ MaxFaults \in Nat
    BY <1>1, <1>5, TailerAssumption DEF TypeOK, World, Fault
  <2>2. world.faults - 1 \in 0 .. MaxFaults
    BY <2>1 DEF World
  <2>. QED  BY <1>5, <2>1, <2>2 DEF Fault, World
<1>6. ASSUME tails' \in [Key -> TailState], \A k \in Key : Moves(k), checkpoint' = checkpoint, Silent,
             pod' \in {"unknown", "known", "excluded", "deleted"}, pod' = "deleted" => pod = "deleted",
             gaveUp' \in BOOLEAN, before' \in SUBSET Key,
             /\ world' \in World
             /\ world'.rotations = world.rotations /\ world'.lines = world.lines,
             Gated'
      PROVE  IndInv'
  <2>1. TypeOK'
    BY <1>1, <1>6 DEF TypeOK, Silent
  <2>2. Generations'
    BY <1>1, <1>6 DEF Generations, Silent
  <2>3. Recorded' /\ Finished'
    BY <1>1, <1>6, SilentFacts
  <2>4. Keys' /\ Resumed' /\ Following'
    BY <1>1, <1>6, TailsMove
  <2>. QED  BY <1>6, <2>1, <2>2, <2>3, <2>4 DEF IndInv
<1>7. CASE Restart
  <2>. USE DEF Restart, history, Listed
  <2>1. tails' \in [Key -> TailState] /\ \A k \in Key : tails'[k] = Tail0
    BY <1>7, Tail0Type
  <2>2. Silent /\ checkpoint' = checkpoint /\ gaveUp' = gaveUp /\ before' = {}
    BY <1>7, <1>5 DEF Silent
  <2>3. pod' \in {"unknown", "known", "excluded", "deleted"} /\ (pod' = "deleted" => pod = "deleted")
    BY <1>1, <1>7 DEF TypeOK
  <2>4. Gated'
    <3>1. Admitted' = {}
      BY <2>1, Tail0Type DEF Admitted
    <3>. QED  BY <1>1, <2>2, <2>3, <3>1 DEF Gated, Silent
  <2>. QED  BY <1>1, <1>5, <1>6, <1>7, <2>1, <2>2, <2>3, <2>4 DEF TypeOK
<1>8. ASSUME NEW k \in Key, Await(k)
      PROVE  IndInv'
  <2>. USE DEF Await, fileVars
  <2>1. /\ Silent /\ UNCHANGED <<pod, world, checkpoint>> /\ gaveUp' = (gaveUp \/ ~Ready)
        /\ before' = before \ {k}
    BY <1>8 DEF Silent, Checked
  <2>2. tails[k].pc = "await" /\ tails[k].pc \in Reads /\ "pump" \in Reads
    BY <1>8 DEF Reads
  <2>3. /\ tails' \in [Key -> TailState] /\ \A j \in Key : Moves(j)
        /\ tails'[k].pc = "none" \/ (tails'[k].pc = "pump" /\ ShouldIngest)
        /\ \A j \in Key : j # k => tails'[j] = tails[j]
    BY <1>3, <1>4, <1>8, <2>2, Tail0Type DEF Checked
  <2>4. Gated'
    <3>1. gaveUp \in BOOLEAN
      BY <1>1 DEF TypeOK
    <3>2. pod = "excluded" => Admitted' \subseteq Admitted \ {k}
      BY <2>3 DEF Admitted, ShouldIngest
    <3>. QED  BY <1>1, <2>1, <3>1, <3>2 DEF Gated, Ready, Silent
  <2>5. gaveUp' \in BOOLEAN /\ before' \in SUBSET Key
    BY <1>1, <2>1 DEF Ready, TypeOK
  <2>. QED  BY <1>1, <1>6, <2>1, <2>3, <2>4, <2>5 DEF TypeOK
<1>9. ASSUME NEW k \in Key, Stat(k)
      PROVE  IndInv'
  <2>. USE DEF Stat, fileVars, history, gateVars
  <2>1. Silent /\ UNCHANGED <<pod, world, checkpoint, gaveUp, before>>
    BY <1>9 DEF Silent
  <2>2. tails[k].pc = "eof" /\ tails[k].pc \in Reads /\ "pump" \in Reads /\ "drain" \in Reads
    BY <1>9 DEF Reads
  <2>3. /\ tails' \in [Key -> TailState] /\ \A j \in Key : Moves(j)
        /\ \A j \in Key : j # k => tails'[j] = tails[j]
    BY <1>3, <1>9, <2>2
  <2>4. Gated'
    <3>1. \A j \in Key : tails'[j].pc \in {"pump", "eof", "drain"} =>
                            tails[j].pc \in {"pump", "eof", "drain"}
      BY <2>2, <2>3
    <3>. QED  BY <1>1, <2>1, <3>1, GatedStays DEF Silent
  <2>. QED  BY <1>1, <1>6, <2>1, <2>3, <2>4 DEF TypeOK
<1>10. ASSUME NEW k \in Key, ReadFails(k)
       PROVE  IndInv'
  <2>. USE DEF ReadFails, history, gateVars
  <2>1. Silent /\ UNCHANGED <<pod, checkpoint, gaveUp, before>>
    BY <1>10 DEF Silent
  <2>2. /\ tails' \in [Key -> TailState] /\ \A j \in Key : Moves(j)
        /\ tails'[k] = Tail0 /\ \A j \in Key : j # k => tails'[j] = tails[j]
    BY <1>4, <1>10
  <2>3. Gated'
    BY <1>1, <2>1, <2>2, Tail0Type, GatedStays DEF Silent
  <2>. QED  BY <1>1, <1>5, <1>6, <1>10, <2>1, <2>2, <2>3 DEF TypeOK
<1>. QED  BY <1>7, <1>8, <1>9, <1>10

\* A tail opens what the path names.  If that is its own generation it begins
\* where everything before was sent and no entry is under way.
LEMMA OpenKeeps ==
    ASSUME IndInv, NEW k \in Key, Open(k)
    PROVE  IndInv'
PROOF
<1>. USE DEF Open, fileVars, history, gateVars
<1>1. TypeOK /\ Generations /\ Keys /\ Recorded /\ Resumed /\ Following /\ Finished /\ Gated
  BY DEF IndInv
<1>2. Silent /\ UNCHANGED <<world, pod, checkpoint, gaveUp, before>> /\ tails[k].pc = "open"
  BY DEF Silent
<1>3. tails \in [Key -> TailState] /\ tails[k] \in TailState
  BY <1>1 DEF TypeOK
<1>4. Recorded' /\ Finished'
  BY <1>1, <1>2, SilentFacts
<1>5. Generations'
  BY <1>1, <1>2 DEF Generations, Silent
<1>6. CASE path = 0
  <2>1. tails' \in [Key -> TailState] /\ \A j \in Key : tails'[j] \in {tails[j], Tail0}
    BY <1>3, <1>6, Tail0Type DEF EndTail
  <2>2. TypeOK'
    BY <1>1, <1>2, <2>1 DEF TypeOK, Silent
  <2>3. Keys' /\ Resumed' /\ Following'
    BY <1>1, <1>2, <2>1, TailsMove
  <2>4. Gated'
    BY <1>1, <1>2, <2>1, Tail0Type, GatedStays DEF Silent
  <2>. QED  BY <1>4, <1>5, <2>2, <2>3, <2>4 DEF IndInv
<1>7. CASE path # 0
  <2>1. path = Len(inode) /\ path \in Gen /\ path \in 1 .. Len(inode)
    BY <1>1, <1>7, LatestFacts DEF Generations, TypeOK
  <2>. DEFINE t == [tails[k] EXCEPT !.pc = "await", !.file = path]
  <2>2. /\ t \in TailState /\ t.pc = "await" /\ t.file = path /\ t.off = tails[k].off
        /\ t.partials = tails[k].partials
    BY <1>3, <2>1 DEF TailState
  <2>3. tails' = [tails EXCEPT ![k] = t]
    BY <1>3, <1>7
  <2>. HIDE DEF t
  <2>4. /\ tails' \in [Key -> TailState] /\ tails'[k] = t
        /\ \A j \in Key : j # k => tails'[j] = tails[j]
    BY <1>3, <2>2, <2>3
  <2>5. TypeOK'
    BY <1>1, <1>2, <2>4 DEF TypeOK, Silent
  <2>6. Keys'
    <3>1. k.birth <= Len(inode) /\ path \in k.birth .. Len(inode)
      <4>1. k.birth <= Len(inode)
        BY <1>1, <1>2 DEF Keys
      <4>. QED  BY <1>1, <2>1, <4>1, LatestFacts, KeyFacts
    <3>2. ASSUME NEW j \in Key
          PROVE  /\ tails'[j].pc = "none" => tails'[j] = Tail0
                 /\ tails'[j].pc = "open" => tails'[j].file = 0 /\ tails'[j].partials = {}
                 /\ tails'[j].pc # "none" \/ checkpoint[j] # 0 => j.birth <= Len(inode)
                 /\ tails'[j].pc \in Reads => tails'[j].file \in j.birth .. Len(inode)
      <4>1. CASE j = k
        BY <2>2, <2>4, <3>1, <4>1
      <4>2. CASE j # k
        BY <1>1, <2>4, <4>2 DEF Keys, Reads
      <4>. QED  BY <4>1, <4>2
    <3>. QED  BY <1>1, <1>2, <3>2 DEF Keys, Silent, Reads
  <2>7. Resumed'
    <3>1. \A j \in Key : tails'[j].pc = "open" => tails'[j] = tails[j]
      BY <2>2, <2>4
    <3>. QED  BY <1>1, <1>2, <3>1, SilentFacts DEF Resumed, Silent
  <2>8. Following'
    <3>. SUFFICES ASSUME NEW g \in Gen, NEW j \in Key, g = tails'[j].file, j = KeyOf(g)
                  PROVE  /\ Passed(written[g], SentOf(g), tails'[j].off)
                         /\ tails'[j].partials = Pending(written[g], tails'[j].off)
      BY <1>2, SilentFacts DEF Following, Silent
    <3>1. CASE j # k
      BY <1>1, <2>4, <3>1 DEF Following
    <3>2. CASE j = k
      <4>1. g = Len(inode) /\ written[g] \in Seq(Kind)
        BY <1>1, <2>1, <2>2, <2>4, <3>2 DEF TypeOK
      <4>2. Resumable(written[g], SentOf(g), tails[k].off) /\ tails[k].partials = {}
        BY <1>1, <1>2, <3>2, <4>1 DEF Resumed, Keys
      <4>3. tails[k].off \in {0} \cup FullLines(written[g]) /\ Passed(written[g], SentOf(g), tails[k].off)
        BY <4>2 DEF Resumable
      <4>4. Pending(written[g], tails[k].off) = {}
        BY <4>1, <4>3, NothingPending
      <4>. QED  BY <2>2, <2>4, <3>2, <4>2, <4>3, <4>4
    <3>. QED  BY <3>1, <3>2
  <2>9. Gated'
    <3>1. \A j \in Key : tails'[j].pc \in {"pump", "eof", "drain"} => tails'[j] = tails[j]
      BY <2>2, <2>4
    <3>. QED  BY <1>1, <1>2, <3>1, GatedStays DEF Silent
  <2>. QED  BY <1>4, <1>5, <2>5, <2>6, <2>7, <2>8, <2>9 DEF IndInv
<1>. QED  BY <1>6, <1>7

\* A new tail of the latest generation starts from an offset that was committed:
\* its own, since no other file was read under this key.
LEMMA DiscoverKeeps ==
    ASSUME IndInv, Discover
    PROVE  IndInv'
PROOF
<1>1. TypeOK /\ Generations /\ Keys /\ Recorded /\ Resumed /\ Following /\ Finished /\ Gated
  BY DEF IndInv
<1>2. Silent /\ UNCHANGED <<world, pod, gaveUp, before>> /\ path # 0
  BY DEF Discover, fileVars, history, gateVars, Silent
<1>. DEFINE n == Len(inode)
            c == KeyOf(path)
<1>3. path = n /\ n \in Gen /\ n \in 1 .. Len(inode) /\ n \in Nat
  BY <1>1, <1>2, LatestFacts DEF Generations, TypeOK
<1>4. c \in Key /\ c.birth = n /\ c = KeyOf(n)
  BY <1>1, <1>3, GenFacts
<1>5. PICK o \in Committed(c) :
        /\ checkpoint' = [checkpoint EXCEPT ![c] = o]
        /\ tails' = [tails EXCEPT ![c] = [Tail0 EXCEPT !.pc = "open", !.off = o]]
  BY DEF Discover
<1>. HIDE DEF c
<1>6. o \in Position /\ Resumable(written[n], SentOf(n), o)
  <2>1. CASE o = checkpoint[c]
    BY <1>1, <1>3, <1>4, <2>1, TailFacts DEF Resumed
  <2>2. CASE o # checkpoint[c]
    <3>1. PICK r \in sent : r.key = c /\ o = r.off
      BY <1>5, <2>2 DEF Committed
    <3>2. r.file \in Gen /\ r.off \in Position
      BY <1>1, RecFacts
    <3>3. r.file \in n .. n
      BY <1>1, <1>4, <3>1 DEF Keys
    <3>4. r.file = n
      BY <1>3, <3>3
    <3>. QED  BY <1>1, <1>4, <3>1, <3>2, <3>4 DEF Recorded
  <2>. QED  BY <2>1, <2>2
<1>7. /\ tails \in [Key -> TailState] /\ checkpoint \in [Key -> Position]
  BY <1>1 DEF TypeOK
<1>. DEFINE t == [Tail0 EXCEPT !.pc = "open", !.off = o]
<1>8. t \in TailState /\ t.pc = "open" /\ t.file = 0 /\ t.off = o /\ t.partials = {}
  BY <1>6, Tail0Type DEF TailState, Tail0
<1>9. tails' = [tails EXCEPT ![c] = t]
  BY <1>5
<1>. HIDE DEF t
<1>10. /\ tails' \in [Key -> TailState] /\ tails'[c] = t
       /\ \A j \in Key : j # c => tails'[j] = tails[j]
       /\ checkpoint' \in [Key -> Position] /\ checkpoint'[c] = o
       /\ \A j \in Key : j # c => checkpoint'[j] = checkpoint[j]
  <2>1. checkpoint' = [checkpoint EXCEPT ![c] = o]
    BY <1>5
  <2>. QED  BY <1>4, <1>6, <1>7, <1>8, <1>9, <2>1
<1>11. TypeOK'
  BY <1>1, <1>2, <1>10 DEF TypeOK, Silent
<1>12. Generations'
  BY <1>1, <1>2 DEF Generations, Silent
<1>13. Recorded' /\ Finished'
  BY <1>1, <1>2, SilentFacts
<1>14. Keys'
  <2>1. ASSUME NEW j \in Key
        PROVE  /\ tails'[j].pc = "none" => tails'[j] = Tail0
               /\ tails'[j].pc = "open" => tails'[j].file = 0 /\ tails'[j].partials = {}
               /\ tails'[j].pc # "none" \/ checkpoint'[j] # 0 => j.birth <= Len(inode)
               /\ tails'[j].pc \in Reads => tails'[j].file \in j.birth .. Len(inode)
    <3>1. CASE j = c
      BY <1>3, <1>4, <1>8, <1>10, <3>1 DEF Reads
    <3>2. CASE j # c
      BY <1>1, <1>10, <3>2 DEF Keys, Reads
    <3>. QED  BY <3>1, <3>2
  <2>. QED  BY <1>1, <1>2, <2>1 DEF Keys, Silent, Reads
<1>15. Resumed'
  <2>. SUFFICES ASSUME NEW g \in Gen, NEW j \in Key, g = n, j = KeyOf(g)
                PROVE  /\ Resumable(written[g], SentOf(g), checkpoint'[j])
                       /\ tails'[j].pc = "open" => Resumable(written[g], SentOf(g), tails'[j].off)
    BY <1>2, SilentFacts DEF Resumed, Silent
  <2>1. j = c
    BY <1>4
  <2>. QED  BY <1>6, <1>8, <1>10, <2>1
<1>16. Following'
  <2>1. \A j \in Key : tails'[j].file \in Gen => tails'[j] = tails[j]
    BY <1>8, <1>10, TailerAssumption DEF Gen
  <2>. QED  BY <1>1, <1>2, <2>1, SilentFacts DEF Following, Silent
<1>17. Gated'
  <2>1. \A j \in Key : tails'[j].pc \in {"pump", "eof", "drain"} => tails'[j] = tails[j]
    BY <1>8, <1>10
  <2>. QED  BY <1>1, <1>2, <2>1, GatedStays DEF Silent
<1>. QED  BY <1>11, <1>12, <1>13, <1>14, <1>15, <1>16, <1>17 DEF IndInv

-----------------------------------------------------------------------------
(* Reading.                                                                *)

\* A step that leaves fileVars alone leaves each of them alone.
LEMMA FilesStay ==
    ASSUME fileVars' = fileVars
    PROVE  UNCHANGED <<path, writer, world, written, inode>>
BY DEF fileVars

\* A read to the end of the file.  Under the file's own key it sends every entry
\* that is complete by then, each whole.
LEMMA PumpStep ==
    ASSUME IndInv, NEW k \in Key, NEW pc \in {"eof", "none"}, tails[k].pc \in {"pump", "drain"},
           PumpTo(k, pc), UNCHANGED <<fileVars, pod, checkpoint, gaveUp, before>>
    PROVE  /\ tails' \in [Key -> TailState] /\ sent' \in SUBSET Rec /\ bare' \in BOOLEAN /\ late' \in BOOLEAN
           /\ Onward
           /\ Keys' /\ Recorded' /\ Resumed' /\ Following' /\ Gated'
           /\ \A g \in Gen : g = tails[k].file /\ k = KeyOf(g) =>
                g \in 1 .. Len(inode) /\ FullLines(written[g]) \subseteq SentOf(g)'
PROOF
<1>1. TypeOK /\ Generations /\ Keys /\ Recorded /\ Resumed /\ Following /\ Finished /\ Gated
  BY DEF IndInv
<1>2. UNCHANGED <<path, writer, world, written, inode, pod, checkpoint, gaveUp, before>>
  <2>1. /\ fileVars' = fileVars /\ pod' = pod /\ checkpoint' = checkpoint /\ gaveUp' = gaveUp
        /\ before' = before
    OBVIOUS
  <2>2. UNCHANGED <<path, writer, world, written, inode>>
    BY <2>1, FilesStay
  <2>. QED  BY <2>1, <2>2
<1>0. PICK g : g = tails[k].file
  OBVIOUS
<1>. DEFINE t == tails[k]
            lines == written[g]
            end == PumpedUpTo(lines, t.off, t.partials)[Unread(lines, t.off)]
            new == {[key |-> k, file |-> g, off |-> d[1], lines |-> d[2]] : d \in end.done}
            u == IF pc = "none" THEN Tail0
                 ELSE [pc |-> pc, file |-> g, off |-> end.off, partials |-> end.partials]
<1>3. /\ tails' = [tails EXCEPT ![k] = u]
      /\ sent' = sent \cup new
      /\ bare' = (bare \/ (end.done # {} /\ ~Ready))
      /\ late' = (late \/ (end.done # {} /\ pod = "excluded" /\ k \notin before))
  BY <1>0, Zenon DEF PumpTo
<1>4. /\ t.off \in Nat /\ t.off \in Position /\ t.partials \in SUBSET Nat /\ t.partials \in SUBSET Position
      /\ g \in {0} \cup Gen
  BY <1>0, <1>1, TailFacts
<1>5. g \in k.birth .. Len(inode)
  BY <1>0, <1>1 DEF Keys
<1>6. g \in Gen /\ g \in 1 .. Len(inode) /\ lines \in Seq(Kind) /\ Len(lines) \in Position
  <2>1. g \in 1 .. Len(inode)
    BY <1>1, <1>5, LatestFacts, KeyFacts
  <2>. QED  BY <1>1, <2>1, GenFacts DEF TypeOK
<1>7. /\ end \in Reading
      /\ end.off = IF Len(lines) > t.off THEN Len(lines) ELSE t.off
      /\ end.partials \subseteq t.partials \cup 1 .. end.off
      /\ \A d \in end.done : d[1] \in 1 .. end.off /\ d[2] \subseteq t.partials \cup 1 .. end.off
  <2>. HIDE DEF t, lines
  <2>. QED  BY <1>4, <1>6, PumpBounds
<1>. HIDE DEF end
<1>8. end.off \in Position /\ \A n \in 1 .. end.off : n \in Position
  <2>1. end.off \in Position
    BY <1>4, <1>6, <1>7
  <2>2. \A n \in 1 .. end.off : n \in 0 .. end.off
    OBVIOUS
  <2>. QED  BY <2>1, <2>2, PositionFacts
<1>9. end.partials \in SUBSET Position
      /\ \A d \in end.done : d[1] \in Position /\ d[2] \in SUBSET Position
  BY <1>4, <1>7, <1>8
<1>10. u \in TailState /\ u.pc = pc /\ u.file \in {0, g}
       /\ (u.file # 0 => u.off = end.off /\ u.partials = end.partials)
       /\ (u.pc = "none" => u = Tail0) /\ (u.pc = "eof" => u.file = g)
  <2>1. CASE pc = "none"
    BY <2>1, Tail0Type
  <2>2. CASE pc = "eof"
    BY <1>6, <1>8, <1>9, <2>2 DEF TailState
  <2>. QED  BY <2>1, <2>2
<1>11. new \in SUBSET Rec /\ \A r \in new : r.key = k /\ r.file = g
  <2>1. \A d \in end.done : [key |-> k, file |-> g, off |-> d[1], lines |-> d[2]] \in Rec
    BY <1>6, <1>9 DEF Rec
  <2>. QED  BY <2>1
<1>12. /\ \A d \in end.done : \E r \in new : r.key = k /\ r.file = g /\ r.off = d[1]
       /\ \A r \in new : \E d \in end.done : r.off = d[1] /\ r.lines = d[2]
  <2>1. ASSUME NEW d \in end.done
        PROVE  \E r \in new : r.key = k /\ r.file = g /\ r.off = d[1]
    <3>. DEFINE r == [key |-> k, file |-> g, off |-> d[1], lines |-> d[2]]
    <3>1. r \in new /\ r.key = k /\ r.file = g /\ r.off = d[1]
      OBVIOUS
    <3>. QED  BY <3>1
  <2>. QED  BY <2>1
<1>. HIDE DEF u, new
<1>13. /\ tails \in [Key -> TailState] /\ tails' \in [Key -> TailState] /\ tails'[k] = u
       /\ \A j \in Key : j # k => tails'[j] = tails[j]
  BY <1>1, <1>3, <1>10 DEF TypeOK
<1>14. sent' \in SUBSET Rec /\ sent \subseteq sent'
  BY <1>1, <1>3, <1>11 DEF TypeOK
<1>15. Onward
  BY <1>1, <1>2, <1>14, UnchangedGrows
<1>16. \A h \in Gen : KeyOf(h)' = KeyOf(h)
  BY <1>2 DEF KeyOf
<1>17. ASSUME k = KeyOf(g)
       PROVE  /\ end.off = Len(lines) /\ end.partials = Pending(lines, Len(lines))
              /\ \A d \in end.done : d[1] \in FullLines(lines) /\ d[2] = Entry(lines, d[1])
              /\ FullLines(lines) \subseteq SentOf(g)'
  <2>1. Passed(lines, SentOf(g), t.off) /\ t.partials = Pending(lines, t.off)
    BY <1>0, <1>1, <1>6, <1>17 DEF Following
  <2>2. t.off <= Len(lines)
    BY <2>1 DEF Passed
  <2>3. end = PumpedUpTo(lines, t.off, Pending(lines, t.off))[Unread(lines, t.off)]
    BY <2>1 DEF end
  <2>4. /\ end.off = Len(lines)
        /\ end.partials = Pending(lines, Len(lines))
        /\ \A d \in end.done : d[1] \in FullLines(lines) /\ d[1] > t.off /\ d[2] = Entry(lines, d[1])
        /\ \A m \in FullLines(lines) : m > t.off => \E d \in end.done : d[1] = m
    <3>. HIDE DEF t, lines
    <3>. QED  BY <1>4, <1>6, <2>2, <2>3, PumpExact
  <2>5. ASSUME NEW m \in FullLines(lines)
        PROVE  m \in SentOf(g)'
    <3>1. CASE m <= t.off
      <4>1. m \in SentOf(g)
        BY <2>1, <3>1 DEF Passed
      <4>. QED  BY <1>1, <1>6, <1>15, <4>1, OnwardFacts
    <3>2. CASE m > t.off
      <4>1. PICK d \in end.done : d[1] = m
        BY <2>4, <3>2
      <4>2. PICK r \in new : r.key = k /\ r.file = g /\ r.off = d[1]
        BY <1>12, <4>1
      <4>3. r \in sent' /\ r.key = KeyOf(g)' /\ r.file = g /\ r.off = m
        BY <1>3, <1>6, <1>16, <1>17, <4>1, <4>2
      <4>. QED  BY <4>3 DEF SentOf
    <3>3. m \in Nat
      BY <1>6 DEF FullLines
    <3>. QED  BY <1>4, <3>1, <3>2, <3>3
  <2>. QED  BY <2>4, <2>5
<1>. HIDE DEF lines, t
<1>18. Keys'
  <2>1. ASSUME NEW j \in Key
        PROVE  /\ tails'[j].pc = "none" => tails'[j] = Tail0
               /\ tails'[j].pc = "open" => tails'[j].file = 0 /\ tails'[j].partials = {}
               /\ tails'[j].pc # "none" \/ checkpoint[j] # 0 => j.birth <= Len(inode)
               /\ tails'[j].pc \in Reads => tails'[j].file \in j.birth .. Len(inode)
    <3>1. CASE j # k
      BY <1>1, <1>13, <3>1 DEF Keys, Reads
    <3>2. CASE j = k
      <4>1. k.birth <= Len(inode)
        BY <1>1 DEF Keys
      <4>. QED  BY <1>5, <1>10, <1>13, <3>2, <4>1 DEF Reads
    <3>. QED  BY <3>1, <3>2
  <2>2. \A r \in sent' : r.file \in r.key.birth .. Len(inode)
    BY <1>1, <1>3, <1>5, <1>11 DEF Keys
  <2>. QED  BY <1>2, <2>1, <2>2 DEF Keys, Reads
<1>19. Recorded'
  <2>. SUFFICES ASSUME NEW r \in sent', r.key = KeyOf(r.file)'
                PROVE  /\ Resumable(written'[r.file], SentOf(r.file)', r.off)
                       /\ r.lines = Entry(written'[r.file], r.off)
    BY DEF Recorded
  <2>1. CASE r \in sent
    BY <1>1, <1>15, <2>1, RecordStays
  <2>2. CASE r \in new
    <3>1. r.file = g /\ k = KeyOf(g)
      BY <1>6, <1>11, <1>16, <2>2
    <3>2. PICK d \in end.done : r.off = d[1] /\ r.lines = d[2]
      BY <1>12, <2>2
    <3>3. r.off \in FullLines(lines) /\ r.lines = Entry(lines, r.off) /\ FullLines(lines) \subseteq SentOf(g)'
      BY <1>17, <3>1, <3>2
    <3>4. r.off <= Len(lines)
      BY <1>6, <3>3 DEF FullLines
    <3>5. Resumable(lines, SentOf(g)', r.off)
      BY <3>3, <3>4 DEF Resumable, Passed
    <3>6. written'[g] = lines
      BY <1>2 DEF lines
    <3>. QED  BY <3>1, <3>3, <3>5, <3>6
  <2>. QED  BY <1>3, <2>1, <2>2
<1>20. Resumed'
  <2>. SUFFICES ASSUME NEW h \in Gen, NEW j \in Key, h = Len(inode), j = KeyOf(h)
                PROVE  /\ Resumable(written'[h], SentOf(h)', checkpoint[j])
                       /\ tails'[j].pc = "open" => Resumable(written'[h], SentOf(h)', tails'[j].off)
    BY <1>2, <1>16 DEF Resumed
  <2>1. h \in 1 .. Len(inode)
    BY <1>1, LatestFacts
  <2>2. tails'[j].pc = "open" => tails'[j] = tails[j]
    BY <1>10, <1>13
  <2>3. checkpoint[j] \in Nat /\ tails[j].off \in Nat
    BY <1>1, TailFacts
  <2>. QED  BY <1>1, <1>15, <2>1, <2>2, <2>3, StartStays DEF Resumed
<1>21. Following'
  <2>. SUFFICES ASSUME NEW h \in Gen, NEW j \in Key, h = tails'[j].file, j = KeyOf(h)'
                PROVE  /\ Passed(written'[h], SentOf(h)', tails'[j].off)
                       /\ tails'[j].partials = Pending(written'[h], tails'[j].off)
    BY DEF Following
  <2>1. CASE j # k
    BY <1>1, <1>13, <1>15, <2>1, TailStays
  <2>2. CASE j = k
    <3>1. h = g /\ k = KeyOf(g) /\ tails'[j] = u /\ u.off = end.off /\ u.partials = end.partials
      BY <1>10, <1>13, <1>16, <2>2, TailerAssumption DEF Gen
    <3>2. /\ end.off = Len(lines) /\ end.partials = Pending(lines, Len(lines))
          /\ FullLines(lines) \subseteq SentOf(g)'
      BY <1>17, <3>1
    <3>3. Len(lines) <= Len(lines)
      BY <1>6
    <3>4. Passed(lines, SentOf(g)', Len(lines))
      BY <3>2, <3>3 DEF Passed
    <3>5. written'[g] = lines
      BY <1>2 DEF lines
    <3>. QED  BY <3>1, <3>2, <3>4, <3>5
  <2>. QED  BY <2>1, <2>2
<1>22. Gated'
  <2>1. k \in Admitted
    BY DEF Admitted
  <2>2. ~late /\ (pod = "excluded" => k \in before)
    BY <1>1, <2>1 DEF Gated
  <2>3. ~late'
    BY <1>3, <2>2
  <2>4. Admitted' \subseteq Admitted
    BY <1>13, <2>1 DEF Admitted
  <2>5. ASSUME ~gaveUp
        PROVE  ~bare' /\ Ready /\ pod # "deleted"
    <3>1. Ready /\ ~bare /\ pod # "deleted"
      BY <1>1, <2>1, <2>5 DEF Gated
    <3>. QED  BY <1>3, <3>1
  <2>. QED  BY <1>1, <1>2, <2>3, <2>4, <2>5 DEF Gated, Ready
<1>23. bare' \in BOOLEAN /\ late' \in BOOLEAN
  BY <1>1, <1>3 DEF TypeOK, Ready
<1>24. ASSUME NEW h \in Gen, h = tails[k].file, k = KeyOf(h)
       PROVE  h \in 1 .. Len(inode) /\ FullLines(written[h]) \subseteq SentOf(h)'
  BY <1>0, <1>6, <1>17, <1>24 DEF lines
<1>. QED  BY <1>13, <1>14, <1>15, <1>18, <1>19, <1>20, <1>21, <1>22, <1>23, <1>24

\* A read, and the last one of a file the path names no more.
LEMMA PumpKeeps ==
    ASSUME IndInv, NEW k \in Key, Pump(k) \/ Drain(k)
    PROVE  IndInv'
PROOF
<1>1. TypeOK /\ Generations /\ Keys /\ Recorded /\ Resumed /\ Following /\ Finished /\ Gated
  BY DEF IndInv
<1>2. /\ UNCHANGED <<fileVars, pod, checkpoint, gaveUp, before>>
      /\ UNCHANGED <<path, writer, world, written, inode, pod, checkpoint, gaveUp, before>>
  BY DEF Pump, Drain, fileVars
<1>3. /\ tails[k].pc \in {"pump", "drain"}
      /\ PumpTo(k, "eof") \/ PumpTo(k, "none")
  BY DEF Pump, Drain
<1>4. /\ tails' \in [Key -> TailState] /\ sent' \in SUBSET Rec /\ bare' \in BOOLEAN /\ late' \in BOOLEAN
      /\ Onward
      /\ Keys' /\ Recorded' /\ Resumed' /\ Following' /\ Gated'
      /\ \A g \in Gen : g = tails[k].file /\ k = KeyOf(g) =>
            g \in 1 .. Len(inode) /\ FullLines(written[g]) \subseteq SentOf(g)'
  BY <1>2, <1>3, PumpStep
<1>. DEFINE f == tails[k].file
<1>5. \/ drained' = drained /\ early' = early
      \/ /\ drained' = IF k = KeyOf(f) THEN drained \cup {f} ELSE drained
         /\ early' = IF k = KeyOf(f) /\ f = writer THEN early \cup {f} ELSE early
  BY DEF Pump, Drain, Drains
<1>6. f \in Gen
  <2>1. f \in k.birth .. Len(inode)
    BY <1>1, <1>3 DEF Keys
  <2>. QED  BY <1>1, <2>1, TailFacts, KeyFacts, LatestFacts DEF Gen
<1>. HIDE DEF f
<1>7. TypeOK'
  BY <1>1, <1>2, <1>4, <1>5, <1>6 DEF TypeOK
<1>8. Generations'
  BY <1>1, <1>2 DEF Generations
<1>9. Finished'
  <2>. SUFFICES ASSUME NEW g \in drained' \ early'
                PROVE  /\ g <= Len(inode) /\ g # writer
                       /\ FullLines(written[g]) \subseteq SentOf(g)'
    BY <1>2 DEF Finished
  <2>1. CASE g \in drained \ early
    <3>1. g \in Gen /\ g <= Len(inode) /\ g # writer /\ FullLines(written[g]) \subseteq SentOf(g)
      BY <1>1, <2>1 DEF Finished, TypeOK
    <3>2. g \in 1 .. Len(inode)
      BY <1>1, <3>1, LatestFacts, TailerAssumption DEF Gen
    <3>. QED  BY <1>1, <1>4, <3>1, <3>2, OnwardFacts
  <2>2. CASE g = f /\ k = KeyOf(g) /\ g # writer
    <3>1. g \in 1 .. Len(inode) /\ FullLines(written[g]) \subseteq SentOf(g)'
      BY <1>4, <1>6, <2>2 DEF f
    <3>. QED  BY <1>1, <2>2, <3>1, LatestFacts
  <2>. QED  BY <1>5, <2>1, <2>2
<1>. QED  BY <1>4, <1>7, <1>8, <1>9 DEF IndInv

-----------------------------------------------------------------------------
(* The theorems.                                                           *)

\* The inductive invariant holds in every reachable state.
THEOREM TailerInvariant == Spec => []IndInv
PROOF
<1>1. IndInv /\ [Next]_vars => IndInv'
  <2>. SUFFICES ASSUME IndInv, [Next]_vars
                PROVE  IndInv'
    OBVIOUS
  <2>1. CASE Write
    BY <2>1, WriteKeeps
  <2>2. CASE Rename \/ LogRemoved \/ Annotate \/ Upsert \/ PodRemoved
    BY <2>2, NameKeeps
  <2>3. CASE Reopen
    BY <2>3, ReopenKeeps
  <2>4. CASE Discover
    BY <2>4, DiscoverKeeps
  <2>5. CASE Restart \/ \E k \in Key : Await(k) \/ Stat(k) \/ ReadFails(k)
    BY <2>5, MoveKeeps
  <2>6. ASSUME NEW k \in Key, Open(k)
        PROVE  IndInv'
    BY <2>6, OpenKeeps
  <2>7. ASSUME NEW k \in Key, Pump(k) \/ Drain(k)
        PROVE  IndInv'
    BY <2>7, PumpKeeps
  <2>8. CASE UNCHANGED vars
    <3>. USE DEF vars, fileVars, tailVars, history, gateVars
    <3>1. Silent
      BY <2>8 DEF Silent
    <3>2. TypeOK' /\ Generations'
      BY <2>8 DEF IndInv, TypeOK, Generations
    <3>3. Recorded' /\ Finished'
      BY <3>1, SilentFacts DEF IndInv
    <3>4. Keys' /\ Resumed' /\ Following'
      BY <2>8, <3>1, TailsMove DEF IndInv, TypeOK
    <3>5. Gated'
      BY <2>8, GatedStays DEF IndInv
    <3>. QED  BY <3>2, <3>3, <3>4, <3>5 DEF IndInv
  <2>. QED  BY <2>1, <2>2, <2>3, <2>4, <2>5, <2>6, <2>7, <2>8 DEF Next, TailStep
<1>. QED  BY <1>1, InitKeeps, PTL DEF Spec

\* Offsets, checkpoints and records stay within the log, and the generations
\* within their bound.
THEOREM TailerTypes == Spec => []TypeOK
PROOF
<1>1. IndInv => TypeOK
  BY DEF IndInv
<1>. QED  BY <1>1, TailerInvariant, PTL

\* A record is one whole log entry: neither a restart nor a checkpoint nor a
\* line the parser rejects cuts an entry in two (consume).
THEOREM EntriesAlwaysWhole == Spec => []WholeEntries
PROOF
<1>1. IndInv => WholeEntries
  BY DEF IndInv, Recorded, WholeEntries
<1>. QED  BY <1>1, TailerInvariant, PTL

\* A tail of its own file has sent all up to its offset, whatever inode was used
\* again and whatever an earlier tail had opened under its key (Source.Key).
THEOREM TailsSkipNothing == Spec => []NothingSkipped
PROOF
<1>1. IndInv => NothingSkipped
  <2>. SUFFICES ASSUME IndInv, NEW k \in Key, tails[k].file # 0, k = KeyOf(tails[k].file)
                PROVE  \A n \in FullLines(written[tails[k].file]) :
                        n <= tails[k].off => n \in SentOf(tails[k].file)
    BY DEF NothingSkipped
  <2>1. tails[k].file \in Gen
    BY TailFacts DEF IndInv
  <2>. QED  BY <2>1 DEF IndInv, Following, Passed
<1>. QED  BY <1>1, TailerInvariant, PTL

\* The metadata wait gates every send, and a pod that opts out is sent by no tail
\* that asks after that (awaitMetadata, upsert, ShouldIngest).
THEOREM SendsAlwaysGated == Spec => []GatedByMetadata
PROOF
<1>1. IndInv => GatedByMetadata
  BY DEF IndInv, Gated, GatedByMetadata
<1>. QED  BY <1>1, TailerInvariant, PTL

\* What the runtime had left is sent to the last line before its tail ends
\* (fileTail.run).
THEOREM DrainsAll == Spec => []DrainedUnlessEarly
PROOF
<1>1. IndInv => DrainedUnlessEarly
  BY DEF IndInv, Finished, DrainedUnlessEarly
<1>. QED  BY <1>1, TailerInvariant, PTL
=============================================================================
