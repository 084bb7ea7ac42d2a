-------------------------------- MODULE Seqs --------------------------------
(***************************************************************************)
(* The loops the code runs over a slice, as recursive functions of the     *)
(* index.  SelectSeq and the folds take an operator, which hides them from *)
(* the provers; these take sets and functions instead, and module          *)
(* DataLemmas says what they compute.                                      *)
(***************************************************************************)
EXTENDS Integers, Sequences

\* After i rounds of a loop that keeps the elements at the indices of T.
KeptUpTo(s, T) ==
    LET kept[i \in 0 .. Len(s)] ==
            IF i = 0 THEN <<>>
            ELSE IF i \in T THEN Append(kept[i - 1], s[i]) ELSE kept[i - 1]
    IN  kept
\* The elements of s at the indices of T, in the order of s.
KeepAt(s, T) == KeptUpTo(s, T)[Len(s)]

\* After i rounds of a loop that adds up the numbers of f.
TotalUpTo(f) ==
    LET total[i \in 0 .. Len(f)] == IF i = 0 THEN 0 ELSE total[i - 1] + f[i]
    IN  total
Total(f) == TotalUpTo(f)[Len(f)]
=============================================================================
