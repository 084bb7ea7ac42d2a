------------------------- MODULE MCSpoolRefinement -------------------------
(* Model-checking instance of SpoolRefinement. *)
EXTENDS SpoolRefinement, TLC

Symmetry == Permutations(SegId)

\* Every source loses its second line.
SecondOfAll == {[src |-> s, off |-> 2] : s \in Source}
=============================================================================
