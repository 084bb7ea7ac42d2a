------------------------------ MODULE MCSpool ------------------------------
(* Model-checking instance of Spool. *)
EXTENDS Spool, TLC

Symmetry == Permutations(Source) \cup Permutations(SegId)

\* The agent sheds nothing.
NoLine == {}
=============================================================================
