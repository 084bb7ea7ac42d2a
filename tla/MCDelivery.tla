----------------------------- MODULE MCDelivery -----------------------------
(* Model-checking instances of Delivery. *)
EXTENDS Delivery, TLC

Symmetry == Permutations(Conn)

\* The second line does not fit beside the first one, the third not even alone.
SmallLargeHuge == [r \in Record |-> <<1, 2, 5>>[r.off]]
AllSmall == [r \in Record |-> 1]
=============================================================================
