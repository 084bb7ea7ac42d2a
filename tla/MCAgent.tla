------------------------------ MODULE MCAgent ------------------------------
(* Model-checking instances of AgentAlone. *)
EXTENDS AgentAlone, TLC

Symmetry == Permutations(Source)

\* The second line of every source lies between the soft and the hard cap: alone
\* it waits forever, behind two others it makes the client shed.
OneBetweenCaps == [r \in Record |-> IF r.off = 2 THEN 3 ELSE 1]
\* Two lines do not fit the soft cap together.
TwoTooMany == [r \in Record |-> 2]
=============================================================================
