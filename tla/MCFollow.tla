------------------------------ MODULE MCFollow ------------------------------
(* Model-checking instance of Follow. *)
EXTENDS Follow

\* The clock that stamps the lines is set back after the first, which lies ahead
\* of the manager's; the third lies before the request's start; the second and
\* the fourth have the same stamp.
UnevenClock == [r \in Record |-> <<2, 1, 0, 1>>[r.off]]
All == Record
=============================================================================
