------------------------------ MODULE MCTailer ------------------------------
(* Model-checking instance of Tailer: entries of one and of two lines and a   *)
(* line the parser rejects; two rotations, which free an inode for use again; *)
(* a pod that is excluded and comes in, and one that opts out and in again.   *)
EXTENDS Tailer

MCWorlds ==
    {[lines |-> <<"partial", "unparsed", "full">>, rotations |-> 1, faults |-> 1,
      excluded |-> FALSE, changes |-> 0],
     [lines |-> <<"full", "full">>, rotations |-> 2, faults |-> 0, excluded |-> FALSE, changes |-> 0],
     [lines |-> <<"full">>, rotations |-> 1, faults |-> 1, excluded |-> TRUE, changes |-> 1],
     [lines |-> <<"full", "full">>, rotations |-> 1, faults |-> 0, excluded |-> FALSE, changes |-> 2]}
=============================================================================
