-------------------------- MODULE SpoolRefinement --------------------------
(***************************************************************************)
(* The spool and the store implement the ingest server's Receiver as long  *)
(* as no two calls of Spool.Seal overlap.  A record is pending while it is *)
(* buffered or in a Seal, and durable as soon as its segment's sidecar is  *)
(* stored: the sidecar is what makes a segment discoverable.               *)
(***************************************************************************)
EXTENDS Spool

Contract == INSTANCE Receiver WITH
    up <- proc \in Running,
    pending <- (buf \cup Held) \ Durable,
    durable <- Durable

\* Every step of the manager is a step of the contract, or invisible to it:
\* seals that fail, retries, lost answers, crashes and recovery included.
ImplementsReceiver == Contract!Spec
=============================================================================
