------------------------------- MODULE Agent -------------------------------
(***************************************************************************)
(* The node agent, from the line a tail has read to the checkpoint: the    *)
(* ingest client's window of unacked records (internal/ingest/client.go),  *)
(* the read position of every tail (internal/tailer/tailer.go), the        *)
(* checkpoint database (internal/tailer/checkpoint.go) and the agent's     *)
(* start and stop (cmd/agent/main.go).  The module is a component: module  *)
(* AgentAlone closes it with an arbitrary manager, module Delivery with    *)
(* the ingest server.  A tail enqueues the lines of its source in order.   *)
(***************************************************************************)
EXTENDS Window, FiniteSetsExt, SequencesExt

CONSTANTS
    MaxHeld,    \* ClientConfig.MaxHeldBytes, the soft cap
    HardMax     \* ClientConfig.HardMaxBytes, the hard cap

ASSUME AgentAssumption == MaxHeld \in Nat /\ HardMax \in Nat

VARIABLES
    phase,      \* "running", "stopping" once SIGTERM arrived, "down"
    pos,        \* per source, the last line its tail has read
    waiting,    \* sources whose tail is inside Client.Enqueue with line pos
    unacked,    \* Client.unacked, the window: envelopes in order of arrival
    heldByte,   \* Client.heldByte
    checkpoint, \* the checkpoint database, 0 when absent
    shed        \* history: records dropped at the hard cap

agentVars == <<phase, pos, waiting, unacked, heldByte, checkpoint, shed>>

AgentInit ==
    /\ phase = "running"
    /\ pos = [s \in Source |-> 0]
    /\ waiting = {}
    /\ unacked = <<>>
    /\ heldByte = 0
    /\ checkpoint = [s \in Source |-> 0]
    /\ shed = {}

\* Checkpoint.Advance never moves back.  A write that fails is only logged, so
\* for any of the sources the stored offset may stay behind.
Advance(offsets) ==
    \E failed \in SUBSET Source :
        checkpoint' = [s \in Source |->
            IF s \in failed THEN checkpoint[s] ELSE Max({checkpoint[s], offsets[s]})]

-----------------------------------------------------------------------------
(* Tails and Enqueue.                                                      *)

\* pump reads one more line and calls Enqueue.
Read(s) ==
    /\ phase = "running"
    /\ s \notin waiting
    /\ pos[s] < MaxOffset
    /\ pos' = [pos EXCEPT ![s] = @ + 1]
    /\ waiting' = waiting \cup {s}
    /\ UNCHANGED <<phase, unacked, heldByte, checkpoint, shed>>

WaitingLine(s) == [src |-> s, off |-> pos[s]]
Fits(s) == heldByte + Size[WaitingLine(s)] <= MaxHeld
OverHard(s) == ~Fits(s) /\ heldByte + Size[WaitingLine(s)] > HardMax
\* Enqueue is in cond.Wait.
Blocked(s) == s \in waiting /\ ~Fits(s) /\ ~OverHard(s)

NewEnvelope(s) == [src |-> s, off |-> pos[s], sent |-> FALSE]

Enqueue(s) ==
    /\ phase # "down"
    /\ s \in waiting
    /\ Fits(s)
    /\ unacked' = Append(unacked, NewEnvelope(s))
    /\ heldByte' = heldByte + Size[WaitingLine(s)]
    /\ waiting' = waiting \ {s}
    /\ UNCHANGED <<phase, pos, checkpoint, shed>>

\* Mutant of EnqueueOverHard: the checkpoint is moved to the new record.
ShedAdvancesNew(s) ==
    /\ phase # "down"
    /\ s \in waiting
    /\ OverHard(s)
    /\ unacked # <<>>
    /\ waiting' = waiting \ {s}
    /\ unacked' = Append(Tail(unacked), NewEnvelope(s))
    /\ heldByte' = heldByte - Size[Line(Head(unacked))] + Size[WaitingLine(s)]
    /\ Advance([t \in Source |-> IF t = s THEN pos[s] ELSE 0])
    /\ shed' = shed \cup {Line(Head(unacked))}
    /\ UNCHANGED <<phase, pos>>

\* Mutant of EnqueueOverHard: the bytes of the shed record stay counted.
ShedKeepsBytes(s) ==
    /\ phase # "down"
    /\ s \in waiting
    /\ OverHard(s)
    /\ unacked # <<>>
    /\ waiting' = waiting \ {s}
    /\ unacked' = Append(Tail(unacked), NewEnvelope(s))
    /\ heldByte' = heldByte + Size[WaitingLine(s)]
    /\ Advance([t \in Source |-> IF t = Head(unacked).src THEN Head(unacked).off ELSE 0])
    /\ shed' = shed \cup {Line(Head(unacked))}
    /\ UNCHANGED <<phase, pos>>

\* dropOldestLocked sheds one record, if there is one, and the new record is
\* appended whatever the window holds then.
EnqueueOverHard(s) ==
    /\ phase # "down"
    /\ s \in waiting
    /\ OverHard(s)
    /\ waiting' = waiting \ {s}
    /\ IF unacked = <<>>
       THEN /\ unacked' = <<NewEnvelope(s)>>
            /\ heldByte' = heldByte + Size[WaitingLine(s)]
            /\ UNCHANGED <<checkpoint, shed>>
       ELSE LET old == Head(unacked) IN
            /\ unacked' = Append(Tail(unacked), NewEnvelope(s))
            /\ heldByte' = heldByte - Size[Line(old)] + Size[WaitingLine(s)]
            /\ Advance([t \in Source |-> IF t = old.src THEN old.off ELSE 0])
            /\ shed' = shed \cup {Line(old)}
    /\ UNCHANGED <<phase, pos>>

\* A tail ended by a read error, or by a Stat that failed once, is started
\* again by discover from the checkpoint, beside what the window still holds.
Retail(s) ==
    /\ phase = "running"
    /\ s \notin waiting
    /\ pos' = [pos EXCEPT ![s] = checkpoint[s]]
    /\ UNCHANGED <<phase, waiting, unacked, heldByte, checkpoint, shed>>

-----------------------------------------------------------------------------
(* The session.                                                            *)

\* The envelopes flush has yet to send among the first k, the batch that ends
\* with the k-th, and the window with that batch sent.
Unsent(k) == {i \in 1 .. k : ~unacked[i].sent}
Batch(k) ==
    LET batch == KeepAt(unacked, Unsent(k)) IN [i \in 1 .. Len(batch) |-> Line(batch[i])]

MarkSent(k) ==
    [i \in 1 .. Len(unacked) |-> [unacked[i] EXCEPT !.sent = @ \/ i <= k]]

\* One round of flush: the unsent envelopes up to the one that fills the batch,
\* at least one of them.
Flush(k) ==
    /\ phase = "running"
    /\ k \in Unsent(Len(unacked))
    /\ unacked' = MarkSent(k)
    /\ UNCHANGED <<phase, pos, waiting, heldByte, checkpoint, shed>>

\* Mutant of Resend: only what was not sent before is sent.
ResendNothing ==
    /\ phase = "running"
    /\ UNCHANGED agentVars

\* A new session sends the whole window again.
Resend ==
    /\ phase = "running"
    /\ unacked' = [i \in 1 .. Len(unacked) |-> [unacked[i] EXCEPT !.sent = FALSE]]
    /\ UNCHANGED <<phase, pos, waiting, heldByte, checkpoint, shed>>

\* Mutant of Kept: one record too many is trimmed.
KeptOffByOne(ack) ==
    KeepAt(unacked, {i \in 1 .. Len(unacked) : unacked[i].off > ack[unacked[i].src] + 1})

\* ack[s] is 0 for a source the ack does not name.
Kept(ack) ==
    KeepAt(unacked, {i \in 1 .. Len(unacked) : unacked[i].off > ack[unacked[i].src]})

\* Mutant of ApplyAck: the bytes of the acked record are taken off, window or not.
ApplyAckTwice(ack) ==
    /\ phase # "down"
    /\ Advance(ack)
    /\ unacked' = Kept(ack)
    /\ \E s \in Source :
        ack[s] > 0 /\ heldByte' = heldByte - Size[[src |-> s, off |-> ack[s]]]
    /\ UNCHANGED <<phase, pos, waiting, shed>>

\* Mutant of ApplyAck: the released bytes stay counted.
ApplyAckKeepsBytes(ack) ==
    /\ phase # "down"
    /\ Advance(ack)
    /\ unacked' = Kept(ack)
    /\ UNCHANGED <<phase, pos, waiting, heldByte, shed>>

ApplyAck(ack) ==
    /\ phase # "down"
    /\ Advance(ack)
    /\ unacked' = Kept(ack)
    /\ heldByte' = Bytes(Kept(ack))
    /\ UNCHANGED <<phase, pos, waiting, shed>>

-----------------------------------------------------------------------------
(* Stop, crash and start.                                                  *)

\* SIGTERM cancels the context: the session ends, the tails stop reading.
Stop ==
    /\ phase = "running"
    /\ phase' = "stopping"
    /\ UNCHANGED <<pos, waiting, unacked, heldByte, checkpoint, shed>>

\* Tailer.Run waits for every tail; only then main closes the client and ends.
Exit ==
    /\ phase = "stopping"
    /\ waiting = {}
    /\ phase' = "down"
    /\ UNCHANGED <<pos, waiting, unacked, heldByte, checkpoint, shed>>

\* The process is gone.  The next one reads on from the checkpoint.
Start ==
    /\ phase' = "running"
    /\ pos' = checkpoint
    /\ waiting' = {}
    /\ unacked' = <<>>
    /\ heldByte' = 0
    /\ UNCHANGED <<checkpoint, shed>>

AgentTypeOK ==
    /\ phase \in {"running", "stopping", "down"}
    /\ pos \in [Source -> 0 .. MaxOffset]
    /\ waiting \in SUBSET Source
    /\ unacked \in Seq(Envelope)
    /\ heldByte \in Nat
    /\ checkpoint \in [Source -> 0 .. MaxOffset]
    /\ shed \in SUBSET Record

-----------------------------------------------------------------------------
(* Parts of the inductive invariants of AgentAlone and Delivery.           *)

\* The byte count is the size of the window, and what was sent on this session
\* lies in front of what was not.
WindowOK == AgentTypeOK /\ heldByte = Bytes(unacked) /\ SentInFront(unacked)

\* With read positions p, tails wt in Enqueue, window w and checkpoints c: every
\* line that was read and is not done with is about to enter the window or in
\* it, behind the earlier ones of its source, and no checkpoint passes it.
InCare(p, wt, w, c, done) ==
    /\ \A s \in wt : p[s] > 0
    /\ HoldsEarlier(w, done)
    /\ \A r \in Record :
        r.off <= p[r.src] => r \in done \/ (r.src \in wt /\ r.off = p[r.src]) \/ r \in Lines(w)
    /\ \A r \in Record : r.off <= c[r.src] => r \in done
=============================================================================
