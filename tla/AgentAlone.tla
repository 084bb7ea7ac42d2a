----------------------------- MODULE AgentAlone -----------------------------
(***************************************************************************)
(* The agent against any manager that acks only what it was sent.  Acks    *)
(* may be late, stale, reordered or never come.                            *)
(***************************************************************************)
EXTENDS Agent

CONSTANT MaxRestarts  \* bound: lost sessions, restarted tails and crashes

ASSUME AgentAloneAssumption == MaxRestarts \in Nat

VARIABLES
    online,   \* a session is established
    reached,  \* per source, the highest offset ever sent
    acked,    \* per source, the highest offset the manager has committed
    restarts

envVars == <<online, reached, acked, restarts>>
vars == <<agentVars, envVars>>

Init ==
    /\ AgentInit
    /\ online = FALSE
    /\ reached = [s \in Source |-> 0]
    /\ acked = [s \in Source |-> 0]
    /\ restarts = 0

CountRestart == restarts < MaxRestarts /\ restarts' = restarts + 1

TailStep(s) ==
    /\ Read(s) \/ Enqueue(s) \/ EnqueueOverHard(s)
    /\ UNCHANGED envVars

RestartTail(s) == Retail(s) /\ CountRestart /\ UNCHANGED <<online, reached, acked>>

Connect ==
    /\ ~online
    /\ Resend
    /\ online' = TRUE
    /\ UNCHANGED <<reached, acked, restarts>>

Disconnect ==
    /\ online
    /\ CountRestart
    /\ online' = FALSE
    /\ UNCHANGED <<agentVars, reached, acked>>

Send ==
    /\ online
    /\ \E k \in 1 .. Len(unacked) :
        /\ Flush(k)
        /\ reached' = [s \in Source |->
            Max({reached[s]} \cup {r.off : r \in {q \in ToSet(Batch(k)) : q.src = s}})]
    /\ UNCHANGED <<online, acked, restarts>>

ManagerCommits ==
    /\ acked' \in [Source -> 0 .. MaxOffset]
    /\ \A s \in Source : acked[s] <= acked'[s] /\ acked'[s] <= reached[s]
    /\ acked # acked'
    /\ UNCHANGED <<agentVars, online, reached, restarts>>

\* Any ack built since the start may arrive now, for any of the sources.
ReceiveAck ==
    /\ \E ack \in [Source -> 0 .. MaxOffset] :
        /\ \A s \in Source : ack[s] <= acked[s]
        /\ \E s \in Source : ack[s] > 0
        /\ ApplyAck(ack)
    /\ UNCHANGED envVars

StopAgent == Stop /\ online' = FALSE /\ UNCHANGED <<reached, acked, restarts>>
ExitAgent == Exit /\ UNCHANGED envVars
\* The kubelet starts the container again, after its exit or after a SIGKILL at
\* the end of the grace period.
StartAgent == phase = "down" /\ Start /\ UNCHANGED envVars
KillAgent == phase = "stopping" /\ Start /\ UNCHANGED envVars
CrashAgent ==
    /\ phase = "running"
    /\ Start
    /\ CountRestart
    /\ online' = FALSE
    /\ UNCHANGED <<reached, acked>>

Next ==
    \/ \E s \in Source : TailStep(s) \/ RestartTail(s)
    \/ Connect \/ Disconnect \/ Send
    \/ ManagerCommits \/ ReceiveAck
    \/ StopAgent \/ ExitAgent \/ StartAgent \/ KillAgent \/ CrashAgent

Spec == Init /\ [][Next]_vars

\* The agent's goroutines run; a session and acks are owed to it only while it
\* is running, and the manager commits what it was sent.
Fairness ==
    /\ \A s \in Source : WF_vars(TailStep(s))
    /\ WF_vars(Connect) /\ WF_vars(Send) /\ WF_vars(ExitAgent)
    /\ WF_vars(phase = "running" /\ acked # reached /\ ManagerCommits /\ acked' = reached)
    /\ WF_vars(phase = "running" /\ ReceiveAck /\ UNCHANGED restarts
               /\ unacked' = Kept(acked))

LiveSpec == Spec /\ Fairness

-----------------------------------------------------------------------------
TypeOK ==
    /\ AgentTypeOK
    /\ online \in BOOLEAN
    /\ reached \in [Source -> 0 .. MaxOffset]
    /\ acked \in [Source -> 0 .. MaxOffset]
    /\ restarts \in 0 .. MaxRestarts

\* The byte count that decides about blocking and shedding is the size of the
\* window, after any mix of appends, sheds, trims and reconnects.
HeldBytesExact == heldByte = Bytes(unacked)

\* A line a tail has read is acked, shed, on its way into the window or still in
\* the window: no ack, late or stale, removes a line that is not committed.
NothingSkipped ==
    \A r \in Record :
        r.off <= pos[r.src] =>
            \/ r.off <= acked[r.src]
            \/ r \in shed
            \/ r.src \in waiting /\ r.off = pos[r.src]
            \/ r \in Lines(unacked)

\* The checkpoint never passes a line that is neither acked nor shed: after a
\* crash the tail starts below everything that is still owed.
CheckpointSafe ==
    \A r \in Record : r.off <= checkpoint[r.src] => r.off <= acked[r.src] \/ r \in shed

\* What was sent on this session lies in front of what was not, so that flush
\* sends the lines in the order of the window.
SentFirst == SentInFront(unacked)

\* A tail blocked in Enqueue can be woken: the window holds a record whose ack
\* makes room, unless the line alone lies between the two caps, when the wait
\* never ends (Enqueue's loop against the releases of ApplyAck and shedding).
BlockedCanWake ==
    \A s \in Source :
        Blocked(s) /\ unacked = <<>> => Size[WaitingLine(s)] > MaxHeld

\* The lines nobody owes any more.
Settled == {r \in Record : r.off <= acked[r.src]} \cup shed

\* The inductive invariant: with the properties above, a tail in Enqueue has a
\* line, and ahead of each envelope the window holds the unsettled earlier lines
\* of its source.  So the record that is shed is the first one owed, and the
\* checkpoint may move to it.
IndInv == TypeOK /\ WindowOK /\ InCare(pos, waiting, unacked, checkpoint, Settled)

\* The agent ends after SIGTERM.
StopEnds == (phase = "stopping") ~> (phase # "stopping")
=============================================================================
