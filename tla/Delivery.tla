------------------------------ MODULE Delivery ------------------------------
(***************************************************************************)
(* From a log line to the object store and back to the checkpoint: the     *)
(* agent (module Agent), the ingest stream of internal/ingest/client.go    *)
(* and server.go, and the manager behind it as the Receiver contract       *)
(* (module Receiver, which module SpoolRefinement shows the spool to       *)
(* implement).                                                             *)
(*                                                                         *)
(* A session is a connection with a FIFO of records towards the manager.   *)
(* Towards the agent acks may overtake one another, because the ack loop   *)
(* and the receive loop of a stream both send outside the stream's lock.   *)
(* Either end may go away at any time and leave the other one to finish    *)
(* what it has in its buffers, while a new session is already under way.   *)
(* The agent runs, or crashes and starts again; its orderly stop is in     *)
(* AgentAlone.                                                             *)
(***************************************************************************)
EXTENDS Agent

CONSTANTS
    Conn,       \* connections; a closed one is used again
    NoConn,     \* the agent has no session
    MaxFaults   \* bound: lost sessions, restarted tails, crashes

ASSUME DeliveryAssumption == NoConn \notin Conn /\ MaxFaults \in Nat

VARIABLES
    managerUp, received, committed, pending, durable,      \* as in Receiver
    cur,        \* the connection of the agent's session
    stream,     \* per connection, which of its ends are alive
    toServer,   \* per connection, records sent and not yet accepted
    toAgent,    \* per connection, acks sent and not yet applied
    seen,       \* per connection, the sources observed by its server stream
    faults

managerVars == <<managerUp, received, committed, pending, durable>>
linkVars == <<cur, stream, toServer, toAgent, seen>>
vars == <<agentVars, managerVars, linkVars, faults>>

M == INSTANCE Receiver WITH up <- managerUp

\* "open": both ends, "orphan": the agent process that opened it is gone,
\* "late": the manager is gone and the agent may still read acks.
StreamState == {"free", "open", "orphan", "late"}
ServerAlive(c) == stream[c] \in {"open", "orphan"}

Init ==
    /\ AgentInit
    /\ M!Init
    /\ cur = NoConn
    /\ stream = [c \in Conn |-> "free"]
    /\ toServer = [c \in Conn |-> <<>>]
    /\ toAgent = [c \in Conn |-> {}]
    /\ seen = [c \in Conn |-> {}]
    /\ faults = 0

Fault == faults < MaxFaults /\ faults' = faults + 1

-----------------------------------------------------------------------------
(* The agent's end.                                                        *)

TailStep(s) ==
    /\ Read(s) \/ Enqueue(s) \/ EnqueueOverHard(s)
    /\ UNCHANGED <<managerVars, linkVars, faults>>

RestartTail(s) == Fault /\ Retail(s) /\ UNCHANGED <<managerVars, linkVars>>

Connect(c) ==
    /\ managerUp
    /\ cur = NoConn
    /\ stream[c] = "free"
    /\ cur' = c
    /\ stream' = [stream EXCEPT ![c] = "open"]
    /\ Resend
    /\ UNCHANGED <<managerVars, toServer, toAgent, seen, faults>>

Send ==
    /\ cur # NoConn
    /\ \E k \in 1 .. Len(unacked) :
        /\ Flush(k)
        /\ toServer' = [toServer EXCEPT ![cur] = @ \o Batch(k)]
    /\ UNCHANGED <<managerVars, cur, stream, toAgent, seen, faults>>

\* The ack reader of any session of this agent process, an old one included.
ReceiveAck(c) ==
    /\ stream[c] \in {"open", "late"}
    /\ \E ack \in toAgent[c] :
        /\ ApplyAck(ack)
        /\ toAgent' = [toAgent EXCEPT ![c] = @ \ {ack}]
    /\ UNCHANGED <<managerVars, cur, stream, toServer, seen, faults>>

\* The session ends on the agent's side; the server has yet to notice.
Disconnect ==
    /\ cur # NoConn
    /\ Fault
    /\ cur' = NoConn
    /\ UNCHANGED <<agentVars, managerVars, stream, toServer, toAgent, seen>>

AgentCrash ==
    /\ Fault
    /\ Start
    /\ cur' = NoConn
    /\ stream' = [c \in Conn |-> IF ServerAlive(c) THEN "orphan" ELSE "free"]
    /\ toAgent' = [c \in Conn |-> {}]
    /\ UNCHANGED <<managerVars, toServer, seen>>

-----------------------------------------------------------------------------
(* The manager's end.                                                      *)

\* Mutant of Deliver: a source counts as seen only when its record is new.
DeliverSeesNew(c) ==
    /\ ServerAlive(c)
    /\ toServer[c] # <<>>
    /\ LET r == Head(toServer[c]) IN
        IF r.off > received[r.src]
        THEN M!Accept(r) /\ seen' = [seen EXCEPT ![c] = @ \cup {r.src}]
        ELSE UNCHANGED <<managerVars, seen>>
    /\ toServer' = [toServer EXCEPT ![c] = Tail(@)]
    /\ UNCHANGED <<agentVars, cur, stream, toAgent, faults>>

\* Stream takes the next record and calls Accept, which drops a duplicate.
Deliver(c) ==
    /\ ServerAlive(c)
    /\ toServer[c] # <<>>
    /\ LET r == Head(toServer[c]) IN
        /\ IF r.off > received[r.src] THEN M!Accept(r) ELSE UNCHANGED managerVars
        /\ seen' = [seen EXCEPT ![c] = @ \cup {r.src}]
    /\ toServer' = [toServer EXCEPT ![c] = Tail(@)]
    /\ UNCHANGED <<agentVars, cur, stream, toAgent, faults>>

\* Mutant of BuildAck: what is received is acked.
BuildAckReceived(c) == [s \in Source |-> IF s \in seen[c] THEN received[s] ELSE 0]

BuildAck(c) == [s \in Source |-> IF s \in seen[c] THEN committed[s] ELSE 0]

\* By the ack loop's tick, or after a batch.  An empty ack is not sent.
SendAck(c) ==
    /\ ServerAlive(c)
    /\ \E s \in Source : BuildAck(c)[s] > 0
    /\ toAgent' = [toAgent EXCEPT ![c] = IF stream[c] = "open" THEN @ \cup {BuildAck(c)} ELSE @]
    /\ UNCHANGED <<agentVars, managerVars, cur, stream, toServer, seen, faults>>

\* Recv fails or reaches the end of a connection the agent has left; the rest
\* of what was in it is gone.
EndStream(c) ==
    /\ c # cur
    /\ stream[c] # "free"
    /\ stream' = [stream EXCEPT ![c] = "free"]
    /\ toServer' = [toServer EXCEPT ![c] = <<>>]
    /\ toAgent' = [toAgent EXCEPT ![c] = {}]
    /\ seen' = [seen EXCEPT ![c] = {}]
    /\ UNCHANGED <<agentVars, managerVars, cur, faults>>

Persist ==
    /\ \E recs \in SUBSET pending : M!Persist(recs)
    /\ UNCHANGED <<agentVars, linkVars, faults>>

Commit == M!Commit /\ UNCHANGED <<agentVars, linkVars, faults>>

\* Mutant of ManagerCrash: the agent keeps the dead session.
ManagerCrashUnnoticed ==
    /\ Fault
    /\ M!Fail
    /\ stream' = [c \in Conn |-> IF stream[c] \in {"open", "late"} THEN "late" ELSE "free"]
    /\ toServer' = [c \in Conn |-> <<>>]
    /\ seen' = [c \in Conn |-> {}]
    /\ UNCHANGED <<agentVars, cur, toAgent>>

ManagerCrash ==
    /\ Fault
    /\ M!Fail
    /\ cur' = NoConn
    /\ stream' = [c \in Conn |-> IF stream[c] \in {"open", "late"} THEN "late" ELSE "free"]
    /\ toServer' = [c \in Conn |-> <<>>]
    /\ seen' = [c \in Conn |-> {}]
    /\ UNCHANGED <<agentVars, toAgent>>

ManagerRecover == M!Recover /\ UNCHANGED <<agentVars, linkVars, faults>>

-----------------------------------------------------------------------------
Next ==
    \/ \E s \in Source : TailStep(s) \/ RestartTail(s)
    \/ \E c \in Conn : Connect(c) \/ ReceiveAck(c) \/ Deliver(c) \/ SendAck(c) \/ EndStream(c)
    \/ Send \/ Disconnect \/ AgentCrash
    \/ Persist \/ Commit \/ ManagerCrash \/ ManagerRecover

Spec == Init /\ [][Next]_vars

\* The goroutines of both ends run, the agent dials again, an abandoned stream
\* ends, the manager is restarted and seals what it has buffered.
Fairness ==
    /\ \A s \in Source : WF_vars(TailStep(s))
    /\ WF_vars(\E c \in Conn : Connect(c))
    /\ WF_vars(Send)
    /\ \A c \in Conn :
        /\ WF_vars(Deliver(c)) /\ WF_vars(EndStream(c)) /\ WF_vars(SendAck(c))
        /\ WF_vars(ReceiveAck(c))
    /\ WF_vars(M!Persist(pending) /\ UNCHANGED <<agentVars, linkVars, faults>>)
    /\ WF_vars(Commit /\ committed' = received)
    /\ WF_vars(ManagerRecover)

LiveSpec == Spec /\ Fairness

-----------------------------------------------------------------------------
TypeOK ==
    /\ AgentTypeOK
    /\ managerUp \in BOOLEAN
    /\ received \in M!Watermark /\ committed \in M!Watermark
    /\ pending \in SUBSET Record /\ durable \in SUBSET Record
    /\ cur \in Conn \cup {NoConn}
    /\ cur # NoConn => stream[cur] = "open"
    /\ stream \in [Conn -> StreamState]
    /\ toServer \in [Conn -> Seq(Record)]
    /\ toAgent \in [Conn -> SUBSET M!Watermark]
    /\ seen \in [Conn -> SUBSET Source]
    /\ faults \in 0 .. MaxFaults

\* The checkpoint passes a line only when the line is stored, or was shed at the
\* hard cap: whichever end crashes, the agent reads on below what is owed.
CheckpointDurable ==
    \A r \in Record : r.off <= checkpoint[r.src] => r \in durable \cup shed

\* A line that was read is never in nobody's care: it is about to enter the
\* window, in the window, stored or shed.
NothingLost ==
    \A r \in Record :
        r.off <= pos[r.src] =>
            \/ r \in durable \cup shed
            \/ r.src \in waiting /\ r.off = pos[r.src]
            \/ r \in Lines(unacked)

\* The manager never buffers again what it has stored, however often and on
\* however many streams it is redelivered.
NotStoredAgain == pending \cap durable = {}

\* A record the manager takes is the next one of its source, save lines that
\* were shed: its watermark never runs over a line that is still to come.  This
\* is what Spool assumes of the agent.
AcceptsInTurn ==
    [][\A r \in pending' \ pending, q \in Record :
        q.src = r.src /\ received[r.src] < q.off /\ q.off < r.off => q \in shed]_vars

\* The lines nobody owes any more, and the lines the manager has or that will
\* never come.
Settled == durable \cup shed
Taken == {r \in Record : r.off <= received[r.src]} \cup shed

\* What is accepted is pending or settled; what is stored is settled down to the
\* first line of its source, so that Recover finds the watermark a crash lost.
ManagerOK ==
    /\ ~managerUp => pending = {} /\ \A s \in Source : received[s] = 0 /\ committed[s] = 0
    /\ managerUp => \A r \in pending \cup durable : r.off <= received[r.src]
    /\ \A r \in Record : r.off <= received[r.src] => r \in pending \cup Settled
    /\ \A r \in durable, q \in Record : q.src = r.src /\ q.off < r.off => q \in Settled
    /\ \A s \in Source : committed[s] <= received[s]
    /\ \A r \in pending : committed[r.src] < r.off
    /\ NotStoredAgain

\* Every stream carries the lines of a source in order, from one the manager can
\* take next; what this session has sent is on its stream or taken; no ack under
\* way, on whichever stream, passes a line that is owed.
LinkOK ==
    /\ \A c \in Conn : IF ServerAlive(c) THEN managerUp ELSE toServer[c] = <<>>
    /\ \A c \in Conn : HoldsEarlier(toServer[c], Taken)
    /\ cur # NoConn => \A i \in 1 .. Len(unacked) :
        unacked[i].sent => Line(unacked[i]) \in Taken \cup ToSet(toServer[cur])
    /\ \A c \in Conn : \A ack \in toAgent[c], r \in Record :
        r.off <= ack[r.src] => r \in Settled

\* The inductive invariant: client, streams and manager together leave no line
\* without somebody who owes it, through every crash, lost session and resend.
IndInv ==
    /\ TypeOK /\ WindowOK /\ InCare(pos, waiting, unacked, checkpoint, Settled)
    /\ ManagerOK /\ LinkOK

\* Every line is stored or shed in the end, whatever was lost on the way: a tail
\* blocked in Enqueue by the soft cap gets on when acks make room.
AllDelivered == \A r \in Record : <>(r \in durable \cup shed)

\* The window empties for good: acks reach the agent for everything it has sent,
\* also for lines the manager already had.
WindowDrains == <>[](unacked = <<>>)
=============================================================================
