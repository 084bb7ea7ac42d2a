---------------------------- MODULE AgentProofs ----------------------------
(***************************************************************************)
(* Proofs about AgentAlone, for any sources, lines, sizes and caps, and    *)
(* any number of lost sessions, restarted tails and crashes.               *)
(***************************************************************************)
EXTENDS AgentAlone, AgentLemmas

USE AgentAssumption, AgentAloneAssumption

-----------------------------------------------------------------------------
(* Every step keeps the invariant.                                         *)

\* The agent's part and the manager's part make up the type invariant.
LEMMA Types ==
    /\ IndInv => /\ TypeOK /\ WindowOK /\ InCare(pos, waiting, unacked, checkpoint, Settled)
                 /\ online \in BOOLEAN /\ reached \in [Source -> 0 .. MaxOffset]
                 /\ acked \in [Source -> 0 .. MaxOffset] /\ restarts \in 0 .. MaxRestarts
    /\ WindowOK' /\ online' \in BOOLEAN /\ reached' \in [Source -> 0 .. MaxOffset]
       /\ acked' \in [Source -> 0 .. MaxOffset] /\ restarts' \in 0 .. MaxRestarts => TypeOK'
BY DEF IndInv, TypeOK, WindowOK

\* A step of the agent alone leaves what is settled as it is, but for a shed
\* record.
LEMMA AgentStep ==
    ASSUME IndInv, UNCHANGED acked, shed \subseteq shed',
           WindowOK', InCare(pos', waiting', unacked', checkpoint', Settled'),
           online' \in BOOLEAN, reached' \in [Source -> 0 .. MaxOffset],
           restarts' \in 0 .. MaxRestarts
    PROVE  IndInv'
PROOF
<1>1. TypeOK'
  BY Types
<1>. QED  BY <1>1 DEF IndInv

\* Nothing is settled but what is acked and what is shed.
LEMMA SettledFacts ==
    /\ UNCHANGED <<acked, shed>> => Settled' = Settled
    /\ UNCHANGED acked /\ shed \subseteq shed' => Settled \cup shed' \subseteq Settled'
BY DEF Settled

\* The steps of a tail.
LEMMA TailStepKeeps ==
    ASSUME IndInv, NEW s \in Source, TailStep(s)
    PROVE  IndInv'
PROOF
<1>1. /\ WindowOK /\ InCare(pos, waiting, unacked, checkpoint, Settled)
      /\ UNCHANGED <<online, reached, acked, restarts>>
      /\ online' \in BOOLEAN /\ reached' \in [Source -> 0 .. MaxOffset] /\ restarts' \in 0 .. MaxRestarts
  BY Types DEF TailStep, envVars
<1>2. CASE Read(s)
  <2>1. Settled' = Settled
    BY <1>1, <1>2, SettledFacts DEF Read
  <2>2. WindowOK' /\ InCare(pos', waiting', unacked', checkpoint', Settled)
    BY <1>1, <1>2, ReadCares
  <2>. QED  BY <1>1, <1>2, <2>1, <2>2, AgentStep DEF Read
<1>3. CASE Enqueue(s)
  <2>1. Settled' = Settled
    BY <1>1, <1>3, SettledFacts DEF Enqueue
  <2>2. WindowOK' /\ InCare(pos', waiting', unacked', checkpoint', Settled)
    BY <1>1, <1>3, EnqueueCares
  <2>. QED  BY <1>1, <1>3, <2>1, <2>2, AgentStep DEF Enqueue
<1>4. CASE EnqueueOverHard(s)
  <2>1. shed \subseteq shed'
    BY <1>4 DEF EnqueueOverHard
  <2>2. Settled \cup shed' \subseteq Settled'
    BY <1>1, <2>1, SettledFacts
  <2>3. WindowOK' /\ InCare(pos', waiting', unacked', checkpoint', Settled')
    BY <1>1, <1>4, <2>2, EnqueueOverHardCares
  <2>. QED  BY <1>1, <2>1, <2>3, AgentStep
<1>. QED  BY <1>2, <1>3, <1>4 DEF TailStep

\* A step that leaves acked and shed alone, given what it does to the window.
LEMMA WindowStep ==
    ASSUME IndInv, UNCHANGED <<acked, shed>>,
           WindowOK', InCare(pos', waiting', unacked', checkpoint', Settled),
           online' \in BOOLEAN, reached' \in [Source -> 0 .. MaxOffset],
           restarts' \in 0 .. MaxRestarts
    PROVE  IndInv'
PROOF
<1>1. Settled' = Settled
  BY SettledFacts
<1>2. InCare(pos', waiting', unacked', checkpoint', Settled')
  BY <1>1
<1>. QED  BY <1>2, AgentStep

\* A step that changes no more than the phase, the session and the count of
\* restarts.
LEMMA QuietKeeps ==
    ASSUME IndInv, UNCHANGED <<pos, waiting, unacked, heldByte, checkpoint, shed, reached, acked>>,
           phase' \in {"running", "stopping", "down"}, online' \in BOOLEAN,
           restarts' \in 0 .. MaxRestarts
    PROVE  IndInv'
PROOF
<1>1. WindowOK' /\ InCare(pos', waiting', unacked', checkpoint', Settled)
  BY Types, QuietCares
<1>. QED  BY <1>1, Types, WindowStep

\* A session sends a batch; the manager is reached by what is in the window.
LEMMA SendKeeps ==
    ASSUME IndInv, Send
    PROVE  IndInv'
PROOF
<1>1. /\ WindowOK /\ unacked \in Seq(Envelope) /\ reached \in [Source -> 0 .. MaxOffset]
      /\ InCare(pos, waiting, unacked, checkpoint, Settled)
  BY Types DEF WindowOK, AgentTypeOK
<1>2. PICK k \in 1 .. Len(unacked) :
        /\ Flush(k)
        /\ reached' = [s \in Source |->
            Max({reached[s]} \cup {r.off : r \in {q \in ToSet(Batch(k)) : q.src = s}})]
  BY DEF Send
<1>3. reached' \in [Source -> 0 .. MaxOffset]
  <2>. SUFFICES ASSUME NEW s \in Source
                PROVE  Max({reached[s]} \cup {r.off : r \in {q \in ToSet(Batch(k)) : q.src = s}})
                           \in 0 .. MaxOffset
    BY <1>2
  <2>. DEFINE S == {reached[s]} \cup {r.off : r \in {q \in ToSet(Batch(k)) : q.src = s}}
  <2>1. ToSet(Batch(k)) \subseteq Record
    BY <1>1, BatchFacts DEF ToSet
  <2>2. S \subseteq 0 .. MaxOffset /\ S # {}
    BY <1>1, <2>1 DEF Record
  <2>. HIDE DEF S
  <2>3. Max(S) \in S
    BY <2>2, WindowAssumption, MaxIsGreatest
  <2>. QED  BY <2>2, <2>3 DEF S
<1>4. WindowOK' /\ InCare(pos', waiting', unacked', checkpoint', Settled)
  BY <1>1, <1>2, FlushCares
<1>. QED  BY <1>2, <1>3, <1>4, Types, WindowStep DEF Send, Flush

\* The manager commits more of what it was sent.
LEMMA ManagerCommitsKeeps ==
    ASSUME IndInv, ManagerCommits
    PROVE  IndInv'
PROOF
<1>1. /\ acked' \in [Source -> 0 .. MaxOffset] /\ \A s \in Source : acked[s] <= acked'[s]
      /\ UNCHANGED <<phase, pos, waiting, unacked, heldByte, checkpoint, shed, online, reached, restarts>>
  BY DEF ManagerCommits, agentVars
<1>2. TypeOK /\ WindowOK
  BY Types
<1>3. ASSUME NEW r \in Record, r.off <= acked[r.src]  PROVE r.off <= acked'[r.src]
  <2>1. r.src \in Source /\ r.off \in Nat
    BY DEF Record
  <2>2. acked[r.src] \in Nat /\ acked'[r.src] \in Nat
    BY <1>1, <1>2, <2>1, WindowAssumption DEF TypeOK
  <2>. QED  BY <1>1, <1>3, <2>1, <2>2
<1>4. Settled \subseteq Settled'
  BY <1>1, <1>3 DEF Settled
<1>5. InCare(pos, waiting, unacked, checkpoint, Settled')
  BY <1>4, Types, InCareMore
<1>6. phase' \in {"running", "stopping", "down"}
  BY <1>1, <1>2 DEF TypeOK, AgentTypeOK
<1>7. WindowOK' /\ InCare(pos', waiting', unacked', checkpoint', Settled')
  BY <1>1, <1>2, <1>5, <1>6, QuietCares
<1>8. TypeOK'
  BY <1>1, <1>7, Types
<1>. QED  BY <1>7, <1>8 DEF IndInv

\* An ack trims what is acked.
LEMMA ReceiveAckKeeps ==
    ASSUME IndInv, ReceiveAck
    PROVE  IndInv'
PROOF
<1>1. PICK ack \in [Source -> 0 .. MaxOffset] :
        (\A s \in Source : ack[s] <= acked[s]) /\ ApplyAck(ack)
  BY DEF ReceiveAck
<1>2. /\ acked \in [Source -> 0 .. MaxOffset] /\ WindowOK
      /\ InCare(pos, waiting, unacked, checkpoint, Settled)
  BY Types
<1>3. ASSUME NEW r \in Record, r.off <= ack[r.src]  PROVE r \in Settled
  <2>1. r.src \in Source /\ r.off \in Nat
    BY DEF Record
  <2>2. ack[r.src] \in Nat /\ acked[r.src] \in Nat
    BY <1>1, <1>2, <2>1, WindowAssumption
  <2>3. r.off <= acked[r.src]
    BY <1>1, <1>3, <2>1, <2>2
  <2>. QED  BY <2>3 DEF Settled
<1>4. WindowOK' /\ InCare(pos', waiting', unacked', checkpoint', Settled)
  BY <1>1, <1>2, <1>3, ApplyAckCares
<1>. QED  BY <1>1, <1>4, Types, WindowStep DEF ReceiveAck, ApplyAck, envVars

-----------------------------------------------------------------------------
(* The invariant of the specification.                                     *)

\* The agent starts with an empty window and no checkpoints.
LEMMA InitHolds ==
    ASSUME Init
    PROVE  IndInv
PROOF
<1>1. WindowOK /\ InCare(pos, waiting, unacked, checkpoint, Settled)
  BY InitCares DEF Init
<1>2. 0 \in 0 .. MaxOffset /\ 0 \in 0 .. MaxRestarts
  BY WindowAssumption
<1>3. TypeOK
  BY <1>1, <1>2 DEF Init, TypeOK, WindowOK
<1>. QED  BY <1>1, <1>3 DEF IndInv

\* Whatever the agent, the manager and the kubelet do next.
LEMMA StepKeeps ==
    ASSUME IndInv, [Next]_vars
    PROVE  IndInv'
PROOF
<1>1. /\ TypeOK /\ WindowOK /\ InCare(pos, waiting, unacked, checkpoint, Settled)
      /\ online \in BOOLEAN /\ reached \in [Source -> 0 .. MaxOffset] /\ restarts \in 0 .. MaxRestarts
      /\ phase \in {"running", "stopping", "down"}
  BY Types DEF WindowOK, AgentTypeOK
<1>2. ASSUME CountRestart  PROVE restarts' \in 0 .. MaxRestarts
  BY <1>1, <1>2 DEF CountRestart
<1>3. ASSUME NEW s \in Source, RestartTail(s)  PROVE IndInv'
  <2>1. WindowOK' /\ InCare(pos', waiting', unacked', checkpoint', Settled)
    BY <1>1, <1>3, RetailCares DEF RestartTail
  <2>. QED  BY <1>1, <1>2, <1>3, <2>1, WindowStep DEF RestartTail, Retail
<1>4. CASE Connect
  <2>1. WindowOK' /\ InCare(pos', waiting', unacked', checkpoint', Settled)
    BY <1>1, <1>4, ResendCares DEF Connect
  <2>. QED  BY <1>1, <1>4, <2>1, WindowStep DEF Connect, Resend
<1>5. CASE Disconnect
  BY <1>1, <1>2, <1>5, QuietKeeps DEF Disconnect, agentVars
<1>6. CASE StopAgent
  BY <1>1, <1>6, QuietKeeps DEF StopAgent, Stop
<1>7. CASE ExitAgent
  BY <1>1, <1>7, QuietKeeps DEF ExitAgent, Exit, envVars
<1>8. ASSUME Start  PROVE WindowOK' /\ InCare(pos', waiting', unacked', checkpoint', Settled)
  BY <1>1, <1>8, StartCares
<1>9. CASE StartAgent \/ KillAgent
  BY <1>1, <1>8, <1>9, WindowStep DEF StartAgent, KillAgent, Start, envVars
<1>10. CASE CrashAgent
  BY <1>1, <1>2, <1>8, <1>10, WindowStep DEF CrashAgent, Start
<1>11. CASE UNCHANGED vars
  BY <1>1, <1>11, QuietKeeps DEF vars, agentVars, envVars
<1>. QED
  BY <1>3, <1>4, <1>5, <1>6, <1>7, <1>9, <1>10, <1>11, TailStepKeeps, SendKeeps,
     ManagerCommitsKeeps, ReceiveAckKeeps DEF Next

\* The inductive invariant holds of every state of the agent, under any manager
\* that acks only what it was sent.
THEOREM AgentInvariant == Spec => []IndInv
PROOF
<1>1. Init => IndInv
  BY InitHolds
<1>2. IndInv /\ [Next]_vars => IndInv'
  BY StepKeeps
<1>. QED  BY <1>1, <1>2, PTL DEF Spec

\* Client.heldByte is always the size of the window: no mix of appends, sheds,
\* trims and reconnects lets the count that decides about blocking drift.
THEOREM HeldBytesAlwaysExact == Spec => []HeldBytesExact
PROOF
<1>1. IndInv => HeldBytesExact
  BY DEF IndInv, WindowOK, HeldBytesExact
<1>. QED  BY <1>1, AgentInvariant, PTL

\* No line a tail has read leaves the agent's care before it is committed or shed.
THEOREM AgentSkipsNothing == Spec => []NothingSkipped
PROOF
<1>1. IndInv => NothingSkipped
  BY DEF IndInv, InCare, NothingSkipped, Settled
<1>. QED  BY <1>1, AgentInvariant, PTL

\* The checkpoint never passes a line that is neither committed nor shed, also
\* when dropOldestLocked moves it: the record shed is the first one owed.
THEOREM CheckpointNeverPasses == Spec => []CheckpointSafe
PROOF
<1>1. IndInv => CheckpointSafe
  BY DEF IndInv, InCare, CheckpointSafe, Settled
<1>. QED  BY <1>1, AgentInvariant, PTL

\* Within a session flush sends the window from the front.
THEOREM SentStaysFirst == Spec => []SentFirst
PROOF
<1>1. IndInv => SentFirst
  BY DEF IndInv, WindowOK, SentFirst
<1>. QED  BY <1>1, AgentInvariant, PTL

\* Every variable of the agent keeps its type; with it the window's offsets stay
\* on lines of the file.
THEOREM AgentTypes == Spec => []TypeOK
PROOF
<1>1. IndInv => TypeOK
  BY DEF IndInv
<1>. QED  BY <1>1, AgentInvariant, PTL

\* Enqueue waits in vain only with a line that lies alone between the two caps:
\* in every other wait the window holds a record whose ack makes room.
THEOREM BlockedAlwaysCanWake == Spec => []BlockedCanWake
PROOF
<1>1. ASSUME IndInv  PROVE BlockedCanWake
  <2>. SUFFICES ASSUME NEW s \in Source, Blocked(s), unacked = <<>>
                PROVE  Size[WaitingLine(s)] > MaxHeld
    BY DEF BlockedCanWake
  <2>1. heldByte = 0
    BY <1>1, BytesType DEF IndInv, WindowOK
  <2>2. s \in waiting /\ pos[s] > 0 /\ ~(heldByte + Size[WaitingLine(s)] <= MaxHeld)
    BY <1>1 DEF Blocked, Fits, IndInv, InCare
  <2>3. Size[WaitingLine(s)] \in Nat
    BY <1>1, <2>2, WaitingFacts DEF IndInv, WindowOK
  <2>. QED  BY <2>1, <2>2, <2>3
<1>. QED  BY <1>1, AgentInvariant, PTL

=============================================================================
