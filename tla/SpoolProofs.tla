---------------------------- MODULE SpoolProofs ----------------------------
(***************************************************************************)
(* Proofs about Spool and its refinement of the Receiver contract, for any *)
(* sources, offsets, segment ids and number of faults.                     *)
(***************************************************************************)
EXTENDS SpoolRefinement, DataLemmas

USE SpoolAssumption

-----------------------------------------------------------------------------
(* What the watermark operators return.                                    *)

\* MaxOff bounds the offsets of its source and is 0 or one of them.
LEMMA MaxOffFacts ==
    ASSUME NEW recs \in SUBSET Record, NEW s \in Source
    PROVE  /\ MaxOff(recs, s) \in 0 .. MaxOffset
           /\ \A r \in recs : r.src = s => r.off <= MaxOff(recs, s)
           /\ MaxOff(recs, s) = 0 \/ \E r \in recs : r.src = s /\ r.off = MaxOff(recs, s)
PROOF
<1> DEFINE S == {0} \cup {r.off : r \in {q \in recs : q.src = s}}
<1>1. S \in SUBSET (0 .. MaxOffset) /\ S # {}
  BY DEF Record, Offset
<1>2. Max(S) \in S /\ \A y \in S : Max(S) >= y
  <2>. HIDE DEF S
  <2>. QED  BY <1>1, MaxIsGreatest
<1>3. MaxOff(recs, s) = Max(S)
  BY DEF MaxOff
<1>4. \A r \in recs : r.src = s => r.off \in S
  OBVIOUS
<1>5. \A y \in S : y = 0 \/ \E r \in recs : r.src = s /\ r.off = y
  OBVIOUS
<1>. HIDE DEF S
<1>6. \A r \in recs : r.src = s => r.off <= Max(S)
  <2>. SUFFICES ASSUME NEW r \in recs, r.src = s  PROVE r.off <= Max(S)
    OBVIOUS
  <2>1. r.off \in S
    BY <1>4
  <2>2. Max(S) >= r.off /\ Max(S) \in 0 .. MaxOffset /\ r.off \in 0 .. MaxOffset
    BY <2>1, <1>1, <1>2
  <2>. QED  BY <2>2
<1>. QED  BY <1>1, <1>2, <1>3, <1>5, <1>6

\* Higher takes the larger of two watermarks, source by source.
LEMMA HigherFacts ==
    ASSUME NEW w \in Watermark, NEW v \in Watermark
    PROVE  /\ Higher(w, v) \in Watermark
           /\ \A s \in Source : /\ Higher(w, v)[s] \in {w[s], v[s]}
                                /\ Higher(w, v)[s] >= w[s]
                                /\ Higher(w, v)[s] >= v[s]
PROOF
<1>1. \A s \in Source : /\ Max({w[s], v[s]}) \in {w[s], v[s]}
                        /\ Max({w[s], v[s]}) >= w[s]
                        /\ Max({w[s], v[s]}) >= v[s]
  BY MaxOfTwo DEF Watermark
<1>2. \A s \in Source : Max({w[s], v[s]}) \in 0 .. MaxOffset
  BY <1>1 DEF Watermark
<1>. QED  BY <1>1, <1>2 DEF Higher, Watermark

-----------------------------------------------------------------------------
(* Type correctness.                                                       *)

\* The initial state is well typed.
LEMMA TypeInit == Init => TypeOK
PROOF
<1>. SUFFICES ASSUME Init  PROVE TypeOK
  OBVIOUS
<1>1. NoOffsets \in Watermark
  BY DEF NoOffsets, Watermark
<1>2. 0 \in 0 .. MaxFaults
  OBVIOUS
<1>. QED  BY <1>1, <1>2 DEF Init, TypeOK, Proc, Step

\* Every step of the manager keeps the state well typed.
LEMMA TypeNext == TypeOK /\ [Next]_vars => TypeOK'
PROOF
<1>. SUFFICES ASSUME TypeOK, [Next]_vars  PROVE TypeOK'
  OBVIOUS
<1>1. ASSUME NEW r \in Record, Accept(r)  PROVE TypeOK'
  BY <1>1 DEF TypeOK, Accept, sealVars, s3Vars, history, Record, Offset, Watermark
<1>2. CASE Ack
  BY <1>2, HigherFacts DEF TypeOK, Ack, spoolVars, sealVars, s3Vars
<1>3. ASSUME NEW p \in Sealer, TakeBuffer(p), proc' \in Proc  PROVE TypeOK'
  BY <1>3 DEF TypeOK, TakeBuffer, s3Vars, Step
<1>4. CASE LoopSeal
  BY <1>4, <1>3 DEF LoopSeal, TypeOK, Sealer
<1>5. CASE LoopSnapshot
  BY <1>5 DEF LoopSnapshot, Snapshot, TypeOK, spoolVars, sealVars, history
<1>6. CASE Terminate
  BY <1>6 DEF Terminate, TypeOK, spoolVars, sealVars, s3Vars, history, Proc, Running
<1>7. CASE ShutdownSeal
  <2>1. proc' \in Proc
    BY <1>7 DEF ShutdownSeal, Proc, Running
  <2>. QED  BY <1>7, <1>3, <2>1 DEF ShutdownSeal, TypeOK, spoolVars, sealVars, s3Vars,
                                    history, Sealer
<1>8. CASE ShutdownSnapshot
  <2>1. proc' \in Proc
    BY <1>8 DEF ShutdownSnapshot, Proc, Running
  <2>. QED  BY <1>8, <2>1 DEF ShutdownSnapshot, Snapshot, Fault, TypeOK, spoolVars, sealVars,
                             s3Vars, history
<1>9. ASSUME NEW p \in Sealer, SealStep(p)  PROVE TypeOK'
  <2>1. ASSUME Requeue(p), body' \in [SegId -> SUBSET Record], metas' \in SUBSET SegId
        PROVE  TypeOK'
    BY <2>1 DEF Requeue, Fault, TypeOK, Step
  <2>2. CASE WriteFails(p)
    BY <2>2, <2>1 DEF WriteFails, TypeOK
  <2>3. CASE LockStore(p)
    BY <2>3 DEF LockStore, TypeOK, spoolVars, s3Vars, history, Step, Locked
  <2>4. ASSUME StoreBody(p), pc[p] # "idle"  PROVE body' \in [SegId -> SUBSET Record]
    BY <2>4 DEF StoreBody, TypeOK
  <2>5. CASE PutBody(p)
    BY <2>5, <2>4 DEF PutBody, TypeOK, spoolVars, history, Step, Locked
  <2>6. CASE PutBodyFails(p)
    BY <2>6, <2>4, <2>1 DEF PutBodyFails, TypeOK
  <2>7. CASE PutMeta(p)
    BY <2>7 DEF PutMeta, TypeOK, spoolVars, history, Step, Locked
  <2>8. CASE PutMetaFails(p)
    BY <2>8, <2>1 DEF PutMetaFails, TypeOK
  <2>9. CASE PutCatalog(p)
    BY <2>9 DEF PutCatalog, TypeOK, spoolVars, s3Vars, history, Step
  <2>10. CASE PutCatalogFails(p)
    BY <2>10, <2>1 DEF PutCatalogFails, TypeOK
  <2>11. CASE Commit(p)
    <3>1. [s \in Source |-> MaxOff(batch[p], s)] \in Watermark
      BY MaxOffFacts DEF TypeOK, Watermark
    <3>2. committed' \in Watermark
      BY <2>11, <3>1, HigherFacts DEF Commit, TypeOK
    <3>. QED  BY <2>11, <3>2 DEF Commit, TypeOK, s3Vars, history, Step
  <2>. QED  BY <1>9, <2>2, <2>3, <2>5, <2>6, <2>7, <2>8, <2>9, <2>10, <2>11 DEF SealStep
<1>10. ASSUME Restart, faults' \in 0 .. MaxFaults  PROVE TypeOK'
  BY <1>10 DEF Restart, TypeOK, NoOffsets, Watermark, s3Vars, history, Proc, Step
<1>11. CASE Exit
  BY <1>11, <1>10 DEF Exit, TypeOK
<1>12. CASE Crash
  BY <1>12, <1>10 DEF Crash, Fault, TypeOK
<1>13. CASE LoadSnapshot
  BY <1>13 DEF LoadSnapshot, TypeOK, spoolVars, sealVars, s3Vars, history, Proc
<1>14. CASE NewSpool
  <2>1. RecordsOf(catalog) \in SUBSET Record
    BY DEF RecordsOf, TypeOK
  <2>2. SourceWatermarks \in Watermark
    BY <2>1, MaxOffFacts DEF SourceWatermarks, Watermark
  <2>. QED  BY <1>14, <2>2 DEF NewSpool, TypeOK, sealVars, s3Vars, history, Proc, Running
<1>15. ASSUME NEW i \in SegId, RecoverSidecar(i)  PROVE TypeOK'
  BY <1>15 DEF RecoverSidecar, TypeOK, spoolVars, sealVars, s3Vars, history
<1>16. CASE UNCHANGED vars
  BY <1>16 DEF TypeOK, vars, spoolVars, sealVars, s3Vars, history
<1>. QED  BY <1>1, <1>2, <1>4, <1>5, <1>6, <1>7, <1>8, <1>9, <1>11, <1>12, <1>13, <1>14,
             <1>15, <1>16 DEF Next

\* The manager's state is well typed in every reachable state, for any number
\* of sources, records, segments and faults.
THEOREM TypeCorrect == Spec => []TypeOK
BY TypeInit, TypeNext, PTL DEF Spec

-----------------------------------------------------------------------------
(* Sealing and the object store.                                           *)

\* Initially nothing is stored and nobody seals.
LEMMA SealInit == Init => SealInv
BY DEF Init, SealInv, Running

\* Every step keeps each Seal and the object store in agreement.
LEMMA SealNext == TypeOK /\ SealInv /\ [Next]_vars => SealInv'
PROOF
<1>. SUFFICES ASSUME TypeOK, SealInv, [Next]_vars  PROVE SealInv'
  OBVIOUS
<1>1. ASSUME NEW r \in Record, Accept(r)  PROVE SealInv'
  BY <1>1 DEF SealInv, Accept, sealVars, s3Vars, history
<1>2. CASE Ack
  BY <1>2 DEF SealInv, Ack, spoolVars, sealVars, s3Vars
<1>3. ASSUME NEW p \in Sealer, TakeBuffer(p), proc' \in Running  PROVE SealInv'
  BY <1>3 DEF SealInv, TypeOK, TakeBuffer, FreshId, s3Vars
<1>4. CASE LoopSeal
  BY <1>4, <1>3 DEF LoopSeal, Sealer
<1>5. CASE LoopSnapshot
  BY <1>5 DEF LoopSnapshot, Snapshot, SealInv, spoolVars, sealVars, history
<1>6. CASE Terminate
  BY <1>6 DEF Terminate, SealInv, spoolVars, sealVars, s3Vars, history, Running
<1>7. CASE ShutdownSeal
  <2>1. proc \in Running /\ proc' \in Running
    BY <1>7 DEF ShutdownSeal, Running
  <2>. QED  BY <1>7, <1>3, <2>1 DEF ShutdownSeal, SealInv, spoolVars, sealVars, s3Vars,
                                    history, Sealer
<1>8. CASE ShutdownSnapshot
  <2>1. proc \in Running /\ proc' \in Running
    BY <1>8 DEF ShutdownSnapshot, Running
  <2>. QED  BY <1>8, <2>1 DEF ShutdownSnapshot, Snapshot, SealInv, spoolVars, sealVars,
                             s3Vars, history
<1>9. ASSUME NEW p \in Sealer, SealStep(p)  PROVE SealInv'
  <2>1. pc[p] # "idle" /\ proc \in Running /\ segId[p] \in SegId
    BY <1>9 DEF SealInv, TypeOK, SealStep, WriteFails, LockStore, PutBody, PutBodyFails,
                PutMeta, PutMetaFails, PutCatalog, PutCatalogFails, Commit
  <2>2. CASE WriteFails(p)
    BY <2>1, <2>2 DEF WriteFails, Requeue, SealInv, TypeOK
  <2>3. CASE LockStore(p)
    BY <2>1, <2>3 DEF LockStore, SealInv, TypeOK, spoolVars, s3Vars
  <2>4. CASE PutBody(p)
    BY <2>1, <2>4 DEF PutBody, StoreBody, SealInv, TypeOK, spoolVars
  <2>5. CASE PutBodyFails(p)
    BY <2>1, <2>5 DEF PutBodyFails, StoreBody, Requeue, SealInv, TypeOK
  <2>6. CASE PutMeta(p)
    BY <2>1, <2>6 DEF PutMeta, SealInv, TypeOK, spoolVars
  <2>7. CASE PutMetaFails(p)
    BY <2>1, <2>7 DEF PutMetaFails, Requeue, SealInv, TypeOK
  <2>8. CASE PutCatalog(p)
    BY <2>1, <2>8 DEF PutCatalog, SealInv, TypeOK, spoolVars, s3Vars
  <2>9. CASE PutCatalogFails(p)
    BY <2>1, <2>9 DEF PutCatalogFails, Requeue, SealInv, TypeOK
  <2>10. CASE Commit(p)
    BY <2>1, <2>10 DEF Commit, SealInv, TypeOK, s3Vars
  <2>. QED  BY <1>9, <2>2, <2>3, <2>4, <2>5, <2>6, <2>7, <2>8, <2>9, <2>10 DEF SealStep
<1>10. ASSUME Restart  PROVE SealInv'
  BY <1>10 DEF Restart, SealInv, s3Vars
<1>11. CASE Exit \/ Crash
  BY <1>11, <1>10 DEF Exit, Crash
<1>12. CASE LoadSnapshot
  BY <1>12 DEF LoadSnapshot, SealInv, spoolVars, sealVars, s3Vars, Running
<1>13. CASE NewSpool
  BY <1>13 DEF NewSpool, SealInv, sealVars, s3Vars, Running
<1>14. ASSUME NEW i \in SegId, RecoverSidecar(i)  PROVE SealInv'
  BY <1>14 DEF RecoverSidecar, SealInv, spoolVars, sealVars, s3Vars
<1>15. CASE UNCHANGED vars
  BY <1>15 DEF SealInv, vars, spoolVars, sealVars, s3Vars
<1>. QED  BY <1>1, <1>2, <1>4, <1>5, <1>6, <1>7, <1>8, <1>9, <1>11, <1>12, <1>13, <1>14,
             <1>15 DEF Next

\* A sidecar never points at a missing body and the catalog is derivable from
\* the sidecars, whatever write fails and wherever the manager crashes.
THEOREM CatalogAlwaysDerivable == Spec => []CatalogDerivable
PROOF
<1>1. SealInv => CatalogDerivable
  BY DEF SealInv, CatalogDerivable
<1>. QED  BY <1>1, TypeInit, TypeNext, SealInit, SealNext, PTL DEF Spec

-----------------------------------------------------------------------------
(* How a step moves records between the buffer, the Seals and the store.   *)

\* The durable records change only with the sidecars and the bodies they name.
LEMMA DurableSame ==
    ASSUME metas' = metas, \A i \in metas : body'[i] = body[i]
    PROVE  Durable' = Durable
BY DEF Durable, RecordsOf

\* A stored sidecar makes the batch of its Seal durable.
LEMMA DurableAdds ==
    ASSUME NEW p \in Sealer, body[segId[p]] = batch[p],
           metas' = metas \cup {segId[p]}, body' = body
    PROVE  Durable' = Durable \cup batch[p]
BY DEF Durable, RecordsOf

\* The records are records, and those of a Seal that has its sidecar are durable.
LEMMA SetTypes ==
    ASSUME TypeOK, SealInv
    PROVE  /\ Held \in SUBSET Record
           /\ Durable \in SUBSET Record
           /\ \A p \in Sealer : batch[p] \subseteq Held
           /\ \A p \in Sealer : pc[p] \in {"catalog", "commit"} => batch[p] \subseteq Durable
PROOF
<1>1. Held \in SUBSET Record /\ \A p \in Sealer : batch[p] \subseteq Held
  BY DEF Held, TypeOK
<1>2. Durable \in SUBSET Record
  BY DEF Durable, RecordsOf, TypeOK
<1>3. \A p \in Sealer : pc[p] \in {"catalog", "commit"} => batch[p] \subseteq Durable
  BY DEF Durable, RecordsOf, SealInv
<1>. QED  BY <1>1, <1>2, <1>3

\* A Seal that changes its own batch changes what the Seals hold together.
LEMMA HeldMoves ==
    ASSUME TypeOK, NEW p \in Sealer, NEW recs, batch' = [batch EXCEPT ![p] = recs]
    PROVE  /\ Held' \subseteq Held \cup recs
           /\ SealInv /\ (\A q \in Sealer : q # p => pc[q] = "idle") => Held' = recs
           /\ SealInv /\ (\A q \in Sealer : q # p => pc[q] = "idle") => Held = batch[p]
BY DEF Held, TypeOK, SealInv

\* Every step of Seal on the way to the sidecar leaves the durable records
\* alone, the sidecar's Put adds the batch, and so may a failing one.
LEMMA SealStepDurable ==
    ASSUME TypeOK, SealInv, NEW p \in Sealer, SealStep(p)
    PROVE  \/ Durable' = Durable
           \/ Durable' = Durable \cup batch[p] /\ (PutMeta(p) \/ PutMetaFails(p))
PROOF
<1>1. pc[p] \in {"body", "meta"} => segId[p] \in SegId /\ segId[p] \notin metas
  BY DEF TypeOK, SealInv
<1>2. ASSUME pc[p] = "body", StoreBody(p)  PROVE \A i \in metas : body'[i] = body[i]
  BY <1>1, <1>2 DEF StoreBody, TypeOK
<1>3. CASE PutMeta(p) \/ PutMetaFails(p)
  <2>1. body' = body /\ body[segId[p]] = batch[p]
    BY <1>3 DEF PutMeta, PutMetaFails, SealInv
  <2>2. metas' = metas \/ metas' = metas \cup {segId[p]}
    BY <1>3 DEF PutMeta, PutMetaFails
  <2>3. Durable' = Durable \/ Durable' = Durable \cup batch[p]
    BY <2>1, <2>2, DurableSame, DurableAdds
  <2>. QED  BY <1>3, <2>3
<1>4. CASE PutBody(p) \/ PutBodyFails(p)
  <2>1. metas' = metas /\ \A i \in metas : body'[i] = body[i]
    BY <1>2, <1>4 DEF PutBody, PutBodyFails
  <2>. QED  BY <2>1, DurableSame
<1>5. CASE ~(PutMeta(p) \/ PutMetaFails(p) \/ PutBody(p) \/ PutBodyFails(p))
  <2>1. metas' = metas /\ body' = body
    BY <1>5 DEF SealStep, WriteFails, LockStore, PutCatalog, PutCatalogFails, Commit, s3Vars
  <2>. QED  BY <2>1, DurableSame
<1>. QED  BY <1>3, <1>4, <1>5

-----------------------------------------------------------------------------
(* The received watermark.                                                 *)

\* A recovered spool starts from the highest offset of every source that is in
\* a cataloged segment, and all discoverable segments are cataloged by then.
LEMMA RecoveredWatermark ==
    ASSUME TypeOK, SealInv, NewSpool
    PROVE  /\ received' \in Watermark
           /\ committed' = received'
           /\ \A r \in Durable : r.off <= received'[r.src]
           /\ \A s \in Source : \/ received'[s] = 0
                               \/ \E r \in Durable : r.src = s /\ r.off = received'[s]
PROOF
<1>1. catalog = metas
  BY DEF NewSpool, SealInv
<1>2. RecordsOf(catalog) = Durable /\ Durable \in SUBSET Record
  BY <1>1, SetTypes DEF Durable
<1>3. received' = [s \in Source |-> MaxOff(Durable, s)]
  BY <1>2 DEF NewSpool, SourceWatermarks
<1>4. \A s \in Source : MaxOff(Durable, s) \in 0 .. MaxOffset
  BY <1>2, MaxOffFacts
<1>5. ASSUME NEW r \in Durable  PROVE r.off <= received'[r.src]
  <2>1. r.src \in Source
    BY <1>2 DEF Record
  <2>. QED  BY <1>2, <1>3, <2>1, MaxOffFacts
<1>6. ASSUME NEW s \in Source
      PROVE  received'[s] = 0 \/ \E r \in Durable : r.src = s /\ r.off = received'[s]
  BY <1>2, <1>3, MaxOffFacts
<1>. QED  BY <1>3, <1>4, <1>5, <1>6 DEF NewSpool, Watermark

\* Initially there is no record.
LEMMA ReceivedInit == Init => ReceivedInv
BY DEF Init, ReceivedInv, Held, Durable, RecordsOf, Running

\* No step puts a record above the received watermark.
LEMMA ReceivedNext == TypeOK /\ SealInv /\ ReceivedInv /\ [Next]_vars => ReceivedInv'
PROOF
<1>. SUFFICES ASSUME TypeOK, SealInv, ReceivedInv, [Next]_vars  PROVE ReceivedInv'
  OBVIOUS
<1>a. /\ Held \in SUBSET Record /\ Durable \in SUBSET Record /\ buf \in SUBSET Record
      /\ received \in Watermark
      /\ \A p \in Sealer : batch[p] \subseteq Held
  BY SetTypes DEF TypeOK
<1>b. ASSUME UNCHANGED <<received, body, metas, buf, batch>>, proc' \in Running => proc \in Running
      PROVE  ReceivedInv'
  <2>1. Held' = Held
    BY <1>b DEF Held
  <2>2. Durable' = Durable
    BY <1>b, DurableSame
  <2>. QED  BY <1>b, <2>1, <2>2 DEF ReceivedInv
<1>1. ASSUME NEW r \in Record, Accept(r)  PROVE ReceivedInv'
  <2>1. Held' = Held
    BY <1>1 DEF Held, Accept, sealVars
  <2>2. Durable' = Durable
    BY <1>1, DurableSame DEF Accept, s3Vars
  <2>3. buf' = buf \cup {r} /\ proc' = proc
    BY <1>1 DEF Accept
  <2>4. \A s \in Source : received'[s] >= received[s]
    BY <1>1, <1>a DEF Accept, Watermark, Record, Offset
  <2>5. received'[r.src] = r.off
    BY <1>1, <1>a DEF Accept, Watermark, Record
  <2>6. received' \in Watermark
    BY <1>1, <1>a DEF Accept, Watermark, Record, Offset
  <2>7. ASSUME NEW q \in Record, q.off <= received[q.src]  PROVE q.off <= received'[q.src]
    BY <2>4, <2>6, <2>7, <1>a DEF Watermark, Record, Offset
  <2>. QED  BY <2>1, <2>2, <2>3, <2>5, <2>7, <1>a DEF ReceivedInv, Record, Offset
<1>2. CASE Ack
  BY <1>2, <1>b DEF Ack, spoolVars, sealVars, s3Vars
<1>3. ASSUME NEW p \in Sealer, TakeBuffer(p), proc \in Running  PROVE ReceivedInv'
  <2>1. Held' \subseteq Held \cup buf
    BY <1>3, HeldMoves DEF TakeBuffer
  <2>2. Durable' = Durable
    BY <1>3, DurableSame DEF TakeBuffer, s3Vars
  <2>. QED  BY <1>3, <2>1, <2>2 DEF ReceivedInv, TakeBuffer
<1>4. CASE LoopSeal
  BY <1>4, <1>3 DEF LoopSeal, Sealer
<1>5. CASE LoopSnapshot
  BY <1>5, <1>b DEF LoopSnapshot, Snapshot, spoolVars, sealVars
<1>6. CASE Terminate
  BY <1>6, <1>b DEF Terminate, spoolVars, sealVars, s3Vars, Running
<1>7. CASE ShutdownSeal
  <2>1. proc \in Running
    BY <1>7 DEF ShutdownSeal, Running
  <2>. QED  BY <1>7, <1>3, <1>b, <2>1 DEF ShutdownSeal, spoolVars, sealVars, s3Vars, Sealer
<1>8. CASE ShutdownSnapshot
  <2>1. proc \in Running
    BY <1>8 DEF ShutdownSnapshot, Running
  <2>. QED  BY <1>8, <1>b, <2>1 DEF ShutdownSnapshot, Snapshot, spoolVars, sealVars, s3Vars
<1>9. ASSUME NEW p \in Sealer, SealStep(p)  PROVE ReceivedInv'
  <2>1. proc \in Running /\ proc' = proc /\ received' = received
    BY <1>9 DEF SealInv, SealStep, WriteFails, LockStore, PutBody, PutBodyFails, PutMeta,
                PutMetaFails, PutCatalog, PutCatalogFails, Commit, Requeue, spoolVars
  <2>2. Durable' \subseteq Durable \cup batch[p]
    BY <1>9, SealStepDurable
  <2>3. buf' \subseteq buf \cup batch[p]
    BY <1>9 DEF SealStep, WriteFails, LockStore, PutBody, PutBodyFails, PutMeta,
                PutMetaFails, PutCatalog, PutCatalogFails, Commit, Requeue, spoolVars
  <2>4. batch' = batch \/ batch' = [batch EXCEPT ![p] = {}]
    BY <1>9 DEF SealStep, WriteFails, LockStore, PutBody, PutBodyFails, PutMeta,
                PutMetaFails, PutCatalog, PutCatalogFails, Commit, Requeue
  <2>5. Held' \subseteq Held
    <3>1. CASE batch' = batch
      BY <3>1 DEF Held
    <3>2. CASE batch' = [batch EXCEPT ![p] = {}]
      <4>1. \A q \in Sealer : batch'[q] \subseteq batch[q]
        BY <3>2 DEF TypeOK
      <4>. QED  BY <4>1 DEF Held
    <3>. QED  BY <2>4, <3>1, <3>2
  <2>. QED  BY <2>1, <2>2, <2>3, <2>5, <1>a DEF ReceivedInv
<1>10. CASE Exit \/ Crash
  <2>1. buf' = {} /\ Held' = {} /\ proc' \notin Running
    BY <1>10 DEF Exit, Crash, Restart, Held, Running
  <2>. QED  BY <2>1 DEF ReceivedInv
<1>11. CASE LoadSnapshot
  BY <1>11, <1>b DEF LoadSnapshot, spoolVars, sealVars, s3Vars, Running
<1>12. CASE NewSpool
  <2>1. buf' = {} /\ Held' = {} /\ Durable' = Durable
    BY <1>12, DurableSame DEF NewSpool, SealInv, Held, s3Vars, sealVars, Running
  <2>. QED  BY <1>12, <2>1, RecoveredWatermark DEF ReceivedInv
<1>13. ASSUME NEW i \in SegId, RecoverSidecar(i)  PROVE ReceivedInv'
  BY <1>13, <1>b DEF RecoverSidecar, spoolVars, sealVars, s3Vars
<1>14. CASE UNCHANGED vars
  BY <1>14, <1>b DEF vars, spoolVars, sealVars, s3Vars
<1>. QED  BY <1>1, <1>2, <1>4, <1>5, <1>6, <1>7, <1>8, <1>9, <1>10, <1>11, <1>12, <1>13,
             <1>14 DEF Next

-----------------------------------------------------------------------------
(* The committed and the acked watermark.                                  *)

\* What is durable stays durable.
LEMMA DurableGrows == TypeOK /\ SealInv /\ [Next]_vars => Durable \subseteq Durable'
PROOF
<1>. SUFFICES ASSUME TypeOK, SealInv, [Next]_vars  PROVE Durable \subseteq Durable'
  OBVIOUS
<1>1. ASSUME NEW p \in Sealer, SealStep(p)  PROVE Durable \subseteq Durable'
  BY <1>1, SealStepDurable
<1>2. CASE ~\E p \in Sealer : SealStep(p)
  <2>1. metas' = metas /\ body' = body
    BY <1>2 DEF Next, vars, s3Vars, Accept, Ack, LoopSeal, TakeBuffer, LoopSnapshot,
         Snapshot, Terminate, ShutdownSeal, ShutdownSnapshot, Exit, Crash, Restart,
         LoadSnapshot, NewSpool, RecoverSidecar
  <2>. QED  BY <2>1, DurableSame
<1>. QED  BY <1>1, <1>2

\* Initially both watermarks are 0.
LEMMA WatermarkInit == Init => WatermarkInv
BY DEF Init, WatermarkInv, Reached, NoOffsets, Running

\* A step that changes neither watermark cannot uncover them.
LEMMA WatermarkStutter ==
    ASSUME WatermarkInv, Durable \subseteq Durable', UNCHANGED <<acked, committed>>,
           proc' \in Running => proc \in Running
    PROVE  WatermarkInv'
BY DEF WatermarkInv, Reached

\* Every step keeps the acks below the committed watermark, and both within what
\* is durable.
LEMMA WatermarkNext == TypeOK /\ SealInv /\ WatermarkInv /\ [Next]_vars => WatermarkInv'
PROOF
<1>. SUFFICES ASSUME TypeOK, SealInv, WatermarkInv, [Next]_vars  PROVE WatermarkInv'
  OBVIOUS
<1>a. Durable \subseteq Durable' /\ acked \in Watermark /\ committed \in Watermark
  BY DurableGrows DEF TypeOK
<1>1. CASE Ack
  <2>1. committed' = committed /\ acked' = Higher(acked, committed) /\ proc \in Running
    BY <1>1 DEF Ack, spoolVars
  <2>2. \A s \in Source : acked'[s] = committed[s]
    <3>. SUFFICES ASSUME NEW s \in Source  PROVE acked'[s] = committed[s]
      OBVIOUS
    <3>1. acked[s] <= committed[s] /\ acked[s] \in Nat /\ committed[s] \in Nat
      BY <1>a, <2>1 DEF WatermarkInv, Watermark
    <3>2. acked'[s] \in {acked[s], committed[s]} /\ acked'[s] >= committed[s]
      BY <1>a, <2>1, HigherFacts
    <3>. QED  BY <3>1, <3>2
  <2>3. \A s \in Source : Reached(committed, s)' /\ Reached(acked, s)'
    BY <1>a, <2>1, <2>2 DEF WatermarkInv, Reached
  <2>4. \A s \in Source : acked'[s] <= committed'[s]
    BY <1>a, <2>1, <2>2 DEF Watermark
  <2>. QED  BY <2>3, <2>4 DEF WatermarkInv
<1>2. ASSUME NEW p \in Sealer, Commit(p)  PROVE WatermarkInv'
  <2> DEFINE top == [s \in Source |-> MaxOff(batch[p], s)]
  <2>1. acked' = acked /\ proc' = proc /\ committed' = Higher(committed, top)
    BY <1>2 DEF Commit, history
  <2>2. batch[p] \subseteq Durable /\ batch[p] \in SUBSET Record
    BY <1>2, SetTypes DEF Commit, TypeOK
  <2>3. \A s \in Source : top[s] \in 0 .. MaxOffset /\ Reached(top, s)
    BY <2>2, MaxOffFacts DEF Reached
  <2>4. top \in Watermark
    BY <2>3 DEF Watermark
  <2>. HIDE DEF top
  <2>5. \A s \in Source : committed'[s] \in {committed[s], top[s]} /\ committed'[s] >= committed[s]
    BY <1>a, <2>1, <2>4, HigherFacts
  <2>6. committed' \in Watermark
    BY <1>a, <2>1, <2>4, HigherFacts
  <2>7. \A s \in Source : Reached(committed, s)' /\ Reached(acked, s)'
    BY <1>a, <2>1, <2>3, <2>5 DEF WatermarkInv, Reached
  <2>8. proc' \in Running => \A s \in Source : acked'[s] <= committed'[s]
    BY <1>a, <2>1, <2>5, <2>6 DEF WatermarkInv, Watermark
  <2>. QED  BY <2>7, <2>8 DEF WatermarkInv
<1>3. CASE Exit \/ Crash
  <2>1. acked' = acked /\ committed' = NoOffsets /\ proc' \notin Running
    BY <1>3 DEF Exit, Crash, Restart, Running, history
  <2>. QED  BY <1>a, <2>1 DEF WatermarkInv, Reached, NoOffsets
<1>4. CASE NewSpool
  <2>1. acked' = acked
    BY <1>4 DEF NewSpool, history
  <2>2. /\ committed' \in Watermark
        /\ \A r \in Durable : r.off <= committed'[r.src]
        /\ \A s \in Source : \/ committed'[s] = 0
                            \/ \E r \in Durable : r.src = s /\ r.off = committed'[s]
    BY <1>4, RecoveredWatermark
  <2>3. Durable \in SUBSET Record
    BY SetTypes
  <2>4. \A s \in Source : acked'[s] <= committed'[s]
    BY <1>a, <2>1, <2>2, <2>3 DEF WatermarkInv, Reached, Record, Offset, Watermark
  <2>5. \A s \in Source : Reached(committed, s)' /\ Reached(acked, s)'
    <3>. SUFFICES ASSUME NEW s \in Source  PROVE Reached(committed, s)' /\ Reached(acked, s)'
      OBVIOUS
    <3>1. Reached(acked, s)'
      BY <1>a, <2>1 DEF WatermarkInv, Reached
    <3>2. CASE committed'[s] = 0
      BY <3>1, <3>2 DEF Reached
    <3>3. ASSUME NEW r \in Durable, r.src = s, r.off = committed'[s]
          PROVE  Reached(committed, s)'
      <4>1. committed'[s] <= r.off
        BY <3>3, <2>3 DEF Record, Offset
      <4>. QED  BY <1>a, <3>3, <4>1 DEF Reached
    <3>. QED  BY <2>2, <3>1, <3>2, <3>3
  <2>. QED  BY <2>4, <2>5 DEF WatermarkInv
<1>5. CASE ~(Ack \/ (\E p \in Sealer : Commit(p)) \/ Exit \/ Crash \/ NewSpool)
  <2>1. acked' = acked /\ committed' = committed
    BY <1>5 DEF Next, vars, spoolVars, history, Accept, LoopSeal, TakeBuffer, LoopSnapshot,
         Snapshot, Terminate, ShutdownSeal, ShutdownSnapshot, SealStep, WriteFails,
         LockStore, PutBody, PutBodyFails, PutMeta, PutMetaFails, PutCatalog,
         PutCatalogFails, Requeue, LoadSnapshot, RecoverSidecar
  <2>2. proc' \in Running => proc \in Running
    BY <1>5 DEF Next, vars, Accept, LoopSeal, LoopSnapshot,
         Terminate, ShutdownSeal, ShutdownSnapshot, SealStep, WriteFails,
         LockStore, PutBody, PutBodyFails, PutMeta, PutMetaFails, PutCatalog,
         PutCatalogFails, Requeue, LoadSnapshot, RecoverSidecar, Running
  <2>. QED  BY <1>a, <2>1, <2>2, WatermarkStutter
<1>. QED  BY <1>1, <1>2, <1>3, <1>4, <1>5

-----------------------------------------------------------------------------
(* Every record in one place, unless a stored batch was requeued.          *)

\* Initially there is no record.
LEMMA OnceInit == Init => OnceInv
BY DEF Init, OnceInv, StoredOnce, Durable, RecordsOf

\* A step that moves no record and takes no Seal back keeps them apart.
LEMMA OnceStutter ==
    ASSUME OnceInv, UNCHANGED <<buf, batch, body, metas>>,
           \A p \in Sealer : pc'[p] \in {"write", "body", "meta"}
                               => pc[p] \in {"write", "body", "meta"}
    PROVE  OnceInv'
PROOF
<1>1. Durable' = Durable
  BY DurableSame
<1>. QED  BY <1>1 DEF OnceInv, StoredOnce

\* Taking the buffer moves all of it into one Seal.
LEMMA OnceTake ==
    ASSUME TypeOK, SealInv, OnceInv, NEW p \in Sealer, TakeBuffer(p)
    PROVE  OnceInv'
PROOF
<1>1. Durable' = Durable
  BY DurableSame DEF TakeBuffer, s3Vars
<1>2. StoredOnce'
  BY DEF OnceInv, StoredOnce, TakeBuffer, s3Vars
<1>3. buf' = {} /\ batch'[p] = buf /\ \A q \in Sealer : q # p => batch'[q] = batch[q]
  BY DEF TakeBuffer, TypeOK
<1>4. \A q \in Sealer : q # p => pc'[q] = pc[q]
  BY DEF TakeBuffer, TypeOK
<1>. QED  BY <1>1, <1>2, <1>3, <1>4 DEF OnceInv

\* A Seal's sidecar turns its batch into the one place of its records; a failed
\* Seal without a sidecar puts them back into the buffer.
LEMMA OnceSeal ==
    ASSUME TypeOK, SealInv, OnceInv, ~requeuedDurable', NEW p \in Sealer, SealStep(p)
    PROVE  OnceInv'
PROOF
<1>1. CASE LockStore(p) \/ PutCatalog(p)
  BY <1>1, OnceStutter DEF LockStore, PutCatalog, TypeOK, spoolVars, s3Vars, Locked
<1>2. CASE Commit(p)
  <2>1. Durable' = Durable /\ buf' = buf
    BY <1>2, DurableSame DEF Commit, s3Vars
  <2>2. StoredOnce'
    BY <1>2 DEF OnceInv, StoredOnce, Commit, s3Vars
  <2>3. batch'[p] = {} /\ \A q \in Sealer : q # p => batch'[q] = batch[q] /\ pc'[q] = pc[q]
    BY <1>2 DEF Commit, TypeOK
  <2>. QED  BY <2>1, <2>2, <2>3 DEF OnceInv
<1>3. CASE PutBody(p)
  <2>1. segId[p] \in SegId /\ segId[p] \notin metas
    BY <1>3 DEF PutBody, SealInv, TypeOK
  <2>2. metas' = metas /\ \A i \in metas : body'[i] = body[i]
    BY <1>3, <2>1 DEF PutBody, StoreBody, TypeOK
  <2>3. Durable' = Durable /\ StoredOnce'
    BY <2>2, DurableSame DEF OnceInv, StoredOnce
  <2>4. buf' = buf /\ batch' = batch
    BY <1>3 DEF PutBody, spoolVars
  <2>5. \A q \in Sealer : pc'[q] \in {"write", "body", "meta"} => pc[q] \in {"write", "body", "meta"}
    BY <1>3 DEF PutBody, TypeOK
  <2>. QED  BY <2>3, <2>4, <2>5 DEF OnceInv
<1>4. CASE PutMeta(p)
  <2>1. /\ body' = body /\ metas' = metas \cup {segId[p]} /\ buf' = buf /\ batch' = batch
        /\ pc[p] = "meta" /\ body[segId[p]] = batch[p]
    BY <1>4 DEF PutMeta, SealInv, spoolVars
  <2>2. Durable' = Durable \cup batch[p]
    BY <2>1, DurableAdds
  <2>3. \A i \in metas : body[i] \subseteq Durable
    BY DEF Durable, RecordsOf
  <2>4. batch[p] \cap Durable = {}
    BY <2>1 DEF OnceInv
  <2>5. StoredOnce'
    BY <2>1, <2>3, <2>4 DEF OnceInv, StoredOnce
  <2>6. pc'[p] = "catalog" /\ \A q \in Sealer : q # p => pc'[q] = pc[q]
    BY <1>4 DEF PutMeta, TypeOK
  <2>7. \A q \in Sealer : pc'[q] \in {"write", "body", "meta"} => batch[q] \cap Durable' = {}
    BY <2>2, <2>6 DEF OnceInv
  <2>. QED  BY <2>1, <2>2, <2>5, <2>7 DEF OnceInv
<1>5. CASE Requeue(p) /\ (WriteFails(p) \/ PutBodyFails(p) \/ PutMetaFails(p) \/ PutCatalogFails(p))
  <2>1. segId[p] \notin metas'
    BY <1>5 DEF Requeue
  <2>2. metas' = metas /\ pc[p] \in {"write", "body", "meta"} /\ segId[p] \in SegId
    BY <1>5, <2>1 DEF WriteFails, PutBodyFails, PutMetaFails, PutCatalogFails, SealInv, TypeOK
  <2>3. \A i \in metas : body'[i] = body[i]
    BY <1>5, <2>1, <2>2 DEF WriteFails, PutBodyFails, PutMetaFails, PutCatalogFails, StoreBody, TypeOK
  <2>4. Durable' = Durable /\ StoredOnce'
    BY <2>2, <2>3, DurableSame DEF OnceInv, StoredOnce
  <2>5. /\ buf' = batch[p] \cup buf /\ batch'[p] = {}
        /\ \A q \in Sealer : q # p => batch'[q] = batch[q] /\ pc'[q] = pc[q]
    BY <1>5 DEF Requeue, TypeOK
  <2>6. buf' \cap Durable' = {}
    BY <2>2, <2>4, <2>5 DEF OnceInv
  <2>7. \A q \in Sealer : batch'[q] \cap buf' = {}
    BY <2>5 DEF OnceInv
  <2>8. \A q \in Sealer : pc'[q] \in {"write", "body", "meta"} => batch'[q] \cap Durable' = {}
    BY <2>4, <2>5 DEF OnceInv
  <2>9. \A q, t \in Sealer : q # t => batch'[q] \cap batch'[t] = {}
    BY <2>5 DEF OnceInv
  <2>. QED  BY <2>4, <2>6, <2>7, <2>8, <2>9 DEF OnceInv
<1>. QED  BY <1>1, <1>2, <1>3, <1>4, <1>5
             DEF SealStep, WriteFails, PutBodyFails, PutMetaFails, PutCatalogFails

\* Every step keeps the places of a record apart, unless it requeues a batch
\* whose sidecar is stored.
LEMMA OnceNext ==
    TypeOK /\ IndInv /\ [Next]_vars => (~requeuedDurable' => OnceInv')
PROOF
<1>. SUFFICES ASSUME TypeOK, IndInv, [Next]_vars, ~requeuedDurable'  PROVE OnceInv'
  OBVIOUS
<1>a. SealInv /\ ReceivedInv
  BY DEF IndInv
<1>b. OnceInv
  BY DEF IndInv, Next, vars, history, Accept, Ack, LoopSeal, TakeBuffer, LoopSnapshot,
         Snapshot, Terminate, ShutdownSeal, ShutdownSnapshot, SealStep, WriteFails,
         LockStore, PutBody, PutBodyFails, PutMeta, PutMetaFails, PutCatalog,
         PutCatalogFails, Commit, Requeue, Exit, Crash, Restart, LoadSnapshot, NewSpool,
         RecoverSidecar
<1>1. ASSUME NEW r \in Record, Accept(r)  PROVE OnceInv'
  <2>1. Durable' = Durable
    BY <1>1, DurableSame DEF Accept, s3Vars
  <2>2. buf' = buf \cup {r} /\ UNCHANGED <<batch, pc>> /\ StoredOnce'
    BY <1>1, <1>b DEF Accept, sealVars, s3Vars, OnceInv, StoredOnce
  <2>3. ~(r.off <= received[r.src])
    BY <1>1 DEF Accept, TypeOK, Record, Offset, Watermark
  <2>4. r \notin Held /\ r \notin Durable
    BY <1>1, <1>a, <2>3 DEF ReceivedInv, Accept
  <2>5. \A p \in Sealer : r \notin batch[p]
    BY <1>a, <2>4, SetTypes
  <2>. QED  BY <1>b, <2>1, <2>2, <2>4, <2>5 DEF OnceInv
<1>2. ASSUME NEW p \in Sealer, TakeBuffer(p)  PROVE OnceInv'
  BY <1>2, <1>a, <1>b, OnceTake
<1>3. ASSUME NEW p \in Sealer, SealStep(p)  PROVE OnceInv'
  BY <1>3, <1>a, <1>b, OnceSeal
<1>4. CASE Exit \/ Crash
  <2>1. buf' = {} /\ \A p \in Sealer : batch'[p] = {}
    BY <1>4 DEF Exit, Crash, Restart
  <2>2. Durable' = Durable /\ StoredOnce'
    BY <1>4, <1>b, DurableSame DEF Exit, Crash, Restart, s3Vars, OnceInv, StoredOnce
  <2>. QED  BY <2>1, <2>2 DEF OnceInv
<1>5. CASE Ack \/ LoopSnapshot \/ Terminate \/ ShutdownSnapshot \/ LoadSnapshot \/ NewSpool
           \/ (\E i \in SegId : RecoverSidecar(i)) \/ UNCHANGED vars
  <2>1. UNCHANGED <<buf, batch, body, metas, pc>>
    BY <1>5 DEF Ack, LoopSnapshot, Terminate, ShutdownSnapshot, Snapshot, LoadSnapshot,
         NewSpool, RecoverSidecar, vars, spoolVars, sealVars, s3Vars
  <2>. QED  BY <1>b, <2>1, OnceStutter
<1>6. CASE ShutdownSeal
  <2>1. CASE ~TakeBuffer("shutdown")
    <3>1. UNCHANGED <<buf, batch, body, metas, pc>>
      BY <1>6, <2>1 DEF ShutdownSeal, spoolVars, sealVars, s3Vars
    <3>. QED  BY <1>b, <3>1, OnceStutter
  <2>. QED  BY <1>2, <2>1 DEF Sealer
<1>. QED  BY <1>1, <1>2, <1>3, <1>4, <1>5, <1>6 DEF Next, LoopSeal, Sealer

-----------------------------------------------------------------------------
(* The order of the records, as long as no two Seals overlap.              *)

\* Initially there is no record.
LEMMA OrderInit == Init => OrderInv
PROOF
<1>. SUFFICES ASSUME Init  PROVE OrderInv
  OBVIOUS
<1>1. Held = {} /\ Durable = {}
  BY DEF Init, Held, Durable, RecordsOf
<1>2. \A r \in Record : ~(r.off <= 0) /\ r.src \in Source
  BY DEF Record, Offset
<1>. QED  BY <1>1, <1>2 DEF Init, OrderInv, NoOffsets, Running

\* A step that moves no record and lowers no obligation keeps the order.
LEMMA OrderStutter ==
    ASSUME OrderInv, UNCHANGED <<received, body, metas, buf, batch, committed, acked>>,
           \A p \in Sealer : pc'[p] # "idle" => pc[p] # "idle",
           proc' \in Running => proc \in Running
    PROVE  OrderInv'
PROOF
<1>1. Held' = Held
  BY DEF Held
<1>2. Durable' = Durable
  BY DurableSame
<1>. QED  BY <1>1, <1>2 DEF OrderInv

\* Taking the buffer moves it behind the durable prefix: nothing else is held.
LEMMA OrderTake ==
    ASSUME TypeOK, SealInv, OrderInv, ~overlapped', proc \in Running,
           NEW p \in Sealer, TakeBuffer(p)
    PROVE  OrderInv'
PROOF
<1>1. \A q \in Sealer : pc[q] = "idle"
  BY DEF TakeBuffer
<1>2. Held = {} /\ Held' = buf
  <2>1. Held = batch[p] /\ Held' = buf
    BY <1>1, HeldMoves DEF TakeBuffer
  <2>. QED  BY <1>1, <2>1 DEF SealInv
<1>3. Durable' = Durable
  BY DurableSame DEF TakeBuffer, s3Vars
<1>4. \A q \in Sealer : pc'[q] # "idle" => q = p
  BY <1>1 DEF TakeBuffer, TypeOK
<1>5. buf' = {} /\ UNCHANGED <<received, committed, acked>>
  BY DEF TakeBuffer
<1>. QED  BY <1>2, <1>3, <1>4, <1>5 DEF OrderInv

\* The step of a Seal keeps the order.  The durable prefix grows by the whole
\* batch, below which nothing but durable records can lie; the committed
\* watermark grows to an offset of the batch, which is durable by then; a
\* failed batch returns to its place in front of the buffer.
LEMMA OrderSeal ==
    ASSUME TypeOK, SealInv, ReceivedInv, OrderInv, NEW p \in Sealer, SealStep(p)
    PROVE  OrderInv'
PROOF
<1>1. /\ pc[p] # "idle" /\ proc \in Running
      /\ UNCHANGED <<proc, received, acked>>
  BY DEF SealInv, SealStep, WriteFails, LockStore, PutBody, PutBodyFails, PutMeta,
         PutMetaFails, PutCatalog, PutCatalogFails, Commit, Requeue, spoolVars, history
<1>2. \A q \in Sealer : q # p => pc[q] = "idle"
  BY <1>1 DEF OrderInv
<1>3. Held = batch[p]
  <2>1. \A q \in Sealer : q # p => batch[q] = {}
    BY <1>2 DEF SealInv
  <2>. QED  BY <2>1 DEF Held
<1>4. \A q \in Sealer : pc'[q] # "idle" => q = p
  BY <1>1, <1>2 DEF SealStep, WriteFails, LockStore, PutBody, PutBodyFails, PutMeta,
         PutMetaFails, PutCatalog, PutCatalogFails, Commit, Requeue, TypeOK
<1>5. /\ Held \in SUBSET Record /\ Durable \in SUBSET Record /\ buf \in SUBSET Record
      /\ received \in Watermark /\ committed \in Watermark
  BY SetTypes DEF TypeOK
\* The records below one that is held are durable, held or shed.
<1>6. \A r \in Held, q \in Record :
        q.src = r.src /\ q.off <= r.off => q \in Held \cup Durable \cup Shed
  <2>. SUFFICES ASSUME NEW r \in Held, NEW q \in Record, q.src = r.src, q.off <= r.off,
                       q \notin Durable, q \notin Held, q \notin Shed
                PROVE FALSE
    OBVIOUS
  <2>1. r.off <= received[r.src]
    BY DEF ReceivedInv
  <2>2. q.off <= received[q.src]
    BY <2>1, <1>5 DEF Record, Offset, Watermark
  <2>3. q \in buf
    BY <2>2, <1>1 DEF OrderInv
  <2>4. r.off < q.off
    BY <2>3 DEF OrderInv
  <2>. QED  BY <2>4, <1>5 DEF Record, Offset
<1>7. Durable' \in {Durable, Durable \cup Held}
  BY <1>3, SealStepDurable
<1>8. \A r \in Durable', q \in Record :
        q.src = r.src /\ q.off <= r.off => q \in Durable' \cup Shed
  BY <1>6, <1>7 DEF OrderInv
<1>9. CASE Commit(p)
  <2>1. Held' = {}
    <3>1. \A q \in Sealer : batch'[q] = {}
      BY <1>2, <1>9 DEF SealInv, Commit, TypeOK
    <3>. QED  BY <3>1 DEF Held
  <2>2. Held \subseteq Durable
    BY <1>3, <1>9, SetTypes DEF Commit
  <2>3. Durable' = Durable /\ buf' = buf
    BY <1>9, DurableSame DEF Commit, s3Vars
  <2> DEFINE top == [s \in Source |-> MaxOff(Held, s)]
  <2>4. top \in Watermark
    BY <1>5, MaxOffFacts DEF Watermark
  <2>5. committed' = Higher(committed, top)
    BY <1>3, <1>9 DEF Commit
  <2>6. ASSUME NEW r \in Record, r.off <= committed'[r.src]  PROVE r \in Durable \cup Shed
    <3>1. r.src \in Source /\ r.off \in 1 .. MaxOffset
      BY DEF Record, Offset
    <3>2. committed'[r.src] \in {committed[r.src], top[r.src]}
      <4>. HIDE DEF top
      <4>. QED  BY <1>5, <2>4, <2>5, <3>1, HigherFacts
    <3>3. CASE committed'[r.src] = committed[r.src]
      BY <2>6, <3>3 DEF OrderInv
    <3>4. CASE committed'[r.src] = top[r.src]
      <4>1. r.off <= MaxOff(Held, r.src)
        BY <2>6, <3>1, <3>4
      <4>2. MaxOff(Held, r.src) # 0
        BY <3>1, <4>1
      <4>3. PICK h \in Held : h.src = r.src /\ h.off = MaxOff(Held, r.src)
        BY <1>5, <3>1, <4>2, MaxOffFacts
      <4>. QED  BY <2>2, <4>1, <4>3 DEF OrderInv
    <3>. QED  BY <3>2, <3>3, <3>4
  <2>. QED  BY <1>1, <1>4, <1>8, <2>1, <2>2, <2>3, <2>6 DEF OrderInv
<1>10. CASE Requeue(p)
  <2>1. Held' = {} /\ buf' = Held \cup buf /\ committed' = committed
    <3>1. \A q \in Sealer : batch'[q] = {}
      BY <1>2, <1>10 DEF SealInv, Requeue, TypeOK
    <3>. QED  BY <1>3, <1>10, <3>1 DEF Held, Requeue
  <2>. QED  BY <1>1, <1>4, <1>7, <1>8, <2>1 DEF OrderInv
<1>11. CASE ~Requeue(p) /\ ~Commit(p)
  <2>1. UNCHANGED <<batch, buf, committed>>
    BY <1>11 DEF SealStep, WriteFails, LockStore, PutBody, PutBodyFails, PutMeta,
         PutMetaFails, PutCatalog, PutCatalogFails, spoolVars
  <2>2. Held' = Held
    BY <2>1 DEF Held
  <2>. QED  BY <1>1, <1>4, <1>7, <1>8, <2>1, <2>2 DEF OrderInv
<1>. QED  BY <1>9, <1>10, <1>11

\* Every step keeps the order, unless it begins a Seal while one is under way.
LEMMA OrderNext ==
    TypeOK /\ IndInv /\ [Next]_vars => (~overlapped' => OrderInv')
PROOF
<1>. SUFFICES ASSUME TypeOK, IndInv, [Next]_vars, ~overlapped'  PROVE OrderInv'
  OBVIOUS
<1>a. SealInv /\ ReceivedInv
  BY DEF IndInv
<1>b. OrderInv
  BY DEF IndInv, Next, vars, history, Accept, Ack, LoopSeal, TakeBuffer, LoopSnapshot,
         Snapshot, Terminate, ShutdownSeal, ShutdownSnapshot, SealStep, WriteFails,
         LockStore, PutBody, PutBodyFails, PutMeta, PutMetaFails, PutCatalog,
         PutCatalogFails, Commit, Requeue, Exit, Crash, Restart, LoadSnapshot, NewSpool,
         RecoverSidecar
<1>c. /\ Held \in SUBSET Record /\ Durable \in SUBSET Record /\ buf \in SUBSET Record
      /\ received \in Watermark /\ committed \in Watermark /\ acked \in Watermark
  BY <1>a, SetTypes DEF TypeOK
<1>1. ASSUME NEW r \in Record, Accept(r)  PROVE OrderInv'
  <2>1. Held' = Held /\ pc' = pc /\ UNCHANGED <<committed, acked>>
    BY <1>1 DEF Held, Accept, sealVars, history
  <2>2. Durable' = Durable
    BY <1>1, DurableSame DEF Accept, s3Vars
  <2>3. buf' = buf \cup {r} /\ proc' = proc
    BY <1>1 DEF Accept
  <2>4. r.off > received[r.src] /\ r.src \in Source
    BY <1>1, <1>c DEF Accept, Record, Offset, Watermark
  <2>5. \A b \in Held \cup Durable : b.src = r.src => b.off < r.off
    BY <1>1, <1>a, <1>c, <2>4 DEF ReceivedInv, Accept, Record, Offset, Watermark
  <2>6. ASSUME NEW q \in Record, q.off <= received'[q.src]
        PROVE  q.off <= received[q.src] \/ q = r \/ q \in Shed
    <3>1. CASE q.src # r.src
      BY <1>1, <1>c, <2>4, <2>6, <3>1 DEF Accept, Record, Watermark
    <3>2. CASE q.src = r.src
      <4>1. q.off <= r.off
        BY <1>1, <1>c, <2>4, <2>6, <3>2 DEF Accept, Watermark
      <4>2. CASE q.off = r.off
        BY <3>2, <4>2 DEF Record
      <4>3. CASE q.off < r.off /\ received[r.src] < q.off
        BY <1>1, <3>2, <4>3 DEF Accept, InTurn
      <4>. QED  BY <1>c, <2>4, <3>2, <4>1, <4>2, <4>3 DEF Record, Offset, Watermark
    <3>. QED  BY <3>1, <3>2
  <2>. QED  BY <1>1, <1>b, <2>1, <2>2, <2>3, <2>5, <2>6 DEF OrderInv, Accept
<1>2. CASE Ack
  <2>1. Held' = Held /\ UNCHANGED <<pc, buf, proc, received, committed>>
    BY <1>2 DEF Held, Ack, sealVars, spoolVars
  <2>2. Durable' = Durable
    BY <1>2, DurableSame DEF Ack, s3Vars
  <2>3. acked' = Higher(acked, committed)
    BY <1>2 DEF Ack
  <2>4. \A s \in Source : acked'[s] \in {acked[s], committed[s]}
    BY <1>c, <2>3, HigherFacts
  <2>5. \A r \in Record : r.off <= acked'[r.src] => r \in Durable \cup Shed
    BY <1>b, <2>4 DEF OrderInv, Record
  <2>. QED  BY <1>b, <2>1, <2>2, <2>5 DEF OrderInv
<1>3. CASE LoopSeal
  BY <1>3, <1>a, <1>b, OrderTake DEF LoopSeal, Sealer
<1>4. CASE LoopSnapshot
  BY <1>4, <1>b, OrderStutter DEF LoopSnapshot, Snapshot, spoolVars, sealVars, history
<1>5. CASE Terminate
  BY <1>5, <1>b, OrderStutter DEF Terminate, spoolVars, sealVars, s3Vars, history, Running
<1>6. CASE ShutdownSeal
  <2>1. proc \in Running
    BY <1>6 DEF ShutdownSeal, Running
  <2>2. CASE TakeBuffer("shutdown")
    BY <1>a, <1>b, <2>1, <2>2, OrderTake DEF Sealer
  <2>3. CASE ~TakeBuffer("shutdown")
    BY <1>6, <1>b, <2>1, <2>3, OrderStutter
       DEF ShutdownSeal, spoolVars, sealVars, s3Vars, history
  <2>. QED  BY <2>2, <2>3
<1>7. CASE ShutdownSnapshot
  <2>1. proc \in Running
    BY <1>7 DEF ShutdownSnapshot, Running
  <2>. QED  BY <1>7, <1>b, <2>1, OrderStutter
               DEF ShutdownSnapshot, Snapshot, spoolVars, sealVars, s3Vars, history
<1>8. ASSUME NEW p \in Sealer, SealStep(p)  PROVE OrderInv'
  BY <1>8, <1>a, <1>b, OrderSeal
<1>9. CASE Exit \/ Crash
  <2>1. /\ buf' = {} /\ Held' = {} /\ proc' \notin Running /\ acked' = acked
        /\ committed' = NoOffsets /\ \A p \in Sealer : pc'[p] = "idle"
    BY <1>9 DEF Exit, Crash, Restart, Held, Running, history
  <2>2. Durable' = Durable
    BY <1>9, DurableSame DEF Exit, Crash, Restart, s3Vars
  <2>3. \A r \in Record : ~(r.off <= committed'[r.src])
    BY <2>1 DEF NoOffsets, Record, Offset
  <2>. QED  BY <1>b, <2>1, <2>2, <2>3 DEF OrderInv
<1>10. CASE LoadSnapshot
  BY <1>10, <1>b, OrderStutter DEF LoadSnapshot, spoolVars, sealVars, s3Vars, history, Running
<1>11. CASE NewSpool
  <2>1. buf' = {} /\ Held' = {} /\ Durable' = Durable /\ acked' = acked /\ pc' = pc
    BY <1>11, <1>a, DurableSame DEF NewSpool, SealInv, Held, s3Vars, sealVars, history, Running
  <2>2. ASSUME NEW r \in Record, r.off <= received'[r.src]  PROVE r \in Durable \cup Shed
    <3>1. received'[r.src] # 0 /\ r.src \in Source
      BY <2>2 DEF Record, Offset
    <3>2. PICK d \in Durable : d.src = r.src /\ d.off = received'[r.src]
      BY <1>11, <1>a, <3>1, RecoveredWatermark
    <3>. QED  BY <1>b, <2>2, <3>2 DEF OrderInv
  <2>3. committed' = received'
    BY <1>11 DEF NewSpool
  <2>. QED  BY <1>b, <2>1, <2>2, <2>3 DEF OrderInv
<1>12. ASSUME NEW i \in SegId, RecoverSidecar(i)  PROVE OrderInv'
  BY <1>12, <1>b, OrderStutter DEF RecoverSidecar, spoolVars, sealVars, s3Vars, history
<1>13. CASE UNCHANGED vars
  BY <1>13, <1>b, OrderStutter DEF vars, spoolVars, sealVars, s3Vars, history
<1>. QED  BY <1>1, <1>2, <1>3, <1>4, <1>5, <1>6, <1>7, <1>8, <1>9, <1>10, <1>11, <1>12,
             <1>13 DEF Next

\* The inductive invariant holds in every reachable state.
THEOREM Invariant == Spec => []IndInv
PROOF
<1>1. Init => IndInv
  BY TypeInit, SealInit, ReceivedInit, WatermarkInit, OnceInit, OrderInit DEF IndInv
<1>2. IndInv /\ [Next]_vars => IndInv'
  BY TypeNext, SealNext, ReceivedNext, WatermarkNext, OnceNext, OrderNext DEF IndInv
<1>. QED  BY <1>1, <1>2, PTL DEF Spec

\* An offset is acked only when everything up to it that the agent has not shed
\* is in a discoverable segment, whatever fails and crashes, provided that Shutdown's Seal never
\* overlaps the loop's.
THEOREM AckedStaysDurable == Spec => []SerialAckedDurable
PROOF
<1>1. IndInv => SerialAckedDurable
  BY DEF IndInv, OrderInv, SerialAckedDurable, AckedDurable
<1>. QED  BY <1>1, Invariant, PTL

\* Under the same proviso no record that the spool counts as received is lost
\* by a failed Seal, a crash or a recovery.
THEOREM ReceivedStaysKept == Spec => []SerialReceivedKept
PROOF
<1>1. IndInv => SerialReceivedKept
  BY DEF IndInv, OrderInv, SerialReceivedKept
<1>. QED  BY <1>1, Invariant, PTL

\* A manager that serves, after any number of crashes and recoveries, counts as
\* committed whatever was acked before: no agent is asked for lines again that an
\* ack allowed it to forget.  Overlapping Seals are included.
THEOREM RecoveryCoversAcks == Spec => []RecoveredCoversAcked
PROOF
<1>1. IndInv => RecoveredCoversAcked
  BY DEF IndInv, WatermarkInv, RecoveredCoversAcked
<1>. QED  BY <1>1, Invariant, PTL

\* Dedup by the received watermark, rebuilt from the sidecars at every start,
\* keeps every record in one segment, unless a batch is requeued although its
\* sidecar is stored.  Overlapping Seals are included.
THEOREM StoredOnlyOnce == Spec => []StoredOnceUnlessRequeued
PROOF
<1>1. IndInv => StoredOnceUnlessRequeued
  BY DEF IndInv, OnceInv, StoredOnceUnlessRequeued
<1>. QED  BY <1>1, Invariant, PTL

-----------------------------------------------------------------------------
(* The refinement: the spool and the store implement the Receiver contract *)
(* while no two Seals overlap.                                             *)

Pending == (buf \cup Held) \ Durable

\* What the simulation needs to know of a state.
SerialInv == TypeOK /\ IndInv /\ ~overlapped

\* A behaviour without overlapping Seals never gets into a state with one.
LEMMA SerialInvariant == SerialSpec => []SerialInv
PROOF
<1>1. Init => SerialInv
  BY TypeInit, SealInit, ReceivedInit, WatermarkInit, OnceInit, OrderInit
     DEF SerialInv, IndInv, Init
<1>2. SerialInv /\ [SerialNext]_vars => SerialInv'
  <2>. SUFFICES ASSUME SerialInv, [SerialNext]_vars  PROVE SerialInv'
    OBVIOUS
  <2>1. [Next]_vars /\ ~overlapped'
    BY DEF SerialInv, SerialNext, vars, history
  <2>. QED  BY <2>1, TypeNext, SealNext, ReceivedNext, WatermarkNext, OnceNext, OrderNext
               DEF SerialInv, IndInv
<1>. QED  BY <1>1, <1>2, PTL DEF SerialSpec

\* The manager starts where the contract does.
LEMMA RefinesInit == Init => Contract!Init
BY DEF Init, Contract!Init, Durable, RecordsOf, Held, NoOffsets, Running

\* A step that moves no watermark and no record to or from the store is
\* invisible to the contract.
LEMMA Invisible ==
    ASSUME UNCHANGED <<received, committed>>, Durable' = Durable,
           (buf \cup Held)' = buf \cup Held, (proc' \in Running) = (proc \in Running)
    PROVE  UNCHANGED Contract!vars
BY DEF Contract!vars

\* An accepted record becomes pending.
LEMMA RefinesAccept ==
    ASSUME SerialInv, NEW r \in Record, Accept(r)
    PROVE  Contract!Accept(r)
PROOF
<1>1. Durable' = Durable /\ Held' = Held /\ buf' = buf \cup {r}
  BY DurableSame DEF Accept, s3Vars, sealVars, Held
<1>2. ~(r.off <= received[r.src])
  BY DEF Accept, SerialInv, TypeOK, Record, Offset, Watermark
<1>3. r \notin Durable
  BY <1>2 DEF Accept, SerialInv, IndInv, ReceivedInv
<1>4. Pending' = Pending \cup {r}
  BY <1>1, <1>3 DEF Pending
<1>. QED  BY <1>1, <1>4 DEF Contract!Accept, Accept, Pending

\* Taking the buffer is invisible: the records stay pending.
LEMMA RefinesTake ==
    ASSUME SerialInv, ~overlapped', NEW p \in Sealer, TakeBuffer(p),
           proc \in Running, proc' \in Running
    PROVE  UNCHANGED Contract!vars
PROOF
<1>1. \A q \in Sealer : pc[q] = "idle"
  BY DEF TakeBuffer
<1>2. Held = batch[p] /\ Held' = buf /\ batch[p] = {}
  BY <1>1, HeldMoves DEF TakeBuffer, SerialInv, IndInv, SealInv
<1>3. Durable' = Durable
  BY DurableSame DEF TakeBuffer, s3Vars
<1>4. buf' = {} /\ UNCHANGED <<received, committed>>
  BY DEF TakeBuffer
<1>. QED  BY <1>2, <1>3, <1>4, Invisible

\* A step of a Seal makes the batch durable, or commits, or is invisible.
LEMMA RefinesSeal ==
    ASSUME SerialInv, NEW p \in Sealer, SealStep(p)
    PROVE  Contract!Next \/ UNCHANGED Contract!vars
PROOF
<1>1. TypeOK /\ SealInv /\ ReceivedInv /\ WatermarkInv /\ OrderInv
  BY DEF SerialInv, IndInv
<1>2. /\ pc[p] # "idle" /\ proc \in Running
      /\ UNCHANGED <<proc, received>>
  BY <1>1 DEF SealInv, SealStep, WriteFails, LockStore, PutBody, PutBodyFails, PutMeta,
         PutMetaFails, PutCatalog, PutCatalogFails, Commit, Requeue, spoolVars
<1>3. \A q \in Sealer : q # p => pc[q] = "idle" /\ batch[q] = {}
  BY <1>1, <1>2 DEF OrderInv, SealInv
<1>4. Held = batch[p]
  BY <1>3 DEF Held
<1>5. Held \in SUBSET Record /\ Durable \in SUBSET Record /\ buf \in SUBSET Record
  BY <1>1, SetTypes DEF TypeOK
<1>6. CASE Commit(p)
  <2>1. Durable' = Durable /\ buf' = buf
    BY <1>6, DurableSame DEF Commit, s3Vars
  <2>2. Held' = {} /\ Held \subseteq Durable
    <3>1. \A q \in Sealer : batch'[q] = {}
      BY <1>1, <1>3, <1>6 DEF Commit, TypeOK
    <3>. QED  BY <1>1, <1>4, <1>6, <3>1, SetTypes DEF Held, Commit
  <2>3. Pending' = Pending /\ Pending \subseteq buf
    BY <2>1, <2>2 DEF Pending
  <2> DEFINE top == [s \in Source |-> MaxOff(Held, s)]
  <2>4. top \in Watermark /\ committed \in Watermark
    BY <1>1, <1>5, MaxOffFacts DEF Watermark, TypeOK
  <2>5. \A s \in Source : Reached(top, s)
    BY <1>5, <2>2, MaxOffFacts DEF Reached
  <2>6. committed' = Higher(committed, top)
    BY <1>4, <1>6 DEF Commit
  <2>. HIDE DEF top
  <2>7. /\ committed' \in Watermark
        /\ \A s \in Source : committed'[s] >= committed[s] /\ committed'[s] \in {committed[s], top[s]}
    BY <2>4, <2>6, HigherFacts
  <2>8. ASSUME NEW s \in Source  PROVE committed'[s] = 0 \/ \E d \in Durable : d.src = s /\ committed'[s] <= d.off
    BY <1>1, <2>5, <2>7 DEF WatermarkInv, Reached
  <2>9. ASSUME NEW s \in Source  PROVE committed[s] <= committed'[s] /\ committed'[s] <= received[s]
    <3>1. received[s] \in Nat /\ committed[s] \in Nat /\ committed'[s] \in Nat
      BY <1>1, <2>4, <2>7 DEF TypeOK, Watermark
    <3>2. CASE committed'[s] = 0
      BY <2>7, <3>1, <3>2
    <3>3. ASSUME NEW d \in Durable, d.src = s, committed'[s] <= d.off
          PROVE  committed'[s] <= received[s]
      <4>1. d.off <= received[s] /\ d.off \in Nat
        BY <1>1, <1>2, <1>5, <3>3 DEF ReceivedInv, Record, Offset
      <4>. QED  BY <3>1, <3>3, <4>1
    <3>. QED  BY <2>7, <2>8, <3>1, <3>2, <3>3
  <2>10. ASSUME NEW r \in Pending  PROVE committed'[r.src] < r.off
    <3>1. r \in Record /\ r.src \in Source /\ r.off \in Nat \ {0} /\ committed'[r.src] \in Nat
      BY <1>5, <2>7 DEF Pending, Record, Offset, Watermark
    <3>2. CASE committed'[r.src] = 0
      BY <3>1, <3>2
    <3>3. ASSUME NEW d \in Durable, d.src = r.src, committed'[r.src] <= d.off
          PROVE  committed'[r.src] < r.off
      <4>1. d.off < r.off /\ d.off \in Nat
        BY <1>1, <1>5, <3>3 DEF OrderInv, Pending, Record, Offset
      <4>. QED  BY <3>1, <3>3, <4>1
    <3>. QED  BY <2>8, <3>1, <3>2, <3>3
  <2>11. Contract!Commit
    BY <1>2, <2>1, <2>3, <2>7, <2>9, <2>10 DEF Contract!Commit, Pending, Watermark, Contract!Watermark
  <2>. QED  BY <2>11 DEF Contract!Next
<1>7. CASE ~Commit(p)
  <2>1. committed' = committed
    BY <1>7 DEF SealStep, WriteFails, LockStore, PutBody, PutBodyFails, PutMeta,
         PutMetaFails, PutCatalog, PutCatalogFails, Requeue, spoolVars
  <2>2. (buf \cup Held)' = buf \cup Held
    <3>1. CASE Requeue(p)
      <4>1. \A q \in Sealer : batch'[q] = {}
        BY <1>1, <1>3, <3>1 DEF Requeue, TypeOK
      <4>. QED  BY <1>4, <3>1, <4>1 DEF Requeue, Held
    <3>2. CASE ~Requeue(p)
      <4>1. buf' = buf /\ batch' = batch
        BY <1>7, <3>2 DEF SealStep, WriteFails, LockStore, PutBody, PutBodyFails, PutMeta,
           PutMetaFails, PutCatalog, PutCatalogFails, spoolVars
      <4>. QED  BY <4>1 DEF Held
    <3>. QED  BY <3>1, <3>2
  <2>3. Durable' = Durable \/ Durable' = Durable \cup Held
    BY <1>1, <1>4, SealStepDurable
  <2>4. CASE Durable' = Durable
    BY <1>2, <2>1, <2>2, <2>4, Invisible
  <2>5. CASE Durable' # Durable
    <3> DEFINE recs == Held \ Durable
    <3>1. Durable' = Durable \cup recs /\ recs # {} /\ recs \subseteq Pending
      BY <2>3, <2>5 DEF Pending
    <3>2. Pending' = Pending \ recs
      BY <2>2, <3>1 DEF Pending
    <3>3. Contract!InOrder(recs)
      <4>. SUFFICES ASSUME NEW r \in recs, NEW q \in Pending, q.src = r.src, q.off <= r.off
                    PROVE q \in recs
        BY DEF Contract!InOrder, Pending
      <4>1. CASE q \in Held
        BY <4>1 DEF Pending
      <4>2. CASE q \in buf
        BY <1>1, <1>5, <4>2 DEF OrderInv, Record, Offset
      <4>. QED  BY <4>1, <4>2 DEF Pending
    <3>. HIDE DEF recs
    <3>4. Contract!Persist(recs)
      BY <1>2, <2>1, <3>1, <3>2, <3>3 DEF Contract!Persist, Pending
    <3>. QED  BY <3>1, <3>4 DEF Contract!Next, Pending
  <2>. QED  BY <2>4, <2>5
<1>. QED  BY <1>6, <1>7

\* A new spool has the watermarks the contract recovers.
LEMMA RefinesNewSpool ==
    ASSUME SerialInv, NewSpool
    PROVE  Contract!Recover
PROOF
<1>1. TypeOK /\ SealInv
  BY DEF SerialInv, IndInv
<1>2. catalog = metas /\ Durable' = Durable
  BY <1>1, DurableSame DEF NewSpool, SealInv, s3Vars
<1>3. proc \notin Running /\ proc' \in Running
  BY DEF NewSpool, Running
<1>4. Held' = Held /\ buf' = buf
  BY DEF NewSpool, Held, sealVars
<1>5. received' = Contract!HighestDurable /\ committed' = Contract!HighestDurable
  <2>1. RecordsOf(catalog) = Durable
    BY <1>2 DEF Durable
  <2>2. \A S : Contract!Max(S) = Max(S)
    BY DEF Max, Contract!Max
  <2>3. SourceWatermarks = Contract!HighestDurable
    BY <2>1, <2>2 DEF SourceWatermarks, MaxOff, Contract!HighestDurable
  <2>. QED  BY <2>3 DEF NewSpool
<1>. QED  BY <1>2, <1>3, <1>4, <1>5 DEF Contract!Recover

\* Every step of the manager is a step of the contract, or invisible to it.
LEMMA RefinesNext ==
    SerialInv /\ SerialInv' /\ [SerialNext]_vars => [Contract!Next]_(Contract!vars)
PROOF
<1>. SUFFICES ASSUME SerialInv, SerialInv', [SerialNext]_vars
              PROVE  Contract!Next \/ UNCHANGED Contract!vars
  OBVIOUS
<1>a. [Next]_vars /\ ~overlapped'
  BY DEF SerialNext, SerialInv
<1>1. ASSUME NEW r \in Record, Accept(r)  PROVE Contract!Next
  <2>1. r \in Contract!Record
    BY DEF Record, Offset, Contract!Record
  <2>. QED  BY <1>1, <2>1, RefinesAccept DEF Contract!Next
<1>2. CASE LoopSeal
  BY <1>2, <1>a, RefinesTake DEF LoopSeal, Sealer
<1>3. CASE ShutdownSeal
  <2>1. proc \in Running /\ proc' \in Running
    BY <1>3 DEF ShutdownSeal, Running
  <2>2. CASE TakeBuffer("shutdown")
    BY <1>a, <2>1, <2>2, RefinesTake DEF Sealer
  <2>3. CASE ~TakeBuffer("shutdown")
    <3>1. UNCHANGED <<received, committed, buf, batch, body, metas>>
      BY <1>3, <2>3 DEF ShutdownSeal, spoolVars, sealVars, s3Vars
    <3>2. Durable' = Durable /\ Held' = Held
      BY <3>1, DurableSame DEF Held
    <3>. QED  BY <2>1, <3>1, <3>2, Invisible
  <2>. QED  BY <2>2, <2>3
<1>4. ASSUME NEW p \in Sealer, SealStep(p)  PROVE Contract!Next \/ UNCHANGED Contract!vars
  BY <1>4, RefinesSeal
<1>5. CASE Exit \/ Crash
  <2>1. /\ buf' = {} /\ Held' = {} /\ proc' \notin Running
        /\ received' = NoOffsets /\ committed' = NoOffsets
    BY <1>5 DEF Exit, Crash, Restart, Held, Running
  <2>2. Durable' = Durable
    BY <1>5, DurableSame DEF Exit, Crash, Restart, s3Vars
  <2>3. Contract!Fail
    BY <2>1, <2>2 DEF Contract!Fail, NoOffsets
  <2>. QED  BY <2>3 DEF Contract!Next
<1>6. CASE NewSpool
  BY <1>6, RefinesNewSpool DEF Contract!Next
<1>7. CASE \/ Ack \/ LoopSnapshot \/ Terminate \/ ShutdownSnapshot \/ LoadSnapshot
           \/ (\E i \in SegId : RecoverSidecar(i)) \/ UNCHANGED vars
  <2>1. UNCHANGED <<received, committed, buf, batch, body, metas>>
    BY <1>7 DEF Ack, LoopSnapshot, Terminate, ShutdownSnapshot, Snapshot, LoadSnapshot,
         RecoverSidecar, vars, spoolVars, sealVars, s3Vars
  <2>2. (proc' \in Running) = (proc \in Running)
    BY <1>7 DEF Ack, LoopSnapshot, Terminate, ShutdownSnapshot, LoadSnapshot,
         RecoverSidecar, vars, Running
  <2>3. Durable' = Durable /\ Held' = Held
    BY <2>1, DurableSame DEF Held
  <2>. QED  BY <2>1, <2>2, <2>3, Invisible
<1>. QED  BY <1>a, <1>1, <1>2, <1>3, <1>4, <1>5, <1>6, <1>7 DEF Next

\* As long as Shutdown's Seal does not overlap the loop's, the spool and the store
\* implement the Receiver that the ingest server is written against, through
\* failed uploads, lost answers, crashes and recoveries.
THEOREM SpoolIsReceiver == SerialSpec => ImplementsReceiver
PROOF
<1>. QED  BY RefinesInit, RefinesNext, SerialInvariant, PTL
          DEF SerialSpec, ImplementsReceiver, Contract!Spec
=============================================================================
