------------------------------- MODULE Spool -------------------------------
(***************************************************************************)
(* The manager's write path: the open segment (internal/manager/spool.go), *)
(* the loop and the shutdown that seal it (internal/manager/manager.go,    *)
(* cmd/manager/main.go), and the store that makes a sealed segment durable *)
(* and finds it again after a restart (internal/store/store.go,            *)
(* catalog.go, blobs.go).                                                  *)
(*                                                                         *)
(* A record is its source and the position of its line in that source's    *)
(* log; everything else a record carries is irrelevant here.  Line         *)
(* positions stand for the byte offsets of the code, which grow with them. *)
(* The agent delivers the lines of a source in order, possibly again from  *)
(* an earlier position, and skips none but lines it has shed (module       *)
(* Delivery).  S3 is a store of objects that                               *)
(* never disappear; a Put may fail before or after the object is stored.   *)
(* When a rotation threshold is reached (bufBytes, openSince) is left      *)
(* open: the loop may seal any non-empty buffer.                           *)
(***************************************************************************)
EXTENDS Naturals, FiniteSetsExt

CONSTANTS
    Source,      \* source keys: one container log file each
    MaxOffset,   \* bound: lines per source
    Shed,        \* lines the agent gives up at its hard cap, sent or not
    SegId,       \* bound: the ULIDs of segments
    NoSeg,       \* the id of a sealer that is not sealing
    MaxFaults    \* bound: failed writes and crashes in one behaviour

ASSUME SpoolAssumption ==
    MaxOffset \in Nat /\ MaxFaults \in Nat /\ NoSeg \notin SegId
    /\ Shed \subseteq [src : Source, off : 1 .. MaxOffset]

Offset == 1 .. MaxOffset
Record == [src : Source, off : Offset]
Watermark == [Source -> 0 .. MaxOffset]

\* The two goroutines that call Spool.Seal: RunSealLoop, and main's Shutdown.
Sealer == {"loop", "shutdown"}

VARIABLES
    proc,       \* where the manager process is, from its start to its exit
    buf,        \* Spool.buf, the records of the open segment
    received,   \* Spool.received: highest accepted offset, 0 when absent
    committed,  \* Spool.committed: highest sealed offset, 0 when absent
    pc,         \* per sealer, the step of Spool.Seal it is about to take
    batch,      \* per sealer, Seal's local batch
    segId,      \* per sealer, Seal's local id
    body,       \* S3: records of each .seg object, {} when there is none
    metas,      \* S3: ids of the segments that have a .seg.meta sidecar
    snap,       \* S3: ids held by the newest catalog snapshot
    catalog,    \* bbolt: ids of the cataloged segments
    faults,     \* failed writes and crashes so far
    acked,      \* history: highest offset ever acked to an agent
    overlapped, \* history: a Seal began while another one was under way
    requeuedDurable \* history: a batch was requeued although its sidecar is stored

spoolVars == <<buf, received, committed>>
sealVars == <<pc, batch, segId>>
s3Vars == <<body, metas, snap>>
history == <<acked, overlapped, requeuedDurable>>
vars == <<proc, spoolVars, sealVars, s3Vars, catalog, faults, history>>

\* Spool exists: from NewSpool until the process ends.  SIGTERM cancels the
\* context of the servers and of the loop; what they had begun goes on.
Running == {"serving", "stopping", "draining", "exiting"}
Proc == {"loading", "listing"} \cup Running
\* The steps of Seal that run under Store.mu.
Locked == {"body", "meta", "catalog"}
Step == {"idle", "write", "commit"} \cup Locked

NoOffsets == [s \in Source |-> 0]
\* The records of the segments with these ids.
RecordsOf(ids) == UNION {body[i] : i \in ids}
\* What a restarted manager can find again: the segments with a sidecar.
Durable == RecordsOf(metas)
Held == UNION {batch[p] : p \in Sealer}
\* SegmentMeta.SourceOffsets, and maxOff in Seal: the highest offset of s.
MaxOff(recs, s) == Max({0} \cup {r.off : r \in {q \in recs : q.src = s}})
Higher(w, v) == [s \in Source |-> Max({w[s], v[s]})]

Init ==
    /\ proc = "loading"
    /\ buf = {}
    /\ received = NoOffsets
    /\ committed = NoOffsets
    /\ pc = [p \in Sealer |-> "idle"]
    /\ batch = [p \in Sealer |-> {}]
    /\ segId = [p \in Sealer |-> NoSeg]
    /\ body = [i \in SegId |-> {}]
    /\ metas = {}
    /\ snap = {}
    /\ catalog = {}
    /\ faults = 0
    /\ acked = NoOffsets
    /\ overlapped = FALSE
    /\ requeuedDurable = FALSE

-----------------------------------------------------------------------------
(* Ingest: the calls the ingest server makes on the spool.                 *)

\* The agent skips no line but the ones it has shed.
InTurn(r) ==
    \A q \in Record : q.src = r.src /\ received[r.src] < q.off /\ q.off < r.off => q \in Shed

\* Mutant of Accept: no dedup by the received watermark.
AcceptAgain(r) ==
    /\ proc \in Running
    /\ InTurn(r)
    /\ received' = [received EXCEPT ![r.src] = r.off]
    /\ buf' = buf \cup {r}
    /\ UNCHANGED <<proc, committed, sealVars, s3Vars, catalog, faults, history>>

\* Accept drops what it has already received.
Accept(r) ==
    /\ proc \in Running
    /\ InTurn(r)
    /\ r.off > received[r.src]
    /\ received' = [received EXCEPT ![r.src] = r.off]
    /\ buf' = buf \cup {r}
    /\ UNCHANGED <<proc, committed, sealVars, s3Vars, catalog, faults, history>>

\* The server acks a snapshot of Committed; the agent never takes it back.
Ack ==
    /\ proc \in Running
    /\ acked' = Higher(acked, committed)
    /\ UNCHANGED <<proc, spoolVars, sealVars, s3Vars, catalog, faults,
                   overlapped, requeuedDurable>>

-----------------------------------------------------------------------------
(* Spool.Seal, one action per stretch between two points where another     *)
(* goroutine, a failure or a crash can come in.                            *)

Fault == faults < MaxFaults /\ faults' = faults + 1

\* ulid.Make.  A .seg object without a sidecar is never read, so the model lets
\* its id be used again and SegId bounds the discoverable segments only.
FreshId(i) == i \notin metas /\ \A p \in Sealer : segId[p] # i

\* Mutant of TakeBuffer: the buffer is copied and not emptied.
TakeCopy(p) ==
    /\ pc[p] = "idle"
    /\ buf # {}
    /\ \E i \in SegId : FreshId(i) /\ segId' = [segId EXCEPT ![p] = i]
    /\ batch' = [batch EXCEPT ![p] = buf]
    /\ pc' = [pc EXCEPT ![p] = "write"]
    /\ overlapped' = (overlapped \/ \E q \in Sealer : pc[q] # "idle")
    /\ UNCHANGED <<buf, received, committed, s3Vars, catalog, faults, acked, requeuedDurable>>

\* Take the whole buffer and leave an empty one behind.
TakeBuffer(p) ==
    /\ pc[p] = "idle"
    /\ buf # {}
    /\ \E i \in SegId : FreshId(i) /\ segId' = [segId EXCEPT ![p] = i]
    /\ batch' = [batch EXCEPT ![p] = buf]
    /\ buf' = {}
    /\ pc' = [pc EXCEPT ![p] = "write"]
    /\ overlapped' = (overlapped \/ \E q \in Sealer : pc[q] # "idle")
    /\ UNCHANGED <<received, committed, s3Vars, catalog, faults, acked, requeuedDurable>>

\* Mutant of Requeue: the failed batch is dropped.
RequeueNothing(p) ==
    /\ buf' = buf
    /\ batch' = [batch EXCEPT ![p] = {}]
    /\ pc' = [pc EXCEPT ![p] = "idle"]
    /\ requeuedDurable' = (requeuedDurable \/ segId[p] \in metas')
    /\ segId' = [segId EXCEPT ![p] = NoSeg]
    /\ Fault
    /\ UNCHANGED <<proc, received, committed, snap, catalog, acked, overlapped>>

\* The failed batch goes back in front of what was accepted meanwhile.
Requeue(p) ==
    /\ buf' = batch[p] \cup buf
    /\ batch' = [batch EXCEPT ![p] = {}]
    /\ pc' = [pc EXCEPT ![p] = "idle"]
    /\ requeuedDurable' = (requeuedDurable \/ segId[p] \in metas')
    /\ segId' = [segId EXCEPT ![p] = NoSeg]
    /\ Fault
    /\ UNCHANGED <<proc, received, committed, snap, catalog, acked, overlapped>>

\* The segment file in WorkDir could not be created, written or closed.
WriteFails(p) ==
    /\ pc[p] = "write"
    /\ UNCHANGED <<body, metas>>
    /\ Requeue(p)

\* Mutant of LockStore: the lock is taken a second time by its holder.
LockStoreTwice(p) ==
    /\ pc[p] = "write"
    /\ \A q \in Sealer : pc[q] \notin Locked \cup {"write"}
    /\ pc' = [pc EXCEPT ![p] = "body"]
    /\ UNCHANGED <<proc, spoolVars, batch, segId, s3Vars, catalog, faults, history>>

\* The file is written; Store.Seal waits for Store.mu.
LockStore(p) ==
    /\ pc[p] = "write"
    /\ \A q \in Sealer : pc[q] \notin Locked
    /\ pc' = [pc EXCEPT ![p] = "body"]
    /\ UNCHANGED <<proc, spoolVars, batch, segId, s3Vars, catalog, faults, history>>

StoreBody(p) == body' = [body EXCEPT ![segId[p]] = batch[p]]

\* Mutant of PutBody: the sidecar is uploaded in its place.
PutSidecarFirst(p) ==
    /\ pc[p] = "body"
    /\ metas' = metas \cup {segId[p]}
    /\ pc' = [pc EXCEPT ![p] = "meta"]
    /\ UNCHANGED <<proc, spoolVars, batch, segId, body, snap, catalog, faults, history>>

PutBody(p) ==
    /\ pc[p] = "body"
    /\ StoreBody(p)
    /\ pc' = [pc EXCEPT ![p] = "meta"]
    /\ UNCHANGED <<proc, spoolVars, batch, segId, metas, snap, catalog, faults, history>>

\* An orphan .seg may stay behind; the retry uses another id.
PutBodyFails(p) ==
    /\ pc[p] = "body"
    /\ UNCHANGED body \/ StoreBody(p)
    /\ UNCHANGED metas
    /\ Requeue(p)

PutMeta(p) ==
    /\ pc[p] = "meta"
    /\ metas' = metas \cup {segId[p]}
    /\ pc' = [pc EXCEPT ![p] = "catalog"]
    /\ UNCHANGED <<proc, spoolVars, batch, segId, body, snap, catalog, faults, history>>

\* The Put returned an error; the sidecar may have been stored all the same.
PutMetaFails(p) ==
    /\ pc[p] = "meta"
    /\ metas' \in {metas, metas \cup {segId[p]}}
    /\ UNCHANGED body
    /\ Requeue(p)

\* catalog.put, then Store.mu is released.
PutCatalog(p) ==
    /\ pc[p] = "catalog"
    /\ catalog' = catalog \cup {segId[p]}
    /\ pc' = [pc EXCEPT ![p] = "commit"]
    /\ UNCHANGED <<proc, spoolVars, batch, segId, s3Vars, faults, history>>

PutCatalogFails(p) ==
    /\ pc[p] = "catalog"
    /\ UNCHANGED <<body, metas>>
    /\ Requeue(p)

\* Mutant of Commit: commits everything received, not what was sealed.
CommitReceived(p) ==
    /\ pc[p] = "commit"
    /\ committed' = received
    /\ batch' = [batch EXCEPT ![p] = {}]
    /\ pc' = [pc EXCEPT ![p] = "idle"]
    /\ segId' = [segId EXCEPT ![p] = NoSeg]
    /\ UNCHANGED <<proc, buf, received, s3Vars, catalog, faults, history>>

\* Mutant of Commit: the watermark is not advanced.
CommitNothing(p) ==
    /\ pc[p] = "commit"
    /\ batch' = [batch EXCEPT ![p] = {}]
    /\ pc' = [pc EXCEPT ![p] = "idle"]
    /\ segId' = [segId EXCEPT ![p] = NoSeg]
    /\ UNCHANGED <<proc, spoolVars, s3Vars, catalog, faults, history>>

Commit(p) ==
    /\ pc[p] = "commit"
    /\ committed' = Higher(committed, [s \in Source |-> MaxOff(batch[p], s)])
    /\ batch' = [batch EXCEPT ![p] = {}]
    /\ pc' = [pc EXCEPT ![p] = "idle"]
    /\ segId' = [segId EXCEPT ![p] = NoSeg]
    /\ UNCHANGED <<proc, buf, received, s3Vars, catalog, faults, history>>

SealStep(p) ==
    \/ WriteFails(p) \/ LockStore(p)
    \/ PutBody(p) \/ PutBodyFails(p)
    \/ PutMeta(p) \/ PutMetaFails(p)
    \/ PutCatalog(p) \/ PutCatalogFails(p)
    \/ Commit(p)

-----------------------------------------------------------------------------
(* RunSealLoop and Shutdown.                                               *)

\* A tick finds the buffer over a threshold.  After SIGTERM the loop's select
\* may still take a tick that is ready beside ctx.Done.
LoopSeal == proc \in Running /\ TakeBuffer("loop") /\ UNCHANGED proc

\* Store.Snapshot runs under Store.mu, from the loop or from Shutdown.
Snapshot ==
    /\ \A q \in Sealer : pc[q] \notin Locked
    /\ snap' = catalog
    /\ UNCHANGED <<spoolVars, sealVars, body, metas, catalog, faults, history>>

LoopSnapshot ==
    /\ proc \in Running
    /\ pc["loop"] = "idle"
    /\ Snapshot
    /\ UNCHANGED proc

\* SIGTERM or SIGINT cancels the root context.
Terminate ==
    /\ proc = "serving"
    /\ proc' = "stopping"
    /\ UNCHANGED <<spoolVars, sealVars, s3Vars, catalog, faults, history>>

\* Shutdown calls Seal without waiting for the loop.
ShutdownSeal ==
    /\ proc = "stopping"
    /\ proc' = "draining"
    /\ \/ TakeBuffer("shutdown")
       \/ buf = {} /\ UNCHANGED <<spoolVars, sealVars, s3Vars, catalog, faults, history>>

\* Its Seal returned, with or without an error.  The snapshot may fail too.
ShutdownSnapshot ==
    /\ proc = "draining"
    /\ pc["shutdown"] = "idle"
    /\ proc' = "exiting"
    /\ \/ Snapshot
       \/ Fault /\ UNCHANGED <<spoolVars, sealVars, s3Vars, catalog, history>>

-----------------------------------------------------------------------------
(* The end of the process, and the start of the next one.  A new pod has   *)
(* an empty emptyDir; a restarted container keeps it.                      *)

Restart ==
    /\ proc' = "loading"
    /\ buf' = {}
    /\ received' = NoOffsets
    /\ committed' = NoOffsets
    /\ pc' = [p \in Sealer |-> "idle"]
    /\ batch' = [p \in Sealer |-> {}]
    /\ segId' = [p \in Sealer |-> NoSeg]
    /\ catalog' \in {catalog, {}}
    /\ UNCHANGED <<s3Vars, history>>

Exit == proc = "exiting" /\ Restart /\ UNCHANGED faults
Crash == Fault /\ Restart

\* Store.Recover: the newest snapshot first ...
LoadSnapshot ==
    /\ proc = "loading"
    /\ catalog' = catalog \cup snap
    /\ proc' = "listing"
    /\ UNCHANGED <<spoolVars, sealVars, s3Vars, faults, history>>

\* ... then every sidecar the catalog does not have.  An error ends the process.
RecoverSidecar(i) ==
    /\ proc = "listing"
    /\ i \in metas \ catalog
    /\ catalog' = catalog \cup {i}
    /\ UNCHANGED <<proc, spoolVars, sealVars, s3Vars, faults, history>>

SourceWatermarks == [s \in Source |-> MaxOff(RecordsOf(catalog), s)]

\* Mutant of NewSpool: the sidecars are not reconciled with the snapshot.
NewSpoolFromSnapshot ==
    /\ proc = "listing"
    /\ proc' = "serving"
    /\ received' = SourceWatermarks
    /\ committed' = SourceWatermarks
    /\ UNCHANGED <<buf, sealVars, s3Vars, catalog, faults, history>>

NewSpool ==
    /\ proc = "listing"
    /\ metas \subseteq catalog
    /\ proc' = "serving"
    /\ received' = SourceWatermarks
    /\ committed' = SourceWatermarks
    /\ UNCHANGED <<buf, sealVars, s3Vars, catalog, faults, history>>

-----------------------------------------------------------------------------
Next ==
    \/ \E r \in Record : Accept(r)
    \/ Ack
    \/ LoopSeal \/ LoopSnapshot
    \/ Terminate \/ ShutdownSeal \/ ShutdownSnapshot
    \/ \E p \in Sealer : SealStep(p)
    \/ Exit \/ Crash
    \/ LoadSnapshot \/ NewSpool
    \/ \E i \in SegId : RecoverSidecar(i)

Spec == Init /\ [][Next]_vars

\* No Seal begins while another is under way: true until SIGTERM arrives.
SerialNext == Next /\ ~overlapped'
SerialSpec == Init /\ [][SerialNext]_vars

\* The loop's ticker keeps firing and the age threshold is always reached, a
\* goroutine inside Seal keeps running, a failed Put is retried by the next
\* tick, Kubernetes restarts the pod; SIGTERM and crashes need not happen.
Fairness ==
    /\ WF_vars(proc = "serving" /\ LoopSeal)
    /\ \A p \in Sealer : WF_vars(SealStep(p))
    /\ WF_vars(ShutdownSeal) /\ WF_vars(ShutdownSnapshot) /\ WF_vars(Exit)
    /\ WF_vars(LoadSnapshot) /\ WF_vars(NewSpool)
    /\ WF_vars(\E i \in SegId : RecoverSidecar(i))

LiveSpec == Spec /\ Fairness

-----------------------------------------------------------------------------
(* Properties.                                                             *)

TypeOK ==
    /\ proc \in Proc
    /\ buf \in SUBSET Record
    /\ received \in Watermark
    /\ committed \in Watermark
    /\ pc \in [Sealer -> Step]
    /\ batch \in [Sealer -> SUBSET Record]
    /\ segId \in [Sealer -> SegId \cup {NoSeg}]
    /\ \A p \in Sealer : pc[p] # "idle" => segId[p] \in SegId
    /\ body \in [SegId -> SUBSET Record]
    /\ metas \in SUBSET SegId
    /\ snap \in SUBSET SegId
    /\ catalog \in SUBSET SegId
    /\ faults \in 0 .. MaxFaults
    /\ acked \in Watermark
    /\ overlapped \in BOOLEAN
    /\ requeuedDurable \in BOOLEAN

\* Everything up to an acked offset that the agent has not shed is in a segment
\* that a restarted manager finds: an ack lets the agent forget the data.
AckedDurable ==
    \A r \in Record : r.off <= acked[r.src] => r \in Durable \cup Shed

\* AckedDurable, as long as Shutdown's Seal never overlapped the loop's.
SerialAckedDurable == ~overlapped => AckedDurable

\* A record the spool counts as received is stored, buffered or in a Seal:
\* requeue, a crash or a restart never drops one the agent will not resend.
SerialReceivedKept ==
    ~overlapped /\ proc \in Running =>
        \A r \in Record : r.off <= received[r.src] => r \in buf \cup Held \cup Durable \cup Shed

\* The watermark recovered by NewSpool never lies below an offset acked before
\* the restart, so what the agent has forgotten is not expected again.
RecoveredCoversAcked ==
    proc \in Running => \A s \in Source : acked[s] <= committed[s]

\* A record is stored in one segment only, unless a batch was requeued after
\* its sidecar had been stored (dedup by the received watermark).
StoredOnce ==
    \A i, j \in metas : i # j => body[i] \cap body[j] = {}

StoredOnceUnlessRequeued == ~requeuedDurable => StoredOnce

\* A sidecar never points at a missing body (the upload order of Store.Seal),
\* and the catalog and its snapshots hold nothing a sidecar listing would not.
CatalogDerivable ==
    /\ \A i \in metas : body[i] # {}
    /\ catalog \cup snap \subseteq metas

\* While the manager serves, a buffered record is sealed and committed, however
\* often writes failed before.
BufferedCommitted ==
    \A r \in Record :
        (proc = "serving" /\ r \in buf) ~> (proc # "serving" \/ r.off <= committed[r.src])

\* Shutdown gets through, whatever the loop holds, and the next process serves.
ShutdownCompletes == (proc = "stopping") ~> (proc = "serving")

-----------------------------------------------------------------------------
(* The inductive invariant the proofs rest on.                             *)

\* Where each Seal stands in the object store, and that a process that is
\* still recovering has nothing buffered and no Seal under way.
SealInv ==
    /\ catalog \cup snap \subseteq metas
    /\ \A i \in metas : body[i] # {}
    /\ \A p \in Sealer :
        /\ pc[p] = "idle" <=> batch[p] = {}
        /\ pc[p] = "idle" => segId[p] = NoSeg
        /\ pc[p] \in {"write", "body", "meta"} => segId[p] \notin metas
        /\ pc[p] \in {"meta", "catalog", "commit"} => body[segId[p]] = batch[p]
        /\ pc[p] \in {"catalog", "commit"} => segId[p] \in metas
    /\ \A p, q \in Sealer : p # q /\ pc[p] # "idle" => segId[p] # segId[q]
    /\ proc \notin Running => buf = {} /\ \A p \in Sealer : pc[p] = "idle"

\* Nothing lies above the received watermark.
ReceivedInv ==
    /\ \A r \in buf \cup Held : r.off <= received[r.src]
    /\ proc \in Running => \A r \in Durable : r.off <= received[r.src]

\* A watermark is 0 or reaches no further than a durable record of its source.
Reached(w, s) == w[s] = 0 \/ \E r \in Durable : r.src = s /\ w[s] <= r.off

\* No ack lies above the committed watermark, and both are covered by what a
\* recovery will find, even when Seals overlap.
WatermarkInv ==
    /\ proc \in Running => \A s \in Source : acked[s] <= committed[s]
    /\ \A s \in Source : Reached(acked, s) /\ Reached(committed, s)

\* A record is in one place: the buffer, one Seal that has no sidecar yet, or one
\* discoverable segment.
OnceInv ==
    /\ StoredOnce
    /\ buf \cap Durable = {}
    /\ \A p \in Sealer :
        /\ batch[p] \cap buf = {}
        /\ pc[p] \in {"write", "body", "meta"} => batch[p] \cap Durable = {}
    /\ \A p, q \in Sealer : p # q => batch[p] \cap batch[q] = {}

\* Of each source a prefix is durable, then comes what a Seal holds, then what
\* is buffered; nothing up to the received watermark is missing but what the
\* agent has shed, and the committed and acked watermarks stay inside the durable prefix.
OrderInv ==
    /\ \A p, q \in Sealer : pc[p] # "idle" /\ pc[q] # "idle" => p = q
    /\ \A b \in Held, r \in buf : b.src = r.src => b.off < r.off
    /\ \A d \in Durable, r \in (buf \cup Held) \ Durable : d.src = r.src => d.off < r.off
    /\ \A r \in Durable, q \in Record : q.src = r.src /\ q.off <= r.off => q \in Durable \cup Shed
    /\ proc \in Running =>
        \A r \in Record : r.off <= received[r.src] => r \in buf \cup Held \cup Durable \cup Shed
    /\ \A r \in Record : r.off <= committed[r.src] => r \in Durable \cup Shed
    /\ \A r \in Record : r.off <= acked[r.src] => r \in Durable \cup Shed

\* The inductive invariant: what holds however Seals overlap, and what holds
\* until a stored batch is requeued or two Seals overlap (Seal, Recover, Accept).
IndInv ==
    /\ TypeOK /\ SealInv /\ ReceivedInv /\ WatermarkInv
    /\ ~requeuedDurable => OnceInv
    /\ ~overlapped => OrderInv
=============================================================================
