------------------------------- MODULE Tailer -------------------------------
(***************************************************************************)
(* The agent's tailer on one container log: discovery, one tail per file   *)
(* generation, metadata gating, partial lines, rotation                    *)
(* (internal/tailer/tailer.go, parse.go, stat_linux.go) and the pod cache  *)
(* it asks (internal/enrich/enrich.go).  The sink is the ingest client     *)
(* (module Agent): here a record counts as sent when Enqueue takes it, and *)
(* the checkpoint moves to the offset of any record sent.                  *)
(*                                                                         *)
(* The kubelet and the container runtime are external.  The runtime        *)
(* appends to the file it has open; the kubelet renames that file away,    *)
(* then asks the runtime to open the log path anew, and removes old files  *)
(* later.  A file is a sequence of lines, offsets count lines, a line      *)
(* exists once its newline is written (pump rewinds over less).  An inode  *)
(* is used again when no name and no descriptor is left of its file.       *)
(* discover's Stat and statx of a path are one step: a rotation between    *)
(* them makes a key no file has, whose tail touches no other key's state.  *)
(***************************************************************************)
EXTENDS Naturals, SequencesExt

CONSTANTS
    MaxGen,     \* bound: generations of the log file
    MaxFaults,  \* bound: tails that fail, and restarts of the agent
    Inode,      \* inode numbers of the log's device
    Worlds      \* what may happen to the log and the agent

\* What parseCRILine makes of a line: tag F, tag P, or nothing.
Kind == {"full", "partial", "unparsed"}

\* The lines to be written, the rotations and faults to come, whether the pod's
\* annotation excludes it now, and how often that will change.
World == [lines : Seq(Kind), rotations : 0 .. MaxGen - 1, faults : 0 .. MaxFaults,
          excluded : BOOLEAN, changes : Nat]

ASSUME TailerAssumption ==
    /\ MaxGen \in Nat \ {0} /\ MaxFaults \in Nat
    /\ Worlds # {} /\ Worlds \subseteq World
    /\ Inode # {}

Gen == 1 .. MaxGen
\* Source.Key: the inode and the birth time.  Node, path and device are the same
\* for all files here.
Key == [ino : Inode, birth : Gen]
\* An offset counts lines.
Position == UNION {0 .. Len(w.lines) : w \in Worlds}

VARIABLES
    path,       \* the generation the log path names, 0 when there is none
    writer,     \* the generation the runtime has open, 0 when it has ended
    world,      \* what is still to happen
    written,    \* the lines of each generation
    inode,      \* the inode of each generation created so far
    pod,        \* the informer's view of the pod: not there, or with or without the opt-out
    tails,      \* Tailer.active: the tail of each key
    checkpoint, \* Checkpoint: the offset per key
    sent,       \* the records given to Enqueue
    bare,       \* history: a record was sent without metadata
    gaveUp,     \* history: a metadata wait ran out, or the pod left the cache
    before,     \* history: keys whose tail had asked the filter when the pod opted out
    late,       \* history: a record of an opted-out pod was sent by another tail
    drained,    \* history: generations whose own tail ended with the final drain
    early       \* history: those of them the runtime was still writing

fileVars == <<path, writer, world, written, inode>>
tailVars == <<tails, checkpoint, sent>>
gateVars == <<bare, gaveUp, before, late>>
history == <<gateVars, drained, early>>
vars == <<fileVars, pod, tailVars, history>>

\* A fileTail, and where its goroutine is.  "partials" are the lines folded into
\* ft.partial.
Tail0 == [pc |-> "none", file |-> 0, off |-> 0, partials |-> {}]
TailState == [pc : {"none", "open", "await", "pump", "eof", "drain"},
              file : {0} \cup Gen, off : Position, partials : SUBSET Position]
Rec == [key : Key, file : Gen, off : Position, lines : SUBSET Position]

\* Mutant of Birth: the filesystem reports the same birth time for all files.
NoBirth(g) == 1

\* statBirthNano: every generation has a birth time of its own.
Birth(g) == g

\* sourceFromStat and Source.Key of a generation.
KeyOf(g) == [ino |-> inode[g], birth |-> Birth(g)]

Init ==
    /\ path = 1 /\ writer = 1
    /\ world \in Worlds
    /\ written = [g \in Gen |-> <<>>]
    /\ inode = <<CHOOSE i \in Inode : TRUE>>
    /\ pod = "unknown"
    /\ tails = [k \in Key |-> Tail0]
    /\ checkpoint = [k \in Key |-> 0]
    /\ sent = {}
    /\ bare = FALSE /\ gaveUp = FALSE /\ before = {} /\ late = FALSE
    /\ drained = {} /\ early = {}

Fault == world.faults > 0 /\ world' = [world EXCEPT !.faults = @ - 1]

-----------------------------------------------------------------------------
(* External: container runtime, kubelet, informer.                         *)

Write ==
    /\ writer # 0 /\ world.lines # <<>>
    /\ written' = [written EXCEPT ![writer] = Append(@, Head(world.lines))]
    /\ world' = [world EXCEPT !.lines = Tail(@)]
    /\ UNCHANGED <<path, writer, inode, pod, tailVars, history>>

\* The kubelet renames the log; the runtime goes on writing the same file.
Rename ==
    /\ path # 0 /\ writer = path /\ world.rotations > 0
    /\ path' = 0
    /\ world' = [world EXCEPT !.rotations = @ - 1]
    /\ UNCHANGED <<writer, written, inode, pod, tailVars, history>>

\* The runtime opens the log path again, which creates the next generation.
\* Older files may be gone by then, and their inodes free.
Reopen ==
    /\ path = 0 /\ writer # 0
    /\ path' = Len(inode) + 1
    /\ writer' = path'
    /\ LET open == {writer} \cup {tails[k].file : k \in Key} IN
       \E i \in Inode \ {inode[g] : g \in open \ {0}} : inode' = Append(inode, i)
    /\ UNCHANGED <<world, written, pod, tailVars, history>>

\* With the pod its log goes.
LogRemoved ==
    /\ pod = "deleted" /\ path # 0
    /\ path' = 0
    /\ UNCHANGED <<writer, world, written, inode, pod, tailVars, history>>

\* The annotation of the pod is edited.  The informer hears of it later.
Annotate ==
    /\ pod # "deleted" /\ world.changes > 0
    /\ world' = [world EXCEPT !.excluded = ~@, !.changes = @ - 1]
    /\ UNCHANGED <<path, writer, written, inode, pod, tailVars, history>>

-----------------------------------------------------------------------------
(* enrich.Enricher.                                                        *)

\* The pod as the informer lists it.
Listed == IF world.excluded THEN "excluded" ELSE "known"

\* The tails past the filter.
Admitted == {k \in Key : tails[k].pc \in {"pump", "eof", "drain"}}

\* The informer's Add or Update: new metadata replace the old.  Nobody tells the
\* tails that run.
Upsert ==
    /\ pod # "deleted"
    /\ pod' = Listed
    /\ before' = IF Listed = "excluded" /\ pod # "excluded" THEN Admitted ELSE before
    /\ UNCHANGED <<fileVars, tailVars, bare, gaveUp, late, drained, early>>

\* The pod is deleted once its containers have ended.
PodRemoved ==
    /\ pod # "deleted"
    /\ pod' = "deleted"
    /\ writer' = 0
    /\ gaveUp' = TRUE
    /\ UNCHANGED <<path, world, written, inode, tailVars, bare, before, late, drained, early>>

Ready == pod \in {"known", "excluded"}
ShouldIngest == pod # "excluded"

-----------------------------------------------------------------------------
(* Tailer.discover, once per poll interval.                                *)

\* Mutant of Committed: the checkpoint takes the offset of the next line.
CommittedNext(k) == {checkpoint[k]} \cup {r.off + 1 : r \in {s \in sent : s.key = k /\ s.off > checkpoint[k]}}

\* Checkpoint.Get: Advance has moved the offset to that of some record the
\* manager committed, and never back.
Committed(k) == {checkpoint[k]} \cup {r.off : r \in {s \in sent : s.key = k /\ s.off > checkpoint[k]}}

\* Glob, the filter, Stat and statx; a key with no tail gets one, which starts
\* from the key's checkpoint.
Discover ==
    /\ path # 0
    /\ ShouldIngest
    /\ LET k == KeyOf(path) IN
        /\ tails[k].pc = "none"
        /\ \E o \in Committed(k) :
            /\ checkpoint' = [checkpoint EXCEPT ![k] = o]
            /\ tails' = [tails EXCEPT ![k] = [Tail0 EXCEPT !.pc = "open", !.off = o]]
    /\ UNCHANGED <<fileVars, pod, sent, history>>

-----------------------------------------------------------------------------
(* fileTail.run.                                                           *)

Goto(k, pc) == tails' = [tails EXCEPT ![k].pc = pc]

\* run returns: the descriptor is closed and the key leaves t.active.
EndTail(k) == tails' = [tails EXCEPT ![k] = Tail0]

\* Whatever the path names now is opened; the seek to the offset succeeds, also
\* beyond the end.
Open(k) ==
    /\ tails[k].pc = "open"
    /\ IF path = 0 THEN EndTail(k)
       ELSE tails' = [tails EXCEPT ![k].pc = "await", ![k].file = path]
    /\ UNCHANGED <<fileVars, pod, checkpoint, sent, history>>

\* Mutant of Checked: the filter is asked before the wait only, by discover.
CheckedBefore(k) == Goto(k, "pump") /\ before' = before \ {k}

\* The filter is asked again once the wait is over, and then no more.
Checked(k) ==
    /\ IF ShouldIngest THEN Goto(k, "pump") ELSE EndTail(k)
    /\ before' = before \ {k}

\* Mutant of Await: a tail whose wait runs out ends, to be tried again.
AwaitOrEnd(k) ==
    /\ tails[k].pc = "await"
    /\ IF Ready THEN Checked(k) ELSE EndTail(k) /\ UNCHANGED before
    /\ UNCHANGED <<fileVars, pod, checkpoint, sent, bare, gaveUp, late, drained, early>>

\* awaitMetadata ends with the pod's metadata, or when MetadataWait is over.
Await(k) ==
    /\ tails[k].pc = "await"
    /\ gaveUp' = (gaveUp \/ ~Ready)
    /\ Checked(k)
    /\ UNCHANGED <<fileVars, pod, checkpoint, sent, bare, late, drained, early>>

\* Mutant of Consume: a line the parser rejects ends the entry.
ConsumeResets(t, kind) ==
    LET n == t.off + 1 IN
    [off |-> n,
     partials |-> IF kind = "partial" THEN t.partials \cup {n} ELSE {},
     done |-> IF kind = "full" THEN t.done \cup {<<n, t.partials \cup {n}>>} ELSE t.done]

\* consume and buildRecord for the next line: partial lines are kept until a
\* full one completes the record, which carries that line's offset.
Consume(t, kind) ==
    LET n == t.off + 1 IN
    [off |-> n,
     partials |-> IF kind = "partial" THEN t.partials \cup {n}
                  ELSE IF kind = "full" THEN {} ELSE t.partials,
     done |-> IF kind = "full" THEN t.done \cup {<<n, t.partials \cup {n}>>} ELSE t.done]

\* The loop of pump, from the tail's offset to the end of the file.
Unread(lines, off) == IF Len(lines) > off THEN Len(lines) - off ELSE 0
PumpedUpTo(lines, off, partials) ==
    LET read[i \in 0 .. Unread(lines, off)] ==
            IF i = 0 THEN [off |-> off, partials |-> partials, done |-> {}]
            ELSE Consume(read[i - 1], lines[off + i])
    IN  read

\* pump and enrichAndSend: every whole line up to the end of the file.  Lines
\* written meanwhile are lines written afterwards.
PumpTo(k, pc) ==
    LET t == tails[k]
        lines == written[t.file]
        end == PumpedUpTo(lines, t.off, t.partials)[Unread(lines, t.off)]
    IN  /\ tails' = [tails EXCEPT ![k] = IF pc = "none" THEN Tail0 ELSE
                        [pc |-> pc, file |-> t.file, off |-> end.off, partials |-> end.partials]]
        /\ sent' = sent \cup {[key |-> k, file |-> t.file, off |-> d[1], lines |-> d[2]] : d \in end.done}
        /\ bare' = (bare \/ (end.done # {} /\ ~Ready))
        /\ late' = (late \/ (end.done # {} /\ pod = "excluded" /\ k \notin before))

Pump(k) ==
    /\ tails[k].pc = "pump"
    /\ PumpTo(k, "eof")
    /\ UNCHANGED <<fileVars, pod, checkpoint, gaveUp, before, drained, early>>

RotatedOrGone(k) == path = 0 \/ inode[path] # k.ino

Drains(k) ==
    LET g == tails[k].file IN
    /\ drained' = IF k = KeyOf(g) THEN drained \cup {g} ELSE drained
    /\ early' = IF k = KeyOf(g) /\ g = writer THEN early \cup {g} ELSE early

\* Mutant of Stat: a rotated file is not read once more.
StatEnds(k) ==
    /\ tails[k].pc = "eof"
    /\ IF RotatedOrGone(k) THEN EndTail(k) /\ Drains(k)
       ELSE Goto(k, "pump") /\ UNCHANGED <<drained, early>>
    /\ UNCHANGED <<fileVars, pod, checkpoint, sent, gateVars>>

\* At the end of the file: read on after the poll interval, or drain.
Stat(k) ==
    /\ tails[k].pc = "eof"
    /\ Goto(k, IF RotatedOrGone(k) THEN "drain" ELSE "pump")
    /\ UNCHANGED <<fileVars, pod, checkpoint, sent, history>>

Drain(k) ==
    /\ tails[k].pc = "drain"
    /\ PumpTo(k, "none")
    /\ Drains(k)
    /\ UNCHANGED <<fileVars, pod, checkpoint, gaveUp, before>>

\* A read error ends the tail; discover will start it again.
ReadFails(k) ==
    /\ tails[k].pc \in {"pump", "drain"}
    /\ Fault
    /\ EndTail(k)
    /\ UNCHANGED <<path, writer, written, inode, pod, checkpoint, sent, history>>

\* The agent ends and starts again.  Its new informer has listed the pods of the
\* node before the tailer runs; the enricher may have heard of it or not.
Restart ==
    /\ Fault
    /\ tails' = [k \in Key |-> Tail0]
    /\ pod' \in IF pod = "deleted" THEN {pod} ELSE {"unknown", Listed}
    /\ before' = {}
    /\ UNCHANGED <<path, writer, written, inode, checkpoint, sent, bare, gaveUp, late, drained, early>>

-----------------------------------------------------------------------------
TailStep(k) == Open(k) \/ Await(k) \/ Pump(k) \/ Stat(k) \/ Drain(k)

Next ==
    \/ Write \/ Rename \/ Reopen \/ LogRemoved \/ Annotate
    \/ Upsert \/ PodRemoved
    \/ Discover
    \/ \E k \in Key : TailStep(k) \/ ReadFails(k)
    \/ Restart

Spec == Init /\ [][Next]_vars

\* The ticker fires and the tails' goroutines run; a metadata wait is bounded.
\* Nothing is assumed of the runtime, the kubelet, the informer or of acks.
Fairness == WF_vars(Discover) /\ \A k \in Key : WF_vars(TailStep(k))

LiveSpec == Spec /\ Fairness

-----------------------------------------------------------------------------
TypeOK ==
    /\ path \in {0} \cup Gen /\ writer \in {0} \cup Gen
    /\ written \in [Gen -> Seq(Kind)]
    /\ \A g \in Gen : Len(written[g]) \in Position
    /\ world \in World
    /\ inode \in Seq(Inode) /\ Len(inode) \in Gen
    /\ pod \in {"unknown", "known", "excluded", "deleted"}
    /\ tails \in [Key -> TailState]
    /\ checkpoint \in [Key -> Position]
    /\ sent \in SUBSET Rec
    /\ bare \in BOOLEAN /\ gaveUp \in BOOLEAN /\ before \in SUBSET Key /\ late \in BOOLEAN
    /\ drained \in SUBSET Gen /\ early \in SUBSET Gen

\* The lines that make up the log entry which line n completes.
Entry(lines, n) ==
    {i \in 1 .. n : lines[i] # "unparsed" /\ \A j \in i .. (n - 1) : lines[j] # "full"}

FullLines(lines) == {n \in 1 .. Len(lines) : lines[n] = "full"}

\* The offsets of generation g that were sent under its own key.
SentOf(g) == {r.off : r \in {q \in sent : q.key = KeyOf(g) /\ q.file = g}}

\* A record read under its own file's key is one whole log entry: no restart and
\* no checkpoint cuts an entry of several partial lines in two, and none runs
\* into the next (consume, Record.Offset).
WholeEntries ==
    \A r \in sent : r.key = KeyOf(r.file) => r.lines = Entry(written[r.file], r.off)

\* A tail that reads its own file has sent all entries up to its offset, in this
\* run of the agent or an earlier one: the checkpoint it began with belongs to
\* this generation, also when the inode is used again and when an earlier tail
\* of a key found the next generation at the path (Source.Key, Checkpoint).
NothingSkipped ==
    \A k \in Key : LET t == tails[k] IN
        t.file # 0 /\ k = KeyOf(t.file) =>
            \A n \in FullLines(written[t.file]) : n <= t.off => n \in SentOf(t.file)

\* Until a metadata wait runs out or the pod leaves the cache, what is sent is
\* enriched.  Once the informer shows that the pod has opted out, nothing more is
\* sent but by the tails that had asked the filter by then (run, ShouldIngest):
\* these go on until their file is rotated or the agent restarts, and no tail
\* that follows them sends.  README.md:133 says more, such a pod "is never
\* tailed"; that holds of a pod that carries the annotation from the start, whose
\* tails have all asked after it.
GatedByMetadata == (~gaveUp => ~bare) /\ ~late

\* tailer.go:103: "Each tail exits on its own when its file is fully drained
\* after rotation/deletion."
DrainedBeforeExit == \A g \in drained : FullLines(written[g]) \subseteq SentOf(g)

\* The part of it that holds: once the runtime has left a file, a tail that ends
\* by itself has sent all of it, also what was written between the end of file
\* it saw and the rotation it noticed.
DrainedUnlessEarly == \A g \in drained \ early : FullLines(written[g]) \subseteq SentOf(g)

\* A line of a file that keeps its name is sent under the file's own key in the
\* end, or the pod is seen to opt out, whatever failed before and whichever
\* generation an earlier tail had opened by mistake.
LinesSent ==
    \A g \in Gen :
        path = g ~> path # g \/ pod = "excluded" \/ FullLines(written[g]) \subseteq SentOf(g)

-----------------------------------------------------------------------------
(* The inductive invariant.                                                *)

\* The path and the runtime name the latest generation or none, and what is
\* still to happen fits the bounds.
Generations ==
    /\ path \in {0, Len(inode)} /\ writer \in {0, Len(inode)}
    /\ pod = "deleted" => writer = 0
    /\ Len(inode) + world.rotations + (IF path = 0 /\ writer # 0 THEN 1 ELSE 0) <= MaxGen
    /\ \E w \in Worlds : \A g \in Gen : Len(written[g]) + Len(world.lines) <= Len(w.lines)

\* A key comes into use with its generation, and what is read under it is that
\* generation or a later one: under the key of the latest, that one alone.
Keys ==
    /\ \A k \in Key :
        /\ tails[k].pc = "none" => tails[k] = Tail0
        /\ tails[k].pc = "open" => tails[k].file = 0 /\ tails[k].partials = {}
        /\ tails[k].pc # "none" \/ checkpoint[k] # 0 => k.birth <= Len(inode)
        /\ tails[k].pc \in {"await", "pump", "eof", "drain"} =>
                tails[k].file \in k.birth .. Len(inode)
    /\ \A r \in sent : r.file \in r.key.birth .. Len(inode)

\* The lines kept for an entry that is not complete at line n.
Pending(lines, n) ==
    {i \in 1 .. n : lines[i] # "unparsed" /\ \A j \in i .. n : lines[j] # "full"}

\* Line n is there and what is complete up to it was sent.
Passed(lines, offs, n) == n <= Len(lines) /\ \A m \in FullLines(lines) : m <= n => m \in offs
\* Moreover no entry is cut in two by going on behind line n.
Resumable(lines, offs, n) == Passed(lines, offs, n) /\ n \in {0} \cup FullLines(lines)

\* What was sent under a file's own key.
Recorded ==
    \A r \in sent : r.key = KeyOf(r.file) =>
        /\ Resumable(written[r.file], SentOf(r.file), r.off)
        /\ r.lines = Entry(written[r.file], r.off)

\* Where the tail of the latest generation starts, or would.
Resumed ==
    \A g \in Gen, k \in Key : g = Len(inode) /\ k = KeyOf(g) =>
        /\ Resumable(written[g], SentOf(g), checkpoint[k])
        /\ tails[k].pc = "open" => Resumable(written[g], SentOf(g), tails[k].off)

\* Where a tail is that reads its own file.
Following ==
    \A g \in Gen, k \in Key : g = tails[k].file /\ k = KeyOf(g) =>
        /\ Passed(written[g], SentOf(g), tails[k].off)
        /\ tails[k].partials = Pending(written[g], tails[k].off)

\* What was drained after the runtime had left it grows no more.
Finished ==
    \A g \in drained \ early :
        /\ g <= Len(inode) /\ g # writer
        /\ FullLines(written[g]) \subseteq SentOf(g)

\* A tail that reads has been through the metadata wait, and asked the filter
\* before the pod opted out.
Gated ==
    /\ ~gaveUp => pod # "deleted" /\ ~bare /\ (Admitted # {} => Ready)
    /\ ~late
    /\ pod = "excluded" => Admitted \subseteq before

\* What discover, the tails and the checkpoint keep true together through every
\* rotation, restart and reuse of an inode.
IndInv ==
    TypeOK /\ Generations /\ Keys /\ Recorded /\ Resumed /\ Following /\ Finished /\ Gated
=============================================================================
