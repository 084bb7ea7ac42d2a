# simplelog in TLA+

simplelog ships container logs from Kubernetes nodes to S3. An agent on every
node tails log files and streams records to a manager; the manager buffers them
in an open segment, seals it into S3, and only then acks the offsets, which
lets the agent move its checkpoint. There is no other durable store. This
directory models that path, from a line in a file to the object store and back
to the checkpoint, and the way back out: queries over sealed segments and the
open buffer, and the live feed. TLC checks it on small instances, and TLAPS
proves the safety properties of the tailer, the agent, the delivery protocol,
the spool and the live feed for instances of every size.

## Inventory

| Component | State | Operations | Hard behaviour |
|---|---|---|---|
| Spool (`internal/manager/spool.go`) | open buffer, `received` and `committed` watermarks | `Accept`, `Committed`, `Snapshot`, `Seal`, `requeue` | `Seal` works outside its lock; every step may fail; two goroutines call it |
| Store and catalog (`internal/store/store.go`, `catalog.go`) | S3 objects (`.seg`, `.seg.meta`, `.snap`), bbolt catalog | `Seal`, `Snapshot`, `Recover`, `SourceWatermarks`, `Reader` | upload order against crashes; answers that are lost; stale snapshots |
| Manager process (`manager.go`, `cmd/manager/main.go`) | life cycle | seal loop, shutdown, recovery | shutdown does not wait for the loop |
| Ingest server (`internal/ingest/server.go`) | sources seen per stream | receive loop, ack loop | several streams of one agent at once, acks out of order |
| Ingest client (`internal/ingest/client.go`) | window of unacked envelopes, byte count | `Enqueue`, sessions, `flush`, `applyAck`, `Close` | two caps, blocking, resend of the window, sent marks |
| Checkpoint (`internal/tailer/checkpoint.go`) | offset per source | `Get`, `Advance` | a failed write is only logged |
| Agent process (`cmd/agent/main.go`) | life cycle | start, SIGTERM, exit | waits for tails that wait for acks |
| Tailer (`internal/tailer/tailer.go`, `parse.go`) | active tails, offsets, partial lines | `discover`, `run`, `pump`, `consume` | rotation, restart from the checkpoint, metadata wait |
| Enricher (`internal/enrich`) | informer cache | `upsert`, `remove`, `Enrich`, `Ready`, `ShouldIngest` | late metadata, annotations that change under a running tail |
| Disk cache (`internal/store/cache.go`) | LRU of segment files | `admit`, `touch`, evict | eviction against readers |
| Hub and HTTP API (`internal/query/hub.go`, `internal/manager/http.go`) | subscribers | `Publish`, `Subscribe`, query, follow | boundary of history and live feed |
| Query (`internal/query`) | none | parse, prune, merge, evaluate | pruning must not hide a match |
| Segment format (`internal/segment`) | none | write, read | detects an unfinished file |
| Generated protocol, UI, build info | none | | |

What makes the parts correct:

- an acked line is in S3, whatever fails afterwards;
- a line the manager counts as received is not dropped before it is stored;
- a restarted manager knows at least what was acked before;
- redelivery stores nothing twice and skips nothing;
- the checkpoint passes only lines that are stored or were shed on purpose;
- backpressure, sealing, shutdown and delivery come to an end;
- a tail sends whole entries of its own file and skips none of them, and no
  tail starts to send of a pod that has opted out;
- a query means what the grammar says and returns what it asks for, in order and
  once, or it fails; a follower is sent the lines of a source in order and once.

How the parts interact: tails call `Client.Enqueue` and block there; the
client's session sends batches over a stream and applies acks, which trim the
window and call `Checkpoint.Advance`; the server's `Stream` calls
`Spool.Accept` for every record and builds acks from `Spool.Committed`; the
seal loop and the shutdown call `Spool.Seal`, which calls `Store.Seal`; at the
start `Store.Recover` fills the catalog and `NewSpool` reads its watermarks.
`Spool.Accept` publishes to the hub, whose channels the follow endpoint drains
after a history scan; scan and query are `Executor.Run`, which reads the
catalog, opens segments through `Store.Reader` and the disk cache, and takes
`Spool.Snapshot`. The enricher's informer and the tails share the pod cache.

## Modules

| Module | What it is |
|---|---|
| `Spool` | spool, store, seal loop, shutdown, crash and recovery |
| `Receiver` | the abstract sink the ingest server relies on |
| `SpoolRefinement` | `Spool` implements `Receiver` |
| `Seqs`, `Window` | loops over a slice as recursive functions; the window as a value, its byte size and the order of its envelopes |
| `Agent` | window, caps, tails' positions, checkpoint, start and stop; a component without a `Next` of its own |
| `AgentAlone` | `Agent` against any manager that acks only what it was sent |
| `Delivery` | `Agent`, the streams and the server, and `Receiver`, composed |
| `Tailer` | discovery, tails, metadata gating, partial lines and rotation of one container log, and the pod cache |
| `Follow` | hub and follow endpoint against `Accept` and `Seal` |
| `QueryLang` | parser, nodes, comparisons and prunable predicates as operators, and the grammar as a reference |
| `Segment` | blocks, bounds and summary of a segment as operators |
| `DiskCache` | cache, `Store.Reader`, `ensureLocal` and the end of `Store.Seal`, on its own with any callers (`CacheSpec`) and as a component of `Query` |
| `Query` | `handleQuery` and `Executor.Run` over `QueryLang`, `Segment` and `DiskCache` |
| `DataLemmas`, `AgentLemmas` | lemmas about `Max`, sequences and sums, and about what each operation of `Agent` does to the window |
| `SpoolProofs`, `AgentProofs`, `DeliveryProofs`, `TailerProofs`, `FollowProofs`, `CacheProofs` | proofs |
| `MC*` | instances for TLC |

Operators whose comment begins with "Mutant of" are broken variants of the
definition that follows them, with a fault the code might plausibly have. No
specification uses them; replacing the definition by its variant has to make
the corresponding property fail.

### Spool

A record is its source key and the position of its line; byte offsets grow
with positions and nothing else of a record matters here. `buf`, `received`
and `committed` are the fields of `Spool`; a watermark that the Go maps do not
hold is 0. `body`, `metas` and `snap` are the objects in S3, `catalog` is the
bbolt file. `Spool.Seal` is cut at the points where another goroutine, a
failure or a crash can come in: `TakeBuffer` (under `Spool.mu`), writing the
local file (`WriteFails`, or `LockStore` once it is written), `PutBody`,
`PutMeta`, `PutCatalog` (under `Store.mu`), `Commit` (under `Spool.mu`). A
failed Put may have stored the object or not. `pc`, `batch` and `segId` are
the locals of the two goroutines that call `Seal`.

`proc` is the manager's life: `loading` and `listing` are `Store.Recover`,
`serving` follows `NewSpool`, `stopping` follows SIGTERM, `draining` is
`Shutdown` in its `Seal`, `exiting` the second in which last acks go out. The
ingest server, the loop and a `Seal` that is under way go on after SIGTERM. A
new process finds an empty emptyDir (new pod) or the old one (restarted
container).

The agent is present through `InTurn`: lines of a source arrive in order, again
from any earlier position, and none is left out except lines in `Shed`, which
the agent gave up at its hard cap. `Delivery` checks that the agent does
behave this way (`AcceptsInTurn`).

`acked`, `overlapped` and `requeuedDurable` record the past for the properties:
the highest offset ever acked, whether a `Seal` began while another was under
way, whether a batch was requeued although its sidecar is stored.

Abstractions: the thresholds of `shouldSeal` are open (any non-empty buffer may
be sealed); a segment is a set of records (the sort by timestamp and the file
format do not change it); an orphan `.seg` is never read, so its id may be used
again, which lets `SegId` bound the discoverable segments only; the newest
snapshot replaces older ones, which `Recover` never reads.

### Receiver and SpoolRefinement

`Receiver` keeps accepted records pending and makes batches of them durable
that respect the order of each source; its `Commit` may move the watermark as
long as no pending record lies at or below it; `Fail` loses everything but
`durable`; `Recover` reads the watermarks off what is durable. Under the
mapping `durable <- Durable` (records of segments with a sidecar) and
`pending <- (buf \cup Held) \ Durable`, the upload of the sidecar is the step
`Persist`, and the rest of a seal is invisible until `Commit`.

### Agent, AgentAlone, Delivery

`unacked` is the window of envelopes with their `sent` marks, `pos` the last
line each tail has read, `waiting` the tails inside `Enqueue`. `Enqueue` and
`EnqueueOverHard` are the two ways out of its loop; a tail with neither enabled
is in `cond.Wait`. `Flush(k)` sends the unsent envelopes up to index `k` (a batch
ends at `BatchBytes`, which is left open), `Resend` clears the marks at the start of a
session, `ApplyAck` trims the window and moves the checkpoint, where any write
may fail. `Retail` is a tail that ended on a transient error and was started
again by `discover` from the checkpoint. `Stop`, `Exit` and `Start` are
`main`.

`Delivery` extends `Agent` with connections and the manager. In it the agent ends
only by a crash; the orderly stop is in `AgentAlone`.
The server end of a connection outlives the
agent's session or the agent itself (`orphan`) and goes on accepting what is
in its buffers while a new session is under way; the agent end outlives the
manager (`late`) and may still apply acks. Records travel in order, acks in any
order, because both loops of `Stream` send outside its lock.

### Tailer

One container log. The kubelet renames the file away and the runtime opens the
path again; both are external, and so is the informer. A generation is one file
at the path, its key the inode and the birth time (`Source.Key`). Inodes are
used again when neither a name nor a descriptor holds them. `tails` is
`Tailer.active`: one tail per key, each a program counter over `fileTail.run`
(`open`, `await`, `pump`, `eof`, `drain`), the generation it has open, its offset
in lines and the lines folded into `partial`. `Discover` stats and `Open` opens,
so a rotation may come between them. `Pump` reads all whole lines up to the end
of the file: lines written in the middle of it are lines written after it. A
line is what `parseCRILine` makes of it: full, partial or nothing. The
checkpoint may stand at any record sent (`Committed`): which acks have come is
the business of `Agent`. `World` lists what may still happen, so that one run
covers several stories without multiplying them.

`world.excluded` is the annotation the pod carries, `pod` what the informer last
told the enricher: nothing, the pod with or without the opt-out, or its deletion.
`Annotate` edits the annotation, `Upsert` brings it to the enricher at any later
time, and no tail is told: `run` asks `ShouldIngest` once, after the metadata wait
(`Checked`). `before` and `late` record, for `GatedByMetadata`, which tails had
asked when the pod opted out and whether any other sent since.

### Follow

The three places of a record (`buf`, `batch`, `catalog`), the hub's subscription
and channel, and `streamFollow` as a program counter: subscribe and take the
time, list the catalog, read the buffer, send the history, drain the channel.
`Accept` appends under `Spool.mu` and `Publish` comes after the unlock, so two
streams that carry the same source (an abandoned one and its successor) can
publish in the other order. Stamps are any function of the lines: a runtime's
clock may stand still between two lines or be set back. `treg` is any time of
`Clock`: the manager's clock is not the clock that stamped the lines. The history
comes in the order of stamps, and at equal stamps in any, since `Seal` and
`Snapshot` sort by stamp alone with `sort.Slice`. `inSeal`, `ahead` and `overtaken`
name the lines that the three races below can hit, `replayed` the lines of the
history.

### Query, QueryLang, Segment, DiskCache

`QueryLang` takes a query as tokens; Go's strings, numbers and regular
expressions come in as tables over the strings that occur. Its parser functions
follow `parser.go` one by one and return a node and a position. The reference,
`Select`, splits a token sequence by the rules of the grammar in `ast.go`, in
which any value may follow any operator, and gives the sets of records it
selects, one per derivation. What a comparison with a misfit means (a regular
expression after `=`, a number after `=~`, a number or a pattern that is none) the
grammar does not say; `Misfit` marks a phrase that has one.

`Segment` builds blocks, bounds and summaries as the writer does. In
`DiskCache` a file is an object: the path refers to it, readers that have it
open keep it, `os.WriteFile` truncates the object at the path and fills it later,
`os.Remove` takes the path away. `ensureLocal` is cut into lookup, download and
truncation, filling, `admit` and open. `shaken` marks the requests whose file
somebody else removed, cut or was still filling, `spoiled` the segments whose
download could not be written. The end of `Store.Seal` is cut into the `Rename`
into the cache directory, the catalog write and `admit`; the first two may fail,
and a failed catalog write leaves the segment `stranded`: its file stays where it
is, and the batch will be sealed again under another id. Callers come in by `Ask`,
`Take` and `Release`: a caller asks for one listed segment at a time, keeps what
it opened and closes all of it when it is through or `Reader` failed. `CacheSpec`
lets any number of callers do so in any order and for ever.

`Query` runs one goroutine per request: parse, prune or open each overlapping
segment, take the buffer, merge, close. A job is a store and the requests to it.
What `Run` asks for comes from a list it took before, and what it closes is what
it has put into `closers`; neither refers to the state of the cache. That this
makes it a caller as `CacheSpec` has them, that the listed segment is still
cataloged and not open and that no file is left open at the end, is a property
of the run (`UsesCache`), which fails if, say, a reader is kept for closing only
when its iterator is.

## Runs

| Run | Instance | Shows |
|---|---|---|
| `spool` | 2 sources x 2 lines, 3 segments, 1 fault | safety of the write path |
| `spool_live` | 1 source, 2 lines, 3 segments, 1 fault | buffered records get committed; shutdown ends |
| `spool_refinement` | 1 source, 3 lines of which one is shed, 4 segments, 2 faults, no overlapping seals | `Spool` implements `Receiver` |
| `agent` | 2 sources x 2 lines, one of each between the caps, 1 restart | byte count, window and checkpoint; what a blocked tail waits for |
| `delivery` | 2 lines, 2 connections, 3 faults | the checkpoint stays behind what is stored; repeated redelivery skips nothing and stores nothing twice |
| `delivery_live` | 3 lines, one that waits for room and one above the hard cap, 2 connections, 1 fault | nothing is lost, backpressure ends, everything is stored or shed, the window drains |
| `tailer` | 3 generations on 2 inodes, entries of one and two lines, 1 fault, up to 2 changes of the annotation | whole entries, nothing skipped, gating, drain after rotation, every line of a live file is sent |
| `follow` | 1 source, 4 lines (one ahead of the manager's clock, two with equal stamps, one before the start), 2 streams, a channel of 1, 1 failed seal | order, no repeats, gaps only from named races, live lines arrive or the feed ends |
| `query` | all texts of up to 4 of 9 tokens, of 5 tokens without or around one comparison, 1260 comparisons, 378 ranges over 3 segments in blocks of 2; on a cache of 2: 2 requests and a seal, 2 requests and a fault, 1 request, 2 seals and a fault | grammar, comparisons, exact results, why a query may fail; the cache's account and files, its inductive invariant, and that queries are callers as the proofs assume |

Two lines per source are the least with an order to get wrong, three the least
with a gap between two others; two sources share the buffer, the window and
the caps, and one source cannot be mistaken for another beyond that. Three
segments allow two seals that overlap and a retry. Two connections are an old
and a new session. Faults (failed writes, crashes, lost sessions, restarted
tails) are counted against `MaxFaults` or `MaxRestarts`; the loss scenarios
known need one, the runs with two and three cover a fault in the recovery from
another. The runs `spool`, `agent`, `delivery`, `tailer`, `follow` and `query` also
check the inductive invariant of the proofs below (`IndInv`, `CacheInv`), of
which type correctness is a conjunct. Two inodes for three
generations force one to be used again. A channel of one overflows with the
second line. Two changes of the annotation let a pod opt out under a running tail
and in again. Five tokens hold every pair of operators with parentheses or `not`
around one side; longer mixes of three operators are listed one by one. Two
requests on one segment are an owner of a file and a disturber, and three
segments of one unit on a cache of two evict.
Deadlock is checked in every run of the write path; each system can always take
a step, a restart if nothing else. `tailer`, `follow` and `query` may end: when
the container has ended and all is read, when the client is gone, when all
requests are answered. Symmetry is used only in runs without liveness
properties, over sources, segment ids and connections, which no definition
tells apart.

### What the code does not do

Three runs state what a comment or the repository's README says and find it
violated.

- `spool_overlap` (`AckedDurable`): `Shutdown` calls `Seal` while the loop's
  `Seal` may still be uploading an earlier batch. The later batch commits first
  and its ack covers the earlier one; if that upload fails or the process ends,
  acked lines are lost. Everything proved about acked data is therefore stated
  for behaviours in which seals do not overlap (`SerialAckedDurable`), which is
  every behaviour before SIGTERM.
- `agent_stop` (`StopEnds`): after SIGTERM, a blocked tail and `main` wait for
  each other until the agent is killed.
- `tailer_rotation` (`DrainedBeforeExit`): a tail that sees the path gone drains
  once and exits, while the runtime still writes the renamed file until it
  reopens the path. `DrainedUnlessEarly` is what holds: a file the runtime has
  left is sent in full.

The passing properties name the other exceptions they need; each one is a case
the code has, not one the model made up.

- `StoredOnceUnlessRequeued`: a sidecar that is stored although its Put reports
  an error makes the retry store the batch again, and queries return it twice.
- `InOrderOnce`: in the history of a follow, lines of a source whose stamps are
  equal, or recede, come in another order than the log's (spool.go:129, 160).
- `GaplessButForRaces`: a follower misses a line that is in a seal while it
  scans (so does any query), that carries a time stamp ahead of the manager's
  clock, or that another stream's line of the same source overtakes between
  `Accept`'s unlock and `Publish`.
- `BlockedCanWake`: a line between the two caps waits on an empty window for ever.
  And above the hard cap one record is shed, however large the new one is, so
  the window may stay above the cap.
- `ResultExactUnlessDropped`: when the first block of a segment cannot be read,
  `Run` does not keep the iterator and never asks it for its error (planner.go:72),
  so the query succeeds with records missing. Two requests that miss the same
  segment suffice: the second truncates the file that the first has just opened.
- `FailsOnlyWhenShaken`: a segment larger than the whole cache evicts itself and
  can never be read.
- `CacheSettled`: a download that cannot be written leaves a cut file behind,
  and under a cached entry every later read of that segment fails. A catalog
  write that fails after the `Rename` (store.go:117) leaves the whole file in the
  cache directory, uncounted: `Spool.Seal` removes the path it no longer has.
- `GatedByMetadata`: a pod that opts out while it is tailed goes on being sent
  until its file is rotated, its tail fails or the agent restarts. The
  repository's README.md:132-133 says that a pod with the annotation "is never
  tailed", which holds of pods that carry it from the start, while the metadata
  wait does not run out.
- `GrammarExact`: the grammar in ast.go:11-14 lets every value follow every
  operator, and parser.go:206-241 rejects a regular expression after anything but
  `=~` and `!~`, and a number or a boolean after these two. These phrases, and
  numbers and patterns that do not parse, are the only ones it rejects.
- `ComparisonsAgree` leaves out literals that are booleans: `cmpOrder` compares
  them as the empty string.

### Fairness

`Spool`: the loop's ticker fires and the age threshold is reached in the end
(`LoopSeal` while serving), a goroutine inside `Seal` or `Shutdown` goes on,
`Recover` gets through its list, Kubernetes restarts the pod. Nothing is
assumed about SIGTERM, crashes, acks, snapshots or arrivals. `SealStep` is fair
as a whole: a step may fail as long as faults are left, never for ever.
`AgentAlone` (for `agent_stop`): tails, session and dialling run, and while the
agent is running the manager commits what it was sent and its newest ack
arrives. `Delivery`:
the goroutines of both ends run, an abandoned stream ends, the manager restarts
and seals what it holds. `Tailer`: the discovery ticker fires and tails run; a
metadata wait is bounded, so it counts as a step. `Follow`: a stream publishes
what it has appended, the follower's goroutine runs; arrivals, seals and the
client owe nothing. Faults are not fair, only possible.

## Proofs

A theorem about a module holds for every value of its constants that meets the
module's assumptions: any sets of sources, segments, connections and streams,
any numbers of lines, faults, generations and channel places, any sizes and
caps, any number of callers of the cache. Each module has one inductive
invariant, `IndInv` (`CacheInv` in `DiskCache`), stated next to its properties and
checked by TLC as well; the properties follow from it.

| Module | Theorems (`Spec => []...`) |
|---|---|
| `SpoolProofs` | `TypeCorrect` (`TypeOK`), `CatalogAlwaysDerivable` (`CatalogDerivable`), `Invariant` (`IndInv`), `AckedStaysDurable` (`SerialAckedDurable`), `ReceivedStaysKept` (`SerialReceivedKept`), `RecoveryCoversAcks` (`RecoveredCoversAcked`), `StoredOnlyOnce` (`StoredOnceUnlessRequeued`), and `SpoolIsReceiver`: `SerialSpec => ImplementsReceiver` |
| `AgentProofs` | `AgentInvariant` (`IndInv`), `AgentTypes` (`TypeOK`), `HeldBytesAlwaysExact` (`HeldBytesExact`), `AgentSkipsNothing` (`NothingSkipped`), `CheckpointNeverPasses` (`CheckpointSafe`), `SentStaysFirst` (`SentFirst`), `BlockedAlwaysCanWake` (`BlockedCanWake`) |
| `DeliveryProofs` | `DeliveryInvariant` (`IndInv`), `DeliveryTypes` (`TypeOK`), `CheckpointAlwaysDurable` (`CheckpointDurable`), `NothingEverLost` (`NothingLost`), `NeverStoredAgain` (`NotStoredAgain`), and `AlwaysAcceptsInTurn`: `Spec => AcceptsInTurn`, an action property |
| `TailerProofs` | `TailerInvariant` (`IndInv`), `TailerTypes` (`TypeOK`), `EntriesAlwaysWhole` (`WholeEntries`), `TailsSkipNothing` (`NothingSkipped`), `SendsAlwaysGated` (`GatedByMetadata`), `DrainsAll` (`DrainedUnlessEarly`) |
| `FollowProofs` | `FollowInvariant` (`IndInv`), `FollowTypes` (`TypeOK`), `FeedInOrderOnce` (`InOrderOnce`), `GapsOnlyByRaces` (`GaplessButForRaces`) |
| `CacheProofs` (of `CacheSpec`) | `CacheInvariant` (`CacheInv`), `CacheAlwaysAccounted` (`CacheAccounted`), `CacheAlwaysSettles` (`CacheSettled`), `ReadsAlwaysExplained` (`ReadsFailOnlyWhenShaken`) |

Together they give the chain from file to object store, link by link. `Tailer`:
a tail leaves nothing out of what it hands to `Enqueue`. `AgentAlone` and
`Delivery`: nothing handed over is lost and the checkpoint stays behind what is
stored, if the manager is a `Receiver`. `SpoolIsReceiver`: while seals do not
overlap, it is one. `AlwaysAcceptsInTurn` discharges what `Spool` assumes of
the agent (`InTurn`). The links are separate theorems; that they fit is read off
the modules' interfaces, there is no proof about one module of them all.

Assumptions, all about constants:

- `SpoolAssumption`: the bounds are natural numbers, `NoSeg` is not a segment
  id, `Shed` is a set of records;
- `WindowAssumption`, `AgentAssumption`, `AgentAloneAssumption`: bounds and caps
  are natural numbers, every line has a positive size; nothing relates the two
  caps or a line's size to them;
- `DeliveryAssumption`: `NoConn` is not a connection;
- `TailerAssumption`: there are an inode, a generation and a non-empty set of
  worlds. That every generation has a birth time of its own is the definition
  `Birth` (`statBirthNano`); the theorems do not cover a filesystem without
  birth times, for which the run `tailer` finds `NothingSkipped` violated when
  `Birth` is replaced by `NoBirth`;
- `FollowAssumption`: the channel has a place, stamps and clock are natural
  numbers within a bound, and `{}`, which stands in for the source of no record,
  is not a source. Nothing relates the stamps of different lines;
- `DiskCacheAssumption`: there is a segment, segments and callers are finitely
  many (so that the disk always has an object to spare), sizes and cap are natural
  numbers, and `Seal` is not a caller. Nothing relates a segment's size to the cap.

### Spool

`IndInv` has six parts: `TypeOK` and

- `SealInv` ties each `Seal` to the object store: where its body and sidecar are
  at each step, that ids do not clash, that recovery starts with nothing
  buffered.
- `ReceivedInv`: nothing lies above the received watermark.
- `WatermarkInv`: acks lie below `committed`, and both are 0 or covered by a
  durable record. With it, what `NewSpool` reads off the sidecars is no less
  than any ack.
- `OnceInv`, until a stored batch is requeued: a record is in the buffer, in one
  `Seal` without a sidecar or in one segment. `Accept` keeps it because a new
  record lies above everything in those places (`ReceivedInv`).
- `OrderInv`, until seals overlap: for every source a prefix is durable, then
  comes what the one `Seal` holds, then what is buffered; nothing up to
  `received` is missing; `committed` and `acked` stay inside the durable
  prefix. That `Commit` may raise the watermark follows from it: whatever lies
  below the highest offset of a stored batch is in the durable prefix.

The lemmas before each `...Next` lemma say what a step does to the buffer, the
batches and the durable records as sets (`DurableSame`, `DurableAdds`,
`HeldMoves`, `SealStepDurable`). The refinement maps
`PutMeta` (and a failing one that stores the sidecar) to `Persist` of the part
of the batch that was not durable, `Commit`, `Accept` and `NewSpool` to
`Commit`, `Accept` and `Recover`, `Exit` and `Crash` to `Fail`, and everything
else to a stutter; `OrderInv` gives the order that `Persist` asks for and that
no pending record lies below the committed watermark.

### Agent and Delivery

Both invariants share two parts from `Agent`. `WindowOK`: the byte count is the
size of the window, and sent envelopes lie in front. `InCare`, with a set of
lines that are done with (acked or shed in `AgentAlone`, stored or shed in
`Delivery`): a line that was read is done with, in the window or inside
`Enqueue`; the checkpoint passes only lines done with; and `HoldsEarlier`, ahead
of each envelope the window has every earlier line of its source that is not
done with. The last is what `CheckpointSafe` lacks to be inductive: shedding
moves the checkpoint to the record at the front of the window, and only
`HoldsEarlier` says that everything below it is done with. It allows for
duplicates in the window, which a restarted tail brings in. `AgentLemmas` has one
lemma per operation of `Agent` (`ReadCares`, `EnqueueOverHardCares`,
`ApplyAckCares`...), used by both modules.

`Delivery` adds `ManagerOK` (what is accepted is pending or settled, what is
stored is settled down to the first line, so that recovery finds the watermark
again) and `LinkOK`: every stream, abandoned ones included, carries lines that
the manager can take in turn (`HoldsEarlier` again, with the lines taken); what
this session marked as sent is on its stream or taken; no ack under way
passes a line that is not settled. Acks of an earlier manager stay good because
settled lines stay settled.

### Tailer

The difficulty is that a key's tail may have a later generation open than the
one it was made for: `discover` stats, then `run` opens. `Keys` says that what is
read under a key is its own generation or a later one, so under the key of the
latest generation only that file was ever read; there `Resumed` says that the
checkpoint, and a tail about to open, stand behind a complete entry with
everything before it sent. `Following` says the same of a tail that reads its own
file, with the partial lines it holds; `Recorded` of each record sent, so that a
checkpoint that moves to one keeps `Resumed`. `Generations` says that path and
runtime name the latest file or none, `Finished` that a drained file grows no
more, `Gated` that a tail past the metadata wait had its metadata, and that while
the pod is seen to be opted out every such tail had asked before that: `Checked`
lets no tail in then, and `Upsert` records the ones that are in. `PumpedUpTo` is
the loop of `pump`; its lemma gives, for every number of rounds, the entries
sent and the lines left over.

### Follow

`Marked` ties `maxEmitted` to the highest line sent, and what was sent of the
history to what is left by their stamps: order without repeats. `Placed` locates every received line in buffer,
batch or catalog, and between the two reads of the scan says that what left the
buffer is listed or was in a seal. `Overtaking` says which lines of the channel
and of the publishers are behind a later one. `Complete`: ahead of whatever was
sent, is to be sent or is in the channel, no line that the three races do not
excuse is missing, and while the subscription is open none is missing at all;
closing it on overflow, not skipping, is what keeps this.

### DiskCache

`CacheAccounted` is nearly inductive by itself: `addLocked` adds what it puts in
front less what it takes out (`BytesSplit`, `BytesCons`), and `evictLocked` leaves
the longest front part that fits (`EvictFacts`), which includes the entry just added
unless that alone is above the cap. What a reader finds needs more.
`ObjectsApart`: no object belongs to two segments, so a `WriteFile` cuts no
other segment's file, and new files are new objects (`NewObjFacts`, by
counting). `FilesFilled`: a file at a path is whole or one of those filling it
refers to it, and it is counted, or a `Seal` or a caller is about to count it, or
it is stranded; with nobody between `WriteFile` and `admit` this is `CacheSettled`. `FetchSound`:
a caller has not open what it asks for, and unless it was shaken or the segment
is above the cap, the file it made or found is still at the path. From these an
`open` that fails was shaken, or meets a file that somebody fills, which
shakes it, or a segment whose download could not be written.

### How the loops are proved about

The library's induction theorems and the recursion theorem for functions take
operators, which the provers here cannot instantiate. `DataLemmas` states both
with sets: `IntervalInduction` over a subset of `0 .. n`, proved from the
existence of a least element, and `RecursionExists`, that a function defined by
its value at 0 and a step function exists. With them `KeptRecursion` and
`TotalRecursion` say what the loops in `Seqs` return, and
`KeepAtFacts`, `TotalAppend` and `TotalTail` what trimming, appending and shedding
do to window and byte count, and moving and evicting to the cache's list. This is why `Seqs` and `PumpedUpTo` are recursive
functions of an index and not folds.

Only model-checked:

- the liveness properties (`BufferedCommitted`, `ShutdownCompletes`,
  `AllDelivered`, `WindowDrains`, `LiveReaches`, `LinesSent`), since fairness is
  out of the prover's reach;
- what the recursive operators of `QueryLang` compute and everything in `Query`,
  which is built on them, `UsesCache` included: that the callers the cache's
  theorems speak of are the queries is checked on the instance of the run.

## Not modelled

- The thresholds of `shouldSeal`: the age is measured from `openSince`, which
  `requeue` restores only if it was never set; a wrong age moves a seal, and the
  models let a seal come at any time.
- The lexer, `parsePath`, the splitting of a CRI line and `bodyFor`: characters
  in, fields out, no state. A token, a line and a body are inputs of the models.
- The histogram and field endpoints: counts over a query that `Query` has.
- Byte layout, compression and CRC of a segment. A file is whole or it is not a
  segment.
- The cache after a restart of the manager: `newDiskCache` starts with an empty
  list whatever the directory holds, so the files of an emptyDir that survived
  are outside the cap until a query downloads them again. The models of cache
  and query cover one life of the process.
- A filesystem without birth times: `statBirthNano` then returns 0 and only the
  inode tells files apart (see `TailerAssumption` above).
- The condition variable of the client: a tail in `cond.Wait` counts as woken as
  soon as it may go on, so a forgotten `Broadcast` would not show.
- Streams of partial lines: stdout and stderr share one buffer per tail.
- `float64` rounding of `_ts`, errors whose text decides (`isS3NotFound`), which
  belong to the S3 library.
- Generated code, UI and build information have no state.
