----------------------------- MODULE DiskCache -----------------------------
(***************************************************************************)
(* The local cache of segment files: internal/store/cache.go, and Reader,  *)
(* ensureLocal and the end of Seal in internal/store/store.go.             *)
(*                                                                         *)
(* A file is an object that a path, a writer or a reader refers to.        *)
(* os.WriteFile truncates the object at the path, or creates one, and then *)
(* fills it; os.Remove takes the path's reference away, and those who have *)
(* the object open keep it.  An object is whole or empty: bytes in between *)
(* are to a reader what an empty file is, no segment.  touch and Stat are  *)
(* one step; an eviction between them is one before them.                  *)
(***************************************************************************)
EXTENDS Seqs, FiniteSetsExt

CONSTANTS
    Seg,        \* segment ids
    Reader,     \* concurrent callers of Store.Reader
    SizeOf,     \* SizeBytes of each segment
    MaxByte,    \* CacheMaxByte
    MaxFaults   \* bound on the faults of a run

NoReader == "Seal"

ASSUME DiskCacheAssumption ==
    /\ IsFiniteSet(Seg) /\ Seg # {} /\ IsFiniteSet(Reader) /\ NoReader \notin Reader
    /\ SizeOf \in [Seg -> Nat] /\ MaxByte \in Nat /\ MaxFaults \in Nat

\* Enough objects for every path, every writer and every open file, and one more.
Obj == 1 .. (Cardinality(Seg) + Cardinality(Reader) + Cardinality(Reader) * Cardinality(Seg) + 1)

VARIABLES
    lru,        \* diskCache.ll and items, most recently used first
    curByt,     \* diskCache.curByt
    disk,       \* the object at each segment's path, 0 when there is none
    whole,      \* the objects with their full content
    sealed,     \* how far Seal is with each segment
    fetch,      \* a caller of Store.Reader and where it is
    fds,        \* the objects each caller has open, 0 for none
    faults,     \* faults still to come
    shaken,     \* history: callers whose Get failed, or whose file another caller
                \* removed, cut or was still filling, since they had no file open
    spoiled     \* history: segments whose download failed to be written

cacheVars == <<lru, curByt, disk, whole, sealed, fetch, fds, faults, shaken, spoiled>>
\* What a caller does not touch between its calls.
storeVars == <<lru, curByt, disk, whole, sealed, faults, shaken, spoiled>>

Idle == [pc |-> "idle", seg |-> CHOOSE g \in Seg : TRUE, obj |-> 0]

\* Nothing is cached at first; the segments of "later" are sealed in this run.
CacheInit(stored, later, n) ==
    /\ lru = <<>> /\ curByt = 0
    /\ disk = [g \in Seg |-> 0] /\ whole = {}
    /\ sealed = [g \in Seg |-> IF g \in later THEN "later" ELSE IF g \in stored THEN "done" ELSE "never"]
    /\ fetch = [q \in Reader |-> Idle]
    /\ fds = [q \in Reader |-> [g \in Seg |-> 0]]
    /\ faults = n
    /\ shaken = [q \in Reader |-> FALSE]
    /\ spoiled = {}

Fault == faults > 0 /\ faults' = faults - 1

\* The segments the catalog lists.
Cataloged == {g \in Seg : sealed[g] \in {"put", "done"}}

IdsOf(s) == {s[i].id : i \in 1 .. Len(s)}
Ids == IdsOf(lru)
Of(s, g) == KeepAt(s, {i \in 1 .. Len(s) : s[i].id = g})
Without(s, g) == KeepAt(s, {i \in 1 .. Len(s) : s[i].id # g})
Bytes(s) == Total([i \in 1 .. Len(s) |-> s[i].size])

\* The objects that a path, a writer or a reader refers to.
Used ==
    {disk[g] : g \in Seg} \cup {fetch[q].obj : q \in Reader} \cup {fds[x[1]][x[2]] : x \in Reader \X Seg}
NewObj == CHOOSE o \in Obj : o \notin Used

Goto(q, pc) == fetch' = [fetch EXCEPT ![q].pc = pc]

\* Other callers who count on the file of g, have an object open, or fill it.
Near(q, g) == {p \in Reader \ {q} : fetch[p].pc \in {"write", "admit", "open", "ready"} /\ fetch[p].seg = g}
Holding(q, o) == {p \in Reader \ {q} : \E g \in Seg : o # 0 /\ fds[p][g] = o}
Filling(q, o) == {p \in Reader \ {q} : fetch[p].pc = "write" /\ fetch[p].obj = o}
Shake(ps) == shaken' = [p \in Reader |-> shaken[p] \/ p \in ps]

-----------------------------------------------------------------------------
(* diskCache.admit: addLocked and evictLocked.                             *)

\* Mutant of Added: the size of an entry that is there already is added again.
AddedTwice(g) ==
    [items |-> <<[id |-> g, size |-> SizeOf[g]]>> \o Without(lru, g), bytes |-> curByt + SizeOf[g]]

Added(g) ==
    [items |-> <<[id |-> g, size |-> SizeOf[g]]>> \o Without(lru, g),
     bytes |-> curByt + SizeOf[g] - Bytes(Of(lru, g))]

\* The bytes of the entries behind the k-th, and how many entries stay when
\* they go from the back until the rest fits.
Behind(c, k) == Bytes(c.items) - Bytes(SubSeq(c.items, 1, k))
Fitting(c) == Max({0} \cup {k \in 1 .. Len(c.items) : c.bytes - Behind(c, k) <= MaxByte})

\* Mutant of Evict: the most recently used entries go first.
EvictFront(c) ==
    LET front(k) == SubSeq(c.items, 1, k)
        n == Min({Len(c.items)} \cup {k \in 0 .. Len(c.items) : c.bytes - Bytes(front(k)) <= MaxByte})
    IN  [items |-> SubSeq(c.items, n + 1, Len(c.items)), bytes |-> c.bytes - Bytes(front(n))]

\* Mutant of Evict: what is evicted is subtracted twice.
EvictTwice(c) ==
    LET n == Fitting(c) IN
    [items |-> SubSeq(c.items, 1, n), bytes |-> c.bytes - 2 * Behind(c, n)]

Evict(c) ==
    LET n == Fitting(c) IN
    [items |-> SubSeq(c.items, 1, n), bytes |-> c.bytes - Behind(c, n)]

\* Mutant of Admit: evicted files stay.
AdmitKeepsFiles(q, g) ==
    LET kept == Evict(Added(g)) IN
    /\ lru' = kept.items
    /\ curByt' = kept.bytes
    /\ UNCHANGED <<disk, shaken, whole, fds, faults, spoiled>>

\* admit by caller q, or by Seal: evicted files lose their path.
Admit(q, g) ==
    LET added == Added(g)
        kept == Evict(added)
        evicted == IdsOf(added.items) \ IdsOf(kept.items)
    IN  /\ lru' = kept.items
        /\ curByt' = kept.bytes
        /\ disk' = [h \in Seg |-> IF h \in evicted THEN 0 ELSE disk[h]]
        /\ Shake(UNION {Near(q, h) : h \in evicted})
        /\ UNCHANGED <<whole, fds, faults, spoiled>>

-----------------------------------------------------------------------------
(* Store.Seal after the uploads.                                           *)

\* Rename puts the sealed file at its path.
SealRename(g) ==
    /\ sealed[g] = "later"
    /\ disk' = [disk EXCEPT ![g] = NewObj]
    /\ whole' = whole \cup {NewObj}
    /\ sealed' = [sealed EXCEPT ![g] = "renamed"]
    /\ UNCHANGED <<lru, curByt, fetch, fds, faults, shaken, spoiled>>

\* A Rename that fails leaves the file where it is, and Seal goes on.
SealRenameFails(g) ==
    /\ sealed[g] = "later"
    /\ Fault
    /\ sealed' = [sealed EXCEPT ![g] = "renamed"]
    /\ UNCHANGED <<lru, curByt, disk, whole, fetch, fds, shaken, spoiled>>

\* The catalog lists the segment.
SealPut(g) ==
    /\ sealed[g] = "renamed"
    /\ sealed' = [sealed EXCEPT ![g] = "put"]
    /\ UNCHANGED <<lru, curByt, disk, whole, fetch, fds, faults, shaken, spoiled>>

\* The catalog cannot be written: Seal returns, Spool.Seal removes the path the
\* file no longer has and will seal the batch again under another id.
SealPutFails(g) ==
    /\ sealed[g] = "renamed"
    /\ Fault
    /\ sealed' = [sealed EXCEPT ![g] = "stranded"]
    /\ UNCHANGED <<lru, curByt, disk, whole, fetch, fds, shaken, spoiled>>

SealAdmit(g) ==
    /\ sealed[g] = "put"
    /\ Admit(NoReader, g)
    /\ sealed' = [sealed EXCEPT ![g] = "done"]
    /\ UNCHANGED fetch

-----------------------------------------------------------------------------
(* Store.Reader and ensureLocal, by caller q.                              *)

\* The call of Store.Reader.
CallReader(q, g) ==
    /\ fetch' = [fetch EXCEPT ![q] = [pc |-> "lookup", seg |-> g, obj |-> 0]]
    /\ shaken' = [shaken EXCEPT ![q] = @ /\ \E h \in Seg : fds[q][h] # 0]
    /\ UNCHANGED <<lru, curByt, disk, whole, sealed, fds, faults, spoiled>>

\* touch and Stat.
Lookup(q) ==
    LET g == fetch[q].seg IN
    /\ fetch[q].pc = "lookup"
    /\ lru' = Of(lru, g) \o Without(lru, g)
    /\ Goto(q, IF g \in Ids /\ disk[g] # 0 THEN "open" ELSE "get")
    /\ UNCHANGED <<curByt, disk, whole, sealed, fds, faults, shaken, spoiled>>

\* Get, and WriteFile as far as O_CREATE and O_TRUNC.
Create(q) ==
    LET g == fetch[q].seg
        o == IF disk[g] # 0 THEN disk[g] ELSE NewObj
    IN  /\ fetch[q].pc = "get"
        /\ disk' = [disk EXCEPT ![g] = o]
        /\ whole' = whole \ {o}
        /\ fetch' = [fetch EXCEPT ![q].pc = "write", ![q].obj = o]
        /\ Shake(Near(q, g) \cup Holding(q, disk[g]))
        /\ UNCHANGED <<lru, curByt, sealed, fds, faults, spoiled>>

\* The object store does not answer.
GetFails(q) ==
    /\ fetch[q].pc = "get"
    /\ Fault
    /\ Goto(q, "failed")
    /\ Shake({q})
    /\ UNCHANGED <<lru, curByt, disk, whole, sealed, fds, spoiled>>

Fill(q) ==
    /\ fetch[q].pc = "write"
    /\ whole' = whole \cup {fetch[q].obj}
    /\ fetch' = [fetch EXCEPT ![q].pc = "admit", ![q].obj = 0]
    /\ UNCHANGED <<lru, curByt, disk, sealed, fds, faults, shaken, spoiled>>

\* The disk is full: WriteFile returns an error and leaves what is there.
FillFails(q) ==
    /\ fetch[q].pc = "write"
    /\ Fault
    /\ spoiled' = spoiled \cup {fetch[q].seg}
    /\ fetch' = [fetch EXCEPT ![q].pc = "failed", ![q].obj = 0]
    /\ UNCHANGED <<lru, curByt, disk, whole, sealed, fds, shaken>>

AdmitRead(q) ==
    /\ fetch[q].pc = "admit"
    /\ Admit(q, fetch[q].seg)
    /\ Goto(q, "open")
    /\ UNCHANGED sealed

\* segment.Open finds the footer and the index of a whole file only.
Sealed(o) == o \in whole

OpenFile(q) ==
    LET g == fetch[q].seg IN
    /\ fetch[q].pc = "open"
    /\ IF Sealed(disk[g])
       THEN Goto(q, "ready") /\ fds' = [fds EXCEPT ![q][g] = disk[g]]
       ELSE Goto(q, "failed") /\ UNCHANGED fds
    /\ Shake(IF Filling(q, disk[g]) # {} THEN {q} ELSE {})
    /\ UNCHANGED <<lru, curByt, disk, whole, sealed, faults, spoiled>>

\* The caller has the segment and keeps the file open.
Take(q) ==
    /\ fetch[q].pc = "ready"
    /\ fetch' = [fetch EXCEPT ![q] = Idle]
    /\ UNCHANGED <<lru, curByt, disk, whole, sealed, fds, faults, shaken, spoiled>>

\* The caller is through, or Reader returned an error: it closes its files.
Release(q) ==
    /\ fetch[q].pc \in {"idle", "failed"}
    /\ fds' = [fds EXCEPT ![q] = [g \in Seg |-> 0]]
    /\ fetch' = [fetch EXCEPT ![q] = Idle]
    /\ UNCHANGED <<lru, curByt, disk, whole, sealed, faults, shaken, spoiled>>

CacheStep(q) ==
    \/ Lookup(q) \/ Create(q) \/ GetFails(q) \/ Fill(q) \/ FillFails(q)
    \/ AdmitRead(q) \/ OpenFile(q)
SealStep ==
    \E g \in Seg : SealRename(g) \/ SealRenameFails(g) \/ SealPut(g) \/ SealPutFails(g) \/ SealAdmit(g)

-----------------------------------------------------------------------------
(* The cache and any callers of it.                                        *)

CacheStart == \E stored, later \in SUBSET Seg, n \in 0 .. MaxFaults : CacheInit(stored, later, n)

\* A caller asks for one segment at a time, which the catalog lists and which it
\* has not open yet.
Ask(q, g) ==
    /\ fetch[q].pc = "idle" /\ g \in Cataloged /\ fds[q][g] = 0
    /\ CallReader(q, g)
CallerStep(q) == Take(q) \/ Release(q) \/ \E g \in Seg : Ask(q, g)
CacheNext == SealStep \/ \E q \in Reader : CacheStep(q) \/ CallerStep(q)
CacheSpec == CacheStart /\ [][CacheNext]_cacheVars

-----------------------------------------------------------------------------
CacheTypeOK ==
    /\ lru \in Seq([id : Seg, size : Nat]) /\ curByt \in Nat
    /\ disk \in [Seg -> {0} \cup Obj] /\ whole \in SUBSET Obj
    /\ sealed \in [Seg -> {"never", "later", "renamed", "put", "stranded", "done"}]
    /\ fetch \in [Reader -> [pc : {"idle", "lookup", "get", "write", "admit", "open", "ready", "failed"},
                             seg : Seg, obj : {0} \cup Obj]]
    /\ fds \in [Reader -> [Seg -> {0} \cup Obj]]
    /\ faults \in Nat /\ shaken \in [Reader -> BOOLEAN] /\ spoiled \in SUBSET Seg

\* The path of segment g, or someone who has it open or fills it, refers to o.
RefersTo(g, o) ==
    disk[g] = o \/ \E q \in Reader : fds[q][g] = o \/ (fetch[q].seg = g /\ fetch[q].obj = o)
ObjectsApart == \A g, h \in Seg, o \in Obj : RefersTo(g, o) /\ RefersTo(h, o) => g = h

\* Seal has put the file of g there and not yet admitted it, or never will.
AtSeal(g) == sealed[g] \in {"renamed", "put"}
Stranded(g) == sealed[g] = "stranded"

\* A file is whole or being filled, and counted or about to be.
FilesFilled ==
    \A g \in Seg \ spoiled : disk[g] # 0 =>
        /\ \/ disk[g] \in whole
           \/ \E q \in Reader : fetch[q].pc = "write" /\ fetch[q].seg = g /\ fetch[q].obj = disk[g]
        /\ \/ g \in Ids \/ AtSeal(g) \/ Stranded(g)
           \/ \E q \in Reader : fetch[q].pc \in {"write", "admit"} /\ fetch[q].seg = g

\* A caller has not open what it asks for, and the file it made or found is there.
FetchSound ==
    \A q \in Reader :
        /\ fetch[q].obj # 0 <=> fetch[q].pc = "write"
        /\ fetch[q].pc \in {"lookup", "get", "write", "admit", "open"} => fds[q][fetch[q].seg] = 0
        /\ fetch[q].pc \in {"write", "admit", "open"} /\ ~shaken[q] /\ SizeOf[fetch[q].seg] <= MaxByte =>
                disk[fetch[q].seg] # 0

\* The cache's account is right and within its cap, also when two callers that
\* missed the same segment both admit it (admit, evictLocked).
CacheAccounted ==
    /\ curByt = Bytes(lru)
    /\ curByt <= MaxByte
    /\ \A i, j \in 1 .. Len(lru) : lru[i].id = lru[j].id => i = j

\* When nobody is between WriteFile and admit or between Rename and admit, every
\* file in the cache directory is a whole segment that the cache counts: readers
\* and seals that overtake each other leave no empty file behind and leak none
\* past the cap (ensureLocal, Seal).  Two failures do: a download that could not
\* be written leaves what it wrote, and a catalog that could not be written
\* leaves the renamed file where it is, uncounted (store.go:117).
CacheSettled ==
    (\A q \in Reader : fetch[q].pc \notin {"write", "admit"}) =>
        \A g \in Seg \ spoiled :
            disk[g] # 0 /\ ~AtSeal(g) => disk[g] \in whole /\ (g \in Ids \/ Stranded(g))

\* Store.Reader fails, and a file a caller has open is cut, only when another
\* caller or a seal cut or removed the file, the download failed or could not be
\* written, or the segment is larger than the whole cache: eviction never takes
\* what is being opened from a caller that is alone (evictLocked, ensureLocal).
ReadsFailOnlyWhenShaken ==
    \A q \in Reader :
        /\ fetch[q].pc = "failed" =>
                shaken[q] \/ fetch[q].seg \in spoiled \/ SizeOf[fetch[q].seg] > MaxByte
        /\ \A g \in Seg : fds[q][g] # 0 /\ ~shaken[q] => fds[q][g] \in whole

\* The inductive invariant: the objects of different segments are different, so
\* a writer cuts no other segment's file, and whatever is at a path is vouched
\* for by an entry of the cache or by a caller on its way (ensureLocal, Seal).
CacheInv ==
    CacheTypeOK /\ CacheAccounted /\ ObjectsApart /\ FilesFilled /\ FetchSound /\ ReadsFailOnlyWhenShaken
=============================================================================
