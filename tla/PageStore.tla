----------------------------- MODULE PageStore -----------------------------
(***************************************************************************)
(* The page engine of wavedb-storage: batches journalled and committed to  *)
(* the caches, settle rounds that move touched ids into pages, checkpoints *)
(* (commit_journal) that retire a journal, and recovery (restore) from     *)
(* whatever a crash leaves of the journals and of data.bin.                *)
(*                                                                         *)
(* Every id has a bucket of its own, and a page, like an addressing chunk, *)
(* fills one block; dictionaries are left out.  Allocation is the real     *)
(* one (Allocator).  Blocks are numbered from 1, the superblock is block 0 *)
(* and 0 is the EMPTY descriptor.                                          *)
(***************************************************************************)
EXTENDS Allocator, Sequences, SequencesExt

CONSTANTS
    Ids,          \* record ids, a set of integers
    Profiles,     \* how the store is used, one of them in a behaviour:
                  \* shapes    what a batch may do, id -> put or remove
                  \* window    whether it has a non-zero durability window
                  \* writers   whether others write while a checkpoint runs
                  \* crashes   kinds of crash: "power", "kill"
                  \* hazards   what may fail: "create", "retire_sync",
                  \*           "data_sync" and "frame" (those steps of a
                  \*           checkpoint), "kill" (a crash with the newest
                  \*           frame unsynced), "settle" (a window write),
                  \*           "unlink" (of a retired journal) and "append"
                  \*           (the barrier of an apply)
                  \* batches, journals, blocks, syncs, failures: bounds
    CompactAt,    \* edit chunks that make the next one a snapshot
    MaxBatches, MaxJournals, MaxBlocks, MaxSyncs, MaxFailures
                  \* the greatest of each bound

Absent == 0     \* no value: values are batch numbers
EMPTY == 0      \* BlockDescriptor::EMPTY

VARIABLES
    profile,    \* one of Profiles
    journals,   \* ts -> [frames, synced]: frames written, how many durable
    bin,        \* block -> content, as the page cache has it
    dirty,      \* blocks written since data.bin was last synced
    mode,       \* up, reopening (after a kill), rebooting (power), corrupt
    replay,     \* batches restore still has to re-apply
    cur,        \* ts of the current journal
    syncs,      \* its barrier count, Journal.syncs
    cache,      \* id -> cached value, Absent if not cached
    dead,       \* ids removed but not settled
    touched,    \* PageStore.pending: ids committed and not settled
    dir,        \* id -> block of its page
    meta,       \* MetaLog: [snapshot, edits]
    alloc,      \* the allocator
    retiring,   \* the pending retirement: [on, ts, barrier]
    commit,     \* commit_journal's progress and locals
    next,       \* number of the next batch
    latest,     \* history: id -> the value a read must return
    floor,      \* history: the states a power loss may fall back to, given
                \* the barriers taken so far
    tail,       \* history: batches since then, in order, [writes, acked]
    failures    \* history: how many failures CheckpointRoots counts

ram == <<cur, syncs, cache, dead, touched, dir, meta, alloc, retiring, commit>>
history == <<latest, floor, tail, failures>>
vars == <<profile, journals, bin, dirty, mode, replay, ram, next, history>>

Blocks == 1 .. MaxBlocks
Torn == [kind |-> "torn"]
Page(i, v) == [kind |-> "page", id |-> i, value |-> v]
Batch(writes) == [kind |-> "batch", writes |-> writes]

NoRetiring == [on |-> FALSE, ts |-> 0, barrier |-> 0]
Idle == [step |-> "idle", pending |-> NoRetiring, old |-> 0, carrier |-> 0]

Overlay(map, writes) ==
    [i \in DOMAIN map |-> IF i \in DOMAIN writes THEN writes[i] ELSE map[i]]

(* What may be left of the states after batches: those acknowledged, and   *)
(* any of the others.                                                      *)
Outcomes(states, batches) ==
    FoldLeft(LAMBDA found, b : {Overlay(s, b.writes) : s \in found}
                               \cup IF b.acked THEN {} ELSE found,
             states, batches)

(* Batches of puts and removes; a put writes the batch's number. *)
Batches(n) ==
    {[i \in DOMAIN shape |-> IF shape[i] THEN n ELSE Absent] : shape \in profile.shapes}

-----------------------------------------------------------------------------
(* Journal operations. *)

WriteFrame(js, ts, frame) == [js EXCEPT ![ts].frames = Append(@, frame)]

Sync(js, ts) == [js EXCEPT ![ts].synced = Len(js[ts].frames)]

Create(js, ts) ==
    [t \in DOMAIN js \cup {ts} |->
        IF t = ts THEN [frames |-> <<>>, synced |-> 0] ELSE js[t]]

Delete(js, tss) == [t \in DOMAIN js \ tss |-> js[t]]

-----------------------------------------------------------------------------
(* Reads: the cache, then the tombstones, then the settled page. *)
ReadOf(i) ==
    CASE cache[i] # Absent -> cache[i]
      [] cache[i] = Absent /\ i \in dead -> Absent
      [] cache[i] = Absent /\ i \notin dead /\ dir[i] = EMPTY -> Absent
      [] OTHER -> LET page == bin[dir[i]] IN
                  IF page.kind = "page" /\ page.id = i THEN page.value ELSE -1

Visible == [i \in Ids |-> ReadOf(i)]

(* commit_to_caches and merge_touched. *)
CommitToCaches(writes) ==
    LET puts == {i \in DOMAIN writes : writes[i] # Absent} IN
    /\ cache' = Overlay(cache, writes)
    /\ dead' = (dead \ puts) \cup (DOMAIN writes \ puts)
    /\ touched' = touched \cup DOMAIN writes

(* MetaLog *)
MetaRuns == {Run(b, 1) : b \in (Range(meta.edits) \cup {meta.snapshot}) \ {EMPTY}}

MetaHead == IF meta.edits = <<>> THEN meta.snapshot ELSE Last(meta.edits)

WantsSnapshot == Len(meta.edits) >= CompactAt

-----------------------------------------------------------------------------
(***************************************************************************)
(* place_in over a slot plan: ids maps every planned id to the page image  *)
(* it gets (Absent: the bucket becomes vacant), got is the window and the  *)
(* allocator after carving it.  The window takes the pages in order, then  *)
(* the round's edit chunk; what it supersedes is freed.                    *)
(***************************************************************************)
PlaceIn(ids, got) ==
    LET pages == {i \in DOMAIN ids : ids[i] # Absent}
        At(i) == got.run.start + Cardinality({j \in pages : j < i})
        chunkAt == End(got.run) - 1
        newDir == [i \in Ids |-> IF i \in pages THEN At(i)
                                 ELSE IF i \in DOMAIN ids THEN EMPTY ELSE dir[i]]
        full == WantsSnapshot
        chunk == [kind |-> "chunk",
                  prev |-> IF full THEN EMPTY ELSE MetaHead,
                  slots |-> IF full THEN newDir
                            ELSE [i \in DOMAIN ids |-> newDir[i]]]
        freed == {Run(dir[i], 1) : i \in {j \in DOMAIN ids : dir[j] # EMPTY}}
        stale == IF full THEN MetaRuns ELSE {}
    IN  /\ End(got.run) - 1 <= profile.blocks
        /\ bin' = [b \in Blocks |->
                      IF b \notin BlocksOf(got.run) THEN bin[b]
                      ELSE IF b = chunkAt THEN chunk
                      ELSE LET i == CHOOSE j \in pages : At(j) = b
                           IN  Page(i, ids[i])]
        /\ dirty' = dirty \cup BlocksOf(got.run)
        /\ dir' = newDir
        /\ meta' = IF full THEN [snapshot |-> chunkAt, edits |-> <<>>]
                   ELSE [meta EXCEPT !.edits = Append(@, chunkAt)]
        /\ alloc' = FreeAll(FreeAll(got.alloc, freed), stale)

(* Blocks a plan's window takes: its page images and the chunk. *)
WindowSize(ids) == Cardinality({i \in DOMAIN ids : ids[i] # Absent}) + 1

(* settle: place the ids' cached bytes best fit, and clear the tombstones  *)
(* the pages now satisfy.                                                  *)
Settle(plan) ==
    /\ \E got \in {Alloc(alloc, WindowSize(plan))} : PlaceIn(plan, got)
    /\ dead' = dead \ {i \in DOMAIN plan : plan[i] = Absent}

(* The window write fails: the window stays allocated, its blocks hold     *)
(* part of it.                                                             *)
SettleFault(ids) ==
    LET got == Alloc(alloc, WindowSize([i \in ids |-> cache[i]])) IN
    /\ End(got.run) - 1 <= profile.blocks
    /\ bin' = [b \in Blocks |-> IF b \in BlocksOf(got.run) THEN Torn ELSE bin[b]]
    /\ dirty' = dirty \cup BlocksOf(got.run)
    /\ alloc' = got.alloc

-----------------------------------------------------------------------------
(* apply_inner, whose guards held: journal the batch, with a barrier       *)
(* unless a window is open, then commit it to the caches.  A barrier makes *)
(* a promise about every batch acknowledged so far.                        *)
Apply ==
    /\ mode = "up"
    /\ commit.step = "idle" \/ profile.writers
    /\ next <= profile.batches
    /\ \E writes \in Batches(next), barrier \in IF profile.window THEN BOOLEAN ELSE {TRUE} :
           LET js == WriteFrame(journals, cur, Batch(writes)) IN
           /\ IF barrier
              THEN /\ syncs < profile.syncs
                   /\ journals' = Sync(js, cur)
                   /\ syncs' = syncs + 1
                   /\ floor' = {Overlay(s, writes) : s \in Outcomes(floor, tail)}
                   /\ tail' = <<>>
              ELSE /\ journals' = js
                   /\ tail' = Append(tail, [writes |-> writes, acked |-> TRUE])
                   /\ UNCHANGED <<syncs, floor>>
           /\ CommitToCaches(writes)
           /\ latest' = Overlay(latest, writes)
    /\ next' = next + 1
    /\ UNCHANGED <<bin, dirty, mode, replay, cur, dir, meta, alloc, retiring, commit,
                   failures>>

(* The frame is written and its barrier fails: the caller gets the error,  *)
(* the caches do not change, and the frame stays in the file.              *)
ApplySyncFails ==
    /\ mode = "up"
    /\ commit.step = "idle" \/ profile.writers
    /\ "append" \in profile.hazards
    /\ next <= profile.batches
    /\ \E writes \in Batches(next) :
           /\ journals' = WriteFrame(journals, cur, Batch(writes))
           /\ tail' = Append(tail, [writes |-> writes, acked |-> FALSE])
    /\ next' = next + 1
    /\ UNCHANGED <<bin, dirty, mode, replay, ram, latest, floor, failures>>

(* Mutant: the barrier is counted and not taken. *)
FlushNothing ==
    /\ mode = "up"
    /\ commit.step = "idle" \/ profile.writers
    /\ syncs < profile.syncs
    /\ syncs' = syncs + 1
    /\ floor' = Outcomes(floor, tail)
    /\ tail' = <<>>
    /\ UNCHANGED <<journals, bin, dirty, mode, replay, cur, cache, dead, touched,
                   dir, meta, alloc, retiring, commit, next, latest, failures>>

(* flush: the barrier on demand. *)
Flush ==
    /\ mode = "up"
    /\ commit.step = "idle" \/ profile.writers
    /\ syncs < profile.syncs
    /\ journals' = Sync(journals, cur)
    /\ syncs' = syncs + 1
    /\ floor' = Outcomes(floor, tail)
    /\ tail' = <<>>
    /\ UNCHANGED <<bin, dirty, mode, replay, cur, cache, dead, touched, dir, meta,
                   alloc, retiring, commit, next, latest, failures>>

(* settle_step between checkpoints (any part of the queue), or a round of  *)
(* the drain inside one (all of it).                                       *)
SettleStep ==
    /\ mode = "up"
    /\ \E ids \in SUBSET touched \ {{}} :
           /\ \/ commit.step = "idle"
              \/ commit.step = "retired" /\ ids = touched
           /\ Settle([i \in ids |-> cache[i]])
           /\ touched' = touched \ ids
    /\ UNCHANGED <<journals, mode, replay, cur, syncs, cache, retiring, commit,
                   next, history>>

SettleStepClears ==
    /\ mode = "up"
    /\ "settle" \in profile.hazards
    /\ \E ids \in SUBSET touched \ {{}} :
           /\ commit.step = "idle"
           /\ SettleFault(ids)
           /\ dead' = dead \ ids
    /\ UNCHANGED <<journals, mode, replay, cur, syncs, cache, touched, dir, meta,
                   retiring, commit, next, history>>

(* The same when it fails: the ids go back on the queue, and a checkpoint  *)
(* fails with its drain.                                                   *)
SettleStepFails ==
    /\ mode = "up"
    /\ "settle" \in profile.hazards
    /\ \E ids \in SUBSET touched \ {{}} :
           /\ \/ commit.step = "idle"
              \/ commit.step = "retired" /\ ids = touched
           /\ SettleFault(ids)
    /\ commit' = Idle
    /\ UNCHANGED <<journals, mode, replay, cur, syncs, cache, dead, touched, dir,
                   meta, retiring, next, history>>

(* evict_settled: only while nothing is pending. *)
Evict ==
    /\ mode = "up"
    /\ commit.step = "idle"
    /\ touched = {}
    /\ \E out \in SUBSET {i \in Ids : cache[i] # Absent} \ {{}} :
           cache' = [i \in Ids |-> IF i \in out THEN Absent ELSE cache[i]]
    /\ UNCHANGED <<journals, bin, dirty, mode, replay, cur, syncs, dead, touched,
                   dir, meta, alloc, retiring, commit, next, history>>

(* defragment: copy a page between two holes to the tail, verbatim. *)
Defragment ==
    /\ mode = "up"
    /\ commit.step = "idle"
    /\ \E i \in {j \in Ids : dir[j] # EMPTY} :
           LET run == Run(dir[i], 1)
               around == FreeNeighbours(alloc, run)
               plan == [j \in {i} |-> bin[dir[i]].value]
           IN  /\ around.before + around.after >= run.count
               /\ End(run) + around.after # alloc.total
               /\ bin[dir[i]].kind = "page"
               /\ \E got \in {AllocTail(alloc, WindowSize(plan))} : PlaceIn(plan, got)
    /\ UNCHANGED <<journals, mode, replay, cur, syncs, cache, dead, touched,
                   retiring, commit, next, history>>

-----------------------------------------------------------------------------
(* commit_journal, step by step.  Step 0: claim the pending retirement. *)
Claim ==
    /\ mode = "up"
    /\ commit.step = "idle"
    /\ cur < profile.journals
    /\ commit' = [Idle EXCEPT !.step = "claimed", !.pending = retiring]
    /\ retiring' = NoRetiring
    /\ UNCHANGED <<journals, bin, dirty, mode, replay, cur, syncs, cache, dead,
                   touched, dir, meta, alloc, next, history>>

(* Step 1: rotate under the append lock. *)
Rotate ==
    /\ commit.step = "claimed"
    /\ journals' = Create(journals, cur + 1)
    /\ cur' = cur + 1
    /\ syncs' = 0
    /\ commit' = [commit EXCEPT !.step = "rotated", !.old = cur, !.carrier = syncs]
    /\ UNCHANGED <<bin, dirty, mode, replay, cache, dead, touched, dir, meta, alloc,
                   retiring, next, history>>

(* A failure that CheckpointRoots counts. *)
Harm ==
    /\ failures < profile.failures
    /\ failures' = failures + 1

(* A step of the checkpoint fails and commit_journal returns the error. *)
Fails(step, hazard) ==
    /\ commit.step = step
    /\ hazard \in profile.hazards
    /\ commit' = Idle
    /\ UNCHANGED <<journals, bin, dirty, mode, replay, cur, syncs, cache, dead,
                   touched, dir, meta, alloc, retiring, next, latest, floor, tail>>

RotateFails ==
    /\ Fails("claimed", "create")
    /\ IF commit.pending.on THEN Harm ELSE UNCHANGED failures

(* Step 2: retire_previous and dispose. *)
RetirePrevious ==
    LET p == commit.pending
        retired == [Idle EXCEPT !.step = "retired", !.old = commit.old]
        js == IF commit.carrier <= p.barrier THEN Sync(journals, commit.old)
              ELSE journals
    IN
    /\ commit.step = "rotated"
    /\ \/ /\ ~p.on
          /\ commit' = retired
          /\ UNCHANGED <<journals, alloc>>
       \/ /\ p.on
          /\ alloc' = WithoutPrevious(alloc)
          /\ \/ /\ journals' = Delete(js, {p.ts})
                /\ commit' = retired
             \/ /\ "unlink" \in profile.hazards
                /\ journals' = js
                /\ commit' = Idle
    /\ UNCHANGED <<bin, dirty, mode, replay, cur, syncs, cache, dead, touched, dir,
                   meta, retiring, next, history>>

RetireSyncFails ==
    /\ commit.pending.on /\ commit.carrier <= commit.pending.barrier
    /\ Fails("rotated", "retire_sync") /\ Harm

(* Step 3: the drain's rounds are SettleStep; it ends when it observes the *)
(* queue empty.                                                            *)
Drained ==
    /\ commit.step = "retired"
    /\ touched = {}
    /\ commit' = [commit EXCEPT !.step = "drained"]
    /\ UNCHANGED <<journals, bin, dirty, mode, replay, cur, syncs, cache, dead,
                   touched, dir, meta, alloc, retiring, next, history>>

(* Every run the directories and the addressing log in RAM name. *)
Used == MetaRuns \cup {Run(dir[i], 1) : i \in {j \in Ids : dir[j] # EMPTY}}

Superblock == Run(0, 1)

(* Mutant: the addressing log itself is left out. *)
ProtectPages ==
    /\ commit.step = "drained"
    /\ alloc' = Protecting(alloc, (Used \ MetaRuns) \cup {Superblock})
    /\ commit' = [commit EXCEPT !.step = "protected"]
    /\ UNCHANGED <<journals, bin, dirty, mode, replay, cur, syncs, cache, dead,
                   touched, dir, meta, retiring, next, history>>

(* Then protect what the frame will name. *)
Protect ==
    /\ commit.step = "drained"
    /\ alloc' = Protecting(alloc, Used \cup {Superblock})
    /\ commit' = [commit EXCEPT !.step = "protected"]
    /\ UNCHANGED <<journals, bin, dirty, mode, replay, cur, syncs, cache, dead,
                   touched, dir, meta, retiring, next, history>>

SyncData ==
    /\ commit.step = "protected"
    /\ dirty' = {}
    /\ commit' = [commit EXCEPT !.step = "synced"]
    /\ UNCHANGED <<journals, bin, mode, replay, cur, syncs, cache, dead, touched,
                   dir, meta, alloc, retiring, next, history>>

SyncDataFails == Fails("protected", "data_sync") /\ Harm

(* Steps 4 and 5: the frame, unsynced, and the retirement it will          *)
(* authorise.  names is a history variable: what the frame reaches.        *)
AppendCommit ==
    LET frame == [kind |-> "commit", ts |-> commit.old, head |-> MetaHead,
                  names |-> [b \in BlocksOfAll(Used) |-> bin[b]]]
    IN
    /\ commit.step = "synced"
    /\ journals' = WriteFrame(journals, cur, frame)
    /\ retiring' = [on |-> TRUE, ts |-> commit.old, barrier |-> syncs]
    /\ commit' = Idle
    /\ UNCHANGED <<bin, dirty, mode, replay, cur, syncs, cache, dead, touched, dir,
                   meta, alloc, next, history>>

AppendCommitFails == Fails("synced", "frame") /\ Harm

(* force_retirement: sync the current journal, then dispose; the unlink    *)
(* may fail.                                                               *)
ForceRetirement ==
    /\ mode = "up"
    /\ commit.step = "idle"
    /\ retiring.on
    /\ syncs < profile.syncs
    /\ \E gone \in {{}, {retiring.ts}} :
           /\ gone = {} => "unlink" \in profile.hazards
           /\ journals' = Delete(Sync(journals, cur), gone)
    /\ syncs' = syncs + 1
    /\ alloc' = WithoutPrevious(alloc)
    /\ retiring' = NoRetiring
    /\ UNCHANGED <<bin, dirty, mode, replay, cur, cache, dead, touched, dir, meta,
                   commit, next, history>>

-----------------------------------------------------------------------------
(* The Commit frames of a set of journals, as (journal, index) in replay   *)
(* order, and the newest.                                                  *)
Commits(js) ==
    UNION {{t} \X {k \in DOMAIN js[t].frames : js[t].frames[k].kind = "commit"} :
               t \in DOMAIN js}

Before(c, d) == c[1] < d[1] \/ (c[1] = d[1] /\ c[2] < d[2])

Newest(commits) == CHOOSE c \in commits : \A o \in commits : o = c \/ Before(o, c)

FrameAt(js, c) == js[c[1]].frames[c[2]]

(* Mutant: a chain of as many chunks as the writer keeps is refused. *)
WalkShort(image, head) ==
    LET chain[c \in 0 .. MaxBlocks, fuel \in 0 .. CompactAt] ==
            IF c = EMPTY THEN <<>>
            ELSE IF fuel = 0 \/ image[c].kind # "chunk" THEN <<EMPTY>>
            ELSE Append(chain[image[c].prev, fuel - 1], c)
    IN  chain[head, CompactAt]

(* walk: the addressing log behind a frame, oldest chunk first; <<EMPTY>>  *)
(* at its front when a chunk does not decode or the chain is too long.     *)
Walk(image, head) ==
    LET chain[c \in 0 .. MaxBlocks, fuel \in 0 .. CompactAt + 1] ==
            IF c = EMPTY THEN <<>>
            ELSE IF fuel = 0 \/ image[c].kind # "chunk" THEN <<EMPTY>>
            ELSE Append(chain[image[c].prev, fuel - 1], c)
    IN  chain[head, CompactAt + 1]

NoChunks == [snapshot |-> EMPTY, edits |-> <<>>]

NoPages == [i \in Ids |-> EMPTY]

(* fresh_alloc *)
FreshAlloc == Alloc(NewAllocator, 1).alloc

(* restore over what a crash left: the Recovered record.  The file is as   *)
(* long as the block array was: every window write extended it.            *)
Restore(js, image) ==
    LET commits == Commits(js)
        frame == FrameAt(js, Newest(commits))
        chain == IF commits = {} THEN <<>> ELSE Walk(image, frame.head)
        ok == EMPTY \notin Range(chain)
        loaded == IF ~ok THEN NoPages
                  ELSE FoldLeft(LAMBDA d, c : Overlay(d, image[c].slots), NoPages, chain)
        used == {Run(b, 1) : b \in (Range(chain) \cup Range(loaded)) \ {EMPTY}}
                    \cup {Superblock}
        kept == Delete(js, {t \in DOMAIN js : commits # {} /\ t <= frame.ts})
        order == SetToSortSeq(DOMAIN kept, <)
        frames == FlattenSeq([k \in DOMAIN order |-> kept[order[k]].frames])
        batches == SelectSeq(frames, LAMBDA f : f.kind = "batch")
    IN  [ok |-> ok,
         dir |-> loaded,
         meta |-> IF chain = <<>> THEN NoChunks
                  ELSE [snapshot |-> Head(chain), edits |-> Tail(chain)],
         alloc |-> IF commits = {} THEN FreshAlloc
                   ELSE Protecting(FromLayout(alloc.total, used), used),
         journals |-> kept,
         replay |-> [n \in DOMAIN batches |-> batches[n].writes]]

(* The process restarts over these journals and blocks: RAM is rebuilt.    *)
(* The batch of an apply caught in flight is promised to nobody.           *)
Restart(js, image, flight, opening) ==
    \E recovered \in {Restore(js, image)} :
        /\ mode' = IF recovered.ok THEN opening ELSE "corrupt"
        /\ journals' = recovered.journals
        /\ cur' = Max(DOMAIN recovered.journals)
        /\ dir' = recovered.dir
        /\ meta' = recovered.meta
        /\ alloc' = recovered.alloc
        /\ replay' = recovered.replay
        /\ bin' = image
        /\ syncs' = 0
        /\ cache' = [i \in Ids |-> Absent]
        /\ dead' = {}
        /\ touched' = {}
        /\ retiring' = NoRetiring
        /\ commit' = Idle
        /\ tail' = tail \o [n \in DOMAIN flight |->
                              [writes |-> flight[n], acked |-> FALSE]]
        /\ latest' = FoldLeft(Overlay, latest, flight)
        /\ next' = next + Len(flight)
        /\ UNCHANGED floor

(* At the instant of a crash an apply may have written its frame and not   *)
(* returned.                                                               *)
Flights ==
    {<<>>} \cup
    IF mode = "up" /\ (commit.step = "idle" \/ profile.writers) /\ next <= profile.batches
    THEN {<<writes>> : writes \in Batches(next)} ELSE {}

JournalsWith(flight) ==
    IF flight = <<>> THEN journals
    ELSE WriteFrame(journals, cur, Batch(flight[1]))

(* What a power loss may leave of a journal: its synced frames and any     *)
(* number of those after them, the torn tail cut off by Journal::replay.   *)
Cuts(journal) ==
    {[frames |-> SubSeq(journal.frames, 1, n), synced |-> n] :
        n \in journal.synced .. Len(journal.frames)}

Survivors(js) ==
    {left \in [DOMAIN js -> UNION {Cuts(js[t]) : t \in DOMAIN js}] :
        \A t \in DOMAIN js : left[t] \in Cuts(js[t])}

(***************************************************************************)
(* The machine loses power: unsynced frames and unsynced blocks may be     *)
(* lost.  A block the surviving Commit frame does not reach is torn        *)
(* without a choice: nothing reads it before it is written again.          *)
(***************************************************************************)
PowerLoss ==
    /\ "power" \in profile.crashes
    /\ mode # "corrupt"
    /\ \E flight \in Flights : \E js \in Survivors(JournalsWith(flight)) :
          LET reached == IF Commits(js) = {} THEN {}
                         ELSE DOMAIN FrameAt(js, Newest(Commits(js))).names
          IN  \E torn \in {S \in SUBSET dirty : dirty \ reached \subseteq S} :
              \E image \in {[b \in Blocks |-> IF b \in torn THEN Torn ELSE bin[b]]} :
                  Restart(js, image, flight, "rebooting")
    /\ dirty' = {}
    /\ UNCHANGED failures

(* The newest Commit frame is still only in the page cache. *)
NewestUnsynced ==
    Commits(journals) # {} /\
    LET c == Newest(Commits(journals)) IN c[2] > journals[c[1]].synced

(* The process dies and the page cache survives. *)
Kill ==
    /\ "kill" \in profile.crashes
    /\ IF NewestUnsynced THEN "kill" \in profile.hazards /\ Harm ELSE UNCHANGED failures
    /\ mode # "corrupt"
    /\ \E flight \in Flights :
           Restart(JournalsWith(flight), bin, flight,
                   IF mode = "rebooting" THEN mode ELSE "reopening")
    /\ UNCHANGED dirty

(* open_with re-applies the uncovered batches, settling each, *)
ReplayBatch ==
    /\ mode \in {"reopening", "rebooting"}
    /\ replay # <<>>
    /\ cache' = Overlay(cache, Head(replay))
    /\ Settle(Head(replay))
    /\ replay' = Tail(replay)
    /\ UNCHANGED touched
    /\ UNCHANGED <<journals, mode, cur, syncs, retiring, commit, next, history>>

(* and then serves. *)
OpenDone ==
    /\ mode \in {"reopening", "rebooting"}
    /\ replay = <<>>
    /\ mode' = "up"
    /\ IF mode = "rebooting"
       THEN latest' = Visible /\ floor' = {Visible} /\ tail' = <<>>
       ELSE UNCHANGED <<latest, floor, tail>>
    /\ UNCHANGED <<journals, bin, dirty, replay, ram, next, failures>>

-----------------------------------------------------------------------------
(* open_with on an empty directory. *)
Init ==
    /\ profile \in Profiles
    /\ journals = [t \in {1} |-> [frames |-> <<>>, synced |-> 0]]
    /\ bin = [b \in Blocks |-> Torn]
    /\ dirty = {}
    /\ mode = "up"
    /\ replay = <<>>
    /\ cur = 1
    /\ syncs = 0
    /\ cache = [i \in Ids |-> Absent]
    /\ dead = {}
    /\ touched = {}
    /\ dir = NoPages
    /\ meta = NoChunks
    /\ alloc = FreshAlloc
    /\ retiring = NoRetiring
    /\ commit = Idle
    /\ next = 1
    /\ latest = [i \in Ids |-> Absent]
    /\ floor = {latest}
    /\ tail = <<>>
    /\ failures = 0

Next ==
    /\ \/ Apply \/ ApplySyncFails \/ Flush
       \/ SettleStep \/ SettleStepFails \/ Evict \/ Defragment
       \/ Claim \/ Rotate \/ RotateFails
       \/ RetirePrevious \/ RetireSyncFails
       \/ Drained \/ Protect \/ SyncData \/ SyncDataFails
       \/ AppendCommit \/ AppendCommitFails
       \/ ForceRetirement
       \/ PowerLoss \/ Kill \/ ReplayBatch \/ OpenDone
    /\ UNCHANGED profile

Spec == Init /\ [][Next]_vars

-----------------------------------------------------------------------------

Values == 1 .. MaxBatches

(***************************************************************************)
(* A read returns the newest committed value, whichever of cache,          *)
(* tombstone and page serves it: no settle, eviction, relocation,          *)
(* checkpoint, failure or restart changes what is visible (read_of,        *)
(* evict_settled, publish, restore).                                       *)
(***************************************************************************)
ReadsLatest ==
    mode = "up" \/ (mode = "reopening" /\ replay = <<>>) => Visible = latest

(***************************************************************************)
(* Recovery always finds its root: the newest Commit frame a crash leaves  *)
(* leads to a chain of chunks that decodes and is no longer than the       *)
(* reader accepts (load_commit, walk).                                     *)
(***************************************************************************)
NeverCorrupt == mode # "corrupt"

(***************************************************************************)
(* Whatever happened before, a store about to serve after a reboot holds   *)
(* everything acknowledged before the last barrier and, of the batches     *)
(* since, a prefix in apply order.  Without a window that is "a crash      *)
(* loses nothing that was acked" (page_store.rs, module comment); with one *)
(* a crash loses "a **suffix** of acknowledged writes" (StoreOptions).     *)
(***************************************************************************)
OnlySuffixLost ==
    mode = "rebooting" /\ replay = <<>> =>
        \E n \in 0 .. Len(tail) : Visible \in Outcomes(floor, SubSeq(tail, 1, n))

(***************************************************************************)
(* After a reboot the store holds everything acknowledged before the last  *)
(* barrier and, of the batches since, a prefix in apply order: a crash     *)
(* loses only a suffix, unless one of the failures that CheckpointRoots    *)
(* counts came first (restore, open_with; StoreOptions.relax_window and    *)
(* flush).                                                                 *)
(***************************************************************************)
RecoveryLosesOnlySuffix == failures = 0 => OnlySuffixLost

-----------------------------------------------------------------------------
(* The refinement mapping to the block-level protocol. *)

Contents ==
    {Torn} \cup [kind : {"page"}, id : Ids, value : Values]
          \cup [kind : {"chunk"}, prev : Blocks \cup {EMPTY},
                slots : UNION {[S -> Blocks \cup {EMPTY}] : S \in SUBSET Ids}]

InBin(runs) == BlocksOfAll(runs) \ {0}

NamesOf(commits) ==
    IF commits = {} THEN [b \in {} |-> b]
    ELSE FrameAt(journals, Newest(commits)).names

Synced == {c \in Commits(journals) : c[2] <= journals[c[1]].synced}

Stranded ==
    {FrameAt(journals, c).names : c \in
        {d \in Commits(journals) \ Synced :
            /\ d # Newest(Commits(journals))
            /\ \A s \in Synced : Before(s, d)}} \ {NamesOf(Synced)}

Roots == INSTANCE CheckpointRoots WITH
    Values <- Contents,
    image <- bin,
    live <- BlocksOfAll(Used),
    free <- {b \in Blocks : b >= alloc.total} \cup BlocksOfAll(alloc.holes),
    deferred <- InBin(alloc.pending),
    protected <- InBin(alloc.protected),
    previous <- InBin(alloc.previous),
    durable <- NamesOf(Synced),
    newest <- NamesOf(Commits(journals)),
    stranded <- Stranded,
    inCurrent <- NewestUnsynced /\ Newest(Commits(journals))[1] = cur,
    retiring <- [on |-> retiring.on, barrier |-> retiring.barrier],
    claimed <- [on |-> commit.pending.on, barrier |-> commit.pending.barrier],
    carrier <- commit.carrier,
    pc <- IF commit.step = "drained" THEN "retired" ELSE commit.step

(***************************************************************************)
(* The engine, with its windows, addressing log and extent allocator, is   *)
(* an implementation of the block-level checkpoint protocol, and so its    *)
(* roots are intact and its blocks accounted for.                          *)
(***************************************************************************)
KeepsRoots == Roots!Spec
=============================================================================
