---------------------------- MODULE BucketStore -----------------------------
(***************************************************************************)
(* The pages of data.bin: how touched records become bucket pages in one   *)
(* window per round (plan.rs, checkpoint.rs), with linear-hashing splits,  *)
(* a dictionary per type, the addressing chunk that rides in the window    *)
(* (edit.rs, meta_log.rs), the page cache a reader goes through, the       *)
(* defragmenter, and reopening from the newest checkpoint (commit.rs).     *)
(*                                                                         *)
(* The journal is a sequence of batches and a checkpoint one step: module  *)
(* PageStore has their failures and what a power loss leaves of them.      *)
(***************************************************************************)
EXTENDS SlotPage, SequencesExt

CONSTANTS
    Types,           \* registered types: t -> whether its pages compress
    IdsOf,           \* t -> its record ids
    Hash,            \* id -> hash_of
    Target,          \* target_blocks_per_bucket
    MaxSplits,       \* MAX_SPLITS_PER_ROUND
    CompactFloor,    \* COMPACT_FLOOR_BLOCKS
    MaxEditChunks,   \* MAX_EDIT_CHUNKS
    CacheBudget,     \* the page cache's budget, in blocks
    WarmFailures,    \* whether a round that grew a dictionary may fail
    Setups,          \* [ids, sizes, budgets, writes, failures, reads, moves,
                     \* restarts]: the records written, their lengths in
                     \* units, the settle budgets, the records of which
                     \* another thread reads one, and how often each of
                     \* the others may happen
    MaxBlocks        \* bound on the file

VARIABLES
    file,     \* data.bin: block -> cell
    pool,     \* the page cache over it
    alloc,    \* the allocator
    cache,    \* t -> id -> bytes, the records cached
    dead,     \* t -> ids removed and not settled
    dir,      \* t -> directory; <<>> until something settled
    dict,     \* t -> [buf, desc]
    pending,  \* Touched: a sequence of [t, ids]
    meta,     \* MetaLog: [snapshot, edits], descriptors
    round,    \* the settle round between its window write and publish
    reader,   \* another thread inside read_of
    root,     \* the newest Commit frame: <<>> or <<its head>>
    journal,  \* batches it does not cover, [t, id, bytes]
    replay,   \* of those, what opening has still to re-apply
    mode,     \* up, opening, corrupt
    latest,   \* history: id -> the bytes a read must return
    lost,     \* history: windows a failed write left allocated
    setup,    \* the setup of this behaviour
    counts    \* how much of it is used

ram == <<pool, alloc, cache, dead, dir, dict, pending, meta, round>>
bucketVars == <<file, ram, reader, root, journal, replay, mode, latest, lost, setup, counts>>

Superblock == Run(0, 1)

NoRound == [on |-> FALSE, plans |-> <<>>, descs |-> <<>>]

Resting == [pc |-> "idle", t |-> 0, id |-> 0, run |-> EMPTY, cells |-> <<>>,
            got |-> Absent, seen |-> {}, removed |-> FALSE]

AllIds == UNION {IdsOf[t] : t \in DOMAIN Types}

TypeOf(i) == CHOOSE t \in DOMAIN Types : i \in IdsOf[t]

Restrict2(f, S) == [x \in DOMAIN f \cap S |-> f[x]]

-----------------------------------------------------------------------------
(* The addressing of one type's page directory (directory.rs): linear      *)
(* hashing.  A directory is a sequence of block descriptors, bucket b at   *)
(* index b + 1; which bucket holds a hash depends on the length alone, and *)
(* the directory grows one bucket at a time.                               *)

(* ilog2, for len >= 1 *)
Level(len) == CHOOSE k \in 0 .. len : 2 ^ k <= len /\ len < 2 ^ (k + 1)

(* The bucket of a hash when base is the largest power of two within len:  *)
(* the buckets below len - base were already split and take one bit more.  *)
BucketAt(base, len, hash) ==
    IF hash % base < len - base THEN hash % (2 * base) ELSE hash % base

(* bucket_index *)
BucketIndex(len, hash) == BucketAt(2 ^ Level(len), len, hash)

(* next_split_bucket: round-robin within the level. *)
NextSplitBucket(len) == len - 2 ^ Level(len)

(* Mutant: the keys are parted by the bit of the level after. *)
StaysLate(len, hash) == (hash \div (2 ^ (Level(len) + 1))) % 2 = 0

(* split_bit, as a test of the hash: does a key of the split bucket stay? *)
Stays(len, hash) == (hash \div (2 ^ Level(len))) % 2 = 0

-----------------------------------------------------------------------------
(* Reads of pages. *)

CellsOf(run) == [k \in 1 .. run.count |-> file[run.start + k - 1]]

(* read_run_shared: through the page cache. *)
SharedCells(p, run) ==
    IF Holds(p, run) THEN p.pages[run.start].cells ELSE CellsOf(run)

AfterRead(p, run) ==
    IF Holds(p, run) THEN p ELSE Insert(p, run, CellsOf(run), CacheBudget)

BucketOf(d, i) == BucketIndex(Len(d), Hash[i])

(* Directory::read_page: the records of a bucket, and whether its image    *)
(* opened.                                                                 *)
PageIn(d, b, t, buf, p) ==
    LET desc == d[b + 1]
        image == ImageIn(SharedCells(p, desc))
    IN  IF ~IsAllocated(desc) THEN [ok |-> TRUE, records |-> <<>>]
        ELSE IF Opens(image, t, buf) THEN [ok |-> TRUE, records |-> image.records]
        ELSE [ok |-> FALSE, records |-> <<>>]

Lookup(records, i) == IF i \in DOMAIN records THEN records[i] ELSE Absent

(* read_of by a thread that is not interrupted. *)
Visible(i) ==
    LET t == TypeOf(i) IN
    IF i \in DOMAIN cache[t] THEN cache[t][i]
    ELSE IF i \in dead[t] \/ dir[t] = <<>> THEN Absent
    ELSE LET page == PageIn(dir[t], BucketOf(dir[t], i), t, dict[t].buf, pool) IN
         IF page.ok THEN Lookup(page.records, i) ELSE <<-1, 0>>

-----------------------------------------------------------------------------
(* The addressing log. *)

MetaRuns ==
    {d \in Range(meta.edits) \cup {meta.snapshot} : IsAllocated(d)}

MetaHead == IF meta.edits = <<>> THEN meta.snapshot ELSE Last(meta.edits)

EditBlocks == FoldSeq(LAMBDA d, n : n + d.count, 0, meta.edits)

(* wants_snapshot *)
WantsSnapshot ==
    \/ Len(meta.edits) >= MaxEditChunks
    \/ EditBlocks >= Max({meta.snapshot.count, CompactFloor})

(* MetaLog::record: the log after a chunk, and the runs it supersedes. *)
Recorded(desc, full) ==
    IF full THEN [snapshot |-> desc, edits |-> <<>>]
    ELSE [meta EXCEPT !.edits = Append(@, desc)]

Superseded(full) == IF full THEN MetaRuns ELSE {}

(* every_bucket *)
EveryBucket(d) == [b \in 0 .. Len(d) - 1 |-> d[b + 1]]

(* planned_edit; descs maps a plan to the descriptor its dictionary got,   *)
(* and is empty on the pass that only reserves the chunk's room.           *)
PlannedEdit(n, plan, full, descs) ==
    [t |-> plan.t,
     buckets |-> Len(plan.dir),
     changed |-> IF full THEN EveryBucket(plan.dir)
                 ELSE [b \in DOMAIN plan.pages |-> plan.dir[b + 1]],
     dict |-> IF plan.dict # <<>>
              THEN <<IF n \in DOMAIN descs THEN descs[n] ELSE EMPTY>>
              ELSE IF full THEN <<dict[plan.t].desc>> ELSE <<>>]

(* resident_edit *)
ResidentEdit(t) ==
    [t |-> t, buckets |-> Len(dir[t]), changed |-> EveryBucket(dir[t]),
     dict |-> <<dict[t].desc>>]

(* chunk_of: a snapshot also names the types the round did not touch. *)
ChunkOf(plans, full, descs, prev) ==
    LET planned == {plans[n].t : n \in DOMAIN plans}
        others == {t \in DOMAIN Types : t \notin planned /\ dir[t] # <<>>}
        edits == {PlannedEdit(n, plans[n], full, descs) : n \in DOMAIN plans}
                 \cup IF full THEN {ResidentEdit(t) : t \in others} ELSE {}
    IN  [kind |-> "chunk", prev |-> prev, edits |-> edits,
         units |-> MapThenSumSet(
             LAMBDA e : Cardinality(DOMAIN e.changed) + Len(e.dict), edits)]

-----------------------------------------------------------------------------
(* plan_slot. *)

(* staged_page: the records of a bucket in the working set. *)
Staged(acc, d, b, t) ==
    IF b \in DOMAIN acc.staged THEN [ok |-> TRUE, records |-> acc.staged[b]]
    ELSE PageIn(d, b, t, acc.buf, acc.pool)

(* The page cache after it: an image read for the first time is kept. *)
StagedPool(acc, d, b) ==
    IF b \in DOMAIN acc.staged \/ ~IsAllocated(d[b + 1]) THEN acc.pool
    ELSE AfterRead(acc.pool, d[b + 1])

(* DictState::sample's answer, gathered over the round. *)
Grew(grew, before, after) == grew \/ after # before

(* One touched id: its cached bytes go to its page, sampled on the way;    *)
(* an id not cached was removed.                                           *)
Touch(acc, d, t, i) ==
    LET b == BucketOf(d, i)
        page == Staged(acc, d, b, t)
        put == i \in DOMAIN cache[t]
        buf == IF put /\ Types[t] THEN Sample(acc.buf, cache[t][i]) ELSE acc.buf
    IN  [acc EXCEPT
            !.ok = @ /\ page.ok,
            !.pool = StagedPool(acc, d, b),
            !.buf = buf,
            !.grew = Grew(@, acc.buf, buf),
            !.staged = b :> (IF put THEN i :> cache[t][i] @@ page.records
                             ELSE [j \in DOMAIN page.records \ {i} |->
                                      page.records[j]]) @@ @,
            !.cleared = IF put THEN @ ELSE @ \cup {i}]

(* plan_splits, once: the bucket whose turn it is, if it will be over the  *)
(* target, gives the keys with the next hash bit set to a new bucket.      *)
PlannedBlocks(acc, b) ==
    IF b \in DOMAIN acc.pages THEN BlocksFor(acc.pages[b].units)
    ELSE acc.dir[b + 1].count

SplitOnce(acc, t) ==
    LET len == Len(acc.dir)
        source == NextSplitBucket(len)
        page == Staged(acc, acc.dir, source, t)
        keep == Restrict2(page.records, {i \in AllIds : Stays(len, Hash[i])})
        moved == Restrict2(page.records, {i \in AllIds : ~Stays(len, Hash[i])})
        Image(records) == ToBytes(t, records, acc.buf, Types[t])
    IN  IF PlannedBlocks(acc, source) <= Target THEN acc
        ELSE [acc EXCEPT
                 !.ok = @ /\ page.ok,
                 !.pool = StagedPool(acc, acc.dir, source),
                 !.dir = Append(@, EMPTY),
                 !.staged = source :> keep @@ len :> moved @@ @,
                 !.pages = source :> Image(keep) @@ len :> Image(moved) @@ @]

(* plan_slot: the plan for a type's touched ids, over page cache p. *)
PlanSlot(t, ids, p) ==
    LET d == IF dir[t] = <<>> THEN <<EMPTY>> ELSE dir[t]
        start == [ok |-> TRUE, pool |-> p, buf |-> dict[t].buf, grew |-> FALSE,
                  staged |-> <<>>, cleared |-> {}, dir |-> d, pages |-> <<>>]
        touched == FoldLeft(LAMBDA acc, i : Touch(acc, d, t, i), start, ids)
        paged == [touched EXCEPT !.pages =
                     [b \in DOMAIN touched.staged |->
                         ToBytes(t, touched.staged[b], touched.buf, Types[t])]]
        split == FoldLeft(LAMBDA acc, n : SplitOnce(acc, t), paged,
                          [n \in 1 .. MaxSplits |-> n])
    IN  [t |-> t, ok |-> split.ok, pool |-> split.pool, buf |-> split.buf,
         dir |-> split.dir, pages |-> split.pages, cleared |-> split.cleared,
         dict |-> IF split.grew THEN <<DictImage(split.buf)>> ELSE <<>>]

(* settle's plans, one per type of the round, sharing the page cache. *)
PlansOf(touched) ==
    FoldLeft(LAMBDA plans, work :
                 Append(plans, PlanSlot(work.t, work.ids,
                     IF plans = <<>> THEN pool ELSE Last(plans).pool)),
             <<>>, touched)

-----------------------------------------------------------------------------
(* place_in. *)

(* targets_of: every page image in bucket order, then the dictionary, plan *)
(* by plan; a target is [plan, bucket, image], bucket -1 the dictionary.   *)
TargetsOf(plans) ==
    LET PagesOf(n) ==
            LET buckets == DOMAIN plans[n].pages IN
            [k \in 1 .. Cardinality(buckets) |->
                LET b == CHOOSE x \in buckets :
                             Cardinality({y \in buckets : y < x}) = k - 1
                IN  [plan |-> n, bucket |-> b, image |-> plans[n].pages[b]]]
        DictOf(n) ==
            IF plans[n].dict = <<>> THEN <<>>
            ELSE <<[plan |-> n, bucket |-> -1, image |-> plans[n].dict[1]]>>
    IN  FlattenSeq([n \in DOMAIN plans |-> PagesOf(n) \o DictOf(n)])

(* carve: one run after the other through the window. *)
Carve(window, sizes) ==
    [k \in DOMAIN sizes |->
        Run(window.start + FoldSeq(LAMBDA s, n : n + s, 0, SubSeq(sizes, 1, k - 1)),
            sizes[k])]

(* install: the new descriptors of a plan's directory. *)
Install(plan, n, targets, runs) ==
    [plan EXCEPT !.dir = [b \in DOMAIN @ |->
        LET here == {k \in DOMAIN targets :
                        targets[k].plan = n /\ targets[k].bucket = b - 1}
        IN  IF here = {} THEN @[b] ELSE runs[CHOOSE k \in here : TRUE]]]

(***************************************************************************)
(* The round's window: where everything goes, the plans with their new     *)
(* descriptors, the chunk, and what is superseded.  placement is best_fit  *)
(* or tail.                                                                *)
(***************************************************************************)
Placed(plans, placement) ==
    LET targets == TargetsOf(plans)
        full == WantsSnapshot
        prev == IF full THEN EMPTY ELSE MetaHead
        reserved == ChunkOf(plans, full, <<>>, prev)
        sizes == [k \in DOMAIN targets |-> BlocksFor(targets[k].image.units)]
                 \o <<BlocksFor(reserved.units)>>
        count == FoldSeq(LAMBDA s, n : n + s, 0, sizes)
        got == IF placement = "tail" THEN AllocTail(alloc, count) ELSE Alloc(alloc, count)
        runs == Carve(got.run, sizes)
        installed == [n \in DOMAIN plans |-> Install(plans[n], n, targets, runs)]
        dicts == {k \in DOMAIN targets : targets[k].bucket = -1}
        descs == [n \in {targets[k].plan : k \in dicts} |->
                     runs[CHOOSE k \in dicts : targets[k].plan = n]]
        chunk == ChunkOf(installed, full, descs, prev)
        images == [k \in DOMAIN runs |->
                      IF k \in DOMAIN targets THEN targets[k].image ELSE chunk]
        At(b) == CHOOSE k \in DOMAIN runs : b \in BlocksOf(runs[k])
    IN  [window |-> got.run, alloc |-> got.alloc, plans |-> installed,
         descs |-> descs, full |-> full, chunkRun |-> Last(runs),
         fits |-> chunk.units <= reserved.units,
         cells |-> [b \in BlocksOf(got.run) |->
                       Cell(images[At(b)], b - runs[At(b)].start)],
         freed |-> {plans[targets[k].plan].dir[targets[k].bucket + 1] :
                       k \in DOMAIN targets \ dicts} \ {EMPTY}]

(* The window write, the frees and the log's new head; the plans wait to   *)
(* be published.  Every write forgets the cached images it overlaps.  A    *)
(* page that did not open, or a chunk longer than its room, is Corrupt.    *)
PlaceWindow(plans, placement) ==
    \E put \in {Placed(plans, placement)} :
        /\ put.alloc.total <= MaxBlocks
        /\ file' = put.cells @@ file
        /\ pool' = Invalidate(Last(plans).pool, put.window)
        /\ alloc' = FreeAll(FreeAll(put.alloc, put.freed), Superseded(put.full))
        /\ meta' = Recorded(put.chunkRun, put.full)
        /\ round' = [on |-> TRUE, plans |-> put.plans, descs |-> put.descs]
        /\ mode' = IF put.fits /\ (\A n \in DOMAIN plans : plans[n].ok)
                   THEN mode ELSE "corrupt"

(* publish: dictionaries first, then tombstones and directories.  buf is   *)
(* the dictionary the plan left in RAM.                                    *)
Published(t, plans, descs, old) ==
    LET mine == {n \in DOMAIN plans : plans[n].t = t} IN
    IF mine = {} THEN old
    ELSE LET n == CHOOSE x \in mine : TRUE IN
         [dir |-> plans[n].dir,
          desc |-> IF n \in DOMAIN descs THEN descs[n] ELSE old.desc,
          dead |-> old.dead \ plans[n].cleared]

Slot(t) == [dir |-> dir[t], desc |-> dict[t].desc, dead |-> dead[t]]

-----------------------------------------------------------------------------
(* apply: note_touched keeps every mention of an id. *)
NoteTouched(queue, t, i) ==
    LET here == {k \in DOMAIN queue : queue[k].t = t} IN
    IF here = {} THEN Append(queue, [t |-> t, ids |-> <<i>>])
    ELSE [queue EXCEPT ![CHOOSE k \in here : TRUE].ids = Append(@, i)]

(* commit_to_caches for a batch of one write. *)
CommitToCaches(t, i, bytes) ==
    IF bytes = Absent
    THEN /\ cache' = [cache EXCEPT ![t] = [j \in DOMAIN @ \ {i} |-> @[j]]]
         /\ dead' = [dead EXCEPT ![t] = @ \cup {i}]
    ELSE /\ cache' = [cache EXCEPT ![t] = i :> bytes @@ @]
         /\ dead' = [dead EXCEPT ![t] = @ \ {i}]

Apply ==
    /\ mode = "up"
    /\ counts.writes < setup.writes
    /\ counts' = [counts EXCEPT !.writes = @ + 1]
    /\ \E i \in setup.ids, size \in setup.sizes \cup {0} :
           LET t == TypeOf(i)
               bytes == IF size = 0 THEN Absent ELSE <<counts.writes + 1, size>>
           IN  /\ size = 0 => latest[i] # Absent
               /\ CommitToCaches(t, i, bytes)
               /\ pending' = NoteTouched(pending, t, i)
               /\ journal' = Append(journal, [t |-> t, id |-> i, bytes |-> bytes])
               /\ latest' = [latest EXCEPT ![i] = bytes]
               /\ reader' = IF reader.pc # "idle" /\ reader.id = i
                            THEN [reader EXCEPT !.seen = @ \cup {bytes}] ELSE reader
    /\ UNCHANGED <<file, pool, alloc, dir, dict, meta, round, root, replay, mode, lost, setup>>

(* take_round: from the end of the queue, whole types while they fit, then *)
(* the end of one more.                                                    *)
TakeRound(budget) ==
    LET take[n \in 0 .. Len(pending)] ==
            IF n = 0 THEN [round |-> <<>>, queue |-> pending, room |-> budget]
            ELSE LET was == take[n - 1]
                     work == Last(was.queue)
                     keep == Len(work.ids) - was.room
                 IN  IF was.room = 0 THEN was
                     ELSE IF keep <= 0
                     THEN [round |-> Append(was.round, work),
                           queue |-> Front(was.queue), room |-> -keep]
                     ELSE [round |-> Append(was.round,
                               [work EXCEPT !.ids = SubSeq(@, keep + 1, Len(@))]),
                           queue |-> Front(was.queue) \o
                               <<[work EXCEPT !.ids = SubSeq(@, 1, keep)]>>,
                           room |-> 0]
    IN  IF budget = 0 THEN [round |-> pending, queue |-> <<>>, room |-> 0]
        ELSE take[Len(pending)]

(* Mutant: the failed round is dropped. *)
RequeueNothing(queue, work) == queue

(* requeue *)
Requeue(queue, work) ==
    FoldLeft(LAMBDA q, w : FoldLeft(LAMBDA p, i : NoteTouched(p, w.t, i), q, w.ids),
             queue, work)

(* The dictionaries a plan leaves in RAM, whatever comes of the round. *)
Warmed(plans) ==
    [t \in DOMAIN Types |->
        LET mine == {n \in DOMAIN plans : plans[n].t = t} IN
        IF mine = {} THEN dict[t]
        ELSE [dict[t] EXCEPT !.buf = plans[CHOOSE n \in mine : TRUE].buf]]

Idle == mode = "up" /\ ~round.on

(* settle_step up to its publish; budget 0 stands for usize::MAX (drain,   *)
(* and the settle of a batch re-applied by opening).                       *)
SettleStep ==
    /\ Idle \/ (mode = "opening" /\ ~round.on)
    /\ pending # <<>>
    /\ \E budget \in setup.budgets : \E taken \in {TakeRound(budget)} :
       \E plans \in {PlansOf(taken.round)} :
           /\ pending' = taken.queue
           /\ dict' = Warmed(plans)
           /\ PlaceWindow(plans, "best_fit")
    /\ UNCHANGED <<cache, dead, dir, reader, root, journal, replay, latest, lost,
                   setup, counts>>

(* The window write fails: the window stays allocated, and the round goes  *)
(* back on the queue.                                                      *)
SettleStepFails ==
    /\ Idle
    /\ pending # <<>>
    /\ counts.failures < setup.failures
    /\ \E budget \in setup.budgets : \E taken \in {TakeRound(budget)} :
       \E plans \in {PlansOf(taken.round)} : \E put \in {Placed(plans, "best_fit")} :
           /\ put.alloc.total <= MaxBlocks
           /\ pending' = Requeue(taken.queue, taken.round)
           /\ dict' = Warmed(plans)
           /\ alloc' = put.alloc
           /\ file' = [b \in BlocksOf(put.window) |-> Zero] @@ file
           /\ pool' = Invalidate(Last(plans).pool, put.window)
           /\ lost' = lost \cup {put.window}
           /\ WarmFailures \/ \A n \in DOMAIN plans : plans[n].dict = <<>>
    /\ counts' = [counts EXCEPT !.failures = @ + 1]
    /\ UNCHANGED <<cache, dead, dir, meta, round, reader, root, journal, replay,
                   mode, latest, setup>>

(* The directories' and dictionaries' new descriptors.  A reader that has  *)
(* a directory locked is waited for; the superseded dictionary is freed.   *)
Publish ==
    /\ mode # "corrupt"
    /\ round.on
    /\ \A n \in DOMAIN round.plans :
           reader.pc = "loaded" => reader.t # round.plans[n].t
    /\ \E new \in {[t \in DOMAIN Types |->
                        Published(t, round.plans, round.descs, Slot(t))]} :
           /\ dir' = [t \in DOMAIN Types |-> new[t].dir]
           /\ dead' = [t \in DOMAIN Types |-> new[t].dead]
           /\ dict' = [t \in DOMAIN Types |-> [dict[t] EXCEPT !.desc = new[t].desc]]
           /\ alloc' = FreeAll(alloc, {dict[t].desc : t \in
                  {u \in DOMAIN Types : new[u].desc # dict[u].desc}} \ {EMPTY})
    /\ round' = NoRound
    /\ UNCHANGED <<file, pool, cache, pending, meta, reader, root, journal, replay,
                   mode, latest, lost, setup, counts>>

(* evict_settled: only while nothing is pending; types and ids from the    *)
(* first (ids are numbered in the order of their types), to any budget.    *)
Evict ==
    /\ Idle
    /\ pending = <<>>
    /\ \E cut \in AllIds \cup {1 + Max(AllIds)} :
           cache' = [t \in DOMAIN Types |-> Restrict2(cache[t], {i \in AllIds : i >= cut})]
    /\ cache' # cache
    /\ UNCHANGED <<file, pool, alloc, dead, dir, dict, pending, meta, round, reader,
                   root, journal, replay, mode, latest, lost, setup, counts>>

-----------------------------------------------------------------------------
(* The pages whose departure would join at least as much free space as     *)
(* they take, except the last before the end of the file.                  *)
Candidates ==
    {c \in UNION {{t} \X (0 .. Len(dir[t]) - 1) : t \in DOMAIN Types} :
        LET run == dir[c[1]][c[2] + 1]
            around == FreeNeighbours(alloc, run)
        IN  /\ IsAllocated(run)
            /\ around.before + run.count + around.after >= 2 * run.count
            /\ End(run) + around.after # alloc.total}

(* A page goes before another when it frees more per block moved, and in   *)
(* the order of types and buckets otherwise.                               *)
Sooner(c, d) ==
    LET Of(x) == dir[x[1]][x[2] + 1]
        Gain(x) == LET around == FreeNeighbours(alloc, Of(x))
                   IN  around.before + Of(x).count + around.after
        left == Gain(c) * Of(d).count
        right == Gain(d) * Of(c).count
    IN  \/ left > right
        \/ left = right /\ (c[1] < d[1] \/ (c[1] = d[1] /\ c[2] < d[2]))

(* The candidates within the budget, most rewarding first; the first that  *)
(* does not fit ends the pass.                                             *)
Chosen(budget) ==
    {c \in Candidates :
        MapThenSumSet(LAMBDA x : dir[x[1]][x[2] + 1].count,
                      {d \in Candidates : d = c \/ Sooner(d, c)}) <= budget}

(* SlotPlan::verbatim with the stored bytes. *)
Verbatim(t, buckets) ==
    [t |-> t, ok |-> TRUE, pool |-> pool, buf |-> dict[t].buf, dir |-> dir[t],
     pages |-> [b \in buckets |-> ImageIn(CellsOf(dir[t][b + 1]))],
     cleared |-> {}, dict |-> <<>>]

(* defragment *)
Defragment ==
    /\ Idle
    /\ counts.moves < setup.moves
    /\ counts' = [counts EXCEPT !.moves = @ + 1]
    /\ \E budget \in 1 .. MaxBlocks : \E chosen \in {Chosen(budget)} :
           LET types == {c[1] : c \in chosen}
               order == [n \in 1 .. Cardinality(types) |->
                           CHOOSE t \in types :
                               Cardinality({u \in types : u < t}) = n - 1]
           IN  /\ chosen # {}
               /\ PlaceWindow([n \in DOMAIN order |->
                      Verbatim(order[n], {c[2] : c \in {d \in chosen : d[1] = order[n]}})],
                      "tail")
    /\ UNCHANGED <<cache, dead, dir, dict, pending, reader, root, journal, replay,
                   latest, lost, setup>>

-----------------------------------------------------------------------------
(* Every run the directories, the dictionaries and the log name. *)
Used ==
    {d \in UNION {Range(dir[t]) \cup {dict[t].desc} : t \in DOMAIN Types} :
        IsAllocated(d)} \cup MetaRuns

(* commit_journal, its drain done: the pages become the recovery root, the *)
(* generation before the last is released.                                 *)
Checkpoint ==
    /\ Idle
    /\ pending = <<>>
    /\ journal # <<>>
    /\ alloc' = Protecting(IF root = <<>> THEN alloc ELSE WithoutPrevious(alloc),
                             Used \cup {Superblock})
    /\ root' = <<MetaHead>>
    /\ journal' = <<>>
    /\ UNCHANGED <<file, pool, cache, dead, dir, dict, pending, meta, round, reader,
                   replay, mode, latest, lost, setup, counts>>

-----------------------------------------------------------------------------
NoPages == [t \in DOMAIN Types |-> <<>>]

NoDicts == [t \in DOMAIN Types |-> [buf |-> <<>>, desc |-> EMPTY]]

(* walk: the chunks behind a head, oldest first. *)
Walk(head) ==
    LET back[n \in 0 .. MaxEditChunks + 1] ==
            IF n = 0 THEN <<head>>
            ELSE LET was == back[n - 1] IN
                 IF ~IsAllocated(was[1]) THEN was
                 ELSE LET chunk == ImageIn(CellsOf(was[1])) IN
                      IF chunk.kind = "chunk" THEN <<chunk.prev>> \o was ELSE was
    IN  back[MaxEditChunks + 1]

(* Mutant: a bucket the chunk does not name is forgotten. *)
ReplayChunkAnew(state, chunk) ==
    [t \in DOMAIN Types |->
        LET mine == {e \in chunk.edits : e.t = t} IN
        IF mine = {} THEN state[t]
        ELSE LET e == CHOOSE x \in mine : TRUE IN
             [slots |-> [b \in 1 .. e.buckets |->
                  IF b - 1 \in DOMAIN e.changed THEN e.changed[b - 1]
                  ELSE EMPTY],
              dict |-> IF e.dict = <<>> THEN state[t].dict ELSE e.dict[1]]]

(* Replay::apply: grow the directory, then overwrite what changed. *)
ReplayChunk(state, chunk) ==
    [t \in DOMAIN Types |->
        LET mine == {e \in chunk.edits : e.t = t} IN
        IF mine = {} THEN state[t]
        ELSE LET e == CHOOSE x \in mine : TRUE IN
             [slots |-> [b \in 1 .. Max({e.buckets, Len(state[t].slots)}) |->
                  IF b - 1 \in DOMAIN e.changed THEN e.changed[b - 1]
                  ELSE IF b \in DOMAIN state[t].slots THEN state[t].slots[b]
                  ELSE EMPTY],
              dict |-> IF e.dict = <<>> THEN state[t].dict ELSE e.dict[1]]]

(* load_commit: what the newest Commit frame leads to. *)
Loaded(head) ==
    LET chain == Walk(head)
        chunks == Tail(chain)
        none == [t \in DOMAIN Types |-> [slots |-> <<>>, dict |-> EMPTY]]
        state == FoldLeft(LAMBDA acc, d : ReplayChunk(acc, ImageIn(CellsOf(d))),
                          none, chunks)
        Dict(t) == ImageIn(CellsOf(state[t].dict))
        dicts == {t \in DOMAIN Types : IsAllocated(state[t].dict)}
    IN  [ok |-> ~IsAllocated(Head(chain)) /\ \A t \in dicts : Dict(t).kind = "dict",
         dir |-> [t \in DOMAIN Types |-> state[t].slots],
         dict |-> [t \in DOMAIN Types |->
                      [buf |-> IF t \in dicts THEN Dict(t).buf ELSE <<>>,
                       desc |-> state[t].dict]],
         meta |-> IF chunks = <<>> THEN [snapshot |-> EMPTY, edits |-> <<>>]
                  ELSE [snapshot |-> Head(chunks), edits |-> Tail(chunks)],
         used |-> {d \in Range(chunks)
                          \cup UNION {Range(state[t].slots) \cup {state[t].dict} :
                                         t \in DOMAIN Types} : IsAllocated(d)}
                  \cup {Superblock}]

(* fresh_alloc *)
FreshAlloc == Alloc(NewAllocator, 1).alloc

(* The process ends at any moment and opens the store again. *)
Restart ==
    /\ mode # "corrupt"
    /\ counts.restarts < setup.restarts
    /\ counts' = [counts EXCEPT !.restarts = @ + 1]
    /\ \E found \in {Loaded(IF root = <<>> THEN EMPTY ELSE root[1])} :
           /\ mode' = IF found.ok THEN "opening" ELSE "corrupt"
           /\ dir' = found.dir
           /\ dict' = found.dict
           /\ meta' = found.meta
           /\ alloc' = IF root = <<>> THEN FreshAlloc
                       ELSE Protecting(FromLayout(alloc.total, found.used), found.used)
    /\ replay' = journal
    /\ pool' = EmptyCache
    /\ cache' = NoPages
    /\ dead' = [t \in DOMAIN Types |-> {}]
    /\ pending' = <<>>
    /\ round' = NoRound
    /\ reader' = Resting
    /\ lost' = {}
    /\ file' = IF root = <<>> THEN [b \in 0 .. MaxBlocks |-> Zero] ELSE file
    /\ UNCHANGED <<root, journal, latest, setup>>

(* Opening re-applies the uncovered batches, each settled on its own, *)
ReplayBatch ==
    /\ mode = "opening"
    /\ ~round.on /\ pending = <<>> /\ replay # <<>>
    /\ LET w == Head(replay) IN
           /\ CommitToCaches(w.t, w.id, w.bytes)
           /\ pending' = <<[t |-> w.t, ids |-> <<w.id>>]>>
    /\ replay' = Tail(replay)
    /\ UNCHANGED <<file, pool, alloc, dir, dict, meta, round, reader, root, journal,
                   mode, latest, lost, setup, counts>>

(* and then serves. *)
OpenDone ==
    /\ mode = "opening"
    /\ ~round.on /\ pending = <<>> /\ replay = <<>>
    /\ mode' = "up"
    /\ UNCHANGED <<file, ram, reader, root, journal, replay, latest, lost, setup, counts>>

-----------------------------------------------------------------------------
(* Another thread in read_of.  It misses the cache, *)
ReadCache ==
    /\ mode = "up"
    /\ reader.pc = "idle"
    /\ counts.reads = 0
    /\ counts' = [counts EXCEPT !.reads = @ + 1]
    /\ \E i \in setup.reads :
           LET t == TypeOf(i) IN
           /\ i \notin DOMAIN cache[t]
           /\ reader' = [Resting EXCEPT !.pc = "missed", !.t = t, !.id = i,
                              !.seen = {latest[i]}, !.removed = i \in dead[t]]
    /\ UNCHANGED <<file, ram, root, journal, replay, mode, latest, lost, setup>>

Answer(bytes) == [reader EXCEPT !.pc = "done", !.got = bytes, !.cells = <<>>]

(* looks for a tombstone, *)
ReadTombstone ==
    /\ mode = "up"
    /\ reader.pc = "missed"
    /\ reader' = IF reader.id \in dead[reader.t] THEN Answer(Absent)
                 ELSE [reader EXCEPT !.pc = "alive"]
    /\ UNCHANGED <<file, ram, root, journal, replay, mode, latest, lost, setup, counts>>

(* The record in some cells, or that they are no page of the type. *)
RecordIn(cells, t, i) ==
    LET image == ImageIn(cells) IN
    IF Opens(image, t, dict[t].buf) THEN Lookup(image.records, i) ELSE <<-1, 0>>

(* then, with the directory locked, finds its page in the page cache or    *)
(* reads it from the file,                                                 *)
ReadPage ==
    /\ mode = "up"
    /\ reader.pc = "alive"
    /\ LET d == dir[reader.t]
           run == d[BucketOf(d, reader.id) + 1]
       IN  reader' = IF d = <<>> \/ ~IsAllocated(run) THEN Answer(Absent)
                     ELSE IF Holds(pool, run)
                     THEN Answer(RecordIn(pool.pages[run.start].cells,
                                          reader.t, reader.id))
                     ELSE [reader EXCEPT !.pc = "loaded", !.run = run,
                                         !.cells = CellsOf(run)]
    /\ UNCHANGED <<file, ram, root, journal, replay, mode, latest, lost, setup, counts>>

(* in which case it caches the image, *)
ReadInsert ==
    /\ mode = "up"
    /\ reader.pc = "loaded"
    /\ pool' = Insert(pool, reader.run, reader.cells, CacheBudget)
    /\ reader' = Answer(RecordIn(reader.cells, reader.t, reader.id))
    /\ UNCHANGED <<file, alloc, cache, dead, dir, dict, pending, meta, round, root,
                   journal, replay, mode, latest, lost, setup, counts>>

(* and returns. *)
ReadDone ==
    /\ reader.pc = "done"
    /\ reader' = Resting
    /\ UNCHANGED <<file, ram, root, journal, replay, mode, latest, lost, setup, counts>>

-----------------------------------------------------------------------------
(* open_with on an empty directory. *)
BucketInit ==
    /\ file = [b \in 0 .. MaxBlocks |-> Zero]
    /\ pool = EmptyCache
    /\ alloc = FreshAlloc
    /\ cache = NoPages
    /\ dead = [t \in DOMAIN Types |-> {}]
    /\ dir = NoPages
    /\ dict = NoDicts
    /\ pending = <<>>
    /\ meta = [snapshot |-> EMPTY, edits |-> <<>>]
    /\ round = NoRound
    /\ reader = Resting
    /\ root = <<>>
    /\ journal = <<>>
    /\ replay = <<>>
    /\ mode = "up"
    /\ latest = [i \in AllIds |-> Absent]
    /\ lost = {}
    /\ setup \in Setups
    /\ counts = [writes |-> 0, failures |-> 0, reads |-> 0, moves |-> 0, restarts |-> 0]

BucketNext ==
    \/ Apply \/ SettleStep \/ SettleStepFails \/ Publish
    \/ Evict \/ Defragment \/ Checkpoint
    \/ Restart \/ ReplayBatch \/ OpenDone
    \/ ReadCache \/ ReadTombstone \/ ReadPage \/ ReadInsert \/ ReadDone

BucketSpec == BucketInit /\ [][BucketNext]_bucketVars

-----------------------------------------------------------------------------
(***************************************************************************)
(* A read returns the newest bytes committed, whichever of the cache, the  *)
(* tombstones, the page cache and the page serves it, in every state a     *)
(* settle, split, eviction, relocation, failed write or restart can leave  *)
(* (read_of, Directory::get_record).                                       *)
(***************************************************************************)
ReadsLatest == mode = "up" => \A i \in AllIds : Visible(i) = latest[i]

(***************************************************************************)
(* A read by another thread, which takes its three locks one after the     *)
(* other, returns bytes the id had at some moment since the read began,    *)
(* unless it began on a removed record whose removal had not settled       *)
(* (read_of, read_from_pages, publish).                                    *)
(***************************************************************************)
ReadsAreFresh ==
    reader.pc = "done" /\ ~reader.removed => reader.got \in reader.seen

(***************************************************************************)
(* "A hit needs no validation" (directory_pages.rs): whatever the page     *)
(* cache holds for a run is what the file holds there, although runs are   *)
(* freed, carved anew and rewritten under it, and although a reader caches *)
(* an image some time after it read it (write_run, read_run_shared).       *)
(***************************************************************************)
CacheCoherent ==
    \A s \in DOMAIN pool.pages :
        pool.pages[s].cells = CellsOf(Run(s, pool.pages[s].count))

(***************************************************************************)
(* The page cache keeps within its budget, counts exactly what it holds,   *)
(* and can evict everything it holds (insert, drop_at).                    *)
(***************************************************************************)
CacheWithinBudget ==
    /\ pool.blocks <= CacheBudget
    /\ pool.blocks = MapThenSumSet(LAMBDA s : Len(pool.pages[s].cells),
                                   DOMAIN pool.pages)
    /\ DOMAIN pool.pages \subseteq Range(pool.fifo)

(***************************************************************************)
(* What a caller reads is what was committed: the two properties of reads  *)
(* with those of the page cache they go through.                           *)
(***************************************************************************)
ReadsExact == ReadsLatest /\ ReadsAreFresh /\ CacheCoherent /\ CacheWithinBudget

(***************************************************************************)
(* Every record on a settled page lies in the bucket its hash routes to    *)
(* under the directory's present length, so no older copy of it is left in *)
(* the bucket it was split from (plan_splits, bucket_index).               *)
(***************************************************************************)
RecordsInTheirBucket ==
    \A t \in DOMAIN Types : \A b \in 0 .. Len(dir[t]) - 1 :
        \A i \in DOMAIN PageIn(dir[t], b, t, dict[t].buf, pool).records :
            BucketOf(dir[t], i) = b

Disjoint(runs) ==
    \A r, o \in runs : r # o /\ r.start <= o.start => End(r) <= o.start

(***************************************************************************)
(* Between rounds every block of the file has exactly one owner: the       *)
(* superblock, a page, a dictionary, a chunk of the addressing log, a free *)
(* extent, a deferred free or the window of a failed write; and two free   *)
(* extents never touch (place_in, publish, alloc, free).                   *)
(***************************************************************************)
EveryBlockHasOneOwner ==
    ~round.on => \A owned \in
            {{Superblock} \cup Used \cup alloc.holes \cup alloc.pending \cup lost} :
        /\ Disjoint(owned)
        /\ BlocksOfAll(owned) = 0 .. alloc.total - 1
        /\ \A h, o \in alloc.holes : End(h) # o.start

(***************************************************************************)
(* A block that either generation protects is never free, and the single   *)
(* probe of covers answers, for every run in use, free or waiting to be    *)
(* freed, exactly whether it shares a block with the generation (covers,   *)
(* set_protected).                                                         *)
(***************************************************************************)
ProtectionIsExact ==
    \A gen \in {alloc.protected, alloc.previous} : \A held \in {BlocksOfAll(gen)} :
        /\ \A h \in alloc.holes : BlocksOf(h) \cap held = {}
        /\ \A r \in Used \cup alloc.holes \cup alloc.pending :
               Covers(gen, r) <=> \E b \in BlocksOf(r) : b \in held

(***************************************************************************)
(* Space is accounted for: one owner for every block, and protection that  *)
(* answers exactly.                                                        *)
(***************************************************************************)
SpaceExact == EveryBlockHasOneOwner /\ ProtectionIsExact

(* The bytes a restart would find for an id: the newest batch not covered, *)
(* or the page the root leads to, opened with the root's dictionary.       *)
Recovers(i, found) ==
    LET t == TypeOf(i)
        mine == {n \in DOMAIN journal : journal[n].id = i}
        d == found.dir[t]
        page == PageIn(d, BucketOf(d, i), t, found.dict[t].buf, EmptyCache)
    IN  IF mine # {} THEN journal[Max(mine)].bytes
        ELSE IF d = <<>> THEN Absent
        ELSE IF page.ok THEN Lookup(page.records, i) ELSE <<-1, 0>>

(***************************************************************************)
(* What the newest checkpoint leads to, with the batches since, is exactly *)
(* what was committed: its chunks replay to directories whose pages are    *)
(* still in place and open with the dictionaries the same chunks name      *)
(* (load_commit, Replay::apply, DictState::load).                          *)
(***************************************************************************)
RootRecovers ==
    mode = "up" =>
        \E found \in {Loaded(IF root = <<>> THEN EMPTY ELSE root[1])} :
            found.ok /\ \A i \in AllIds : Recovers(i, found) = latest[i]

(***************************************************************************)
(* The defragmenter moves pages forward: what it moves lands after every   *)
(* page, dictionary and chunk it leaves in place, never back in a hole     *)
(* between them (defragment, alloc_tail).                                  *)
(***************************************************************************)
RelocatesForward ==
    [][counts'.moves > counts.moves =>
          \A n \in DOMAIN round'.plans :
              \A b \in DOMAIN round'.plans[n].pages :
                  \A r \in Used : End(r) <= round'.plans[n].dir[b + 1].start]_bucketVars
=============================================================================
