-------------------------- MODULE CheckpointRoots --------------------------
(***************************************************************************)
(* The checkpoint protocol of the page engine, seen from the blocks of     *)
(* data.bin: which blocks a recovery root names, which blocks the          *)
(* allocator holds back for it, and which Commit frames a crash may leave  *)
(* as the root the store reopens from.                                     *)
(*                                                                         *)
(* A root is a Commit frame together with everything it reaches (pages,    *)
(* dictionaries, addressing chunks), modelled as the function from the     *)
(* blocks it names to what they held when the frame was written.  Records, *)
(* batches and the shape of a window are abstracted away; PageStore.tla    *)
(* has them and refines this module.                                       *)
(***************************************************************************)
EXTENDS Naturals

CONSTANTS Blocks,     \* the block array of data.bin, unallocated tail included
          Values,     \* what a block can hold
          MaxSyncs,   \* bound on the barriers one journal takes
          MaxFailures \* bound on the failures that count (see Harm)

ASSUME BoundsAssumption == MaxSyncs \in Nat /\ MaxFailures \in Nat

VARIABLES
    image,      \* what each block of data.bin holds, page cache included
    dirty,      \* blocks written since data.bin was last synced
    live,       \* blocks the directories, dictionaries and chain in RAM name
    free,       \* blocks the allocator can hand out (holes and tail)
    deferred,   \* BlockAllocator.pending: frees held back by protection
    protected,  \* BlockAllocator.protected: the newest checkpoint's blocks
    previous,   \* BlockAllocator.previous: those of the checkpoint before it
    durable,    \* the newest root whose frame is on the platter
    newest,     \* the newest root whose frame was written, synced or not
    stranded,   \* roots written between those two, unsynced
    inCurrent,  \* whether newest's frame is in the current journal, unsynced
    syncs,      \* Journal.syncs of the current journal
    retiring,   \* PageStore.retiring: a pending retirement, if any
    claimed,    \* commit_journal's local `pending`
    carrier,    \* Journal.syncs of commit_journal's local `old`
    pc,         \* how far commit_journal is
    failures    \* history: how many failures of the kinds Harm names

space == <<live, free, deferred, protected, previous>>
disk == <<image, dirty>>
frames == <<durable, newest, stranded, inCurrent>>
locals == <<claimed, carrier>>
vars == <<space, disk, frames, syncs, retiring, locals, pc, failures>>

(* The roots over a set of blocks. *)
RootsOn(blocks) == UNION {[S -> Values] : S \in SUBSET blocks}

NoRoot == [b \in {} |-> b]

NoRetiring == [on |-> FALSE, barrier |-> 0]

Steps == {"idle", "claimed", "rotated", "retired", "protected", "synced"}

(***************************************************************************)
(* Roots a power loss may reopen from: the newest durable frame, or any    *)
(* newer one whose unsynced bytes happened to reach the platter.           *)
(***************************************************************************)
Reachable == {durable, newest} \cup stranded

(* The protocol's state keeps its types, for any blocks, contents and number *)
(* of barriers (PageStore, BlockAllocator, Journal).                        *)
TypeOK ==
    /\ image \in [Blocks -> Values]
    /\ dirty \subseteq Blocks
    /\ live \subseteq Blocks
    /\ free \subseteq Blocks
    /\ deferred \subseteq Blocks
    /\ protected \subseteq Blocks
    /\ previous \subseteq Blocks
    /\ durable \in RootsOn(Blocks)
    /\ newest \in RootsOn(Blocks)
    /\ stranded \subseteq RootsOn(Blocks)
    /\ inCurrent \in BOOLEAN
    /\ syncs \in Nat
    /\ retiring \in [on : BOOLEAN, barrier : Nat]
    /\ claimed \in [on : BOOLEAN, barrier : Nat]
    /\ carrier \in Nat
    /\ pc \in Steps
    /\ failures \in Nat

(* restore on an empty directory: fresh_alloc, no root, a first journal. *)
Init ==
    /\ image \in [Blocks -> Values]
    /\ dirty = {}
    /\ live = {}
    /\ free = Blocks
    /\ deferred = {}
    /\ protected = {}
    /\ previous = {}
    /\ durable = NoRoot
    /\ newest = NoRoot
    /\ stranded = {}
    /\ inCurrent = FALSE
    /\ syncs = 0
    /\ retiring = NoRetiring
    /\ claimed = NoRetiring
    /\ carrier = 0
    /\ pc = "idle"
    /\ failures = 0

(***************************************************************************)
(* A failure that the protocol does not survive, counted: the new journal  *)
(* cannot be created while a retirement is pending, the carrier of a       *)
(* pending frame cannot be synced, data.bin cannot be synced, the Commit   *)
(* frame cannot be appended, or the process dies while its newest frame is *)
(* only in the page cache.                                                 *)
(*                                                                         *)
(* A power loss at any point, a failed window write, a failed drain, a     *)
(* failed unlink, a failed rotation with nothing pending, and the death of *)
(* a process whose newest frame is durable are not counted.                *)
(***************************************************************************)
Harm ==
    /\ failures < MaxFailures
    /\ failures' = failures + 1

-----------------------------------------------------------------------------
(* The allocator, one operator per method that changes it. *)

(* Mutant: a deferred free that was granted is offered again. *)
RetryPendingKeeps(new, old) ==
    /\ deferred' = deferred
    /\ free' = free \cup (deferred \ (new \cup old))

(* retry_pending under the two given generations: what neither protects    *)
(* returns to the pool, the rest stays deferred.                           *)
RetryPending(new, old) ==
    /\ deferred' = deferred \cap (new \cup old)
    /\ free' = free \cup (deferred \ (new \cup old))

(* set_protected: install the newest generation, keep the one before it.   *)
SetProtected(runs) ==
    /\ protected' = runs
    /\ previous' = protected
    /\ RetryPending(runs, protected)

(* release_previous: the older generation cannot be a root any more. *)
ReleasePrevious ==
    /\ previous' = {}
    /\ protected' = protected
    /\ RetryPending(protected, {})

(* alloc of window W, then free of the superseded runs F. *)
AllocAndFree(W, F) ==
    LET held == F \cap (protected \cup previous) IN
    /\ free' = (free \ W) \cup (F \ held)
    /\ deferred' = deferred \cup held
    /\ UNCHANGED <<protected, previous>>

-----------------------------------------------------------------------------
(* The blocks of W come to hold something else. *)
Scramble(W) ==
    image' \in {f \in [Blocks -> Values] : \A b \in Blocks \ W : f[b] = image[b]}

(* One positioned write of window W; it stays in the page cache. *)
WriteRun(W) ==
    /\ Scramble(W)
    /\ dirty' = dirty \cup W

(* place_in, for a settle round or a relocation: carve a window, write it, *)
(* free what it supersedes, publish, after which the window is live.       *)
(* Rounds run one at a time, between checkpoints or inside a checkpoint's  *)
(* drain.                                                                  *)
PlaceIn ==
    /\ pc \in {"idle", "retired"}
    /\ live' \in SUBSET (live \cup free)
    /\ live' \ live # {}
    /\ WriteRun(live' \ live)
    /\ AllocAndFree(live' \ live, live \ live')
    /\ UNCHANGED <<frames, syncs, retiring, locals, pc, failures>>

(* place_in when the window write fails: the window stays allocated, its   *)
(* blocks hold whatever part of it was written, nothing is published and a *)
(* checkpoint's drain fails with it.                                       *)
PlaceInFails ==
    /\ pc \in {"idle", "retired"}
    /\ pc' = "idle"
    /\ free' \in SUBSET free
    /\ free' # free
    /\ WriteRun(free \ free')
    /\ AllocAndFree(free \ free', {})
    /\ UNCHANGED <<live, frames, syncs, retiring, locals, failures>>

(* An fsync of the journal that carries the newest frame. *)
NewestBecomesDurable ==
    /\ durable' = newest
    /\ stranded' = {}
    /\ inCurrent' = FALSE
    /\ UNCHANGED newest

(* Journal::sync on the current journal: it carries a deferred frame too. *)
SyncCurrent ==
    /\ syncs' = syncs + 1
    /\ IF inCurrent THEN NewestBecomesDurable ELSE UNCHANGED frames

(* A barrier taken by an append, by a flush, or because the durability     *)
(* window elapsed.                                                         *)
Barrier ==
    /\ syncs < MaxSyncs
    /\ SyncCurrent
    /\ UNCHANGED <<space, disk, retiring, locals, pc, failures>>

-----------------------------------------------------------------------------
(* commit_journal, step by step. *)

(* Step 0: claim the previous checkpoint's retirement. *)
Claim ==
    /\ pc = "idle"
    /\ claimed' = retiring
    /\ retiring' = NoRetiring
    /\ pc' = "claimed"
    /\ UNCHANGED <<space, disk, frames, syncs, carrier, failures>>

(* Step 1: rotate.  The frame the old journal carries is now out of reach  *)
(* of the barriers ordinary appends take.                                  *)
Rotate ==
    /\ pc = "claimed"
    /\ carrier' = syncs
    /\ syncs' = 0
    /\ inCurrent' = FALSE
    /\ pc' = "rotated"
    /\ UNCHANGED <<space, disk, durable, newest, stranded, retiring, claimed, failures>>

RotateFails ==
    /\ pc = "claimed"
    /\ IF claimed.on THEN Harm ELSE UNCHANGED failures
    /\ claimed' = NoRetiring
    /\ pc' = "idle"
    /\ UNCHANGED <<space, disk, frames, syncs, retiring, carrier>>

(* Step 2: retire_previous.  The carrier is synced unless a barrier was    *)
(* taken on it since the frame; dispose then releases the older generation *)
(* and unlinks the retired journal, whose failure ends the checkpoint.     *)
RetirePrevious ==
    /\ pc = "rotated"
    /\ IF claimed.on
       THEN /\ IF carrier <= claimed.barrier
               THEN NewestBecomesDurable
               ELSE UNCHANGED frames
            /\ ReleasePrevious
            /\ pc' \in {"retired", "idle"}
       ELSE /\ UNCHANGED <<space, frames>>
            /\ pc' = "retired"
    /\ claimed' = NoRetiring
    /\ carrier' = 0
    /\ UNCHANGED <<disk, live, syncs, retiring, failures>>

RetireSyncFails ==
    /\ pc = "rotated"
    /\ claimed.on
    /\ carrier <= claimed.barrier
    /\ Harm
    /\ claimed' = NoRetiring
    /\ carrier' = 0
    /\ pc' = "idle"
    /\ UNCHANGED <<space, disk, frames, syncs, retiring>>

(* Step 3 is PlaceIn at "retired".  Then protect what the frame will name, *)
(* under the allocator guard, which is held to the end.                    *)
Protect ==
    /\ pc = "retired"
    /\ SetProtected(live)
    /\ pc' = "protected"
    /\ UNCHANGED <<live, disk, frames, syncs, retiring, locals, failures>>

SyncData ==
    /\ pc = "protected"
    /\ dirty' = {}
    /\ pc' = "synced"
    /\ UNCHANGED <<space, image, frames, syncs, retiring, locals, failures>>

SyncDataFails ==
    /\ pc = "protected"
    /\ Harm
    /\ pc' = "idle"
    /\ UNCHANGED <<space, disk, frames, syncs, retiring, locals>>

(* Mutant: the frame goes out before data.bin is synced. *)
AppendCommitUnsynced ==
    /\ pc = "protected"
    /\ newest' = [b \in live |-> image[b]]
    /\ stranded' = (stranded \cup {newest}) \ {durable}
    /\ inCurrent' = TRUE
    /\ retiring' = [on |-> TRUE, barrier |-> syncs]
    /\ pc' = "idle"
    /\ UNCHANGED <<space, disk, durable, syncs, locals, failures>>

(* Steps 4 and 5: append the frame without a barrier and record the        *)
(* pending retirement with the barrier count read under the same guard.    *)
AppendCommit ==
    /\ pc = "synced"
    /\ newest' = [b \in live |-> image[b]]
    /\ stranded' = (stranded \cup {newest}) \ {durable}
    /\ inCurrent' = TRUE
    /\ retiring' = [on |-> TRUE, barrier |-> syncs]
    /\ pc' = "idle"
    /\ UNCHANGED <<space, disk, durable, syncs, locals, failures>>

AppendCommitFails ==
    /\ pc = "synced"
    /\ Harm
    /\ pc' = "idle"
    /\ UNCHANGED <<space, disk, frames, syncs, retiring, locals>>

(* Mutant: the generation is released without the barrier. *)
ForceRetirementUnsynced ==
    /\ pc = "idle"
    /\ retiring.on
    /\ ReleasePrevious
    /\ retiring' = NoRetiring
    /\ UNCHANGED <<live, disk, frames, syncs, locals, pc, failures>>

(* force_retirement, at a graceful shutdown. *)
ForceRetirement ==
    /\ pc = "idle"
    /\ retiring.on
    /\ syncs < MaxSyncs
    /\ SyncCurrent
    /\ ReleasePrevious
    /\ retiring' = NoRetiring
    /\ UNCHANGED <<live, disk, locals, pc, failures>>

-----------------------------------------------------------------------------
(* restore and load_commit: RAM is rebuilt from root r, everything r does  *)
(* not name is free, only r is protected.                                  *)
Reopen(r) ==
    /\ pc' = "idle"
    /\ syncs' = 0
    /\ retiring' = NoRetiring
    /\ claimed' = NoRetiring
    /\ carrier' = 0
    /\ live' = DOMAIN r
    /\ protected' = DOMAIN r
    /\ previous' = {}
    /\ deferred' = {}
    /\ free' = Blocks \ DOMAIN r

(* The machine loses power: any reachable root may be the newest that      *)
(* survived, and unsynced blocks may hold anything.                        *)
PowerLoss ==
    /\ dirty' = {}
    /\ inCurrent' = FALSE
    /\ \E r \in Reachable :
           /\ Reopen(r)
           /\ durable' = r
           /\ newest' = r
           /\ stranded' = {}
    /\ Scramble(dirty)
    /\ UNCHANGED failures

(* The process dies and the page cache survives: restore takes the newest  *)
(* frame it can read, durable or not.  Nothing becomes durable by it.      *)
Kill ==
    /\ Reopen(newest)
    /\ IF newest # durable THEN Harm ELSE UNCHANGED failures
    /\ UNCHANGED <<disk, frames>>

Commit ==
    \/ Claim \/ Rotate \/ RotateFails
    \/ RetirePrevious \/ RetireSyncFails
    \/ Protect \/ SyncData \/ SyncDataFails
    \/ AppendCommit \/ AppendCommitFails

Next ==
    \/ PlaceIn \/ PlaceInFails
    \/ Barrier
    \/ Commit
    \/ ForceRetirement
    \/ PowerLoss \/ Kill

Spec == Init /\ [][Next]_vars

-----------------------------------------------------------------------------
(***************************************************************************)
(* Until a failure of Harm: whatever a crash leaves as the newest frame,   *)
(* everything that frame names is on the platter as it was when the frame  *)
(* was written: no settle round, relocation or failed write has reused a   *)
(* block a root still points at, and no frame was appended before the      *)
(* blocks it addresses were synced (alloc.rs "Checkpoint protection",      *)
(* commit.rs steps 2 to 5).                                                *)
(***************************************************************************)
RootsIntact ==
    failures = 0 =>
        \A r \in Reachable : \A b \in DOMAIN r :
            /\ image[b] = r[b]
            /\ b \notin dirty

(***************************************************************************)
(* The allocator never hands out a block twice and strands none: a block   *)
(* in use is neither free nor waiting to be freed, and a free is deferred  *)
(* only while a generation still protects the block, so that no failure in *)
(* retire_previous can lose it (BlockAllocator::free and retry_pending).   *)
(***************************************************************************)
BlocksAccounted ==
    /\ free \cap live = {}
    /\ free \cap deferred = {}
    /\ live \cap deferred = {}
    /\ deferred \subseteq protected \cup previous

(***************************************************************************)
(* Where the two generations stand at each step of a checkpoint, before    *)
(* any failure of Harm.  Until a barrier on its journal proves the newest  *)
(* frame durable, the newest root is exactly what `protected` holds and    *)
(* the one before it is held by `previous`; once the next checkpoint       *)
(* protects its own blocks, the newest written root is durable and has     *)
(* become the older generation (commit_journal, retire_previous and the    *)
(* barrier count of Retiring).                                             *)
(***************************************************************************)
GenerationsFollowFrames ==
    LET Awaits(p, barriers) ==
            /\ DOMAIN newest = protected
            /\ \/ durable = newest
               \/ /\ p.on
                  /\ DOMAIN durable \subseteq previous
                  /\ barriers <= p.barrier
    IN  failures = 0 =>
        /\ stranded = {}
        /\ pc = "idle" => Awaits(retiring, syncs)
        /\ pc = "claimed" => Awaits(claimed, syncs)
        /\ pc \in {"idle", "claimed"} /\ durable # newest => inCurrent
        /\ pc = "rotated" => Awaits(claimed, carrier)
        /\ pc = "retired" => durable = newest /\ DOMAIN newest = protected
        /\ pc \in {"protected", "synced"} =>
               durable = newest /\ DOMAIN newest = previous

(***************************************************************************)
(* Before any failure of Harm, the older generation is released only once  *)
(* the newest frame is durable: no step, and in particular none that       *)
(* shrinks what the allocator holds back, leaves a reachable root naming a *)
(* block outside it (retire_previous, force_retirement, set_protected).    *)
(***************************************************************************)
RootsHeld ==
    failures = 0 => \A r \in Reachable : DOMAIN r \subseteq protected \cup previous
=============================================================================
