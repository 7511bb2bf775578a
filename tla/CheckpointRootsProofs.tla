----------------------- MODULE CheckpointRootsProofs -----------------------
(***************************************************************************)
(* The checkpoint protocol keeps every reachable root intact, for any      *)
(* number of blocks, any contents and any number of barriers, until one of *)
(* the failures that Harm counts; and whatever fails, the allocator gives  *)
(* no block two owners.                                                    *)
(***************************************************************************)
EXTENDS CheckpointRoots, TLAPS

(* What is held back is never free, and a frame is appended over a synced  *)
(* data.bin that its checkpoint has already protected.                     *)
HeldIsNotFree ==
    /\ free \cap (protected \cup previous) = {}
    /\ pc \in {"protected", "synced"} => protected = live
    /\ pc = "synced" => dirty = {}

(* What holds until a failure counts, *)
Sound ==
    /\ RootsIntact
    /\ GenerationsFollowFrames
    /\ failures = 0 => HeldIsNotFree

(* and the inductive invariant. *)
Inv ==
    /\ TypeOK
    /\ BlocksAccounted
    /\ Sound

-----------------------------------------------------------------------------
(* The initial state: no root names any block. *)
LEMMA InitInv == Init => Inv
<1> SUFFICES ASSUME Init PROVE Inv
  OBVIOUS
<1> USE DEF Init
<1>1. NoRoot \in RootsOn(Blocks) /\ DOMAIN NoRoot = {}
  <2>1. NoRoot \in [{} -> Values]
    BY DEF NoRoot
  <2> QED
    BY <2>1 DEF RootsOn, NoRoot
<1>2. TypeOK
  BY <1>1 DEF TypeOK, NoRetiring, Steps
<1>3. RootsIntact
  BY <1>1 DEF RootsIntact, Reachable
<1>4. BlocksAccounted
  BY DEF BlocksAccounted
<1>5. GenerationsFollowFrames
  BY <1>1 DEF GenerationsFollowFrames
<1>6. HeldIsNotFree
  BY DEF HeldIsNotFree
<1> QED
  BY <1>2, <1>3, <1>4, <1>5, <1>6 DEF Inv, Sound

-----------------------------------------------------------------------------
(* A root names blocks of data.bin, and a snapshot of blocks is a root. *)
LEMMA RootsAreSnapshots ==
    /\ \A r \in RootsOn(Blocks) : DOMAIN r \subseteq Blocks
    /\ \A S \in SUBSET Blocks, f \in [Blocks -> Values] :
           [b \in S |-> f[b]] \in RootsOn(Blocks)
<1>1. \A r \in RootsOn(Blocks) : DOMAIN r \subseteq Blocks
  BY DEF RootsOn
<1>2. ASSUME NEW S \in SUBSET Blocks, NEW f \in [Blocks -> Values]
      PROVE  [b \in S |-> f[b]] \in RootsOn(Blocks)
  <2>1. [b \in S |-> f[b]] \in [S -> Values]
    OBVIOUS
  <2> QED
    BY <2>1 DEF RootsOn
<1> QED
  BY <1>1, <1>2

(* The allocator's accounts balance whatever happens to the frames. *)
LEMMA AccountsNext ==
    ASSUME BlocksAccounted, [Next]_vars
    PROVE  BlocksAccounted'
<1> USE DEF BlocksAccounted, space
<1>1. CASE PlaceIn
  BY <1>1 DEF PlaceIn, AllocAndFree
<1>2. CASE PlaceInFails
  BY <1>2 DEF PlaceInFails, AllocAndFree
<1>3. CASE Barrier
  BY <1>3 DEF Barrier
<1>4. CASE Claim \/ Rotate \/ RotateFails \/ RetireSyncFails
  BY <1>4 DEF Claim, Rotate, RotateFails, RetireSyncFails
<1>5. CASE SyncData \/ SyncDataFails \/ AppendCommit \/ AppendCommitFails
  BY <1>5 DEF SyncData, SyncDataFails, AppendCommit, AppendCommitFails
<1>6. CASE RetirePrevious \/ ForceRetirement
  BY <1>6 DEF RetirePrevious, ForceRetirement, ReleasePrevious, RetryPending
<1>7. CASE Protect
  BY <1>7 DEF Protect, SetProtected, RetryPending
<1>8. CASE PowerLoss \/ Kill
  BY <1>8 DEF PowerLoss, Kill, Reopen
<1>9. CASE UNCHANGED vars
  BY <1>9 DEF vars
<1> QED
  BY <1>1, <1>2, <1>3, <1>4, <1>5, <1>6, <1>7, <1>8, <1>9 DEF Next, Commit

(* No step of the store takes a failure back. *)
LEMMA FailuresOnlyGrow ==
    ASSUME TypeOK, [Next]_vars, failures' = 0
    PROVE  failures = 0
  BY DEF TypeOK, vars, Next, Commit, PlaceIn, PlaceInFails, Barrier, Claim, Rotate,
         RotateFails, RetirePrevious, RetireSyncFails, Protect, SyncData,
         SyncDataFails, AppendCommit, AppendCommitFails, ForceRetirement,
         PowerLoss, Kill, Harm

(* Type correctness is inductive by itself. *)
LEMMA TypeNext ==
    ASSUME TypeOK, [Next]_vars
    PROVE  TypeOK'
<1> USE DEF TypeOK, Steps, space, disk, frames, locals
<1>1. CASE PlaceIn
  <2>1. live' \ live \in SUBSET free /\ live \ live' \in SUBSET live
    BY <1>1 DEF PlaceIn
  <2> QED
    BY <1>1, <2>1 DEF PlaceIn, WriteRun, Scramble, AllocAndFree
<1>2. CASE PlaceInFails
  <2> QED
    BY <1>2 DEF PlaceInFails, WriteRun, Scramble, AllocAndFree
<1>3. CASE Barrier
  <2> USE <1>3 DEF Barrier, SyncCurrent, NewestBecomesDurable
  <2>1. inCurrent' \in BOOLEAN
    BY Zenon
  <2> QED
    BY <2>1
<1>4. CASE Claim
  BY <1>4 DEF Claim, NoRetiring
<1>5. CASE Rotate
  BY <1>5 DEF Rotate
<1>6. CASE RotateFails
  BY <1>6 DEF RotateFails, NoRetiring, Harm
<1>7. CASE RetireSyncFails
  BY <1>7 DEF RetireSyncFails, NoRetiring, Harm
<1>8. CASE SyncDataFails
  BY <1>8 DEF SyncDataFails, Harm
<1>9. CASE AppendCommitFails
  BY <1>9 DEF AppendCommitFails, Harm
<1>10. CASE RetirePrevious
  BY <1>10 DEF RetirePrevious, NewestBecomesDurable, ReleasePrevious, RetryPending,
              NoRetiring
<1>11. CASE Protect \/ SyncData
  BY <1>11 DEF Protect, SetProtected, RetryPending, SyncData
<1>12. CASE AppendCommit
  <2>1. newest' \in RootsOn(Blocks)
    BY <1>12, RootsAreSnapshots DEF AppendCommit
  <2> QED
    BY <1>12, <2>1 DEF AppendCommit
<1>13. CASE ForceRetirement
  <2> USE <1>13 DEF ForceRetirement, SyncCurrent, NewestBecomesDurable,
                   ReleasePrevious, RetryPending
  <2>1. inCurrent' \in BOOLEAN
    BY Zenon
  <2> QED
    BY <2>1 DEF NoRetiring
<1>14. CASE PowerLoss
  <2> PICK r \in Reachable :
          /\ Reopen(r)
          /\ durable' = r
          /\ newest' = r
          /\ stranded' = {}
    BY <1>14 DEF PowerLoss
  <2>1. r \in RootsOn(Blocks) /\ DOMAIN r \subseteq Blocks
    BY RootsAreSnapshots DEF Reachable
  <2> QED
    BY <1>14, <2>1 DEF PowerLoss, Scramble, Reopen, NoRetiring
<1>15. CASE Kill
  <2>1. DOMAIN newest \subseteq Blocks
    BY RootsAreSnapshots
  <2> QED
    BY <1>15, <2>1 DEF Kill, Reopen, NoRetiring, Harm
<1>16. CASE UNCHANGED vars
  BY <1>16 DEF vars
<1> QED
  BY <1>1, <1>2, <1>3, <1>4, <1>5, <1>6, <1>7, <1>8, <1>9, <1>10, <1>11, <1>12,
     <1>13, <1>14, <1>15, <1>16 DEF Next, Commit

-----------------------------------------------------------------------------
(* Everything a reachable root names is held back by a generation: what    *)
(* makes RootsIntact inductive, since only free blocks are written.        *)
LEMMA RootsAreHeld ==
    ASSUME Inv, failures = 0
    PROVE  \A r \in Reachable : DOMAIN r \subseteq protected \cup previous
<1> USE DEF Inv, TypeOK, Sound, GenerationsFollowFrames, Reachable
<1>1. /\ DOMAIN newest \subseteq protected \cup previous
      /\ DOMAIN durable \subseteq protected \cup previous
  <2>1. CASE pc = "idle"
    BY <2>1
  <2>2. CASE pc = "claimed"
    BY <2>2
  <2>3. CASE pc = "rotated"
    BY <2>3
  <2>4. CASE pc = "retired"
    BY <2>4
  <2>5. CASE pc \in {"protected", "synced"}
    BY <2>5
  <2> QED
    BY <2>1, <2>2, <2>3, <2>4, <2>5 DEF Steps
<1> QED
  BY <1>1

(* Writing a window taken from the free space leaves every reachable root  *)
(* as it was.                                                              *)
LEMMA WritesSpareRoots ==
    ASSUME Inv, failures = 0, NEW W \in SUBSET free, WriteRun(W), UNCHANGED frames
    PROVE  RootsIntact'
<1>1. \A b \in Blocks \ W : image'[b] = image[b]
  BY DEF WriteRun, Scramble
<1>2. SUFFICES ASSUME NEW r \in Reachable, NEW b \in DOMAIN r
               PROVE  image'[b] = r[b] /\ b \notin dirty'
  BY DEF RootsIntact, Reachable, frames
<1>3. b \in protected \cup previous
  BY RootsAreHeld
<1>4. b \in Blocks /\ b \notin W
  BY <1>3 DEF Inv, TypeOK, Sound, HeldIsNotFree
<1>5. image[b] = r[b] /\ b \notin dirty
  BY DEF Inv, Sound, RootsIntact
<1> QED
  BY <1>1, <1>4, <1>5 DEF WriteRun

-----------------------------------------------------------------------------
(* Settle rounds and relocations, published or failed. *)
LEMMA PlaceInSound ==
    ASSUME Inv, failures = 0, PlaceIn
    PROVE  Sound'
<1> DEFINE W == live' \ live
           F == live \ live'
<1>a. W \in SUBSET free /\ WriteRun(W) /\ AllocAndFree(W, F)
  BY DEF PlaceIn
<1>0. UNCHANGED <<frames, syncs, retiring, locals, pc, failures>>
  BY DEF PlaceIn
<1>1. RootsIntact'
  BY <1>a, <1>0, WritesSpareRoots
<1>2. GenerationsFollowFrames'
  BY <1>a, <1>0 DEF Inv, Sound, GenerationsFollowFrames, AllocAndFree, frames, locals
<1>3. HeldIsNotFree'
  BY <1>a, <1>0 DEF Inv, Sound, HeldIsNotFree, AllocAndFree, PlaceIn
<1> QED
  BY <1>1, <1>2, <1>3 DEF Sound

(* A page whose write fails leaves the roots as they were (place_in). *)
LEMMA PlaceInFailsSound ==
    ASSUME Inv, failures = 0, PlaceInFails
    PROVE  Sound'
<1> DEFINE W == free \ free'
<1>a. W \in SUBSET free /\ WriteRun(W) /\ AllocAndFree(W, {})
  BY DEF PlaceInFails
<1>0. UNCHANGED <<live, frames, syncs, retiring, locals, failures>>
  BY DEF PlaceInFails
<1>1. RootsIntact'
  BY <1>a, <1>0, WritesSpareRoots
<1>2. GenerationsFollowFrames'
  BY <1>a, <1>0 DEF Inv, Sound, GenerationsFollowFrames, AllocAndFree, frames, locals,
              PlaceInFails
<1>3. HeldIsNotFree'
  BY <1>a, <1>0 DEF Inv, Sound, HeldIsNotFree, AllocAndFree, PlaceInFails
<1> QED
  BY <1>1, <1>2, <1>3 DEF Sound

(* Barriers on the current journal. *)
LEMMA BarrierSound ==
    ASSUME Inv, failures = 0, Barrier
    PROVE  Sound'
<1> USE DEF Barrier, SyncCurrent, NewestBecomesDurable, space, disk, frames, locals
<1>1. RootsIntact'
  BY DEF Inv, Sound, RootsIntact, Reachable
<1>2. GenerationsFollowFrames'
  BY DEF Inv, TypeOK, Sound, GenerationsFollowFrames, Steps
<1>3. HeldIsNotFree'
  BY DEF Inv, Sound, HeldIsNotFree
<1> QED
  BY <1>1, <1>2, <1>3 DEF Sound

-----------------------------------------------------------------------------
(* The steps of commit_journal, none of its failures counting. *)
LEMMA CommitSound ==
    ASSUME Inv, failures = 0, Commit, failures' = 0
    PROVE  Sound'
<1> USE DEF space, disk, frames, locals, Inv, Sound
<1>1. CASE Claim
  <2>1. RootsIntact' /\ HeldIsNotFree'
    BY <1>1 DEF Claim, RootsIntact, Reachable, HeldIsNotFree
  <2>2. GenerationsFollowFrames'
    BY <1>1 DEF Claim, GenerationsFollowFrames
  <2> QED
    BY <2>1, <2>2
<1>2. CASE Rotate
  <2>1. RootsIntact' /\ HeldIsNotFree'
    BY <1>2 DEF Rotate, RootsIntact, Reachable, HeldIsNotFree
  <2>2. GenerationsFollowFrames'
    BY <1>2 DEF Rotate, GenerationsFollowFrames
  <2> QED
    BY <2>1, <2>2
<1>3. CASE RotateFails
  <2>1. RootsIntact' /\ HeldIsNotFree'
    BY <1>3 DEF RotateFails, RootsIntact, Reachable, HeldIsNotFree
  <2>2. ~claimed.on
    BY <1>3 DEF RotateFails, Harm
  <2>3. GenerationsFollowFrames'
    BY <1>3, <2>2 DEF RotateFails, GenerationsFollowFrames
  <2> QED
    BY <2>1, <2>3
<1>4. CASE RetirePrevious
  <2> USE <1>4 DEF RetirePrevious, NewestBecomesDurable
  <2>1. CASE claimed.on
    <3> USE <2>1 DEF ReleasePrevious, RetryPending
    <3>1. durable' = newest /\ newest' = newest /\ stranded' = {}
      BY DEF TypeOK, GenerationsFollowFrames
    <3>2. RootsIntact'
      BY <3>1 DEF RootsIntact, Reachable
    <3>3. HeldIsNotFree'
      BY DEF BlocksAccounted, HeldIsNotFree
    <3>4. GenerationsFollowFrames'
      BY <3>1 DEF GenerationsFollowFrames
    <3> QED
      BY <3>2, <3>3, <3>4
  <2>2. CASE ~claimed.on
    <3>1. RootsIntact' /\ HeldIsNotFree'
      BY <2>2 DEF RootsIntact, Reachable, HeldIsNotFree
    <3>2. GenerationsFollowFrames'
      BY <2>2 DEF GenerationsFollowFrames
    <3> QED
      BY <3>1, <3>2
  <2> QED
    BY <2>1, <2>2
<1>5. CASE Protect
  <2> USE <1>5 DEF Protect, SetProtected, RetryPending
  <2>1. RootsIntact'
    BY DEF RootsIntact, Reachable
  <2>2. HeldIsNotFree'
    BY DEF BlocksAccounted, HeldIsNotFree
  <2>3. GenerationsFollowFrames'
    BY DEF GenerationsFollowFrames
  <2> QED
    BY <2>1, <2>2, <2>3
<1>6. CASE SyncData
  <2>1. RootsIntact' /\ HeldIsNotFree'
    BY <1>6 DEF SyncData, RootsIntact, Reachable, HeldIsNotFree
  <2>2. GenerationsFollowFrames'
    BY <1>6 DEF SyncData, GenerationsFollowFrames
  <2> QED
    BY <2>1, <2>2
<1>7. CASE AppendCommit
  <2> USE <1>7 DEF AppendCommit
  <2>1. durable = newest /\ stranded = {}
    BY DEF GenerationsFollowFrames
  <2>2. RootsIntact'
    BY <2>1 DEF RootsIntact, Reachable, HeldIsNotFree
  <2>3. HeldIsNotFree'
    BY DEF HeldIsNotFree
  <2>4. GenerationsFollowFrames'
    BY <2>1 DEF TypeOK, GenerationsFollowFrames, HeldIsNotFree
  <2> QED
    BY <2>2, <2>3, <2>4
<1> QED
  BY <1>1, <1>2, <1>3, <1>4, <1>5, <1>6, <1>7
     DEF Commit, RetireSyncFails, SyncDataFails, AppendCommitFails, Harm

-----------------------------------------------------------------------------
(* A graceful shutdown's retirement, and the two ways to reopen. *)
LEMMA ForceRetirementSound ==
    ASSUME Inv, failures = 0, ForceRetirement
    PROVE  Sound'
<1> USE DEF ForceRetirement, SyncCurrent, NewestBecomesDurable, ReleasePrevious,
            RetryPending, disk, frames, locals, Inv, Sound
<1>1. durable' = newest /\ newest' = newest /\ stranded' = {}
  BY DEF GenerationsFollowFrames
<1>2. RootsIntact'
  BY <1>1 DEF RootsIntact, Reachable
<1>3. HeldIsNotFree'
  BY DEF BlocksAccounted, HeldIsNotFree
<1>4. GenerationsFollowFrames'
  BY <1>1 DEF GenerationsFollowFrames
<1> QED
  BY <1>2, <1>3, <1>4

(* Reopening from a root that is intact rebuilds a state that holds back   *)
(* exactly what the root names.                                            *)
LEMMA ReopenHolds ==
    ASSUME Inv, NEW r \in Reachable, Reopen(r)
    PROVE  /\ DOMAIN r \subseteq Blocks
           /\ HeldIsNotFree'
           /\ protected' = DOMAIN r /\ pc' = "idle"
<1>1. r \in RootsOn(Blocks)
  BY DEF Inv, TypeOK, Reachable
<1> QED
  BY <1>1, RootsAreSnapshots DEF Reopen, HeldIsNotFree

(* After a power loss the store opens one of the roots that may be on disk. *)
LEMMA PowerLossSound ==
    ASSUME Inv, failures = 0, PowerLoss
    PROVE  Sound'
<1> PICK r \in Reachable :
        /\ Reopen(r)
        /\ durable' = r
        /\ newest' = r
        /\ stranded' = {}
  BY DEF PowerLoss
<1>1. /\ \A b \in Blocks \ dirty : image'[b] = image[b]
      /\ dirty' = {}
      /\ inCurrent' = FALSE
  BY DEF PowerLoss, Scramble
<1>2. /\ DOMAIN r \subseteq Blocks
      /\ HeldIsNotFree'
      /\ protected' = DOMAIN r /\ pc' = "idle"
  BY ReopenHolds
<1>3. RootsIntact'
  BY <1>1, <1>2 DEF Inv, Sound, RootsIntact, Reachable
<1>4. GenerationsFollowFrames'
  BY <1>2 DEF GenerationsFollowFrames
<1> QED
  BY <1>2, <1>3, <1>4 DEF Sound

(* After a kill it opens the newest root, which is the durable one without failures. *)
LEMMA KillSound ==
    ASSUME Inv, failures = 0, Kill, failures' = 0
    PROVE  Sound'
<1> USE DEF Kill, disk, frames
<1>1. durable = newest
  BY DEF Harm
<1>2. /\ HeldIsNotFree'
      /\ protected' = DOMAIN newest /\ pc' = "idle"
  BY ReopenHolds DEF Reachable
<1>3. RootsIntact'
  BY DEF Inv, Sound, RootsIntact, Reachable
<1>4. GenerationsFollowFrames'
  BY <1>1, <1>2 DEF Inv, Sound, GenerationsFollowFrames
<1> QED
  BY <1>2, <1>3, <1>4 DEF Sound

-----------------------------------------------------------------------------
(* Every step keeps the invariant. *)
LEMMA NextInv ==
    ASSUME Inv, [Next]_vars
    PROVE  Inv'
<1>1. TypeOK' /\ BlocksAccounted'
  BY TypeNext, AccountsNext DEF Inv
<1>2. CASE failures' # 0
  BY <1>1, <1>2 DEF Inv, Sound, RootsIntact, GenerationsFollowFrames
<1>3. CASE failures' = 0
  <2>1. failures = 0
    BY <1>3, FailuresOnlyGrow DEF Inv
  <2>2. CASE UNCHANGED vars
    BY <1>1, <2>2 DEF vars, space, disk, frames, locals, Inv, Sound, RootsIntact,
                      Reachable, GenerationsFollowFrames, HeldIsNotFree
  <2> QED
    BY <1>1, <1>3, <2>1, <2>2, PlaceInSound, PlaceInFailsSound, BarrierSound,
       CommitSound, ForceRetirementSound, PowerLossSound, KillSound DEF Next, Inv
<1> QED
  BY <1>2, <1>3

(* So it holds in every state. *)
LEMMA SpecInv == Spec => []Inv
<1> QED
  BY InitInv, NextInv, PTL DEF Spec

(***************************************************************************)
(* Type correctness of the checkpoint protocol's state.                    *)
(***************************************************************************)
THEOREM TypeCorrect == Spec => []TypeOK
<1>1. Inv => TypeOK
  BY DEF Inv
<1> QED
  BY <1>1, SpecInv, PTL

(***************************************************************************)
(* Every root a crash can reopen from is intact, whatever the interleaving *)
(* of settle rounds, barriers, checkpoints, failed writes, power losses    *)
(* and restarts: the promise of commit_journal's deferred frame and of the *)
(* allocator's two generations.                                            *)
(***************************************************************************)
THEOREM CrashesFindIntactRoots == Spec => []RootsIntact
<1>1. Inv => RootsIntact
  BY DEF Inv, Sound
<1> QED
  BY <1>1, SpecInv, PTL

(***************************************************************************)
(* The allocator never gives a block two owners and never strands a        *)
(* deferred free, whatever fails: place_in, set_protected,                 *)
(* release_previous and restore need no help from the frames for this.     *)
(***************************************************************************)
THEOREM AllocatorAccounts == Spec => []BlocksAccounted
<1>1. Inv => BlocksAccounted
  BY DEF Inv
<1> QED
  BY <1>1, SpecInv, PTL

(***************************************************************************)
(* At every step of a checkpoint the two generations hold the two frames   *)
(* recovery may choose between.                                            *)
(***************************************************************************)
THEOREM GenerationsHoldFrames == Spec => []GenerationsFollowFrames
<1>1. Inv => GenerationsFollowFrames
  BY DEF Inv, Sound
<1> QED
  BY <1>1, SpecInv, PTL

(***************************************************************************)
(* No step releases a generation a reachable root still needs.             *)
(***************************************************************************)
THEOREM ReleasesAreProven == Spec => []RootsHeld
<1>1. Inv => RootsHeld
  BY RootsAreHeld DEF RootsHeld
<1> QED
  BY <1>1, SpecInv, PTL
=============================================================================
