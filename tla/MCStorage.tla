----------------------------- MODULE MCStorage -----------------------------
(***************************************************************************)
(* The two halves of the engine's space on small instances: the protocol   *)
(* by which checkpoints replace each other, over abstract blocks, and the  *)
(* pages, directories and windows laid out in them.  They share no state:  *)
(* a behaviour runs one of them while the other rests.                     *)
(***************************************************************************)
EXTENDS CheckpointRoots, BucketStore

VARIABLE part

BlockSymmetry == Permutations(Blocks)

(* One type that compresses and one that does not. *)
TwoTypes == 1 :> TRUE @@ 2 :> FALSE

FourIds == 1 :> {1, 2, 3} @@ 2 :> {4}

(* Two ids share a bucket until the directory has four, one joins them     *)
(* while it has one.                                                       *)
SmallHash == <<0, 2, 1, 0>>

Setup(ids, sizes, budgets, writes, breaks, reads, moves, restarts) ==
    [ids |-> ids, sizes |-> sizes, budgets |-> budgets, writes |-> writes,
     failures |-> breaks, reads |-> reads, moves |-> moves,
     restarts |-> restarts]

(* Splits and the dictionary; both types with failures and a restart, and  *)
(* with moves; another thread reading.                                     *)
FourSetups ==
    {Setup({1, 2, 3}, {2}, {0}, 3, 0, {}, 0, 0),
     Setup({1, 4}, {1}, {1}, 3, 1, {}, 0, 1),
     Setup({1, 4}, {1}, {1}, 2, 1, {}, 1, 1),
     Setup({1, 2}, {4}, {0}, 3, 0, {2}, 0, 0)}

(* One record that fills the dictionary, and a settle that fails. *)
WarmSetup == {Setup({1}, {4}, {0}, 1, 1, {}, 0, 1)}

StorageInit ==
    /\ part \in {"roots", "buckets"}
    /\ Init /\ BucketInit
    /\ part = "roots" => setup = CHOOSE u \in Setups : TRUE
    /\ part = "buckets" => \A b, c \in Blocks : image[b] = image[c]

StorageNext ==
    /\ \/ part = "roots" /\ Next /\ UNCHANGED bucketVars
       \/ part = "buckets" /\ BucketNext /\ UNCHANGED vars
    /\ UNCHANGED part

StorageSpec == StorageInit /\ [][StorageNext]_<<part, vars, bucketVars>>
=============================================================================
