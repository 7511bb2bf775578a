---------------------------- MODULE MCPageStore ----------------------------
(* The page engine on small stores, for TLC: one profile per question. *)
EXTENDS PageStore, TLC

(* One record: written or removed. *)
OneRecord == {1 :> TRUE, 1 :> FALSE}

(* Two records: a batch that writes both, and one that removes one. *)
TwoRecords == {1 :> TRUE @@ 2 :> TRUE, 1 :> FALSE}

Quiet ==
    [shapes |-> OneRecord, window |-> FALSE, writers |-> FALSE, crashes |-> {"power"},
     hazards |-> {}, batches |-> 2, journals |-> 3, blocks |-> 6, syncs |-> 2, failures |-> 0]

(* Writers during checkpoints, every step of which may fail. *)
Failing ==
    [Quiet EXCEPT !.writers = TRUE, !.blocks = 5, !.syncs = 1, !.failures = 1,
        !.hazards = {"create", "retire_sync", "data_sync", "frame", "settle", "unlink"}]

(* Power losses and process deaths, also during recovery: of a store that  *)
(* goes on to another checkpoint, and of batches of two records.           *)
Dying == [Quiet EXCEPT !.crashes = {"power", "kill"}]

DyingWide == [Dying EXCEPT !.shapes = TwoRecords, !.journals = 2, !.blocks = 7]

(* A durability window, and appends whose barrier fails. *)
Relaxed ==
    [Quiet EXCEPT !.window = TRUE, !.hazards = {"append"}, !.batches = 3, !.journals = 2,
                  !.syncs = 1]

FourProfiles == {Failing, Dying, DyingWide, Relaxed}

(* A data.bin that twice cannot be synced. *)
UnsyncedData ==
    {[Quiet EXCEPT !.hazards = {"data_sync"}, !.batches = 3, !.journals = 4, !.syncs = 1,
                   !.failures = 2]}

(* A process that dies with the newest frame unsynced. *)
EarlyDeath ==
    {[Quiet EXCEPT !.crashes = {"power", "kill"}, !.hazards = {"kill"}, !.journals = 4,
                   !.failures = 1]}
=============================================================================
