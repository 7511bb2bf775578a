----------------------------- MODULE DiskActor -----------------------------
(***************************************************************************)
(* The actor that owns the storage engine of a node: two bounded queues,   *)
(* the valve that arbitrates between them, and the upkeep loop that feeds  *)
(* the maintenance queue (wavedb-quick-node/src/shard: disk.rs,            *)
(* priority.rs, msg.rs; upkeep.rs).                                        *)
(*                                                                         *)
(* The engine itself is PageStore's subject: here it is the number of      *)
(* batches in its journal and of ids not yet settled.  What a request does *)
(* to the records is in ShardNode.                                         *)
(***************************************************************************)
EXTENDS Naturals, Sequences

CONSTANTS
    QueueDepth,         \* QUEUE_DEPTH
    MaintenanceDepth,   \* MAINTENANCE_DEPTH
    LowWater,           \* LOW_WATER_BYTES, in batches
    HighWater,          \* HIGH_WATER_BYTES
    ReadsPerMaintenance,
    CheckpointAfter,    \* Maintenance::checkpoint_after_bytes
    MaxFaults           \* bound: engine faults during maintenance

ASSUME ValveMarks == LowWater \in Nat /\ HighWater \in Nat /\ ReadsPerMaintenance \in Nat
ASSUME QueuesHold == QueueDepth \in Nat \ {0} /\ MaintenanceDepth \in Nat \ {0}

VARIABLES
    requests,   \* the request queue
    hints,      \* the maintenance queue
    journal,    \* batches in the journal
    pending,    \* ids not settled
    settling,   \* a settle left part-done by the last round
    readsSince, \* reads served since maintenance last was
    parked,     \* the actor waits for either queue to speak
    running,    \* it has not been shut down
    upkeep,     \* the upkeep loop: its place, and the hints it is sending
    faults

engine == <<journal, pending, faults>>
valve == <<settling, readsSince, parked>>
diskVars == <<requests, hints, engine, valve, running, upkeep>>

Asleep == [pc |-> "asleep", sending |-> <<>>]

DiskInit ==
    /\ requests = <<>> /\ hints = <<>>
    /\ journal = 0 /\ pending = 0 /\ faults = 0
    /\ settling = FALSE /\ readsSince = 0 /\ parked = FALSE
    /\ running = TRUE
    /\ upkeep = Asleep

-----------------------------------------------------------------------------
(* The valve *)

Owed == settling \/ hints # <<>>

(* Priority::new never lets the high mark fall below the low one. *)
HighMark == IF HighWater < LowWater THEN LowWater ELSE HighWater

(* Mutant: the high mark is forgotten. *)
ReadsGoFirstAbove == journal < LowWater \/ readsSince < ReadsPerMaintenance

(* With both classes queued, reads go first below the low mark, one in     *)
(* ReadsPerMaintenance turns is maintenance's between the marks, and       *)
(* maintenance goes first from the high mark on.                           *)
ReadsGoFirst ==
    /\ journal < HighMark
    /\ journal < LowWater \/ readsSince < ReadsPerMaintenance

ChoosesRead == requests # <<>> /\ (Owed => ReadsGoFirst)
ChoosesMaintenance == Owed /\ (requests # <<>> => ~ReadsGoFirst)

(* serve_read counts, and saturates: only the ratio is ever compared.      *)
CountRead ==
    readsSince' = IF readsSince < ReadsPerMaintenance THEN readsSince + 1 ELSE readsSince

(* The actor takes the next request: chosen by the valve, or the first to  *)
(* arrive while it was parked, which the valve does not count.             *)
TakesRequest ==
    /\ running
    /\ \/ ~parked /\ ChoosesRead /\ CountRead
       \/ parked /\ requests # <<>> /\ UNCHANGED readsSince
    /\ parked' = FALSE
    /\ requests' = Tail(requests)
    /\ UNCHANGED <<hints, settling>>

Park ==
    /\ running /\ ~parked
    /\ requests = <<>> /\ ~Owed
    /\ parked' = TRUE
    /\ UNCHANGED <<requests, hints, engine, settling, readsSince, running, upkeep>>

-----------------------------------------------------------------------------
(* Maintenance *)

(* One settle round: more may remain after a round that settled something; *)
(* a fault stops the actor from owing the rest.                            *)
SettleStep ==
    \/ /\ pending > 0
       /\ pending' = pending - 1 /\ settling' = TRUE
       /\ UNCHANGED <<journal, faults>>
    \/ /\ pending = 0
       /\ settling' = FALSE
       /\ UNCHANGED engine
    \/ /\ pending > 0 /\ faults < MaxFaults
       /\ faults' = faults + 1 /\ settling' = FALSE
       /\ UNCHANGED <<journal, pending>>

CheckpointNow ==
    \/ journal' = 0 /\ pending' = 0 /\ UNCHANGED faults
    \/ faults < MaxFaults /\ faults' = faults + 1 /\ UNCHANGED <<journal, pending>>

Perform(work) ==
    CASE work = "settle" -> SettleStep
      [] work = "checkpoint" -> CheckpointNow /\ settling' = FALSE
      [] work \in {"evict", "defragment"} -> UNCHANGED engine /\ settling' = FALSE

(* A settle already begun goes before a queued hint. *)
Maintain ==
    /\ running
    /\ \/ ~parked /\ ChoosesMaintenance /\ readsSince' = 0
       \/ parked /\ hints # <<>> /\ UNCHANGED readsSince
    /\ parked' = FALSE
    /\ IF settling
       THEN SettleStep /\ UNCHANGED hints
       ELSE Perform(Head(hints)) /\ hints' = Tail(hints)
    /\ UNCHANGED <<requests, running, upkeep>>

(* The shutdown request commits the journal and ends the actor: what is    *)
(* still queued is dropped with it.                                        *)
ShutsDown ==
    /\ journal' = 0 /\ pending' = 0 /\ UNCHANGED faults
    /\ running' = FALSE

-----------------------------------------------------------------------------
(* Upkeep: ask for the engine's statistics, then hint *)

HasRoom == Len(requests) < QueueDepth

Ask(request) == running /\ HasRoom /\ requests' = Append(requests, request)

StatsRequest == [kind |-> "stats"]

Tick ==
    /\ upkeep.pc = "asleep"
    /\ Ask(StatsRequest)
    /\ upkeep' = [upkeep EXCEPT !.pc = "asked"]
    /\ UNCHANGED <<hints, engine, valve, running>>

(* What one tick suggests; whether the largest free extent is small is the *)
(* allocator's affair.                                                     *)
HintsFor(small) ==
    <<"settle">>
    \o (IF journal > CheckpointAfter THEN <<"checkpoint">> ELSE <<>>)
    \o <<"evict">>
    \o (IF small THEN <<"defragment">> ELSE <<>>)

(* A hint is dropped when the maintenance queue is full. *)
Hint ==
    /\ upkeep.pc = "hinting"
    /\ hints' = IF Len(hints) < MaintenanceDepth /\ running
                THEN Append(hints, Head(upkeep.sending)) ELSE hints
    /\ upkeep' = IF Len(upkeep.sending) = 1 THEN Asleep
                 ELSE [upkeep EXCEPT !.sending = Tail(@)]
    /\ UNCHANGED <<requests, engine, valve, running>>

(* The actor is gone: the loop ends. *)
UpkeepEnds ==
    /\ ~running
    /\ upkeep.pc \in {"asleep", "asked"}
    /\ upkeep' = [Asleep EXCEPT !.pc = "over"]
    /\ UNCHANGED <<requests, hints, engine, valve, running>>

DiskTypeOK ==
    /\ Len(requests) <= QueueDepth
    /\ Len(hints) <= MaintenanceDepth
    /\ hints \in Seq({"settle", "checkpoint", "evict", "defragment"})
    /\ journal \in Nat /\ pending \in Nat /\ faults \in 0 .. MaxFaults
    /\ settling \in BOOLEAN /\ parked \in BOOLEAN /\ running \in BOOLEAN
    /\ readsSince \in 0 .. ReadsPerMaintenance
    /\ upkeep.pc \in {"asleep", "asked", "hinting", "over"}
=============================================================================
