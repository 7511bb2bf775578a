---------------------------- MODULE OfflineQueue ----------------------------
(***************************************************************************)
(* The client's offline write queue (wavedb/src/offline_queue.rs) with the *)
(* operations that use it: save_unique and get_unique of client_handle.rs  *)
(* and the mirror of client_cache.rs.                                      *)
(*                                                                         *)
(* Tasks of one process share a Db and so its queue, its local cache and   *)
(* the draining flag.  One Unique record is saved and read; the n-th save  *)
(* writes the value n.  A command is an exchange with the node that may    *)
(* fail before or after the node executes it, be refused, or, when the     *)
(* task is dropped or its connection breaks, execute after everyone has    *)
(* stopped waiting for it.                                                 *)
(***************************************************************************)
EXTENDS Naturals, Sequences, Functions

CONSTANTS
    Tasks,      \* concurrent tasks on clones of the Db
    MaxSaves,   \* bound: saves in a behaviour
    MaxGets,    \* bound: reads in a behaviour
    MaxFaults,  \* bound: lost exchanges, refusals, dropped tasks, failed
                \* mirrors and saves of another client, all together
    MaxRivals   \* bound: saves of another client

ASSUME QueueBounds ==
    /\ MaxSaves \in Nat /\ MaxGets \in Nat /\ MaxFaults \in Nat /\ MaxRivals \in Nat

VARIABLES
    queue,      \* OfflineQueue.ops
    draining,   \* OfflineQueue.draining
    cache,      \* the value the local cache holds, None if it has none
    task,       \* task -> where it is and the exchange it waits for
    orphans,    \* saves nobody waits for that the node may yet execute
    live,       \* the record's value at the node
    next,       \* number of the next save
    gets, faults,
    executed,   \* history: value -> times the node executed it
    acked,      \* history: saves that returned Ok
    refused,    \* history: saves the node refused
    lost,       \* history: save -> attempts whose outcome the client never saw
    dropped     \* history: a task was dropped in the middle of a drain

bounds == <<next, gets, faults>>
record == <<live, executed>>
history == <<acked, refused, lost, dropped>>
queueVars == <<queue, draining, cache, task, orphans, record, bounds, history>>

None == 0
Saves == 1 .. MaxSaves
RivalValues == MaxSaves + 1 .. MaxSaves + MaxRivals

(* The node executes a save: its value is the live one. *)
Run(value) ==
    /\ live' = value
    /\ executed' = [executed EXCEPT ![value] = @ + 1]

(* A task: drain replays the front of the queue, command runs its own save *)
(* or get, mirror is about to write the cache.  save is what it was called *)
(* for: a save's number, or None for a get or a bare drain.  wire is the   *)
(* fate of the exchange it awaits, value what the exchange carries.        *)
IdleTask == [at |-> "idle", save |-> None, wire |-> "none", value |-> None]

Awaiting(at, save, value) ==
    [at |-> at, save |-> save, wire |-> "sent", value |-> value]

(* What follows a drain: the save's own command, or nothing. *)
AfterDrain(save) ==
    IF save = None THEN IdleTask ELSE Awaiting("command", save, save)

(* Mutant: a second drain goes ahead. *)
EnterDrainUnguarded(t, save) ==
    IF queue = <<>>
    THEN /\ task' = [task EXCEPT ![t] = AfterDrain(save)]
         /\ UNCHANGED draining
    ELSE /\ task' = [task EXCEPT ![t] = Awaiting("drain", save, Head(queue))]
         /\ draining' = TRUE

(* drain up to its first exchange: a no-op when another drain owns the     *)
(* queue or there is nothing to replay.                                    *)
EnterDrain(t, save) ==
    IF draining \/ queue = <<>>
    THEN /\ task' = [task EXCEPT ![t] = AfterDrain(save)]
         /\ UNCHANGED draining
    ELSE /\ task' = [task EXCEPT ![t] = Awaiting("drain", save, Head(queue))]
         /\ draining' = TRUE

(* An idle task has no state: which of them makes a call is immaterial. *)
Caller == CHOOSE t \in Tasks : task[t].at = "idle"
CanCall(t) == task[t].at = "idle" /\ t = Caller

(* save_unique, up to its first exchange. *)
BeginSave(t) ==
    /\ CanCall(t)
    /\ next <= MaxSaves
    /\ next' = next + 1
    /\ EnterDrain(t, next)
    /\ UNCHANGED <<queue, cache, orphans, record, gets, faults, history>>

(* drain_offline_queue, called by the app. *)
BeginDrain(t) ==
    /\ CanCall(t)
    /\ queue # <<>>
    /\ ~draining
    /\ EnterDrain(t, None)
    /\ UNCHANGED <<queue, cache, orphans, record, bounds, history>>

(* get_unique. *)
BeginGet(t) ==
    /\ CanCall(t)
    /\ gets < MaxGets
    /\ gets' = gets + 1
    /\ task' = [task EXCEPT ![t] = Awaiting("command", None, None)]
    /\ UNCHANGED <<queue, draining, cache, orphans, record, next, faults, history>>

-----------------------------------------------------------------------------
(* The node. *)

(* Something goes wrong, one of MaxFaults times. *)
Adversity == faults < MaxFaults /\ faults' = faults + 1

IsGet(t) == task[t].at = "command" /\ task[t].save = None

(* It executes a save, or reads. *)
Execute(t) ==
    /\ task[t].wire = "sent"
    /\ IF IsGet(t)
       THEN /\ task' = [task EXCEPT ![t].wire = "done", ![t].value = live]
            /\ UNCHANGED record
       ELSE /\ task' = [task EXCEPT ![t].wire = "done"]
            /\ Run(task[t].value)
    /\ UNCHANGED <<queue, draining, cache, orphans, bounds, history>>

(* It refuses: NodeError of any kind. *)
Refuse(t) ==
    /\ Adversity
    /\ task[t].wire = "sent"
    /\ ~IsGet(t)
    /\ task' = [task EXCEPT ![t].wire = "refused"]
    /\ refused' = refused \cup {task[t].value}
    /\ UNCHANGED <<queue, draining, cache, orphans, record, next, gets, acked, lost, dropped>>

ExecuteOrphan ==
    /\ \E n \in orphans : orphans' = orphans \ {n} /\ Run(n)
    /\ UNCHANGED <<queue, draining, cache, task, bounds, history>>

RivalSave ==
    /\ \E v \in RivalValues : executed[v] = 0 /\ Run(v)
    /\ Adversity
    /\ UNCHANGED <<queue, draining, cache, task, orphans, next, gets, history>>

-----------------------------------------------------------------------------
(* The answer arrives during a drain: the op leaves the queue whatever the *)
(* node said, and the next one goes out.                                   *)
DrainAnswered(t) ==
    /\ task[t].at = "drain"
    /\ task[t].wire \in {"done", "refused"}
    /\ queue' = Tail(queue)
    /\ IF queue' = <<>>
       THEN /\ task' = [task EXCEPT ![t] = AfterDrain(task[t].save)]
            /\ draining' = FALSE
       ELSE /\ task' = [task EXCEPT ![t] = Awaiting("drain", task[t].save, Head(queue'))]
            /\ UNCHANGED draining
    /\ UNCHANGED <<cache, orphans, record, bounds, history>>

(* Or to a task's own command: a success is mirrored, a refusal returned. *)
CommandAnswered(t) ==
    /\ task[t].at = "command"
    /\ task[t].wire \in {"done", "refused"}
    /\ task' = [task EXCEPT ![t] =
                   IF task[t].wire = "refused" \/ task[t].value = None THEN IdleTask
                   ELSE [task[t] EXCEPT !.at = "mirror", !.wire = "none"]]
    /\ UNCHANGED <<queue, draining, cache, orphans, record, bounds, history>>

(* mirror_unique, best effort, after which the call returns Ok. *)
Mirror(t) ==
    /\ task[t].at = "mirror"
    /\ \/ cache' = task[t].value /\ UNCHANGED faults
       \/ Adversity /\ UNCHANGED cache
    /\ acked' = acked \cup ({task[t].save} \ {None})
    /\ task' = [task EXCEPT ![t] = IdleTask]
    /\ UNCHANGED <<queue, draining, orphans, record, next, gets, refused, lost, dropped>>

(* What the client cannot know of a save that ended without an answer: it  *)
(* executed, it never will, or it still may.                               *)
Abandon(t) ==
    LET n == task[t].value IN
    IF task[t].wire \notin {"sent", "done"} \/ IsGet(t) \/ task[t].at = "mirror"
    THEN UNCHANGED <<orphans, lost>>
    ELSE \/ /\ task[t].wire = "done"
            /\ lost' = [lost EXCEPT ![n] = @ + 1]
            /\ UNCHANGED orphans
         \/ /\ task[t].wire = "sent"
            /\ UNCHANGED <<orphans, lost>>
         \/ /\ task[t].wire = "sent"
            /\ n \notin orphans
            /\ orphans' = orphans \cup {n}
            /\ lost' = [lost EXCEPT ![n] = @ + 1]

(* Mutant: a replay that fails is dropped like one that was answered. *)
DrainFaultDrops(t) ==
    /\ Adversity
    /\ task[t].at = "drain"
    /\ Abandon(t)
    /\ task' = [task EXCEPT ![t] = AfterDrain(task[t].save)]
    /\ draining' = FALSE
    /\ queue' = Tail(queue)
    /\ UNCHANGED <<cache, record, next, gets, acked, refused, dropped>>

(* Mutant: the early exit leaves the flag set. *)
DrainFaultKeepsFlag(t) ==
    /\ Adversity
    /\ task[t].at = "drain"
    /\ Abandon(t)
    /\ task' = [task EXCEPT ![t] = AfterDrain(task[t].save)]
    /\ UNCHANGED <<queue, draining, cache, record, next, gets, acked, refused, dropped>>

(* A transport fault stops a drain, which keeps the rest; a save that was  *)
(* waiting for the drain goes ahead.                                       *)
DrainFault(t) ==
    /\ Adversity
    /\ task[t].at = "drain"
    /\ Abandon(t)
    /\ task' = [task EXCEPT ![t] = AfterDrain(task[t].save)]
    /\ draining' = FALSE
    /\ UNCHANGED <<queue, cache, record, next, gets, acked, refused, dropped>>

(* A transport fault of a save queues it and mirrors it; of a get, it is   *)
(* served from the cache.                                                  *)
CommandFault(t) ==
    /\ Adversity
    /\ task[t].at = "command"
    /\ Abandon(t)
    /\ IF IsGet(t)
       THEN /\ task' = [task EXCEPT ![t] = IdleTask]
            /\ UNCHANGED queue
       ELSE /\ task' = [task EXCEPT ![t].at = "mirror", ![t].wire = "none"]
            /\ queue' = Append(queue, task[t].save)
    /\ UNCHANGED <<draining, cache, record, next, gets, acked, refused, dropped>>

(* The task's future is dropped at an await: nothing after it runs. *)
Cancel(t) ==
    /\ Adversity
    /\ task[t].at # "idle"
    /\ Abandon(t)
    /\ task' = [task EXCEPT ![t] = IdleTask]
    /\ dropped' = (dropped \/ task[t].at = "drain")
    /\ UNCHANGED <<queue, draining, cache, record, next, gets, acked, refused>>

-----------------------------------------------------------------------------
QueueInit ==
    /\ queue = <<>> /\ draining = FALSE /\ cache = None
    /\ task = [t \in Tasks |-> IdleTask]
    /\ orphans = {} /\ live = None
    /\ executed = [v \in Saves \cup RivalValues |-> 0]
    /\ next = 1 /\ gets = 0 /\ faults = 0
    /\ acked = {} /\ refused = {} /\ lost = [n \in Saves |-> 0]
    /\ dropped = FALSE

Proceed(t) ==
    Execute(t) \/ DrainAnswered(t) \/ CommandAnswered(t) \/ Mirror(t)

QueueNext ==
    \/ \E t \in Tasks :
           \/ BeginSave(t) \/ BeginDrain(t) \/ BeginGet(t)
           \/ Execute(t) \/ Refuse(t)
           \/ DrainAnswered(t) \/ CommandAnswered(t) \/ Mirror(t)
           \/ DrainFault(t) \/ CommandFault(t) \/ Cancel(t)
    \/ ExecuteOrphan \/ RivalSave

QueueSpec == QueueInit /\ [][QueueNext]_queueVars

(* Some task that can go on does, the node answers, faults end, and the    *)
(* app keeps asking for a drain.                                           *)
QueueFairness == WF_queueVars(\E t \in Tasks : Proceed(t) \/ BeginDrain(t))

-----------------------------------------------------------------------------
Ran == {v \in DOMAIN executed : executed[v] > 0}

TaskStates ==
    [at : {"idle", "drain", "command", "mirror"}, save : {None} \cup Saves,
     wire : {"none", "sent", "done", "refused"},
     value : {None} \cup Saves \cup RivalValues]

(* Every variable stays in its range, and the record was really saved. *)
QueueTypeOK ==
    /\ queue \in Seq(Saves) /\ draining \in BOOLEAN
    /\ cache \in {None} \cup Saves \cup RivalValues
    /\ task \in [Tasks -> TaskStates]
    /\ orphans \subseteq Saves /\ acked \subseteq Saves /\ refused \subseteq Saves
    /\ executed \in [Saves \cup RivalValues -> Nat] /\ lost \in [Saves -> Nat]
    /\ live \in {None} \cup Ran
    /\ next \in 1 .. MaxSaves + 1 /\ gets \in Nat /\ faults \in Nat
    /\ dropped \in BOOLEAN

(***************************************************************************)
(* A save that returned Ok is never lost, and what the cache serves        *)
(* offline was really saved: the node executed the value, or it is still   *)
(* queued, or the node refused its replay.  Holds with concurrent drains,  *)
(* faults at any point and dropped tasks (drain, save_unique,              *)
(* mirror_unique).                                                         *)
(***************************************************************************)
AckedSavesSurvive ==
    acked \cup ({cache} \ {None}) \subseteq Ran \cup Range(queue) \cup refused

(***************************************************************************)
(* The node executes a save once, plus at most once for every attempt      *)
(* whose answer the client never saw: two drains never replay the same op  *)
(* (the reentrancy guard of drain).                                        *)
(***************************************************************************)
RepeatsAreLostAnswers == \A n \in Saves : executed[n] <= 1 + lost[n]

(***************************************************************************)
(* Once the node is reachable the queue empties, faults, refusals and      *)
(* concurrent drains notwithstanding, unless a task was dropped in the     *)
(* middle of a drain (drain's early exit resets the flag).                 *)
(***************************************************************************)
QueueDrains == <>[](queue = <<>> \/ dropped)
=============================================================================
