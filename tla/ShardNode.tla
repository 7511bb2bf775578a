----------------------------- MODULE ShardNode -----------------------------
(***************************************************************************)
(* A node serving commands: the router, the shard workers with their       *)
(* caches, the table of owner locks, and the disk actor they share         *)
(* (wavedb-quick-node/src: dispatch.rs, serve.rs, serve_ws.rs,             *)
(* subscribe.rs; shard: router.rs, worker.rs, store.rs, lock.rs, route.rs).*)
(*                                                                         *)
(* A collection is reduced to what a read-modify-write can lose: one index *)
(* segment, the set of <<record, version>> it lists, and one record per    *)
(* number, its version (0: absent).  An insert rewrites the segment        *)
(* without a guard; a save guards the record, not the segment.  A task     *)
(* runs on its shard's thread until it waits for a lock or for the disk.   *)
(***************************************************************************)
EXTENDS DiskActor, FiniteSets, Functions, TLC

CONSTANTS
    Conns,      \* connections, one request at a time each
    Types,      \* struct hashes of collection types
    Hashes,     \* Types, the #[server] functions and the sync exchange
    Setups,     \* nodes: shards, routing, and the requests they are sent
    CacheBudget,\* present entries a shard's cache may hold
    JobDepth,   \* JOB_DEPTH
    MaxRecords, \* bound: records of a type
    MaxSaves    \* bound: saves asked for

ASSUME TypesAreHashes == Types \subseteq Hashes

VARIABLES
    setup,
    conn,       \* connection -> its task
    jobs,       \* shard -> connections routed to it and not started
    locks,      \* hash -> tasks at its owner lock, the holder first
    cache,      \* shard -> item -> value, presence and absence
    inbox,      \* shard -> answers of the disk actor, in order
    disk,       \* item -> value
    minted,     \* type -> records minted
    saves,
    acked       \* history: type -> versions the node has acknowledged

nodeVars == <<conn, jobs, locks, cache, inbox, disk>>
history == <<minted, saves, acked>>
vars == <<setup, nodeVars, history, diskVars>>

Segment(t) == <<t, 0>>
Record(t, r) == <<t, r>>
Items == Types \X (0 .. MaxRecords)
Absent == 0

(* Store 0 is the accept thread's own, and cacheless. *)
Accept == 0
Shards == 1 .. setup.shards
Stores == 0 .. setup.shards

Idle == [pc |-> "idle"]
NoGuard == [guarded |-> FALSE]

Task(req, at) ==
    [pc |-> "routed", req |-> req, at |-> at, todo |-> <<>>, got |-> <<>>, out |-> NoGuard,
     piggy |-> FALSE, ok |-> TRUE,
     seen |-> IF req.op \in {"get", "list", "poll"} THEN acked[req.type] ELSE {}]

Init ==
    /\ DiskInit
    /\ setup \in Setups
    /\ conn = [c \in Conns |-> Idle]
    /\ jobs = [s \in Stores |-> <<>>]
    /\ locks = [h \in Hashes |-> <<>>]
    /\ cache = [s \in Stores |-> <<>>]
    /\ inbox = [s \in Stores |-> <<>>]
    /\ disk = [i \in Items |-> IF i[2] = 0 THEN {} ELSE Absent]
    /\ minted = [t \in Types |-> 0]
    /\ saves = 0
    /\ acked = [t \in Types |-> {}]

-----------------------------------------------------------------------------
(* A shard's store *)

Cached(s, item) == item \in DOMAIN cache[s]

Weight(m) == Cardinality({i \in DOMAIN m : i[2] = 0 \/ m[i] # Absent})

(* Mutant: an entry already cached is kept. *)
MemoiseOnce(s, puts) == [cache EXCEPT ![s] = @ @@ puts]

(* Remember values; a cache over its budget is emptied, and a store        *)
(* without a budget remembers nothing.                                     *)
Memoise(s, puts) ==
    LET filled == puts @@ cache[s]
    IN [cache EXCEPT ![s] = IF s = Accept \/ Weight(filled) > CacheBudget THEN <<>> ELSE filled]

-----------------------------------------------------------------------------
(* Routing *)

InFlight(t) == {c \in Conns : conn[c].pc # "idle" /\ conn[c].req.op = "insert" /\ conn[c].req.type = t}

(* A request may be made while the bounds on records and saves allow it. *)
MayAsk(req) ==
    /\ req.op = "insert" => minted[req.type] + Cardinality(InFlight(req.type)) < MaxRecords
    /\ req.op = "save" => saves < MaxSaves

(* Gate 1: an anonymous claim, or a token that verifies as an access       *)
(* token.                                                                  *)
Identified(req) == req.verified

(* A request whose identity does not verify goes to the first shard; any   *)
(* other to the shard of its struct hash under its tenant.                 *)
ShardFor(req) == IF Identified(req) THEN setup.route[req.hash] ELSE 1

Dispatch(c) ==
    \E req \in setup.requests :
        LET s == ShardFor(req)
        IN /\ running
           /\ c \in setup.conns /\ conn[c].pc = "idle" /\ ~req.call
           /\ MayAsk(req)
           /\ Len(jobs[s]) < JobDepth
           /\ conn' = [conn EXCEPT ![c] = Task(req, s)]
           /\ jobs' = [jobs EXCEPT ![s] = Append(@, c)]
           /\ saves' = IF req.op = "save" THEN saves + 1 ELSE saves
           /\ UNCHANGED <<setup, locks, cache, inbox, disk, minted, acked, diskVars>>

(* Mutant: operations take their lock by operation, not by owner. *)
OwnerByOp(req) == IF req.op = "save" THEN CHOOSE h \in Hashes : h # req.hash ELSE req.hash

Owner(req) == req.hash

AwaitOwner(c, task) ==
    /\ conn' = [conn EXCEPT ![c] = [task EXCEPT !.pc = "locking"]]
    /\ locks' = [locks EXCEPT ![Owner(task.req)] = Append(@, c)]

(* The sync navigation reads a topic's recent changes; it holds no lock    *)
(* and no session state.                                                   *)
Navigates(t) == <<Segment(t)>>

ToRead(req) ==
    CASE req.op = "poll" -> Navigates(req.type)
      [] req.op \in {"insert", "list"} -> <<Segment(req.type)>>
      [] req.op = "get" -> <<Record(req.type, req.rec)>>
      [] req.op = "save" -> <<Record(req.type, req.rec), Segment(req.type)>>

(* Gate 1 refuses an identity that does not verify; the sync exchange      *)
(* navigates without a lock; anything else waits for its owner.            *)
Handle(c, task) ==
    \/ /\ ~Identified(task.req)
       /\ conn' = [conn EXCEPT ![c].pc = "answered", ![c].ok = FALSE]
       /\ UNCHANGED locks
    \/ /\ Identified(task.req) /\ task.req.op = "poll"
       /\ conn' = [conn EXCEPT ![c].pc = "run", ![c].piggy = TRUE, ![c].todo = ToRead(task.req)]
       /\ UNCHANGED locks
    \/ /\ Identified(task.req) /\ task.req.op # "poll"
       /\ AwaitOwner(c, task)

(* A worker starts its next job, beside those already running. *)
Start(s) ==
    /\ jobs[s] # <<>>
    /\ Handle(Head(jobs[s]), conn[Head(jobs[s])])
    /\ jobs' = [jobs EXCEPT ![s] = Tail(@)]
    /\ UNCHANGED <<setup, cache, inbox, disk, history, diskVars>>

(* A WebSocket session executes its Call on the accept thread, under the   *)
(* same lock table.                                                        *)
Call(c) ==
    \E req \in setup.requests :
        /\ running
        /\ c \in setup.conns /\ conn[c].pc = "idle" /\ req.call
        /\ MayAsk(req)
        /\ AwaitOwner(c, Task(req, Accept))
        /\ saves' = IF req.op = "save" THEN saves + 1 ELSE saves
        /\ UNCHANGED <<setup, jobs, cache, inbox, disk, minted, acked, diskVars>>

Unlock(req) == [locks EXCEPT ![Owner(req)] = Tail(@)]

(* Mutant: the refusal leaves without dropping the guard. *)
KeepLock(req) == locks

UnlockRefused(req) == Unlock(req)

(* The lock is granted in the order it was asked for.  Gate 2 then refuses *)
(* a hash the registry does not know.                                      *)
Granted(c) ==
    /\ conn[c].pc = "locking"
    /\ LET task == conn[c]
       IN /\ Head(locks[Owner(task.req)]) = c
          /\ \/ /\ task.req.known
                /\ conn' = [conn EXCEPT ![c].pc = "run", ![c].todo = ToRead(task.req)]
                /\ UNCHANGED locks
             \/ /\ ~task.req.known
                /\ conn' = [conn EXCEPT ![c].pc = "answered", ![c].ok = FALSE]
                /\ locks' = UnlockRefused(task.req)
    /\ UNCHANGED <<setup, jobs, cache, inbox, disk, history, diskVars>>

-----------------------------------------------------------------------------
(* The operation: reads, then one batch *)

(* How many of the reads ahead are in the cache. *)
Hits(task) ==
    LET at == {k \in 0 .. Len(task.todo) : \A j \in 1 .. k : Cached(task.at, task.todo[j])}
    IN CHOOSE k \in at : \A j \in at : j <= k

ReadHits(task) ==
    LET k == Hits(task)
        found == [i \in {task.todo[j] : j \in 1 .. k} |-> cache[task.at][i]]
    IN [task EXCEPT !.got = found @@ @, !.todo = SubSeq(@, k + 1, Len(@))]

(* What an insert or a save writes, from what it read.  A save moves the   *)
(* record's entry only if the segment holds it.                            *)
Plan(task) ==
    LET t == task.req.type
        seg == task.got[Segment(t)]
    IN IF task.req.op = "insert"
       THEN LET r == minted[t] + 1
            IN [guarded |-> FALSE, on |-> Record(t, r), was |-> Absent, new |-> <<r, 1>>,
                puts |-> (Record(t, r) :> 1) @@ (Segment(t) :> seg \cup {<<r, 1>>})]
       ELSE LET r == task.req.rec
                v == task.got[Record(t, r)]
            IN [guarded |-> TRUE, on |-> Record(t, r), was |-> v, new |-> <<r, v + 1>>,
                puts |-> IF <<r, v>> \in seg
                         THEN (Record(t, r) :> v + 1)
                              @@ (Segment(t) :> (seg \ {<<r, v>>}) \cup {<<r, v + 1>>})
                         ELSE Record(t, r) :> v + 1]

Writes(task) == task.req.op \in {"insert", "save"} /\ ~task.piggy

(* A save of a record that is not there is refused (record_pivot). *)
Missing(task) ==
    LET item == Record(task.req.type, task.req.rec)
    IN /\ task.req.op = "save" /\ ~task.piggy
       /\ item \in DOMAIN task.got /\ task.got[item] = Absent

(* The guard is dropped, and the declared poll topic navigated without it. *)
Finish(task, ok) ==
    IF task.req.topic \in Types /\ ~task.piggy
    THEN [task EXCEPT !.pc = "run", !.piggy = TRUE, !.ok = ok,
                      !.seen = acked'[task.req.topic], !.out = NoGuard, !.got = <<>>,
                      !.todo = Navigates(task.req.topic)]
    ELSE [task EXCEPT !.pc = "answered", !.ok = ok /\ @, !.todo = <<>>, !.out = NoGuard]

(* A task runs on its shard's thread: it takes what the cache has, and     *)
(* goes on to ask the disk for the first item it has not, or to send its   *)
(* batch, or to answer.                                                    *)
Run(c) ==
    /\ conn[c].pc = "run"
    /\ LET task == ReadHits(conn[c])
       IN \/ /\ task.todo # <<>> /\ ~Missing(task)
             /\ conn' = [conn EXCEPT ![c] =
                    [task EXCEPT !.pc = "ask", !.out = [get |-> Head(task.todo)]]]
             /\ UNCHANGED <<locks, minted, acked>>
          \/ /\ task.todo = <<>> /\ Writes(task) /\ ~Missing(task)
             /\ conn' = [conn EXCEPT ![c] = [task EXCEPT !.pc = "ask", !.out = Plan(task), !.got = <<>>]]
             /\ minted' = [minted EXCEPT ![task.req.type] =
                    IF task.req.op = "insert" THEN @ + 1 ELSE @]
             /\ UNCHANGED <<locks, acked>>
          \/ /\ Missing(task) \/ (task.todo = <<>> /\ ~Writes(task))
             /\ UNCHANGED <<minted, acked>>
             /\ conn' = [conn EXCEPT ![c] = Finish(task, ~Missing(task))]
             /\ locks' = IF task.piggy THEN locks ELSE Unlock(task.req)
    /\ UNCHANGED <<setup, jobs, cache, inbox, disk, saves, diskVars>>

(* Mutant: a write is acknowledged once it is sent. *)
AsksAckFirst(c) ==
    /\ conn[c].pc = "ask"
    /\ Ask([kind |-> "task", from |-> c])
    /\ conn' = [conn EXCEPT ![c].pc = "waiting"]
    /\ acked' = IF "get" \in DOMAIN conn[c].out THEN acked
                ELSE [acked EXCEPT ![conn[c].req.type] = @ \cup {conn[c].out.new}]
    /\ UNCHANGED <<setup, jobs, locks, cache, inbox, disk, minted, saves>>
    /\ UNCHANGED <<hints, engine, valve, running, upkeep>>

Asks(c) ==
    /\ conn[c].pc = "ask"
    /\ Ask([kind |-> "task", from |-> c])
    /\ conn' = [conn EXCEPT ![c].pc = "waiting"]
    /\ UNCHANGED <<setup, jobs, locks, cache, inbox, disk, history, hints, engine, valve, running, upkeep>>

-----------------------------------------------------------------------------
(* The disk actor serves *)

Answer(c, answer) ==
    inbox' = [inbox EXCEPT ![conn[c].at] = Append(@, [c |-> c] @@ answer)]

ServeGet(c, item) ==
    /\ Answer(c, [ok |-> TRUE, puts |-> item :> disk[item]])
    /\ UNCHANGED <<disk, engine, running>>

ServeApply(c, batch) ==
    LET ok == batch.guarded => disk[batch.on] = batch.was
    IN /\ Answer(c, [ok |-> ok, puts |-> batch.puts])
       /\ disk' = IF ok THEN batch.puts @@ disk ELSE disk
       /\ journal' = IF ok THEN journal + 1 ELSE journal
       /\ pending' = IF ok THEN pending + 1 ELSE pending
       /\ UNCHANGED <<faults, running>>

(* The statistics are the engine's when the request is served, not when    *)
(* it was asked.                                                           *)
Serve ==
    /\ TakesRequest
    /\ LET request == Head(requests)
       IN \/ /\ request.kind = "task"
             /\ LET out == conn[request.from].out
                IN IF "get" \in DOMAIN out THEN ServeGet(request.from, out.get)
                   ELSE ServeApply(request.from, out)
             /\ UNCHANGED upkeep
          \/ /\ request.kind = "stats"
             /\ upkeep' = [pc |-> "hinting", sending |-> HintsFor(setup.fragmented)]
             /\ UNCHANGED <<inbox, disk, engine, running>>
          \/ /\ request.kind = "shutdown"
             /\ ShutsDown
             /\ UNCHANGED <<inbox, disk, upkeep>>
    /\ UNCHANGED <<setup, conn, jobs, locks, cache, minted, saves, acked>>

Shutdown ==
    /\ setup.ends /\ \A i \in 1 .. Len(requests) : requests[i].kind # "shutdown"
    /\ Ask([kind |-> "shutdown"])
    /\ UNCHANGED <<setup, nodeVars, history, hints, engine, valve, running, upkeep>>

(* A shard's thread takes up the answers in the order they were given: a   *)
(* read is remembered, a committed batch is folded into the cache and      *)
(* acknowledged.                                                           *)
Resume(s) ==
    /\ inbox[s] # <<>>
    /\ LET answer == Head(inbox[s])
           c == answer.c
           task == conn[c]
           t == task.req.type
       IN /\ inbox' = [inbox EXCEPT ![s] = Tail(@)]
          /\ cache' = IF answer.ok THEN Memoise(s, answer.puts) ELSE cache
          /\ \/ /\ "get" \in DOMAIN task.out
                /\ conn' = [conn EXCEPT ![c] =
                       [task EXCEPT !.pc = "run", !.got = answer.puts @@ @, !.todo = Tail(@),
                                    !.out = NoGuard]]
                /\ UNCHANGED <<locks, acked>>
             \/ /\ "get" \notin DOMAIN task.out
                /\ acked' = IF answer.ok THEN [acked EXCEPT ![t] = @ \cup {task.out.new}] ELSE acked
                /\ conn' = [conn EXCEPT ![c] = Finish(task, answer.ok)]
                /\ locks' = Unlock(task.req)
    /\ UNCHANGED <<setup, jobs, disk, minted, saves, diskVars>>

(* The actor is gone: a request not sent, or never to be answered, fails.  *)
Fails(c) ==
    /\ ~running
    /\ \/ conn[c].pc = "ask"
       \/ /\ conn[c].pc = "waiting"
          /\ \A i \in 1 .. Len(inbox[conn[c].at]) : inbox[conn[c].at][i].c # c
    /\ conn' = [conn EXCEPT ![c].pc = "answered", ![c].ok = FALSE]
    /\ locks' = IF conn[c].piggy THEN locks ELSE Unlock(conn[c].req)
    /\ UNCHANGED <<setup, jobs, cache, inbox, disk, history, diskVars>>

(* The accept thread writes the answer to the connection. *)
Reply(c) ==
    /\ conn[c].pc = "answered"
    /\ conn' = [conn EXCEPT ![c] = Idle]
    /\ UNCHANGED <<setup, jobs, locks, cache, inbox, disk, history, diskVars>>

-----------------------------------------------------------------------------
Upkeep ==
    /\ setup.upkeep
    /\ Tick \/ Hint \/ UpkeepEnds
    /\ UNCHANGED <<setup, nodeVars, history>>

Actor ==
    \/ Serve
    \/ (Park \/ Maintain) /\ UNCHANGED <<setup, nodeVars, history>>

Next ==
    \/ \E c \in Conns : Dispatch(c) \/ Call(c) \/ Granted(c) \/ Run(c) \/ Asks(c) \/ Fails(c) \/ Reply(c)
    \/ \E s \in Stores : Start(s) \/ Resume(s)
    \/ Actor \/ Upkeep \/ Shutdown

Spec == Init /\ [][Next]_vars

(* Every thread keeps running and channels serve their senders in order:   *)
(* a send waits its turn at a full queue.                                  *)
Fairness ==
    /\ \A c \in Conns :
        /\ WF_vars(Granted(c)) /\ WF_vars(Run(c)) /\ WF_vars(Fails(c)) /\ WF_vars(Reply(c))
        /\ SF_vars(Asks(c))
    /\ \A s \in 0 .. 2 : WF_vars(s \in Stores /\ Start(s)) /\ WF_vars(s \in Stores /\ Resume(s))
    /\ WF_vars(Actor)
    /\ SF_vars(Upkeep)

FairSpec == Spec /\ Fairness

-----------------------------------------------------------------------------
TypeOK ==
    /\ DiskTypeOK
    /\ \A c \in Conns :
        conn[c].pc \in {"idle", "routed", "locking", "run", "ask", "waiting", "answered"}
    /\ \A s \in Stores : Len(jobs[s]) <= JobDepth /\ DOMAIN cache[s] \subseteq Items
    /\ DOMAIN disk = Items

(* No interleaving of operations loses an index update: a collection's     *)
(* segment lists exactly the records that live at their anchors, each at   *)
(* its current version (lock.rs: "the record is live at its anchor and     *)
(* absent from the index" is the loss the owner lock prevents).            *)
IndexMatchesRecords ==
    \A t \in Types :
        disk[Segment(t)] = {<<r, disk[Record(t, r)]>> :
                               r \in {n \in 1 .. MaxRecords : disk[Record(t, n)] # Absent}}

(* What a shard's cache says of an item, presence or absence, is what the  *)
(* engine holds, but for batches of that shard's own whose answer it has   *)
(* not yet taken up (ShardStore: "nothing can invalidate it behind its     *)
(* back").                                                                 *)
CacheCoherent ==
    \A s \in Shards : \A item \in DOMAIN cache[s] :
        \/ cache[s][item] = disk[item]
        \/ \E i \in 1 .. Len(inbox[s]) : inbox[s][i].ok /\ item \in DOMAIN inbox[s][i].puts

(* A read answers with everything acknowledged before it was asked, and    *)
(* the delta that rides a command's reply with the command's own write,    *)
(* though both may come from a cache (ShardStore::get, dispatch::handle).  *)
RepliesFresh ==
    \A c \in Conns :
        conn[c].pc = "answered" /\ conn[c].ok =>
            LET task == conn[c]
                t == IF task.piggy /\ task.req.op # "poll" THEN task.req.topic ELSE task.req.type
            IN \A p \in task.seen :
                IF task.req.op = "get" /\ ~task.piggy
                THEN p[1] = task.req.rec => task.got[Record(t, p[1])] >= p[2]
                ELSE \E q \in task.got[Segment(t)] : q[1] = p[1] /\ q[2] >= p[2]

(* Every request is answered: no lock is kept by a task that is done, no   *)
(* queue starves, and a shutdown fails what it does not serve              *)
(* (Router::dispatch, OwnerLocks::acquire, disk::run).                     *)
EveryRequestAnswered == \A c \in Conns : []<>(conn[c].pc = "idle")

(* Under any load of reads, upkeep's checkpoint is hinted and run: a       *)
(* journal that has passed the threshold is truncated (upkeep::maintain,   *)
(* Priority::next).                                                        *)
JournalTruncated == [](setup.upkeep => <>(journal <= CheckpointAfter))
=============================================================================
