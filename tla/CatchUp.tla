------------------------------ MODULE CatchUp ------------------------------
(***************************************************************************)
(* Catch-up by navigation for one collection: collection_changes           *)
(* (wavedb-core/src/expose_changes.rs) as the node's navigate runs it, and *)
(* the client that holds the cursor: the poll actor with its ticks and the *)
(* deltas piggybacked on commands (wavedb-net/src/manager: poll.rs,        *)
(* actor.rs), or the catch-up of a WebSocket that reconnects (ws_dial.rs). *)
(*                                                                         *)
(* The node reads the record chain, the removal log and the anchors of the *)
(* records it found one after the other, without the owner lock, while     *)
(* operations commit.  An operation is its instant.                        *)
(***************************************************************************)
EXTENDS Integers

CONSTANTS
    Records,
    MaxClock,   \* bound: operations
    MaxLostPolls,  \* bound: exchanges that fail
    MaxWatches, \* bound: times the topic is watched
    ReadHazards     \* subset of {"remove_between", "save_between", "unregistered"}

ASSUME CatchUpBounds ==
    MaxClock \in Nat /\ MaxLostPolls \in Nat /\ MaxWatches \in Nat

VARIABLES
    clock,      \* the last instant minted
    chain,      \* record -> its instant in the recency chain, 0 if not there
    dead,       \* record -> its instant in the removal log, 0 if not there
    anchor,     \* record -> the instant of the version at its anchor
    exchange,   \* "tick" and "post" -> the exchange in progress
    mode,       \* how the client applies an answer: "poll" or "websocket"
    watching,
    cursor,     \* the client's cursor, Unset until a first answer
    start,      \* history: the cursor the watch began with
    seen,       \* record -> instant of the last event delivered for it
    watches, lostPolls

collection == <<chain, dead, anchor>>
client == <<mode, watching, cursor, start, seen>>
catchUpVars == <<clock, collection, exchange, client, watches, lostPolls>>

Unset == -1
NoExchange == [step |-> "idle"]

-----------------------------------------------------------------------------
(* The node's writers. *)

(* The code lets writers commit between a navigation's reads.  Two of      *)
(* those interleavings are hazards: a removal between the first two reads, *)
(* and, for a client that takes its cursor from the events, a save before  *)
(* the last.                                                               *)
Undisturbed(kind) ==
    \A x \in DOMAIN exchange :
        /\ kind = "remove" /\ exchange[x].step = "chain" => "remove_between" \in ReadHazards
        /\ kind = "save" /\ mode = "websocket" /\ exchange[x].step \in {"chain", "dead"}
               => "save_between" \in ReadHazards

CanApply(op) == IF op.kind = "save" THEN dead[op.rec] = 0 ELSE chain[op.rec] # 0

ApplyOp(op) ==
    /\ CanApply(op)
    /\ Undisturbed(op.kind)
    /\ IF op.kind = "save"
       THEN /\ chain' = [chain EXCEPT ![op.rec] = op.at]
            /\ anchor' = [anchor EXCEPT ![op.rec] = op.at]
            /\ UNCHANGED dead
       ELSE /\ chain' = [chain EXCEPT ![op.rec] = 0]
            /\ dead' = [dead EXCEPT ![op.rec] = op.at]
            /\ UNCHANGED anchor

(* An insert, update or remove under the owner lock: its instant is minted *)
(* and its batch applied before the next one of the type mints.            *)
CommitChange ==
    /\ clock < MaxClock
    /\ clock' = clock + 1
    /\ \E r \in Records, kind \in {"save", "remove"} :
           ApplyOp([rec |-> r, kind |-> kind, at |-> clock + 1])
    /\ UNCHANGED <<exchange, client, watches, lostPolls>>

-----------------------------------------------------------------------------
(* The client asks.  The poll actor handles no other command while its     *)
(* tick is out, so a command snapshots the cursor only between ticks; as a *)
(* hazard it snapshots a topic whose first tick failed.                    *)
Ask(x) ==
    /\ watching
    /\ \A y \in {x, "tick"} : exchange[y] = NoExchange
    /\ x = "post" => /\ mode = "poll"
                     /\ cursor # Unset \/ "unregistered" \in ReadHazards
    /\ exchange' = [exchange EXCEPT ![x] = [step |-> "asked", since |-> cursor]]
    /\ UNCHANGED <<clock, collection, client, watches, lostPolls>>

(* Mutant: a failed exchange is the topic's last. *)
FaultStops(x) ==
    /\ exchange[x] # NoExchange
    /\ lostPolls < MaxLostPolls
    /\ lostPolls' = lostPolls + 1
    /\ exchange' = [exchange EXCEPT ![x] = [step |-> "failed"]]
    /\ UNCHANGED <<clock, collection, client, watches>>

Fault(x) ==
    /\ exchange[x] # NoExchange
    /\ lostPolls < MaxLostPolls
    /\ lostPolls' = lostPolls + 1
    /\ exchange' = [exchange EXCEPT ![x] = NoExchange]
    /\ UNCHANGED <<clock, collection, client, watches>>

(* tail_since *)
Past(log, since) == {r \in Records : log[r] > since}

(* The greatest of a set of instants, which begins at floor. *)
IsHighest(h, floor, instants) ==
    /\ h = floor \/ h \in instants
    /\ h >= floor /\ \A i \in instants : i <= h

(* Registration answers the floor and no event. *)
Register(x) ==
    /\ exchange[x].step = "asked" /\ exchange[x].since = Unset
    /\ \E h \in 0 .. clock :
           /\ IsHighest(h, 0, {chain[r] : r \in Records} \cup {dead[r] : r \in Records})
           /\ exchange' = [exchange EXCEPT ![x] =
                  [step |-> "answered", since |-> Unset, events |-> {}, cursor |-> h]]
    /\ UNCHANGED <<clock, collection, client, watches, lostPolls>>

(* tail_since of the record chain, *)
ReadChain(x) ==
    /\ exchange[x].step = "asked" /\ exchange[x].since # Unset
    /\ exchange' = [exchange EXCEPT ![x] =
           [step |-> "chain", since |-> exchange[x].since,
            saved |-> [r \in Past(chain, exchange[x].since) |-> chain[r]]]]
    /\ UNCHANGED <<clock, collection, client, watches, lostPolls>>

(* then of the removal log, *)
ReadDead(x) ==
    LET e == exchange[x] IN
    /\ e.step = "chain"
    /\ exchange' = [exchange EXCEPT ![x] =
           [step |-> "dead", since |-> e.since, saved |-> e.saved,
            removed |-> [r \in Past(dead, e.since) |-> dead[r]]]]
    /\ UNCHANGED <<clock, collection, client, watches, lostPolls>>

(* Mutant: the cursor handed back is the node's present. *)
IsLastKeyOrNow(h, since, timeline) == h = clock

IsLastKey(h, since, timeline) == IsHighest(h, since, {c.key : c \in timeline})

(* What was found, each with the key it was found at. *)
Changed(saved, removed) ==
    {[rec |-> r, key |-> saved[r], at |-> anchor[r]] : r \in DOMAIN saved}
        \cup {[rec |-> r, key |-> removed[r], at |-> removed[r]] : r \in DOMAIN removed}

(* then the anchors, whose version may be newer than the chain's key; the  *)
(* timeline is in the order of its keys, and its last key is the answer's  *)
(* cursor.                                                                 *)
Answer(x) ==
    LET e == exchange[x]
        timeline == Changed(e.saved, e.removed)
    IN
    /\ e.step = "dead"
    /\ \E h \in 0 .. clock :
           /\ IsLastKey(h, e.since, timeline)
           /\ exchange' = [exchange EXCEPT ![x] =
                  [step |-> "answered", since |-> e.since, events |-> timeline, cursor |-> h]]
    /\ UNCHANGED <<clock, collection, client, watches, lostPolls>>

-----------------------------------------------------------------------------
(* The client applies. *)

(* apply_reply: events are compared with the cursor before the answer. *)
PollDelivers(events, e) == cursor = Unset \/ e.at > cursor

(* deliver: each event moves the cursor, so it is compared with those      *)
(* before it as well.                                                      *)
PushDelivers(events, e) ==
    e.at > cursor /\ \A d \in events : d.key < e.key => d.at < e.at

Delivers(events, e) ==
    IF mode = "poll" THEN PollDelivers(events, e) ELSE PushDelivers(events, e)

(* What the client then knows of a record: the last event delivered for    *)
(* it, or what it knew.                                                    *)
Told(events, r) ==
    LET mine == {e \in events : e.rec = r /\ Delivers(events, e)} IN
    IF mine = {} THEN seen[r]
    ELSE (CHOOSE e \in mine : \A d \in mine : d.key <= e.key).at

(* Mutant: the answer's cursor replaces the client's. *)
MergedReplaces(mine, answered) == answered

(* A cursor another source moved past stays. *)
Merged(mine, answered) == IF mine < answered THEN answered ELSE mine

(* The cursor a push leaves behind is the greatest instant delivered. *)
Reached(events, h) ==
    IF mode = "poll" THEN h = cursor ELSE IsHighest(h, cursor, {e.at : e \in events})

(* An answer arrives: at once for a tick; a piggybacked one when the actor *)
(* is not waiting for its own.  An answer for a topic nobody watches any   *)
(* more changes nothing.                                                   *)
ApplyReply(x) ==
    LET e == exchange[x] IN
    /\ e.step = "answered"
    /\ x = "post" => exchange["tick"] = NoExchange
    /\ exchange' = [exchange EXCEPT ![x] = NoExchange]
    /\ IF watching
       THEN \E h \in Unset .. clock :
                /\ Reached(e.events, h)
                /\ cursor' = Merged(h, e.cursor)
                /\ seen' = [r \in Records |-> Told(e.events, r)]
                /\ start' = IF cursor = Unset THEN cursor' ELSE start
       ELSE UNCHANGED <<cursor, seen, start>>
    /\ UNCHANGED <<clock, collection, mode, watching, watches, lostPolls>>

(* The last watcher of the topic leaves, which forgets its cursor, or a    *)
(* first one comes, which asks at once.                                    *)
UnwatchTopic ==
    /\ watching /\ exchange["tick"] = NoExchange
    /\ watching' = FALSE
    /\ cursor' = Unset
    /\ UNCHANGED <<clock, collection, exchange, mode, start, seen, watches, lostPolls>>

WatchTopic ==
    /\ ~watching /\ exchange["tick"] = NoExchange
    /\ watches < MaxWatches
    /\ watches' = watches + 1
    /\ watching' = TRUE
    /\ seen' = [r \in Records |-> 0]
    /\ exchange' = [exchange EXCEPT !["tick"] = [step |-> "asked", since |-> Unset]]
    /\ UNCHANGED <<clock, collection, mode, cursor, start, lostPolls>>

-----------------------------------------------------------------------------
CatchUpInit ==
    /\ clock = 0
    /\ chain = [r \in Records |-> 0] /\ dead = chain /\ anchor = chain
    /\ exchange = [x \in {"tick", "post"} |-> NoExchange]
    /\ mode \in {"poll", "websocket"}
    /\ watching = FALSE /\ cursor = Unset /\ start = 0 /\ seen = chain
    /\ watches = 0 /\ lostPolls = 0

Navigate(x) == Register(x) \/ ReadChain(x) \/ ReadDead(x) \/ Answer(x)

CatchUpNext ==
    \/ CommitChange
    \/ \E x \in DOMAIN exchange :
           \/ Ask(x) \/ Fault(x)
           \/ Register(x) \/ ReadChain(x) \/ ReadDead(x) \/ Answer(x)
           \/ ApplyReply(x)
    \/ UnwatchTopic \/ WatchTopic

(* The timer keeps firing, the node answers and the actor runs. *)
Runs(x) == Navigate(x) \/ ApplyReply(x)

CatchUpSpec == CatchUpInit /\ [][CatchUpNext]_catchUpVars

CatchUpFairness == WF_catchUpVars(Ask("tick") \/ Runs("tick")) /\ WF_catchUpVars(Runs("post"))

-----------------------------------------------------------------------------
Log(log) == DOMAIN log \subseteq Records /\ \A r \in DOMAIN log : log[r] \in Nat

(* A record is found in the chain, in the removal log, or in both. *)
AtMostTwoEach(events) ==
    \A c, d, f \in events : c.rec = d.rec /\ d.rec = f.rec => c = d \/ d = f \/ c = f

(* What an exchange carries at each of its steps. *)
ExchangeOK(e) ==
    \/ e = NoExchange
    \/ e.step = "asked" /\ e.since \in Nat \cup {Unset}
    \/ e.step = "chain" /\ e.since \in Nat /\ Log(e.saved)
    \/ e.step = "dead" /\ e.since \in Nat /\ Log(e.saved) /\ Log(e.removed)
    \/ /\ e.step = "answered" /\ e.since \in Nat \cup {Unset} /\ e.cursor \in Nat
       /\ e.events \subseteq [rec : Records, key : Nat, at : Nat]
       /\ AtMostTwoEach(e.events)

(* Every variable stays in its range. *)
CatchUpTypeOK ==
    /\ clock \in Nat /\ cursor \in Nat \cup {Unset} /\ start \in Nat
    /\ chain \in [Records -> Nat] /\ dead \in [Records -> Nat]
    /\ anchor \in [Records -> Nat] /\ seen \in [Records -> Nat]
    /\ mode \in {"poll", "websocket"} /\ watching \in BOOLEAN
    /\ exchange = [x \in {"tick", "post"} |-> exchange[x]]
    /\ \A x \in {"tick", "post"} : ExchangeOK(exchange[x])

LastChange(r) == IF chain[r] < dead[r] THEN dead[r] ELSE chain[r]

(***************************************************************************)
(* The cursor never passes a change that was not delivered: a record whose *)
(* last change lies between the watch's start and the cursor is known to   *)
(* the client with that change, so no later navigation has to find it      *)
(* (navigate: nothing can be missed; apply_reply, resubscribe).            *)
(***************************************************************************)
CursorCoversDelivered ==
    watching /\ cursor # Unset =>
        \A r \in Records :
            start < LastChange(r) /\ LastChange(r) <= cursor => seen[r] >= LastChange(r)

(***************************************************************************)
(* The cursor never moves back while the topic is watched, whichever of a  *)
(* tick and a piggybacked delta is applied last (apply_reply).             *)
(***************************************************************************)
CursorNeverRegresses == [][watching' /\ cursor' # Unset => cursor <= cursor']_catchUpVars

(***************************************************************************)
(* Every change after the watch began reaches the client, unless the watch *)
(* leaves (the poll loop; exchanges may fail).                             *)
(***************************************************************************)
EventuallySeen ==
    []<>(watching /\ cursor # Unset =>
            \A r \in Records : start < LastChange(r) => seen[r] >= LastChange(r))
=============================================================================
