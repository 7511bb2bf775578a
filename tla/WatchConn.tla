----------------------------- MODULE WatchConn -----------------------------
(***************************************************************************)
(* Live watches over one WebSocket: the client's connection actor          *)
(* (wavedb-net/src/manager: ws_conn.rs, ws_dial.rs, with the registration  *)
(* of mod.rs and actor.rs) and the node's session with its subscription    *)
(* table (wavedb-quick-node/src: serve_ws.rs, subscribe.rs).               *)
(*                                                                         *)
(* A mutation is its instant: the n-th commit on a topic has instant n.    *)
(* Committing and publishing are separate (a shard hands mutations to the  *)
(* session thread over a channel); the session sends events and answers    *)
(* over a socket that may break at any moment.  Pings and the byte frames  *)
(* are left out.  The catch-up navigation answers from one moment; how it  *)
(* reads is the subject of CatchUp.                                        *)
(***************************************************************************)
EXTENDS Integers, Sequences, FiniteSets, Functions

CONSTANTS
    Watches,    \* calls of watch(), numbered in the order they are made
    Topics,
    Uses,       \* uses of the connection, each with: topics, what every watch is
                \* for; commits, bound: commits, all topics together; drops,
                \* bound: socket and exchange failures
    WatchHazards     \* subset of {"cancel", "rewatch", "eof"}

ASSUME WatchesHaveTopics ==
    /\ Watches \subseteq Nat
    /\ Uses \subseteq [topics : [Watches -> Topics], commits : Nat, drops : Nat]

VARIABLES
    (* the node *)
    tail,       \* topic -> greatest committed instant
    publishing, \* mutations on their way to the subscription table
    registered, \* topics of this connection's session
    acking,     \* topic whose Subscribe is being answered, or NoTopic
    outbox,     \* the session's event channel
    (* the socket *)
    open,       \* it is connected
    up, down,   \* messages in each direction
    drops,
    (* the client *)
    pc,         \* none, dial, serve, backoff, hello, resub, sync, release
    topics,     \* topic -> TopicState
    cmds,       \* the actor's command channel
    buffered,   \* events held back during a catch-up
    reply,      \* the sync answer, NoReply until the node gives it
    use,        \* one of Uses
    status,     \* watch -> off, asked, on, done (dropped), cancelled (dropped
                \* before it was answered), failed, ended
    since,      \* history: tail of the topic when watch() returned
    got         \* history: instants delivered to the watch, in order

node == <<tail, publishing, registered, acking, outbox>>
socket == <<open, up, down>>
actor == <<pc, topics, cmds, buffered, reply>>
watchers == <<use, status, since, got>>
watchVars == <<node, socket, drops, actor, watchers>>

topicOf == use.topics

NoTopic == "no topic"

ASSUME NoTopicIsNone == NoTopic \notin Topics

NoReply == [answered |-> FALSE]
NoCursor == -1

Fresh == [live |-> FALSE, subs |-> {}, pending |-> {}, cursor |-> NoCursor]

Msg(kind, t, n) == [kind |-> kind, topic |-> t, n |-> n]

Alive(w) == status[w] \in {"asked", "on"}

Entry(t) == IF t \in DOMAIN topics THEN topics[t] ELSE Fresh

WithEntry(t, state) ==
    [u \in DOMAIN topics \cup {t} |-> IF u = t THEN state ELSE topics[u]]

WithoutEntry(t) == [u \in DOMAIN topics \ {t} |-> topics[u]]

(* Acknowledged watches return Ok; what commits from now on is theirs. *)
Return(ws) ==
    LET waiting == {w \in ws : status[w] = "asked"} IN
    /\ status' = [w \in Watches |-> IF w \in waiting THEN "on" ELSE status[w]]
    /\ since' = [w \in Watches |-> IF w \in waiting THEN tail[topicOf[w]] ELSE since[w]]
    /\ UNCHANGED <<use, got>>

-----------------------------------------------------------------------------
(* The application. *)

(* An Unsubscribe for the topic is still unanswered, or may be sent. *)
Unsubscribing(t) ==
    \/ \E k \in DOMAIN up : up[k].kind = "unsubscribe" /\ up[k].topic = t
    \/ \E k \in DOMAIN down : down[k] = Msg("topic_ok", t, 0)
    \/ \E k \in DOMAIN cmds : cmds[k].kind = "unsubscribe" /\ topicOf[cmds[k].watch] = t

(* watch: the manager routes it to the actor, spawning one if none lives. *)
Watch(w) ==
    /\ status[w] = "off"
    /\ \A v \in Watches : status[v] = "off" => w <= v
    /\ Unsubscribing(topicOf[w]) => "rewatch" \in WatchHazards
    /\ status' = [status EXCEPT ![w] = "asked"]
    /\ cmds' = Append(cmds, [kind |-> "subscribe", watch |-> w])
    /\ pc' = IF pc = "none" THEN "dial" ELSE pc
    /\ UNCHANGED <<node, socket, drops, topics, buffered, reply, use, since, got>>

(* The actor and its socket are gone. *)
Gone ==
    /\ pc' = "none" /\ open' = FALSE
    /\ up' = <<>> /\ down' = <<>> /\ outbox' = <<>> /\ registered' = {}
    /\ acking' = NoTopic /\ cmds' = <<>> /\ buffered' = <<>> /\ reply' = NoReply
    /\ topics' = [t \in {} |-> Fresh]
    /\ UNCHANGED <<tail, publishing>>

(* WatchGuard::drop, or the cancellation of watch() itself; when the last  *)
(* watch leaves the manager drops the actor.                               *)
Unwatch(w) ==
    /\ Alive(w)
    /\ status[w] = "asked" => "cancel" \in WatchHazards
    /\ status' = [status EXCEPT ![w] = IF @ = "asked" THEN "cancelled" ELSE "done"]
    /\ IF \A v \in Watches \ {w} : ~Alive(v)
       THEN Gone
       ELSE /\ cmds' = Append(cmds, [kind |-> "unsubscribe", watch |-> w])
            /\ UNCHANGED <<node, socket, pc, topics, buffered, reply>>
    /\ UNCHANGED <<drops, use, since, got>>

-----------------------------------------------------------------------------
(* The actor with a live socket: handle_cmd, *)
HandleCmd ==
    /\ pc = "serve" /\ cmds # <<>>
    /\ cmds' = Tail(cmds)
    /\ LET w == Head(cmds).watch
           t == topicOf[w]
           state == Entry(t)
       IN  IF Head(cmds).kind = "subscribe"
           THEN LET joined == [state EXCEPT !.subs = @ \cup {w}] IN
                IF state.live
                THEN /\ topics' = WithEntry(t, joined)
                     /\ Return({w})
                     /\ UNCHANGED up
                ELSE /\ topics' = WithEntry(t, [joined EXCEPT !.pending = @ \cup {w}])
                     /\ up' = IF state.pending = {} THEN Append(up, Msg("subscribe", t, 0))
                              ELSE up
                     /\ UNCHANGED watchers
           ELSE LET left == [state EXCEPT !.subs = @ \ {w}] IN
                /\ UNCHANGED watchers
                /\ IF t \in DOMAIN topics /\ left.subs = {} /\ left.pending = {}
                   THEN topics' = WithoutEntry(t) /\ up' = Append(up, Msg("unsubscribe", t, 0))
                   ELSE /\ topics' = IF t \in DOMAIN topics THEN WithEntry(t, left) ELSE topics
                        /\ UNCHANGED up
    /\ UNCHANGED <<node, open, down, drops, pc, buffered, reply>>

(* ack_topic, *)
AckTopic(t, n) ==
    IF t \in DOMAIN topics
    THEN /\ topics' = [topics EXCEPT ![t].live = TRUE, ![t].pending = {},
                           ![t].cursor = IF @ = NoCursor THEN n ELSE @]
         /\ Return(topics[t].pending)
    ELSE UNCHANGED <<topics, watchers>>

(* Mutant: no dedup against the cursor. *)
FreshEventAlways(event) == event.topic \in DOMAIN topics

(* deliver drops what the cursor already covers. *)
FreshEvent(event) ==
    event.topic \in DOMAIN topics /\ event.n > topics[event.topic].cursor

(* deliver; a watch that dropped its receiver is pruned. *)
Deliver(event) ==
    IF FreshEvent(event)
    THEN LET listening == {w \in topics[event.topic].subs : Alive(w)} IN
         /\ topics' = [topics EXCEPT ![event.topic].cursor = event.n,
                                     ![event.topic].subs = listening]
         /\ got' = [w \in Watches |-> IF w \in listening THEN Append(got[w], event.n)
                                      ELSE got[w]]
    ELSE UNCHANGED <<topics, got>>

(* and handle_msg. *)
HandleMsg ==
    /\ pc = "serve" /\ down # <<>>
    /\ down' = Tail(down)
    /\ IF Head(down).kind = "topic_ok"
       THEN AckTopic(Head(down).topic, Head(down).n)
       ELSE Deliver(Head(down)) /\ UNCHANGED <<use, status, since>>
    /\ UNCHANGED <<node, open, up, drops, pc, cmds, buffered, reply>>

(* The reader ends, or a send fails: what the socket still held is gone. *)
Lost ==
    /\ open' = FALSE /\ up' = <<>> /\ down' = <<>> /\ outbox' = <<>>
    /\ registered' = {} /\ acking' = NoTopic
    /\ pc' = "backoff" /\ buffered' = <<>> /\ reply' = NoReply
    /\ UNCHANGED <<tail, publishing>>

SocketEnds ==
    /\ pc \in {"serve", "resub"} /\ ~open
    /\ Lost
    /\ UNCHANGED <<drops, topics, cmds, watchers>>

-----------------------------------------------------------------------------
(* reconnect: drain_offline and the commands that wake the backoff, *)
ApplyOffline ==
    /\ pc = "backoff" /\ cmds # <<>>
    /\ cmds' = Tail(cmds)
    /\ LET w == Head(cmds).watch
           t == topicOf[w]
           state == Entry(t)
           left == [state EXCEPT !.subs = @ \ {w}]
       IN  topics' = CASE Head(cmds).kind = "subscribe" ->
                            WithEntry(t, [state EXCEPT !.subs = @ \cup {w}, !.live = FALSE,
                                                       !.pending = @ \cup {w}])
                       [] Head(cmds).kind = "unsubscribe" /\ t \notin DOMAIN topics -> topics
                       [] OTHER -> IF left.subs = {} /\ left.pending = {}
                                   THEN WithoutEntry(t) ELSE WithEntry(t, left)
    /\ UNCHANGED <<node, socket, drops, pc, buffered, reply, watchers>>

Dial ==
    /\ pc = "backoff" /\ cmds = <<>>
    /\ pc' = "hello"
    /\ UNCHANGED <<node, socket, drops, topics, cmds, buffered, reply, watchers>>

(* The orders in which a set can be gone through. *)
Orders(S) == {order \in [1 .. Cardinality(S) -> S] : order \in Seq(S) /\ IsInjective(order)}

(* Mutant: a topic nobody is waiting for is not subscribed again. *)
HelloOkForgets ==
    /\ pc \in {"dial", "hello"}
    /\ open' = TRUE
    /\ IF pc = "dial"
       THEN pc' = "serve" /\ UNCHANGED <<topics, up>>
       ELSE /\ pc' = "resub"
            /\ topics' = [t \in DOMAIN topics |-> [topics[t] EXCEPT !.live = FALSE]]
            /\ \E order \in Orders({t \in DOMAIN topics : topics[t].pending # {}}) :
                   up' = [k \in DOMAIN order |-> Msg("subscribe", order[k], 0)]
    /\ UNCHANGED <<node, down, drops, cmds, buffered, reply, watchers>>

(* open succeeds: the first connection serves, a later one first           *)
(* subscribes every topic again.                                           *)
HelloOk ==
    /\ pc \in {"dial", "hello"}
    /\ open' = TRUE
    /\ IF pc = "dial"
       THEN pc' = "serve" /\ UNCHANGED <<topics, up>>
       ELSE /\ pc' = "resub"
            /\ topics' = [t \in DOMAIN topics |-> [topics[t] EXCEPT !.live = FALSE]]
            /\ \E order \in Orders(DOMAIN topics) :
                   up' = [k \in DOMAIN order |-> Msg("subscribe", order[k], 0)]
    /\ UNCHANGED <<node, down, drops, cmds, buffered, reply, watchers>>

(* The actor ends: queued watches fail, running ones end. *)
End ==
    /\ Gone
    /\ status' = [w \in Watches |-> CASE status[w] = "asked" -> "failed"
                                      [] status[w] = "on" -> "ended"
                                      [] OTHER -> status[w]]
    /\ UNCHANGED <<use, since, got>>

(* open fails: fatal for a first connection, retried otherwise; a node     *)
(* that closes before HelloOk is taken for a refusal.                      *)
HelloFails ==
    /\ pc \in {"dial", "hello"}
    /\ drops < use.drops
    /\ drops' = drops + 1
    /\ \E fatal \in {pc = "dial", pc = "dial" \/ "eof" \in WatchHazards} :
           IF fatal THEN End ELSE Lost /\ UNCHANGED <<topics, cmds, watchers>>

(* Mutant: live events are delivered during the catch-up. *)
ResubscribeMsgUnbuffered ==
    /\ pc = "resub" /\ down # <<>>
    /\ down' = Tail(down)
    /\ IF Head(down).kind = "topic_ok"
       THEN AckTopic(Head(down).topic, Head(down).n)
       ELSE Deliver(Head(down)) /\ UNCHANGED <<use, status, since>>
    /\ UNCHANGED <<node, open, up, drops, pc, cmds, buffered, reply>>

(* resubscribe: wait for every ack, holding events back, *)
ResubscribeMsg ==
    /\ pc = "resub" /\ down # <<>>
    /\ \E t \in DOMAIN topics : ~topics[t].live
    /\ down' = Tail(down)
    /\ IF Head(down).kind = "topic_ok"
       THEN AckTopic(Head(down).topic, Head(down).n) /\ UNCHANGED buffered
       ELSE /\ buffered' = Append(buffered, Head(down))
            /\ UNCHANGED <<topics, watchers>>
    /\ UNCHANGED <<node, open, up, drops, pc, cmds, reply>>

(* ask the node what each topic missed, *)
SyncOnce ==
    /\ pc = "resub"
    /\ \A t \in DOMAIN topics : topics[t].live
    /\ pc' = "sync"
    /\ UNCHANGED <<node, socket, drops, topics, cmds, buffered, reply, watchers>>

(* (the node answers) *)
SyncAnswer ==
    /\ pc = "sync" /\ reply = NoReply
    /\ reply' = [answered |-> TRUE,
                 cursors |-> [t \in DOMAIN topics |-> tail[t]],
                 events |-> UNION {{Msg("event", t, n) : n \in topics[t].cursor + 1 .. tail[t]} :
                                       t \in DOMAIN topics}]
    /\ UNCHANGED <<node, socket, drops, pc, topics, cmds, buffered, watchers>>

(* deliver that, each topic in order, then move the cursors, *)
CaughtUp ==
    /\ pc = "sync" /\ reply.answered
    /\ \/ \E e \in reply.events :
              /\ \A d \in reply.events : d.topic = e.topic => e.n <= d.n
              /\ Deliver(e)
              /\ reply' = [reply EXCEPT !.events = @ \ {e}]
              /\ UNCHANGED pc
       \/ /\ reply.events = {}
          /\ topics' = [t \in DOMAIN topics |-> [topics[t] EXCEPT !.cursor =
                            IF @ < reply.cursors[t] THEN reply.cursors[t] ELSE @]]
          /\ pc' = "release" /\ reply' = NoReply
          /\ UNCHANGED got
    /\ UNCHANGED <<node, socket, drops, cmds, buffered, use, status, since>>

(* and release the events held back. *)
Release ==
    /\ pc = "release"
    /\ IF buffered = <<>>
       THEN pc' = "serve" /\ UNCHANGED <<topics, buffered, got>>
       ELSE Deliver(Head(buffered)) /\ buffered' = Tail(buffered) /\ UNCHANGED pc
    /\ UNCHANGED <<node, socket, drops, cmds, reply, use, status, since>>

SyncFails ==
    /\ pc = "sync" /\ reply = NoReply
    /\ drops < use.drops
    /\ drops' = drops + 1
    /\ Lost
    /\ UNCHANGED <<topics, cmds, watchers>>

-----------------------------------------------------------------------------
(* The node. *)

Commit(t) ==
    /\ FoldFunction(+, 0, tail) < use.commits
    /\ tail' = [tail EXCEPT ![t] = @ + 1]
    /\ publishing' = Append(publishing, Msg("event", t, tail[t] + 1))
    /\ UNCHANGED <<registered, acking, outbox, socket, drops, actor, watchers>>

(* SubTable::publish *)
Publish ==
    /\ publishing # <<>>
    /\ publishing' = Tail(publishing)
    /\ outbox' = IF Head(publishing).topic \in registered
                 THEN Append(outbox, Head(publishing)) ELSE outbox
    /\ UNCHANGED <<tail, registered, acking, socket, drops, actor, watchers>>

(* handle_client: register, then read the tail to answer with; or          *)
(* unregister and answer.                                                  *)
HandleClient ==
    /\ open /\ acking = NoTopic /\ up # <<>>
    /\ up' = Tail(up)
    /\ LET t == Head(up).topic IN
       IF Head(up).kind = "subscribe"
       THEN /\ registered' = registered \cup {t}
            /\ acking' = t
            /\ UNCHANGED down
       ELSE /\ registered' = registered \ {t}
            /\ down' = Append(down, Msg("topic_ok", t, 0))
            /\ UNCHANGED acking
    /\ UNCHANGED <<tail, publishing, outbox, open, drops, actor, watchers>>

(* topic_tail, TopicOk *)
AnswerSubscribe ==
    /\ open /\ acking # NoTopic
    /\ down' = Append(down, Msg("topic_ok", acking, tail[acking]))
    /\ acking' = NoTopic
    /\ UNCHANGED <<tail, publishing, registered, outbox, open, up, drops, actor, watchers>>

SendEvent ==
    /\ open /\ acking = NoTopic /\ outbox # <<>>
    /\ down' = Append(down, Head(outbox))
    /\ outbox' = Tail(outbox)
    /\ UNCHANGED <<tail, publishing, registered, acking, open, up, drops, actor, watchers>>

(* The connection breaks; the client may already have read some of it. *)
Drop ==
    /\ open
    /\ drops < use.drops
    /\ drops' = drops + 1
    /\ open' = FALSE /\ up' = <<>> /\ outbox' = <<>>
    /\ registered' = {} /\ acking' = NoTopic
    /\ \E n \in 0 .. Len(down) : down' = SubSeq(down, 1, n)
    /\ UNCHANGED <<tail, publishing, actor, watchers>>

-----------------------------------------------------------------------------
WatchInit ==
    /\ tail = [t \in Topics |-> 0] /\ publishing = <<>> /\ registered = {}
    /\ acking = NoTopic /\ outbox = <<>>
    /\ open = FALSE /\ up = <<>> /\ down = <<>> /\ drops = 0
    /\ pc = "none" /\ topics = [t \in {} |-> Fresh] /\ cmds = <<>>
    /\ buffered = <<>> /\ reply = NoReply
    /\ use \in Uses
    /\ status = [w \in Watches |-> "off"]
    /\ since = [w \in Watches |-> 0] /\ got = [w \in Watches |-> <<>>]

Steps ==
    \/ HandleCmd \/ HandleMsg \/ SocketEnds
    \/ ApplyOffline \/ Dial \/ HelloOk \/ ResubscribeMsg \/ SyncOnce \/ SyncAnswer
    \/ CaughtUp \/ Release \/ Publish \/ HandleClient \/ AnswerSubscribe \/ SendEvent

WatchNext ==
    \/ \E w \in Watches : Watch(w) \/ Unwatch(w)
    \/ HandleCmd \/ HandleMsg \/ SocketEnds
    \/ ApplyOffline \/ Dial \/ HelloOk \/ HelloFails
    \/ ResubscribeMsg \/ SyncOnce \/ SyncAnswer \/ CaughtUp \/ Release
    \/ SyncFails
    \/ \E t \in Topics : Commit(t)
    \/ Publish \/ HandleClient \/ AnswerSubscribe \/ SendEvent \/ Drop

WatchSpec == WatchInit /\ [][WatchNext]_watchVars

(* Every task that can run does: the actor, its reader, the node's session *)
(* and the publisher.  Failures are bounded and not fair.                  *)
WatchFairness == WF_watchVars(Steps)

-----------------------------------------------------------------------------
Events == [kind : {"event"}, topic : Topics, n : Nat]

TopicStates ==
    [live : BOOLEAN, subs : SUBSET Watches, pending : SUBSET Watches, cursor : Nat \cup {NoCursor}]

Replies == [answered : {TRUE}, cursors : [DOMAIN topics -> Nat], events : SUBSET Events]

NodeTypeOK ==
    /\ tail \in [Topics -> Nat] /\ registered \subseteq Topics
    /\ acking \in Topics \cup {NoTopic}
    /\ publishing \in Seq(Events) /\ outbox \in Seq(Events)

SocketTypeOK ==
    /\ open \in BOOLEAN
    /\ up \in Seq([kind : {"subscribe", "unsubscribe"}, topic : Topics, n : {0}])
    /\ down \in Seq([kind : {"event", "topic_ok"}, topic : Topics, n : Nat])

ActorTypeOK ==
    /\ pc \in {"none", "dial", "serve", "backoff", "hello", "resub", "sync", "release"}
    /\ DOMAIN topics \subseteq Topics /\ topics \in [DOMAIN topics -> TopicStates]
    /\ cmds \in Seq([kind : {"subscribe", "unsubscribe"}, watch : Watches])
    /\ buffered \in Seq(Events)
    /\ reply = NoReply \/ (pc = "sync" /\ reply \in Replies)

WatchersTypeOK ==
    /\ use \in Uses
    /\ status \in [Watches -> {"off", "asked", "on", "done", "cancelled", "failed", "ended"}]
    /\ since \in [Watches -> Nat] /\ got \in [Watches -> Seq(Nat)]

(* Every variable stays in its range. *)
WatchTypeOK == NodeTypeOK /\ SocketTypeOK /\ ActorTypeOK /\ WatchersTypeOK

Settled ==
    /\ pc = "serve" /\ open
    /\ cmds = <<>> /\ up = <<>> /\ down = <<>> /\ outbox = <<>> /\ publishing = <<>>
    /\ acking = NoTopic

(* Every watch has been given what committed since it returned. *)
Delivered ==
    \A w \in Watches :
        status[w] = "on" => since[w] + 1 .. tail[topicOf[w]] \subseteq Range(got[w])

(***************************************************************************)
(* A mutation committed after watch() returned is not missed: once the     *)
(* connection has nothing in flight the watch has been given every one,    *)
(* whatever sockets broke in between (watch, resubscribe, deliver).        *)
(***************************************************************************)
NothingMissed == Settled => Delivered

(***************************************************************************)
(* A watch sees the mutations of its topic in commit order and none twice, *)
(* although live events and the catch-up overlap (deliver).                *)
(***************************************************************************)
InOrderOnce ==
    \A w \in Watches : \A j, k \in DOMAIN got[w] : j < k => got[w][j] < got[w][k]

(***************************************************************************)
(* Whatever commits after watch() returned is eventually delivered, unless *)
(* the watch leaves: the connection always gets back to a state where      *)
(* nothing is outstanding (run, reconnect, resubscribe).                   *)
(***************************************************************************)
EventuallyDelivered == []<>Delivered
=============================================================================
