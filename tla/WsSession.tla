----------------------------- MODULE WsSession -----------------------------
(***************************************************************************)
(* One WebSocket session: the client's WsSession over ws::Conn, and the     *)
(* node's upgrade, reader task and session loop (wavedb-net ws_session.rs,  *)
(* wavedb-platform ws/native.rs, wavedb-quick-node serve.rs, serve_ws.rs).  *)
(* Messages may reach the node fragmented and between pings, as a browser   *)
(* or a proxy may send them.                                                *)
(***************************************************************************)
EXTENDS Sockets

CONSTANTS Identities,   \* the Auth values a client may present
          BadTokens,    \* tokens gate 1 refuses
          Topics,       \* the topics a client may watch
          MaskKeys,     \* the masks a client may draw
          Paths,        \* [split, chunk]: where the way to the node fragments messages
                        \* (0 = nowhere), and the cells it hands over at once
          Scripts,      \* the calls an application may make on a session
          MaxEvents,    \* mutations published
          MaxPings      \* pings by the peer or on the way

VARIABLES
  client,   \* [pc, buf, partial, pending, got, topic, acked, sent, todo]
  host,     \* [pc, buf, partial, reading, anonymous, inbox, topics, events, handled, pushed]
  bus       \* what goes on around them: [clock, owed, pings, split, chunk]

sessionVars == <<client, host, bus>>

SessionIdle ==
  /\ \E todo \in Scripts :
       client = [pc |-> "dial", buf |-> <<>>, partial |-> <<>>, pending |-> <<>>, got |-> <<>>,
                 topic |-> <<>>, acked |-> {}, sent |-> <<>>, todo |-> todo]
  /\ host = [pc |-> "accept", buf |-> <<>>, partial |-> <<>>, reading |-> FALSE,
             anonymous |-> FALSE, inbox |-> <<>>, topics |-> {}, events |-> <<>>,
             handled |-> <<>>, pushed |-> <<>>]
  /\ \E p \in Paths :
       bus = [clock |-> 0, owed |-> {}, pings |-> 0, split |-> p.split, chunk |-> p.chunk]

Nonce == 7

\* One client message as its frames: masked, whole or in two fragments.
Masked(op, payload, key, at) ==
  IF at \in 1..(Len(payload) - 1)
  THEN WsFrame(FALSE, op, First(payload, at), key)
         \o WsFrame(TRUE, OpContinuation, Past(payload, at), key)
  ELSE WriteMessage(op, payload, key)

\* The client's state after sending msg, and what it put on the connection.
Sends(c, msg) ==
  /\ client' = [c EXCEPT !.sent = Append(@, msg)]
  /\ \E key \in MaskKeys :
       up' = Written(up, Masked(OpBinary, ToWire(ClientMsgT, msg), key, bus.split))

-----------------------------------------------------------------------------
\* ws::connect: the upgrade request, then the response head.
Dial ==
  /\ client.pc = "dial"
  /\ client' = [client EXCEPT !.pc = "upgrading"]
  /\ up' = Written(up, GetHead(Nonce))
  /\ UNCHANGED <<host, bus, down, cut>>

ReadsUpgrade == \E chunk \in Readable(down, MaxHead, {bus.chunk}) :
  /\ client.pc = "upgrading"
  /\ ReadHead(client.buf, FALSE).st = "more"
  /\ client' = [client EXCEPT !.buf = @ \o chunk]
  /\ down' = Consumed(down, chunk)
  /\ UNCHANGED <<host, bus, up, cut>>

Fails(c) == /\ client' = [c EXCEPT !.pc = "failed"]
            /\ up' = Closed(up)

\* The head is in: bytes behind it are the start of the frame stream. open
\* presents the identity at once.
Upgraded == \E auth \in Identities :
  LET h == ReadUpgradeHead(client.buf, Ended(down), Nonce)
  IN  /\ client.pc = "upgrading"
      /\ h.st # "more"
      /\ IF h.st = "got" THEN Sends([client EXCEPT !.pc = "hello", !.buf = h.rest], Hello(auth))
         ELSE Fails(client)
      /\ UNCHANGED <<host, bus, down, cut>>

\* The calls of an open session, one at a time, as the application makes them.
Operates ==
  LET op == Head(client.todo)
      c == [client EXCEPT !.todo = Tail(@)]
  IN  /\ client.pc = "idle" /\ client.todo # <<>>
      /\ CASE op.call = "subscribe" ->
                Sends([c EXCEPT !.pc = "ack", !.topic = op.topic], Subscribe(op.topic))
           [] op.call = "unsubscribe" ->
                Sends([c EXCEPT !.pc = "ack", !.topic = op.topic, !.acked = @ \ {op.topic}],
                      Unsubscribe(op.topic))
           [] op.call = "next_event" ->
                /\ client' = IF client.pending = <<>> THEN [c EXCEPT !.pc = "event"]
                             ELSE [c EXCEPT !.got = Append(@, Head(client.pending)),
                                            !.pending = Tail(@)]
                /\ up' = up
      /\ UNCHANGED <<host, bus, down, cut>>

\* close announces the close; dropping the session ends the socket.
Closes ==
  /\ client.pc = "idle"
  /\ client' = [client EXCEPT !.pc = "closed"]
  /\ \E key \in MaskKeys : up' = Closed(Written(up, WriteMessage(OpClose, <<>>, key)))
  /\ UNCHANGED <<host, bus, down, cut>>

\* Mutant: an event that lands while an ack is awaited is skipped.
ReceivesSkipping(c, msg) ==
  LET acks == msg.tag = 4 /\ msg.fields[1] = c.topic
  IN  CASE c.pc = "hello" /\ msg = HelloOk -> client' = [c EXCEPT !.pc = "idle"] /\ up' = up
        [] c.pc = "ack" /\ acks -> client' = [c EXCEPT !.pc = "idle"] /\ up' = up
        [] c.pc = "ack" /\ msg.tag = 3 -> client' = c /\ up' = up
        [] c.pc = "event" /\ msg.tag = 3 ->
             client' = [c EXCEPT !.pc = "idle", !.got = Append(@, msg.fields[1])] /\ up' = up
        [] OTHER -> Fails(c)

\* What the waiting call makes of a message: the binding ack, the ack of its
\* topic, an event, which is kept while an ack is awaited, or a fault.
Receives(c, msg) ==
  LET acks == msg.tag = 4 /\ msg.fields[1] = c.topic
      subscribing == c.sent[Len(c.sent)].tag = 2
  IN  CASE c.pc = "hello" /\ msg = HelloOk ->
             client' = [c EXCEPT !.pc = "idle"] /\ up' = up
        [] c.pc = "ack" /\ acks ->
             /\ client' = [c EXCEPT !.pc = "idle",
                             !.acked = IF subscribing THEN @ \cup {c.topic} ELSE @]
             /\ up' = up
        [] c.pc = "ack" /\ msg.tag = 3 ->
             client' = [c EXCEPT !.pending = Append(@, msg.fields[1])] /\ up' = up
        [] c.pc = "event" /\ msg.tag = 3 ->
             client' = [c EXCEPT !.pc = "idle", !.got = Append(@, msg.fields[1])] /\ up' = up
        [] OTHER -> Fails(c)

\* The reads of Conn::recv, inside a waiting call.
ClientFills == \E chunk \in Readable(down, MaxMessage, {bus.chunk}) :
  /\ client.pc \in {"hello", "ack", "event"}
  /\ NextMsg(client.partial, client.buf, FALSE, FALSE).st = "more"
  /\ client' = [client EXCEPT !.buf = @ \o chunk]
  /\ down' = Consumed(down, chunk)
  /\ UNCHANGED <<host, bus, up, cut>>

\* Conn::recv inside a waiting call: pings are answered, pongs skipped, a close
\* is answered and ends the session.
ClientReceives ==
  LET m == NextMsg(client.partial, client.buf, Ended(down), FALSE)
      c == [client EXCEPT !.buf = m.rest, !.partial = m.partial]
  IN  /\ client.pc \in {"hello", "ack", "event"}
      /\ m.st # "more"
      /\ down' = down
      /\ CASE m.st # "got" -> Fails(c)
           [] m.op = OpBinary ->
                IF Decodes(ServerMsgT, m.bytes) THEN Receives(c, ValueOf(ServerMsgT, m.bytes))
                ELSE Fails(c)
           [] m.op = OpPing ->
                /\ client' = c
                /\ \E key \in MaskKeys : up' = Written(up, WriteMessage(OpPong, m.bytes, key))
           [] m.op = OpPong -> client' = c /\ up' = up
           [] m.op = OpClose ->
                /\ client' = [c EXCEPT !.pc = "failed"]
                /\ \E key \in MaskKeys : up' = Closed(Written(up, WriteMessage(OpClose, <<>>, key)))
      /\ UNCHANGED <<host, bus, cut>>

-----------------------------------------------------------------------------
\* The reads of read_request, and of the reader task after it.
HostReads == \E chunk \in Readable(up, MaxHead, {bus.chunk}) :
  /\ \/ host.pc = "accept" /\ ReadRequest(host.buf, FALSE).st = "more"
     \/ host.reading /\ NextMsg(host.partial, host.buf, FALSE, TRUE).st = "more"
  /\ host' = [host EXCEPT !.buf = @ \o chunk]
  /\ up' = Consumed(up, chunk)
  /\ UNCHANGED <<client, bus, down, cut>>

HostEnd(h) == [h EXCEPT !.pc = "closed", !.reading = FALSE, !.topics = {}]

\* The upgrade is answered and the reader task starts; anything else ends the
\* connection.
HostUpgrades ==
  LET r == ReadRequest(host.buf, Ended(up))
  IN  /\ host.pc = "accept"
      /\ r.st # "more"
      /\ IF r.st = "got" /\ r.head[1] = "upgrade"
         THEN /\ host' = [host EXCEPT !.pc = "hello", !.reading = TRUE, !.buf = <<>>]
              /\ down' = Written(down, SwitchingHead(AcceptKey(r.head[2])))
         ELSE /\ host' = HostEnd(host)
              /\ down' = Closed(down)
      /\ UNCHANGED <<client, bus, up, cut>>

\* read_loop: messages and pings are forwarded, anything else ends the task.
HostReader ==
  LET m == NextMsg(host.partial, host.buf, Ended(up), TRUE)
      h == [host EXCEPT !.partial = m.partial, !.buf = m.rest]
      Forward(item) == [h EXCEPT !.inbox = Append(@, item)]
  IN  /\ host.reading
      /\ m.st # "more"
      /\ host' = CASE m.st = "got" /\ m.op = OpBinary /\ Decodes(ClientMsgT, m.bytes) ->
                        Forward([ping |-> <<>>, msg |-> <<ValueOf(ClientMsgT, m.bytes)>>])
                   [] m.st = "got" /\ m.op = OpPing ->
                        Forward([ping |-> <<m.bytes>>, msg |-> <<>>])
                   [] m.st = "got" /\ m.op = OpPong -> h
                   [] OTHER -> [h EXCEPT !.reading = FALSE]
      /\ UNCHANGED <<client, bus, socketVars>>

Bare(msg) == WriteMessage(OpBinary, ToWire(ServerMsgT, msg), <<>>)
CloseFrame == WriteMessage(OpClose, <<>>, <<>>)

Identified(auth) == ~(auth.tag = 1 /\ auth.fields[1] \in BadTokens)

\* Gate 1, once: the first message must be a Hello that verifies.
HostHello ==
  LET item == Head(host.inbox)
      ok == item.msg # <<>> /\ item.msg[1].tag = 0 /\ Identified(item.msg[1].fields[1])
  IN  /\ host.pc = "hello"
      /\ host.inbox # <<>> \/ ~host.reading
      /\ IF host.inbox # <<>> /\ ok
         THEN /\ host' = [host EXCEPT !.pc = "serve", !.inbox = Tail(@),
                            !.handled = Append(@, item.msg[1]),
                            !.anonymous = item.msg[1].fields[1].tag = 0]
              /\ down' = Written(down, Bare(HelloOk))
         ELSE /\ host' = HostEnd(host)
              /\ down' = Closed(Written(down, CloseFrame))
      /\ UNCHANGED <<client, bus, up, cut>>

\* handle_client. A second hello and an anonymous subscribe end the session;
\* no client of the crate sends a Call.
HostHandles ==
  LET item == Head(host.inbox)
      msg == item.msg[1]
      h == [host EXCEPT !.inbox = Tail(@),
              !.handled = IF item.msg = <<>> THEN @ ELSE Append(@, msg)]
  IN  /\ host.pc = "serve" /\ host.inbox # <<>>
      /\ CASE item.ping # <<>> ->
                /\ host' = h
                /\ down' = Written(down, WriteMessage(OpPong, item.ping[1], <<>>))
           [] item.msg # <<>> /\ msg.tag = 2 /\ ~host.anonymous ->
                /\ host' = [h EXCEPT !.pc = "acking", !.topics = @ \cup {msg.fields[1]}]
                /\ down' = down
           [] item.msg # <<>> /\ msg.tag = 3 ->
                /\ host' = [h EXCEPT !.topics = @ \ {msg.fields[1]}]
                /\ down' = Written(down, Bare(TopicOk(msg.fields[1], 0)))
           [] OTHER ->
                /\ host' = HostEnd(h)
                /\ down' = Closed(Written(down, CloseFrame))
      /\ UNCHANGED <<client, bus, up, cut>>

\* A subscription is in the table before topic_tail reads the topic's newest
\* instant, and acked after it; the loop takes nothing else in between.
HostAcks ==
  /\ host.pc = "acking"
  /\ host' = [host EXCEPT !.pc = "serve"]
  /\ down' = Written(down, Bare(TopicOk(host.handled[Len(host.handled)].fields[1], bus.clock)))
  /\ UNCHANGED <<client, bus, up, cut>>

\* The other branch of the select: the next queued event is written.
HostPushes ==
  /\ host.pc = "serve" /\ host.events # <<>>
  /\ host' = [host EXCEPT !.events = Tail(@), !.pushed = Append(@, Head(host.events))]
  /\ down' = Written(down, Bare(EventMsg(Head(host.events))))
  /\ UNCHANGED <<client, bus, up, cut>>

\* The reader is gone and what it forwarded is handled: teardown.
HostEnds ==
  /\ host.pc = "serve" /\ host.inbox = <<>> /\ ~host.reading
  /\ host' = HostEnd(host)
  /\ down' = Closed(down)
  /\ UNCHANGED <<client, bus, up, cut>>

\* Another connection commits a mutation; it is queued for this session when
\* its topic is subscribed.
Publish == \E t \in Topics :
  LET event == RecordEvent(t, 1, bus.clock + 1)
  IN  /\ host.pc \in {"serve", "acking"} /\ bus.clock < MaxEvents
      /\ bus' = [bus EXCEPT !.clock = @ + 1,
                   !.owed = IF t \in client.acked THEN @ \cup {event} ELSE @]
      /\ host' = IF t \in host.topics THEN [host EXCEPT !.events = Append(@, event)] ELSE host
      /\ UNCHANGED <<client, socketVars>>

\* A ping between two frames, in either direction.
Pings ==
  /\ bus.pings < MaxPings /\ ~cut
  /\ bus' = [bus EXCEPT !.pings = @ + 1]
  /\ \/ /\ client.pc \in {"idle", "ack", "event"}
        /\ \E key \in MaskKeys : up' = Written(up, WriteMessage(OpPing, <<1>>, key))
        /\ down' = down
     \/ /\ host.pc = "serve"
        /\ down' = Written(down, WriteMessage(OpPing, <<2>>, <<>>))
        /\ up' = up
  /\ UNCHANGED <<client, host, cut>>

-----------------------------------------------------------------------------
\* When the node's reader task and its session loop can run.
HostCanRead ==
  /\ host.reading
  /\ up.flight # <<>> \/ NextMsg(host.partial, host.buf, Ended(up), TRUE).st # "more"
HostCanRun ==
  \/ host.pc = "accept" /\ (up.flight # <<>> \/ ReadRequest(host.buf, Ended(up)).st # "more")
  \/ host.pc = "acking"
  \/ host.pc \in {"hello", "serve"} /\ (host.inbox # <<>> \/ ~host.reading)
HostRuns ==
  \/ host.pc = "accept" /\ HostReads
  \/ HostUpgrades \/ HostHello \/ HostHandles \/ HostAcks \/ HostEnds

SessionNext ==
  \/ Dial \/ ReadsUpgrade \/ Upgraded \/ Operates \/ Closes
  \/ ClientFills \/ ClientReceives
  \/ HostReads \/ HostUpgrades \/ HostReader \/ HostHello \/ HostHandles \/ HostAcks
  \/ HostPushes \/ HostEnds \/ Publish \/ Pings

-----------------------------------------------------------------------------
Messages(items) ==
  LET kept == SelectSeq(items, LAMBDA i : i.msg # <<>>)
  IN  [i \in DOMAIN kept |-> kept[i].msg[1]]

\* The node handles what the client sent, in order and intact: no message is
\* lost, repeated or torn, whatever the chunks, the masks and the fragments.
HandledInOrder == IsPrefix(host.handled \o Messages(host.inbox), client.sent)

\* An event that lands while an ack is awaited is kept for next_event: what the
\* session has handed out and holds back is what the node pushed, in order.
EventsNeverDropped == IsPrefix(client.got \o client.pending, host.pushed)

\* Once subscribe has returned, a mutation of the topic cannot be missed: its
\* event is pushed or queued for the session as long as it lasts.
LiveOnceAcked ==
  host.pc \in {"serve", "acking"} => bus.owed \subseteq ToSet(host.pushed) \cup ToSet(host.events)

\* A session whose client is gone is torn down on the node, with every
\* subscription it held.
SessionsAreForgotten ==
  client.pc \in {"closed", "failed"} ~> host.pc = "closed" /\ host.topics = {}
=============================================================================
