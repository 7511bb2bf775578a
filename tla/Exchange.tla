------------------------------ MODULE Exchange ------------------------------
(***************************************************************************)
(* One POSTed command: the caller (client.rs call and call_stream), the     *)
(* connection manager's run_post task that pumps the response, and the      *)
(* node's serve_connection. The three run concurrently; the caller may stop *)
(* reading at any point, and the connection may break between any two cells.*)
(***************************************************************************)
EXTENDS Sockets

CONSTANTS Requests,        \* requests a caller may make: [auth, frame]
          Answers(_),      \* the responses the node may give to a frame
          Cursors,         \* the poll watch's declaration
          Deltas           \* the SyncReply values a declaration may be answered with

VARIABLES
  caller,  \* [pc, want, got, result]
  pump,    \* run_post: [pc, buf, eof, lead]
  chan,    \* PostFrames: [items, open]
  server,  \* serve_connection: [pc, buf, todo, request, response, delta]
  poll     \* the identity's poll actor: [live, deltas]

exchangeVars == <<caller, pump, chan, server, poll>>

Pending == [st |-> "pending", reply |-> <<>>]
Faulted == [st |-> "fault", reply |-> <<>>]
NodeSaid(st, response) == [st |-> st, reply |-> <<response>>]

CallerIdle == [pc |-> "idle", want |-> <<>>, got |-> <<>>, result |-> Pending]
PumpIdle == [pc |-> "idle", buf |-> <<>>, eof |-> FALSE, lead |-> FALSE]
ServerIdle == [pc |-> "accept", buf |-> <<>>, todo |-> <<>>, request |-> <<>>,
               response |-> <<>>, delta |-> <<>>]

ExchangeInit ==
  /\ caller = CallerIdle
  /\ pump = PumpIdle
  /\ chan = [items |-> <<>>, open |-> FALSE]
  /\ server = ServerIdle
  /\ poll \in [live : BOOLEAN, deltas : {<<>>}]

IsWalk(frame) == frame[2] = All

\* Db::command or command_stream hands the parts to the manager, which starts
\* a task for the exchange; it takes the poll actor's channel if there is one.
Call == \E r \in Requests :
  /\ caller.pc = "idle"
  /\ caller' = [caller EXCEPT !.pc = "connecting", !.want = r]
  /\ pump' = [pump EXCEPT !.pc = "snapshot", !.lead = poll.live]
  /\ UNCHANGED <<chan, server, poll, socketVars>>

\* run_post up to the written request. The snapshot is empty when the poll
\* actor has ended in between.
SendRequest ==
  LET sync == IF pump.lead /\ poll.live THEN Cursors ELSE <<>>
      body == ToWire(RequestT, <<caller.want.auth, caller.want.frame, sync>>)
  IN  /\ pump.pc = "snapshot"
      /\ pump' = [pump EXCEPT !.pc = "head"]
      /\ up' = Written(up, PostHead(Len(body)) \o body)
      /\ UNCHANGED <<caller, chan, server, poll, down, cut>>

\* The address does not answer: an establishment fault.
ConnectFails ==
  /\ pump.pc = "snapshot"
  /\ pump' = [pump EXCEPT !.pc = "done"]
  /\ caller' = IF caller.pc = "gone" THEN caller
               ELSE [caller EXCEPT !.pc = "done", !.result = Faulted]
  /\ up' = Closed(up) /\ down' = Closed(down)
  /\ cut' = TRUE
  /\ UNCHANGED <<chan, server, poll>>

\* The watch ends and its actor with it.
PollEnds ==
  /\ poll.live
  /\ poll' = [poll EXCEPT !.live = FALSE]
  /\ UNCHANGED <<caller, pump, chan, server, socketVars>>

-----------------------------------------------------------------------------
\* The pump's socket goes down with the task.
PumpStops == /\ pump' = [pump EXCEPT !.pc = "done"]
             /\ chan' = [chan EXCEPT !.open = FALSE]

\* A read while the head is open: whatever has arrived, or the end.
PumpReadsHead == \E chunk \in Readable(down, MaxHead, Chunks) :
  /\ pump.pc = "head"
  /\ ReadHead(pump.buf, FALSE).st = "more"
  /\ pump' = [pump EXCEPT !.buf = @ \o chunk]
  /\ down' = Consumed(down, chunk)
  /\ UNCHANGED <<caller, chan, server, poll, up, cut>>

\* The head is complete, refused, or will never be: connected is answered.
PumpConnects ==
  LET h == ReadOkHead(pump.buf, Ended(down))
  IN  /\ pump.pc = "head"
      /\ h.st # "more"
      /\ IF h.st = "got" /\ caller.pc = "connecting"
         THEN /\ pump' = [pump EXCEPT !.pc = "frames", !.buf = h.rest]
              /\ chan' = [chan EXCEPT !.open = TRUE]
              /\ caller' = [caller EXCEPT !.pc = "reading"]
              /\ up' = up
         ELSE /\ PumpStops
              /\ caller' = IF caller.pc = "gone" THEN caller
                           ELSE [caller EXCEPT !.pc = "done", !.result = Faulted]
              /\ up' = Closed(up)
      /\ UNCHANGED <<server, poll, down, cut>>

\* FrameReader::fill pulls the next chunk, or learns that there is none.
PumpFills ==
  /\ pump.pc = "frames"
  /\ NextFrame(pump.buf, pump.eof).st = "more"
  /\ \/ \E chunk \in Readable(down, MaxBody, Chunks) :
          /\ pump' = [pump EXCEPT !.buf = @ \o chunk]
          /\ down' = Consumed(down, chunk)
     \/ /\ Ended(down)
        /\ pump' = [pump EXCEPT !.eof = TRUE]
        /\ down' = down
  /\ UNCHANGED <<caller, chan, server, poll, up, cut>>

\* A leading Sync goes to the poll actor and nowhere else; an undecodable
\* delta is consumed all the same.
RoutePiggyback(bytes) ==
  /\ Decodes(StreamFrameT, bytes)
  /\ ValueOf(StreamFrameT, bytes).tag = 1

PumpForwards ==
  LET f == NextFrame(pump.buf, pump.eof)
      delta == ValueOf(StreamFrameT, f.bytes).fields[1]
  IN  /\ pump.pc = "frames"
      /\ f.st = "got"
      /\ IF pump.lead /\ RoutePiggyback(f.bytes)
         THEN /\ poll' = IF poll.live /\ Decodes(SyncReplyT, delta)
                         THEN [poll EXCEPT !.deltas = Append(@, ValueOf(SyncReplyT, delta))]
                         ELSE poll
              /\ pump' = [pump EXCEPT !.lead = FALSE, !.buf = f.rest]
              /\ UNCHANGED <<chan, up>>
         ELSE /\ poll' = poll
              /\ IF caller.pc = "gone"
                 THEN PumpStops /\ up' = Closed(up)
                 ELSE /\ chan' = [chan EXCEPT !.items = Append(@, f.bytes)]
                      /\ pump' = [pump EXCEPT !.lead = FALSE, !.buf = f.rest]
                      /\ up' = up
      /\ UNCHANGED <<caller, server, down, cut>>

\* The body ended: cleanly, which closes the channel, or with a fault, which
\* is the channel's last item.
PumpEnds ==
  LET f == NextFrame(pump.buf, pump.eof)
  IN  /\ pump.pc = "frames"
      /\ f.st \in {"none", "err"}
      /\ pump' = [pump EXCEPT !.pc = "done"]
      /\ chan' = [items |-> IF f.st = "err" THEN Append(chan.items, <<>>) ELSE chan.items,
                  open |-> FALSE]
      /\ up' = Closed(up)
      /\ UNCHANGED <<caller, server, poll, down, cut>>

-----------------------------------------------------------------------------
Outcome(result) == caller' = [caller EXCEPT !.pc = "done", !.result = result]

\* What a caller makes of one frame off the channel. A scalar call is over at
\* its End and cannot take an item; a walk keeps its items and ends without a
\* fault only at an End(Ok).
TakesFrame(bytes) ==
  LET frame == ValueOf(StreamFrameT, bytes)
      walk == IsWalk(caller.want.frame)
  IN  CASE bytes = <<>> \/ ~Decodes(StreamFrameT, bytes) -> Outcome(Faulted)
        [] frame.tag = 0 ->
             (IF walk THEN caller' = [caller EXCEPT !.got = Append(@, frame.fields[1])]
              ELSE Outcome(Faulted))
        [] frame.tag = 1 -> UNCHANGED caller
        [] frame.tag = 2 -> Outcome(NodeSaid("answered", frame.fields[1]))

\* Mutant: a body that ends without its End frame counts as a finished walk.
CallerReadsTrusting ==
  /\ caller.pc = "reading"
  /\ \/ /\ chan.items # <<>>
        /\ TakesFrame(Head(chan.items))
        /\ chan' = [chan EXCEPT !.items = Tail(@)]
     \/ /\ chan.items = <<>> /\ ~chan.open
        /\ Outcome(NodeSaid("answered", OkR(Done)))
        /\ UNCHANGED chan
  /\ UNCHANGED <<pump, server, poll, socketVars>>

CallerReads ==
  /\ caller.pc = "reading"
  /\ \/ /\ chan.items # <<>>
        /\ TakesFrame(Head(chan.items))
        /\ chan' = [chan EXCEPT !.items = Tail(@)]
     \/ /\ chan.items = <<>> /\ ~chan.open
        /\ Outcome(Faulted)
        /\ UNCHANGED chan
  /\ UNCHANGED <<pump, server, poll, socketVars>>

\* The caller drops the call or its stream.
CallerLeaves ==
  /\ caller.pc \in {"connecting", "reading"}
  /\ caller' = [caller EXCEPT !.pc = "gone"]
  /\ chan' = [chan EXCEPT !.items = <<>>, !.open = FALSE]
  /\ UNCHANGED <<pump, server, poll, socketVars>>

-----------------------------------------------------------------------------
\* read_request takes cells until it has a request, a fault or a clean end.
ServerReads ==
  /\ server.pc = "accept"
  /\ ReadRequest(server.buf, FALSE).st = "more"
  /\ \E chunk \in Readable(up, RequestWants(server.buf), Chunks) :
       /\ server' = [server EXCEPT !.buf = @ \o chunk]
       /\ up' = Consumed(up, chunk)
  /\ UNCHANGED <<caller, pump, chan, poll, down, cut>>

\* The cells of a response, one write_frame at a time: a declared delta leads,
\* a Values reply becomes an item each and an End(Ok(Done)).
ResponseWrites(response, delta) ==
  LET isWalk == response.tag = 0 /\ response.fields[1].tag = 4
      entries == IF isWalk THEN response.fields[1].fields[1] ELSE <<>>
      end == IF isWalk THEN OkR(Done) ELSE response
      frames == (IF delta = <<>> THEN <<>> ELSE <<Sync(ToWire(SyncReplyT, delta[1]))>>)
                  \o [i \in DOMAIN entries |-> Item(entries[i])] \o <<End(end)>>
  IN  <<OkHead>> \o [i \in DOMAIN frames |-> WriteFrame(ToWire(StreamFrameT, frames[i]))]

\* The request is in: it is dispatched and its whole answer is known before
\* the first cell is written.
ServerDispatches ==
  LET r == ReadRequest(server.buf, Ended(up))
      request == ValueOf(RequestT, r.bytes)
  IN  /\ server.pc = "accept"
      /\ r.st = "got" /\ r.head[1] = "post"
      /\ IF ~Decodes(RequestT, r.bytes)
         THEN server' = [server EXCEPT !.pc = "write", !.todo = <<BadRequest>>]
         ELSE \E response \in Answers(request[2]),
                 delta \in IF request[3] = <<>> THEN {<<>>} ELSE {<<d>> : d \in Deltas} :
                server' = [server EXCEPT !.pc = "write", !.request = request,
                             !.response = <<response>>, !.delta = delta,
                             !.todo = ResponseWrites(response, delta)]
      /\ UNCHANGED <<caller, pump, chan, poll, socketVars>>

ServerWrites ==
  /\ server.pc = "write" /\ server.todo # <<>>
  /\ server' = [server EXCEPT !.todo = Tail(@)]
  /\ down' = Written(down, Head(server.todo))
  /\ UNCHANGED <<caller, pump, chan, poll, up, cut>>

\* Mutant: the connection is kept open behind the answer.
ServerClosesLater ==
  /\ \/ server.pc = "write" /\ server.todo = <<>>
     \/ server.pc = "accept" /\ ReadRequest(server.buf, Ended(up)).st \in {"err", "none"}
  /\ server' = [server EXCEPT !.pc = "closed"]
  /\ UNCHANGED <<caller, pump, chan, poll, socketVars>>

\* The connection is dropped when the answer is written or the request is bad.
ServerCloses ==
  /\ \/ server.pc = "write" /\ server.todo = <<>>
     \/ server.pc = "accept" /\ ReadRequest(server.buf, Ended(up)).st \in {"err", "none"}
  /\ server' = [server EXCEPT !.pc = "closed"]
  /\ down' = Closed(down)
  /\ UNCHANGED <<caller, pump, chan, poll, up, cut>>

-----------------------------------------------------------------------------
PumpNext ==
  PumpReadsHead \/ PumpConnects \/ PumpFills \/ PumpForwards \/ PumpEnds
ServerNext == ServerReads \/ ServerDispatches \/ ServerWrites \/ ServerCloses

\* When the pump, the caller and the node's task can run.
PumpCanRun ==
  \/ pump.pc = "head" /\ (down.flight # <<>> \/ ReadHead(pump.buf, Ended(down)).st # "more")
  \/ /\ pump.pc = "frames"
     /\ down.flight # <<>> \/ Ended(down) \/ NextFrame(pump.buf, pump.eof).st # "more"
CallerCanRead == caller.pc = "reading" /\ (chan.items # <<>> \/ ~chan.open)
ServerCanRun ==
  \/ server.pc = "write"
  \/ server.pc = "accept" /\ (up.flight # <<>> \/ ReadRequest(server.buf, Ended(up)).st # "more")

ExchangeNext ==
  \/ Call \/ SendRequest \/ ConnectFails \/ PollEnds
  \/ PumpNext \/ CallerReads \/ CallerLeaves \/ ServerNext

-----------------------------------------------------------------------------
\* What the node executed is the request that was made, whatever the chunks.
RequestArrivesIntact ==
  server.request # <<>> =>
    server.request[1] = caller.want.auth /\ server.request[2] = caller.want.frame

Answered(response) ==
  LET isWalk == response.tag = 0 /\ response.fields[1].tag = 4
  IN  IF isWalk THEN OkR(Done) ELSE response
Entries(response) ==
  IF response.tag = 0 /\ response.fields[1].tag = 4 THEN response.fields[1].fields[1] ELSE <<>>

\* A call that ends without a fault ends with exactly what the node answered,
\* every item of a walk included; what a caller has so far is a prefix of it.
\* A response that stops short of its End frame is a fault, never an answer.
NoSilentTruncation ==
  LET said == server.response
  IN  /\ caller.result.st = "answered" =>
           /\ said # <<>>
           /\ caller.result.reply[1] = Answered(said[1])
           /\ caller.got = Entries(said[1])
      /\ caller.got # <<>> => said # <<>> /\ IsPrefix(caller.got, Entries(said[1]))

\* A call is answered with a fault only when the connection broke.
EveryAnswerArrives ==
  caller.result.st = "fault" => cut

\* The delta a poll watch receives is the one the node computed for it, once,
\* and an answered call has handed it over before the caller saw the answer.
PiggybackReachesTheWatch ==
  /\ poll.deltas # <<>> => poll.deltas = server.delta
  /\ (caller.result.st = "answered" /\ poll.live) => poll.deltas = server.delta

\* Every call comes back and leaves nothing running: the pump and the node's
\* task end too, also when the caller left or the connection broke.
EveryCallEnds ==
  caller.pc # "idle" ~>
    caller.pc \in {"done", "gone"} /\ pump.pc = "done" /\ server.pc = "closed"
=============================================================================
