------------------------------ MODULE Framing -------------------------------
(***************************************************************************)
(* The envelopes client and node exchange (wavedb-net frame.rs, sync.rs,   *)
(* ws.rs, wavedb-core expose.rs) as wire types, and how messages lie on a  *)
(* connection: HTTP/1.1 heads, the length-prefixed frames of a POST        *)
(* response and WebSocket frames (wavedb-net http.rs and frames.rs,        *)
(* wavedb-platform http/native.rs, ws/codec.rs, ws/native.rs).             *)
(*                                                                         *)
(* The field order of every struct and the variant order of every enum are *)
(* the declarations', since the derive makes them the layout. A hash, an   *)
(* id, an instant, a user and a tenant are one byte each; a record's       *)
(* metadata is reduced to its CreatedAt instant.                           *)
(*                                                                         *)
(* A connection carries cells. A cell below Base is a byte. The text of a  *)
(* head is one cell per line and one per line end; the two leading bytes   *)
(* of a WebSocket frame are one cell each. Every reader is a function of   *)
(* the cells it has so far and of whether the peer has closed, and answers *)
(* "more" where the code would wait for the socket.                        *)
(***************************************************************************)
EXTENDS Wire, Bitwise

Field == WInt(1)

TopicT == WTup(<<Field, WOpt(Field)>>)                  \* struct_hash, pivot
CommandT == WEnum([i \in 1..10 |-> <<>>])               \* Get .. ListLen
FrameT == WTup(<<Field, CommandT, WBytes>>)             \* struct_hash, command, payload
AuthT == WEnum(<< <<Field>>, <<WBytes>> >>)             \* Anonymous, Token
TopicCursorT == WTup(<<TopicT, WOpt(Field)>>)           \* topic, since
RequestT == WTup(<<AuthT, FrameT, WVec(TopicCursorT)>>) \* auth, frame, sync

ReplyT == WEnum(<< <<WOpt(WBytes)>>, <<Field>>, <<WBool>>, <<>>,
                   <<WVec(WBytes)>>, <<WBytes>>, <<Field>> >>)
NodeErrorT == WTup(<<WEnum([i \in 1..18 |-> <<>>]), Field, WStr>>)
ResponseT == WEnum(<< <<ReplyT>>, <<NodeErrorT>> >>)
StreamFrameT == WEnum(<< <<WBytes>>, <<WBytes>>, <<ResponseT>> >>)

EventKindT == WEnum(<< <<>>, <<Field>> >>)              \* Saved, Removed
RecordEventT == WTup(<<TopicT, Field, EventKindT, WOpt(Field), WBytes>>)
SyncReplyT == WTup(<<WVec(RecordEventT), WVec(WTup(<<TopicT, Field>>))>>)

ClientMsgT == WEnum(<< <<AuthT>>, <<FrameT>>, <<TopicT>>, <<TopicT>> >>)
ServerMsgT == WEnum(<< <<>>, <<WBytes>>, <<ResponseT>>, <<RecordEventT>>,
                       <<TopicT, Field>> >>)

-----------------------------------------------------------------------------
Variant(tag, fields) == [tag |-> tag, fields |-> fields]

Anonymous(tenant) == Variant(0, <<tenant>>)
Token(bytes) == Variant(1, <<bytes>>)

Get == Variant(0, <<>>)
All == Variant(5, <<>>)

Value(opt) == Variant(0, <<opt>>)
Done == Variant(3, <<>>)
Values(entries) == Variant(4, <<entries>>)

OkR(reply) == Variant(0, <<reply>>)
ErrR(kind, hash) == Variant(1, << <<Variant(kind, <<>>), hash, <<>>>> >>)

Item(bytes) == Variant(0, <<bytes>>)
Sync(delta) == Variant(1, <<delta>>)
End(response) == Variant(2, <<response>>)

Hello(auth) == Variant(0, <<auth>>)
Subscribe(topic) == Variant(2, <<topic>>)
Unsubscribe(topic) == Variant(3, <<topic>>)

HelloOk == Variant(0, <<>>)
EventMsg(event) == Variant(3, <<event>>)
TopicOk(topic, tail) == Variant(4, <<topic, tail>>)

Saved == Variant(0, <<>>)
RecordEvent(topic, id, at) == <<topic, id, Saved, <<at>>, <<at>>>>

-----------------------------------------------------------------------------
(* How they lie on a connection *)

CONSTANTS MaxHead,      \* MAX_HEAD, in cells
          MaxBody,      \* MAX_BODY
          MaxMessage,   \* MAX_MESSAGE
          SmallLen,     \* the largest 7-bit length (125)
          Width16,      \* bytes of the middle length (2)
          Width64,      \* bytes of the long length (8)
          KeyLen        \* bytes of a mask (4)

Eol == 999
PostLine == 1000
GetLine == 1001
OkLine == 1002
BadLine == 1003
SwitchLine == 1004
OtherLine == 1005
ContentLength(n) == 2000 + n
WebsocketKey(k) == 3000 + k
WebsocketAccept(k) == 4000 + k

\* The accept value a key demands: SHA-1 and base64, here one-to-one.
AcceptKey(k) == WebsocketAccept(k)

HeadLines(lines) == Concat([i \in DOMAIN lines |-> <<lines[i], Eol>>]) \o <<Eol>>

PostHead(n) == HeadLines(<<PostLine, OtherLine, ContentLength(n)>>)
GetHead(k) == HeadLines(<<GetLine, OtherLine, WebsocketKey(k)>>)
OkHead == HeadLines(<<OkLine, OtherLine>>)
BadRequest == HeadLines(<<BadLine, ContentLength(0)>>)
SwitchingHead(accept) == HeadLines(<<SwitchLine, accept>>)

\* What a reader answers: st is "more", "none" (a clean end), "err" or "got".
More == [st |-> "more", head |-> <<>>, bytes |-> <<>>, rest |-> <<>>]
None == [More EXCEPT !.st = "none"]
Bad == [More EXCEPT !.st = "err"]
Got(head, bytes, rest) ==
  [st |-> "got", head |-> head, bytes |-> bytes, rest |-> rest]

\* Where the blank line starts, 0 when it has not arrived.
HeadEnd(buf) ==
  LET at == {i \in 1..(Len(buf) - 1) : buf[i] = Eol /\ buf[i + 1] = Eol}
  IN  IF at = {} THEN 0 ELSE CHOOSE i \in at : \A j \in at : i <= j

\* A head and the cells pulled off the socket behind it. A peer that closes
\* before its first cell ends the exchange cleanly.
ReadHead(buf, eof) ==
  LET end == HeadEnd(buf)
  IN  IF end > 0 THEN Got(First(buf, end - 1), <<>>, Past(buf, end + 1))
      ELSE IF Len(buf) > MaxHead THEN Bad
      ELSE IF ~eof THEN More
      ELSE IF buf = <<>> THEN None ELSE Bad

\* The value a header announced, as <<v>>; the last such line counts.
Header(head, from) ==
  LET at == {i \in 2..Len(head) : head[i] \in from..(from + 999)}
  IN  IF at = {} THEN <<>>
      ELSE <<head[CHOOSE i \in at : \A j \in at : i >= j] - from>>

\* One request: a POST body exactly as long as declared, or an upgrade with
\* nothing behind its head. head tells which: <<"post">> or <<"upgrade", key>>.
ReadRequest(buf, eof) ==
  LET h == ReadHead(buf, eof)
      length == Header(h.head, ContentLength(0))
      key == Header(h.head, WebsocketKey(0))
  IN  IF h.st # "got" THEN h
      ELSE CASE h.head[1] = PostLine ->
                  (IF length = <<>> \/ length[1] > MaxBody \/ Len(h.rest) > length[1] THEN Bad
                   ELSE IF Len(h.rest) = length[1] THEN Got(<<"post">>, h.rest, <<>>)
                   ELSE IF eof THEN Bad ELSE More)
             [] h.head[1] = GetLine /\ key # <<>> ->
                  (IF h.rest = <<>> THEN Got(<<"upgrade", key[1]>>, <<>>, <<>>) ELSE Bad)
             [] OTHER -> Bad

\* The most cells the next read of a request may take: any chunk while the
\* head is open, only the missing body bytes after it.
RequestWants(buf) ==
  LET h == ReadHead(buf, FALSE)
  IN  IF h.st # "got" THEN MaxHead ELSE Header(h.head, ContentLength(0))[1] - Len(h.rest)

\* A client's response head: a 200, or the upgrade the key demands. A close
\* before it is always a fault.
Required(h, ok) == IF h.st = "none" \/ (h.st = "got" /\ ~ok) THEN Bad ELSE h

ReadOkHead(buf, eof) ==
  LET Checked(h) == Required(h, h.head[1] = OkLine) IN Checked(ReadHead(buf, eof))

ReadUpgradeHead(buf, eof, key) ==
  LET Checked(h) == Required(h, h.head[1] = SwitchLine /\ Contains(h.head, AcceptKey(key)))
  IN  Checked(ReadHead(buf, eof))

-----------------------------------------------------------------------------
\* [len][bytes] frames of a response body.
WriteFrame(bytes) == Le(Len(bytes), LenBytes) \o bytes

NextFrame(buf, eof) ==
  LET len == FromLe(First(buf, LenBytes))
  IN  IF Len(buf) < LenBytes
      THEN IF ~eof THEN More ELSE IF buf = <<>> THEN None ELSE Bad
      ELSE IF len > MaxBody THEN Bad
      ELSE IF Len(buf) >= LenBytes + len
           THEN Got(<<>>, SubSeq(buf, LenBytes + 1, LenBytes + len), Past(buf, LenBytes + len))
      ELSE IF eof THEN Bad ELSE More

-----------------------------------------------------------------------------
\* WebSocket frames. The first cell holds FIN, the reserved bits and the
\* opcode, the second the mask bit and the 7-bit length.
OpContinuation == 0
OpText == 1
OpBinary == 2
OpClose == 8
OpPing == 9
OpPong == 10

B0(fin, op) == 100 + (IF fin THEN 128 ELSE 0) + op
B1(masked, len7) == 300 + (IF masked THEN 128 ELSE 0) + len7

Mask(payload, key) ==
  [i \in DOMAIN payload |-> payload[i] ^^ key[((i - 1) % KeyLen) + 1]]

\* One frame; key is <<>> for the server side, which writes bare.
WsFrame(fin, op, payload, key) ==
  LET n == Len(payload)
      masked == key # <<>>
      length == IF n <= SmallLen THEN <<B1(masked, n)>>
                ELSE IF n < Base^Width16 THEN <<B1(masked, SmallLen + 1)>> \o Be(n, Width16)
                ELSE <<B1(masked, SmallLen + 2)>> \o Be(n, Width64)
  IN  <<B0(fin, op)>> \o length \o key \o (IF masked THEN Mask(payload, key) ELSE payload)

WriteMessage(op, payload, key) == WsFrame(TRUE, op, payload, key)

\* One frame read: head is <<fin, opcode>>. Only a close before its first cell
\* is a clean end.
ReadFrame(buf, eof, requireMasked) ==
  LET Wait == IF eof THEN Bad ELSE More
      b0 == buf[1] - 100
      b1 == buf[2] - 300
      masked == b1 >= 128
      len7 == b1 % 128
      extra == IF len7 = SmallLen + 1 THEN Width16
               ELSE IF len7 = SmallLen + 2 THEN Width64 ELSE 0
      len == IF extra = 0 THEN len7 ELSE FromLe(Reverse(SubSeq(buf, 3, 2 + extra)))
      at == 2 + extra + (IF masked THEN KeyLen ELSE 0)
      payload == SubSeq(buf, at + 1, at + len)
  IN  IF buf = <<>> THEN (IF eof THEN None ELSE More)
      ELSE IF (b0 \div 16) % 8 # 0 THEN Bad
      ELSE IF Len(buf) < 2 THEN Wait
      ELSE IF requireMasked /\ ~masked THEN Bad
      ELSE IF Len(buf) < 2 + extra THEN Wait
      ELSE IF len > MaxMessage THEN Bad
      ELSE IF Len(buf) < at + len THEN Wait
      ELSE Got(<<b0 >= 128, b0 % 16>>,
               IF masked THEN Mask(payload, SubSeq(buf, 3 + extra, at)) ELSE payload,
               Past(buf, at + len))

\* The next message: binary frames reassemble across continuations, control
\* frames surface at once. partial is <<sofar>> or <<>>; the answer's partial
\* and rest are the reader's state after it, also when it must wait.
RECURSIVE NextMsg(_, _, _, _)
NextMsg(partial, buf, eof, requireMasked) ==
  LET Answer(st, op, bytes, part, rest) ==
        [st |-> st, op |-> op, bytes |-> bytes, partial |-> part, rest |-> rest]
      Refused(f) == Answer("err", f.head[2], <<>>, partial, f.rest)
      Data(fin, sofar, rest) ==
        IF fin THEN Answer("got", OpBinary, sofar, <<>>, rest)
        ELSE NextMsg(<<sofar>>, rest, eof, requireMasked)
      Taken(f, op) ==
        CASE f.st # "got" -> Answer(f.st, 0, <<>>, partial, buf)
          [] op = OpBinary /\ partial = <<>> -> Data(f.head[1], f.bytes, f.rest)
          [] op = OpContinuation /\ partial # <<>> ->
               IF Len(partial[1]) + Len(f.bytes) > MaxMessage THEN [Refused(f) EXCEPT !.partial = <<>>]
               ELSE Data(f.head[1], partial[1] \o f.bytes, f.rest)
          [] op \in {OpPing, OpPong, OpClose} -> Answer("got", op, f.bytes, partial, f.rest)
          [] OTHER -> Refused(f)
      Of(f) == Taken(f, IF f.st = "got" THEN f.head[2] ELSE OpText)
  IN  Of(ReadFrame(buf, eof, requireMasked))
=============================================================================
