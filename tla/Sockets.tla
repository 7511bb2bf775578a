------------------------------ MODULE Sockets ------------------------------
(***************************************************************************)
(* The TCP connection both halves of the transport run over (external): two *)
(* streams of cells, up to the node and down to the client. A read returns  *)
(* the next few of the cells written, of any number; when the connection    *)
(* breaks, no later write gets through and what is in flight may be lost    *)
(* from any point on.                                                       *)
(***************************************************************************)
EXTENDS Framing

CONSTANT Chunks   \* the numbers of cells the connection may hand over at once

VARIABLES
  up,     \* [flight, fin]: written and unread, nothing more will be written
  down,   \* the same, node to client
  cut     \* the connection broke

socketVars == <<up, down, cut>>

Silent == [flight |-> <<>>, fin |-> FALSE]

\* Nothing more will ever be readable.
Ended(stream) == stream.fin /\ stream.flight = <<>>

Written(stream, cells) ==
  IF stream.fin THEN stream ELSE [stream EXCEPT !.flight = @ \o cells]
Closed(stream) == [stream EXCEPT !.fin = TRUE]

SmallerOf(a, b) == IF a < b THEN a ELSE b

\* The chunks a read of at most limit cells may return, when sizes are the
\* numbers of cells the connection hands over at once.
Readable(stream, limit, sizes) ==
  {First(stream.flight, SmallerOf(n, SmallerOf(limit, Len(stream.flight)))) : n \in sizes}
    \ {<<>>}
Consumed(stream, chunk) == [stream EXCEPT !.flight = Past(@, Len(chunk))]

Cut ==
  /\ ~cut
  /\ ~(up.fin /\ down.fin)
  /\ up' = Closed(up) /\ down' = Closed(down)
  /\ cut' = TRUE

LoseUp ==
  /\ cut /\ up.flight # <<>>
  /\ up' = [up EXCEPT !.flight = <<>>]
  /\ UNCHANGED <<down, cut>>

LoseDown ==
  /\ cut /\ down.flight # <<>>
  /\ down' = [down EXCEPT !.flight = <<>>]
  /\ UNCHANGED <<up, cut>>
=============================================================================
