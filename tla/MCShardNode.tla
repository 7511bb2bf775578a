---------------------------- MODULE MCShardNode ----------------------------
(***************************************************************************)
(* Nodes for TLC.  TwoShards: two types owned by two shards, with every    *)
(* command on one of them.  OneShard: the default node, with the sync      *)
(* exchange and the delta that rides a reply.  Kept: upkeep beside reads   *)
(* and writes, with faults, and a shutdown; Unasked: upkeep alone, over a  *)
(* fragmented file.                                                        *)
(***************************************************************************)
EXTENDS ShardNode

CONSTANTS a, b, fn, sync

Request(hash, op, type, rec) ==
    [hash |-> hash, op |-> op, type |-> type, rec |-> rec, topic |-> "none",
     verified |-> TRUE, known |-> TRUE, call |-> FALSE]

Typed(ops) == {Request(a, op, a, 1) : op \in ops}
Delta(op) == [Request(a, op, a, 1) EXCEPT !.topic = a]
Poll == Request(sync, "poll", a, 1)
ListCall == [Request(a, "list", a, 1) EXCEPT !.call = TRUE]
Unknown == [Request(fn, "get", a, 1) EXCEPT !.known = FALSE]
Unverified == [Request(a, "get", a, 1) EXCEPT !.verified = FALSE]

Node(n, route, reqs) ==
    [shards |-> n, conns |-> Conns, route |-> route, requests |-> reqs, upkeep |-> FALSE, fragmented |-> FALSE,
     ends |-> FALSE]

ToOne == [h \in Hashes |-> 1]
Spread == [h \in Hashes |-> IF h = a THEN 2 ELSE 1]

TwoShards ==
    Node(2, Spread, Typed({"insert", "save"}) \cup {Request(b, "get", b, 1), Unknown})
OneShard ==
    Node(1, ToOne, Typed({"get"}) \cup {Delta("insert"), Delta("save"), Poll})
Kept ==
    [Node(1, ToOne, Typed({"insert"}) \cup {ListCall, Unverified})
        EXCEPT !.conns = {CHOOSE c \in Conns : TRUE}, !.upkeep = TRUE, !.ends = TRUE]

Unasked == [Node(1, ToOne, {}) EXCEPT !.upkeep = TRUE, !.fragmented = TRUE]

(* A function of the schema and a command of the type insert into one      *)
(* collection, on the default node.                                        *)
WithFunctions ==
    {Node(1, ToOne, {Request(a, "insert", a, 1), Request(fn, "insert", a, 1)})}

MCSetups == {TwoShards, OneShard, Kept, Unasked}
=============================================================================
