------------------------------ MODULE MCClient ------------------------------
(***************************************************************************)
(* The client's three protocols with a node: commands with the offline     *)
(* queue behind them, watches over a WebSocket, and the navigation that    *)
(* catches a topic up.  They share no state, so a step of one changes      *)
(* nothing the others say: a behaviour runs one of them, and the other two *)
(* rest in their initial states, where none of their fairness asks for a   *)
(* step.                                                                   *)
(***************************************************************************)
EXTENDS OfflineQueue, WatchConn, CatchUp

CONSTANTS
    Parts,      \* the protocols that are run
    a, b        \* topics

VARIABLE part

Use(topicsOf, m, n) == [topics |-> topicsOf, commits |-> m, drops |-> n]

(* Two watches of one topic, or of two. *)
Shared == {Use(<<a, a>>, 2, 2), Use(<<a, b>>, 2, 1), Use(<<a, b>>, 1, 2)}

(* One that keeps the connection alive, and two of another topic. *)
KeptAlive == {Use(<<b, a, a>>, 1, 0)}

vars == <<part, queueVars, watchVars, catchUpVars>>

Init ==
    /\ part \in Parts
    /\ QueueInit /\ WatchInit /\ CatchUpInit
    /\ part # "watch" => use = CHOOSE u \in Uses : TRUE
    /\ part # "catch up" => mode = "poll"

Next ==
    /\ \/ part = "queue" /\ QueueNext /\ UNCHANGED <<watchVars, catchUpVars>>
       \/ part = "watch" /\ WatchNext /\ UNCHANGED <<queueVars, catchUpVars>>
       \/ part = "catch up" /\ CatchUpNext /\ UNCHANGED <<queueVars, watchVars>>
    /\ UNCHANGED part

Spec == Init /\ [][Next]_vars

FairSpec == Spec /\ QueueFairness /\ WatchFairness /\ CatchUpFairness
=============================================================================
