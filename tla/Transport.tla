----------------------------- MODULE Transport -----------------------------
(***************************************************************************)
(* One connection between a client and a node, used either for a POSTed     *)
(* command (Exchange) or for a WebSocket session (WsSession).               *)
(***************************************************************************)
EXTENDS Exchange, WsSession

VARIABLE kind   \* "post", "watch", or "none": no connection

transportVars == <<socketVars, exchangeVars, sessionVars, kind>>

TransportInit ==
  /\ up = Silent /\ down = Silent /\ cut = FALSE
  /\ ExchangeInit
  /\ SessionIdle
  /\ kind \in {"post", "watch", "none"}
  /\ kind # "post" => ~poll.live
  /\ kind # "watch" => bus.split = 0 /\ bus.chunk = 100 /\ client.todo = <<>>

\* A connection that was pinged is not broken as well.
Network ==
  /\ kind # "none" /\ bus.pings = 0
  /\ Cut \/ LoseUp \/ LoseDown
  /\ UNCHANGED <<exchangeVars, sessionVars>>

TransportNext ==
  /\ \/ kind = "post" /\ ExchangeNext /\ UNCHANGED sessionVars
     \/ kind = "watch" /\ SessionNext /\ UNCHANGED exchangeVars
     \/ Network
  /\ UNCHANGED kind

\* What is in flight is readable, and every task runs on: the pump, the caller
\* while it reads, the node's connection task, its reader task and its session
\* loop. Nothing obliges a caller to leave, a client to operate, or a watch to
\* end; and the select of the session loop takes what clients send although
\* there may be events to push. Weak fairness throughout, with the condition
\* that enables a task spelled out.
Fairness ==
  /\ []<>~(kind = "post" /\ pump.pc = "snapshot") \/ []<><<SendRequest \/ ConnectFails>>_transportVars
  /\ []<>~(kind = "post" /\ PumpCanRun) \/ []<><<PumpNext>>_transportVars
  /\ []<>~(kind = "post" /\ CallerCanRead) \/ []<><<CallerReads>>_transportVars
  /\ []<>~(kind = "post" /\ ServerCanRun) \/ []<><<ServerNext>>_transportVars
  /\ []<>~(kind = "watch" /\ HostCanRead) \/ []<><<host.reading /\ (HostReads \/ HostReader)>>_transportVars
  /\ []<>~(kind = "watch" /\ HostCanRun) \/ []<><<HostRuns>>_transportVars

TransportSpec == TransportInit /\ [][TransportNext]_transportVars /\ Fairness

-----------------------------------------------------------------------------
\* A command and its answer cross the connection whole or the caller is told a
\* fault: the node runs what was asked, an answer is all of what the node said,
\* a fault means the connection broke, and a piggybacked delta reaches the watch
\* it is for (run_post, call_stream, serve_connection).
ExchangesExact ==
  RequestArrivesIntact /\ NoSilentTruncation /\ EveryAnswerArrives /\ PiggybackReachesTheWatch

\* A session's messages are handled once and in order, and from the moment
\* subscribe returns no event of the topic is lost or reordered (WsSession, serve).
SubscriptionsLive == HandledInOrder /\ EventsNeverDropped /\ LiveOnceAcked

\* Whatever breaks, nothing is left running: every call comes back and its tasks
\* end, and a session whose client is gone is torn down with its subscriptions.
EveryTaskEnds == EveryCallEnds /\ SessionsAreForgotten
=============================================================================
