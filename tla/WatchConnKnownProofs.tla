------------------------ MODULE WatchConnKnownProofs ------------------------
(***************************************************************************)
(* The inductive invariant for "nothing is missed", MissInv, and the parts *)
(* of it about the socket, the order of events, the subscription handshake *)
(* and the watches the actor knows.  WatchConnMissProofs has the rest.     *)
(***************************************************************************)
EXTENDS WatchConnProofs

-----------------------------------------------------------------------------
(* The invariant. *)

(* The actor has a socket, which may be broken. *)
Connected == pc \in {"serve", "resub", "sync", "release"}

(* Without a socket nothing is in flight; the catch-up's state lasts only  *)
(* as long as the catch-up.                                                *)
Quiet ==
    /\ ~Connected => /\ ~open /\ up = <<>> /\ down = <<>> /\ buffered = <<>>
    /\ ~open => registered = {} /\ outbox = <<>> /\ acking = NoTopic
    /\ pc = "serve" => buffered = <<>>
    /\ pc \in {"none", "dial"} => DOMAIN topics = {}

Event(t, n) == Msg("event", t, n)

(* Events of one topic are in the order of their commits, *)
Ordered(s) ==
    \A j, k \in DOMAIN s :
        j < k /\ s[j].kind = "event" /\ s[k].kind = "event" /\ s[j].topic = s[k].topic
            => s[j].n < s[k].n

(* and those of S are before those of R. *)
Earlier(S, R) ==
    \A d \in S, e \in R :
        d.kind = "event" /\ e.kind = "event" /\ d.topic = e.topic => d.n < e.n

Dated(S) == \A e \in S : e.n <= tail[e.topic]

(* The way of an event: publishing, outbox, down, buffered. *)
Queues ==
    /\ Ordered(publishing) /\ Ordered(outbox) /\ Ordered(down) /\ Ordered(buffered)
    /\ Earlier(Range(outbox), Range(publishing)) /\ Earlier(Range(down), Range(publishing))
    /\ Earlier(Range(buffered), Range(publishing)) /\ Earlier(Range(down), Range(outbox))
    /\ Earlier(Range(buffered), Range(outbox)) /\ Earlier(Range(buffered), Range(down))
    /\ Dated(Range(publishing)) /\ Dated(Range(outbox))
    /\ Dated(Range(down)) /\ Dated(Range(buffered))

Cursors == \A t \in DOMAIN topics : topics[t].cursor <= tail[t]

(* The messages of a kind about a topic: there is one, there are not two. *)
Has(s, kind, t) == \E k \in DOMAIN s : s[k].kind = kind /\ s[k].topic = t

Single(s, kind, t) ==
    \A j, k \in DOMAIN s :
        s[j].kind = kind /\ s[j].topic = t /\ s[k].kind = kind /\ s[k].topic = t => j = k

Asking(t) == \E k \in DOMAIN cmds : cmds[k].kind = "subscribe" /\ topicOf[cmds[k].watch] = t

(* A Subscribe is outstanding only for a topic that is not live, and one   *)
(* at a time; no Unsubscribe, nor the answer to one, meets a topic that is *)
(* watched.                                                                *)
Asked(t) ==
    /\ Has(up, "subscribe", t) \/ acking = t => t \in DOMAIN topics /\ ~topics[t].live
    /\ Has(up, "subscribe", t) => acking # t /\ ~Has(down, "topic_ok", t)
    /\ acking = t => t \in registered /\ ~Has(down, "topic_ok", t)
    /\ Asking(t) /\ t \notin DOMAIN topics =>
           ~Has(up, "unsubscribe", t) /\ ~Has(down, "topic_ok", t)
    /\ Single(up, "subscribe", t)
    /\ \A m \in Range(down) :
           m.kind = "topic_ok" /\ m.topic = t /\ m.n # 0 => t \in DOMAIN topics

Entered(t) ==
    /\ ~Has(up, "unsubscribe", t)
    /\ topics[t].live => ~Has(down, "topic_ok", t) /\ topics[t].pending = {}
    /\ Has(down, "topic_ok", t) /\ open => t \in registered
    /\ Connected /\ open /\ topics[t].live => t \in registered
    /\ pc = "serve" /\ ~topics[t].live => topics[t].pending # {}
    /\ pc \in {"sync", "release"} => topics[t].live
    /\ Single(down, "topic_ok", t)

Leaving ==
    \A j, k \in DOMAIN cmds :
        j < k /\ cmds[j].kind = "unsubscribe" /\ cmds[k].kind = "subscribe"
            => topicOf[cmds[j].watch] # topicOf[cmds[k].watch]

Handshake == (\A t \in Topics : Asked(t)) /\ (\A t \in DOMAIN topics : Entered(t)) /\ Leaving

(* The actor knows the watches that returned, as listeners of a topic that *)
(* was acknowledged.                                                       *)
Listens(t) ==
    /\ \A w \in topics[t].subs \cup topics[t].pending : topicOf[w] = t
    /\ \A w \in topics[t].pending : status[w] # "off" /\ (Alive(w) => w \in topics[t].subs)
    /\ topics[t].live => topics[t].cursor # NoCursor

Joined(w) ==
    /\ topicOf[w] \in DOMAIN topics /\ w \in topics[topicOf[w]].subs
    /\ topics[topicOf[w]].cursor # NoCursor
    /\ pc = "serve" => topics[topicOf[w]].live

Queued ==
    \A k \in DOMAIN cmds :
        /\ status[cmds[k].watch] # "off"
        /\ cmds[k].kind = "unsubscribe" => ~Alive(cmds[k].watch)

Known ==
    /\ \A t \in DOMAIN topics : Listens(t)
    /\ \A w \in Watches : status[w] = "on" => Joined(w)
    /\ Queued

(* The watch has been given commit n; commit n is on its way to the actor, *)
(* or not yet published.                                                   *)
Given(w, n) == n \in Range(got[w])

InFlight(t, n) ==
    Event(t, n) \in Range(buffered) \/ Event(t, n) \in Range(down) \/ Event(t, n) \in Range(outbox)

Unpublished(t, n) == Event(t, n) \in Range(publishing)

(* For a watch that returned, and every commit since: it was given, or it  *)
(* is still ahead of the cursor, and                                       *)
(*  - while events are delivered, nothing in flight overtakes it, and on a *)
(*    socket that is not broken it is on its way;                          *)
(*  - during a catch-up it is in the answer, if that covers it.            *)
Ahead(w, t) ==
    \A n \in since[w] + 1 .. tail[t] : Given(w, n) \/ n > topics[t].cursor

Flowing(w, t) ==
    /\ \A m \in 1 .. tail[t] : InFlight(t, m) =>
           \A n \in since[w] + 1 .. m - 1 : Given(w, n) \/ InFlight(t, n)
    /\ open => \A n \in since[w] + 1 .. tail[t] :
           Given(w, n) \/ InFlight(t, n) \/ Unpublished(t, n)

Promised(w, t) ==
    \A n \in since[w] + 1 .. reply.cursors[t] : Given(w, n) \/ Event(t, n) \in reply.events

Covered ==
    \A w \in Watches : status[w] = "on" =>
        /\ Ahead(w, topicOf[w])
        /\ pc \in {"serve", "release"} => Flowing(w, topicOf[w])
        /\ pc = "sync" /\ reply.answered => Promised(w, topicOf[w])

(* The answer of a catch-up, and what it does not cover. *)
AnswerOK(t) ==
    /\ topics[t].cursor <= reply.cursors[t] /\ reply.cursors[t] <= tail[t]
    /\ \A m \in 1 .. tail[t] : InFlight(t, m) =>
           \A n \in reply.cursors[t] + 1 .. m - 1 : InFlight(t, n)
    /\ open => \A n \in reply.cursors[t] + 1 .. tail[t] : InFlight(t, n) \/ Unpublished(t, n)

Answered ==
    pc = "sync" /\ reply.answered =>
        /\ \A e \in reply.events : e.topic \in DOMAIN topics /\ e.n <= reply.cursors[e.topic]
        /\ \A t \in DOMAIN topics : AnswerOK(t)

MissInv ==
    /\ WatchTypeOK /\ Quiet /\ Queues /\ Cursors /\ Handshake /\ Known /\ Covered /\ Answered

-----------------------------------------------------------------------------
(* Sequences of messages. *)

(* In an empty queue there is nothing. *)
LEMMA EmptyIs ==
    /\ Range(<<>>) = {} /\ Ordered(<<>>)
    /\ \A kind, t : ~Has(<<>>, kind, t) /\ Single(<<>>, kind, t)
BY SMTT(30) DEF Range, Ordered, Has, Single

(* What is in a sequence that grew, *)
LEMMA RangeAppend ==
    ASSUME NEW S, NEW s \in Seq(S), NEW e \in S PROVE Range(Append(s, e)) = Range(s) \cup {e}
<1>1. /\ Len(s) \in Nat /\ DOMAIN s = 1 .. Len(s)
      /\ DOMAIN Append(s, e) = 1 .. Len(s) + 1
      /\ \A i \in 1 .. Len(s) : Append(s, e)[i] = s[i]
      /\ Append(s, e)[Len(s) + 1] = e
  BY SMTT(30), AppendPlaces
<1>2. ASSUME NEW x \in Range(Append(s, e)) PROVE x \in Range(s) \cup {e}
  <2>1. PICK i \in 1 .. Len(s) + 1 : x = Append(s, e)[i]
    BY Zenon, <1>1, <1>2 DEF Range
  <2>2. CASE i = Len(s) + 1
    BY Zenon, <1>1, <2>1, <2>2
  <2>3. CASE i \in 1 .. Len(s)
    BY Zenon, <1>1, <2>1, <2>3 DEF Range
  <2> QED
    BY SMTT(30), <1>1, <2>2, <2>3
<1>3. ASSUME NEW x \in Range(s) \cup {e} PROVE x \in Range(Append(s, e))
  <2>1. CASE x = e
    <3>1. Len(s) + 1 \in 1 .. Len(s) + 1
      BY SMTT(30), <1>1
    <3> QED
      BY Zenon, <1>1, <2>1, <3>1 DEF Range
  <2>2. CASE x \in Range(s)
    <3>1. PICK i \in 1 .. Len(s) : x = s[i]
      BY Zenon, <1>1, <2>2 DEF Range
    <3>2. i \in 1 .. Len(s) + 1
      BY SMTT(30), <1>1
    <3> QED
      BY Zenon, <1>1, <3>1, <3>2 DEF Range
  <2> QED
    BY Zenon, <1>3, <2>1, <2>2
<1> QED
  BY Zenon, <1>2, <1>3

(* or lost its head. *)
LEMMA RangeTail ==
    ASSUME NEW S, NEW s \in Seq(S), s # <<>> PROVE Range(s) = {Head(s)} \cup Range(Tail(s))
<1>1. /\ Head(s) = s[1] /\ Len(s) \in Nat /\ Len(s) >= 1 /\ DOMAIN s = 1 .. Len(s)
      /\ DOMAIN Tail(s) = 1 .. Len(s) - 1
      /\ \A i \in 1 .. Len(s) - 1 : Tail(s)[i] = s[i + 1]
  BY Zenon, TailPlaces
<1>2. ASSUME NEW x \in Range(s) PROVE x \in {Head(s)} \cup Range(Tail(s))
  <2>1. PICK i \in 1 .. Len(s) : x = s[i]
    BY Zenon, <1>1, <1>2 DEF Range
  <2>2. CASE i = 1
    BY Zenon, <1>1, <2>1, <2>2
  <2>3. CASE i # 1
    <3>1. i - 1 \in 1 .. Len(s) - 1 /\ (i - 1) + 1 = i
      BY SMTT(30), <1>1, <2>3
    <3>2. Tail(s)[i - 1] = x /\ i - 1 \in DOMAIN Tail(s)
      BY Zenon, <1>1, <2>1, <3>1
    <3> QED
      BY Zenon, <3>2 DEF Range
  <2> QED
    BY Zenon, <2>2, <2>3
<1>3. ASSUME NEW x \in {Head(s)} \cup Range(Tail(s)) PROVE x \in Range(s)
  <2>1. CASE x = Head(s)
    <3>1. 1 \in 1 .. Len(s)
      BY SMTT(30), <1>1
    <3> QED
      BY Zenon, <1>1, <2>1, <3>1 DEF Range
  <2>2. CASE x \in Range(Tail(s))
    <3>1. PICK i \in 1 .. Len(s) - 1 : x = s[i + 1]
      BY Zenon, <1>1, <2>2 DEF Range
    <3>2. i + 1 \in 1 .. Len(s)
      BY SMTT(30), <1>1
    <3> QED
      BY Zenon, <1>1, <3>1, <3>2 DEF Range
  <2> QED
    BY Zenon, <1>3, <2>1, <2>2
<1> QED
  BY Zenon, <1>2, <1>3

(* The elements are of the sequence's type. *)
LEMMA RangeIn ==
    ASSUME NEW S, NEW s \in Seq(S) PROVE Range(s) \subseteq S
BY SMTT(30), Lengths DEF Range

(* Without its head, *)
LEMMA OrderedTail ==
    ASSUME NEW S, NEW s \in Seq(S), s # <<>>, Ordered(s)
    PROVE  Ordered(Tail(s)) /\ Earlier({Head(s)}, Range(Tail(s)))
<1>1. /\ Head(s) = s[1] /\ Len(s) \in Nat /\ Len(s) >= 1 /\ DOMAIN s = 1 .. Len(s)
      /\ DOMAIN Tail(s) = 1 .. Len(s) - 1
      /\ \A i \in 1 .. Len(s) - 1 : Tail(s)[i] = s[i + 1]
  BY Zenon, TailPlaces
<1>2. PICK r : r = Tail(s)
  BY Zenon
<1>3. ASSUME NEW j \in 1 .. Len(s) - 1, NEW k \in 1 .. Len(s) - 1, j < k, r[j].kind = "event",
             r[k].kind = "event", r[j].topic = r[k].topic
      PROVE  r[j].n < r[k].n
  <2>1. j + 1 \in DOMAIN s /\ k + 1 \in DOMAIN s /\ j + 1 < k + 1 /\ r[j] = s[j + 1] /\ r[k] = s[k + 1]
    BY SMTT(30), <1>1, <1>2, <1>3
  <2> QED
    BY Zenon, <1>3, <2>1 DEF Ordered
<1>4. ASSUME NEW e \in Range(r), Head(s).kind = "event", e.kind = "event", Head(s).topic = e.topic
      PROVE  Head(s).n < e.n
  <2>1. PICK k \in 1 .. Len(s) - 1 : e = r[k]
    BY Zenon, <1>1, <1>2, <1>4 DEF Range
  <2>2. k + 1 \in DOMAIN s /\ 1 \in DOMAIN s /\ 1 < k + 1 /\ e = s[k + 1]
    BY SMTT(30), <1>1, <1>2, <2>1
  <2> QED
    BY Zenon, <1>1, <1>4, <2>2 DEF Ordered
<1> QED
  BY Zenon, <1>1, <1>2, <1>3, <1>4 DEF Ordered, Earlier

(* and cut short: the cut keeps what is earlier than something it keeps. *)
LEMMA OrderedPrefix ==
    ASSUME NEW s \in Seq(Downward), NEW n \in 0 .. Len(s), Ordered(s)
    PROVE  /\ Ordered(SubSeq(s, 1, n)) /\ Range(SubSeq(s, 1, n)) \subseteq Range(s)
           /\ \A e \in Range(SubSeq(s, 1, n)), d \in Range(s) :
                  d.kind = "event" /\ e.kind = "event" /\ d.topic = e.topic /\ d.n < e.n
                      => d \in Range(SubSeq(s, 1, n))
<1>1. /\ Len(s) \in Nat /\ n \in Nat /\ DOMAIN s = 1 .. Len(s)
      /\ DOMAIN SubSeq(s, 1, n) = 1 .. n
      /\ \A i \in 1 .. n : SubSeq(s, 1, n)[i] = s[i]
  BY SMTT(30), PrefixPlaces
<1>2. PICK r : r = SubSeq(s, 1, n)
  BY Zenon
<1>3. \A i \in 1 .. n : i \in DOMAIN s /\ r[i] = s[i]
  BY SMTT(30), <1>1, <1>2
<1>4. Range(r) \subseteq Range(s)
  BY Zenon, <1>1, <1>2, <1>3 DEF Range
<1>5. Ordered(r)
  BY SMTT(30), <1>1, <1>2, <1>3 DEF Ordered
<1>6. ASSUME NEW e \in Range(r), NEW d \in Range(s), d.kind = "event", e.kind = "event",
             d.topic = e.topic, d.n < e.n
      PROVE  d \in Range(r)
  <2>1. PICK k \in 1 .. n : e = s[k] /\ k \in DOMAIN s
    BY Zenon, <1>1, <1>2, <1>3 DEF Range
  <2>2. PICK j \in 1 .. Len(s) : d = s[j]
    BY Zenon, <1>1 DEF Range
  <2>3. d.n \in Nat /\ e.n \in Nat
    BY Zenon, <1>4, RangeIn DEF Downward
  <2>4. ~(k < j)
    BY SMTT(30), <1>1, <1>6, <2>1, <2>2, <2>3 DEF Ordered
  <2>5. j \in 1 .. n
    BY SMTT(30), <1>1, <2>1, <2>4
  <2> QED
    BY Zenon, <1>1, <1>2, <1>3, <2>2, <2>5 DEF Range
<1> QED
  BY Zenon, <1>2, <1>4, <1>5, <1>6

-----------------------------------------------------------------------------
(* Connections. *)

(* Every step keeps a missing socket quiet (run, reconnect). *)
LEMMA QuietKept ==
    ASSUME WatchTypeOK, Quiet, [WatchNext]_watchVars PROVE Quiet'
<1> USE DEF Connected
<1>0. /\ pc \in {"none", "dial", "serve", "backoff", "hello", "resub", "sync", "release"}
      /\ open \in BOOLEAN
  BY Zenon DEF WatchTypeOK, ActorTypeOK, SocketTypeOK
<1>1. ASSUME NEW w \in Watches, Watch(w) PROVE Quiet'
  BY Zenon, <1>0, <1>1 DEF Watch, Quiet, node, socket
<1>2. ASSUME Gone PROVE Quiet'
  BY Zenon, <1>2 DEF Gone, Quiet
<1>3. ASSUME NEW w \in Watches, Unwatch(w) PROVE Quiet'
  BY Zenon, <1>2, <1>3 DEF Unwatch, Quiet, node, socket
<1>4. CASE HandleCmd
  BY Zenon, <1>4 DEF HandleCmd, Quiet, node
<1>5. CASE HandleMsg
  BY Zenon, <1>5 DEF HandleMsg, Quiet, node
<1>6. ASSUME Lost PROVE Quiet'
  BY Zenon, <1>6 DEF Lost, Quiet
<1>7. CASE SocketEnds \/ SyncFails
  BY Zenon, <1>6, <1>7 DEF SocketEnds, SyncFails
<1>8. CASE ApplyOffline
  BY Zenon, <1>8 DEF ApplyOffline, Quiet, node, socket
<1>9. CASE Dial
  BY Zenon, <1>9 DEF Dial, Quiet, node, socket
<1>10. CASE HelloOk
  BY Zenon, <1>0, <1>10 DEF HelloOk, Quiet, node
<1>11. CASE HelloFails
  BY Zenon, <1>2, <1>6, <1>11 DEF HelloFails, End
<1>12. CASE ResubscribeMsg
  BY Zenon, <1>12 DEF ResubscribeMsg, Quiet, node
<1>13. CASE SyncOnce
  BY SMTT(30), <1>13 DEF SyncOnce, Quiet, node, socket
<1>14. CASE SyncAnswer
  BY Zenon, <1>14 DEF SyncAnswer, Quiet, node, socket
<1>15. CASE CaughtUp
  <2>1. pc = "sync" /\ pc' \in {"sync", "release"} /\ UNCHANGED <<node, socket, buffered>>
    BY Zenon, <1>15 DEF CaughtUp
  <2> QED
    BY Zenon, <2>1 DEF Quiet, node, socket
<1>16. CASE Release
  <2>1. /\ pc = "release" /\ UNCHANGED <<node, socket>>
        /\ pc' = "release" \/ (pc' = "serve" /\ buffered' = <<>>)
    BY Zenon, <1>16 DEF Release
  <2> QED
    BY Zenon, <2>1 DEF Quiet, node, socket
<1>17. ASSUME NEW t \in Topics, Commit(t) PROVE Quiet'
  BY Zenon, <1>17 DEF Commit, Quiet, socket, actor
<1>18. CASE Publish
  BY Zenon, <1>18 DEF Publish, Quiet, socket, actor
<1>19. CASE HandleClient
  BY Zenon, <1>19 DEF HandleClient, Quiet, actor
<1>20. CASE AnswerSubscribe
  BY Zenon, <1>20 DEF AnswerSubscribe, Quiet, actor
<1>21. CASE SendEvent
  BY Zenon, <1>21 DEF SendEvent, Quiet, actor
<1>22. CASE Drop
  BY Zenon, <1>22 DEF Drop, Quiet, actor
<1>23. CASE UNCHANGED watchVars
  BY Zenon, <1>23 DEF watchVars, Quiet, node, socket, actor
<1> QED
  BY Zenon, <1>1, <1>3, <1>4, <1>5, <1>7, <1>8, <1>9, <1>10, <1>11, <1>12, <1>13, <1>14, <1>15, <1>16,
     <1>17, <1>18, <1>19, <1>20, <1>21, <1>22, <1>23 DEF WatchNext

-----------------------------------------------------------------------------
(* The order of events. *)

(* The types the argument needs. *)
LEMMA MissTypes ==
    ASSUME WatchTypeOK
    PROVE  /\ up \in Seq(Upward) /\ down \in Seq(Downward)
           /\ publishing \in Seq(Events) /\ outbox \in Seq(Events) /\ buffered \in Seq(Events)
           /\ Range(publishing) \subseteq Events /\ Range(outbox) \subseteq Events
           /\ Range(buffered) \subseteq Events /\ Range(down) \subseteq Downward
           /\ tail \in [Topics -> Nat] /\ registered \subseteq Topics
           /\ Table(topics) /\ \A t \in DOMAIN topics : topics[t].cursor \in Int /\ t \in Topics
           /\ \A t \in DOMAIN topics : topics[t].subs \subseteq Watches /\ topics[t].pending \subseteq Watches
<1>1. /\ up \in Seq(Upward) /\ down \in Seq(Downward)
      /\ publishing \in Seq(Events) /\ outbox \in Seq(Events) /\ buffered \in Seq(Events)
      /\ tail \in [Topics -> Nat] /\ registered \subseteq Topics
      /\ Table(topics)
  BY Zenon DEF WatchTypeOK, NodeTypeOK, SocketTypeOK, ActorTypeOK, Upward, Downward, Table
<1>2. /\ Range(publishing) \subseteq Events /\ Range(outbox) \subseteq Events
      /\ Range(buffered) \subseteq Events /\ Range(down) \subseteq Downward
  BY Zenon, <1>1, RangeIn
<1>3. \A s \in TopicStates : s.cursor \in Int /\ s.subs \subseteq Watches /\ s.pending \subseteq Watches
  BY SMTT(30) DEF TopicStates, NoCursor
<1>4. \A t \in DOMAIN topics : topics[t] \in TopicStates /\ t \in Topics
  BY Zenon, <1>1 DEF Table
<1> QED
  BY Zenon, <1>1, <1>2, <1>3, <1>4

(* Every step keeps events in the order of their commits. *)
LEMMA QueuesKept ==
    ASSUME WatchTypeOK, Queues, [WatchNext]_watchVars PROVE Queues'

(* Order is kept at both ends and by a cut. *)
<1>OrderedAppend.
      ASSUME NEW S, NEW s \in Seq(S), NEW e \in S, Ordered(s), Earlier(Range(s), {e})
      PROVE  Ordered(Append(s, e))
  <2> USE <1>OrderedAppend
  <2>1. /\ Len(s) \in Nat /\ DOMAIN s = 1 .. Len(s)
        /\ DOMAIN Append(s, e) = 1 .. Len(s) + 1
        /\ \A i \in 1 .. Len(s) : Append(s, e)[i] = s[i]
        /\ Append(s, e)[Len(s) + 1] = e
    BY SMTT(30), AppendPlaces
  <2>2. PICK r : r = Append(s, e)
    BY Zenon
  <2>3. ASSUME NEW j \in 1 .. Len(s) + 1, NEW k \in 1 .. Len(s) + 1, j < k, r[j].kind = "event",
               r[k].kind = "event", r[j].topic = r[k].topic
        PROVE  r[j].n < r[k].n
    <3>1. j \in 1 .. Len(s) /\ r[j] = s[j] /\ s[j] \in Range(s)
      BY SMTT(30), <2>1, <2>2, <2>3 DEF Range
    <3>2. CASE k = Len(s) + 1
      BY Zenon, <2>1, <2>2, <2>3, <3>1, <3>2 DEF Earlier
    <3>3. CASE k \in 1 .. Len(s)
      BY Zenon, <2>1, <2>2, <2>3, <3>1, <3>3 DEF Ordered
    <3> QED
      BY SMTT(30), <2>1, <3>2, <3>3
  <2> QED
    BY Zenon, <2>1, <2>2, <2>3 DEF Ordered

(* Everything but what is not published yet is gone. *)
<1>QueuesEmptied.
      ASSUME Queues, down' = <<>>, outbox' = <<>>, buffered' = <<>>, UNCHANGED <<tail, publishing>>
      PROVE  Queues'
  <2> USE <1>QueuesEmptied
  <2>1. Range(<<>>) = {} /\ Ordered(<<>>)
    BY Zenon, EmptyIs
  <2> QED
    BY Zenon, <2>1 DEF Queues, Earlier, Dated

(* An answer, or an event, joins the socket. *)
<1>QueuesAnswer.
      ASSUME WatchTypeOK, Queues, NEW e \in Downward, down' = Append(down, e),
             UNCHANGED <<tail, publishing, buffered>>, e.n <= tail[e.topic],
             \/ e.kind = "topic_ok" /\ outbox' = outbox
             \/ outbox # <<>> /\ e = Head(outbox) /\ outbox' = Tail(outbox)
      PROVE  Queues'
  <2> USE <1>QueuesAnswer
  <2>1. /\ down \in Seq(Downward) /\ outbox \in Seq(Events)
        /\ Range(down') = Range(down) \cup {e}
    BY SMTT(30), MissTypes, RangeAppend
  <2>2. CASE e.kind = "topic_ok" /\ outbox' = outbox
    <3>1. Ordered(down')
      <4>1. Earlier(Range(down), {e})
        BY Zenon, <2>2 DEF Earlier
      <4> QED
        BY Zenon, <2>1, <4>1, <1>OrderedAppend DEF Queues
    <3> QED
      BY Zenon, <2>1, <2>2, <3>1 DEF Queues, Earlier, Dated
  <2>3. CASE outbox # <<>> /\ e = Head(outbox) /\ outbox' = Tail(outbox)
    <3>1. Range(outbox) = {e} \cup Range(outbox') /\ Ordered(outbox') /\ Earlier({e}, Range(outbox'))
      BY Zenon, <2>1, <2>3, RangeTail, OrderedTail DEF Queues
    <3>2. Ordered(down')
      <4>1. Earlier(Range(down), {e})
        BY Zenon, <3>1 DEF Queues, Earlier
      <4> QED
        BY Zenon, <2>1, <4>1, <1>OrderedAppend DEF Queues
    <3> QED
      BY Zenon, <2>1, <3>1, <3>2 DEF Queues, Earlier, Dated
  <2> QED
    BY Zenon, <2>2, <2>3

(* The actor takes a message, which it may hold back. *)
<1>QueuesRead.
      ASSUME WatchTypeOK, Queues, down # <<>>, down' = Tail(down),
             UNCHANGED <<tail, publishing, outbox>>,
             \/ buffered' = buffered
             \/ Head(down) \in Events /\ buffered' = Append(buffered, Head(down))
      PROVE  Queues'
  <2> USE <1>QueuesRead
  <2>1. down \in Seq(Downward) /\ buffered \in Seq(Events)
    BY Zenon, MissTypes
  <2>2. /\ Range(down) = {Head(down)} \cup Range(down') /\ Ordered(down')
        /\ Earlier({Head(down)}, Range(down'))
    BY Zenon, <2>1, RangeTail, OrderedTail DEF Queues
  <2>3. CASE buffered' = buffered
    BY Zenon, <2>2, <2>3 DEF Queues, Earlier, Dated
  <2>4. CASE Head(down) \in Events /\ buffered' = Append(buffered, Head(down))
    <3>1. Earlier(Range(buffered), {Head(down)})
      BY Zenon, <2>2 DEF Queues, Earlier
    <3>2. Range(buffered') = Range(buffered) \cup {Head(down)} /\ Ordered(buffered')
      <4>1. Range(Append(buffered, Head(down))) = Range(buffered) \cup {Head(down)}
        BY SMTT(30), <2>1, <2>4, RangeAppend
      <4>2. Ordered(buffered)
        BY Zenon DEF Queues
      <4>3. Ordered(Append(buffered, Head(down)))
        BY SMTT(30), <2>1, <2>4, <3>1, <4>2, <1>OrderedAppend
      <4> QED
        BY Zenon, <2>4, <4>1, <4>3
    <3> QED
      BY Zenon, <2>2, <3>2 DEF Queues, Earlier, Dated
  <2> QED
    BY Zenon, <2>3, <2>4

(* An event that was held back is delivered (release). *)
<1>QueuesRelease.
      ASSUME WatchTypeOK, Queues, buffered # <<>>, buffered' = Tail(buffered),
             UNCHANGED <<tail, publishing, outbox, down>>
      PROVE  Queues'
  <2> USE <1>QueuesRelease
  <2>1. /\ Range(buffered) = {Head(buffered)} \cup Range(buffered') /\ Ordered(buffered')
    BY Zenon, MissTypes, RangeTail, OrderedTail DEF Queues
  <2> QED
    BY Zenon, <2>1 DEF Queues, Earlier, Dated

(* The socket breaks, and some of what it held is still read. *)
<1>QueuesCut.
      ASSUME WatchTypeOK, Queues, NEW n \in 0 .. Len(down), down' = SubSeq(down, 1, n),
             outbox' = <<>>, UNCHANGED <<tail, publishing, buffered>>
      PROVE  Queues'
  <2> USE <1>QueuesCut
  <2>1. Ordered(down') /\ Range(down') \subseteq Range(down)
    BY Zenon, MissTypes, OrderedPrefix DEF Queues
  <2>2. Range(outbox') = {} /\ Ordered(outbox')
    BY Zenon, EmptyIs
  <2> QED
    BY Zenon, <2>1, <2>2 DEF Queues, Earlier, Dated

(* A commit is the newest of its topic. *)
<1>QueuesCommit.
      ASSUME WatchTypeOK, Queues, NEW t \in Topics, tail' = [tail EXCEPT ![t] = @ + 1],
             publishing' = Append(publishing, Msg("event", t, tail[t] + 1)),
             UNCHANGED <<outbox, down, buffered>>
      PROVE  Queues'
  <2> USE <1>QueuesCommit
  <2>1. /\ publishing \in Seq(Events) /\ tail \in [Topics -> Nat]
        /\ Range(publishing) \subseteq Events /\ Range(outbox) \subseteq Events
        /\ Range(buffered) \subseteq Events /\ Range(down) \subseteq Downward
    BY Zenon, MissTypes
  <2>2. PICK e \in Events : e = Msg("event", t, tail[t] + 1)
    <3>1. tail[t] + 1 \in Nat
      BY SMTT(30), <2>1
    <3> QED
      BY Zenon, <3>1, MsgTypes
  <2>3. e.kind = "event" /\ e.topic = t /\ e.n = tail[t] + 1 /\ tail[t] \in Nat
    BY Zenon, <2>1, <2>2 DEF Msg
  <2>4. ASSUME NEW S, S \subseteq Downward, Dated(S)
        PROVE  Earlier(S, {e}) /\ \A d \in S : d.n <= tail'[d.topic]
    <3>1. ASSUME NEW d \in S PROVE d.topic \in Topics /\ d.n \in Nat /\ d.n <= tail[d.topic]
      BY Zenon, <2>4 DEF Downward, Dated
    <3>2. \A u \in Topics : tail'[u] = (IF u = t THEN tail[t] + 1 ELSE tail[u]) /\ tail[u] \in Nat
      BY Zenon, <2>1
    <3>3. \A d \in S : d.n <= tail'[d.topic]
      BY SMTT(30), <2>3, <3>1, <3>2
    <3>4. \A d \in S : d.topic = t => d.n < tail[t] + 1
      BY SMTT(30), <2>3, <3>1
    <3> QED
      BY Zenon, <2>3, <3>3, <3>4 DEF Earlier
  <2>5. Events \subseteq Downward
    BY Zenon DEF Events, Downward
  <2>6. /\ Earlier(Range(publishing), {e}) /\ \A d \in Range(publishing) : d.n <= tail'[d.topic]
        /\ Earlier(Range(outbox), {e}) /\ \A d \in Range(outbox) : d.n <= tail'[d.topic]
        /\ Earlier(Range(down), {e}) /\ \A d \in Range(down) : d.n <= tail'[d.topic]
        /\ Earlier(Range(buffered), {e}) /\ \A d \in Range(buffered) : d.n <= tail'[d.topic]
    BY Zenon, <2>1, <2>4, <2>5 DEF Queues
  <2>7. Range(publishing') = Range(publishing) \cup {e} /\ Ordered(publishing')
    BY SMTT(30), <2>1, <2>2, <2>6, RangeAppend, <1>OrderedAppend DEF Queues
  <2>8. e.n <= tail'[e.topic]
    BY SMTT(30), <2>1, <2>3
  <2> QED
    BY SMTT(30), <2>6, <2>7, <2>8 DEF Queues, Earlier, Dated

(* The oldest mutation is published (SubTable::publish). *)
<1>QueuesPublish.
      ASSUME WatchTypeOK, Queues, Publish PROVE Queues'
  <2> USE <1>QueuesPublish
  <2>1. /\ publishing # <<>> /\ publishing' = Tail(publishing)
        /\ outbox' = outbox \/ outbox' = Append(outbox, Head(publishing))
        /\ UNCHANGED <<tail, down, buffered>>
    BY Zenon DEF Publish, socket, actor
  <2>2. publishing \in Seq(Events) /\ outbox \in Seq(Events)
    BY Zenon, MissTypes
  <2>3. /\ Range(publishing) = {Head(publishing)} \cup Range(publishing') /\ Ordered(publishing')
        /\ Earlier({Head(publishing)}, Range(publishing')) /\ Head(publishing) \in Events
    BY Zenon, <2>1, <2>2, RangeTail, OrderedTail, TailPlaces DEF Queues
  <2>4. CASE outbox' = outbox
    BY Zenon, <2>1, <2>3, <2>4 DEF Queues, Earlier, Dated
  <2>5. CASE outbox' = Append(outbox, Head(publishing))
    <3>1. Earlier(Range(outbox), {Head(publishing)})
      BY Zenon, <2>3 DEF Queues, Earlier
    <3>2. Range(outbox') = Range(outbox) \cup {Head(publishing)} /\ Ordered(outbox')
      BY SMTT(30), <2>2, <2>3, <2>5, <3>1, RangeAppend, <1>OrderedAppend DEF Queues
    <3> QED
      BY Zenon, <2>1, <2>3, <3>2 DEF Queues, Earlier, Dated
  <2> QED
    BY Zenon, <2>1, <2>4, <2>5
<1>1. ASSUME UNCHANGED <<tail, publishing, outbox, down, buffered>> PROVE Queues'
  BY Zenon, <1>1 DEF Queues, Dated
<1>2. CASE \/ \E w \in Watches : Watch(w)
           \/ HandleCmd \/ ApplyOffline \/ Dial \/ HelloOk \/ SyncOnce \/ SyncAnswer \/ CaughtUp
           \/ UNCHANGED watchVars
  <2>1. UNCHANGED <<tail, publishing, outbox, down, buffered>>
    BY Zenon, <1>2 DEF Watch, HandleCmd, ApplyOffline, Dial, HelloOk, SyncOnce, SyncAnswer, CaughtUp,
                watchVars, node, socket, actor
  <2> QED
    BY Zenon, <1>1, <2>1
<1>3. ASSUME Gone \/ Lost PROVE Queues'
  BY Zenon, <1>3, <1>QueuesEmptied DEF Gone, Lost
<1>4. CASE SocketEnds \/ SyncFails \/ HelloFails
  BY Zenon, <1>3, <1>4 DEF SocketEnds, SyncFails, HelloFails, End
<1>5. ASSUME NEW w \in Watches, Unwatch(w) PROVE Queues'
  <2>1. Gone \/ UNCHANGED <<tail, publishing, outbox, down, buffered>>
    BY Zenon, <1>5 DEF Unwatch, node, socket
  <2> QED
    BY Zenon, <1>1, <1>3, <2>1
<1>6. CASE HandleMsg
  BY Zenon, <1>6, <1>QueuesRead DEF HandleMsg, node
<1>7. CASE ResubscribeMsg
  <2>1. /\ down # <<>> /\ down' = Tail(down) /\ UNCHANGED <<tail, publishing, outbox>>
        /\ \/ buffered' = buffered
           \/ Head(down).kind # "topic_ok" /\ buffered' = Append(buffered, Head(down))
    BY Zenon, <1>7 DEF ResubscribeMsg, node
  <2> QED
    BY Zenon, <2>1, HeadTypes, <1>QueuesRead
<1>8. CASE Release
  <2>1. UNCHANGED <<tail, publishing, outbox, down>>
    BY Zenon, <1>8 DEF Release, node, socket
  <2> QED
    BY Zenon, <1>1, <1>8, <2>1, <1>QueuesRelease DEF Release
<1>9. ASSUME NEW t \in Topics, Commit(t) PROVE Queues'
  BY Zenon, <1>9, <1>QueuesCommit DEF Commit, socket, actor
<1>10. CASE HandleClient
  <2>1. /\ up # <<>> /\ UNCHANGED <<tail, publishing, outbox, buffered>>
        /\ down' = down \/ down' = Append(down, Msg("topic_ok", Head(up).topic, 0))
    BY Zenon, <1>10 DEF HandleClient, actor
  <2>2. Head(up).topic \in Topics
    <3>1. Head(up) \in Upward
      BY Zenon, <2>1, MissTypes, TailPlaces
    <3> QED
      BY Zenon, <3>1 DEF Upward
  <2>3. PICK e \in Downward : e = Msg("topic_ok", Head(up).topic, 0)
    <3>1. Msg("topic_ok", Head(up).topic, 0) \in Downward
      BY Zenon, <2>2 DEF Msg, Downward
    <3> QED
      BY Zenon, <3>1
  <2>4. e.n <= tail[e.topic] /\ e.kind = "topic_ok"
    BY SMTT(30), <2>2, <2>3, MissTypes DEF Msg
  <2> QED
    BY Zenon, <1>1, <2>1, <2>3, <2>4, <1>QueuesAnswer
<1>11. CASE AnswerSubscribe
  <2>1. /\ acking \in Topics /\ UNCHANGED <<tail, publishing, outbox, buffered>>
        /\ down' = Append(down, Msg("topic_ok", acking, tail[acking]))
    BY Zenon, <1>11 DEF AnswerSubscribe, actor, WatchTypeOK, NodeTypeOK
  <2>2. tail[acking] \in Nat
    BY Zenon, <2>1, MissTypes
  <2>3. PICK e \in Downward : e = Msg("topic_ok", acking, tail[acking])
    BY Zenon, <2>1, <2>2, MsgTypes
  <2>4. e.n <= tail[e.topic] /\ e.kind = "topic_ok"
    BY SMTT(30), <2>2, <2>3 DEF Msg
  <2> QED
    BY Zenon, <2>1, <2>3, <2>4, <1>QueuesAnswer
<1>12. CASE SendEvent
  <2>1. /\ outbox # <<>> /\ UNCHANGED <<tail, publishing, buffered>>
        /\ down' = Append(down, Head(outbox)) /\ outbox' = Tail(outbox)
    BY Zenon, <1>12 DEF SendEvent, actor
  <2>2. Head(outbox) \in Events /\ Head(outbox) \in Range(outbox)
    BY SMTT(30), <2>1, MissTypes, TailPlaces, RangeTail
  <2>3. Head(outbox) \in Downward /\ Head(outbox).n <= tail[Head(outbox).topic]
    BY Zenon, <2>2 DEF Events, Downward, Queues, Dated
  <2> QED
    BY Zenon, <2>1, <2>3, <1>QueuesAnswer
<1>13. CASE Drop
  <2>1. PICK n \in 0 .. Len(down) : down' = SubSeq(down, 1, n)
    BY Zenon, <1>13 DEF Drop
  <2> QED
    BY Zenon, <1>13, <2>1, <1>QueuesCut DEF Drop, actor
<1> QED
  BY Zenon, <1>2, <1>4, <1>5, <1>6, <1>7, <1>8, <1>9, <1>10, <1>11, <1>12, <1>13, <1>QueuesPublish
  DEF WatchNext

(* No cursor is ahead of the node (deliver, ack_topic, sync_once). *)
LEMMA CursorsKept ==
    ASSUME WatchTypeOK, Queues, Cursors, Answered, [WatchNext]_watchVars PROVE Cursors'

(* Cursors stay behind the commits. *)
<1>CursorEdited.
      ASSUME WatchTypeOK, Cursors, tail' = tail, NEW t \in Topics, NEW live, NEW subs, NEW pending,
             NEW c, Edited(t, live, subs, pending, c), c <= tail[t]
      PROVE  Cursors'
  BY Zenon, <1>CursorEdited DEF Cursors, Edited
<1>0. /\ tail \in [Topics -> Nat] /\ \A t \in DOMAIN topics : topics[t].cursor \in Int /\ t \in Topics
  BY Zenon, MissTypes
<1>1. ASSUME UNCHANGED <<tail, topics>> PROVE Cursors'
  BY Zenon, <1>1 DEF Cursors
<1>2. CASE \/ \E w \in Watches : Watch(w)
           \/ Dial \/ SyncOnce \/ SyncAnswer \/ SocketEnds \/ SyncFails \/ Publish \/ HandleClient
           \/ AnswerSubscribe \/ SendEvent \/ Drop \/ UNCHANGED watchVars
  <2>1. UNCHANGED <<tail, topics>>
    BY Zenon, <1>2 DEF Watch, Dial, SyncOnce, SyncAnswer, SocketEnds, SyncFails, Publish, HandleClient,
                AnswerSubscribe, SendEvent, Drop, Lost, watchVars, node, actor
  <2> QED
    BY Zenon, <1>1, <2>1
<1>3. ASSUME Gone PROVE Cursors'
  BY Zenon, <1>3 DEF Gone, Cursors
<1>4. ASSUME NEW w \in Watches, Unwatch(w) PROVE Cursors'
  BY Zenon, <1>1, <1>3, <1>4 DEF Unwatch, node
<1>5. CASE HelloFails
  BY Zenon, <1>1, <1>3, <1>5 DEF HelloFails, End, Lost
<1>6. ASSUME NEW t \in Topics
      PROVE  Entry(t).cursor <= tail[t]
  <2>1. t \notin DOMAIN topics => Entry(t).cursor = -1
    BY Zenon DEF Entry, Fresh, NoCursor
  <2>2. t \in DOMAIN topics => Entry(t).cursor <= tail[t]
    BY Zenon DEF Entry, Cursors
  <2> QED
    BY SMTT(30), <1>0, <2>1, <2>2
<1>7. ASSUME NEW t \in Topics, Removed(t), tail' = tail PROVE Cursors'
  BY Zenon, <1>7 DEF Removed, Cursors
<1>8. CASE HandleCmd
  <2>1. PICK w \in Watches, t \in Topics :
             \/ CmdJoins(w, t) \/ CmdAsks(w, t) \/ CmdLeaves(w, t)
             \/ CmdCloses(w, t) \/ CmdIdles(w, t)
    BY Zenon, <1>8, HandleCmdIs
  <2>2. tail' = tail
    BY Zenon, <1>8 DEF HandleCmd, node
  <2>3. CASE CmdJoins(w, t)
    BY Zenon, <2>2, <2>3, <1>CursorEdited DEF CmdJoins, Cursors
  <2>4. CASE CmdAsks(w, t)
    BY Zenon, <1>6, <2>2, <2>4, <1>CursorEdited DEF CmdAsks
  <2>5. CASE CmdLeaves(w, t)
    BY Zenon, <2>2, <2>5, <1>CursorEdited DEF CmdLeaves, Cursors
  <2>6. CASE CmdCloses(w, t)
    BY Zenon, <1>7, <2>2, <2>6 DEF CmdCloses
  <2>7. CASE CmdIdles(w, t)
    BY Zenon, <1>1, <2>2, <2>7 DEF CmdIdles
  <2> QED
    BY Zenon, <2>1, <2>3, <2>4, <2>5, <2>6, <2>7
<1>9. CASE ApplyOffline
  <2>1. PICK w \in Watches, t \in Topics :
             OffJoins(w, t) \/ OffLeaves(w, t) \/ OffCloses(w, t) \/ OffIdles(w, t)
    BY Zenon, <1>9, ApplyOfflineIs
  <2>2. tail' = tail
    BY Zenon, <1>9 DEF ApplyOffline, node
  <2>3. CASE OffJoins(w, t)
    BY Zenon, <1>6, <2>2, <2>3, <1>CursorEdited DEF OffJoins
  <2>4. CASE OffLeaves(w, t)
    BY Zenon, <2>2, <2>4, <1>CursorEdited DEF OffLeaves, Cursors
  <2>5. CASE OffCloses(w, t)
    BY Zenon, <1>7, <2>2, <2>5 DEF OffCloses
  <2>6. CASE OffIdles(w, t)
    BY Zenon, <1>1, <2>2, <2>6 DEF OffIdles
  <2> QED
    BY Zenon, <2>1, <2>3, <2>4, <2>5, <2>6
<1>10. ASSUME NEW t \in Topics, NEW n \in Nat, n <= tail[t], Acks(t, n) \/ Delivers(t, n), tail' = tail
       PROVE  Cursors'
  <2>1. CASE topics' = topics
    BY Zenon, <1>1, <1>10, <2>1
  <2>2. CASE t \in DOMAIN topics /\ Acks(t, n) /\ topics' # topics
    <3>1. (IF topics[t].cursor = NoCursor THEN n ELSE topics[t].cursor) <= tail[t]
      BY Zenon, <1>10, <2>2 DEF Cursors
    <3> QED
      BY Zenon, <1>10, <2>2, <3>1, <1>CursorEdited DEF Acks
  <2>3. CASE t \in DOMAIN topics /\ Delivers(t, n) /\ topics' # topics
    BY Zenon, <1>10, <2>3, <1>CursorEdited DEF Delivers
  <2> QED
    BY Zenon, <1>10, <2>1, <2>2, <2>3 DEF Acks, Delivers
<1>11. ASSUME NEW e \in Events, e.n <= tail[e.topic], Deliver(e), tail' = tail PROVE Cursors'
  <2>1. e.topic \in Topics /\ e.n \in Nat
    BY Zenon DEF Events
  <2> QED
    BY Zenon, <1>10, <1>11, <2>1, DeliverIs
<1>12. down # <<>> => Head(down).n <= tail[Head(down).topic]
  BY Zenon, MissTypes, RangeTail DEF Queues, Dated
<1>13. CASE HandleMsg
  <2>1. down # <<>> /\ tail' = tail
    BY Zenon, <1>13 DEF HandleMsg, node
  <2>2. CASE Head(down).kind = "topic_ok"
    BY Zenon, <1>10, <1>12, <1>13, <2>1, <2>2, HeadTypes, AckIs DEF HandleMsg
  <2>3. CASE Head(down).kind # "topic_ok"
    BY Zenon, <1>11, <1>12, <1>13, <2>1, <2>3, HeadTypes DEF HandleMsg
  <2> QED
    BY Zenon, <2>2, <2>3
<1>14. CASE ResubscribeMsg
  <2>1. down # <<>> /\ tail' = tail
    BY Zenon, <1>14 DEF ResubscribeMsg, node
  <2>2. CASE Head(down).kind = "topic_ok"
    BY Zenon, <1>10, <1>12, <1>14, <2>1, <2>2, HeadTypes, AckIs DEF ResubscribeMsg
  <2>3. CASE Head(down).kind # "topic_ok"
    BY Zenon, <1>1, <1>14, <2>1, <2>3 DEF ResubscribeMsg
  <2> QED
    BY Zenon, <2>2, <2>3
<1>15. CASE Release
  <2>1. tail' = tail
    BY Zenon, <1>15 DEF Release, node
  <2>2. CASE buffered = <<>>
    BY Zenon, <1>1, <1>15, <2>1, <2>2 DEF Release
  <2>3. CASE buffered # <<>>
    <3>1. Head(buffered) \in Events /\ Head(buffered).n <= tail[Head(buffered).topic]
      BY Zenon, <2>3, HeadTypes, MissTypes, RangeTail DEF Queues, Dated
    <3> QED
      BY Zenon, <1>11, <1>15, <2>1, <2>3, <3>1 DEF Release
  <2> QED
    BY Zenon, <2>2, <2>3
<1>16. CASE CaughtUp
  <2>1. tail' = tail /\ reply.answered /\ pc = "sync"
    BY Zenon, <1>16 DEF CaughtUp, node
  <2>2. reply \in Replies
    BY Zenon, <1>16, CaughtUpIs
  <2>3. /\ \A e \in reply.events : e.topic \in DOMAIN topics /\ e.n <= reply.cursors[e.topic]
        /\ \A t \in DOMAIN topics : reply.cursors[t] <= tail[t] /\ reply.cursors[t] \in Nat
    BY Zenon, <2>1, <2>2 DEF Answered, AnswerOK, Replies
  <2>4. CASE \E e : CatchesUp(e)
    <3>1. PICK e : CatchesUp(e)
      BY Zenon, <2>4
    <3>2. e \in Events /\ e \in reply.events /\ Delivers(e.topic, e.n)
      BY Zenon, <3>1 DEF CatchesUp
    <3>3. e.topic \in Topics /\ e.n \in Nat /\ tail[e.topic] \in Nat
      BY Zenon, <1>0, <3>2 DEF Events
    <3>4. e.n <= tail[e.topic]
      BY SMTT(30), <2>3, <3>2, <3>3
    <3> QED
      BY Zenon, <1>10, <2>1, <3>2, <3>3, <3>4
  <2>5. CASE Advances
    BY Zenon, <2>1, <2>3, <2>5 DEF Advances, Cursors
  <2> QED
    BY Zenon, <1>16, <2>4, <2>5, CaughtUpIs
<1>17. CASE HelloOk
  <2>1. tail' = tail
    BY Zenon, <1>17 DEF HelloOk, node
  <2>2. CASE Reopens
    BY Zenon, <2>1, <2>2 DEF Reopens, Cursors
  <2> QED
    BY Zenon, <1>1, <1>17, <2>1, <2>2, HelloOkIs
<1>18. ASSUME NEW t \in Topics, Commit(t) PROVE Cursors'
  <2>1. topics' = topics /\ tail' = [tail EXCEPT ![t] = @ + 1]
    BY Zenon, <1>18 DEF Commit, actor
  <2>2. \A u \in Topics : tail[u] <= tail'[u] /\ tail[u] \in Nat /\ tail'[u] \in Nat
    BY SMTT(30), <1>0, <2>1
  <2> QED
    BY SMTT(30), <1>0, <2>1, <2>2 DEF Cursors
<1> QED
  BY Zenon, <1>2, <1>4, <1>5, <1>8, <1>9, <1>13, <1>14, <1>15, <1>16, <1>17, <1>18 DEF WatchNext

-----------------------------------------------------------------------------
(* The handshake. *)

(* No acknowledgement joins the socket. *)
NoNewAnswer ==
    /\ \A m \in Range(down') : m.kind = "topic_ok" => m \in Range(down)
    /\ \A t \in Topics : Has(down', "topic_ok", t) => Has(down, "topic_ok", t)
    /\ \A t \in Topics : Single(down, "topic_ok", t) => Single(down', "topic_ok", t)

(* No command asks for what was not asked for. *)
NoNewCommand == Leaving' /\ \A t \in Topics : Asking(t)' => Asking(t)

(* The acknowledged topics are the same. *)
SameTopics ==
    /\ DOMAIN topics' = DOMAIN topics
    /\ \A t \in DOMAIN topics :
           topics'[t].live = topics[t].live /\ topics'[t].pending = topics[t].pending

(* no entry when the table is, *)
LEMMA SameTable == ASSUME topics' = topics PROVE SameTopics
BY Zenon DEF SameTopics

(* A delivery leaves the acknowledged topics alone. *)
LEMMA DeliverKeepsTopics ==
    ASSUME NEW t, NEW n, Delivers(t, n) PROVE SameTopics
<1>1. CASE topics' = topics
  BY Zenon, <1>1, SameTable
<1>2. CASE topics' # topics
  BY Zenon, <1>2 DEF Delivers, Edited, SameTopics
<1> QED
  BY Zenon, <1>1, <1>2

(* Every step keeps the handshake. *)
LEMMA HandshakeKept ==
    ASSUME WatchTypeOK, Quiet, Handshake, "rewatch" \notin WatchHazards, [WatchNext]_watchVars
    PROVE  Handshake'

(* What is in a queue of messages after a step. *)
<1>HasAppend.
      ASSUME NEW S, NEW s \in Seq(S), NEW e \in S, NEW kind, NEW t
      PROVE  /\ Has(Append(s, e), kind, t) <=> Has(s, kind, t) \/ (e.kind = kind /\ e.topic = t)
             /\ Single(s, kind, t) /\ (e.kind = kind /\ e.topic = t => ~Has(s, kind, t))
                    => Single(Append(s, e), kind, t)
  <2> USE <1>HasAppend
  <2>1. /\ Len(s) \in Nat /\ DOMAIN s = 1 .. Len(s)
        /\ DOMAIN Append(s, e) = 1 .. Len(s) + 1
        /\ \A i \in 1 .. Len(s) : Append(s, e)[i] = s[i]
        /\ Append(s, e)[Len(s) + 1] = e
    BY SMTT(30), AppendPlaces
  <2>2. PICK r : r = Append(s, e)
    BY Zenon
  <2>3. 1 .. Len(s) + 1 = (1 .. Len(s)) \cup {Len(s) + 1}
    BY SMTT(30), <2>1
  <2> QED
    BY SMTT(30), <2>1, <2>2, <2>3 DEF Has, Single

(* One is read, *)
<1>HasTail.
      ASSUME NEW S, NEW s \in Seq(S), s # <<>>, NEW kind, NEW t
      PROVE  /\ Has(s, kind, t) <=> Has(Tail(s), kind, t) \/ (Head(s).kind = kind /\ Head(s).topic = t)
             /\ Single(s, kind, t) =>
                    /\ Single(Tail(s), kind, t)
                    /\ Head(s).kind = kind /\ Head(s).topic = t => ~Has(Tail(s), kind, t)
  <2> USE <1>HasTail
  <2>1. /\ Head(s) = s[1] /\ Len(s) \in Nat /\ Len(s) >= 1 /\ DOMAIN s = 1 .. Len(s)
        /\ DOMAIN Tail(s) = 1 .. Len(s) - 1
        /\ \A i \in 1 .. Len(s) - 1 : Tail(s)[i] = s[i + 1]
    BY Zenon, TailPlaces
  <2>2. PICK r : r = Tail(s)
    BY Zenon
  <2>3. ASSUME NEW k \in 1 .. Len(s) - 1 PROVE k + 1 \in DOMAIN s /\ r[k] = s[k + 1] /\ k + 1 # 1
    BY SMTT(30), <2>1, <2>2
  <2>4. ASSUME NEW i \in 1 .. Len(s) PROVE i = 1 \/ \E k \in 1 .. Len(s) - 1 : i = k + 1
    <3>1. i # 1 => i - 1 \in 1 .. Len(s) - 1 /\ i = (i - 1) + 1
      BY SMTT(30), <2>1
    <3> QED
      BY Zenon, <3>1
  <2>5. Has(s, kind, t) <=> Has(r, kind, t) \/ (Head(s).kind = kind /\ Head(s).topic = t)
    <3>1. 1 \in DOMAIN s
      BY SMTT(30), <2>1
    <3>2. ASSUME Has(s, kind, t) PROVE Has(r, kind, t) \/ (Head(s).kind = kind /\ Head(s).topic = t)
      <4>1. PICK i \in 1 .. Len(s) : s[i].kind = kind /\ s[i].topic = t
        BY Zenon, <2>1, <3>2 DEF Has
      <4> QED
        BY Zenon, <2>1, <2>2, <2>3, <2>4, <4>1 DEF Has
    <3>3. ASSUME Has(r, kind, t) \/ (Head(s).kind = kind /\ Head(s).topic = t) PROVE Has(s, kind, t)
      BY Zenon, <2>1, <2>2, <2>3, <3>1, <3>3 DEF Has
    <3> QED
      BY Zenon, <3>2, <3>3
  <2>6. ASSUME Single(s, kind, t) PROVE Single(r, kind, t)
    <3>1. ASSUME NEW j \in 1 .. Len(s) - 1, NEW k \in 1 .. Len(s) - 1,
                 r[j].kind = kind, r[j].topic = t, r[k].kind = kind, r[k].topic = t
          PROVE  j = k
      <4>1. j + 1 = k + 1
        BY SMTT(30), <2>3, <2>6, <3>1 DEF Single
      <4> QED
        BY SMTT(30), <4>1
    <3> QED
      BY Zenon, <2>1, <2>2, <3>1 DEF Single
  <2>7. ASSUME Single(s, kind, t), Head(s).kind = kind, Head(s).topic = t PROVE ~Has(r, kind, t)
    <3>1. 1 \in DOMAIN s
      BY SMTT(30), <2>1
    <3> QED
      BY SMTT(30), <2>1, <2>2, <2>3, <2>7, <3>1 DEF Has, Single
  <2> QED
    BY Zenon, <2>2, <2>5, <2>6, <2>7

(* or the queue is cut short. *)
<1>HasPrefix.
      ASSUME NEW S, NEW s \in Seq(S), NEW n \in 0 .. Len(s), NEW kind, NEW t
      PROVE  /\ Has(SubSeq(s, 1, n), kind, t) => Has(s, kind, t)
             /\ Single(s, kind, t) => Single(SubSeq(s, 1, n), kind, t)
  <2> USE <1>HasPrefix
  <2>1. /\ Len(s) \in Nat /\ n \in Nat /\ DOMAIN s = 1 .. Len(s)
        /\ DOMAIN SubSeq(s, 1, n) = 1 .. n
        /\ \A i \in 1 .. n : SubSeq(s, 1, n)[i] = s[i]
    BY SMTT(30), PrefixPlaces
  <2>2. PICK r : r = SubSeq(s, 1, n)
    BY Zenon
  <2>3. \A i \in 1 .. n : i \in DOMAIN s /\ r[i] = s[i]
    BY SMTT(30), <2>1, <2>2
  <2> QED
    BY Zenon, <2>1, <2>2, <2>3 DEF Has, Single

(* The actor takes a command, *)
<1>CommandsTaken.
      ASSUME WatchTypeOK, Leaving, cmds # <<>>, cmds' = Tail(cmds), use' = use
      PROVE  /\ Leaving' /\ \A t : Asking(t)' => Asking(t)
             /\ Head(cmds).kind = "subscribe" => Asking(topicOf[Head(cmds).watch])
             /\ \A t : Head(cmds).kind = "unsubscribe" /\ t = topicOf[Head(cmds).watch] => ~Asking(t)'
  <2> USE <1>CommandsTaken
  <2>0. topicOf' = topicOf
    BY Zenon DEF topicOf
  <2>1. /\ Head(cmds) = cmds[1] /\ Len(cmds) \in Nat /\ Len(cmds) >= 1 /\ DOMAIN cmds = 1 .. Len(cmds)
        /\ DOMAIN cmds' = 1 .. Len(cmds) - 1
        /\ \A i \in 1 .. Len(cmds) - 1 : cmds'[i] = cmds[i + 1]
    BY Zenon, ListeningTypes, TailPlaces
  <2>2. 1 \in DOMAIN cmds /\ \A i \in DOMAIN cmds' : i + 1 \in DOMAIN cmds /\ cmds'[i] = cmds[i + 1] /\ 1 < i + 1
    BY SMTT(30), <2>1
  <2>3. Leaving'
    <3>1. ASSUME NEW j \in DOMAIN cmds', NEW k \in DOMAIN cmds', j < k, cmds'[j].kind = "unsubscribe",
                 cmds'[k].kind = "subscribe"
          PROVE  topicOf[cmds'[j].watch] # topicOf[cmds'[k].watch]
      <4>1. j + 1 < k + 1
        BY SMTT(30), <2>1, <3>1
      <4> QED
        BY SMTT(30), <2>2, <3>1, <4>1 DEF Leaving
    <3> QED
      BY SMTT(30), <2>0, <3>1 DEF Leaving
  <2>4. ASSUME NEW t, Asking(t)' PROVE Asking(t)
    BY Zenon, <2>0, <2>2, <2>4 DEF Asking
  <2>5. ASSUME Head(cmds).kind = "subscribe" PROVE Asking(topicOf[Head(cmds).watch])
    BY Zenon, <2>1, <2>2, <2>5 DEF Asking
  <2>6. ASSUME NEW t, Head(cmds).kind = "unsubscribe", t = topicOf[Head(cmds).watch] PROVE ~Asking(t)'
    BY SMTT(30), <2>0, <2>1, <2>2, <2>6 DEF Asking, Leaving
  <2> QED
    BY Zenon, <2>3, <2>4, <2>5, <2>6

(* or the application queues one: no Subscribe behind an Unsubscribe of its topic. *)
<1>CommandsAdded.
      ASSUME WatchTypeOK, Leaving, NEW c \in Commands, cmds' = Append(cmds, c), use' = use,
             c.kind = "subscribe" =>
                 \A k \in DOMAIN cmds : cmds[k].kind = "unsubscribe" =>
                     topicOf[cmds[k].watch] # topicOf[c.watch]
      PROVE  /\ Leaving'
             /\ \A t : Asking(t)' => Asking(t) \/ (c.kind = "subscribe" /\ t = topicOf[c.watch])
  <2> USE <1>CommandsAdded
  <2>0. topicOf' = topicOf
    BY Zenon DEF topicOf
  <2>1. /\ Len(cmds) \in Nat /\ DOMAIN cmds = 1 .. Len(cmds)
        /\ DOMAIN cmds' = 1 .. Len(cmds) + 1
        /\ \A i \in 1 .. Len(cmds) : cmds'[i] = cmds[i]
        /\ cmds'[Len(cmds) + 1] = c
    BY SMTT(30), ListeningTypes, AppendPlaces
  <2>2. ASSUME NEW j \in DOMAIN cmds', NEW k \in DOMAIN cmds', j < k, cmds'[j].kind = "unsubscribe",
               cmds'[k].kind = "subscribe"
        PROVE  topicOf[cmds'[j].watch] # topicOf[cmds'[k].watch]
    <3>1. j \in DOMAIN cmds /\ cmds'[j] = cmds[j]
      BY SMTT(30), <2>1, <2>2
    <3>2. CASE k \in DOMAIN cmds
      BY SMTT(30), <2>1, <2>2, <3>1, <3>2 DEF Leaving
    <3>3. CASE k = Len(cmds) + 1
      BY SMTT(30), <2>1, <2>2, <3>1, <3>3
    <3> QED
      BY SMTT(30), <2>1, <3>2, <3>3
  <2>3. Leaving'
    BY SMTT(30), <2>0, <2>2 DEF Leaving
  <2>4. ASSUME NEW t, Asking(t)' PROVE Asking(t) \/ (c.kind = "subscribe" /\ t = topicOf[c.watch])
    <3>1. PICK k \in DOMAIN cmds' : cmds'[k].kind = "subscribe" /\ topicOf[cmds'[k].watch] = t
      BY Zenon, <2>0, <2>4 DEF Asking
    <3>2. CASE k \in DOMAIN cmds
      BY Zenon, <2>1, <3>1, <3>2 DEF Asking
    <3>3. CASE k = Len(cmds) + 1
      BY Zenon, <2>1, <3>1, <3>3
    <3> QED
      BY SMTT(30), <2>1, <3>2, <3>3
  <2> QED
    BY Zenon, <2>3, <2>4

(* A step that neither asks nor answers keeps the handshake. *)
<1>HandshakeStays.
      ASSUME WatchTypeOK, Handshake, UNCHANGED <<up, acking, registered, open>>,
             NoNewAnswer, NoNewCommand, SameTopics,
             \/ pc' = pc
             \/ Connected /\ \A t \in DOMAIN topics : topics[t].live
             \/ ~Connected'
      PROVE  Handshake'
  <2> USE <1>HandshakeStays
  <2>1. \A t \in DOMAIN topics : t \in Topics
    BY Zenon, MissTypes
  <2>2. ASSUME NEW t \in Topics PROVE Asked(t)'
    <3>1. Asked(t)
      BY Zenon DEF Handshake
    <3> QED
      BY Zenon, <3>1 DEF Asked, NoNewAnswer, NoNewCommand, SameTopics
  <2>3. ASSUME NEW t \in DOMAIN topics' PROVE Entered(t)'
    <3>1. t \in DOMAIN topics /\ t \in Topics /\ Entered(t)
      BY Zenon, <2>1, <2>3 DEF Handshake, SameTopics
    <3>2. topics'[t].live = topics[t].live /\ topics'[t].pending = topics[t].pending
      BY Zenon, <3>1 DEF SameTopics
    <3>3. CASE pc' = pc
      BY Zenon, <3>1, <3>2, <3>3 DEF Entered, Connected, NoNewAnswer
    <3>4. CASE Connected /\ topics[t].live
      BY Zenon, <3>1, <3>2, <3>4 DEF Entered, NoNewAnswer
    <3>5. CASE ~Connected'
      BY Zenon, <3>1, <3>2, <3>5 DEF Entered, Connected, NoNewAnswer
    <3> QED
      BY Zenon, <3>1, <3>3, <3>4, <3>5
  <2> QED
    BY Zenon, <2>2, <2>3 DEF Handshake, NoNewCommand

(* The socket is gone, or there is no topic. *)
<1>HandshakeOffline.
      ASSUME WatchTypeOK, up' = <<>>, down' = <<>>, acking' = NoTopic, Leaving',
             (~open' /\ ~Connected') \/ DOMAIN topics' = {},
             \A t \in DOMAIN topics' : topics'[t].live => topics'[t].pending = {}
      PROVE  Handshake'
  <2> USE <1>HandshakeOffline
  <2>1. /\ \A kind, t : ~Has(up', kind, t) /\ ~Has(down', kind, t)
        /\ \A kind, t : Single(up', kind, t) /\ Single(down', kind, t) /\ Range(down') = {}
    BY Zenon, EmptyIs
  <2>2. \A t \in Topics : acking' # t
    BY Zenon, NoTopicIsNone
  <2>3. ASSUME NEW t \in Topics PROVE Asked(t)'
    BY Zenon, <2>1, <2>2 DEF Asked
  <2>4. ASSUME NEW t \in DOMAIN topics' PROVE Entered(t)'
    BY Zenon, <2>1, <2>4 DEF Entered, Connected
  <2> QED
    BY Zenon, <2>3, <2>4 DEF Handshake

(* The socket breaks. *)
<1>HandshakeBroken.
      ASSUME WatchTypeOK, Handshake, up' = <<>>, acking' = NoTopic, ~open',
             NoNewAnswer, NoNewCommand, SameTopics, pc' = pc
      PROVE  Handshake'
  <2> USE <1>HandshakeBroken
  <2>1. \A kind, t : ~Has(up', kind, t) /\ Single(up', kind, t)
    BY Zenon, EmptyIs
  <2>2. \A t \in Topics : acking' # t
    BY Zenon, NoTopicIsNone
  <2>3. ASSUME NEW t \in Topics PROVE Asked(t)'
    <3>1. Asked(t)
      BY Zenon DEF Handshake
    <3> QED
      BY Zenon, <2>1, <2>2, <3>1 DEF Asked, NoNewAnswer, NoNewCommand, SameTopics
  <2>4. ASSUME NEW t \in DOMAIN topics' PROVE Entered(t)'
    <3>1. t \in DOMAIN topics /\ t \in Topics /\ Entered(t)
      BY Zenon, <2>4, MissTypes DEF Handshake, SameTopics
    <3>2. topics'[t].live = topics[t].live /\ topics'[t].pending = topics[t].pending
      BY Zenon, <3>1 DEF SameTopics
    <3> QED
      BY Zenon, <2>1, <3>1, <3>2 DEF Entered, NoNewAnswer
  <2> QED
    BY Zenon, <2>3, <2>4 DEF Handshake, NoNewCommand

(* Steps that leave the socket or the commands alone. *)
<1>SameAnswers.
      ASSUME down' = down PROVE NoNewAnswer
  BY Zenon, <1>SameAnswers DEF NoNewAnswer

(* No command is new when the channel is the same, *)
<1>SameCommands.
      ASSUME Leaving, cmds' = cmds, use' = use PROVE NoNewCommand
  BY SMTT(30), <1>SameCommands DEF NoNewCommand, Leaving, Asking, topicOf

(* no answer when one is read, *)
<1>ReadAnswers.
      ASSUME WatchTypeOK, down # <<>>, down' = Tail(down) PROVE NoNewAnswer
  <2> USE <1>ReadAnswers
  <2>1. down \in Seq(Downward) /\ Range(down) = {Head(down)} \cup Range(down')
    BY Zenon, MissTypes, RangeTail
  <2> QED
    BY Zenon, <2>1, <1>HasTail DEF NoNewAnswer

(* or when an event is sent. *)
<1>SentEvents.
      ASSUME WatchTypeOK, NEW e \in Events, down' = Append(down, e) PROVE NoNewAnswer
  <2> USE <1>SentEvents
  <2>1. e \in Downward /\ e.kind # "topic_ok"
    BY Zenon DEF Events, Downward
  <2>2. down \in Seq(Downward) /\ Range(down') = Range(down) \cup {e}
    BY SMTT(30), <2>1, MissTypes, RangeAppend
  <2> QED
    BY SMTT(30), <2>1, <2>2, <1>HasAppend DEF NoNewAnswer

(* A watch waits for its topic, the first to do so asks for it. *)
<1>HandshakeAsks.
      ASSUME WatchTypeOK, Handshake, pc = "serve", NEW w \in Watches, NEW t \in Topics,
             CmdAsks(w, t), Asking(t), NoNewCommand,
             UNCHANGED <<acking, registered, open, down, pc>>
      PROVE  Handshake'
  <2> USE <1>HandshakeAsks
  <2>1. /\ ~Entry(t).live /\ DOMAIN topics' = DOMAIN topics \cup {t}
        /\ ~topics'[t].live /\ topics'[t].pending # {}
        /\ \A u \in DOMAIN topics : u # t => topics'[u] = topics[u]
        /\ up' = IF Entry(t).pending = {} THEN Append(up, Msg("subscribe", t, 0)) ELSE up
    BY Zenon DEF CmdAsks, Edited
  <2>2. /\ t \in DOMAIN topics => ~topics[t].live /\ Entry(t) = topics[t]
        /\ ~Has(up, "unsubscribe", t) /\ Single(down, "topic_ok", t)
        /\ Has(down, "topic_ok", t) /\ open => t \in registered
        /\ t \in DOMAIN topics => topics[t].pending # {}
    <3>1. CASE t \in DOMAIN topics
      <4>1. ~topics[t].live /\ Entry(t) = topics[t]
        BY Zenon, <2>1, <3>1 DEF Entry
      <4> QED
        BY Zenon, <3>1, <4>1 DEF Handshake, Entered
    <3>2. CASE t \notin DOMAIN topics
      <4>1. ~Has(up, "unsubscribe", t) /\ ~Has(down, "topic_ok", t)
        BY Zenon, <3>2 DEF Handshake, Asked
      <4> QED
        BY Zenon, <3>2, <4>1 DEF Has, Single
    <3> QED
      BY Zenon, <3>1, <3>2
  <2>3. /\ \A u \in Topics : Has(up', "subscribe", u) =>
               Has(up, "subscribe", u) \/ (u = t /\ t \notin DOMAIN topics)
        /\ \A u \in Topics : Has(up', "unsubscribe", u) => Has(up, "unsubscribe", u)
        /\ \A u \in Topics : Single(up', "subscribe", u)
    <3>1. \A u \in Topics : Single(up, "subscribe", u)
      BY Zenon DEF Handshake, Asked
    <3>2. CASE up' = up
      BY Zenon, <3>1, <3>2
    <3>3. CASE up' # up
      <4>1. up' = Append(up, Msg("subscribe", t, 0)) /\ t \notin DOMAIN topics
        BY Zenon, <2>1, <2>2, <3>3
      <4>2. ~Has(up, "subscribe", t)
        BY Zenon, <4>1 DEF Handshake, Asked
      <4>3. PICK e \in Upward : e = Msg("subscribe", t, 0) /\ e.kind = "subscribe" /\ e.topic = t
        <5>1. /\ Msg("subscribe", t, 0) \in Upward
              /\ Msg("subscribe", t, 0).kind = "subscribe" /\ Msg("subscribe", t, 0).topic = t
          BY Zenon DEF Upward, Msg
        <5> QED
          BY Zenon, <5>1
      <4>4. up \in Seq(Upward)
        BY Zenon, MissTypes
      <4>5. \A u \in Topics :
                /\ Has(up', "subscribe", u) => Has(up, "subscribe", u) \/ u = t
                /\ Has(up', "unsubscribe", u) => Has(up, "unsubscribe", u)
                /\ Single(up', "subscribe", u)
        <5> TAKE u \in Topics
        <5>1. /\ Has(Append(up, e), "subscribe", u) <=> Has(up, "subscribe", u) \/ u = t
              /\ Has(Append(up, e), "unsubscribe", u) <=> Has(up, "unsubscribe", u)
              /\ Single(up, "subscribe", u) /\ (u = t => ~Has(up, "subscribe", u))
                     => Single(Append(up, e), "subscribe", u)
          BY SMTT(30), <4>3, <4>4, <1>HasAppend
        <5> QED
          BY Zenon, <3>1, <4>1, <4>2, <4>3, <5>1
      <4> QED
        BY Zenon, <4>1, <4>5
    <3> QED
      BY Zenon, <3>2, <3>3
  <2>4. ASSUME NEW u \in Topics PROVE Asked(u)'
    <3>1. Asked(u)
      BY Zenon DEF Handshake
    <3>2. t \notin DOMAIN topics => ~Has(down, "topic_ok", t) /\ acking # t
      BY Zenon DEF Handshake, Asked
    <3>3. u \in DOMAIN topics => u \in DOMAIN topics' /\ (topics'[u].live => topics[u].live)
      BY Zenon, <2>1
    <3> QED
      BY Zenon, <2>1, <2>2, <2>3, <3>1, <3>2, <3>3 DEF Asked, NoNewCommand
  <2>5. ASSUME NEW u \in DOMAIN topics' PROVE Entered(u)'
    <3>1. CASE u = t
      BY Zenon, <2>1, <2>2, <2>3, <3>1 DEF Entered
    <3>2. CASE u # t
      <4>1. u \in DOMAIN topics /\ topics'[u] = topics[u] /\ Entered(u) /\ u \in Topics
        BY Zenon, <2>1, <2>5, <3>2, MissTypes DEF Handshake
      <4> QED
        BY Zenon, <2>3, <4>1 DEF Entered, Connected
    <3> QED
      BY Zenon, <3>1, <3>2
  <2> QED
    BY Zenon, <2>4, <2>5 DEF Handshake, NoNewCommand

(* The last watch leaves its topic. *)
<1>HandshakeCloses.
      ASSUME WatchTypeOK, Handshake, pc = "serve", NEW w \in Watches, NEW t \in Topics,
             CmdCloses(w, t), ~Asking(t)', NoNewCommand,
             UNCHANGED <<acking, registered, open, down, pc>>
      PROVE  Handshake'
  <2> USE <1>HandshakeCloses
  <2>1. /\ t \in DOMAIN topics /\ topics[t].pending = {} /\ DOMAIN topics' = DOMAIN topics \ {t}
        /\ \A u \in DOMAIN topics : u # t => topics'[u] = topics[u]
        /\ up' = Append(up, Msg("unsubscribe", t, 0))
    BY Zenon DEF CmdCloses, Removed
  <2>2. topics[t].live /\ ~Has(down, "topic_ok", t)
    BY Zenon, <2>1 DEF Handshake, Entered
  <2>3. ~Has(up, "subscribe", t) /\ acking # t
    BY Zenon, <2>1, <2>2 DEF Handshake, Asked
  <2>4. PICK e \in Upward : e = Msg("unsubscribe", t, 0) /\ e.kind = "unsubscribe" /\ e.topic = t
    <3>1. /\ Msg("unsubscribe", t, 0) \in Upward
          /\ Msg("unsubscribe", t, 0).kind = "unsubscribe" /\ Msg("unsubscribe", t, 0).topic = t
      BY Zenon DEF Upward, Msg
    <3> QED
      BY Zenon, <3>1
  <2>5. \A u \in Topics :
            /\ Has(up', "subscribe", u) => Has(up, "subscribe", u)
            /\ Has(up', "unsubscribe", u) => Has(up, "unsubscribe", u) \/ u = t
            /\ Single(up, "subscribe", u) => Single(up', "subscribe", u)
    <3> TAKE u \in Topics
    <3>1. up \in Seq(Upward)
      BY Zenon, MissTypes
    <3>2. /\ Has(Append(up, e), "subscribe", u) <=> Has(up, "subscribe", u)
          /\ Has(Append(up, e), "unsubscribe", u) <=> Has(up, "unsubscribe", u) \/ u = t
          /\ Single(up, "subscribe", u) => Single(Append(up, e), "subscribe", u)
      BY Zenon, <2>4, <3>1, <1>HasAppend
    <3> QED
      BY Zenon, <2>1, <2>4, <3>2
  <2>6. ASSUME NEW u \in Topics PROVE Asked(u)'
    <3>1. Asked(u)
      BY Zenon DEF Handshake
    <3>2. CASE u = t
      <4>1. \A m \in Range(down) : ~(m.kind = "topic_ok" /\ m.topic = t)
        BY Zenon, <2>2 DEF Range, Has
      <4> QED
        BY Zenon, <2>2, <2>3, <2>5, <3>1, <3>2, <4>1 DEF Asked
    <3>3. CASE u # t
      BY Zenon, <2>1, <2>5, <3>1, <3>3 DEF Asked, NoNewCommand
    <3> QED
      BY Zenon, <3>2, <3>3
  <2>7. ASSUME NEW u \in DOMAIN topics' PROVE Entered(u)'
    <3>1. u \in DOMAIN topics /\ u # t /\ topics'[u] = topics[u] /\ Entered(u) /\ u \in Topics
      BY Zenon, <2>1, <2>7, MissTypes DEF Handshake
    <3> QED
      BY Zenon, <2>5, <3>1 DEF Entered, Connected
  <2> QED
    BY Zenon, <2>6, <2>7 DEF Handshake, NoNewCommand

(* A topic is acknowledged. *)
<1>HandshakeAcks.
      ASSUME WatchTypeOK, Handshake, Connected, NEW t \in Topics, NEW n,
             Acks(t, n), down # <<>>, down' = Tail(down), NoNewCommand,
             Head(down).kind = "topic_ok", Head(down).topic = t,
             UNCHANGED <<acking, registered, open, up, pc>>
      PROVE  Handshake'
  <2> USE <1>HandshakeAcks
  <2>1. NoNewAnswer
    BY Zenon, <1>ReadAnswers
  <2>2. CASE t \notin DOMAIN topics
    <3>1. SameTopics
      BY Zenon, <2>2, SameTable DEF Acks
    <3> QED
      BY Zenon, <2>1, <3>1, <1>HandshakeStays
  <2>3. CASE t \in DOMAIN topics
    <3>1. /\ DOMAIN topics' = DOMAIN topics /\ topics'[t].live /\ topics'[t].pending = {}
          /\ \A u \in DOMAIN topics : u # t => topics'[u] = topics[u]
      BY Zenon, <2>3 DEF Acks, Edited
    <3>2. Has(down, "topic_ok", t) /\ Single(down, "topic_ok", t) /\ ~Has(down', "topic_ok", t)
      <4>1. Single(down, "topic_ok", t)
        BY Zenon, <2>3 DEF Handshake, Entered
      <4> QED
        BY Zenon, <4>1, MissTypes, <1>HasTail
    <3>3. /\ ~Has(up, "subscribe", t) /\ acking # t
      BY Zenon, <3>2 DEF Handshake, Asked
    <3>4. open => t \in registered
      BY Zenon, <2>3, <3>2 DEF Handshake, Entered
    <3>5. ASSUME NEW u \in Topics PROVE Asked(u)'
      <4>1. Asked(u)
        BY Zenon DEF Handshake
      <4>2. CASE u = t
        BY Zenon, <2>1, <2>3, <3>1, <3>3, <4>1, <4>2 DEF Asked, NoNewCommand, NoNewAnswer
      <4>3. CASE u # t
        BY Zenon, <2>1, <3>1, <4>1, <4>3 DEF Asked, NoNewCommand, NoNewAnswer
      <4> QED
        BY Zenon, <4>2, <4>3
    <3>6. ASSUME NEW u \in DOMAIN topics' PROVE Entered(u)'
      <4>1. u \in DOMAIN topics /\ Entered(u) /\ u \in Topics
        BY Zenon, <3>1, <3>6, MissTypes DEF Handshake
      <4>2. CASE u = t
        BY Zenon, <2>1, <3>1, <3>2, <3>4, <4>1, <4>2 DEF Entered, NoNewAnswer
      <4>3. CASE u # t
        BY Zenon, <2>1, <3>1, <4>1, <4>3 DEF Entered, Connected, NoNewAnswer
      <4> QED
        BY Zenon, <4>2, <4>3
    <3> QED
      BY Zenon, <3>5, <3>6 DEF Handshake, NoNewCommand
  <2> QED
    BY Zenon, <2>2, <2>3

(* Every topic is subscribed again on a new socket. *)
<1>HandshakeReopens.
      ASSUME WatchTypeOK, Handshake, Quiet, pc = "hello", pc' = "resub", Reopens, NoNewCommand,
             UNCHANGED <<acking, registered, down>>
      PROVE  Handshake'
  <2> USE <1>HandshakeReopens
  <2>1. down' = <<>> /\ acking' = NoTopic
    BY Zenon DEF Quiet, Connected
  <2>2. \A kind, t : ~Has(down', kind, t) /\ Single(down', kind, t) /\ Range(down') = {}
    BY Zenon, <2>1, EmptyIs
  <2>3. \A t \in Topics : acking' # t
    BY Zenon, <2>1, NoTopicIsNone
  <2>4. /\ DOMAIN topics' = DOMAIN topics /\ \A t \in DOMAIN topics : ~topics'[t].live
        /\ \A k \in DOMAIN up' : \E t \in DOMAIN topics : up'[k] = Msg("subscribe", t, 0)
        /\ \A j, k \in DOMAIN up' : up'[j] = up'[k] => j = k
    BY Zenon DEF Reopens
  <2>5. \A k \in DOMAIN up' : \E t \in DOMAIN topics :
            up'[k] = Msg("subscribe", t, 0) /\ up'[k].kind = "subscribe" /\ up'[k].topic = t
    BY SMTT(30), <2>4 DEF Msg
  <2>6. ASSUME NEW t
        PROVE  /\ ~Has(up', "unsubscribe", t) /\ Single(up', "subscribe", t)
               /\ Has(up', "subscribe", t) => t \in DOMAIN topics
    <3>1. ~Has(up', "unsubscribe", t)
      BY Zenon, <2>5 DEF Has
    <3>2. Has(up', "subscribe", t) => t \in DOMAIN topics
      BY Zenon, <2>5 DEF Has
    <3>3. Single(up', "subscribe", t)
      BY SMTT(30), <2>4, <2>5 DEF Single
    <3> QED
      BY Zenon, <3>1, <3>2, <3>3
  <2>7. ASSUME NEW t \in Topics PROVE Asked(t)'
    BY Zenon, <2>2, <2>3, <2>4, <2>6 DEF Asked
  <2>8. ASSUME NEW t \in DOMAIN topics' PROVE Entered(t)'
    BY Zenon, <2>2, <2>4, <2>6, <2>8 DEF Entered
  <2> QED
    BY Zenon, <2>7, <2>8 DEF Handshake, NoNewCommand

(* The node registers a topic, *)
<1>HandshakeRegisters.
      ASSUME WatchTypeOK, Handshake, HandleClient, Head(up).kind = "subscribe" PROVE Handshake'
  <2> USE <1>HandshakeRegisters
  <2>1. /\ up # <<>> /\ up' = Tail(up) /\ registered' = registered \cup {Head(up).topic}
        /\ acking' = Head(up).topic
        /\ UNCHANGED <<down, open, pc, topics, cmds, use>>
    BY Zenon DEF HandleClient, actor, watchers
  <2>2. PICK t \in Topics : t = Head(up).topic
    <3>1. Head(up) \in Upward
      BY Zenon, <2>1, MissTypes, TailPlaces
    <3> QED
      BY Zenon, <3>1 DEF Upward
  <2>3. ASSUME NEW u \in Topics
        PROVE  /\ Has(up', "subscribe", u) => Has(up, "subscribe", u) /\ u # t
               /\ Has(up', "unsubscribe", u) => Has(up, "unsubscribe", u)
               /\ Single(up', "subscribe", u)
    <3>1. up \in Seq(Upward) /\ Single(up, "subscribe", u)
      BY Zenon, MissTypes DEF Handshake, Asked
    <3> QED
      BY Zenon, <2>1, <2>2, <3>1, <1>HasTail
  <2>4. /\ Has(up, "subscribe", t) /\ t \in DOMAIN topics /\ ~topics[t].live
        /\ ~Has(down, "topic_ok", t)
    <3>1. Has(up, "subscribe", t)
      BY Zenon, <2>1, <2>2, MissTypes, <1>HasTail
    <3> QED
      BY Zenon, <3>1 DEF Handshake, Asked
  <2>5. NoNewCommand
    BY Zenon, <2>1, <1>SameCommands DEF Handshake
  <2>6. ASSUME NEW u \in Topics PROVE Asked(u)'
    <3>1. Asked(u)
      BY Zenon DEF Handshake
    <3>2. CASE u = t
      BY Zenon, <2>1, <2>2, <2>3, <2>4, <3>1, <3>2 DEF Asked, NoNewCommand
    <3>3. CASE u # t
      BY Zenon, <2>1, <2>2, <2>3, <2>5, <3>1, <3>3 DEF Asked, NoNewCommand
    <3> QED
      BY Zenon, <3>2, <3>3
  <2>7. ASSUME NEW u \in DOMAIN topics' PROVE Entered(u)'
    <3>1. u \in DOMAIN topics /\ Entered(u) /\ u \in Topics
      BY Zenon, <2>1, <2>7, MissTypes DEF Handshake
    <3> QED
      BY Zenon, <2>1, <2>3, <3>1 DEF Entered, Connected
  <2> QED
    BY Zenon, <2>5, <2>6, <2>7 DEF Handshake, NoNewCommand

(* or unregisters one and says so, *)
<1>HandshakeUnregisters.
      ASSUME WatchTypeOK, Handshake, HandleClient, Head(up).kind # "subscribe" PROVE Handshake'
  <2> USE <1>HandshakeUnregisters
  <2>1. /\ up # <<>> /\ up' = Tail(up) /\ registered' = registered \ {Head(up).topic}
        /\ acking' = NoTopic /\ acking = NoTopic
        /\ down' = Append(down, Msg("topic_ok", Head(up).topic, 0))
        /\ UNCHANGED <<open, pc, topics, cmds, use>>
    BY Zenon DEF HandleClient, actor, watchers
  <2>2. PICK t \in Topics : t = Head(up).topic /\ Head(up).kind = "unsubscribe"
    <3>1. Head(up) \in Upward
      BY Zenon, <2>1, MissTypes, TailPlaces
    <3> QED
      BY Zenon, <3>1 DEF Upward
  <2>3. ASSUME NEW u \in Topics
        PROVE  /\ Has(up', "subscribe", u) => Has(up, "subscribe", u)
               /\ Has(up', "unsubscribe", u) => Has(up, "unsubscribe", u)
               /\ Single(up', "subscribe", u)
    <3>1. up \in Seq(Upward) /\ Single(up, "subscribe", u)
      BY Zenon, MissTypes DEF Handshake, Asked
    <3> QED
      BY Zenon, <2>1, <2>2, <3>1, <1>HasTail
  <2>4. t \notin DOMAIN topics /\ ~Asking(t) /\ ~Has(up, "subscribe", t)
    <3>1. Has(up, "unsubscribe", t)
      BY Zenon, <2>1, <2>2, MissTypes, <1>HasTail
    <3>2. t \notin DOMAIN topics
      BY Zenon, <3>1 DEF Handshake, Entered
    <3> QED
      BY Zenon, <3>1, <3>2 DEF Handshake, Asked
  <2>5. PICK e \in Downward : e = Msg("topic_ok", t, 0) /\ e.kind = "topic_ok" /\ e.topic = t /\ e.n = 0
    <3>1. /\ Msg("topic_ok", t, 0) \in Downward /\ Msg("topic_ok", t, 0).kind = "topic_ok"
          /\ Msg("topic_ok", t, 0).topic = t /\ Msg("topic_ok", t, 0).n = 0
      BY Zenon DEF Downward, Msg
    <3> QED
      BY Zenon, <3>1
  <2>6. down' = Append(down, e) /\ Range(down') = Range(down) \cup {e}
    BY SMTT(30), <2>1, <2>2, <2>5, MissTypes, RangeAppend
  <2>7. ASSUME NEW u \in Topics, u # t
        PROVE  /\ Has(down', "topic_ok", u) => Has(down, "topic_ok", u)
               /\ Single(down, "topic_ok", u) => Single(down', "topic_ok", u)
    BY SMTT(30), <2>5, <2>6, <2>7, MissTypes, <1>HasAppend
  <2>8. NoNewCommand
    BY Zenon, <2>1, <1>SameCommands DEF Handshake
  <2>9. ASSUME NEW u \in Topics PROVE Asked(u)'
    <3>1. Asked(u) /\ acking' # u
      BY Zenon, <2>1, NoTopicIsNone DEF Handshake
    <3>2. CASE u = t
      <4>1. ~Has(up', "subscribe", t) /\ ~Asking(t)' /\ Single(up', "subscribe", t)
        BY Zenon, <2>3, <2>4, <2>8 DEF NoNewCommand
      <4>2. \A m \in Range(down') : m.kind = "topic_ok" /\ m.topic = t /\ m.n # 0 => t \in DOMAIN topics
        BY Zenon, <2>5, <2>6, <3>1, <3>2 DEF Asked
      <4> QED
        BY Zenon, <2>1, <3>1, <3>2, <4>1, <4>2 DEF Asked
    <3>3. CASE u # t
      <4>1. \A m \in Range(down') : m.kind = "topic_ok" /\ m.topic = u /\ m.n # 0 => u \in DOMAIN topics
        BY Zenon, <2>5, <2>6, <3>1 DEF Asked
      <4> QED
        BY Zenon, <2>1, <2>2, <2>3, <2>7, <2>8, <3>1, <3>3, <4>1 DEF Asked, NoNewCommand
    <3> QED
      BY Zenon, <3>2, <3>3
  <2>10. ASSUME NEW u \in DOMAIN topics' PROVE Entered(u)'
    <3>1. u \in DOMAIN topics /\ Entered(u) /\ u \in Topics /\ u # t
      BY Zenon, <2>1, <2>4, <2>10, MissTypes DEF Handshake
    <3> QED
      BY Zenon, <2>1, <2>2, <2>3, <2>7, <3>1 DEF Entered, Connected
  <2> QED
    BY Zenon, <2>8, <2>9, <2>10 DEF Handshake, NoNewCommand

(* and acknowledges the one it registered. *)
<1>HandshakeAnswers.
      ASSUME WatchTypeOK, Handshake, AnswerSubscribe PROVE Handshake'
  <2> USE <1>HandshakeAnswers
  <2>1. /\ acking # NoTopic /\ acking' = NoTopic
        /\ down' = Append(down, Msg("topic_ok", acking, tail[acking]))
        /\ UNCHANGED <<registered, up, open, pc, topics, cmds, use>>
    BY Zenon DEF AnswerSubscribe, actor, watchers
  <2>2. PICK t \in Topics : t = acking
    BY Zenon, <2>1 DEF WatchTypeOK, NodeTypeOK
  <2>3. /\ t \in DOMAIN topics /\ ~topics[t].live /\ t \in registered
        /\ ~Has(down, "topic_ok", t) /\ ~Has(up, "subscribe", t)
    BY Zenon, <2>2 DEF Handshake, Asked
  <2>4. PICK e \in Downward : e = Msg("topic_ok", t, tail[t]) /\ e.kind = "topic_ok" /\ e.topic = t
    <3>1. tail[t] \in Nat
      BY Zenon, MissTypes
    <3>2. /\ Msg("topic_ok", t, tail[t]) \in Downward /\ Msg("topic_ok", t, tail[t]).kind = "topic_ok"
          /\ Msg("topic_ok", t, tail[t]).topic = t
      BY Zenon, <3>1 DEF Downward, Msg
    <3> QED
      BY Zenon, <3>2
  <2>5. down' = Append(down, e) /\ Range(down') = Range(down) \cup {e}
    BY SMTT(30), <2>1, <2>2, <2>4, MissTypes, RangeAppend
  <2>6. ASSUME NEW u \in Topics
        PROVE  /\ Has(down', "topic_ok", u) => Has(down, "topic_ok", u) \/ u = t
               /\ Single(down, "topic_ok", u) => Single(down', "topic_ok", u)
    BY SMTT(30), <2>3, <2>4, <2>5, MissTypes, <1>HasAppend
  <2>7. NoNewCommand
    BY Zenon, <2>1, <1>SameCommands DEF Handshake
  <2>8. ASSUME NEW u \in Topics PROVE Asked(u)'
    <3>1. Asked(u) /\ acking' # u
      BY Zenon, <2>1, NoTopicIsNone DEF Handshake
    <3>2. \A m \in Range(down') : m.kind = "topic_ok" /\ m.topic = u /\ m.n # 0 => u \in DOMAIN topics
      BY Zenon, <2>3, <2>4, <2>5, <3>1 DEF Asked
    <3>3. CASE u = t
      BY Zenon, <2>1, <2>3, <3>1, <3>2, <3>3 DEF Asked
    <3>4. CASE u # t
      BY Zenon, <2>1, <2>2, <2>6, <2>7, <3>1, <3>2, <3>4 DEF Asked, NoNewCommand
    <3> QED
      BY Zenon, <3>3, <3>4
  <2>9. ASSUME NEW u \in DOMAIN topics' PROVE Entered(u)'
    <3>1. u \in DOMAIN topics /\ Entered(u) /\ u \in Topics
      BY Zenon, <2>1, <2>9, MissTypes DEF Handshake
    <3> QED
      BY Zenon, <2>1, <2>3, <2>6, <3>1 DEF Entered, Connected
  <2> QED
    BY Zenon, <2>7, <2>8, <2>9 DEF Handshake, NoNewCommand

(* A topic is asked for when no Unsubscribe of it is under way. *)
<1>HandshakeWatch.
      ASSUME WatchTypeOK, Handshake, "rewatch" \notin WatchHazards, NEW w \in Watches, Watch(w)
      PROVE  Handshake'
  <2> USE <1>HandshakeWatch
  <2>1. /\ ~Unsubscribing(topicOf[w])
        /\ cmds' = Append(cmds, [kind |-> "subscribe", watch |-> w])
        /\ pc' = IF pc = "none" THEN "dial" ELSE pc
        /\ UNCHANGED <<registered, acking, open, up, down, topics, use>>
    BY Zenon DEF Watch, node, socket
  <2>2. PICK t \in Topics : t = topicOf[w]
    BY Zenon, TopicOfWatch DEF WatchTypeOK
  <2>3. PICK c \in Commands : c = [kind |-> "subscribe", watch |-> w] /\ c.kind = "subscribe" /\ c.watch = w
    <3>1. [kind |-> "subscribe", watch |-> w] \in Commands
      BY Zenon DEF Commands
    <3> QED
      BY Zenon, <3>1
  <2>4. /\ Leaving' /\ \A u : Asking(u)' => Asking(u) \/ u = t
    BY Zenon, <2>1, <2>2, <2>3, <1>CommandsAdded DEF Unsubscribing, Handshake
  <2>5. ~Has(up, "unsubscribe", t)
    BY Zenon, <2>1, <2>2 DEF Unsubscribing, Has
  <2>6. t \notin DOMAIN topics => ~Has(down, "topic_ok", t)
    <3>1. ASSUME t \notin DOMAIN topics, NEW k \in DOMAIN down,
                 down[k].kind = "topic_ok", down[k].topic = t
          PROVE  FALSE
      <4>1. down[k] \in Range(down) /\ down[k] \in Downward
        BY Zenon, MissTypes DEF Range
      <4>2. down[k].n = 0
        BY Zenon, <3>1, <4>1 DEF Handshake, Asked
      <4>3. down[k] = Msg("topic_ok", t, 0)
        <5>1. down[k] = [kind |-> down[k].kind, topic |-> down[k].topic, n |-> down[k].n]
          BY Zenon, <4>1 DEF Downward
        <5> QED
          BY Zenon, <3>1, <4>2, <5>1 DEF Msg
      <4> QED
        BY Zenon, <2>1, <2>2, <4>3 DEF Unsubscribing
    <3> QED
      BY Zenon, <3>1 DEF Has
  <2>7. ASSUME NEW u \in Topics PROVE Asked(u)'
    <3>1. Asked(u)
      BY Zenon DEF Handshake
    <3>2. CASE u = t
      BY Zenon, <2>1, <2>5, <2>6, <3>1, <3>2 DEF Asked
    <3>3. CASE u # t
      BY Zenon, <2>1, <2>4, <3>1, <3>3 DEF Asked
    <3> QED
      BY Zenon, <3>2, <3>3
  <2>8. ASSUME NEW u \in DOMAIN topics' PROVE Entered(u)'
    <3>1. u \in DOMAIN topics /\ Entered(u) /\ u \in Topics
      BY Zenon, <2>1, <2>8, MissTypes DEF Handshake
    <3> QED
      BY Zenon, <2>1, <3>1 DEF Entered, Connected
  <2> QED
    BY Zenon, <2>4, <2>7, <2>8 DEF Handshake

(* The commands of an actor that has a socket, *)
<1>HandshakeCommands.
      ASSUME WatchTypeOK, Handshake, HandleCmd PROVE Handshake'
  <2> USE <1>HandshakeCommands
  <2>1. PICK w \in Watches, t \in Topics :
             /\ w = Head(cmds).watch /\ t = topicOf[w]
             /\ \/ CmdJoins(w, t) \/ CmdAsks(w, t) \/ CmdLeaves(w, t)
                \/ CmdCloses(w, t) \/ CmdIdles(w, t)
    BY Zenon, HandleCmdIs
  <2>2. /\ pc = "serve" /\ cmds # <<>> /\ cmds' = Tail(cmds)
        /\ UNCHANGED <<acking, registered, open, down, pc>>
    BY Zenon DEF HandleCmd, node
  <2>3. use' = use
    BY Zenon, <2>1 DEF CmdJoins, CmdAsks, CmdLeaves, CmdCloses, CmdIdles, Returned, watchers
  <2>4. /\ NoNewCommand /\ (Head(cmds).kind = "subscribe" => Asking(t))
        /\ (Head(cmds).kind = "unsubscribe" => ~Asking(t)')
    BY Zenon, <2>1, <2>2, <2>3, <1>CommandsTaken DEF Handshake, NoNewCommand
  <2>5. NoNewAnswer
    BY Zenon, <2>2, <1>SameAnswers
  <2>6. \A u \in DOMAIN topics : topics[u].live \in BOOLEAN
    BY Zenon, MissTypes DEF Table, TopicStates
  <2>7. CASE CmdJoins(w, t)
    <3>1. SameTopics /\ up' = up
      BY Zenon, <2>6, <2>7 DEF CmdJoins, Edited, SameTopics
    <3> QED
      BY Zenon, <2>2, <2>4, <2>5, <3>1, <1>HandshakeStays
  <2>8. CASE CmdAsks(w, t)
    BY Zenon, <2>2, <2>4, <2>8, <1>HandshakeAsks DEF CmdAsks
  <2>9. CASE CmdLeaves(w, t)
    <3>1. SameTopics /\ up' = up
      BY Zenon, <2>9 DEF CmdLeaves, Edited, SameTopics
    <3> QED
      BY Zenon, <2>2, <2>4, <2>5, <3>1, <1>HandshakeStays
  <2>10. CASE CmdCloses(w, t)
    BY Zenon, <2>2, <2>4, <2>10, <1>HandshakeCloses DEF CmdCloses
  <2>11. CASE CmdIdles(w, t)
    <3>1. SameTopics /\ up' = up
      BY Zenon, <2>11, SameTable DEF CmdIdles
    <3> QED
      BY Zenon, <2>2, <2>4, <2>5, <3>1, <1>HandshakeStays
  <2> QED
    BY Zenon, <2>1, <2>7, <2>8, <2>9, <2>10, <2>11

(* the messages it reads, *)
<1>HandshakeMessages.
      ASSUME WatchTypeOK, Handshake, HandleMsg \/ ResubscribeMsg PROVE Handshake'
  <2> USE <1>HandshakeMessages
  <2>1. /\ Connected /\ down # <<>> /\ down' = Tail(down)
        /\ UNCHANGED <<acking, registered, open, up, pc, cmds>>
    BY Zenon DEF HandleMsg, ResubscribeMsg, node, Connected
  <2>2. CASE Head(down).kind = "topic_ok"
    <3>1. PICK t \in Topics, n \in Nat : t = Head(down).topic /\ n = Head(down).n
      BY Zenon, <2>1, HeadTypes
    <3>2. Acks(t, n)
      BY Zenon, <2>2, <3>1, AckIs DEF HandleMsg, ResubscribeMsg
    <3>3. use' = use
      BY Zenon, <3>2 DEF Acks, Returned, watchers
    <3>4. NoNewCommand
      BY Zenon, <2>1, <3>3, <1>SameCommands DEF Handshake
    <3> QED
      BY Zenon, <2>1, <2>2, <3>1, <3>2, <3>4, <1>HandshakeAcks
  <2>3. CASE Head(down).kind # "topic_ok"
    <3>1. use' = use
      BY Zenon, <2>3 DEF HandleMsg, ResubscribeMsg, watchers
    <3>2. NoNewCommand /\ NoNewAnswer
      BY Zenon, <2>1, <3>1, <1>SameCommands, <1>ReadAnswers DEF Handshake
    <3>3. SameTopics
      <4>1. CASE HandleMsg
        <5>1. Head(down) \in Events /\ Deliver(Head(down))
          BY Zenon, <2>1, <2>3, <4>1, HeadTypes DEF HandleMsg
        <5> QED
          BY Zenon, <5>1, DeliverIs, DeliverKeepsTopics
      <4>2. CASE ResubscribeMsg
        BY Zenon, <2>3, <4>2, SameTable DEF ResubscribeMsg
      <4> QED
        BY Zenon, <4>1, <4>2
    <3> QED
      BY Zenon, <2>1, <3>2, <3>3, <1>HandshakeStays
  <2> QED
    BY Zenon, <2>2, <2>3

(* and its steps without one. *)
<1>HandshakeAway.
      ASSUME WatchTypeOK, Quiet, Handshake, ApplyOffline PROVE Handshake'
  <2> USE <1>HandshakeAway
  <2>1. PICK w \in Watches, t \in Topics :
             OffJoins(w, t) \/ OffLeaves(w, t) \/ OffCloses(w, t) \/ OffIdles(w, t)
    BY Zenon, ApplyOfflineIs
  <2>2. /\ pc = "backoff" /\ cmds # <<>> /\ cmds' = Tail(cmds)
        /\ UNCHANGED <<acking, registered, open, up, down, pc, use>>
    BY Zenon DEF ApplyOffline, node, socket, watchers
  <2>3. ~Connected' /\ ~open' /\ up' = <<>> /\ down' = <<>> /\ acking' = NoTopic
    BY Zenon, <2>2 DEF Quiet, Connected
  <2>4. Leaving'
    BY Zenon, <2>2, <1>CommandsTaken DEF Handshake
  <2>5. \A u \in DOMAIN topics : topics[u].live => topics[u].pending = {}
    BY Zenon DEF Handshake, Entered
  <2>6. \A u \in DOMAIN topics' : topics'[u].live => topics'[u].pending = {}
    BY Zenon, <2>1, <2>5 DEF OffJoins, OffLeaves, OffCloses, OffIdles, Edited, Removed
  <2> QED
    BY Zenon, <2>3, <2>4, <2>6, <1>HandshakeOffline
<1>1. ASSUME NEW w \in Watches, Watch(w) PROVE Handshake'
  BY Zenon, <1>1, <1>HandshakeWatch
<1>2. ASSUME Gone PROVE Handshake'
  <2>1. up' = <<>> /\ down' = <<>> /\ acking' = NoTopic /\ DOMAIN topics' = {} /\ cmds' = <<>>
    BY Zenon, <1>2 DEF Gone
  <2>2. Leaving'
    BY SMTT(30), <2>1 DEF Leaving
  <2> QED
    BY Zenon, <2>1, <2>2, <1>HandshakeOffline
<1>3. ASSUME NEW w \in Watches, Unwatch(w) PROVE Handshake'
  <2>1. CASE Gone
    BY Zenon, <1>2, <2>1
  <2>2. CASE ~Gone
    <3>1. /\ cmds' = Append(cmds, [kind |-> "unsubscribe", watch |-> w])
          /\ UNCHANGED <<acking, registered, open, up, down, pc, topics, use>>
      BY Zenon, <1>3, <2>2 DEF Unwatch, node, socket
    <3>2. PICK c \in Commands : c = [kind |-> "unsubscribe", watch |-> w] /\ c.kind = "unsubscribe"
      <4>1. [kind |-> "unsubscribe", watch |-> w] \in Commands
        BY Zenon DEF Commands
      <4> QED
        BY Zenon, <4>1
    <3>3. NoNewCommand
      BY Zenon, <3>1, <3>2, <1>CommandsAdded DEF Handshake, NoNewCommand
    <3> QED
      BY Zenon, <3>1, <3>3, <1>SameAnswers, SameTable, <1>HandshakeStays
  <2> QED
    BY Zenon, <2>1, <2>2
<1>4. ASSUME Lost, UNCHANGED <<topics, cmds, watchers>> PROVE Handshake'
  <2>1. /\ up' = <<>> /\ down' = <<>> /\ acking' = NoTopic /\ ~open' /\ ~Connected'
    BY Zenon, <1>4 DEF Lost, Connected
  <2>2. Leaving'
    BY Zenon, <1>4, <1>SameCommands DEF Handshake, NoNewCommand, watchers
  <2>3. \A t \in DOMAIN topics' : topics'[t].live => topics'[t].pending = {}
    BY Zenon, <1>4 DEF Handshake, Entered
  <2> QED
    BY Zenon, <2>1, <2>2, <2>3, <1>HandshakeOffline
<1>5. CASE HelloFails \/ SocketEnds \/ SyncFails
  BY Zenon, <1>2, <1>4, <1>5 DEF HelloFails, SocketEnds, SyncFails, End
<1>6. CASE HelloOk
  <2>1. UNCHANGED <<acking, registered, down, cmds, use>>
    BY Zenon, <1>6 DEF HelloOk, node, watchers
  <2>2. NoNewCommand
    BY Zenon, <2>1, <1>SameCommands DEF Handshake
  <2>3. CASE pc = "hello" /\ pc' = "resub" /\ Reopens
    BY Zenon, <2>1, <2>2, <2>3, <1>HandshakeReopens
  <2>4. CASE pc = "dial" /\ UNCHANGED <<topics, up>>
    <3>1. up' = <<>> /\ down' = <<>> /\ acking' = NoTopic /\ DOMAIN topics' = {}
      BY Zenon, <2>1, <2>4 DEF Quiet, Connected
    <3> QED
      BY Zenon, <2>2, <3>1, <1>HandshakeOffline DEF NoNewCommand
  <2> QED
    BY Zenon, <1>6, <2>3, <2>4, HelloOkIs
<1>7. ASSUME UNCHANGED <<acking, registered, open, up, down, cmds, use>>, SameTopics,
             pc' = pc \/ (Connected /\ \A t \in DOMAIN topics : topics[t].live) \/ ~Connected'
      PROVE  Handshake'
  BY Zenon, <1>7, <1>SameAnswers, <1>SameCommands, <1>HandshakeStays DEF Handshake
<1>8. ASSUME NEW e \in Events, Deliver(e) PROVE SameTopics
  BY Zenon, <1>8, DeliverIs, DeliverKeepsTopics
<1>9. CASE Dial \/ SyncOnce \/ SyncAnswer \/ Publish \/ (\E t \in Topics : Commit(t)) \/ UNCHANGED watchVars
  <2>1. UNCHANGED <<acking, registered, open, up, down, cmds, use, topics>>
    BY Zenon, <1>9 DEF Dial, SyncOnce, SyncAnswer, Publish, Commit, watchVars, node, socket, actor, watchers
  <2>2. pc' = pc \/ (Connected /\ \A t \in DOMAIN topics : topics[t].live) \/ ~Connected'
    BY Zenon, <1>9 DEF Dial, SyncOnce, SyncAnswer, Publish, Commit, watchVars, actor, Connected
  <2> QED
    BY Zenon, <1>7, <2>1, <2>2, SameTable
<1>10. CASE CaughtUp
  <2>1. UNCHANGED <<acking, registered, open, up, down, cmds, use>> /\ pc = "sync"
    BY Zenon, <1>10 DEF CaughtUp, node, socket
  <2>2. Connected /\ \A t \in DOMAIN topics : topics[t].live
    BY Zenon, <2>1 DEF Connected, Handshake, Entered
  <2>3. SameTopics
    <3>1. CASE \E e : CatchesUp(e)
      BY Zenon, <3>1, DeliverKeepsTopics DEF CatchesUp
    <3>2. CASE Advances
      BY Zenon, <3>2 DEF Advances, SameTopics
    <3> QED
      BY Zenon, <1>10, <3>1, <3>2, CaughtUpIs
  <2> QED
    BY Zenon, <1>7, <2>1, <2>2, <2>3
<1>11. CASE Release
  <2>1. UNCHANGED <<acking, registered, open, up, down, cmds, use>> /\ pc = "release"
    BY Zenon, <1>11 DEF Release, node, socket
  <2>2. Connected /\ \A t \in DOMAIN topics : topics[t].live
    BY Zenon, <2>1 DEF Connected, Handshake, Entered
  <2>3. SameTopics
    BY Zenon, <1>8, <1>11, SameTable, HeadTypes DEF Release
  <2> QED
    BY Zenon, <1>7, <2>1, <2>2, <2>3
<1>12. CASE SendEvent
  <2>1. /\ UNCHANGED <<acking, registered, open, up, cmds, use, topics, pc>>
        /\ outbox # <<>> /\ down' = Append(down, Head(outbox))
    BY Zenon, <1>12 DEF SendEvent, actor, watchers
  <2>2. Head(outbox) \in Events
    BY Zenon, <2>1, MissTypes, TailPlaces
  <2> QED
    BY Zenon, <2>1, <2>2, <1>SentEvents, <1>SameCommands, SameTable, <1>HandshakeStays DEF Handshake
<1>13. CASE Drop
  <2>1. /\ ~open' /\ up' = <<>> /\ acking' = NoTopic /\ UNCHANGED <<cmds, use, topics, pc>>
    BY Zenon, <1>13 DEF Drop, actor, watchers
  <2>2. PICK n \in 0 .. Len(down) : down' = SubSeq(down, 1, n)
    BY Zenon, <1>13 DEF Drop
  <2>3. Range(down') \subseteq Range(down)
    <3>1. /\ DOMAIN down = 1 .. Len(down) /\ DOMAIN down' = 1 .. n /\ Len(down) \in Nat /\ n \in Nat
          /\ \A i \in 1 .. n : down'[i] = down[i]
      BY SMTT(30), <2>2, MissTypes, PrefixPlaces
    <3> QED
      BY SMTT(30), <3>1 DEF Range
  <2>4. NoNewAnswer
    BY Zenon, <2>2, <2>3, MissTypes, <1>HasPrefix DEF NoNewAnswer
  <2> QED
    BY Zenon, <2>1, <2>4, <1>SameCommands, SameTable, <1>HandshakeBroken DEF Handshake
<1>14. CASE HandleCmd \/ HandleMsg \/ ResubscribeMsg \/ ApplyOffline
  BY Zenon, <1>14, <1>HandshakeCommands, <1>HandshakeMessages, <1>HandshakeAway
<1>15. CASE HandleClient \/ AnswerSubscribe
  BY Zenon, <1>15, <1>HandshakeRegisters, <1>HandshakeUnregisters, <1>HandshakeAnswers
<1> QED
  BY Zenon, <1>1, <1>3, <1>5, <1>6, <1>9, <1>10, <1>11, <1>12, <1>13, <1>14, <1>15 DEF WatchNext

-----------------------------------------------------------------------------
(* What the actor knows. *)

(* No watch is asked for again, none comes back. *)
Ageing ==
    /\ use' = use
    /\ \A w \in Watches : (status'[w] = "off" => status[w] = "off") /\ (Alive(w)' => Alive(w))

(* The watches are the same, and the table keeps those that live. *)
Keeps ==
    /\ Table(topics') /\ DOMAIN topics' = DOMAIN topics
    /\ \A t \in DOMAIN topics :
           /\ topics'[t].subs \subseteq topics[t].subs /\ topics'[t].pending = topics[t].pending
           /\ \A w \in topics[t].subs : Alive(w) => w \in topics'[t].subs
           /\ topics'[t].live => topics[t].live
           /\ topics[t].cursor # NoCursor => topics'[t].cursor # NoCursor

(* Every step keeps the watches that returned known to the actor (handle_cmd, ack_topic). *)
LEMMA KnownKept ==
    ASSUME WatchTypeOK, Quiet, Handshake, Known, Answered, [WatchNext]_watchVars PROVE Known'

(* The queued commands stay true while watches only leave, *)
<1>QueuedStays.
      ASSUME WatchTypeOK, Queued, Ageing, cmds' = cmds \/ (cmds # <<>> /\ cmds' = Tail(cmds))
      PROVE  Queued'
  <2> USE <1>QueuedStays
  <2>1. cmds \in Seq(Commands) /\ \A k \in DOMAIN cmds : cmds[k].watch \in Watches
    BY Zenon, ListeningTypes
  <2>2. CASE cmds' = cmds
    BY Zenon, <2>1, <2>2 DEF Queued, Ageing
  <2>3. CASE cmds # <<>> /\ cmds' = Tail(cmds)
    <3>1. /\ Len(cmds) \in Nat /\ DOMAIN cmds = 1 .. Len(cmds)
          /\ DOMAIN cmds' = 1 .. Len(cmds) - 1
          /\ \A i \in 1 .. Len(cmds) - 1 : cmds'[i] = cmds[i + 1]
      BY Zenon, <2>1, <2>3, TailPlaces
    <3>2. \A i \in DOMAIN cmds' : i + 1 \in DOMAIN cmds /\ cmds'[i] = cmds[i + 1]
      BY SMTT(30), <3>1
    <3> QED
      BY SMTT(30), <2>1, <3>2 DEF Queued, Ageing
  <2> QED
    BY Zenon, <2>2, <2>3

(* and when one is added for a watch that comes or leaves. *)
<1>QueuedAdds.
      ASSUME WatchTypeOK, Queued, NEW c \in Commands, cmds' = Append(cmds, c),
             \A w \in Watches : w # c.watch => status'[w] = status[w],
             status'[c.watch] # "off",
             \/ c.kind = "subscribe" /\ status[c.watch] = "off"
             \/ c.kind = "unsubscribe" /\ ~Alive(c.watch)'
      PROVE  Queued'
  <2> USE <1>QueuedAdds
  <2>1. cmds \in Seq(Commands) /\ \A k \in DOMAIN cmds : cmds[k].watch \in Watches
    BY Zenon, ListeningTypes
  <2>2. /\ Len(cmds) \in Nat /\ DOMAIN cmds = 1 .. Len(cmds)
        /\ DOMAIN cmds' = 1 .. Len(cmds) + 1
        /\ \A i \in 1 .. Len(cmds) : cmds'[i] = cmds[i]
        /\ cmds'[Len(cmds) + 1] = c
    BY SMTT(30), <2>1, AppendPlaces
  <2>3. ASSUME NEW k \in DOMAIN cmds'
        PROVE  /\ status'[cmds'[k].watch] # "off"
               /\ cmds'[k].kind = "unsubscribe" => status'[cmds'[k].watch] \notin {"asked", "on"}
    <3>1. CASE k = Len(cmds) + 1
      BY Zenon, <2>2, <3>1 DEF Alive
    <3>2. CASE k \in DOMAIN cmds
      BY SMTT(30), <2>1, <2>2, <3>2 DEF Queued, Alive
    <3> QED
      BY SMTT(30), <2>2, <3>1, <3>2
  <2> QED
    BY Zenon, <2>3 DEF Queued, Alive

(* A step that keeps the watches and their places in the table. *)
<1>KnownStays.
      ASSUME WatchTypeOK, Known, UNCHANGED <<use, status, cmds>>, Keeps,
             pc' = "serve" =>
                 \A t \in DOMAIN topics :
                     topics'[t].live = topics[t].live /\ (pc = "serve" \/ topics[t].live)
      PROVE  Known'
  <2> USE <1>KnownStays
  <2>0. topicOf' = topicOf /\ (\A w : Alive(w)' = Alive(w)) /\ topicOf \in [Watches -> Topics]
    BY Zenon, ListeningTypes DEF topicOf, Alive
  <2>1. Queued'
    BY Zenon, <1>QueuedStays DEF Known, Ageing, Alive
  <2>2. ASSUME NEW t \in DOMAIN topics' PROVE Listens(t)'
    <3>1. t \in DOMAIN topics /\ Listens(t) /\ topics[t].pending \subseteq Watches
      BY Zenon, MissTypes DEF Known, Keeps
    <3> QED
      BY Zenon, <2>0, <3>1 DEF Listens, Keeps
  <2>3. ASSUME NEW w \in Watches, status'[w] = "on" PROVE Joined(w)'
    <3>1. Joined(w) /\ Alive(w)
      BY Zenon, <2>3 DEF Known, Alive
    <3> QED
      BY Zenon, <2>0, <3>1 DEF Joined, Keeps
  <2> QED
    BY Zenon, <2>1, <2>2, <2>3 DEF Known

(* An entry is written: who listens, who waits. *)
<1>KnownEdited.
      ASSUME WatchTypeOK, Known, Queued', Ageing, NEW t \in Topics, NEW live, NEW subs, NEW pending, NEW c,
             Edited(t, live, subs, pending, c),
             \A w \in subs \cup pending : w \in Watches /\ topicOf[w] = t,
             \A w \in pending : status'[w] # "off" /\ (Alive(w)' => w \in subs),
             live => c # NoCursor,
             \A w \in Watches : status'[w] = "on" /\ topicOf[w] = t =>
                 w \in subs /\ c # NoCursor /\ (pc' = "serve" => live),
             \A w \in Watches : status'[w] = "on" /\ topicOf[w] # t => status[w] = "on",
             pc' = pc
      PROVE  Known'
  <2> USE <1>KnownEdited
  <2>0. topicOf' = topicOf /\ topicOf \in [Watches -> Topics]
    BY Zenon, ListeningTypes DEF topicOf, Ageing
  <2>1. ASSUME NEW u \in DOMAIN topics' PROVE Listens(u)'
    <3>1. CASE u = t
      BY Zenon, <2>0, <3>1 DEF Listens, Edited
    <3>2. CASE u # t
      <4>1. u \in DOMAIN topics /\ Listens(u) /\ topics'[u] = topics[u]
            /\ topics[u].pending \subseteq Watches
        BY Zenon, <2>1, <3>2, MissTypes DEF Known, Edited
      <4> QED
        BY Zenon, <2>0, <4>1 DEF Listens, Ageing
    <3> QED
      BY Zenon, <3>1, <3>2
  <2>2. ASSUME NEW w \in Watches, status'[w] = "on" PROVE Joined(w)'
    <3>1. CASE topicOf[w] = t
      BY Zenon, <2>0, <2>2, <3>1 DEF Joined, Edited
    <3>2. CASE topicOf[w] # t
      <4>1. Joined(w) /\ topics'[topicOf[w]] = topics[topicOf[w]]
        BY Zenon, <2>2, <3>2 DEF Known, Joined, Edited
      <4> QED
        BY Zenon, <2>0, <3>2, <4>1 DEF Joined, Edited
    <3> QED
      BY Zenon, <3>1, <3>2
  <2> QED
    BY Zenon, <2>1, <2>2 DEF Known

(* An entry nobody needs is removed. *)
<1>KnownRemoved.
      ASSUME WatchTypeOK, Known, Queued', NEW t \in Topics, Removed(t), UNCHANGED <<use, status, pc>>,
             \A w \in Watches : status[w] = "on" => topicOf[w] # t
      PROVE  Known'
  <2> USE <1>KnownRemoved
  <2>0. topicOf' = topicOf /\ (\A w : Alive(w)' = Alive(w)) /\ topicOf \in [Watches -> Topics]
    BY Zenon, ListeningTypes DEF topicOf, Alive
  <2>1. ASSUME NEW u \in DOMAIN topics' PROVE Listens(u)'
    <3>1. u \in DOMAIN topics /\ Listens(u) /\ topics'[u] = topics[u]
      BY Zenon, <2>1 DEF Known, Removed
    <3> QED
      BY Zenon, <2>0, <3>1 DEF Listens
  <2>2. ASSUME NEW w \in Watches, status'[w] = "on" PROVE Joined(w)'
    <3>1. /\ Joined(w) /\ topicOf[w] # t /\ topicOf[w] \in DOMAIN topics'
          /\ topics'[topicOf[w]] = topics[topicOf[w]]
      BY Zenon, <2>2 DEF Known, Joined, Removed
    <3> QED
      BY Zenon, <2>0, <3>1 DEF Joined
  <2> QED
    BY Zenon, <2>1, <2>2 DEF Known

(* The same of a table that is not touched. *)
<1>SameKeeps.
      ASSUME WatchTypeOK, topics' = topics PROVE Keeps
  BY Zenon, <1>SameKeeps, MissTypes DEF Keeps

(* The commands. *)
<1>KnownCommands.
      ASSUME WatchTypeOK, Known, HandleCmd \/ ApplyOffline PROVE Known'
  <2> USE <1>KnownCommands
  <2>1. cmds # <<>> /\ cmds' = Tail(cmds) /\ pc' = pc /\ pc \in {"serve", "backoff"}
    BY Zenon DEF HandleCmd, ApplyOffline
  <2>2. PICK w \in Watches, t \in Topics :
             /\ w = Head(cmds).watch /\ t = topicOf[w]
             /\ \/ HandleCmd /\ (CmdJoins(w, t) \/ CmdAsks(w, t) \/ CmdLeaves(w, t)
                                 \/ CmdCloses(w, t) \/ CmdIdles(w, t))
                \/ ApplyOffline /\ (OffJoins(w, t) \/ OffLeaves(w, t) \/ OffCloses(w, t) \/ OffIdles(w, t))
    BY Zenon, HandleCmdIs, ApplyOfflineIs
  <2>3. status[w] # "off" /\ (Head(cmds).kind = "unsubscribe" => ~Alive(w))
    <3>1. 1 \in DOMAIN cmds /\ Head(cmds) = cmds[1]
      BY SMTT(30), <2>1, ListeningTypes, TailPlaces
    <3> QED
      BY Zenon, <2>2, <3>1 DEF Known, Queued
  <2>4. /\ \A u \in DOMAIN topics : topics[u].subs \subseteq Watches /\ topics[u].pending \subseteq Watches
        /\ t \in DOMAIN topics => Listens(t) /\ Entry(t) = topics[t]
        /\ t \notin DOMAIN topics =>
               ~Entry(t).live /\ Entry(t).subs = {} /\ Entry(t).pending = {} /\ Entry(t).cursor = NoCursor
    BY Zenon, MissTypes, EntryIs DEF Known, WatchTypeOK
  <2>5. \A v \in Watches : status[v] = "on" => Joined(v)
    BY Zenon DEF Known
  <2>6. CASE CmdJoins(w, t)
    <3>1. /\ \A v \in Watches : \/ status'[v] = status[v]
                                \/ v = w /\ status[v] = "asked" /\ status'[v] = "on"
          /\ use' = use
      BY Zenon, <2>6 DEF CmdJoins, Returned
    <3>2. Ageing
      BY Zenon, <3>1 DEF Ageing, Alive
    <3>3. Queued'
      BY Zenon, <2>1, <3>2, <1>QueuedStays DEF Known
    <3>4. /\ t \in DOMAIN topics /\ topics[t].live
          /\ Edited(t, TRUE, topics[t].subs \cup {w}, topics[t].pending, topics[t].cursor)
      BY Zenon, <2>6 DEF CmdJoins
    <3>5. /\ \A v \in topics[t].subs \cup {w} \cup topics[t].pending : v \in Watches /\ topicOf[v] = t
          /\ \A v \in topics[t].pending : status'[v] # "off" /\ (Alive(v)' => v \in topics[t].subs \cup {w})
      <4>1. Listens(t) /\ topics[t].subs \subseteq Watches /\ topics[t].pending \subseteq Watches
        BY Zenon, <2>4, <3>4
      <4>2. \A v \in topics[t].subs \cup {w} \cup topics[t].pending : v \in Watches /\ topicOf[v] = t
        BY Zenon, <2>2, <4>1 DEF Listens
      <4>3. ASSUME NEW v \in topics[t].pending
            PROVE  status'[v] # "off" /\ (Alive(v)' => v \in topics[t].subs \cup {w})
        <5>1. v \in Watches /\ status[v] # "off" /\ (Alive(v) => v \in topics[t].subs)
          BY Zenon, <4>1 DEF Listens
        <5>2. CASE status'[v] = status[v]
          BY Zenon, <5>1, <5>2 DEF Alive
        <5>3. CASE v = w /\ status'[v] = "on"
          BY Zenon, <5>3
        <5> QED
          BY Zenon, <3>1, <5>1, <5>2, <5>3
      <4> QED
        BY Zenon, <4>2, <4>3
    <3>6. topics[t].cursor # NoCursor
      BY Zenon, <2>4, <3>4 DEF Listens
    <3>7. \A v \in Watches : status'[v] = "on" => v = w \/ (status[v] = "on" /\ Joined(v))
      BY Zenon, <2>5, <3>1
    <3>8. PICK live, subs, pending, c :
               live = TRUE /\ subs = topics[t].subs \cup {w} /\ pending = topics[t].pending /\ c = topics[t].cursor
      BY Zenon
    <3>9. /\ \A v \in Watches : status'[v] = "on" /\ topicOf[v] = t => v \in subs
          /\ \A v \in Watches : status'[v] = "on" /\ topicOf[v] # t => status[v] = "on"
      BY Zenon, <2>2, <3>7, <3>8 DEF Joined
    <3>10. /\ Edited(t, live, subs, pending, c) /\ c # NoCursor /\ live = TRUE
           /\ \A v \in subs \cup pending : v \in Watches /\ topicOf[v] = t
           /\ \A v \in pending : status'[v] # "off" /\ (Alive(v)' => v \in subs)
      BY Zenon, <3>4, <3>5, <3>6, <3>8
    <3>11. /\ Edited(t, live, subs, pending, c) /\ (live => c # NoCursor)
           /\ \A v \in subs \cup pending : v \in Watches /\ topicOf[v] = t
           /\ \A v \in pending : status'[v] # "off" /\ (Alive(v)' => v \in subs)
           /\ \A v \in Watches : status'[v] = "on" /\ topicOf[v] = t =>
                  v \in subs /\ c # NoCursor /\ (pc' = "serve" => live)
           /\ \A v \in Watches : status'[v] = "on" /\ topicOf[v] # t => status[v] = "on"
           /\ pc' = pc
      BY Zenon, <2>1, <3>9, <3>10
    <3> QED
      BY SMTT(30), <3>2, <3>3, <3>11, <1>KnownEdited
  <2>7. ASSUME ~CmdJoins(w, t) PROVE UNCHANGED <<use, status>> /\ Ageing /\ Queued'
    <3>1. UNCHANGED <<use, status>>
      BY Zenon, <2>2, <2>7 DEF CmdAsks, CmdLeaves, CmdCloses, CmdIdles, ApplyOffline, watchers
    <3>2. Ageing
      BY Zenon, <3>1 DEF Ageing, Alive
    <3> QED
      BY Zenon, <2>1, <3>1, <3>2, <1>QueuedStays DEF Known
  <2>8. CASE ~CmdJoins(w, t) /\ (CmdAsks(w, t) \/ (OffJoins(w, t) /\ pc = "backoff"))
    <3>1. /\ Edited(t, FALSE, Entry(t).subs \cup {w}, Entry(t).pending \cup {w}, Entry(t).cursor)
          /\ ~Entry(t).live \/ pc # "serve"
      BY Zenon, <2>8 DEF CmdAsks, OffJoins
    <3>2. UNCHANGED <<use, status>> /\ Ageing /\ Queued'
      BY Zenon, <2>7, <2>8
    <3>3. /\ \A v \in Entry(t).subs \cup {w} \cup (Entry(t).pending \cup {w}) : v \in Watches /\ topicOf[v] = t
          /\ \A v \in Entry(t).pending \cup {w} :
                 status'[v] # "off" /\ (Alive(v)' => v \in Entry(t).subs \cup {w})
      BY Zenon, <2>2, <2>3, <2>4, <3>2 DEF Listens, Alive
    <3>4. \A v \in Watches : status'[v] = "on" /\ topicOf[v] = t =>
              v \in Entry(t).subs \cup {w} /\ Entry(t).cursor # NoCursor /\ pc # "serve"
      BY Zenon, <2>4, <2>5, <3>1, <3>2 DEF Joined
    <3>5. PICK live, subs, pending, c :
               live = FALSE /\ subs = Entry(t).subs \cup {w} /\ pending = Entry(t).pending \cup {w} /\ c = Entry(t).cursor
      BY Zenon
    <3>6. /\ Edited(t, live, subs, pending, c) /\ live = FALSE
          /\ \A v \in subs \cup pending : v \in Watches /\ topicOf[v] = t
          /\ \A v \in pending : status'[v] # "off" /\ (Alive(v)' => v \in subs)
          /\ \A v \in Watches : status'[v] = "on" /\ topicOf[v] = t =>
                 v \in subs /\ c # NoCursor /\ pc # "serve"
      BY Zenon, <3>1, <3>3, <3>4, <3>5
    <3> QED
      BY SMTT(30), <2>1, <3>2, <3>6, <1>KnownEdited
  <2>9. CASE ~CmdJoins(w, t) /\ (CmdLeaves(w, t) \/ OffLeaves(w, t))
    <3>1. /\ t \in DOMAIN topics /\ ~Alive(w)
          /\ Edited(t, topics[t].live, topics[t].subs \ {w}, topics[t].pending, topics[t].cursor)
      BY Zenon, <2>3, <2>9 DEF CmdLeaves, OffLeaves
    <3>2. UNCHANGED <<use, status>> /\ Ageing /\ Queued'
      BY Zenon, <2>7, <2>9
    <3>3. /\ \A v \in (topics[t].subs \ {w}) \cup topics[t].pending : v \in Watches /\ topicOf[v] = t
          /\ \A v \in topics[t].pending :
                 status'[v] # "off" /\ (Alive(v)' => v \in topics[t].subs \ {w})
          /\ topics[t].live => topics[t].cursor # NoCursor
      BY Zenon, <2>2, <2>4, <3>1, <3>2 DEF Listens, Alive
    <3>4. \A v \in Watches : status'[v] = "on" /\ topicOf[v] = t =>
              v \in topics[t].subs \ {w} /\ topics[t].cursor # NoCursor /\ (pc' = "serve" => topics[t].live)
      BY Zenon, <2>1, <2>5, <3>1, <3>2 DEF Joined, Alive
    <3> QED
      BY SMTT(30), <2>1, <3>1, <3>2, <3>3, <3>4, <1>KnownEdited
  <2>10. CASE ~CmdJoins(w, t) /\ (CmdCloses(w, t) \/ OffCloses(w, t))
    <3>1. /\ t \in DOMAIN topics /\ ~Alive(w) /\ topics[t].subs \subseteq {w} /\ Removed(t)
      BY Zenon, <2>3, <2>10 DEF CmdCloses, OffCloses
    <3>2. UNCHANGED <<use, status>> /\ Queued'
      BY Zenon, <2>7, <2>10
    <3>3. \A v \in Watches : status[v] = "on" => topicOf[v] # t
      BY Zenon, <2>5, <3>1 DEF Joined, Alive
    <3> QED
      BY Zenon, <2>1, <3>1, <3>2, <3>3, <1>KnownRemoved
  <2>11. CASE ~CmdJoins(w, t) /\ (CmdIdles(w, t) \/ OffIdles(w, t))
    <3>1. topics' = topics /\ UNCHANGED <<use, status, pc>> /\ Queued'
      BY Zenon, <2>1, <2>7, <2>11 DEF CmdIdles, OffIdles
    <3> QED
      BY Zenon, <3>1 DEF Known, Listens, Joined, Alive, topicOf
  <2> QED
    BY Zenon, <2>2, <2>6, <2>8, <2>9, <2>10, <2>11 DEF ApplyOffline

(* An acknowledgement. *)
<1>KnownAcks.
      ASSUME WatchTypeOK, Known, NEW t \in Topics, NEW n \in Nat, Acks(t, n), UNCHANGED <<cmds, pc>>
      PROVE  Known'
  <2> USE <1>KnownAcks
  <2>1. CASE t \notin DOMAIN topics
    <3>1. UNCHANGED <<use, status, topics>>
      BY Zenon, <2>1 DEF Acks, watchers
    <3>2. Queued'
      BY Zenon, <3>1, <1>QueuedStays DEF Known, Ageing, Alive
    <3> QED
      BY Zenon, <3>1, <3>2 DEF Known, Listens, Joined, Alive, topicOf
  <2>2. CASE t \in DOMAIN topics
    <3>1. PICK live, subs, pending, c :
               /\ live = TRUE /\ subs = topics[t].subs /\ pending = {}
               /\ c = IF topics[t].cursor = NoCursor THEN n ELSE topics[t].cursor
      BY Zenon
    <3>2. Edited(t, live, subs, pending, c) /\ Returned(topics[t].pending)
      BY Zenon, <2>2, <3>1 DEF Acks
    <3>3. c # NoCursor /\ Listens(t) /\ subs \subseteq Watches /\ topics[t].pending \subseteq Watches
      BY SMTT(30), <2>2, <3>1, MissTypes DEF NoCursor, Known
    <3>4. /\ use' = use
          /\ \A v \in Watches : \/ status'[v] = status[v]
                                \/ v \in topics[t].pending /\ status[v] = "asked" /\ status'[v] = "on"
      BY Zenon, <3>2 DEF Returned
    <3>5. Ageing
      BY Zenon, <3>4 DEF Ageing, Alive
    <3>6. Queued'
      BY Zenon, <3>5, <1>QueuedStays DEF Known
    <3>7. \A v \in Watches : status'[v] = "on" =>
              \/ status[v] = "on" /\ Joined(v)
              \/ v \in topics[t].subs /\ topicOf[v] = t
      BY Zenon, <3>3, <3>4 DEF Listens, Alive, Known
    <3>8. /\ Edited(t, live, subs, pending, c) /\ (live => c # NoCursor)
          /\ \A v \in subs \cup pending : v \in Watches /\ topicOf[v] = t
          /\ \A v \in pending : status'[v] # "off" /\ (Alive(v)' => v \in subs)
          /\ \A v \in Watches : status'[v] = "on" /\ topicOf[v] = t =>
                 v \in subs /\ c # NoCursor /\ (pc' = "serve" => live)
          /\ \A v \in Watches : status'[v] = "on" /\ topicOf[v] # t => status[v] = "on"
          /\ pc' = pc
      BY Zenon, <3>1, <3>2, <3>3, <3>7 DEF Listens, Joined
    <3> QED
      BY SMTT(30), <3>5, <3>6, <3>8, <1>KnownEdited
  <2> QED
    BY Zenon, <2>1, <2>2

(* A delivery. *)
<1>DeliverKeeps.
      ASSUME WatchTypeOK, NEW t, NEW n \in Nat, Delivers(t, n) PROVE Keeps
  <2> USE <1>DeliverKeeps
  <2>1. CASE topics' = topics
    BY Zenon, <2>1, <1>SameKeeps
  <2>2. CASE topics' # topics
    <3>1. /\ t \in DOMAIN topics
          /\ Edited(t, topics[t].live, {w \in topics[t].subs : Alive(w)}, topics[t].pending, n)
      BY Zenon, <2>2 DEF Delivers
    <3>2. Table(topics') /\ DOMAIN topics' = DOMAIN topics
      BY Zenon, <3>1 DEF Edited
    <3>3. /\ topics'[t].subs = {w \in topics[t].subs : Alive(w)}
          /\ topics'[t].pending = topics[t].pending /\ topics'[t].live = topics[t].live
          /\ topics'[t].cursor = n /\ n # NoCursor
          /\ \A u \in DOMAIN topics : u # t => topics'[u] = topics[u]
      BY SMTT(30), <3>1 DEF Edited, NoCursor
    <3>4. ASSUME NEW u \in DOMAIN topics
          PROVE  /\ topics'[u].subs \subseteq topics[u].subs /\ topics'[u].pending = topics[u].pending
                 /\ \A w \in topics[u].subs : Alive(w) => w \in topics'[u].subs
                 /\ topics'[u].live => topics[u].live
                 /\ topics[u].cursor # NoCursor => topics'[u].cursor # NoCursor
      <4>1. CASE u = t
        BY Zenon, <3>3, <4>1
      <4>2. CASE u # t
        BY Zenon, <3>3, <4>2
      <4> QED
        BY Zenon, <4>1, <4>2
    <3> QED
      BY Zenon, <3>2, <3>4 DEF Keeps
  <2> QED
    BY Zenon, <2>1, <2>2
<1>1. ASSUME NEW w \in Watches, Watch(w) PROVE Known'
  <2>1. /\ status[w] = "off" /\ status' = [status EXCEPT ![w] = "asked"]
        /\ cmds' = Append(cmds, [kind |-> "subscribe", watch |-> w])
        /\ UNCHANGED <<topics, use>> /\ (pc' = pc \/ pc' # "serve")
    BY Zenon, <1>1 DEF Watch
  <2>2. /\ \A v \in Watches : v # w => status'[v] = status[v]
        /\ status'[w] = "asked"
    BY Zenon, <2>1 DEF WatchTypeOK, WatchersTypeOK
  <2>3. PICK c \in Commands : c = [kind |-> "subscribe", watch |-> w] /\ c.kind = "subscribe" /\ c.watch = w
    <3>1. [kind |-> "subscribe", watch |-> w] \in Commands
      BY Zenon DEF Commands
    <3> QED
      BY Zenon, <3>1
  <2>4. Queued'
    BY Zenon, <2>1, <2>2, <2>3, <1>QueuedAdds DEF Known
  <2>5. ASSUME NEW t \in DOMAIN topics' PROVE Listens(t)'
    <3>1. t \in DOMAIN topics /\ Listens(t) /\ topics[t].pending \subseteq Watches
      BY Zenon, <2>1, MissTypes DEF Known
    <3> QED
      BY Zenon, <2>1, <2>2, <3>1 DEF Listens, Alive, topicOf
  <2>6. ASSUME NEW v \in Watches, status'[v] = "on" PROVE Joined(v)'
    BY Zenon, <2>1, <2>2, <2>6 DEF Known, Joined, topicOf
  <2> QED
    BY Zenon, <2>4, <2>5, <2>6 DEF Known
<1>2. ASSUME Gone, \A v \in Watches : status'[v] # "on" PROVE Known'
  <2>1. DOMAIN topics' = {} /\ cmds' = <<>>
    BY Zenon, <1>2 DEF Gone
  <2> QED
    BY SMTT(30), <1>2, <2>1 DEF Known, Queued
<1>3. ASSUME NEW w \in Watches, Unwatch(w) PROVE Known'
  <2>1. /\ Alive(w) /\ UNCHANGED use
        /\ \A v \in Watches : v # w => status'[v] = status[v]
        /\ status'[w] \in {"cancelled", "done"}
    BY Zenon, <1>3 DEF Unwatch, WatchTypeOK, WatchersTypeOK
  <2>2. CASE \A v \in Watches \ {w} : ~Alive(v)
    <3>1. Gone
      BY Zenon, <1>3, <2>2 DEF Unwatch
    <3>2. \A v \in Watches : status'[v] # "on"
      BY Zenon, <2>1, <2>2 DEF Alive
    <3> QED
      BY Zenon, <1>2, <3>1, <3>2
  <2>3. CASE ~(\A v \in Watches \ {w} : ~Alive(v))
    <3>1. /\ cmds' = Append(cmds, [kind |-> "unsubscribe", watch |-> w]) /\ UNCHANGED <<pc, topics>>
      BY Zenon, <1>3, <2>3 DEF Unwatch
    <3>2. PICK c \in Commands : c = [kind |-> "unsubscribe", watch |-> w] /\ c.kind = "unsubscribe" /\ c.watch = w
      <4>1. [kind |-> "unsubscribe", watch |-> w] \in Commands
        BY Zenon DEF Commands
      <4> QED
        BY Zenon, <4>1
    <3>3. Queued'
      BY Zenon, <2>1, <3>1, <3>2, <1>QueuedAdds DEF Known, Alive
    <3>4. ASSUME NEW t \in DOMAIN topics' PROVE Listens(t)'
      <4>1. t \in DOMAIN topics /\ Listens(t) /\ topics[t].pending \subseteq Watches
        BY Zenon, <3>1, MissTypes DEF Known
      <4> QED
        BY Zenon, <2>1, <3>1, <4>1 DEF Listens, Alive, topicOf
    <3>5. ASSUME NEW v \in Watches, status'[v] = "on" PROVE Joined(v)'
      BY Zenon, <2>1, <3>1, <3>5 DEF Known, Joined, topicOf
    <3> QED
      BY Zenon, <3>3, <3>4, <3>5 DEF Known
  <2> QED
    BY Zenon, <2>2, <2>3
<1>4. ASSUME UNCHANGED <<use, status, cmds, topics>>, pc' = pc \/ pc' # "serve" PROVE Known'
  BY Zenon, <1>4, <1>SameKeeps, <1>KnownStays
<1>5. CASE \/ SocketEnds \/ SyncFails \/ Dial \/ SyncOnce \/ SyncAnswer \/ Publish \/ HandleClient
           \/ AnswerSubscribe \/ SendEvent \/ Drop \/ (\E t \in Topics : Commit(t)) \/ UNCHANGED watchVars
  <2>1. UNCHANGED <<use, status, cmds, topics>>
    BY Zenon, <1>5 DEF SocketEnds, SyncFails, Dial, SyncOnce, SyncAnswer, Publish, HandleClient, Commit,
                AnswerSubscribe, SendEvent, Drop, Lost, watchVars, actor, watchers
  <2>2. pc' = pc \/ pc' # "serve"
    BY Zenon, <1>5 DEF SocketEnds, SyncFails, Dial, SyncOnce, SyncAnswer, Publish, HandleClient, Commit,
                AnswerSubscribe, SendEvent, Drop, Lost, watchVars, actor
  <2> QED
    BY Zenon, <1>4, <2>1, <2>2
<1>6. CASE HelloFails
  <2>1. CASE End
    <3>1. \A v \in Watches : status'[v] # "on"
      BY Zenon, <2>1 DEF End
    <3> QED
      BY Zenon, <1>2, <2>1, <3>1 DEF End
  <2>2. CASE Lost /\ UNCHANGED <<topics, cmds, watchers>>
    BY Zenon, <1>4, <2>2 DEF Lost, watchers
  <2> QED
    BY Zenon, <1>6, <2>1, <2>2 DEF HelloFails
<1>7. CASE HelloOk
  <2>1. UNCHANGED <<use, status, cmds>>
    BY Zenon, <1>7 DEF HelloOk, watchers
  <2>2. CASE pc = "dial" /\ UNCHANGED topics
    <3>1. DOMAIN topics = {}
      BY Zenon, <2>2 DEF Quiet
    <3> QED
      BY Zenon, <2>1, <2>2, <3>1, <1>SameKeeps, <1>KnownStays
  <2>3. CASE pc' = "resub" /\ Reopens
    <3>1. Keeps
      BY Zenon, <2>3 DEF Reopens, Keeps
    <3> QED
      BY Zenon, <2>1, <2>3, <3>1, <1>KnownStays
  <2> QED
    BY Zenon, <1>7, <2>2, <2>3, HelloOkIs
<1>8. ASSUME NEW e \in Events, Deliver(e), UNCHANGED <<use, status, cmds, pc>> PROVE Known'
  <2>1. Keeps /\ SameTopics
    BY Zenon, <1>8, DeliverIs, <1>DeliverKeeps, DeliverKeepsTopics DEF Events
  <2> QED
    BY Zenon, <1>8, <2>1, <1>KnownStays DEF SameTopics
<1>9. CASE HandleMsg
  <2>1. down # <<>> /\ UNCHANGED <<pc, cmds>>
    BY Zenon, <1>9 DEF HandleMsg
  <2>2. CASE Head(down).kind = "topic_ok"
    BY Zenon, <1>9, <2>1, <2>2, HeadTypes, AckIs, <1>KnownAcks DEF HandleMsg
  <2>3. CASE Head(down).kind # "topic_ok"
    BY Zenon, <1>8, <1>9, <2>1, <2>3, HeadTypes DEF HandleMsg
  <2> QED
    BY Zenon, <2>2, <2>3
<1>10. CASE ResubscribeMsg
  <2>1. down # <<>> /\ UNCHANGED <<pc, cmds>>
    BY Zenon, <1>10 DEF ResubscribeMsg
  <2>2. CASE Head(down).kind = "topic_ok"
    BY Zenon, <1>10, <2>1, <2>2, HeadTypes, AckIs, <1>KnownAcks DEF ResubscribeMsg
  <2>3. CASE Head(down).kind # "topic_ok"
    BY Zenon, <1>4, <1>10, <2>1, <2>3 DEF ResubscribeMsg, watchers
  <2> QED
    BY Zenon, <2>2, <2>3
<1>11. CASE Release
  <2>1. pc = "release" /\ UNCHANGED <<use, status, cmds>>
    BY Zenon, <1>11 DEF Release
  <2>2. CASE buffered = <<>>
    <3>1. topics' = topics /\ \A t \in DOMAIN topics : topics[t].live
      BY Zenon, <1>11, <2>1, <2>2 DEF Release, Handshake, Entered
    <3> QED
      BY Zenon, <2>1, <3>1, <1>SameKeeps, <1>KnownStays
  <2>3. CASE buffered # <<>>
    BY Zenon, <1>8, <1>11, <2>1, <2>3, HeadTypes DEF Release
  <2> QED
    BY Zenon, <2>2, <2>3
<1>12. CASE CaughtUp
  <2>1. UNCHANGED <<use, status, cmds>> /\ pc = "sync" /\ pc' # "serve" /\ reply.answered
    BY Zenon, <1>12 DEF CaughtUp
  <2>2. CASE \E e : CatchesUp(e)
    <3>1. PICK e : CatchesUp(e)
      BY Zenon, <2>2
    <3>2. e.n \in Nat /\ Delivers(e.topic, e.n)
      BY Zenon, <3>1 DEF CatchesUp, Events
    <3> QED
      BY Zenon, <2>1, <3>2, <1>DeliverKeeps, <1>KnownStays
  <2>3. CASE Advances
    <3>1. \A t \in DOMAIN topics : reply.cursors[t] \in Nat
      BY Zenon, <1>12, CaughtUpIs DEF Replies
    <3>2. Keeps
      BY SMTT(30), <2>3, <3>1 DEF Advances, Keeps, NoCursor
    <3> QED
      BY Zenon, <2>1, <3>2, <1>KnownStays
  <2> QED
    BY Zenon, <1>12, <2>2, <2>3, CaughtUpIs
<1>13. CASE HandleCmd \/ ApplyOffline
  BY Zenon, <1>13, <1>KnownCommands
<1> QED
  BY Zenon, <1>1, <1>3, <1>5, <1>6, <1>7, <1>9, <1>10, <1>11, <1>12, <1>13 DEF WatchNext
=============================================================================
