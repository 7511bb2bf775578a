------------------------ MODULE WatchConnMissProofs ------------------------
(***************************************************************************)
(* Nothing is missed: the parts of MissInv about what each watch has been  *)
(* given and what is on its way to it, and the theorem.                    *)
(***************************************************************************)
EXTENDS WatchConnKnownProofs

-----------------------------------------------------------------------------
(* What is in flight. *)

(* An event is its topic and its instant. *)
LEMMA EventsAre ==
    /\ \A t, n, u, m : Event(t, n) = Event(u, m) <=> t = u /\ n = m
    /\ \A e \in Events : e = Event(e.topic, e.n) /\ e.topic \in Topics /\ e.n \in Nat
    /\ \A t, n : Event(t, n).kind = "event" /\ Event(t, n).topic = t /\ Event(t, n).n = n
<1>1. ASSUME NEW t, NEW n, NEW u, NEW m PROVE Event(t, n) = Event(u, m) <=> t = u /\ n = m
  <2>1. /\ Event(t, n).topic = t /\ Event(t, n).n = n /\ Event(u, m).topic = u /\ Event(u, m).n = m
    BY Zenon DEF Event, Msg
  <2> QED
    BY Zenon, <2>1
<1>2. ASSUME NEW e \in Events PROVE e = Event(e.topic, e.n) /\ e.topic \in Topics /\ e.n \in Nat
  <2>1. e = [kind |-> e.kind, topic |-> e.topic, n |-> e.n] /\ e.kind = "event"
    BY Zenon DEF Events
  <2> QED
    BY Zenon, <2>1 DEF Events, Event, Msg
<1>3. \A t, n : Event(t, n).kind = "event" /\ Event(t, n).topic = t /\ Event(t, n).n = n
  BY Zenon DEF Event, Msg
<1> QED
  BY Zenon, <1>1, <1>2, <1>3

(* The same events are, wherever they are. *)
SameFlow ==
    /\ publishing' = publishing
    /\ \A t, n : InFlight(t, n)' <=> InFlight(t, n)

-----------------------------------------------------------------------------
(* What is covered. *)

(* The number facts. *)
LEMMA CoverTypes ==
    ASSUME WatchTypeOK
    PROVE  /\ tail \in [Topics -> Nat] /\ since \in [Watches -> Nat]
           /\ topicOf \in [Watches -> Topics]
           /\ \A t \in DOMAIN topics : topics[t].cursor \in Int /\ t \in Topics
           /\ pc = "sync" /\ reply.answered => reply \in Replies
<1>1. NoReply.answered = FALSE
  BY Zenon DEF NoReply
<1> QED
  BY Zenon, <1>1, MissTypes, ListeningTypes DEF WatchTypeOK, ActorTypeOK, WatchersTypeOK

(* A step that leaves the way of the events and the catch-up alone. *)
Undisturbed ==
    /\ pc' \in {"serve", "release"} => pc \in {"serve", "release"} /\ SameFlow /\ (open' => open)
    /\ pc' = "sync" /\ reply'.answered => pc = "sync" /\ reply' = reply /\ SameFlow /\ (open' => open)

Untouched(w) ==
    /\ status[w] = "on" /\ since'[w] = since[w] /\ got'[w] = got[w]
    /\ topics'[topicOf[w]].cursor = topics[topicOf[w]].cursor

(* The head of the first queue that has one is first. *)
First(t, m) ==
    /\ InFlight(t, m) /\ m <= tail[t] /\ \A n \in Nat : InFlight(t, n) => m <= n
    /\ \A u, n : InFlight(u, n) <=> InFlight(u, n)' \/ (u = t /\ n = m)

-----------------------------------------------------------------------------
(* Commits, publications and a broken socket move events, nothing else.    *)

(* Nothing in flight overtakes what is lost; what is committed is on its   *)
(* way if the session registered the topic.                                *)
Carries(t) ==
    /\ tail[t] <= tail'[t]
    /\ \A k, n \in Nat : n < k /\ InFlight(t, k)' =>
           \/ InFlight(t, n)'
           \/ ~InFlight(t, n) /\ InFlight(t, k) /\ k <= tail[t]
           \/ ~InFlight(t, n) /\ ~Unpublished(t, n) /\ open /\ n <= tail[t]
    /\ open' => /\ open
                /\ t \in registered => \A n \in 1 .. tail'[t] :
                       \/ InFlight(t, n)' \/ Unpublished(t, n)'
                       \/ ~InFlight(t, n) /\ ~Unpublished(t, n) /\ n <= tail[t]

-----------------------------------------------------------------------------
(* Every step keeps what is covered. *)

(* Every step keeps what is covered, and the answer of a catch-up. *)
LEMMA CoverKept ==
    ASSUME MissInv, [WatchNext]_watchVars PROVE Covered' /\ Answered'

(* When no queue changes, *)
<1>FlowStays.
      ASSUME UNCHANGED <<publishing, outbox, down, buffered>> PROVE SameFlow
  BY Zenon, <1>FlowStays DEF SameFlow, InFlight, Event, Msg

(* An acknowledgement is read, *)
<1>FlowAcks.
      ASSUME WatchTypeOK, down # <<>>, down' = Tail(down), Head(down).kind = "topic_ok",
             UNCHANGED <<publishing, outbox, buffered>>
      PROVE  SameFlow
  <2> USE <1>FlowAcks
  <2>1. Range(down) = {Head(down)} \cup Range(down')
    BY Zenon, MissTypes, RangeTail
  <2>2. \A t, n : Event(t, n) \in Range(down') <=> Event(t, n) \in Range(down)
    <3> TAKE t, n
    <3>1. Event(t, n) # Head(down)
      BY Zenon, EventsAre
    <3> QED
      BY Zenon, <2>1, <3>1
  <2> QED
    BY Zenon, <2>2 DEF SameFlow, InFlight, Event, Msg

(* one is sent, *)
<1>FlowAnswers.
      ASSUME WatchTypeOK, NEW e \in Downward, e.kind = "topic_ok", down' = Append(down, e),
             UNCHANGED <<publishing, outbox, buffered>>
      PROVE  SameFlow
  <2> USE <1>FlowAnswers
  <2>1. Range(down') = Range(down) \cup {e}
    BY SMTT(30), MissTypes, RangeAppend
  <2>2. \A t, n : Event(t, n) \in Range(down') <=> Event(t, n) \in Range(down)
    <3> TAKE t, n
    <3>1. Event(t, n) # e
      BY Zenon, EventsAre
    <3> QED
      BY Zenon, <2>1, <3>1
  <2> QED
    BY Zenon, <2>2 DEF SameFlow, InFlight, Event, Msg

(* or sent. *)
<1>FlowSends.
      ASSUME WatchTypeOK, outbox # <<>>, outbox' = Tail(outbox), down' = Append(down, Head(outbox)),
             UNCHANGED <<publishing, buffered>>
      PROVE  SameFlow
  <2> USE <1>FlowSends
  <2>1. Head(outbox) \in Downward /\ down \in Seq(Downward) /\ outbox \in Seq(Events)
    <3>1. down \in Seq(Downward) /\ outbox \in Seq(Events)
      BY Zenon, MissTypes
    <3>2. Head(outbox) \in Events
      BY Zenon, <3>1, TailPlaces
    <3> QED
      BY Zenon, <3>1, <3>2 DEF Events, Downward
  <2>2. Range(outbox) = {Head(outbox)} \cup Range(outbox') /\ Range(down') = Range(down) \cup {Head(outbox)}
    BY SMTT(30), <2>1, RangeTail, RangeAppend
  <2> QED
    BY Zenon, <2>2 DEF SameFlow, InFlight, Event, Msg

(* A watch that has just returned. *)
<1>CoveredAnew.
      ASSUME NEW w, NEW t, tail'[t] \in Nat, since'[w] = tail'[t] PROVE Ahead(w, t)' /\ Flowing(w, t)'
  <2> USE <1>CoveredAnew
  <2>1. since'[w] + 1 .. tail'[t] = {} /\ \A m \in 1 .. tail'[t] : since'[w] + 1 .. m - 1 = {}
    BY SMTT(30)
  <2> QED
    BY Zenon, <2>1 DEF Ahead, Flowing

(* Such a step keeps what is covered: a watch is untouched, or has just returned. *)
<1>CoveredStays.
      ASSUME WatchTypeOK, Covered, Undisturbed, UNCHANGED <<tail, use>>,
             \A w \in Watches : status'[w] = "on" =>
                 Untouched(w) \/ (since'[w] = tail[topicOf[w]] /\ pc' # "sync")
      PROVE  Covered'
  <2> USE <1>CoveredStays
  <2>0. topicOf' = topicOf /\ topicOf \in [Watches -> Topics] /\ tail \in [Topics -> Nat]
    BY Zenon, CoverTypes DEF topicOf
  <2>1. ASSUME NEW w \in Watches, status'[w] = "on", NEW t \in Topics, t = topicOf[w]
        PROVE  /\ Ahead(w, t)' /\ (pc' \in {"serve", "release"} => Flowing(w, t)')
               /\ pc' = "sync" /\ reply'.answered => Promised(w, t)'
    <3>1. CASE since'[w] = tail[t] /\ pc' # "sync"
      BY Zenon, <2>0, <3>1, <1>CoveredAnew
    <3>2. CASE Untouched(w)
      <4>1. /\ Ahead(w, t) /\ (pc \in {"serve", "release"} => Flowing(w, t))
            /\ pc = "sync" /\ reply.answered => Promised(w, t)
        BY Zenon, <2>1, <3>2 DEF Covered, Untouched
      <4>2. Ahead(w, t)'
        BY Zenon, <2>1, <3>2, <4>1 DEF Ahead, Given, Untouched
      <4>3. ASSUME pc' \in {"serve", "release"} PROVE Flowing(w, t)'
        BY Zenon, <2>1, <3>2, <4>1, <4>3 DEF Flowing, Given, Untouched, Undisturbed, SameFlow, Unpublished, Event, Msg
      <4>4. ASSUME pc' = "sync", reply'.answered PROVE Promised(w, t)'
        BY Zenon, <2>1, <3>2, <4>1, <4>4 DEF Promised, Given, Untouched, Undisturbed, Event, Msg
      <4> QED
        BY Zenon, <4>2, <4>3, <4>4
    <3> QED
      BY Zenon, <2>1, <3>1, <3>2
  <2> QED
    BY Zenon, <2>0, <2>1 DEF Covered

(* It keeps the answer of a catch-up, too. *)
<1>AnsweredStays.
      ASSUME Answered, Undisturbed, tail' = tail, pc' = "sync" => topics' = topics PROVE Answered'
  <2> USE <1>AnsweredStays
  <2>1. SUFFICES ASSUME pc' = "sync", reply'.answered
                 PROVE  /\ \A e \in reply'.events : e.topic \in DOMAIN topics' /\ e.n <= reply'.cursors[e.topic]
                        /\ \A t \in DOMAIN topics' : AnswerOK(t)'
    BY Zenon DEF Answered
  <2>2. pc = "sync" /\ reply' = reply /\ SameFlow /\ (open' => open) /\ topics' = topics /\ reply.answered
    BY Zenon, <2>1 DEF Undisturbed
  <2>3. ASSUME NEW t \in DOMAIN topics PROVE AnswerOK(t)'
    <3>1. AnswerOK(t)
      BY Zenon, <2>2 DEF Answered
    <3> QED
      BY Zenon, <2>2, <3>1 DEF AnswerOK, SameFlow, Unpublished, Event, Msg
  <2> QED
    BY Zenon, <2>2, <2>3 DEF Answered

(* What a delivery gives. *)
<1>DeliverGives.
      ASSUME WatchTypeOK, Known, NEW t \in Topics, NEW m \in Nat, Delivers(t, m),
             NEW w \in Watches, status[w] = "on"
      PROVE  LET u == topicOf[w] IN
             /\ u \in DOMAIN topics /\ u \in DOMAIN topics' /\ u \in Topics
             /\ u # t => got'[w] = got[w] /\ topics'[u].cursor = topics[u].cursor
             /\ u = t /\ m <= topics[t].cursor =>
                    got'[w] = got[w] /\ topics'[t].cursor = topics[t].cursor
             /\ u = t /\ m > topics[t].cursor =>
                    Range(got'[w]) = Range(got[w]) \cup {m} /\ topics'[t].cursor = m
  <2> USE <1>DeliverGives
  <2>1. PICK u \in Topics : u = topicOf[w]
    BY Zenon, CoverTypes
  <2>2. u \in DOMAIN topics /\ w \in topics[u].subs /\ Alive(w)
    BY Zenon, <2>1 DEF Known, Joined, Alive
  <2>3. t \in DOMAIN topics /\ w \in topics[t].subs => u = t
    BY Zenon, <2>1 DEF Known, Listens
  <2>4. got[w] \in Seq(Nat)
    BY Zenon, ListeningTypes
  <2>5. CASE UNCHANGED <<topics, got>> /\ (t \in DOMAIN topics => m <= topics[t].cursor)
    <3>1. t \in DOMAIN topics => ~(m > topics[t].cursor)
      BY SMTT(30), <2>5, CoverTypes
    <3> QED
      BY Zenon, <2>1, <2>2, <2>5, <3>1
  <2>6. CASE /\ t \in DOMAIN topics /\ m > topics[t].cursor
             /\ Edited(t, topics[t].live, {v \in topics[t].subs : Alive(v)}, topics[t].pending, m)
             /\ \A v \in Watches :
                    got'[v] = IF v \in topics[t].subs /\ Alive(v) THEN Append(got[v], m) ELSE got[v]
    <3>1. ~(m <= topics[t].cursor)
      BY SMTT(30), <2>6, CoverTypes
    <3>2. u \in DOMAIN topics' /\ (u # t => topics'[u] = topics[u]) /\ topics'[t].cursor = m
      BY Zenon, <2>2, <2>6 DEF Edited
    <3>3. u # t => got'[w] = got[w]
      BY Zenon, <2>3, <2>6
    <3>4. u = t => got'[w] = Append(got[w], m)
      BY Zenon, <2>2, <2>6
    <3>5. Range(Append(got[w], m)) = Range(got[w]) \cup {m}
      BY SMTT(30), <2>4, RangeAppend
    <3> QED
      BY Zenon, <2>1, <2>2, <3>1, <3>2, <3>3, <3>4, <3>5
  <2> QED
    BY Zenon, <2>5, <2>6 DEF Delivers

(* The first event of its topic in flight is delivered. *)
<1>CoveredDelivers.
      ASSUME WatchTypeOK, Known, Covered, NEW t \in Topics, NEW m \in Nat, Delivers(t, m),
             pc \in {"serve", "release"}, UNCHANGED <<pc, tail, use, status, since, publishing, open>>,
             InFlight(t, m), m <= tail[t], \A n \in Nat : InFlight(t, n) => m <= n,
             \A u, n : InFlight(u, n) <=> InFlight(u, n)' \/ (u = t /\ n = m)
      PROVE  Covered'
  <2> USE <1>CoveredDelivers
  <2>0. /\ topicOf' = topicOf /\ topicOf \in [Watches -> Topics] /\ tail \in [Topics -> Nat]
        /\ since \in [Watches -> Nat]
    BY Zenon, CoverTypes DEF topicOf
  <2>1. ASSUME NEW w \in Watches, status[w] = "on", NEW u \in Topics, u = topicOf[w]
        PROVE  Ahead(w, u)' /\ Flowing(w, u)'
    <3>1. Ahead(w, u) /\ Flowing(w, u)
      BY Zenon, <2>1 DEF Covered
    <3>2. /\ u \in DOMAIN topics
          /\ u # t => got'[w] = got[w] /\ topics'[u].cursor = topics[u].cursor
          /\ u = t /\ m <= topics[t].cursor =>
                 got'[w] = got[w] /\ topics'[t].cursor = topics[t].cursor
          /\ u = t /\ m > topics[t].cursor =>
                 Range(got'[w]) = Range(got[w]) \cup {m} /\ topics'[t].cursor = m
      BY SMTT(30), <2>1, <1>DeliverGives
    <3>3. topics[u].cursor \in Int /\ tail[u] \in Nat /\ since[w] \in Nat
      BY Zenon, <2>0, <3>2, CoverTypes
    <3>4. CASE u # t
      <4>1. Ahead(w, u)'
        BY Zenon, <3>1, <3>2, <3>4 DEF Ahead, Given
      <4>2. \A n : InFlight(u, n)' <=> InFlight(u, n)
        BY Zenon, <3>4
      <4>3. Flowing(w, u)'
        BY Zenon, <3>1, <3>2, <3>4, <4>2 DEF Flowing, Given, Unpublished, Event, Msg
      <4> QED
        BY Zenon, <4>1, <4>3
    <3>5. CASE u = t
      <4>1. \A n : Given(w, n) => Given(w, n)'
        BY SMTT(30), <3>2, <3>3, <3>5 DEF Given
      <4>2. \A n \in since[w] + 1 .. m - 1 : Given(w, n)
        <5> TAKE n \in since[w] + 1 .. m - 1
        <5>1. n \in Nat /\ n < m /\ m \in 1 .. tail[t]
          BY SMTT(30), <3>3, <3>5
        <5>2. Given(w, n) \/ InFlight(t, n)
          BY Zenon, <3>1, <3>5, <5>1 DEF Flowing
        <5> QED
          BY SMTT(30), <5>1, <5>2
      <4>3. m \in since[w] + 1 .. tail[t] => Given(w, m)'
        <5>1. CASE m > topics[t].cursor
          BY Zenon, <3>2, <3>5, <5>1 DEF Given
        <5>2. CASE m <= topics[t].cursor
          <6>1. m \in since[w] + 1 .. tail[t] => Given(w, m)
            BY SMTT(30), <3>1, <3>3, <3>5, <5>2 DEF Ahead
          <6> QED
            BY Zenon, <4>1, <6>1
        <5> QED
          BY SMTT(30), <3>3, <3>5, <5>1, <5>2
      <4>4. Ahead(w, t)'
        <5>1. SUFFICES ASSUME NEW n \in since[w] + 1 .. tail[t] PROVE Given(w, n)' \/ n > topics'[t].cursor
          BY Zenon DEF Ahead
        <5>2. Given(w, n) \/ n > topics[t].cursor
          BY Zenon, <3>1, <3>5, <5>1 DEF Ahead
        <5>3. CASE m > topics[t].cursor
          <6>1. topics'[t].cursor = m
            BY Zenon, <3>2, <3>5, <5>3
          <6>2. n > m \/ n = m \/ n \in since[w] + 1 .. m - 1
            BY SMTT(30), <3>3, <3>5, <5>1
          <6> QED
            BY Zenon, <4>1, <4>2, <4>3, <6>1, <6>2
        <5>4. CASE m <= topics[t].cursor
          BY Zenon, <3>2, <3>5, <4>1, <5>2, <5>4
        <5>5. m > topics[t].cursor \/ m <= topics[t].cursor
          BY SMTT(30), <3>3, <3>5
        <5> QED
          BY Zenon, <5>3, <5>4, <5>5
      <4>5. ASSUME NEW n \in since[w] + 1 .. tail[t], InFlight(t, n) PROVE Given(w, n)' \/ InFlight(t, n)'
        <5>1. InFlight(t, n)' \/ n = m
          BY Zenon, <4>5
        <5> QED
          BY Zenon, <4>3, <5>1
      <4>6. Flowing(w, t)'
        <5>1. ASSUME NEW k \in 1 .. tail[t], InFlight(t, k)', NEW n \in since[w] + 1 .. k - 1
              PROVE  Given(w, n)' \/ InFlight(t, n)'
          <6>1. InFlight(t, k) /\ n \in since[w] + 1 .. tail[t]
            BY SMTT(30), <3>3, <3>5, <5>1
          <6>2. Given(w, n) \/ InFlight(t, n)
            BY Zenon, <3>1, <3>5, <5>1, <6>1 DEF Flowing
          <6> QED
            BY Zenon, <4>1, <4>5, <6>1, <6>2
        <5>2. ASSUME open, NEW n \in since[w] + 1 .. tail[t]
              PROVE  Given(w, n)' \/ InFlight(t, n)' \/ Unpublished(t, n)'
          <6>1. Given(w, n) \/ InFlight(t, n) \/ Unpublished(t, n)
            BY Zenon, <3>1, <3>5, <5>2 DEF Flowing
          <6>2. Unpublished(t, n) => Unpublished(t, n)'
            BY Zenon DEF Unpublished, Event, Msg
          <6> QED
            BY Zenon, <4>1, <4>5, <6>1, <6>2
        <5> QED
          BY Zenon, <5>1, <5>2 DEF Flowing
      <4> QED
        BY Zenon, <3>5, <4>4, <4>6
    <3> QED
      BY Zenon, <3>4, <3>5
  <2>2. pc' # "sync"
    BY Zenon
  <2> QED
    BY Zenon, <2>0, <2>1, <2>2 DEF Covered

(* An event held back is older than any on the socket, *)
<1>ReleasedFirst.
      ASSUME WatchTypeOK, Queues, buffered # <<>>, buffered' = Tail(buffered),
             UNCHANGED <<down, outbox>>, NEW t \in Topics, NEW m \in Nat, Head(buffered) = Event(t, m)
      PROVE  First(t, m)
  <2> USE <1>ReleasedFirst
  <2>1. /\ Range(buffered) = {Event(t, m)} \cup Range(buffered')
        /\ Earlier({Event(t, m)}, Range(buffered'))
    BY Zenon, MissTypes, RangeTail, OrderedTail DEF Queues
  <2>2. m <= tail[t]
    BY SMTT(30), <2>1, EventsAre DEF Queues, Dated
  <2>3. ASSUME NEW n \in Nat, InFlight(t, n) PROVE m <= n
    <3>1. CASE Event(t, n) = Event(t, m)
      BY SMTT(30), <3>1, EventsAre
    <3>2. CASE Event(t, n) \in Range(buffered')
      <4>1. m < n
        BY SMTT(30), <2>1, <3>2, EventsAre DEF Earlier
      <4> QED
        BY SMTT(30), <4>1
    <3>3. CASE Event(t, n) \in Range(down) \cup Range(outbox)
      <4>1. m < n
        BY SMTT(30), <2>1, <3>3, EventsAre DEF Earlier, Queues
      <4> QED
        BY SMTT(30), <4>1
    <3> QED
      BY Zenon, <2>1, <2>3, <3>1, <3>2, <3>3 DEF InFlight
  <2>4. ASSUME NEW u, NEW n PROVE InFlight(u, n) <=> InFlight(u, n)' \/ (u = t /\ n = m)
    <3>1. Event(u, n) = Event(t, m) <=> u = t /\ n = m
      BY SMTT(30), EventsAre
    <3> QED
      BY Zenon, <2>1, <3>1 DEF InFlight, Event, Msg
  <2> QED
    BY Zenon, <2>1, <2>2, <2>3, <2>4 DEF First, InFlight

(* and when none is held back, the socket's first is the oldest. *)
<1>ReadFirst.
      ASSUME WatchTypeOK, Queues, buffered = <<>>, down # <<>>, down' = Tail(down),
             UNCHANGED <<buffered, outbox>>, NEW t \in Topics, NEW m \in Nat, Head(down) = Event(t, m)
      PROVE  First(t, m)
  <2> USE <1>ReadFirst
  <2>1. /\ Range(down) = {Event(t, m)} \cup Range(down') /\ Range(buffered) = {}
        /\ Earlier({Event(t, m)}, Range(down'))
    BY Zenon, MissTypes, RangeTail, OrderedTail, EmptyIs DEF Queues
  <2>2. m <= tail[t]
    BY SMTT(30), <2>1, EventsAre DEF Queues, Dated
  <2>3. ASSUME NEW n \in Nat, InFlight(t, n) PROVE m <= n
    <3>1. CASE Event(t, n) = Event(t, m)
      BY SMTT(30), <3>1, EventsAre
    <3>2. CASE Event(t, n) \in Range(down')
      <4>1. m < n
        BY SMTT(30), <2>1, <3>2, EventsAre DEF Earlier
      <4> QED
        BY SMTT(30), <4>1
    <3>3. CASE Event(t, n) \in Range(outbox)
      <4>1. m < n
        BY SMTT(30), <2>1, <3>3, EventsAre DEF Earlier, Queues
      <4> QED
        BY SMTT(30), <4>1
    <3> QED
      BY Zenon, <2>1, <2>3, <3>1, <3>2, <3>3 DEF InFlight
  <2>4. ASSUME NEW u, NEW n PROVE InFlight(u, n) <=> InFlight(u, n)' \/ (u = t /\ n = m)
    <3>1. Event(u, n) = Event(t, m) <=> u = t /\ n = m
      BY SMTT(30), EventsAre
    <3> QED
      BY Zenon, <2>1, <3>1 DEF InFlight, Event, Msg
  <2> QED
    BY Zenon, <2>1, <2>2, <2>3, <2>4 DEF First, InFlight

(* The catch-up's answer. *)
<1>SyncAnswerKeeps.
      ASSUME WatchTypeOK, Known, Cursors, Covered, SyncAnswer PROVE Covered' /\ Answered'
  <2> USE <1>SyncAnswerKeeps
  <2>1. /\ reply'.answered /\ reply'.cursors = [t \in DOMAIN topics |-> tail[t]]
        /\ reply'.events = UNION {{Msg("event", t, n) : n \in topics[t].cursor + 1 .. tail[t]} :
                                         t \in DOMAIN topics}
        /\ UNCHANGED <<tail, topics, use, status, since, got, pc>> /\ pc = "sync"
    BY Zenon DEF SyncAnswer, node, watchers
  <2>2. /\ tail \in [Topics -> Nat] /\ since \in [Watches -> Nat] /\ topicOf \in [Watches -> Topics]
        /\ \A t \in DOMAIN topics : topics[t].cursor \in Int /\ t \in Topics /\ tail[t] \in Nat
        /\ topicOf' = topicOf
    BY Zenon, <2>1, CoverTypes DEF topicOf
  <2>3. ASSUME NEW t \in DOMAIN topics, NEW n \in topics[t].cursor + 1 .. tail[t]
        PROVE  Event(t, n) \in reply'.events
    BY SMTT(30), <2>1, <2>3 DEF Event
  <2>4. ASSUME NEW e \in reply'.events
        PROVE  e.topic \in DOMAIN topics' /\ e.n <= reply'.cursors[e.topic]
    <3>1. PICK t \in DOMAIN topics : e \in {Msg("event", t, n) : n \in topics[t].cursor + 1 .. tail[t]}
      BY Zenon, <2>1, <2>4
    <3>2. PICK n \in topics[t].cursor + 1 .. tail[t] : e = Event(t, n)
      BY Zenon, <3>1 DEF Event
    <3>3. e.topic = t /\ e.n = n /\ n <= tail[t]
      BY SMTT(30), <2>2, <3>2, EventsAre
    <3> QED
      BY Zenon, <2>1, <3>1, <3>3
  <2>5. ASSUME NEW t \in DOMAIN topics PROVE AnswerOK(t)'
    <3>1. reply'.cursors[t] = tail[t] /\ topics[t].cursor <= tail[t] /\ tail[t] \in Nat /\ tail[t] <= tail[t]
      BY SMTT(30), <2>1, <2>2 DEF Cursors
    <3>2. (\A m \in 1 .. tail[t] : tail[t] + 1 .. m - 1 = {}) /\ tail[t] + 1 .. tail[t] = {}
      BY SMTT(30), <3>1
    <3> QED
      BY Zenon, <2>1, <3>1, <3>2 DEF AnswerOK
  <2>6. ASSUME NEW w \in Watches, status[w] = "on", NEW t \in Topics, t = topicOf[w]
        PROVE  Ahead(w, t)' /\ Promised(w, t)'
    <3>1. Ahead(w, t) /\ t \in DOMAIN topics
      BY Zenon, <2>6 DEF Covered, Known, Joined
    <3>2. Ahead(w, t)'
      BY Zenon, <2>1, <3>1 DEF Ahead, Given
    <3>3. ASSUME NEW n \in since[w] + 1 .. tail[t] PROVE Given(w, n)' \/ Event(t, n) \in reply'.events
      <4>1. Given(w, n) \/ n > topics[t].cursor
        BY Zenon, <3>1, <3>3 DEF Ahead
      <4>2. n > topics[t].cursor => n \in topics[t].cursor + 1 .. tail[t]
        BY SMTT(30), <2>2, <3>1, <3>3
      <4> QED
        BY Zenon, <2>1, <2>3, <3>1, <4>1, <4>2 DEF Given
    <3>4. reply'.cursors[t] = tail[t] /\ since' = since
      BY Zenon, <2>1, <3>1
    <3>5. Promised(w, t)'
      BY Zenon, <3>3, <3>4 DEF Promised, Event, Msg
    <3> QED
      BY Zenon, <3>2, <3>5
  <2> QED
    BY Zenon, <2>1, <2>2, <2>4, <2>5, <2>6 DEF Covered, Answered

(* An event of the answer is delivered, *)
<1>CatchUpDelivers.
      ASSUME WatchTypeOK, Known, Covered, Answered, pc = "sync", reply.answered, NEW e, CatchesUp(e),
             UNCHANGED <<tail, publishing, outbox, open, down, buffered, use, status, since>>
      PROVE  Covered' /\ Answered'
  <2> USE <1>CatchUpDelivers
  <2>1. PICK t \in Topics, m \in Nat : e = Event(t, m) /\ e.topic = t /\ e.n = m
    BY SMTT(30), EventsAre DEF CatchesUp
  <2>2. /\ Delivers(t, m) /\ Event(t, m) \in reply.events /\ pc' = "sync" /\ reply'.answered
        /\ reply'.cursors = reply.cursors /\ reply'.events = reply.events \ {Event(t, m)}
    BY Zenon, <2>1 DEF CatchesUp
  <2>3. \A n : Event(t, n) \in reply.events => m <= n
    <3> TAKE n
    <3>1. Event(t, n).topic = t /\ Event(t, n).n = n
      BY SMTT(30), EventsAre
    <3> QED
      BY Zenon, <2>1, <3>1 DEF CatchesUp
  <2>4. /\ topicOf' = topicOf /\ topicOf \in [Watches -> Topics] /\ tail \in [Topics -> Nat]
        /\ since \in [Watches -> Nat] /\ \A u \in DOMAIN topics : topics[u].cursor \in Int /\ u \in Topics
        /\ reply \in Replies
    BY Zenon, CoverTypes DEF topicOf
  <2>5. /\ t \in DOMAIN topics /\ m <= reply.cursors[t]
        /\ \A u \in DOMAIN topics : AnswerOK(u) /\ reply.cursors[u] \in Nat /\ tail[u] \in Nat
    <3>1. t \in DOMAIN topics /\ m <= reply.cursors[t] /\ \A u \in DOMAIN topics : AnswerOK(u)
      BY Zenon, <2>1, <2>2 DEF Answered
    <3>2. \A u \in DOMAIN topics : reply.cursors[u] \in Nat /\ tail[u] \in Nat
      BY Zenon, <2>4 DEF Replies
    <3> QED
      BY Zenon, <3>1, <3>2
  <2>6. m <= tail[t] /\ reply.cursors[t] <= tail[t]
    BY SMTT(30), <2>5 DEF AnswerOK
  <2>7. ASSUME NEW w \in Watches, status[w] = "on", NEW u \in Topics, u = topicOf[w]
        PROVE  Ahead(w, u)' /\ Promised(w, u)'
    <3>1. Ahead(w, u) /\ Promised(w, u)
      BY Zenon, <2>7 DEF Covered
    <3>2. /\ u \in DOMAIN topics
          /\ u # t => got'[w] = got[w] /\ topics'[u].cursor = topics[u].cursor
          /\ u = t /\ m <= topics[t].cursor =>
                 got'[w] = got[w] /\ topics'[t].cursor = topics[t].cursor
          /\ u = t /\ m > topics[t].cursor =>
                 Range(got'[w]) = Range(got[w]) \cup {m} /\ topics'[t].cursor = m
      BY SMTT(30), <2>2, <2>7, <1>DeliverGives
    <3>3. topics[u].cursor \in Int /\ tail[u] \in Nat /\ since[w] \in Nat /\ reply.cursors[u] \in Nat
      BY Zenon, <2>4, <2>5, <3>2
    <3>4. CASE u # t
      <4>1. Ahead(w, u)'
        BY Zenon, <3>1, <3>2, <3>4 DEF Ahead, Given
      <4>2. \A n : Event(u, n) # Event(t, m)
        BY SMTT(30), <3>4, EventsAre
      <4>3. Promised(w, u)'
        BY Zenon, <2>2, <3>1, <3>2, <3>4, <4>2 DEF Promised, Given, Event, Msg
      <4> QED
        BY Zenon, <4>1, <4>3
    <3>5. CASE u = t
      <4>1. \A n : Given(w, n) => Given(w, n)'
        BY SMTT(30), <3>2, <3>3, <3>5 DEF Given
      <4>2. \A n \in since[w] + 1 .. m - 1 : Given(w, n)
        <5> TAKE n \in since[w] + 1 .. m - 1
        <5>1. n \in Nat /\ n < m /\ n \in since[w] + 1 .. reply.cursors[t]
          BY SMTT(30), <2>5, <3>3, <3>5
        <5>2. Given(w, n) \/ Event(t, n) \in reply.events
          BY Zenon, <3>1, <3>5, <5>1 DEF Promised
        <5> QED
          BY SMTT(30), <2>3, <5>1, <5>2
      <4>3. m \in since[w] + 1 .. tail[t] => Given(w, m)'
        <5>1. CASE m > topics[t].cursor
          BY Zenon, <3>2, <3>5, <5>1 DEF Given
        <5>2. CASE m <= topics[t].cursor
          <6>1. m \in since[w] + 1 .. tail[t] => Given(w, m)
            BY SMTT(30), <3>1, <3>3, <3>5, <5>2 DEF Ahead
          <6> QED
            BY Zenon, <4>1, <6>1
        <5> QED
          BY SMTT(30), <3>3, <3>5, <5>1, <5>2
      <4>4. Ahead(w, t)'
        <5>1. SUFFICES ASSUME NEW n \in since[w] + 1 .. tail[t] PROVE Given(w, n)' \/ n > topics'[t].cursor
          BY Zenon DEF Ahead
        <5>2. Given(w, n) \/ n > topics[t].cursor
          BY Zenon, <3>1, <3>5, <5>1 DEF Ahead
        <5>3. CASE m > topics[t].cursor
          <6>1. topics'[t].cursor = m
            BY Zenon, <3>2, <3>5, <5>3
          <6>2. n > m \/ n = m \/ n \in since[w] + 1 .. m - 1
            BY SMTT(30), <3>3, <3>5, <5>1
          <6> QED
            BY Zenon, <4>1, <4>2, <4>3, <6>1, <6>2
        <5>4. CASE m <= topics[t].cursor
          BY Zenon, <3>2, <3>5, <4>1, <5>2, <5>4
        <5> QED
          BY SMTT(30), <3>3, <3>5, <5>3, <5>4
      <4>5. Promised(w, t)'
        <5>1. SUFFICES ASSUME NEW n \in since[w] + 1 .. reply.cursors[t]
                       PROVE  Given(w, n)' \/ Event(t, n) \in reply'.events
          BY Zenon, <2>2 DEF Promised, Event, Msg
        <5>2. Given(w, n) \/ Event(t, n) \in reply.events
          BY Zenon, <3>1, <3>5, <5>1 DEF Promised
        <5>3. n = m => Given(w, n)'
          BY SMTT(30), <2>6, <3>3, <3>5, <4>3
        <5>4. n # m => Event(t, n) # Event(t, m)
          BY SMTT(30), EventsAre
        <5> QED
          BY Zenon, <2>2, <4>1, <5>2, <5>3, <5>4
      <4> QED
        BY Zenon, <3>5, <4>4, <4>5
    <3> QED
      BY Zenon, <3>4, <3>5
  <2>8. Covered'
    BY Zenon, <2>2, <2>4, <2>7 DEF Covered
  <2>9. DOMAIN topics' = DOMAIN topics
    BY Zenon, <2>2, <2>5 DEF Delivers, Edited
  <2>10. ASSUME NEW d \in reply'.events PROVE d.topic \in DOMAIN topics' /\ d.n <= reply'.cursors[d.topic]
    BY Zenon, <2>2, <2>9 DEF Answered
  <2>11. ASSUME NEW u \in DOMAIN topics PROVE AnswerOK(u)'
    <3>1. topics'[u].cursor <= reply.cursors[u] /\ reply.cursors[u] <= tail[u]
      <4>1. topics[u].cursor <= reply.cursors[u] /\ reply.cursors[u] <= tail[u]
        BY Zenon, <2>5 DEF AnswerOK
      <4>2. topics'[u].cursor = topics[u].cursor \/ (u = t /\ topics'[u].cursor = m)
        BY Zenon, <2>2 DEF Delivers, Edited
      <4> QED
        BY Zenon, <2>5, <4>1, <4>2
    <3>2. AnswerOK(u) /\ SameFlow
      BY Zenon, <2>5, <1>FlowStays
    <3> QED
      BY Zenon, <2>2, <3>1, <3>2 DEF AnswerOK, SameFlow, Unpublished, Event, Msg
  <2> QED
    BY Zenon, <2>8, <2>9, <2>10, <2>11 DEF Answered

(* and the cursors move to those of the answer. *)
<1>CatchUpEnds.
      ASSUME WatchTypeOK, Known, Covered, Answered, pc = "sync", reply.answered, reply.events = {},
             Advances, pc' = "release",
             UNCHANGED <<tail, publishing, outbox, open, down, buffered, use, status, since, got>>
      PROVE  Covered' /\ Answered'
  <2> USE <1>CatchUpEnds
  <2>1. /\ topicOf' = topicOf /\ topicOf \in [Watches -> Topics] /\ tail \in [Topics -> Nat]
        /\ since \in [Watches -> Nat] /\ \A u \in DOMAIN topics : topics[u].cursor \in Int /\ u \in Topics
        /\ reply \in Replies
    BY Zenon, CoverTypes DEF topicOf
  <2>2. ASSUME NEW w \in Watches, status[w] = "on", NEW t \in Topics, t = topicOf[w]
        PROVE  Ahead(w, t)' /\ Flowing(w, t)'
    <3>1. Promised(w, t) /\ t \in DOMAIN topics
      BY Zenon, <2>2 DEF Covered, Known, Joined
    <3>2. AnswerOK(t) /\ reply.cursors[t] \in Nat
      BY Zenon, <2>1, <3>1 DEF Answered, Replies
    <3>3. PICK c \in Nat : c = reply.cursors[t]
      BY Zenon, <3>2
    <3>4. topics'[t].cursor = c /\ c <= tail[t] /\ tail[t] \in Nat /\ since[w] \in Nat
      <4>1. topics[t].cursor <= c /\ c <= tail[t] /\ topics[t].cursor \in Int
        BY Zenon, <2>1, <3>1, <3>2, <3>3 DEF AnswerOK
      <4>2. topics'[t].cursor = IF topics[t].cursor < c THEN c ELSE topics[t].cursor
        BY Zenon, <3>1, <3>3 DEF Advances
      <4> QED
        BY SMTT(30), <2>1, <4>1, <4>2
    <3>5. \A n \in since[w] + 1 .. c : Given(w, n)'
      BY Zenon, <3>1, <3>3 DEF Promised, Given
    <3>6. Ahead(w, t)'
      <4>1. \A n \in since[w] + 1 .. tail[t] : n > c \/ n \in since[w] + 1 .. c
        BY SMTT(30), <3>4
      <4> QED
        BY Zenon, <3>4, <3>5, <4>1 DEF Ahead
    <3>7. \A n : (InFlight(t, n)' <=> InFlight(t, n)) /\ (Unpublished(t, n)' <=> Unpublished(t, n))
      BY Zenon DEF InFlight, Unpublished, Event, Msg
    <3>8. ASSUME NEW k \in 1 .. tail[t], InFlight(t, k), NEW n \in since[w] + 1 .. k - 1
          PROVE  Given(w, n)' \/ InFlight(t, n)
      <4>1. n \in since[w] + 1 .. c \/ n \in c + 1 .. k - 1
        BY SMTT(30), <3>4, <3>8
      <4>2. n \in c + 1 .. k - 1 => InFlight(t, n)
        BY Zenon, <3>2, <3>3, <3>8 DEF AnswerOK
      <4> QED
        BY Zenon, <3>5, <4>1, <4>2
    <3>9. ASSUME open, NEW n \in since[w] + 1 .. tail[t]
          PROVE  Given(w, n)' \/ InFlight(t, n) \/ Unpublished(t, n)
      <4>1. n \in since[w] + 1 .. c \/ n \in c + 1 .. tail[t]
        BY SMTT(30), <3>4, <3>9
      <4>2. n \in c + 1 .. tail[t] => InFlight(t, n) \/ Unpublished(t, n)
        BY Zenon, <3>2, <3>3, <3>9 DEF AnswerOK
      <4> QED
        BY Zenon, <3>5, <4>1, <4>2
    <3>10. Flowing(w, t)'
      BY Zenon, <3>7, <3>8, <3>9 DEF Flowing
    <3> QED
      BY Zenon, <3>6, <3>10
  <2> QED
    BY Zenon, <2>1, <2>2 DEF Covered, Answered

(* Nothing on its way is newer than its topic. *)
<1>FlightDated.
      ASSUME WatchTypeOK, Queues, NEW t, NEW n
      PROVE  (InFlight(t, n) => n <= tail[t]) /\ (Unpublished(t, n) => n <= tail[t])
  <2> USE <1>FlightDated
  <2>1. Event(t, n).topic = t /\ Event(t, n).n = n
    BY Zenon, EventsAre
  <2> QED
    BY Zenon, <2>1 DEF Queues, Dated, InFlight, Unpublished

(* A step that carries every topic keeps what is covered. *)
<1>CoveredCarries.
      ASSUME WatchTypeOK, Handshake, Known, Cursors, Covered, Answered, tail' \in [Topics -> Nat],
             UNCHANGED <<pc, topics, reply, use, status, since, got>>, \A t \in Topics : Carries(t)
      PROVE  Covered' /\ Answered'
  <2> USE <1>CoveredCarries
  <2>1. /\ topicOf' = topicOf /\ topicOf \in [Watches -> Topics] /\ tail \in [Topics -> Nat]
        /\ since \in [Watches -> Nat] /\ \A u \in DOMAIN topics : topics[u].cursor \in Int /\ u \in Topics
        /\ pc = "sync" /\ reply.answered => reply \in Replies
    BY Zenon, CoverTypes DEF topicOf
  <2>2. ASSUME NEW w \in Watches, status[w] = "on", NEW t \in Topics, t = topicOf[w]
        PROVE  /\ Ahead(w, t)' /\ (pc' \in {"serve", "release"} => Flowing(w, t)')
               /\ pc' = "sync" /\ reply'.answered => Promised(w, t)'
    <3>1. /\ Ahead(w, t) /\ (pc \in {"serve", "release"} => Flowing(w, t))
          /\ pc = "sync" /\ reply.answered => Promised(w, t)
      BY Zenon, <2>2 DEF Covered
    <3>2. t \in DOMAIN topics /\ topics[t].cursor <= tail[t] /\ Carries(t) /\ Entered(t)
          /\ (pc = "serve" => topics[t].live)
      BY Zenon, <2>2 DEF Known, Joined, Cursors, Handshake
    <3>3. tail[t] \in Nat /\ tail'[t] \in Nat /\ since[w] \in Nat /\ topics[t].cursor \in Int
      BY Zenon, <2>1, <3>2
    <3>4. Ahead(w, t)'
      <4>1. SUFFICES ASSUME NEW n \in since[w] + 1 .. tail'[t] PROVE Given(w, n) \/ n > topics[t].cursor
        BY Zenon DEF Ahead, Given
      <4>2. n \in since[w] + 1 .. tail[t] \/ n > tail[t]
        BY SMTT(30), <3>3, <4>1
      <4>3. n > tail[t] => n > topics[t].cursor
        BY SMTT(30), <3>2, <3>3, <4>1
      <4> QED
        BY Zenon, <3>1, <4>2, <4>3 DEF Ahead
    <3>5. ASSUME pc \in {"serve", "release"} PROVE Flowing(w, t)'
      <4>1. Flowing(w, t) /\ (open => t \in registered)
        BY Zenon, <3>1, <3>2, <3>5 DEF Entered, Connected
      <4>2. ASSUME NEW k \in 1 .. tail'[t], InFlight(t, k)', NEW n \in since[w] + 1 .. k - 1
            PROVE  Given(w, n) \/ InFlight(t, n)'
        <5>1. n \in Nat /\ k \in Nat /\ n < k /\ n >= 1
          BY SMTT(30), <3>3, <4>2
        <5>2. CASE ~InFlight(t, n) /\ InFlight(t, k) /\ k <= tail[t]
          <6>1. k \in 1 .. tail[t]
            BY SMTT(30), <3>3, <5>1, <5>2
          <6> QED
            BY Zenon, <4>1, <4>2, <5>2, <6>1 DEF Flowing
        <5>3. CASE ~InFlight(t, n) /\ ~Unpublished(t, n) /\ open /\ n <= tail[t]
          <6>1. n \in since[w] + 1 .. tail[t]
            BY SMTT(30), <3>3, <4>2, <5>3
          <6> QED
            BY Zenon, <4>1, <5>3, <6>1 DEF Flowing
        <5> QED
          BY Zenon, <3>2, <4>2, <5>1, <5>2, <5>3 DEF Carries
      <4>3. ASSUME open', NEW n \in since[w] + 1 .. tail'[t]
            PROVE  Given(w, n) \/ InFlight(t, n)' \/ Unpublished(t, n)'
        <5>1. open /\ t \in registered /\ n \in 1 .. tail'[t]
          BY SMTT(30), <3>2, <3>3, <4>1, <4>3 DEF Carries
        <5>2. CASE ~InFlight(t, n) /\ ~Unpublished(t, n) /\ n <= tail[t]
          <6>1. n \in since[w] + 1 .. tail[t]
            BY SMTT(30), <3>3, <4>3, <5>2
          <6> QED
            BY Zenon, <4>1, <5>1, <5>2, <6>1 DEF Flowing
        <5> QED
          BY Zenon, <3>2, <4>3, <5>1, <5>2 DEF Carries
      <4> QED
        BY Zenon, <4>2, <4>3 DEF Flowing, Given
    <3>6. ASSUME pc = "sync", reply.answered PROVE Promised(w, t)'
      BY Zenon, <3>1, <3>6 DEF Promised, Given, Event, Msg
    <3> QED
      BY Zenon, <3>4, <3>5, <3>6
  <2>3. Covered'
    BY Zenon, <2>1, <2>2 DEF Covered
  <2>4. ASSUME pc = "sync", reply.answered, NEW t \in DOMAIN topics PROVE AnswerOK(t)'
    <3>1. AnswerOK(t) /\ Carries(t) /\ Entered(t) /\ t \in Topics
      BY Zenon, <2>1, <2>4 DEF Answered, Handshake
    <3>2. tail[t] \in Nat /\ tail'[t] \in Nat /\ reply.cursors[t] \in Nat /\ reply' = reply /\ topics' = topics
      BY Zenon, <2>1, <2>4, <3>1 DEF Replies
    <3>3. PICK c \in Nat : c = reply.cursors[t]
      BY Zenon, <3>2
    <3>4. topics[t].cursor <= c /\ c <= tail'[t] /\ (open => t \in registered)
      <4>1. topics[t].cursor <= c /\ c <= tail[t] /\ tail[t] <= tail'[t]
        BY Zenon, <3>1, <3>3 DEF AnswerOK, Carries
      <4>2. open => t \in registered
        BY Zenon, <2>4, <3>1 DEF Entered, Connected
      <4> QED
        BY SMTT(30), <3>2, <4>1, <4>2
    <3>5. ASSUME NEW k \in 1 .. tail'[t], InFlight(t, k)', NEW n \in c + 1 .. k - 1 PROVE InFlight(t, n)'
      <4>1. n \in Nat /\ k \in Nat /\ n < k /\ n >= 1
        BY SMTT(30), <3>2, <3>5
      <4>2. CASE ~InFlight(t, n) /\ InFlight(t, k) /\ k <= tail[t]
        <5>1. k \in 1 .. tail[t]
          BY SMTT(30), <3>2, <4>1, <4>2
        <5> QED
          BY Zenon, <3>1, <3>3, <3>5, <4>2, <5>1 DEF AnswerOK
      <4>3. CASE ~InFlight(t, n) /\ ~Unpublished(t, n) /\ open /\ n <= tail[t]
        <5>1. n \in c + 1 .. tail[t]
          BY SMTT(30), <3>2, <3>5, <4>3
        <5> QED
          BY Zenon, <3>1, <3>3, <4>3, <5>1 DEF AnswerOK
      <4> QED
        BY Zenon, <3>1, <3>5, <4>1, <4>2, <4>3 DEF Carries
    <3>6. ASSUME open', NEW n \in c + 1 .. tail'[t] PROVE InFlight(t, n)' \/ Unpublished(t, n)'
      <4>1. open /\ t \in registered /\ n \in 1 .. tail'[t]
        BY SMTT(30), <3>1, <3>2, <3>4, <3>6 DEF Carries
      <4>2. CASE ~InFlight(t, n) /\ ~Unpublished(t, n) /\ n <= tail[t]
        <5>1. n \in c + 1 .. tail[t]
          BY SMTT(30), <3>2, <3>6, <4>2
        <5> QED
          BY Zenon, <3>1, <3>3, <4>1, <4>2, <5>1 DEF AnswerOK
      <4> QED
        BY Zenon, <3>1, <3>6, <4>1, <4>2 DEF Carries
    <3> QED
      BY Zenon, <3>2, <3>3, <3>4, <3>5, <3>6 DEF AnswerOK
  <2>5. Answered'
    BY Zenon, <2>4 DEF Answered
  <2> QED
    BY Zenon, <2>3, <2>5

(* A commit, *)
<1>CommitCarries.
      ASSUME WatchTypeOK, Queues, NEW t \in Topics, Commit(t)
      PROVE  tail' \in [Topics -> Nat] /\ \A u \in Topics : Carries(u)
  <2> USE <1>CommitCarries
  <2>1. /\ tail' = [tail EXCEPT ![t] = @ + 1] /\ publishing' = Append(publishing, Event(t, tail[t] + 1))
        /\ UNCHANGED <<outbox, down, buffered, open, registered>>
    BY Zenon DEF Commit, Event, socket, actor
  <2>2. tail \in [Topics -> Nat] /\ tail[t] + 1 \in Nat
    BY SMTT(30), MissTypes
  <2>3. tail' \in [Topics -> Nat] /\ tail'[t] = tail[t] + 1 /\ \A u \in Topics : u # t => tail'[u] = tail[u]
    BY Zenon, <2>1, <2>2
  <2>4. Range(publishing') = Range(publishing) \cup {Event(t, tail[t] + 1)}
    <3>1. Event(t, tail[t] + 1) \in Events
      BY Zenon, <2>2 DEF Event, Msg, Events
    <3> QED
      BY SMTT(30), <2>1, <3>1, MissTypes, RangeAppend
  <2>0. PICK c \in Nat : c = tail[t] + 1
    BY Zenon, <2>2
  <2>5. ASSUME NEW u \in Topics PROVE Carries(u)
    <3>1. /\ \A n : (InFlight(u, n)' <=> InFlight(u, n)) /\ (Unpublished(u, n) => Unpublished(u, n)')
          /\ u = t => Unpublished(u, c)'
      BY Zenon, <2>0, <2>1, <2>4 DEF InFlight, Unpublished, Event, Msg
    <3>2. tail[u] \in Nat /\ tail'[u] \in Nat /\ tail[u] <= tail'[u]
      BY SMTT(30), <2>2, <2>3
    <3>3. ASSUME NEW k \in Nat, NEW n \in Nat, n < k, InFlight(u, k)'
          PROVE  InFlight(u, n)' \/ (~InFlight(u, n) /\ InFlight(u, k) /\ k <= tail[u])
      BY Zenon, <3>1, <3>3, <1>FlightDated
    <3>4. ASSUME NEW n \in 1 .. tail'[u]
          PROVE  \/ InFlight(u, n)' \/ Unpublished(u, n)'
                 \/ ~InFlight(u, n) /\ ~Unpublished(u, n) /\ n <= tail[u]
      <4>1. n <= tail[u] \/ (u = t /\ n = c)
        BY SMTT(30), <2>0, <2>2, <2>3, <3>2, <3>4
      <4> QED
        BY Zenon, <3>1, <4>1
    <3> QED
      BY Zenon, <2>1, <3>2, <3>3, <3>4 DEF Carries
  <2> QED
    BY Zenon, <2>3, <2>5

(* a publication, *)
<1>PublishCarries.
      ASSUME WatchTypeOK, Quiet, Queues, Publish PROVE \A u \in Topics : Carries(u)
  <2> USE <1>PublishCarries
  <2>1. /\ publishing # <<>> /\ publishing' = Tail(publishing)
        /\ outbox' = IF Head(publishing).topic \in registered
                     THEN Append(outbox, Head(publishing)) ELSE outbox
        /\ UNCHANGED <<tail, down, buffered, open, registered>>
    BY Zenon DEF Publish, socket, actor
  <2>2. Head(publishing) \in Events
    BY Zenon, <2>1, MissTypes, TailPlaces
  <2>3. PICK t \in Topics, m \in Nat : Head(publishing) = Event(t, m) /\ Head(publishing).topic = t
    BY Zenon, <2>2, EventsAre
  <2>4. /\ Range(publishing) = {Event(t, m)} \cup Range(publishing')
        /\ Earlier({Event(t, m)}, Range(publishing'))
    BY Zenon, <2>1, <2>3, MissTypes, RangeTail, OrderedTail DEF Queues
  <2>5. m <= tail[t] /\ tail \in [Topics -> Nat]
    <3>1. Unpublished(t, m)
      BY Zenon, <2>4 DEF Unpublished
    <3> QED
      BY Zenon, <3>1, <1>FlightDated, MissTypes
  <2>6. \A n \in Nat : Unpublished(t, n) => m <= n
    <3> TAKE n \in Nat
    <3>1. Event(t, n) = Event(t, m) => n = m
      BY SMTT(30), EventsAre
    <3>2. Event(t, n) \in Range(publishing') => m < n
      BY SMTT(30), <2>4, EventsAre DEF Earlier
    <3> QED
      BY SMTT(30), <2>4, <3>1, <3>2 DEF Unpublished
  <2>7. \A u, n : Unpublished(u, n) => Unpublished(u, n)' \/ (u = t /\ n = m)
    <3> TAKE u, n
    <3>1. Event(u, n) = Event(t, m) <=> u = t /\ n = m
      BY SMTT(30), EventsAre
    <3> QED
      BY Zenon, <2>4, <3>1 DEF Unpublished, Event, Msg
  <2>8. CASE t \in registered
    <3>1. outbox' = Append(outbox, Event(t, m)) /\ open
      BY Zenon, <2>1, <2>3, <2>8 DEF Quiet
    <3>2. Range(outbox') = Range(outbox) \cup {Event(t, m)}
      BY SMTT(30), <2>2, <2>3, <3>1, MissTypes, RangeAppend
    <3>3. \A u, n : InFlight(u, n)' <=> InFlight(u, n) \/ (u = t /\ n = m)
      <4> TAKE u, n
      <4>1. Event(u, n) = Event(t, m) <=> u = t /\ n = m
        BY SMTT(30), EventsAre
      <4> QED
        BY Zenon, <2>1, <3>2, <4>1 DEF InFlight, Event, Msg
    <3>4. ASSUME NEW u \in Topics PROVE Carries(u)
      <4>1. tail'[u] = tail[u] /\ tail[u] \in Nat
        BY Zenon, <2>1, <2>5
      <4>2. ASSUME NEW k \in Nat, NEW n \in Nat, n < k, InFlight(u, k)'
            PROVE  \/ InFlight(u, n)'
                   \/ ~InFlight(u, n) /\ InFlight(u, k) /\ k <= tail[u]
                   \/ ~InFlight(u, n) /\ ~Unpublished(u, n) /\ open /\ n <= tail[u]
        <5>1. CASE InFlight(u, k)
          BY Zenon, <3>3, <5>1, <1>FlightDated
        <5>2. CASE u = t /\ k = m
          <6>1. ~Unpublished(u, n) /\ n <= tail[u]
            BY SMTT(30), <2>5, <2>6, <4>1, <4>2, <5>2
          <6> QED
            BY Zenon, <3>1, <3>3, <6>1
        <5> QED
          BY Zenon, <3>3, <4>2, <5>1, <5>2
      <4>3. ASSUME NEW n \in 1 .. tail'[u]
            PROVE  \/ InFlight(u, n)' \/ Unpublished(u, n)'
                   \/ ~InFlight(u, n) /\ ~Unpublished(u, n) /\ n <= tail[u]
        <5>1. n <= tail[u]
          BY SMTT(30), <4>1, <4>3
        <5> QED
          BY Zenon, <2>7, <3>3, <5>1
      <4>4. tail[u] <= tail'[u]
        BY SMTT(30), <4>1
      <4> QED
        BY Zenon, <2>1, <4>2, <4>3, <4>4 DEF Carries
    <3> QED
      BY Zenon, <3>4
  <2>9. CASE t \notin registered
    <3>1. \A u, n : InFlight(u, n)' <=> InFlight(u, n)
      BY Zenon, <2>1, <2>3, <2>9 DEF InFlight, Event, Msg
    <3>2. ASSUME NEW u \in Topics PROVE Carries(u)
      <4>1. tail'[u] = tail[u] /\ tail[u] \in Nat /\ tail[u] <= tail'[u]
        BY SMTT(30), <2>1, <2>5
      <4>2. ASSUME NEW k \in Nat, NEW n \in Nat, n < k, InFlight(u, k)'
            PROVE  InFlight(u, n)' \/ (~InFlight(u, n) /\ InFlight(u, k) /\ k <= tail[u])
        BY Zenon, <3>1, <4>2, <1>FlightDated
      <4>3. ASSUME u \in registered, NEW n \in 1 .. tail'[u]
            PROVE  \/ InFlight(u, n)' \/ Unpublished(u, n)'
                   \/ ~InFlight(u, n) /\ ~Unpublished(u, n) /\ n <= tail[u]
        <5>1. n <= tail[u] /\ u # t
          BY SMTT(30), <2>9, <4>1, <4>3
        <5> QED
          BY Zenon, <2>7, <3>1, <5>1
      <4> QED
        BY Zenon, <2>1, <4>1, <4>2, <4>3 DEF Carries
    <3> QED
      BY Zenon, <3>2
  <2> QED
    BY Zenon, <2>8, <2>9

(* a broken socket. *)
<1>DropCarries.
      ASSUME WatchTypeOK, Queues, Drop PROVE \A u \in Topics : Carries(u)
  <2> USE <1>DropCarries
  <2>1. PICK c \in 0 .. Len(down) : down' = SubSeq(down, 1, c)
    BY Zenon DEF Drop
  <2>2. /\ outbox' = <<>> /\ UNCHANGED <<tail, buffered, publishing>> /\ ~open' /\ Range(outbox') = {}
    BY Zenon, EmptyIs DEF Drop, actor
  <2>3. /\ Range(down') \subseteq Range(down)
        /\ \A e \in Range(down'), d \in Range(down) :
               d.kind = "event" /\ e.kind = "event" /\ d.topic = e.topic /\ d.n < e.n => d \in Range(down')
    BY Zenon, <2>1, MissTypes, OrderedPrefix DEF Queues
  <2>4. ASSUME NEW u \in Topics PROVE Carries(u)
    <3>1. tail[u] <= tail'[u]
      BY SMTT(30), <2>2, MissTypes
    <3>2. \A n : InFlight(u, n)' => InFlight(u, n) /\ n <= tail[u]
      <4> TAKE n
      <4>1. InFlight(u, n)' => InFlight(u, n)
        BY Zenon, <2>2, <2>3 DEF InFlight, Event, Msg
      <4> QED
        BY Zenon, <4>1, <1>FlightDated
    <3>3. ASSUME NEW k \in Nat, NEW n \in Nat, n < k, InFlight(u, k)', InFlight(u, n) PROVE InFlight(u, n)'
      <4>1. PICK e, d : e = Event(u, k) /\ d = Event(u, n)
        BY Zenon
      <4>2. /\ e.kind = "event" /\ e.topic = u /\ e.n = k /\ d.kind = "event" /\ d.topic = u /\ d.n = n
            /\ ~(k < n)
        BY SMTT(30), <3>3, <4>1, EventsAre
      <4>3. e \in Range(buffered) \/ e \in Range(down')
        BY Zenon, <2>2, <3>3, <4>1 DEF InFlight, Event, Msg
      <4>4. d \in Range(buffered) \/ d \in Range(down) \/ d \in Range(outbox)
        BY Zenon, <3>3, <4>1 DEF InFlight
      <4>5. ~(d \in Range(outbox))
        BY Zenon, <2>3, <4>2, <4>3 DEF Queues, Earlier
      <4>6. d \in Range(down) => d \in Range(down')
        <5>1. CASE e \in Range(buffered)
          BY Zenon, <4>2, <5>1 DEF Queues, Earlier
        <5>2. CASE e \in Range(down')
          BY Zenon, <2>3, <3>3, <4>2, <5>2
        <5> QED
          BY Zenon, <4>3, <5>1, <5>2
      <4> QED
        BY Zenon, <2>2, <4>1, <4>4, <4>5, <4>6 DEF InFlight, Event, Msg
    <3> QED
      BY Zenon, <2>2, <3>1, <3>2, <3>3 DEF Carries
  <2> QED
    BY Zenon, <2>4

(* The cursor of a watch that returned, when an entry is written. *)
<1>CursorStays.
      ASSUME Known, NEW t, NEW live, NEW subs, NEW pending, NEW c, Edited(t, live, subs, pending, c),
             t \in DOMAIN topics /\ topics[t].cursor # NoCursor => c = topics[t].cursor,
             NEW w \in Watches, status[w] = "on"
      PROVE  topics'[topicOf[w]].cursor = topics[topicOf[w]].cursor
  <2> USE <1>CursorStays
  <2>1. PICK u : u = topicOf[w]
    BY Zenon
  <2>2. u \in DOMAIN topics /\ topics[u].cursor # NoCursor
    BY Zenon, <2>1 DEF Known, Joined
  <2>3. CASE u = t
    BY Zenon, <2>1, <2>2, <2>3 DEF Edited
  <2>4. CASE u # t
    BY Zenon, <2>1, <2>2, <2>4 DEF Edited
  <2> QED
    BY Zenon, <2>3, <2>4

(* A step that leaves the watches, the cursors and the way of the events.  *)
<1>CoverStays.
      ASSUME WatchTypeOK, Covered, Answered, Undisturbed, UNCHANGED <<tail, use, since, got, topics>>,
             \A w \in Watches : status'[w] = "on" => status[w] = "on"
      PROVE  Covered' /\ Answered'
  <2> USE <1>CoverStays
  <2>1. \A w \in Watches : status'[w] = "on" => Untouched(w)
    BY Zenon DEF Untouched
  <2> QED
    BY Zenon, <2>1, <1>CoveredStays, <1>AnsweredStays

(* An acknowledgement. *)
<1>CoverAcks.
      ASSUME WatchTypeOK, Known, Covered, Undisturbed, pc' # "sync", tail' = tail,
             NEW t \in Topics, NEW n \in Nat, Acks(t, n)
      PROVE  Covered' /\ Answered'
  <2> USE <1>CoverAcks
  <2>1. Answered'
    BY Zenon DEF Answered
  <2>2. CASE t \notin DOMAIN topics
    <3>1. UNCHANGED <<topics, use, status, since, got>>
      BY Zenon, <2>2 DEF Acks, watchers
    <3>2. \A w \in Watches : status'[w] = "on" => Untouched(w)
      BY Zenon, <3>1 DEF Untouched
    <3> QED
      BY Zenon, <2>1, <3>1, <3>2, <1>CoveredStays
  <2>3. CASE t \in DOMAIN topics
    <3>1. PICK live, subs, pending, c :
               /\ live = TRUE /\ subs = topics[t].subs /\ pending = {}
               /\ c = IF topics[t].cursor = NoCursor THEN n ELSE topics[t].cursor
      BY Zenon
    <3>2. Edited(t, live, subs, pending, c) /\ Returned(topics[t].pending)
      BY Zenon, <2>3, <3>1 DEF Acks
    <3>3. t \in DOMAIN topics /\ topics[t].cursor # NoCursor => c = topics[t].cursor
      BY Zenon, <3>1
    <3>4. use' = use /\ got' = got
      BY Zenon, <3>2 DEF Returned
    <3>5. ASSUME NEW w \in Watches, status'[w] = "on" PROVE Untouched(w) \/ since'[w] = tail[topicOf[w]]
      <4>1. CASE status[w] = "on"
        <5>1. since'[w] = since[w] /\ got'[w] = got[w]
          BY Zenon, <3>2, <3>4, <4>1 DEF Returned
        <5> QED
          BY Zenon, <3>2, <3>3, <4>1, <5>1, <1>CursorStays DEF Untouched
      <4>2. CASE status[w] # "on"
        BY Zenon, <3>2, <3>5, <4>2 DEF Returned
      <4> QED
        BY Zenon, <4>1, <4>2
    <3> QED
      BY Zenon, <2>1, <3>4, <3>5, <1>CoveredStays
  <2> QED
    BY Zenon, <2>2, <2>3

(* A command. *)
<1>CoverCommands.
      ASSUME WatchTypeOK, Known, Covered, HandleCmd \/ ApplyOffline PROVE Covered' /\ Answered'
  <2> USE <1>CoverCommands
  <2>1. /\ UNCHANGED <<tail, publishing, outbox, down, buffered, open, pc, reply>>
        /\ pc \in {"serve", "backoff"}
    BY Zenon DEF HandleCmd, ApplyOffline, node, socket
  <2>2. Undisturbed /\ pc' # "sync" /\ Answered'
    BY Zenon, <2>1, <1>FlowStays DEF Undisturbed, Answered
  <2>3. PICK w \in Watches, t \in Topics :
            /\ w = Head(cmds).watch /\ t = topicOf[w]
            /\ \/ CmdJoins(w, t) \/ CmdAsks(w, t) \/ CmdLeaves(w, t) \/ CmdCloses(w, t) \/ CmdIdles(w, t)
               \/ /\ UNCHANGED watchers
                  /\ OffJoins(w, t) \/ OffLeaves(w, t) \/ OffCloses(w, t) \/ OffIdles(w, t)
    <3>1. CASE HandleCmd
      BY Zenon, <3>1, HandleCmdIs
    <3>2. CASE ApplyOffline
      <4>1. UNCHANGED watchers
        BY Zenon, <3>2 DEF ApplyOffline
      <4> QED
        BY Zenon, <3>2, <4>1, ApplyOfflineIs
    <3> QED
      BY Zenon, <3>1, <3>2
  <2>4. ASSUME NEW live, NEW subs, NEW pending, NEW c, Edited(t, live, subs, pending, c),
               t \in DOMAIN topics => c = topics[t].cursor, UNCHANGED <<use, got>>,
               \A v \in Watches : status'[v] = "on" =>
                   (status[v] = "on" /\ since'[v] = since[v]) \/ since'[v] = tail[topicOf[v]]
        PROVE  Covered'
    <3>1. ASSUME NEW v \in Watches, status'[v] = "on" PROVE Untouched(v) \/ since'[v] = tail[topicOf[v]]
      <4>1. CASE status[v] = "on" /\ since'[v] = since[v]
        BY Zenon, <2>4, <4>1, <1>CursorStays DEF Untouched
      <4> QED
        BY Zenon, <2>4, <3>1, <4>1
    <3> QED
      BY Zenon, <2>1, <2>2, <2>4, <3>1, <1>CoveredStays
  <2>5. CASE CmdJoins(w, t)
    <3>1. PICK live, subs, pending, c :
              /\ live = TRUE /\ subs = topics[t].subs \cup {w} /\ pending = topics[t].pending
              /\ c = topics[t].cursor
      BY Zenon
    <3>2. Edited(t, live, subs, pending, c) /\ Returned({w})
      BY Zenon, <2>5, <3>1 DEF CmdJoins
    <3>3. /\ UNCHANGED <<use, got>>
          /\ \A v \in Watches : status'[v] = "on" =>
                 (status[v] = "on" /\ since'[v] = since[v]) \/ since'[v] = tail[topicOf[v]]
      BY Zenon, <3>2 DEF Returned
    <3> QED
      BY Zenon, <2>2, <2>4, <3>1, <3>2, <3>3
  <2>6. CASE UNCHANGED watchers
    <3>1. /\ UNCHANGED <<use, got>>
          /\ \A v \in Watches : status'[v] = "on" =>
                 (status[v] = "on" /\ since'[v] = since[v]) \/ since'[v] = tail[topicOf[v]]
      BY Zenon, <2>6 DEF watchers
    <3>2. CASE CmdAsks(w, t) \/ OffJoins(w, t)
      <4>1. PICK live, subs, pending, c :
                /\ live = FALSE /\ subs = Entry(t).subs \cup {w} /\ pending = Entry(t).pending \cup {w}
                /\ c = Entry(t).cursor
        BY Zenon
      <4>2. Edited(t, live, subs, pending, c) /\ (t \in DOMAIN topics => c = topics[t].cursor)
        BY Zenon, <3>2, <4>1 DEF CmdAsks, OffJoins, Entry
      <4> QED
        BY Zenon, <2>2, <2>4, <3>1, <4>2
    <3>3. CASE CmdLeaves(w, t) \/ OffLeaves(w, t)
      <4>1. PICK live, subs, pending, c :
                /\ live = topics[t].live /\ subs = topics[t].subs \ {w} /\ pending = topics[t].pending
                /\ c = topics[t].cursor
        BY Zenon
      <4>2. Edited(t, live, subs, pending, c)
        BY Zenon, <3>3, <4>1 DEF CmdLeaves, OffLeaves
      <4> QED
        BY Zenon, <2>2, <2>4, <3>1, <4>1, <4>2
    <3>4. CASE CmdCloses(w, t) \/ OffCloses(w, t)
      <4>1. Removed(t) /\ topics[t].subs \subseteq {w} /\ Head(cmds).kind = "unsubscribe" /\ cmds # <<>>
        BY Zenon, <3>4, HandleCmdIs, ApplyOfflineIs DEF CmdCloses, OffCloses
      <4>2. ~Alive(w)
        <5>1. 1 \in DOMAIN cmds /\ Head(cmds) = cmds[1]
          BY SMTT(30), <4>1, ListeningTypes, TailPlaces
        <5> QED
          BY Zenon, <2>3, <4>1, <5>1 DEF Known, Queued
      <4>3. ASSUME NEW v \in Watches, status'[v] = "on" PROVE Untouched(v)
        <5>1. status[v] = "on" /\ since'[v] = since[v] /\ got'[v] = got[v]
          BY Zenon, <2>6, <4>3 DEF watchers
        <5>2. PICK u : u = topicOf[v]
          BY Zenon
        <5>3. u \in DOMAIN topics /\ v \in topics[u].subs /\ v # w
          BY Zenon, <4>2, <5>1, <5>2 DEF Known, Joined, Alive
        <5>4. topics'[u] = topics[u]
          BY Zenon, <4>1, <5>3 DEF Removed
        <5> QED
          BY Zenon, <5>1, <5>2, <5>4 DEF Untouched
      <4> QED
        BY Zenon, <2>1, <2>2, <3>1, <4>3, <1>CoveredStays
    <3>5. CASE topics' = topics
      <4>1. \A v \in Watches : status'[v] = "on" => Untouched(v)
        BY Zenon, <2>6, <3>5 DEF Untouched, watchers
      <4> QED
        BY Zenon, <2>1, <2>2, <3>1, <4>1, <1>CoveredStays
    <3> QED
      BY Zenon, <2>3, <2>5, <3>2, <3>3, <3>4, <3>5 DEF CmdIdles, OffIdles
  <2> QED
    BY Zenon, <2>3, <2>5, <2>6 DEF CmdAsks, CmdLeaves, CmdCloses, CmdIdles
<1>0. WatchTypeOK /\ Quiet /\ Queues /\ Cursors /\ Handshake /\ Known /\ Covered /\ Answered
  BY Zenon DEF MissInv
<1>1. ASSUME Gone, \A v \in Watches : status'[v] # "on" PROVE Covered' /\ Answered'
  <2>1. pc' = "none"
    BY Zenon, <1>1 DEF Gone
  <2> QED
    BY Zenon, <1>1, <2>1 DEF Covered, Answered
<1>2. ASSUME NEW w \in Watches, Watch(w) PROVE Covered' /\ Answered'
  <2>1. /\ UNCHANGED <<tail, publishing, outbox, down, buffered, open, topics, reply, use, since, got>>
        /\ pc' = pc \/ pc' = "dial"
    BY Zenon, <1>2 DEF Watch, node, socket
  <2>2. \A v \in Watches : status'[v] = "on" => status[v] = "on"
    BY Zenon, <1>0, <1>2 DEF Watch, WatchTypeOK, WatchersTypeOK
  <2>3. Undisturbed
    BY Zenon, <2>1, <1>FlowStays DEF Undisturbed
  <2> QED
    BY Zenon, <1>0, <2>1, <2>2, <2>3, <1>CoverStays
<1>3. ASSUME NEW w \in Watches, Unwatch(w) PROVE Covered' /\ Answered'
  <2>1. /\ Alive(w) /\ UNCHANGED <<use, since, got>>
        /\ \A v \in Watches : v # w => status'[v] = status[v]
        /\ status'[w] \in {"cancelled", "done"}
    BY Zenon, <1>0, <1>3 DEF Unwatch, WatchTypeOK, WatchersTypeOK
  <2>2. CASE \A v \in Watches \ {w} : ~Alive(v)
    <3>1. Gone
      BY Zenon, <1>3, <2>2 DEF Unwatch
    <3>2. \A v \in Watches : status'[v] # "on"
      BY Zenon, <2>1, <2>2 DEF Alive
    <3> QED
      BY Zenon, <1>1, <3>1, <3>2
  <2>3. CASE ~(\A v \in Watches \ {w} : ~Alive(v))
    <3>1. UNCHANGED <<tail, publishing, outbox, down, buffered, open, topics, reply, pc>>
      BY Zenon, <1>3, <2>3 DEF Unwatch, node, socket
    <3>2. Undisturbed
      BY Zenon, <3>1, <1>FlowStays DEF Undisturbed
    <3>3. \A v \in Watches : status'[v] = "on" => status[v] = "on"
      BY Zenon, <2>1
    <3> QED
      BY Zenon, <1>0, <2>1, <3>1, <3>2, <3>3, <1>CoverStays
  <2> QED
    BY Zenon, <2>2, <2>3
<1>4. ASSUME UNCHANGED <<tail, topics, use, status, since, got>>, Undisturbed PROVE Covered' /\ Answered'
  BY Zenon, <1>0, <1>4, <1>CoverStays
<1>5. ASSUME Lost, UNCHANGED <<topics, watchers>> PROVE Covered' /\ Answered'
  <2>1. UNCHANGED <<tail, topics, use, status, since, got>> /\ pc' = "backoff"
    BY Zenon, <1>5 DEF Lost, watchers
  <2> QED
    BY Zenon, <1>4, <2>1 DEF Undisturbed
<1>6. CASE SocketEnds \/ SyncFails
  BY Zenon, <1>5, <1>6 DEF SocketEnds, SyncFails
<1>7. CASE HelloFails
  <2>1. CASE End
    <3>1. \A v \in Watches : status'[v] # "on"
      BY Zenon, <2>1 DEF End
    <3> QED
      BY Zenon, <1>1, <2>1, <3>1 DEF End
  <2>2. CASE Lost /\ UNCHANGED <<topics, cmds, watchers>>
    BY Zenon, <1>5, <2>2
  <2> QED
    BY Zenon, <1>7, <2>1, <2>2 DEF HelloFails
<1>8. CASE Dial
  <2>1. UNCHANGED <<tail, topics, use, status, since, got>> /\ pc' = "hello"
    BY Zenon, <1>8 DEF Dial, node, watchers
  <2> QED
    BY Zenon, <1>4, <2>1 DEF Undisturbed
<1>9. CASE SyncOnce
  <2>1. UNCHANGED <<tail, topics, use, status, since, got, reply>> /\ pc' = "sync" /\ pc = "resub"
    BY Zenon, <1>9 DEF SyncOnce, node, watchers
  <2>2. ~reply'.answered
    BY SMTT(30), <1>0, <2>1 DEF WatchTypeOK, ActorTypeOK, NoReply
  <2> QED
    BY Zenon, <1>4, <2>1, <2>2 DEF Undisturbed
<1>10. CASE HelloOk
  <2>1. UNCHANGED <<tail, use, status, since, got>>
    BY Zenon, <1>10 DEF HelloOk, node, watchers
  <2>2. CASE pc = "dial" /\ pc' = "serve"
    <3>1. \A v \in Watches : status'[v] # "on"
      BY Zenon, <1>0, <2>1, <2>2 DEF Quiet, Known, Joined
    <3> QED
      BY Zenon, <2>2, <3>1 DEF Covered, Answered
  <2>3. CASE pc' = "resub" /\ Reopens
    <3>1. Undisturbed /\ Answered'
      BY Zenon, <2>3 DEF Undisturbed, Answered
    <3>2. ASSUME NEW v \in Watches, status'[v] = "on" PROVE Untouched(v)
      <4>1. status[v] = "on" /\ topicOf[v] \in DOMAIN topics
        BY Zenon, <1>0, <2>1, <3>2 DEF Known, Joined
      <4> QED
        BY Zenon, <2>1, <2>3, <4>1 DEF Untouched, Reopens
    <3> QED
      BY Zenon, <1>0, <2>1, <3>1, <3>2, <1>CoveredStays
  <2> QED
    BY Zenon, <1>0, <1>10, <2>2, <2>3, HelloOkIs
<1>11. CASE HandleMsg
  <2>1. /\ down # <<>> /\ down' = Tail(down) /\ pc = "serve" /\ pc' = "serve" /\ buffered = <<>>
        /\ UNCHANGED <<tail, publishing, outbox, buffered, open>>
    BY Zenon, <1>0, <1>11 DEF HandleMsg, node, Quiet
  <2>2. CASE Head(down).kind = "topic_ok"
    <3>1. Undisturbed
      BY Zenon, <1>0, <2>1, <2>2, <1>FlowAcks DEF Undisturbed
    <3>2. Acks(Head(down).topic, Head(down).n) /\ Head(down).topic \in Topics /\ Head(down).n \in Nat
      BY Zenon, <1>0, <1>11, <2>1, <2>2, HeadTypes, AckIs DEF HandleMsg
    <3> QED
      BY Zenon, <1>0, <2>1, <3>1, <3>2, <1>CoverAcks
  <2>3. CASE Head(down).kind # "topic_ok"
    <3>1. Head(down) \in Events /\ Deliver(Head(down)) /\ UNCHANGED <<use, status, since>>
      BY Zenon, <1>0, <1>11, <2>1, <2>3, HeadTypes DEF HandleMsg
    <3>2. PICK t \in Topics, m \in Nat : Head(down) = Event(t, m) /\ Head(down).topic = t /\ Head(down).n = m
      BY Zenon, <3>1, EventsAre
    <3>3. Delivers(t, m)
      BY Zenon, <1>0, <3>1, <3>2, DeliverIs
    <3>4. First(t, m)
      BY Zenon, <1>0, <2>1, <3>2, <1>ReadFirst
    <3>5. Covered'
      BY Zenon, <1>0, <2>1, <3>1, <3>3, <3>4, <1>CoveredDelivers DEF First
    <3> QED
      BY Zenon, <2>1, <3>5 DEF Answered
  <2> QED
    BY Zenon, <2>2, <2>3
<1>12. CASE ResubscribeMsg
  <2>1. /\ down # <<>> /\ tail' = tail /\ pc' = "resub" /\ Undisturbed
    BY Zenon, <1>12 DEF ResubscribeMsg, node, Undisturbed
  <2>2. CASE Head(down).kind = "topic_ok"
    <3>1. Acks(Head(down).topic, Head(down).n) /\ Head(down).topic \in Topics /\ Head(down).n \in Nat
      BY Zenon, <1>0, <1>12, <2>1, <2>2, HeadTypes, AckIs DEF ResubscribeMsg
    <3> QED
      BY Zenon, <1>0, <2>1, <3>1, <1>CoverAcks
  <2>3. CASE Head(down).kind # "topic_ok"
    BY Zenon, <1>4, <1>12, <2>1, <2>3 DEF ResubscribeMsg, watchers
  <2> QED
    BY Zenon, <2>2, <2>3
<1>13. CASE Release
  <2>1. /\ pc = "release" /\ UNCHANGED <<tail, publishing, outbox, down, open, use, status, since, reply>>
    BY Zenon, <1>13 DEF Release, node, socket
  <2>2. CASE buffered = <<>>
    <3>1. UNCHANGED <<topics, buffered, got>> /\ pc' = "serve"
      BY Zenon, <1>13, <2>2 DEF Release
    <3>2. Undisturbed
      BY Zenon, <2>1, <3>1, <1>FlowStays DEF Undisturbed
    <3> QED
      BY Zenon, <1>4, <2>1, <3>1, <3>2
  <2>3. CASE buffered # <<>>
    <3>1. Head(buffered) \in Events /\ Deliver(Head(buffered)) /\ buffered' = Tail(buffered) /\ pc' = "release"
      BY Zenon, <1>0, <1>13, <2>1, <2>3, HeadTypes DEF Release
    <3>2. PICK t \in Topics, m \in Nat :
              Head(buffered) = Event(t, m) /\ Head(buffered).topic = t /\ Head(buffered).n = m
      BY Zenon, <3>1, EventsAre
    <3>3. Delivers(t, m)
      BY Zenon, <1>0, <3>1, <3>2, DeliverIs
    <3>4. First(t, m)
      BY Zenon, <1>0, <2>1, <2>3, <3>1, <3>2, <1>ReleasedFirst
    <3>5. Covered'
      BY Zenon, <1>0, <2>1, <3>1, <3>3, <3>4, <1>CoveredDelivers DEF First
    <3> QED
      BY Zenon, <3>1, <3>5 DEF Answered
  <2> QED
    BY Zenon, <2>2, <2>3
<1>14. CASE CaughtUp
  <2>1. /\ pc = "sync" /\ reply.answered
        /\ UNCHANGED <<tail, publishing, outbox, open, down, buffered, use, status, since>>
    BY Zenon, <1>14 DEF CaughtUp, node, socket
  <2>2. CASE \E e : CatchesUp(e)
    BY Zenon, <1>0, <2>1, <2>2, <1>CatchUpDelivers
  <2>3. CASE reply.events = {} /\ Advances /\ pc' = "release" /\ got' = got
    BY Zenon, <1>0, <2>1, <2>3, <1>CatchUpEnds
  <2> QED
    BY Zenon, <1>0, <1>14, <2>2, <2>3, CaughtUpIs
<1>15. CASE HandleClient \/ AnswerSubscribe \/ SendEvent \/ UNCHANGED watchVars
  <2>1. UNCHANGED <<tail, topics, use, status, since, got, pc, reply, open>>
    BY Zenon, <1>15 DEF HandleClient, AnswerSubscribe, SendEvent, watchVars, node, socket, actor, watchers
  <2>2. SameFlow
    <3>1. CASE HandleClient
      <4>1. UNCHANGED <<publishing, outbox, buffered>> /\ up # <<>>
        BY Zenon, <3>1 DEF HandleClient, actor
      <4>2. CASE down' = down
        BY Zenon, <4>1, <4>2, <1>FlowStays
      <4>3. CASE down' = Append(down, Msg("topic_ok", Head(up).topic, 0))
        <5>1. Head(up) \in Upward
          BY Zenon, <1>0, <4>1, MissTypes, TailPlaces
        <5>2. Msg("topic_ok", Head(up).topic, 0) \in Downward /\ Msg("topic_ok", Head(up).topic, 0).kind = "topic_ok"
          BY Zenon, <5>1 DEF Upward, Downward, Msg
        <5> QED
          BY Zenon, <1>0, <4>1, <4>3, <5>2, <1>FlowAnswers
      <4> QED
        BY Zenon, <3>1, <4>2, <4>3 DEF HandleClient
    <3>2. CASE AnswerSubscribe
      <4>1. /\ UNCHANGED <<publishing, outbox, buffered>> /\ acking # NoTopic
            /\ down' = Append(down, Msg("topic_ok", acking, tail[acking]))
        BY Zenon, <3>2 DEF AnswerSubscribe, actor
      <4>2. acking \in Topics /\ tail[acking] \in Nat
        BY Zenon, <1>0, <4>1 DEF WatchTypeOK, NodeTypeOK
      <4>3. /\ Msg("topic_ok", acking, tail[acking]) \in Downward
            /\ Msg("topic_ok", acking, tail[acking]).kind = "topic_ok"
        BY Zenon, <4>2 DEF Downward, Msg
      <4> QED
        BY Zenon, <1>0, <4>1, <4>3, <1>FlowAnswers
    <3>3. CASE SendEvent
      BY Zenon, <1>0, <3>3, <1>FlowSends DEF SendEvent, actor
    <3>4. CASE UNCHANGED watchVars
      BY Zenon, <3>4, <1>FlowStays DEF watchVars, node, socket, actor
    <3> QED
      BY Zenon, <1>15, <3>1, <3>2, <3>3, <3>4
  <2> QED
    BY Zenon, <1>4, <2>1, <2>2 DEF Undisturbed
<1>16. CASE (\E t \in Topics : Commit(t)) \/ Publish \/ Drop
  <2>1. UNCHANGED <<pc, topics, reply, use, status, since, got>>
    BY Zenon, <1>16 DEF Commit, Publish, Drop, actor, watchers
  <2>2. tail' \in [Topics -> Nat] /\ \A u \in Topics : Carries(u)
    <3>1. CASE \E t \in Topics : Commit(t)
      BY Zenon, <1>0, <3>1, <1>CommitCarries
    <3>2. CASE Publish \/ Drop
      <4>1. tail' = tail
        BY Zenon, <3>2 DEF Publish, Drop
      <4> QED
        BY Zenon, <1>0, <3>2, <4>1, <1>PublishCarries, <1>DropCarries, CoverTypes
    <3> QED
      BY Zenon, <1>16, <3>1, <3>2
  <2> QED
    BY Zenon, <1>0, <2>1, <2>2, <1>CoveredCarries
<1>17. CASE HandleCmd \/ ApplyOffline
  BY Zenon, <1>0, <1>17, <1>CoverCommands
<1>18. CASE SyncAnswer
  BY Zenon, <1>0, <1>18, <1>SyncAnswerKeeps
<1> QED
  BY Zenon, <1>2, <1>3, <1>6, <1>7, <1>8, <1>9, <1>10, <1>11, <1>12, <1>13, <1>14, <1>15, <1>16, <1>17, <1>18
     DEF WatchNext

-----------------------------------------------------------------------------
(* Together. *)

(* The invariant holds at the start, *)
LEMMA MissInit == WatchInit => MissInv
<1>1. SUFFICES ASSUME WatchInit PROVE MissInv
  BY Zenon
<1>2. WatchTypeOK
  BY Zenon, <1>1, WatchInitTypes
<1>3. /\ publishing = <<>> /\ outbox = <<>> /\ up = <<>> /\ down = <<>> /\ buffered = <<>> /\ cmds = <<>>
      /\ ~open /\ registered = {} /\ acking = NoTopic /\ pc = "none" /\ DOMAIN topics = {}
      /\ \A w \in Watches : status[w] = "off"
  BY Zenon, <1>1 DEF WatchInit
<1>4. Quiet
  BY Zenon, <1>3 DEF Quiet, Connected
<1>5. Queues
  BY Zenon, <1>3, EmptyIs DEF Queues, Earlier, Dated
<1>6. Handshake
  <2>1. ASSUME NEW t \in Topics PROVE Asked(t)
    <3>1. acking # t /\ ~Asking(t)
      BY SMTT(30), <1>3, NoTopicIsNone DEF Asking
    <3> QED
      BY Zenon, <1>3, <3>1, EmptyIs DEF Asked
  <2> QED
    BY SMTT(30), <1>3, <2>1 DEF Handshake, Leaving
<1>7. Cursors /\ Known /\ Covered /\ Answered
  BY SMTT(30), <1>3 DEF Cursors, Known, Queued, Covered, Answered
<1> QED
  BY Zenon, <1>2, <1>4, <1>5, <1>6, <1>7 DEF MissInv

(* and implies that nothing is missed. *)
LEMMA MissGives == MissInv => NothingMissed
<1>1. SUFFICES ASSUME MissInv, Settled, NEW w \in Watches, status[w] = "on",
                      NEW n \in since[w] + 1 .. tail[topicOf[w]]
               PROVE  n \in Range(got[w])
  BY Zenon DEF NothingMissed, Delivered
<1>2. Flowing(w, topicOf[w]) /\ open
  BY Zenon, <1>1 DEF MissInv, Covered, Settled
<1>3. Range(publishing) = {} /\ Range(outbox) = {} /\ Range(down) = {} /\ Range(buffered) = {}
  BY Zenon, <1>1, EmptyIs DEF Settled, MissInv, Quiet
<1>4. ~InFlight(topicOf[w], n) /\ ~Unpublished(topicOf[w], n)
  BY Zenon, <1>3 DEF InFlight, Unpublished
<1> QED
  BY Zenon, <1>1, <1>2, <1>4 DEF Flowing, Given

(***************************************************************************)
(* Nothing is missed: whatever sockets break, and in whatever order the    *)
(* node publishes, answers and the actor reads, a connection with nothing  *)
(* outstanding has given every watch every mutation committed since        *)
(* watch() returned (run, resubscribe, sync_once, deliver).  The hypothesis*)
(* excludes a watch of a topic whose Unsubscribe is unanswered: the actor  *)
(* takes the answer to it for the answer to its Subscribe.                 *)
(***************************************************************************)
THEOREM NothingIsMissed ==
    ASSUME "rewatch" \notin WatchHazards PROVE WatchSpec => []NothingMissed
<1>1. MissInv /\ [WatchNext]_watchVars => MissInv'
  <2>1. SUFFICES ASSUME MissInv, [WatchNext]_watchVars PROVE MissInv'
    BY Zenon
  <2>2. WatchTypeOK /\ Quiet /\ Queues /\ Cursors /\ Handshake /\ Known /\ Covered /\ Answered
    BY Zenon, <2>1 DEF MissInv
  <2>3. WatchTypeOK'
    BY Zenon, <2>1, <2>2, WatchTypes
  <2>4. Quiet' /\ Queues' /\ Cursors'
    BY Zenon, <2>1, <2>2, QuietKept, QueuesKept, CursorsKept
  <2>5. Handshake' /\ Known'
    BY Zenon, <2>1, <2>2, HandshakeKept, KnownKept
  <2>6. Covered' /\ Answered'
    BY Zenon, <2>1, CoverKept
  <2> QED
    BY Zenon, <2>3, <2>4, <2>5, <2>6 DEF MissInv
<1> QED
  BY <1>1, MissInit, MissGives, PTL DEF WatchSpec

=============================================================================
