-------------------------- MODULE WatchConnProofs --------------------------
(***************************************************************************)
(* Proofs about WatchConn, for any number of watches, topics, commits and  *)
(* failures: what the actor's steps do, types, and delivery in order.      *)
(***************************************************************************)
EXTENDS WatchConn, TLAPS

-----------------------------------------------------------------------------
(* Delivery in order. *)

(* A watch listens to its own topic, and has been given nothing the        *)
(* topic's cursor has not reached; one the actor has not heard of yet has  *)
(* been given nothing.                                                     *)
Listening ==
    /\ \A t \in DOMAIN topics : \A w \in topics[t].subs :
           /\ topicOf[w] = t /\ status[w] # "off"
           /\ \A k \in DOMAIN got[w] : got[w][k] <= topics[t].cursor
    /\ \A k \in DOMAIN cmds : cmds[k].kind = "subscribe" =>
           /\ got[cmds[k].watch] = <<>> /\ status[cmds[k].watch] # "off"
           /\ \A t \in DOMAIN topics : cmds[k].watch \notin topics[t].subs
           /\ \A j \in DOMAIN cmds : cmds[j] = cmds[k] => j = k
    /\ \A w \in Watches : status[w] = "off" => got[w] = <<>>

OrderInv == WatchTypeOK /\ Listening /\ InOrderOnce

-----------------------------------------------------------------------------
(* Sequences and the table of topics. *)

(* A sequence's places and what is in them. *)
LEMMA Lengths ==
    \A S : \A s \in Seq(S) :
        /\ Len(s) \in Nat /\ DOMAIN s = 1 .. Len(s) /\ (Len(s) = 0 <=> s = <<>>)
        /\ \A i \in 1 .. Len(s) : s[i] \in S
BY SMTT(30)

(* The empty one is one of anything's. *)
LEMMA Empty == \A S : <<>> \in Seq(S)
BY SMTT(30)

(* One more at the end. *)
LEMMA Appends ==
    \A S : \A s \in Seq(S), e \in S :
        /\ Append(s, e) \in Seq(S) /\ Append(s, e) # <<>> /\ Len(Append(s, e)) = Len(s) + 1
        /\ \A i \in 1 .. Len(s) : Append(s, e)[i] = s[i]
        /\ Append(s, e)[Len(s) + 1] = e
BY SMTT(30)

(* One less at its head. *)
LEMMA Tails ==
    \A S : \A s \in Seq(S) : s # <<>> =>
        /\ Head(s) = s[1] /\ Head(s) \in S /\ Tail(s) \in Seq(S) /\ Len(Tail(s)) = Len(s) - 1
        /\ \A i \in 1 .. Len(Tail(s)) : Tail(s)[i] = s[i + 1]
BY SMTT(30)

(* Its first places. *)
LEMMA Prefixes ==
    \A S : \A s \in Seq(S), n \in Nat : n <= Len(s) =>
        /\ SubSeq(s, 1, n) \in Seq(S) /\ Len(SubSeq(s, 1, n)) = n
        /\ \A i \in 1 .. n : SubSeq(s, 1, n)[i] = s[i]
BY SMTT(30)

(* What Append does to a sequence's places. *)
LEMMA AppendPlaces ==
    ASSUME NEW S, NEW s \in Seq(S), NEW e \in S
    PROVE  /\ Append(s, e) \in Seq(S) /\ Append(s, e) # <<>>
           /\ Len(s) \in Nat /\ DOMAIN s = 1 .. Len(s)
           /\ DOMAIN Append(s, e) = 1 .. Len(s) + 1
           /\ \A i \in 1 .. Len(s) : Append(s, e)[i] = s[i]
           /\ Append(s, e)[Len(s) + 1] = e
BY SMTT(30), Appends, Lengths

(* What Tail does to them. *)
LEMMA TailPlaces ==
    ASSUME NEW S, NEW s \in Seq(S), s # <<>>
    PROVE  /\ Tail(s) \in Seq(S) /\ Head(s) \in S /\ Head(s) = s[1]
           /\ Len(s) \in Nat /\ Len(s) >= 1 /\ DOMAIN s = 1 .. Len(s)
           /\ DOMAIN Tail(s) = 1 .. Len(s) - 1
           /\ \A i \in 1 .. Len(s) - 1 : Tail(s)[i] = s[i + 1]
<1>1. /\ Head(s) = s[1] /\ Head(s) \in S /\ Tail(s) \in Seq(S) /\ Len(Tail(s)) = Len(s) - 1
      /\ \A i \in 1 .. Len(Tail(s)) : Tail(s)[i] = s[i + 1]
  BY Zenon, Tails
<1>2. Len(s) \in Nat /\ DOMAIN s = 1 .. Len(s) /\ Len(s) # 0
  BY Zenon, Lengths
<1>3. DOMAIN Tail(s) = 1 .. Len(Tail(s))
  BY Zenon, <1>1, Lengths
<1> QED
  BY SMTT(30), <1>1, <1>2, <1>3

(* What is left of a sequence that is cut. *)
LEMMA PrefixPlaces ==
    ASSUME NEW S, NEW s \in Seq(S), NEW n \in 0 .. Len(s)
    PROVE  /\ SubSeq(s, 1, n) \in Seq(S) /\ Len(s) \in Nat /\ n \in Nat
           /\ DOMAIN s = 1 .. Len(s) /\ DOMAIN SubSeq(s, 1, n) = 1 .. n
           /\ \A i \in 1 .. n : SubSeq(s, 1, n)[i] = s[i]
<1>1. Len(s) \in Nat /\ DOMAIN s = 1 .. Len(s)
  BY Zenon, Lengths
<1>2. n \in Nat /\ n <= Len(s)
  BY SMTT(30), <1>1
<1>3. /\ SubSeq(s, 1, n) \in Seq(S) /\ Len(SubSeq(s, 1, n)) = n
      /\ \A i \in 1 .. n : SubSeq(s, 1, n)[i] = s[i]
  BY Zenon, <1>2, Prefixes
<1>4. DOMAIN SubSeq(s, 1, n) = 1 .. n
  BY Zenon, <1>3, Lengths
<1> QED
  BY Zenon, <1>1, <1>2, <1>3, <1>4

(* An entry put in the table. *)
LEMMA WithEntryIs ==
    ASSUME ActorTypeOK, NEW t \in Topics, NEW state \in TopicStates
    PROVE  /\ DOMAIN WithEntry(t, state) = DOMAIN topics \cup {t}
           /\ DOMAIN WithEntry(t, state) \subseteq Topics
           /\ WithEntry(t, state) \in [DOMAIN WithEntry(t, state) -> TopicStates]
           /\ WithEntry(t, state)[t] = state
           /\ \A u \in DOMAIN topics : u # t => WithEntry(t, state)[u] = topics[u]
<1>1. DOMAIN topics \subseteq Topics
          /\ topics \in [DOMAIN topics -> TopicStates]
  BY Zenon DEF ActorTypeOK
<1>2. DOMAIN WithEntry(t, state) = DOMAIN topics \cup {t}
  BY Zenon DEF WithEntry
<1>4. WithEntry(t, state) \in [DOMAIN topics \cup {t} -> TopicStates]
  BY Zenon, <1>1 DEF WithEntry
<1> QED
  BY Zenon, <1>1, <1>2, <1>4 DEF WithEntry

(* An entry taken from it. *)
LEMMA WithoutEntryIs ==
    ASSUME ActorTypeOK, NEW t
    PROVE  /\ DOMAIN WithoutEntry(t) = DOMAIN topics \ {t}
           /\ DOMAIN WithoutEntry(t) \subseteq Topics
           /\ WithoutEntry(t) \in [DOMAIN WithoutEntry(t) -> TopicStates]
           /\ \A u \in DOMAIN topics \ {t} : WithoutEntry(t)[u] = topics[u]
<1>1. DOMAIN topics \subseteq Topics
          /\ topics \in [DOMAIN topics -> TopicStates]
  BY Zenon DEF ActorTypeOK
<1>2. DOMAIN WithoutEntry(t) = DOMAIN topics \ {t}
  BY Zenon DEF WithoutEntry
<1>4. WithoutEntry(t) \in [DOMAIN topics \ {t} -> TopicStates]
  BY Zenon, <1>1 DEF WithoutEntry
<1> QED
  BY Zenon, <1>1, <1>2, <1>4 DEF WithoutEntry

(* An entry that may not be there yet. *)
LEMMA EntryIs ==
    ASSUME ActorTypeOK, NEW t \in Topics
    PROVE  /\ Entry(t) \in TopicStates
           /\ t \in DOMAIN topics => Entry(t) = topics[t]
           /\ t \notin DOMAIN topics =>
                  /\ ~Entry(t).live /\ Entry(t).subs = {} /\ Entry(t).pending = {}
                  /\ Entry(t).cursor = NoCursor
<1>1. Fresh \in TopicStates
  BY Zenon DEF Fresh, TopicStates
<1>2. topics \in [DOMAIN topics -> TopicStates]
  BY Zenon DEF ActorTypeOK
<1> QED
  BY Zenon, <1>1, <1>2 DEF Entry, Fresh

(* Every watch has a topic. *)
LEMMA TopicOfWatch ==
    ASSUME WatchersTypeOK PROVE topicOf \in [Watches -> Topics]
BY Zenon, WatchesHaveTopics DEF WatchersTypeOK, topicOf

-----------------------------------------------------------------------------
(* What the actor's steps do to the table, the watches and the socket. *)

(* The table is one. *)
Table(f) ==
    /\ DOMAIN f \subseteq Topics /\ f \in [DOMAIN f -> TopicStates]

(* The entry of t is written, and no other. *)
Edited(t, live, subs, pending, cursor) ==
    /\ Table(topics')
    /\ DOMAIN topics' = DOMAIN topics \cup {t}
    /\ topics'[t].live = live /\ topics'[t].subs = subs
    /\ topics'[t].pending = pending /\ topics'[t].cursor = cursor
    /\ \A u \in DOMAIN topics : u # t => topics'[u] = topics[u]

(* The entry of t is removed. *)
Removed(t) ==
    /\ Table(topics')
    /\ DOMAIN topics' = DOMAIN topics \ {t}
    /\ \A u \in DOMAIN topics : u # t => topics'[u] = topics[u]

(* The watches of ws that wait return, and no other changes. *)
Returned(ws) ==
    /\ use' = use /\ got' = got
    /\ status' \in [Watches -> {"off", "asked", "on", "done", "cancelled", "failed", "ended"}]
    /\ since' \in [Watches -> Nat]
    /\ \A w \in Watches :
           IF w \in ws /\ status[w] = "asked"
           THEN status'[w] = "on" /\ since'[w] = tail[topicOf[w]]
           ELSE status'[w] = status[w] /\ since'[w] = since[w]

(* Return, watch by watch. *)
LEMMA ReturnIs ==
    ASSUME WatchTypeOK, NEW ws, Return(ws) PROVE Returned(ws)
<1>1. topicOf \in [Watches -> Topics] /\ tail \in [Topics -> Nat]
  BY Zenon, TopicOfWatch DEF WatchTypeOK, NodeTypeOK
<1>2. /\ status \in [Watches -> {"off", "asked", "on", "done", "cancelled", "failed", "ended"}]
      /\ since \in [Watches -> Nat]
  BY Zenon DEF WatchTypeOK, WatchersTypeOK
<1>3. \A w \in Watches : tail[topicOf[w]] \in Nat
  BY Zenon, <1>1
<1>4. status' \in [Watches -> {"off", "asked", "on", "done", "cancelled", "failed", "ended"}]
  BY Zenon, <1>2 DEF Return
<1>5. since' \in [Watches -> Nat]
  BY Zenon, <1>2, <1>3 DEF Return
<1> QED
  BY Zenon, <1>4, <1>5 DEF Return, Returned

(* An entry of the table changed in some of its fields. *)
Is(state, live, subs, pending, c) ==
    /\ state \in TopicStates
    /\ state.live = live /\ state.subs = subs /\ state.pending = pending /\ state.cursor = c

(* The four ways the commands write an entry. *)
LEMMA EntryEdits ==
    ASSUME NEW s \in TopicStates, NEW w \in Watches
    PROVE  /\ Is([s EXCEPT !.subs = @ \cup {w}], s.live, s.subs \cup {w}, s.pending, s.cursor)
           /\ Is([[s EXCEPT !.subs = @ \cup {w}] EXCEPT !.pending = @ \cup {w}],
                 s.live, s.subs \cup {w}, s.pending \cup {w}, s.cursor)
           /\ Is([s EXCEPT !.subs = @ \cup {w}, !.live = FALSE, !.pending = @ \cup {w}],
                 FALSE, s.subs \cup {w}, s.pending \cup {w}, s.cursor)
           /\ Is([s EXCEPT !.subs = @ \ {w}], s.live, s.subs \ {w}, s.pending, s.cursor)
<1>1. PICK more, less, wait : more = s.subs \cup {w} /\ less = s.subs \ {w} /\ wait = s.pending \cup {w}
  BY Zenon
<1>2. more \in SUBSET Watches /\ less \in SUBSET Watches /\ wait \in SUBSET Watches
  BY Zenon, <1>1 DEF TopicStates
<1>3. Is([s EXCEPT !.subs = more], s.live, more, s.pending, s.cursor)
  BY Zenon, <1>2 DEF Is, TopicStates
<1>4. Is([s EXCEPT !.subs = less], s.live, less, s.pending, s.cursor)
  BY Zenon, <1>2 DEF Is, TopicStates
<1>5. Is([s EXCEPT !.subs = more, !.live = FALSE, !.pending = wait], FALSE, more, wait, s.cursor)
  BY Zenon, <1>2 DEF Is, TopicStates
<1>6. PICK j : j = [s EXCEPT !.subs = more]
  BY Zenon
<1>7. Is([j EXCEPT !.pending = wait], s.live, more, wait, s.cursor)
  BY Zenon, <1>2, <1>3, <1>6 DEF Is, TopicStates
<1>8. j.pending = s.pending
  BY Zenon, <1>3, <1>6 DEF Is
<1> QED
  BY Zenon, <1>1, <1>3, <1>4, <1>5, <1>6, <1>7, <1>8

(* An entry that is written is the only change of the table. *)
LEMMA EditIs ==
    ASSUME ActorTypeOK, NEW t \in Topics, NEW state, NEW live, NEW subs, NEW pending, NEW c,
           Is(state, live, subs, pending, c), topics' = WithEntry(t, state)
    PROVE  Edited(t, live, subs, pending, c)
<1>1. state \in TopicStates
  BY Zenon DEF Is
<1>2. Table(WithEntry(t, state))
  BY Zenon, <1>1, WithEntryIs DEF Table
<1>3. PICK f : f = WithEntry(t, state)
  BY Zenon
<1>4. /\ DOMAIN f = DOMAIN topics \cup {t} /\ f[t] = state
      /\ \A u \in DOMAIN topics : u # t => f[u] = topics[u]
  <2>1. /\ DOMAIN WithEntry(t, state) = DOMAIN topics \cup {t} /\ WithEntry(t, state)[t] = state
        /\ \A u \in DOMAIN topics : u # t => WithEntry(t, state)[u] = topics[u]
    BY Zenon, <1>1, WithEntryIs
  <2> QED
    BY Zenon, <1>3, <2>1
<1>5. topics' = f /\ Table(f)
  BY Zenon, <1>2, <1>3
<1> QED
  BY Zenon, <1>4, <1>5 DEF Edited, Is

(* The forms of handle_cmd: a watch joins a live topic, or waits for the   *)
(* topic's acknowledgement, which the first to wait asks for;              *)
CmdJoins(w, t) ==
    /\ Head(cmds).kind = "subscribe"
    /\ t \in DOMAIN topics /\ topics[t].live
    /\ Edited(t, TRUE, topics[t].subs \cup {w}, topics[t].pending, topics[t].cursor)
    /\ Returned({w}) /\ up' = up

CmdAsks(w, t) ==
    /\ Head(cmds).kind = "subscribe"
    /\ ~Entry(t).live
    /\ Edited(t, FALSE, Entry(t).subs \cup {w}, Entry(t).pending \cup {w}, Entry(t).cursor)
    /\ up' = IF Entry(t).pending = {} THEN Append(up, Msg("subscribe", t, 0)) ELSE up
    /\ UNCHANGED watchers

(* one leaves a topic others keep, or the last leaves it.                  *)
CmdLeaves(w, t) ==
    /\ Head(cmds).kind = "unsubscribe"
    /\ t \in DOMAIN topics
    /\ Edited(t, topics[t].live, topics[t].subs \ {w}, topics[t].pending, topics[t].cursor)
    /\ up' = up /\ UNCHANGED watchers

CmdCloses(w, t) ==
    /\ Head(cmds).kind = "unsubscribe"
    /\ t \in DOMAIN topics /\ topics[t].subs \subseteq {w} /\ topics[t].pending = {}
    /\ Removed(t)
    /\ up' = Append(up, Msg("unsubscribe", t, 0)) /\ UNCHANGED watchers

CmdIdles(w, t) ==
    /\ Head(cmds).kind = "unsubscribe"
    /\ t \notin DOMAIN topics
    /\ UNCHANGED <<topics, up, watchers>>

(* handle_cmd has one of those forms. *)
LEMMA HandleCmdIs ==
    ASSUME WatchTypeOK, HandleCmd
    PROVE  /\ cmds # <<>> /\ cmds' = Tail(cmds) /\ Head(cmds).watch \in Watches
           /\ topicOf[Head(cmds).watch] \in Topics
           /\ \E w \in Watches, t \in Topics :
                  /\ w = Head(cmds).watch /\ t = topicOf[w]
                  /\ \/ CmdJoins(w, t) \/ CmdAsks(w, t) \/ CmdLeaves(w, t)
                     \/ CmdCloses(w, t) \/ CmdIdles(w, t)
<1>1. cmds # <<>> /\ cmds' = Tail(cmds)
  BY Zenon DEF HandleCmd
<1>2. Head(cmds) \in [kind : {"subscribe", "unsubscribe"}, watch : Watches]
  BY Zenon, <1>1, TailPlaces DEF WatchTypeOK, ActorTypeOK
<1>3. PICK w \in Watches : w = Head(cmds).watch
  BY Zenon, <1>2
<1>4. PICK t \in Topics : t = topicOf[w]
  BY Zenon, <1>3, TopicOfWatch DEF WatchTypeOK
<1>5. PICK state \in TopicStates : state = Entry(t)
  BY Zenon, EntryIs DEF WatchTypeOK
<1>6. ActorTypeOK /\ (t \in DOMAIN topics => state = topics[t])
          /\ (t \notin DOMAIN topics => ~state.live)
  BY Zenon, <1>5, EntryIs DEF WatchTypeOK
<1>7. CASE Head(cmds).kind = "subscribe" /\ state.live
  <2>1. topics' = WithEntry(t, [state EXCEPT !.subs = @ \cup {w}]) /\ Return({w}) /\ up' = up
    BY Zenon, <1>3, <1>4, <1>5, <1>7 DEF HandleCmd
  <2>2. state.live = TRUE
    BY Zenon, <1>7 DEF TopicStates
  <2>3. Edited(t, TRUE, state.subs \cup {w}, state.pending, state.cursor)
    BY Zenon, <1>6, <2>1, <2>2, EntryEdits, EditIs
  <2>4. CmdJoins(w, t)
    BY Zenon, <1>6, <1>7, <2>1, <2>3, ReturnIs DEF CmdJoins
  <2> QED
    BY Zenon, <1>1, <1>3, <1>4, <2>4
<1>8. CASE Head(cmds).kind = "subscribe" /\ ~state.live
  <2>1. /\ topics' = WithEntry(t, [[state EXCEPT !.subs = @ \cup {w}] EXCEPT !.pending = @ \cup {w}])
        /\ up' = IF state.pending = {} THEN Append(up, Msg("subscribe", t, 0)) ELSE up
        /\ UNCHANGED watchers
    BY Zenon, <1>3, <1>4, <1>5, <1>8 DEF HandleCmd
  <2>2. state.live = FALSE
    BY Zenon, <1>8 DEF TopicStates
  <2>4. Edited(t, FALSE, state.subs \cup {w}, state.pending \cup {w}, state.cursor)
    BY Zenon, <1>6, <2>1, <2>2, EntryEdits, EditIs
  <2>5. CmdAsks(w, t)
    BY Zenon, <1>5, <1>8, <2>1, <2>4 DEF CmdAsks
  <2> QED
    BY Zenon, <1>1, <1>3, <1>4, <2>5
<1>9. CASE Head(cmds).kind = "unsubscribe"
  <2>1. PICK left : left = [state EXCEPT !.subs = @ \ {w}]
    BY Zenon
  <2>2. Is(left, state.live, state.subs \ {w}, state.pending, state.cursor)
    BY Zenon, <2>1, EntryEdits
  <2>3. /\ UNCHANGED watchers
        /\ IF t \in DOMAIN topics /\ left.subs = {} /\ left.pending = {}
           THEN topics' = WithoutEntry(t) /\ up' = Append(up, Msg("unsubscribe", t, 0))
           ELSE /\ topics' = IF t \in DOMAIN topics THEN WithEntry(t, left) ELSE topics
                /\ up' = up
    BY Zenon, <1>3, <1>4, <1>5, <1>9, <2>1 DEF HandleCmd
  <2>4. CASE t \in DOMAIN topics /\ left.subs = {} /\ left.pending = {}
    <3>1. Removed(t)
      <4>1. topics' = WithoutEntry(t)
        BY Zenon, <2>3, <2>4
      <4> QED
        BY Zenon, <1>6, <4>1, WithoutEntryIs DEF Removed, Table
    <3>2. CmdCloses(w, t)
      BY Zenon, <1>6, <1>9, <2>2, <2>3, <2>4, <3>1 DEF CmdCloses, Is
    <3> QED
      BY Zenon, <1>1, <1>3, <1>4, <3>2
  <2>5. CASE t \in DOMAIN topics /\ ~(left.subs = {} /\ left.pending = {})
    <3>1. topics' = WithEntry(t, left) /\ up' = up
      BY Zenon, <2>3, <2>5
    <3>2. Edited(t, state.live, state.subs \ {w}, state.pending, state.cursor)
      BY Zenon, <1>6, <2>2, <3>1, EntryEdits, EditIs
    <3>3. CmdLeaves(w, t)
      BY Zenon, <1>6, <1>9, <2>3, <2>5, <3>1, <3>2 DEF CmdLeaves
    <3> QED
      BY Zenon, <1>1, <1>3, <1>4, <3>3
  <2>6. CASE t \notin DOMAIN topics
    <3>1. CmdIdles(w, t)
      BY Zenon, <1>9, <2>3, <2>6 DEF CmdIdles
    <3> QED
      BY Zenon, <1>1, <1>3, <1>4, <3>1
  <2> QED
    BY Zenon, <2>4, <2>5, <2>6
<1> QED
  BY Zenon, <1>2, <1>7, <1>8, <1>9

(* The forms of ack_topic and deliver. *)
Acks(t, n) ==
    \/ t \notin DOMAIN topics /\ UNCHANGED <<topics, watchers>>
    \/ /\ t \in DOMAIN topics
       /\ Edited(t, TRUE, topics[t].subs, {},
                 IF topics[t].cursor = NoCursor THEN n ELSE topics[t].cursor)
       /\ Returned(topics[t].pending)

(* ack_topic has that form. *)
LEMMA AckIs ==
    ASSUME WatchTypeOK, NEW t \in Topics, NEW n \in Nat, AckTopic(t, n) PROVE Acks(t, n)
<1>1. CASE t \notin DOMAIN topics
  BY Zenon, <1>1 DEF AckTopic, Acks
<1>2. CASE t \in DOMAIN topics
  <2>1. DOMAIN topics \subseteq Topics
            /\ topics \in [DOMAIN topics -> TopicStates]
    BY Zenon DEF WatchTypeOK, ActorTypeOK
  <2>2. PICK s \in TopicStates : s = topics[t]
    BY Zenon, <1>2, <2>1
  <2>3. PICK c : c = IF s.cursor = NoCursor THEN n ELSE s.cursor
    BY Zenon
  <2>4. c \in Nat \cup {NoCursor}
    BY Zenon, <2>3 DEF TopicStates
  <2>5. PICK state : state = [s EXCEPT !.live = TRUE, !.pending = {}, !.cursor = c]
    BY Zenon
  <2>6. Is(state, TRUE, s.subs, {}, c)
    BY Zenon, <2>4, <2>5 DEF Is, TopicStates
  <2>7. topics' = [topics EXCEPT ![t] = state]
    BY Zenon, <1>2, <2>1, <2>2, <2>3, <2>5 DEF AckTopic
  <2>8. Edited(t, TRUE, s.subs, {}, c)
    <3>1. DOMAIN topics' = DOMAIN topics /\ topics'[t] = state
              /\ \A u \in DOMAIN topics : u # t => topics'[u] = topics[u]
      BY Zenon, <1>2, <2>1, <2>7
    <3>2. topics' \in [DOMAIN topics -> TopicStates]
      BY Zenon, <2>1, <2>6, <2>7 DEF Is
    <3>3. Table(topics')
      BY Zenon, <2>1, <3>1, <3>2 DEF Table
    <3>4. DOMAIN topics \cup {t} = DOMAIN topics
      BY Zenon, <1>2
    <3> QED
      BY Zenon, <2>6, <3>1, <3>3, <3>4 DEF Edited, Is
  <2>9. Returned(topics[t].pending)
    BY Zenon, <1>2, ReturnIs DEF AckTopic
  <2> QED
    BY Zenon, <1>2, <2>2, <2>3, <2>8, <2>9 DEF Acks
<1> QED
  BY Zenon, <1>1, <1>2

Delivers(t, n) ==
    \/ (t \in DOMAIN topics => n <= topics[t].cursor) /\ UNCHANGED <<topics, got>>
    \/ /\ t \in DOMAIN topics /\ n > topics[t].cursor
       /\ Edited(t, topics[t].live, {w \in topics[t].subs : Alive(w)}, topics[t].pending, n)
       /\ got' \in [Watches -> Seq(Nat)]
       /\ \A w \in Watches :
              got'[w] = IF w \in topics[t].subs /\ Alive(w) THEN Append(got[w], n) ELSE got[w]

(* deliver has that form. *)
LEMMA DeliverIs ==
    ASSUME WatchTypeOK, NEW e \in Events, Deliver(e) PROVE Delivers(e.topic, e.n)
<1>1. PICK t \in Topics, n \in Nat : t = e.topic /\ n = e.n
  BY Zenon DEF Events
<1>2. DOMAIN topics \subseteq Topics
          /\ topics \in [DOMAIN topics -> TopicStates]
  BY Zenon DEF WatchTypeOK, ActorTypeOK
<1>3. CASE ~FreshEvent(e)
  <2>1. t \in DOMAIN topics => topics[t].cursor \in Int
    BY SMTT(30), <1>2 DEF TopicStates, NoCursor
  <2>2. t \in DOMAIN topics => n <= topics[t].cursor
    BY SMTT(30), <1>1, <1>3, <2>1 DEF FreshEvent
  <2>3. UNCHANGED <<topics, got>>
    BY Zenon, <1>3 DEF Deliver
  <2> QED
    BY Zenon, <1>1, <2>2, <2>3 DEF Delivers
<1>4. CASE FreshEvent(e)
  <2>1. t \in DOMAIN topics /\ n > topics[t].cursor
    BY Zenon, <1>1, <1>4 DEF FreshEvent
  <2>2. PICK s \in TopicStates : s = topics[t]
    BY Zenon, <1>2, <2>1
  <2>3. PICK listening : listening = {w \in s.subs : Alive(w)}
    BY Zenon
  <2>4. listening \in SUBSET Watches
    BY Zenon, <2>3 DEF TopicStates
  <2>5. PICK state : state = [s EXCEPT !.cursor = n, !.subs = listening]
    BY Zenon
  <2>6. Is(state, s.live, listening, s.pending, n)
    BY Zenon, <2>4, <2>5 DEF Is, TopicStates
  <2>7. topics' = [topics EXCEPT ![t] = state]
    BY Zenon, <1>1, <1>2, <1>4, <2>1, <2>2, <2>3, <2>5 DEF Deliver
  <2>8. Edited(t, s.live, listening, s.pending, n)
    <3>1. DOMAIN topics' = DOMAIN topics /\ topics'[t] = state
              /\ \A u \in DOMAIN topics : u # t => topics'[u] = topics[u]
      BY Zenon, <1>2, <2>1, <2>7
    <3>2. topics' \in [DOMAIN topics -> TopicStates]
      BY Zenon, <1>2, <2>6, <2>7 DEF Is
    <3>3. Table(topics')
      BY Zenon, <1>2, <3>1, <3>2 DEF Table
    <3>4. DOMAIN topics \cup {t} = DOMAIN topics
      BY Zenon, <2>1
    <3> QED
      BY Zenon, <2>6, <3>1, <3>3, <3>4 DEF Edited, Is
  <2>9. got' = [w \in Watches |-> IF w \in listening THEN Append(got[w], n) ELSE got[w]]
    BY Zenon, <1>1, <1>4, <2>2, <2>3 DEF Deliver
  <2>10. \A w \in Watches : got[w] \in Seq(Nat) /\ Append(got[w], n) \in Seq(Nat)
    BY Zenon, Appends DEF WatchTypeOK, WatchersTypeOK
  <2>11. got' \in [Watches -> Seq(Nat)]
    BY Zenon, <2>9, <2>10
  <2>12. \A w \in Watches :
            got'[w] = IF w \in topics[t].subs /\ Alive(w) THEN Append(got[w], n) ELSE got[w]
    BY Zenon, <2>2, <2>3, <2>9
  <2> QED
    BY Zenon, <1>1, <2>1, <2>2, <2>3, <2>8, <2>11, <2>12 DEF Delivers
<1> QED
  BY Zenon, <1>3, <1>4

(* The forms of apply_offline. *)
OffJoins(w, t) ==
    /\ Head(cmds).kind = "subscribe"
    /\ Edited(t, FALSE, Entry(t).subs \cup {w}, Entry(t).pending \cup {w}, Entry(t).cursor)

OffLeaves(w, t) ==
    /\ Head(cmds).kind = "unsubscribe"
    /\ t \in DOMAIN topics
    /\ Edited(t, topics[t].live, topics[t].subs \ {w}, topics[t].pending, topics[t].cursor)

OffCloses(w, t) ==
    /\ Head(cmds).kind = "unsubscribe"
    /\ t \in DOMAIN topics /\ topics[t].subs \subseteq {w} /\ topics[t].pending = {}
    /\ Removed(t)

OffIdles(w, t) ==
    /\ Head(cmds).kind = "unsubscribe"
    /\ t \notin DOMAIN topics
    /\ topics' = topics

(* apply_offline has one of those forms. *)
LEMMA ApplyOfflineIs ==
    ASSUME WatchTypeOK, ApplyOffline
    PROVE  /\ cmds # <<>> /\ cmds' = Tail(cmds) /\ Head(cmds).watch \in Watches
           /\ \E w \in Watches, t \in Topics :
                  /\ w = Head(cmds).watch /\ t = topicOf[w]
                  /\ OffJoins(w, t) \/ OffLeaves(w, t) \/ OffCloses(w, t) \/ OffIdles(w, t)
<1>1. cmds # <<>> /\ cmds' = Tail(cmds)
  BY Zenon DEF ApplyOffline
<1>2. Head(cmds) \in [kind : {"subscribe", "unsubscribe"}, watch : Watches]
  BY Zenon, <1>1, TailPlaces DEF WatchTypeOK, ActorTypeOK
<1>3. PICK w \in Watches : w = Head(cmds).watch
  BY Zenon, <1>2
<1>4. PICK t \in Topics : t = topicOf[w]
  BY Zenon, <1>3, TopicOfWatch DEF WatchTypeOK
<1>5. PICK state \in TopicStates : state = Entry(t)
  BY Zenon, EntryIs DEF WatchTypeOK
<1>6. ActorTypeOK /\ (t \in DOMAIN topics => state = topics[t])
  BY Zenon, <1>5, EntryIs DEF WatchTypeOK
<1>7. CASE Head(cmds).kind = "subscribe"
  <2>1. topics' = WithEntry(t, [state EXCEPT !.subs = @ \cup {w}, !.live = FALSE,
                                             !.pending = @ \cup {w}])
    BY Zenon, <1>3, <1>4, <1>5, <1>7 DEF ApplyOffline
  <2>2. Edited(t, FALSE, state.subs \cup {w}, state.pending \cup {w}, state.cursor)
    BY Zenon, <1>6, <2>1, EntryEdits, EditIs
  <2>3. OffJoins(w, t)
    BY Zenon, <1>5, <1>7, <2>2 DEF OffJoins
  <2> QED
    BY Zenon, <1>1, <1>3, <1>4, <2>3
<1>8. CASE Head(cmds).kind = "unsubscribe"
  <2>1. PICK left : left = [state EXCEPT !.subs = @ \ {w}]
    BY Zenon
  <2>2. Is(left, state.live, state.subs \ {w}, state.pending, state.cursor)
    BY Zenon, <2>1, EntryEdits
  <2>3. CASE t \notin DOMAIN topics
    <3>1. topics' = topics
      BY Zenon, <1>3, <1>4, <1>8, <2>3 DEF ApplyOffline
    <3> QED
      BY Zenon, <1>1, <1>3, <1>4, <1>8, <2>3, <3>1 DEF OffIdles
  <2>4. CASE t \in DOMAIN topics
    <3>1. topics' = IF left.subs = {} /\ left.pending = {}
                    THEN WithoutEntry(t) ELSE WithEntry(t, left)
      BY Zenon, <1>3, <1>4, <1>5, <1>8, <2>1, <2>4 DEF ApplyOffline
    <3>2. CASE left.subs = {} /\ left.pending = {}
      <4>1. topics' = WithoutEntry(t)
        BY Zenon, <3>1, <3>2
      <4>2. Removed(t)
        BY Zenon, <1>6, <4>1, WithoutEntryIs DEF Removed, Table
      <4>3. OffCloses(w, t)
        BY Zenon, <1>6, <1>8, <2>2, <2>4, <3>2, <4>2 DEF OffCloses, Is
      <4> QED
        BY Zenon, <1>1, <1>3, <1>4, <4>3
    <3>3. CASE ~(left.subs = {} /\ left.pending = {})
      <4>1. topics' = WithEntry(t, left)
        BY Zenon, <3>1, <3>3
      <4>2. Edited(t, state.live, state.subs \ {w}, state.pending, state.cursor)
        BY Zenon, <1>6, <2>2, <4>1, EditIs
      <4>3. OffLeaves(w, t)
        BY Zenon, <1>6, <1>8, <2>4, <4>2 DEF OffLeaves
      <4> QED
        BY Zenon, <1>1, <1>3, <1>4, <4>3
    <3> QED
      BY Zenon, <3>2, <3>3
  <2> QED
    BY Zenon, <2>3, <2>4
<1> QED
  BY Zenon, <1>2, <1>7, <1>8

Commands == [kind : {"subscribe", "unsubscribe"}, watch : Watches]

Upward == [kind : {"subscribe", "unsubscribe"}, topic : Topics, n : {0}]

Downward == [kind : {"event", "topic_ok"}, topic : Topics, n : Nat]

-----------------------------------------------------------------------------
(* Types. *)

(* The messages are of their types. *)
LEMMA MsgTypes ==
    ASSUME NEW t \in Topics, NEW n \in Nat
    PROVE  /\ Msg("event", t, n) \in Events /\ Msg("topic_ok", t, n) \in Downward
           /\ Msg("subscribe", t, 0) \in Upward /\ Msg("unsubscribe", t, 0) \in Upward
           /\ Events \subseteq Downward
BY Zenon DEF Msg, Events, Downward, Upward

(* A new socket: every topic keeps its listeners, none is live. *)
Reopens ==
    /\ Table(topics') /\ DOMAIN topics' = DOMAIN topics
    /\ \A t \in DOMAIN topics :
           /\ ~topics'[t].live /\ topics'[t].subs = topics[t].subs
           /\ topics'[t].pending = topics[t].pending /\ topics'[t].cursor = topics[t].cursor
    /\ up' \in Seq(Upward)
    /\ \A k \in DOMAIN up' : \E t \in DOMAIN topics : up'[k] = Msg("subscribe", t, 0)
    /\ \A j, k \in DOMAIN up' : up'[j] = up'[k] => j = k

(* open serves, or subscribes every topic again. *)
LEMMA HelloOkIs ==
    ASSUME WatchTypeOK, HelloOk
    PROVE  \/ pc = "dial" /\ pc' = "serve" /\ UNCHANGED <<topics, up>>
           \/ pc = "hello" /\ pc' = "resub" /\ Reopens

(* Topics are subscribed again, each once. *)
<1>OrdersAre.
      ASSUME ActorTypeOK, NEW order \in Orders(DOMAIN topics), NEW msgs,
             msgs = [k \in DOMAIN order |-> Msg("subscribe", order[k], 0)]
      PROVE  /\ msgs \in Seq(Upward)
             /\ \A k \in DOMAIN msgs : \E t \in DOMAIN topics : msgs[k] = Msg("subscribe", t, 0)
             /\ \A j, k \in DOMAIN msgs : msgs[j] = msgs[k] => j = k
  <2> USE <1>OrdersAre
  <2>0. order \in Seq(DOMAIN topics) /\ IsInjective(order)
    BY Zenon DEF Orders
  <2>1. PICK m \in Nat : m = Len(order) /\ DOMAIN order = 1 .. m
    BY Zenon, <2>0, Lengths
  <2>2. order \in [1 .. m -> DOMAIN topics] /\ IsInjective(order)
    BY SMTT(30), <2>0, <2>1
  <2>3. DOMAIN topics \subseteq Topics
    BY Zenon DEF ActorTypeOK
  <2>4. \A k \in 1 .. m : Msg("subscribe", order[k], 0) \in Upward
    BY Zenon, <2>2, <2>3 DEF Msg, Upward
  <2>5. msgs \in [1 .. m -> Upward]
    BY Zenon, <2>2, <2>4
  <2>6. msgs \in Seq(Upward)
    BY SMTT(30), <2>5
  <2>7. \A k \in DOMAIN msgs : \E t \in DOMAIN topics : msgs[k] = Msg("subscribe", t, 0)
    BY Zenon, <2>2
  <2>8. ASSUME NEW j \in DOMAIN msgs, NEW k \in DOMAIN msgs, msgs[j] = msgs[k] PROVE j = k
    <3>1. order[j] = order[k]
      BY Zenon, <2>8 DEF Msg
    <3> QED
      BY Zenon, <2>2, <3>1 DEF IsInjective
  <2> QED
    BY Zenon, <2>6, <2>7, <2>8
<1>1. CASE pc = "dial"
  BY Zenon, <1>1 DEF HelloOk
<1>2. CASE pc # "dial"
  <2>1. /\ pc = "hello" /\ pc' = "resub"
        /\ topics' = [t \in DOMAIN topics |-> [topics[t] EXCEPT !.live = FALSE]]
    BY Zenon, <1>2 DEF HelloOk
  <2>2. PICK order \in Orders(DOMAIN topics) :
            up' = [k \in DOMAIN order |-> Msg("subscribe", order[k], 0)]
    BY Zenon, <1>2 DEF HelloOk
  <2>3. /\ up' \in Seq(Upward)
        /\ \A k \in DOMAIN up' : \E t \in DOMAIN topics : up'[k] = Msg("subscribe", t, 0)
        /\ \A j, k \in DOMAIN up' : up'[j] = up'[k] => j = k
    <3>1. PICK msgs : msgs = [k \in DOMAIN order |-> Msg("subscribe", order[k], 0)]
      BY Zenon
    <3>2. /\ msgs \in Seq(Upward)
          /\ \A k \in DOMAIN msgs : \E t \in DOMAIN topics : msgs[k] = Msg("subscribe", t, 0)
          /\ \A j, k \in DOMAIN msgs : msgs[j] = msgs[k] => j = k
      <4>1. ActorTypeOK
        BY Zenon DEF WatchTypeOK
      <4> QED
        BY SMTT(30), <3>1, <4>1, <1>OrdersAre
    <3>3. up' = msgs
      BY Zenon, <2>2, <3>1
    <3> QED
      BY Zenon, <3>2, <3>3
  <2>4. topics \in [DOMAIN topics -> TopicStates]
            /\ DOMAIN topics \subseteq Topics
    BY Zenon DEF WatchTypeOK, ActorTypeOK
  <2>5. ASSUME NEW s \in TopicStates
        PROVE  Is([s EXCEPT !.live = FALSE], FALSE, s.subs, s.pending, s.cursor)
    BY Zenon DEF Is, TopicStates
  <2>6. DOMAIN topics' = DOMAIN topics
            /\ \A t \in DOMAIN topics : topics'[t] = [topics[t] EXCEPT !.live = FALSE]
    BY Zenon, <2>1
  <2>7. \A t \in DOMAIN topics :
            Is(topics'[t], FALSE, topics[t].subs, topics[t].pending, topics[t].cursor)
    BY Zenon, <2>4, <2>5, <2>6
  <2>8. topics' \in [DOMAIN topics -> TopicStates]
    <3>1. \A s \in TopicStates : [s EXCEPT !.live = FALSE] \in TopicStates
      BY Zenon, <2>5 DEF Is
    <3> QED
      BY Zenon, <2>1, <2>4, <3>1
  <2>9. Table(topics')
    BY Zenon, <2>4, <2>6, <2>8 DEF Table
  <2> QED
    BY Zenon, <2>1, <2>3, <2>6, <2>7, <2>9 DEF Reopens, Is
<1> QED
  BY Zenon, <1>1, <1>2

(* The cursors take those of the answer. *)
Advances ==
    /\ Table(topics') /\ DOMAIN topics' = DOMAIN topics
    /\ \A t \in DOMAIN topics :
           /\ topics'[t].live = topics[t].live /\ topics'[t].subs = topics[t].subs
           /\ topics'[t].pending = topics[t].pending
           /\ topics'[t].cursor = IF topics[t].cursor < reply.cursors[t] THEN reply.cursors[t]
                                  ELSE topics[t].cursor

CatchesUp(e) ==
    /\ e \in reply.events /\ e \in Events
    /\ \A d \in reply.events : d.topic = e.topic => e.n <= d.n
    /\ Delivers(e.topic, e.n)
    /\ reply'.answered /\ reply'.cursors = reply.cursors /\ reply'.events = reply.events \ {e}
    /\ reply' \in [answered : {TRUE}, cursors : [DOMAIN topics -> Nat], events : SUBSET Events]
    /\ pc' = "sync"

(* The catch-up delivers an event of the answer, or ends. *)
LEMMA CaughtUpIs ==
    ASSUME WatchTypeOK, CaughtUp
    PROVE  /\ pc = "sync" /\ reply \in Replies
           /\ \/ \E e : CatchesUp(e)
              \/ /\ reply.events = {} /\ Advances
                 /\ pc' = "release" /\ reply' = NoReply /\ got' = got
<1>1. pc = "sync" /\ reply.answered
  BY Zenon DEF CaughtUp
<1>2. reply \in [answered : {TRUE}, cursors : [DOMAIN topics -> Nat], events : SUBSET Events]
  <2>1. reply # NoReply
    BY SMTT(30), <1>1 DEF NoReply
  <2>2. reply \in Replies
    BY Zenon, <2>1 DEF WatchTypeOK, ActorTypeOK
  <2> QED
    BY Zenon, <2>2 DEF Replies
<1>3. CASE \E e \in reply.events :
              /\ \A d \in reply.events : d.topic = e.topic => e.n <= d.n
              /\ Deliver(e)
              /\ reply' = [reply EXCEPT !.events = @ \ {e}]
              /\ UNCHANGED pc
  <2>1. PICK e \in reply.events :
              /\ \A d \in reply.events : d.topic = e.topic => e.n <= d.n
              /\ Deliver(e)
              /\ reply' = [reply EXCEPT !.events = @ \ {e}]
              /\ UNCHANGED pc
    BY Zenon, <1>3
  <2>2. e \in Events
    BY Zenon, <1>2
  <2>3. PICK rest \in SUBSET Events : rest = reply.events \ {e}
    BY Zenon, <1>2
  <2>4. reply' = [reply EXCEPT !.events = rest]
    BY Zenon, <2>1, <2>3
  <2>5. /\ reply'.answered /\ reply'.cursors = reply.cursors /\ reply'.events = rest
        /\ reply' \in [answered : {TRUE}, cursors : [DOMAIN topics -> Nat], events : SUBSET Events]
    BY Zenon, <1>2, <2>4
  <2>6. Delivers(e.topic, e.n)
    BY Zenon, <2>1, <2>2, DeliverIs
  <2>7. CatchesUp(e)
    BY Zenon, <1>1, <2>1, <2>2, <2>3, <2>5, <2>6 DEF CatchesUp
  <2> QED
    BY Zenon, <1>1, <1>2, <2>7 DEF Replies
<1>4. CASE /\ reply.events = {}
           /\ topics' = [t \in DOMAIN topics |-> [topics[t] EXCEPT !.cursor =
                            IF @ < reply.cursors[t] THEN reply.cursors[t] ELSE @]]
           /\ pc' = "release" /\ reply' = NoReply
           /\ UNCHANGED got
  <2>1. topics \in [DOMAIN topics -> TopicStates]
            /\ DOMAIN topics \subseteq Topics
    BY Zenon DEF WatchTypeOK, ActorTypeOK
  <2>2. ASSUME NEW s \in TopicStates, NEW c \in Nat
        PROVE  Is([s EXCEPT !.cursor = IF @ < c THEN c ELSE @], s.live, s.subs, s.pending,
                  IF s.cursor < c THEN c ELSE s.cursor)
    <3>1. PICK d \in Nat \cup {NoCursor} : d = IF s.cursor < c THEN c ELSE s.cursor
      BY Zenon DEF TopicStates
    <3>2. Is([s EXCEPT !.cursor = d], s.live, s.subs, s.pending, d)
      BY Zenon DEF Is, TopicStates
    <3> QED
      BY Zenon, <3>1, <3>2
  <2>3. reply.cursors \in [DOMAIN topics -> Nat]
    BY Zenon, <1>2
  <2>4. DOMAIN topics' = DOMAIN topics
            /\ \A t \in DOMAIN topics : topics'[t] = [topics[t] EXCEPT !.cursor =
                            IF @ < reply.cursors[t] THEN reply.cursors[t] ELSE @]
    BY Zenon, <1>4
  <2>5. \A t \in DOMAIN topics :
            Is(topics'[t], topics[t].live, topics[t].subs, topics[t].pending,
               IF topics[t].cursor < reply.cursors[t] THEN reply.cursors[t] ELSE topics[t].cursor)
    <3> TAKE t \in DOMAIN topics
    <3>1. PICK s \in TopicStates : s = topics[t]
      BY Zenon, <2>1
    <3>2. PICK c \in Nat : c = reply.cursors[t]
      BY Zenon, <2>3
    <3>3. topics'[t] = [s EXCEPT !.cursor = IF @ < c THEN c ELSE @]
      BY Zenon, <2>4, <3>1, <3>2
    <3> QED
      BY SMTT(30), <2>2, <3>1, <3>2, <3>3
  <2>6. topics' \in [DOMAIN topics -> TopicStates]
    <3>1. \A t \in DOMAIN topics : topics'[t] \in TopicStates
      BY Zenon, <2>5 DEF Is
    <3> QED
      BY Zenon, <1>4, <3>1
  <2>7. Table(topics')
    BY Zenon, <2>1, <2>4, <2>6 DEF Table
  <2>8. Advances
    BY Zenon, <2>4, <2>5, <2>7 DEF Advances, Is
  <2> QED
    BY Zenon, <1>1, <1>2, <1>4, <2>8 DEF Replies
<1> QED
  BY Zenon, <1>3, <1>4 DEF CaughtUp

(* What the head of a queue of messages is. *)
LEMMA HeadTypes ==
    ASSUME WatchTypeOK
    PROVE  /\ down # <<>> => /\ Tail(down) \in Seq(Downward) /\ Head(down) \in Downward
                             /\ Head(down).topic \in Topics /\ Head(down).n \in Nat
                             /\ Head(down).kind # "topic_ok" => Head(down) \in Events
           /\ buffered # <<>> => Tail(buffered) \in Seq(Events) /\ Head(buffered) \in Events
<1>1. down \in Seq(Downward) /\ buffered \in Seq(Events)
  BY Zenon DEF WatchTypeOK, SocketTypeOK, ActorTypeOK, Downward
<1>2. ASSUME down # <<>>
      PROVE  /\ Tail(down) \in Seq(Downward) /\ Head(down) \in Downward
             /\ Head(down).topic \in Topics /\ Head(down).n \in Nat
             /\ Head(down).kind # "topic_ok" => Head(down) \in Events
  <2>1. Tail(down) \in Seq(Downward) /\ Head(down) \in Downward
    BY Zenon, <1>1, <1>2, TailPlaces
  <2> QED
    BY Zenon, <2>1 DEF Downward, Events
<1>3. ASSUME buffered # <<>> PROVE Tail(buffered) \in Seq(Events) /\ Head(buffered) \in Events
  BY Zenon, <1>1, <1>3, TailPlaces
<1> QED
  BY Zenon, <1>2, <1>3

(* Every step keeps the types, *)
LEMMA WatchTypes ==
    ASSUME WatchTypeOK, [WatchNext]_watchVars PROVE WatchTypeOK'

(* The actor ends, *)
<1>GoneTypes.
      ASSUME WatchTypeOK, Gone PROVE NodeTypeOK' /\ SocketTypeOK' /\ ActorTypeOK'
  <2> USE <1>GoneTypes
  <2>1. \A S : <<>> \in Seq(S)
    BY Zenon, Empty
  <2>2. DOMAIN topics' = {} /\ topics' \in [{} -> TopicStates]
    BY Zenon DEF Gone
  <2>3. NodeTypeOK'
    BY Zenon, <2>1 DEF Gone, WatchTypeOK, NodeTypeOK
  <2>4. SocketTypeOK'
    BY Zenon, <2>1 DEF Gone, SocketTypeOK
  <2>5. ActorTypeOK'
    BY Zenon, <2>1, <2>2 DEF Gone, ActorTypeOK
  <2> QED
    BY Zenon, <2>3, <2>4, <2>5

(* or its socket does. *)
<1>LostTypes.
      ASSUME WatchTypeOK, Lost, UNCHANGED <<topics, cmds>>
      PROVE  NodeTypeOK' /\ SocketTypeOK' /\ ActorTypeOK'
  <2> USE <1>LostTypes
  <2>1. \A S : <<>> \in Seq(S)
    BY Zenon, Empty
  <2>2. NodeTypeOK'
    BY Zenon, <2>1 DEF Lost, WatchTypeOK, NodeTypeOK
  <2>3. SocketTypeOK'
    BY Zenon, <2>1 DEF Lost, SocketTypeOK
  <2>4. ActorTypeOK'
    BY Zenon, <2>1 DEF Lost, ActorTypeOK, WatchTypeOK
  <2> QED
    BY Zenon, <2>2, <2>3, <2>4

(* The application's steps and the commands'.                              *)
<1>CommandTypes.
      ASSUME WatchTypeOK,
             (\E w \in Watches : Watch(w) \/ Unwatch(w)) \/ HandleCmd \/ ApplyOffline
      PROVE  WatchTypeOK'
  <2> USE <1>CommandTypes
  <2>1. ASSUME NEW w \in Watches, Watch(w) PROVE WatchTypeOK'
    <3>1. [kind |-> "subscribe", watch |-> w] \in Commands
      BY Zenon DEF Commands
    <3>2. cmds' \in Seq(Commands)
      BY Zenon, <2>1, <3>1, Appends DEF Watch, WatchTypeOK, ActorTypeOK, Commands
    <3>3. ActorTypeOK'
      BY Zenon, <2>1, <3>2 DEF Watch, WatchTypeOK, ActorTypeOK, Commands, Replies
    <3>4. WatchersTypeOK'
      BY Zenon, <2>1 DEF Watch, WatchTypeOK, WatchersTypeOK
    <3> QED
      BY Zenon, <2>1, <3>3, <3>4 DEF Watch, WatchTypeOK, NodeTypeOK, SocketTypeOK, node, socket
  <2>2. ASSUME NEW w \in Watches, Unwatch(w) PROVE WatchTypeOK'
    <3>1. WatchersTypeOK'
      BY Zenon, <2>2 DEF Unwatch, WatchTypeOK, WatchersTypeOK
    <3>2. CASE \A v \in Watches \ {w} : ~Alive(v)
      BY Zenon, <2>2, <3>1, <3>2, <1>GoneTypes DEF Unwatch, WatchTypeOK
    <3>3. CASE ~(\A v \in Watches \ {w} : ~Alive(v))
      <4>1. [kind |-> "unsubscribe", watch |-> w] \in Commands
        BY Zenon DEF Commands
      <4>2. /\ cmds' = Append(cmds, [kind |-> "unsubscribe", watch |-> w])
            /\ UNCHANGED <<node, socket, pc, topics, buffered, reply>>
        BY Zenon, <2>2, <3>3 DEF Unwatch
      <4>3. cmds' \in Seq(Commands)
        BY Zenon, <4>1, <4>2, Appends DEF WatchTypeOK, ActorTypeOK, Commands
      <4>4. ActorTypeOK'
        BY Zenon, <4>2, <4>3 DEF WatchTypeOK, ActorTypeOK, Commands, Replies
      <4> QED
        BY Zenon, <3>1, <4>2, <4>4 DEF WatchTypeOK, NodeTypeOK, SocketTypeOK, node, socket
    <3> QED
      BY Zenon, <3>2, <3>3
  <2>3. CASE HandleCmd
    <3>1. PICK w \in Watches, t \in Topics :
              \/ CmdJoins(w, t) \/ CmdAsks(w, t) \/ CmdLeaves(w, t)
              \/ CmdCloses(w, t) \/ CmdIdles(w, t)
      BY Zenon, <2>3, HandleCmdIs
    <3>2. cmds' \in Seq(Commands)
      <4>1. cmds # <<>> /\ cmds' = Tail(cmds)
        BY Zenon, <2>3, HandleCmdIs
      <4>2. cmds \in Seq(Commands)
        BY Zenon DEF WatchTypeOK, ActorTypeOK, Commands
      <4> QED
        BY Zenon, <4>1, <4>2, TailPlaces
    <3>3. Table(topics')
      BY Zenon, <3>1 DEF CmdJoins, CmdAsks, CmdLeaves, CmdCloses, CmdIdles, Edited, Removed, Table,
                  WatchTypeOK, ActorTypeOK
    <3>4. up' \in Seq(Upward)
      <4>1. up \in Seq(Upward)
        BY Zenon DEF WatchTypeOK, SocketTypeOK, Upward
      <4>2. \/ up' = up \/ up' = Append(up, Msg("subscribe", t, 0))
            \/ up' = Append(up, Msg("unsubscribe", t, 0))
        BY Zenon, <3>1 DEF CmdJoins, CmdAsks, CmdLeaves, CmdCloses, CmdIdles
      <4>3. Msg("subscribe", t, 0) \in Upward /\ Msg("unsubscribe", t, 0) \in Upward
        BY Zenon, MsgTypes
      <4> QED
        BY SMTT(30), <4>1, <4>2, <4>3, Appends
    <3>5. WatchersTypeOK'
      <4>1. Returned({w}) \/ UNCHANGED watchers
        BY Zenon, <3>1 DEF CmdJoins, CmdAsks, CmdLeaves, CmdCloses, CmdIdles
      <4> QED
        BY Zenon, <4>1 DEF Returned, WatchTypeOK, WatchersTypeOK, watchers
    <3>6. UNCHANGED <<node, open, down, drops, pc, buffered, reply>> /\ pc = "serve"
      BY Zenon, <2>3 DEF HandleCmd
    <3>7. ActorTypeOK'
      BY Zenon, <3>2, <3>3, <3>6 DEF Table, ActorTypeOK, WatchTypeOK, Commands
    <3>8. SocketTypeOK'
      BY Zenon, <3>4, <3>6 DEF SocketTypeOK, WatchTypeOK, Upward
    <3>9. NodeTypeOK'
      BY Zenon, <3>6 DEF NodeTypeOK, WatchTypeOK, node
    <3> QED
      BY Zenon, <3>5, <3>7, <3>8, <3>9 DEF WatchTypeOK
  <2>4. CASE ApplyOffline
    <3>1. PICK w \in Watches, t \in Topics :
              OffJoins(w, t) \/ OffLeaves(w, t) \/ OffCloses(w, t) \/ OffIdles(w, t)
      BY Zenon, <2>4, ApplyOfflineIs
    <3>2. cmds' \in Seq(Commands)
      <4>1. cmds # <<>> /\ cmds' = Tail(cmds)
        BY Zenon, <2>4, ApplyOfflineIs
      <4>2. cmds \in Seq(Commands)
        BY Zenon DEF WatchTypeOK, ActorTypeOK, Commands
      <4> QED
        BY Zenon, <4>1, <4>2, TailPlaces
    <3>3. Table(topics')
      BY Zenon, <3>1 DEF OffJoins, OffLeaves, OffCloses, OffIdles, Edited, Removed, Table,
                  WatchTypeOK, ActorTypeOK
    <3>4. UNCHANGED <<node, socket, drops, pc, buffered, reply, watchers>> /\ pc = "backoff"
      BY Zenon, <2>4 DEF ApplyOffline
    <3>5. ActorTypeOK'
      BY Zenon, <3>2, <3>3, <3>4 DEF Table, ActorTypeOK, WatchTypeOK, Commands
    <3>6. NodeTypeOK' /\ SocketTypeOK' /\ WatchersTypeOK'
      BY Zenon, <3>4 DEF NodeTypeOK, SocketTypeOK, WatchersTypeOK, WatchTypeOK, node, socket, watchers
    <3> QED
      BY Zenon, <3>5, <3>6 DEF WatchTypeOK
  <2> QED
    BY Zenon, <2>1, <2>2, <2>3, <2>4

(* A delivery keeps the types, *)
<1>DeliversTypes.
      ASSUME WatchTypeOK, NEW t, NEW n, Delivers(t, n)
      PROVE  Table(topics') /\ DOMAIN topics' = DOMAIN topics /\ got' \in [Watches -> Seq(Nat)]
  <2> USE <1>DeliversTypes
  <2>1. Table(topics) /\ got \in [Watches -> Seq(Nat)]
    BY Zenon DEF Table, WatchTypeOK, ActorTypeOK, WatchersTypeOK
  <2>2. CASE UNCHANGED <<topics, got>>
    BY Zenon, <2>1, <2>2 DEF Table
  <2>3. CASE ~UNCHANGED <<topics, got>>
    <3>1. /\ t \in DOMAIN topics /\ got' \in [Watches -> Seq(Nat)]
          /\ Table(topics') /\ DOMAIN topics' = DOMAIN topics \cup {t}
      BY Zenon, <2>3 DEF Delivers, Edited
    <3> QED
      BY Zenon, <3>1
  <2> QED
    BY Zenon, <2>2, <2>3

(* and so does an acknowledgement. *)
<1>AcksTypes.
      ASSUME WatchTypeOK, NEW t, NEW n, Acks(t, n)
      PROVE  Table(topics') /\ DOMAIN topics' = DOMAIN topics /\ WatchersTypeOK'
  <2> USE <1>AcksTypes
  <2>1. Table(topics) /\ WatchersTypeOK
    BY Zenon DEF Table, WatchTypeOK, ActorTypeOK
  <2>2. CASE UNCHANGED <<topics, watchers>>
    BY Zenon, <2>1, <2>2 DEF Table, WatchersTypeOK, watchers
  <2>3. CASE ~UNCHANGED <<topics, watchers>>
    <3>1. /\ t \in DOMAIN topics /\ Returned(topics[t].pending)
          /\ Table(topics') /\ DOMAIN topics' = DOMAIN topics \cup {t}
      BY Zenon, <2>3 DEF Acks, Edited
    <3>2. WatchersTypeOK'
      BY Zenon, <2>1, <3>1 DEF Returned, WatchersTypeOK
    <3> QED
      BY Zenon, <3>1, <3>2
  <2> QED
    BY Zenon, <2>2, <2>3

(* What the actor reads. *)
<1>ReadTypes.
      ASSUME WatchTypeOK, HandleMsg \/ ResubscribeMsg \/ Release \/ CaughtUp
      PROVE  WatchTypeOK'
  <2> USE <1>ReadTypes
  <2>0. /\ NodeTypeOK /\ SocketTypeOK /\ WatchersTypeOK /\ Table(topics)
        /\ cmds \in Seq(Commands) /\ buffered \in Seq(Events)
    BY Zenon DEF WatchTypeOK, ActorTypeOK, Table, Commands
  <2>1. CASE HandleMsg
    <3>1. /\ pc = "serve" /\ down # <<>> /\ down' = Tail(down)
          /\ UNCHANGED <<node, open, up, drops, pc, cmds, buffered, reply>>
      BY Zenon, <2>1 DEF HandleMsg
    <3>2. NodeTypeOK' /\ SocketTypeOK'
      BY Zenon, <2>0, <3>1, HeadTypes DEF NodeTypeOK, SocketTypeOK, node, Downward
    <3>3. Table(topics') /\ WatchersTypeOK'
      <4>1. CASE Head(down).kind = "topic_ok"
        <5>1. Acks(Head(down).topic, Head(down).n)
          BY Zenon, <2>1, <3>1, <4>1, HeadTypes, AckIs DEF HandleMsg
        <5> QED
          BY Zenon, <5>1, <1>AcksTypes
      <4>2. CASE Head(down).kind # "topic_ok"
        <5>1. Head(down) \in Events /\ Deliver(Head(down)) /\ UNCHANGED <<use, status, since>>
          BY Zenon, <2>1, <3>1, <4>2, HeadTypes DEF HandleMsg
        <5>2. Table(topics') /\ got' \in [Watches -> Seq(Nat)]
          BY Zenon, <5>1, DeliverIs, <1>DeliversTypes
        <5> QED
          BY Zenon, <2>0, <5>1, <5>2 DEF WatchersTypeOK
      <4> QED
        BY Zenon, <4>1, <4>2
    <3>4. reply = NoReply
      BY Zenon, <3>1 DEF WatchTypeOK, ActorTypeOK
    <3>5. ActorTypeOK'
      BY Zenon, <2>0, <3>1, <3>3, <3>4 DEF ActorTypeOK, Table, Commands
    <3> QED
      BY Zenon, <3>2, <3>3, <3>5 DEF WatchTypeOK
  <2>2. CASE ResubscribeMsg
    <3>1. /\ pc = "resub" /\ down # <<>> /\ down' = Tail(down)
          /\ UNCHANGED <<node, open, up, drops, pc, cmds, reply>>
      BY Zenon, <2>2 DEF ResubscribeMsg
    <3>2. NodeTypeOK' /\ SocketTypeOK'
      BY Zenon, <2>0, <3>1, HeadTypes DEF NodeTypeOK, SocketTypeOK, node, Downward
    <3>3. Table(topics') /\ WatchersTypeOK' /\ buffered' \in Seq(Events)
      <4>1. CASE Head(down).kind = "topic_ok"
        <5>1. Acks(Head(down).topic, Head(down).n) /\ buffered' = buffered
          BY Zenon, <2>2, <3>1, <4>1, HeadTypes, AckIs DEF ResubscribeMsg
        <5> QED
          BY Zenon, <2>0, <5>1, <1>AcksTypes
      <4>2. CASE Head(down).kind # "topic_ok"
        <5>1. /\ Head(down) \in Events /\ UNCHANGED <<topics, watchers>>
              /\ buffered' = Append(buffered, Head(down))
          BY Zenon, <2>2, <3>1, <4>2, HeadTypes DEF ResubscribeMsg
        <5>2. buffered' \in Seq(Events)
          BY Zenon, <2>0, <5>1, Appends
        <5> QED
          BY Zenon, <2>0, <5>1, <5>2 DEF WatchersTypeOK, watchers, Table
      <4> QED
        BY Zenon, <4>1, <4>2
    <3>4. reply = NoReply
      BY Zenon, <3>1 DEF WatchTypeOK, ActorTypeOK
    <3>5. ActorTypeOK'
      BY Zenon, <2>0, <3>1, <3>3, <3>4 DEF ActorTypeOK, Table, Commands
    <3> QED
      BY Zenon, <3>2, <3>3, <3>5 DEF WatchTypeOK
  <2>3. CASE Release
    <3>1. pc = "release" /\ UNCHANGED <<node, socket, drops, cmds, reply, use, status, since>>
      BY Zenon, <2>3 DEF Release
    <3>2. NodeTypeOK' /\ SocketTypeOK'
      BY Zenon, <2>0, <3>1 DEF NodeTypeOK, SocketTypeOK, node, socket
    <3>3. /\ Table(topics') /\ got' \in [Watches -> Seq(Nat)] /\ buffered' \in Seq(Events)
          /\ pc' \in {"serve", "release"}
      <4>1. CASE buffered = <<>>
        BY Zenon, <2>0, <2>3, <3>1, <4>1 DEF Release, Table, WatchersTypeOK
      <4>2. CASE buffered # <<>>
        <5>1. Deliver(Head(buffered)) /\ buffered' = Tail(buffered) /\ pc' = pc
          BY Zenon, <2>3, <4>2 DEF Release
        <5>2. Tail(buffered) \in Seq(Events) /\ Head(buffered) \in Events
          BY Zenon, <4>2, HeadTypes
        <5>3. Table(topics') /\ got' \in [Watches -> Seq(Nat)]
          BY Zenon, <5>1, <5>2, DeliverIs, <1>DeliversTypes
        <5> QED
          BY Zenon, <3>1, <5>1, <5>2, <5>3
      <4> QED
        BY Zenon, <4>1, <4>2
    <3>4. reply = NoReply
      BY Zenon, <3>1 DEF WatchTypeOK, ActorTypeOK
    <3>5. ActorTypeOK'
      BY Zenon, <2>0, <3>1, <3>3, <3>4 DEF ActorTypeOK, Table, Commands
    <3>6. WatchersTypeOK'
      BY Zenon, <2>0, <3>1, <3>3 DEF WatchersTypeOK
    <3> QED
      BY Zenon, <3>2, <3>5, <3>6 DEF WatchTypeOK
  <2>4. CASE CaughtUp
    <3>1. pc = "sync" /\ UNCHANGED <<node, socket, drops, cmds, buffered, use, status, since>>
      BY Zenon, <2>4 DEF CaughtUp
    <3>2. NodeTypeOK' /\ SocketTypeOK'
      BY Zenon, <2>0, <3>1 DEF NodeTypeOK, SocketTypeOK, node, socket
    <3>3. /\ Table(topics') /\ got' \in [Watches -> Seq(Nat)]
          /\ \/ pc' = "release" /\ reply' = NoReply
             \/ pc' = "sync" /\ reply' \in
                   [answered : {TRUE}, cursors : [DOMAIN topics' -> Nat], events : SUBSET Events]
      <4>1. CASE \E e : CatchesUp(e)
        <5>1. PICK e : CatchesUp(e)
          BY Zenon, <4>1
        <5>2. /\ Delivers(e.topic, e.n) /\ pc' = "sync"
              /\ reply' \in [answered : {TRUE}, cursors : [DOMAIN topics -> Nat], events : SUBSET Events]
          BY Zenon, <5>1 DEF CatchesUp
        <5>3. Table(topics') /\ DOMAIN topics' = DOMAIN topics /\ got' \in [Watches -> Seq(Nat)]
          BY Zenon, <5>2, <1>DeliversTypes
        <5> QED
          BY Zenon, <5>2, <5>3
      <4>2. CASE ~\E e : CatchesUp(e)
        <5>1. Advances /\ pc' = "release" /\ reply' = NoReply /\ got' = got
          BY Zenon, <2>4, <4>2, CaughtUpIs
        <5> QED
          BY Zenon, <2>0, <5>1 DEF Advances, WatchersTypeOK
      <4> QED
        BY Zenon, <4>1, <4>2
    <3>4. ActorTypeOK'
      BY Zenon, <2>0, <3>1, <3>3 DEF ActorTypeOK, Table, Commands, Replies
    <3>5. WatchersTypeOK'
      BY Zenon, <2>0, <3>1, <3>3 DEF WatchersTypeOK
    <3> QED
      BY Zenon, <3>2, <3>4, <3>5 DEF WatchTypeOK
  <2> QED
    BY Zenon, <2>1, <2>2, <2>3, <2>4

(* Connections made and lost. *)
<1>ConnectTypes.
      ASSUME WatchTypeOK,
             Dial \/ HelloOk \/ HelloFails \/ SocketEnds \/ SyncOnce \/ SyncAnswer \/ SyncFails
      PROVE  WatchTypeOK'
  <2> USE <1>ConnectTypes
  <2>0. /\ NodeTypeOK /\ SocketTypeOK /\ WatchersTypeOK /\ Table(topics)
        /\ cmds \in Seq(Commands) /\ buffered \in Seq(Events)
    BY Zenon DEF WatchTypeOK, ActorTypeOK, Table, Commands
  <2>1. CASE Dial
    <3>1. /\ pc' = "hello" /\ reply = NoReply
          /\ UNCHANGED <<node, socket, drops, topics, cmds, buffered, reply, watchers>>
      BY Zenon, <2>1 DEF Dial, WatchTypeOK, ActorTypeOK
    <3>2. NodeTypeOK' /\ SocketTypeOK' /\ WatchersTypeOK'
      BY Zenon, <2>0, <3>1 DEF NodeTypeOK, SocketTypeOK, WatchersTypeOK, node, socket, watchers
    <3>3. ActorTypeOK'
      BY Zenon, <2>0, <3>1 DEF ActorTypeOK, Table, Commands
    <3> QED
      BY Zenon, <3>2, <3>3 DEF WatchTypeOK
  <2>2. CASE HelloOk
    <3>1. /\ reply = NoReply /\ open' = TRUE
          /\ UNCHANGED <<node, down, drops, cmds, buffered, reply, watchers>>
      BY Zenon, <2>2 DEF HelloOk, WatchTypeOK, ActorTypeOK
    <3>2. up \in Seq(Upward)
      BY Zenon, <2>0 DEF SocketTypeOK, Upward
    <3>3. pc' \in {"serve", "resub"} /\ Table(topics') /\ up' \in Seq(Upward)
      <4>1. CASE pc = "dial" /\ pc' = "serve" /\ UNCHANGED <<topics, up>>
        BY Zenon, <2>0, <3>2, <4>1 DEF Table
      <4>2. CASE pc = "hello" /\ pc' = "resub" /\ Reopens
        BY Zenon, <4>2 DEF Reopens
      <4> QED
        BY Zenon, <2>2, <4>1, <4>2, HelloOkIs
    <3>4. NodeTypeOK' /\ WatchersTypeOK'
      BY Zenon, <2>0, <3>1 DEF NodeTypeOK, WatchersTypeOK, node, watchers
    <3>5. SocketTypeOK'
      BY Zenon, <2>0, <3>1, <3>3 DEF SocketTypeOK, Upward
    <3>6. ActorTypeOK'
      BY Zenon, <2>0, <3>1, <3>3 DEF ActorTypeOK, Table, Commands
    <3> QED
      BY Zenon, <3>4, <3>5, <3>6 DEF WatchTypeOK
  <2>3. ASSUME Lost, UNCHANGED <<topics, cmds, watchers>> PROVE WatchTypeOK'
    BY Zenon, <2>0, <2>3, <1>LostTypes DEF WatchTypeOK, WatchersTypeOK, watchers
  <2>4. CASE SocketEnds
    BY Zenon, <2>3, <2>4 DEF SocketEnds
  <2>5. CASE SyncFails
    BY Zenon, <2>3, <2>5 DEF SyncFails
  <2>6. CASE HelloFails
    <3>1. CASE End
      <4>1. WatchersTypeOK'
        BY Zenon, <2>0, <3>1 DEF End, WatchersTypeOK
      <4> QED
        BY Zenon, <3>1, <4>1, <1>GoneTypes DEF End, WatchTypeOK
    <3>2. CASE Lost /\ UNCHANGED <<topics, cmds, watchers>>
      BY Zenon, <2>3, <3>2
    <3> QED
      BY Zenon, <2>6, <3>1, <3>2 DEF HelloFails
  <2>7. CASE SyncOnce
    <3>1. /\ pc' = "sync" /\ reply = NoReply
          /\ UNCHANGED <<node, socket, drops, topics, cmds, buffered, reply, watchers>>
      BY Zenon, <2>7 DEF SyncOnce, WatchTypeOK, ActorTypeOK
    <3>2. NodeTypeOK' /\ SocketTypeOK' /\ WatchersTypeOK'
      BY Zenon, <2>0, <3>1 DEF NodeTypeOK, SocketTypeOK, WatchersTypeOK, node, socket, watchers
    <3>3. ActorTypeOK'
      BY Zenon, <2>0, <3>1 DEF ActorTypeOK, Table, Commands
    <3> QED
      BY Zenon, <3>2, <3>3 DEF WatchTypeOK
  <2>8. CASE SyncAnswer
    <3>1. /\ pc = "sync" /\ pc' = pc
          /\ UNCHANGED <<node, socket, drops, pc, topics, cmds, buffered, watchers>>
      BY Zenon, <2>8 DEF SyncAnswer
    <3>2. PICK cursors, events :
              /\ cursors = [t \in DOMAIN topics |-> tail[t]]
              /\ events = UNION {{Msg("event", t, n) : n \in topics[t].cursor + 1 .. tail[t]} :
                                         t \in DOMAIN topics}
      BY Zenon
    <3>3. reply' = [answered |-> TRUE, cursors |-> cursors, events |-> events]
      BY Zenon, <2>8, <3>2 DEF SyncAnswer
    <3>4. cursors \in [DOMAIN topics -> Nat]
      BY Zenon, <2>0, <3>2 DEF NodeTypeOK, Table
    <3>5. events \in SUBSET Events
      <4>1. ASSUME NEW e \in events PROVE e \in Events
        <5>1. PICK t \in DOMAIN topics : e \in {Msg("event", t, n) : n \in topics[t].cursor + 1 .. tail[t]}
          BY Zenon, <3>2, <4>1
        <5>2. PICK n \in topics[t].cursor + 1 .. tail[t] : e = Msg("event", t, n)
          BY Zenon, <5>1
        <5>3. topics[t].cursor \in Nat \cup {-1} /\ t \in Topics /\ tail[t] \in Nat
          BY Zenon, <2>0 DEF Table, TopicStates, NodeTypeOK, NoCursor
        <5>4. n \in Nat
          BY SMTT(30), <5>3
        <5> QED
          BY Zenon, <5>2, <5>3, <5>4, MsgTypes
      <4> QED
        BY Zenon, <4>1
    <3>6. reply' \in [answered : {TRUE}, cursors : [DOMAIN topics -> Nat], events : SUBSET Events]
      BY Zenon, <3>3, <3>4, <3>5
    <3>7. ActorTypeOK'
      BY Zenon, <2>0, <3>1, <3>6 DEF ActorTypeOK, Table, Commands, Replies
    <3>8. NodeTypeOK' /\ SocketTypeOK' /\ WatchersTypeOK'
      BY Zenon, <2>0, <3>1 DEF NodeTypeOK, SocketTypeOK, WatchersTypeOK, node, socket, watchers
    <3> QED
      BY Zenon, <3>7, <3>8 DEF WatchTypeOK
  <2> QED
    BY Zenon, <2>1, <2>2, <2>4, <2>5, <2>6, <2>7, <2>8

(* The node's steps. *)
<1>NodeTypes.
      ASSUME WatchTypeOK,
             \/ \E t \in Topics : Commit(t)
             \/ Publish \/ HandleClient \/ AnswerSubscribe \/ SendEvent \/ Drop
      PROVE  WatchTypeOK'
  <2> USE <1>NodeTypes
  <2>0. /\ tail \in [Topics -> Nat] /\ registered \subseteq Topics
        /\ acking \in Topics \cup {NoTopic} /\ open \in BOOLEAN
        /\ publishing \in Seq(Events) /\ outbox \in Seq(Events)
        /\ up \in Seq(Upward) /\ down \in Seq(Downward)
    BY Zenon DEF WatchTypeOK, NodeTypeOK, SocketTypeOK, Upward, Downward
  <2>1. \A S : <<>> \in Seq(S)
    BY Zenon, Empty
  <2>2. UNCHANGED <<actor, watchers>>
    BY Zenon DEF Commit, Publish, HandleClient, AnswerSubscribe, SendEvent, Drop
  <2>3. ActorTypeOK' /\ WatchersTypeOK'
    <3>1. UNCHANGED <<pc, topics, cmds, buffered, reply>> /\ UNCHANGED <<use, status, since, got>>
      BY Zenon, <2>2 DEF actor, watchers
    <3> QED
      BY Zenon, <3>1 DEF WatchTypeOK, ActorTypeOK, WatchersTypeOK, Replies
  <2> DEFINE Ranges ==
        /\ tail' \in [Topics -> Nat] /\ registered' \subseteq Topics
        /\ acking' \in Topics \cup {NoTopic} /\ open' \in BOOLEAN
        /\ publishing' \in Seq(Events) /\ outbox' \in Seq(Events)
        /\ up' \in Seq(Upward) /\ down' \in Seq(Downward)
  <2>4. Ranges
    <3>1. ASSUME NEW t \in Topics, Commit(t) PROVE Ranges
      <4>1. tail[t] + 1 \in Nat
        BY SMTT(30), <2>0
      <4>2. Msg("event", t, tail[t] + 1) \in Events
        BY Zenon, <4>1, MsgTypes
      <4>3. publishing' \in Seq(Events)
        BY Zenon, <2>0, <3>1, <4>2, Appends DEF Commit
      <4>4. tail' \in [Topics -> Nat]
        BY Zenon, <2>0, <3>1, <4>1 DEF Commit
      <4> QED
        BY Zenon, <2>0, <3>1, <4>3, <4>4 DEF Commit, socket
    <3>2. CASE Publish
      <4>1. publishing # <<>> /\ Head(publishing) \in Events /\ Tail(publishing) \in Seq(Events)
        BY Zenon, <2>0, <3>2, TailPlaces DEF Publish
      <4>2. Append(outbox, Head(publishing)) \in Seq(Events)
        BY Zenon, <2>0, <4>1, Appends
      <4> QED
        BY Zenon, <2>0, <3>2, <4>1, <4>2 DEF Publish, socket
    <3>3. CASE HandleClient
      <4>1. Head(up) \in Upward /\ Tail(up) \in Seq(Upward)
        BY Zenon, <2>0, <3>3, TailPlaces DEF HandleClient
      <4>2. Head(up).topic \in Topics
        BY Zenon, <4>1 DEF Upward
      <4>3. Msg("topic_ok", Head(up).topic, 0) \in Downward
        BY Zenon, <4>2, MsgTypes
      <4>4. Append(down, Msg("topic_ok", Head(up).topic, 0)) \in Seq(Downward)
        BY Zenon, <2>0, <4>3, Appends
      <4> QED
        BY Zenon, <2>0, <3>3, <4>1, <4>2, <4>4 DEF HandleClient
    <3>4. CASE AnswerSubscribe
      <4>1. acking \in Topics /\ tail[acking] \in Nat
        BY Zenon, <2>0, <3>4 DEF AnswerSubscribe
      <4>2. Msg("topic_ok", acking, tail[acking]) \in Downward
        BY Zenon, <4>1, MsgTypes
      <4>3. Append(down, Msg("topic_ok", acking, tail[acking])) \in Seq(Downward)
        BY Zenon, <2>0, <4>2, Appends
      <4> QED
        BY Zenon, <2>0, <3>4, <4>3 DEF AnswerSubscribe
    <3>5. CASE SendEvent
      <4>1. Head(outbox) \in Events /\ Tail(outbox) \in Seq(Events)
        BY Zenon, <2>0, <3>5, TailPlaces DEF SendEvent
      <4>2. Head(outbox) \in Downward
        BY Zenon, <4>1 DEF Events, Downward
      <4>3. Append(down, Head(outbox)) \in Seq(Downward)
        BY Zenon, <2>0, <4>2, Appends
      <4> QED
        BY Zenon, <2>0, <3>5, <4>1, <4>3 DEF SendEvent
    <3>6. CASE Drop
      <4>1. PICK n \in 0 .. Len(down) : down' = SubSeq(down, 1, n)
        BY Zenon, <3>6 DEF Drop
      <4>2. down' \in Seq(Downward)
        BY Zenon, <2>0, <4>1, PrefixPlaces
      <4> QED
        BY Zenon, <2>0, <2>1, <3>6, <4>2 DEF Drop
    <3> QED
      BY Zenon, <3>1, <3>2, <3>3, <3>4, <3>5, <3>6
  <2>5. NodeTypeOK' /\ SocketTypeOK'
    BY Zenon, <2>4 DEF NodeTypeOK, SocketTypeOK, Upward, Downward
  <2> QED
    BY Zenon, <2>3, <2>5 DEF WatchTypeOK
<1>1. CASE UNCHANGED watchVars
  <2>1. /\ UNCHANGED <<tail, publishing, registered, acking, outbox, open, up, down>>
        /\ UNCHANGED <<pc, topics, cmds, buffered, reply, use, status, since, got>>
    BY Zenon, <1>1 DEF watchVars, node, socket, actor, watchers
  <2>2. NodeTypeOK' /\ SocketTypeOK' /\ WatchersTypeOK'
    BY Zenon, <2>1 DEF WatchTypeOK, NodeTypeOK, SocketTypeOK, WatchersTypeOK
  <2>3. ActorTypeOK'
    BY Zenon, <2>1 DEF WatchTypeOK, ActorTypeOK, Replies
  <2> QED
    BY Zenon, <2>2, <2>3 DEF WatchTypeOK
<1> QED
  BY Zenon, <1>1, <1>CommandTypes, <1>ReadTypes, <1>ConnectTypes, <1>NodeTypes DEF WatchNext

(* which hold at the start. *)
LEMMA WatchInitTypes ==
    ASSUME WatchInit PROVE WatchTypeOK
<1>1. \A S : <<>> \in Seq(S)
  BY Zenon, Empty
<1>2. DOMAIN topics = {} /\ topics \in [{} -> TopicStates]
  BY Zenon DEF WatchInit
<1>3. NodeTypeOK /\ SocketTypeOK
  BY Zenon, <1>1 DEF WatchInit, NodeTypeOK, SocketTypeOK
<1>4. ActorTypeOK
  BY Zenon, <1>1, <1>2 DEF WatchInit, ActorTypeOK
<1>5. WatchersTypeOK
  BY Zenon, <1>1 DEF WatchInit, WatchersTypeOK
<1> QED
  BY Zenon, <1>3, <1>4, <1>5 DEF WatchTypeOK

-----------------------------------------------------------------------------
(* Delivery in order: the invariant. *)

(* No watch starts, and none is given anything. *)
Uneventful ==
    /\ use' = use /\ got' = got
    /\ \A w \in Watches : status'[w] = "off" <=> status[w] = "off"

(* Listeners stay who they were, cursors do not go back. *)
Narrows ==
    \A u \in DOMAIN topics' : \A v \in topics'[u].subs :
        /\ u \in DOMAIN topics /\ v \in topics[u].subs
        /\ topics[u].cursor <= topics'[u].cursor

(* and so have the state's. *)
LEMMA ListeningTypes ==
    ASSUME WatchTypeOK
    PROVE  /\ \A t \in DOMAIN topics : topics[t].subs \subseteq Watches /\ topics[t].cursor \in Int
           /\ \A w \in Watches : got[w] \in Seq(Nat) /\ \A k \in DOMAIN got[w] : got[w][k] \in Nat
           /\ topicOf \in [Watches -> Topics]
           /\ cmds \in Seq(Commands)
           /\ \A k \in DOMAIN cmds : cmds[k] \in Commands /\ cmds[k].watch \in Watches
<1>1. topics \in [DOMAIN topics -> TopicStates] /\ cmds \in Seq(Commands)
  BY Zenon DEF WatchTypeOK, ActorTypeOK, Commands
<1>2. \A s \in TopicStates : s.subs \subseteq Watches /\ s.cursor \in Int
  BY SMTT(30) DEF TopicStates, NoCursor
<1>3. \A w \in Watches : got[w] \in Seq(Nat)
  BY Zenon DEF WatchTypeOK, WatchersTypeOK
<1>4. \A w \in Watches : \A k \in DOMAIN got[w] : got[w][k] \in Nat
  BY Zenon, <1>3, Lengths
<1>5. topicOf \in [Watches -> Topics]
  BY Zenon, TopicOfWatch DEF WatchTypeOK
<1>6. \A k \in DOMAIN cmds : cmds[k] \in Commands
  BY Zenon, <1>1, Lengths
<1>7. \A c \in Commands : c.watch \in Watches
  BY Zenon DEF Commands
<1> QED
  BY Zenon, <1>1, <1>2, <1>3, <1>4, <1>5, <1>6, <1>7

(***************************************************************************)
(* For any watches, topics, commits and failures, cancelled watches and    *)
(* hazards included: a watch is given the mutations of its topic in commit *)
(* order and none twice, however live events, events held back and the     *)
(* catch-up's answer overlap (deliver, resubscribe).                       *)
(***************************************************************************)
THEOREM DeliveredInOrderOnce == WatchSpec => []InOrderOnce

(* The types the argument needs. *)
<1>SameCommand.
      ASSUME NEW a \in Commands, NEW b \in Commands, a.kind = b.kind, a.watch = b.watch
      PROVE  a = b
  <2> USE <1>SameCommand
  <2>1. /\ a = [kind |-> a.kind, watch |-> a.watch]
        /\ b = [kind |-> b.kind, watch |-> b.watch]
    BY Zenon DEF Commands
  <2> QED
    BY Zenon, <2>1

(* The entries of a table have their types, *)
<1>CursorTypes.
      ASSUME Table(topics')
      PROVE  \A t \in DOMAIN topics' : topics'[t].subs \subseteq Watches /\ topics'[t].cursor \in Int
  <2> USE <1>CursorTypes
  <2>1. \A s \in TopicStates : s.subs \subseteq Watches /\ s.cursor \in Int
    BY SMTT(30) DEF TopicStates, NoCursor
  <2> QED
    BY Zenon, <2>1 DEF Table

(* A step that delivers nothing and takes no command keeps who listens. *)
<1>ListenStays.
      ASSUME WatchTypeOK, WatchTypeOK', Listening, Uneventful, Narrows, cmds' = cmds
      PROVE  Listening'
  <2> USE <1>ListenStays
  <2>1. /\ \A t \in DOMAIN topics : topics[t].subs \subseteq Watches /\ topics[t].cursor \in Int
        /\ \A w \in Watches : \A k \in DOMAIN got[w] : got[w][k] \in Nat
    BY Zenon, ListeningTypes
  <2>2. \A t \in DOMAIN topics' : topics'[t].cursor \in Int
    <3>1. Table(topics')
      BY Zenon DEF WatchTypeOK, ActorTypeOK, Table
    <3> QED
      BY Zenon, <3>1, <1>CursorTypes
  <2>3. topicOf' = topicOf
    BY Zenon DEF Uneventful, topicOf
  <2>4. \A w \in Watches : status'[w] = "off" => got'[w] = <<>>
    BY Zenon DEF Uneventful, Listening
  <2>5. ASSUME NEW t \in DOMAIN topics', NEW w \in topics'[t].subs
        PROVE  /\ topicOf'[w] = t /\ status'[w] # "off"
               /\ \A k \in DOMAIN got'[w] : got'[w][k] <= topics'[t].cursor
    <3>1. t \in DOMAIN topics /\ w \in topics[t].subs /\ topics[t].cursor <= topics'[t].cursor
      BY Zenon, <2>5 DEF Narrows
    <3>2. w \in Watches
      BY Zenon, <2>1, <3>1
    <3>3. topicOf[w] = t /\ status[w] # "off" /\ \A k \in DOMAIN got[w] : got[w][k] <= topics[t].cursor
      BY Zenon, <3>1 DEF Listening
    <3>4. \A k \in DOMAIN got[w] : got[w][k] <= topics'[t].cursor
      BY SMTT(30), <2>1, <2>2, <3>1, <3>2, <3>3
    <3> QED
      BY Zenon, <2>3, <3>2, <3>3, <3>4 DEF Uneventful
  <2>6. ASSUME NEW k \in DOMAIN cmds', cmds'[k].kind = "subscribe"
        PROVE  /\ got'[cmds'[k].watch] = <<>> /\ status'[cmds'[k].watch] # "off"
               /\ \A t \in DOMAIN topics' : cmds'[k].watch \notin topics'[t].subs
               /\ \A j \in DOMAIN cmds' : cmds'[j] = cmds'[k] => j = k
    <3>1. cmds[k].watch \in Watches
      BY Zenon, <2>6, ListeningTypes
    <3>2. /\ got[cmds[k].watch] = <<>> /\ status[cmds[k].watch] # "off"
          /\ \A t \in DOMAIN topics : cmds[k].watch \notin topics[t].subs
          /\ \A j \in DOMAIN cmds : cmds[j] = cmds[k] => j = k
      BY Zenon, <2>6 DEF Listening
    <3> QED
      BY Zenon, <3>1, <3>2 DEF Uneventful, Narrows
  <2> QED
    BY Zenon, <2>4, <2>5, <2>6 DEF Listening

(* A command is taken from the channel. *)
<1>ListenTakes.
      ASSUME WatchTypeOK, WatchTypeOK', Listening, Uneventful,
             cmds # <<>>, cmds' = Tail(cmds),
             \A u \in DOMAIN topics' : \A v \in topics'[u].subs :
                 \/ /\ u \in DOMAIN topics /\ v \in topics[u].subs
                    /\ topics[u].cursor <= topics'[u].cursor
                 \/ Head(cmds).kind = "subscribe" /\ v = Head(cmds).watch /\ u = topicOf[v]
      PROVE  Listening'
  <2> USE <1>ListenTakes
  <2>1. /\ \A t \in DOMAIN topics : topics[t].subs \subseteq Watches /\ topics[t].cursor \in Int
        /\ \A w \in Watches : \A k \in DOMAIN got[w] : got[w][k] \in Nat
    BY Zenon, ListeningTypes
  <2>2. \A t \in DOMAIN topics' : topics'[t].cursor \in Int /\ topics'[t].subs \subseteq Watches
    <3>1. Table(topics')
      BY Zenon DEF WatchTypeOK, ActorTypeOK, Table
    <3> QED
      BY Zenon, <3>1, <1>CursorTypes
  <2>3. topicOf' = topicOf
    BY Zenon DEF Uneventful, topicOf
  <2>4. \A w \in Watches : status'[w] = "off" => got'[w] = <<>>
    BY Zenon DEF Uneventful, Listening
  <2>5. /\ Head(cmds) = cmds[1] /\ Len(cmds) \in Nat /\ 1 \in DOMAIN cmds
        /\ DOMAIN cmds = 1 .. Len(cmds) /\ DOMAIN cmds' = 1 .. Len(cmds) - 1
        /\ \A k \in DOMAIN cmds' : k + 1 \in DOMAIN cmds /\ cmds'[k] = cmds[k + 1]
        /\ \A k \in DOMAIN cmds : cmds[k] \in Commands
    <3>1. /\ cmds \in Seq(Commands) /\ Head(cmds) = cmds[1] /\ Len(cmds) \in Nat /\ Len(cmds) >= 1
          /\ DOMAIN cmds = 1 .. Len(cmds) /\ DOMAIN cmds' = 1 .. Len(cmds) - 1
          /\ \A i \in 1 .. Len(cmds) - 1 : cmds'[i] = cmds[i + 1]
      BY SMTT(30), ListeningTypes, TailPlaces
    <3>2. \A k \in DOMAIN cmds : cmds[k] \in Commands
      BY Zenon, <3>1, Lengths
    <3> QED
      BY SMTT(30), <3>1, <3>2
  <2>6. ASSUME NEW t \in DOMAIN topics', NEW w \in topics'[t].subs
        PROVE  /\ topicOf'[w] = t /\ status'[w] # "off"
               /\ \A k \in DOMAIN got'[w] : got'[w][k] <= topics'[t].cursor
    <3>1. w \in Watches
      BY Zenon, <2>2, <2>6
    <3>2. CASE t \in DOMAIN topics /\ w \in topics[t].subs /\ topics[t].cursor <= topics'[t].cursor
      <4>1. topicOf[w] = t /\ status[w] # "off" /\ \A k \in DOMAIN got[w] : got[w][k] <= topics[t].cursor
        BY Zenon, <3>2 DEF Listening
      <4>2. \A k \in DOMAIN got[w] : got[w][k] <= topics'[t].cursor
        BY SMTT(30), <2>1, <2>2, <3>1, <3>2, <4>1
      <4> QED
        BY Zenon, <2>3, <3>1, <4>1, <4>2 DEF Uneventful
    <3>3. CASE Head(cmds).kind = "subscribe" /\ w = Head(cmds).watch /\ t = topicOf[w]
      <4>1. got[w] = <<>> /\ status[w] # "off"
        BY SMTT(30), <2>5, <3>3 DEF Listening
      <4>2. DOMAIN got'[w] = {}
        BY SMTT(30), <4>1 DEF Uneventful
      <4> QED
        BY Zenon, <2>3, <3>1, <3>3, <4>1, <4>2 DEF Uneventful
    <3> QED
      BY Zenon, <2>6, <3>2, <3>3
  <2>7. ASSUME NEW k \in DOMAIN cmds', cmds'[k].kind = "subscribe"
        PROVE  /\ got'[cmds'[k].watch] = <<>> /\ status'[cmds'[k].watch] # "off"
               /\ \A t \in DOMAIN topics' : cmds'[k].watch \notin topics'[t].subs
               /\ \A j \in DOMAIN cmds' : cmds'[j] = cmds'[k] => j = k
    <3>1. PICK m \in DOMAIN cmds : m = k + 1 /\ cmds'[k] = cmds[m] /\ cmds[m] \in Commands
      BY Zenon, <2>5
    <3>2. PICK v \in Watches : v = cmds[m].watch
      BY Zenon, <3>1 DEF Commands
    <3>3. /\ got[v] = <<>> /\ status[v] # "off"
          /\ \A t \in DOMAIN topics : v \notin topics[t].subs
          /\ \A j \in DOMAIN cmds : cmds[j] = cmds[m] => j = m
      BY Zenon, <2>7, <3>1, <3>2 DEF Listening
    <3>4. \A j \in DOMAIN cmds' : cmds'[j] = cmds'[k] => j = k
      <4> TAKE j \in DOMAIN cmds'
      <4>1. cmds'[j] = cmds[j + 1] /\ j + 1 \in DOMAIN cmds
        BY Zenon, <2>5
      <4>2. cmds'[j] = cmds'[k] => j + 1 = m
        BY Zenon, <3>1, <3>3, <4>1
      <4> QED
        BY SMTT(30), <2>5, <3>1, <4>2
    <3>5. ASSUME NEW t \in DOMAIN topics', v \in topics'[t].subs PROVE FALSE
      <4>1. Head(cmds).kind = "subscribe" /\ v = Head(cmds).watch
        BY Zenon, <3>3, <3>5
      <4>2. cmds[1] = cmds[m]
        <5>1. cmds[1] \in Commands /\ cmds[1].kind = cmds[m].kind /\ cmds[1].watch = cmds[m].watch
          BY Zenon, <2>5, <2>7, <3>1, <3>2, <4>1
        <5> QED
          BY Zenon, <3>1, <5>1, <1>SameCommand
      <4>3. 1 = k + 1 /\ k \in 1 .. Len(cmds) - 1
        BY Zenon, <2>5, <3>1, <3>3, <4>2
      <4> QED
        BY SMTT(30), <2>5, <4>3
    <3> QED
      BY SMTT(30), <3>1, <3>2, <3>3, <3>4, <3>5 DEF Uneventful
  <2> QED
    BY Zenon, <2>4, <2>6, <2>7 DEF Listening

(* A delivery keeps the order. *)
<1>ListenDelivers.
      ASSUME WatchTypeOK, WatchTypeOK', Listening, InOrderOnce, NEW t, NEW n \in Nat,
             Delivers(t, n), UNCHANGED <<use, status, cmds>>
      PROVE  Listening' /\ InOrderOnce'
  <2> USE <1>ListenDelivers
  <2>0. topicOf' = topicOf
    BY Zenon DEF topicOf
  <2>1. CASE UNCHANGED <<topics, got>>
    BY SMTT(30), <2>0, <2>1 DEF Listening, InOrderOnce
  <2>2. CASE ~UNCHANGED <<topics, got>>
    <3>1. /\ \A u \in DOMAIN topics : topics[u].subs \subseteq Watches /\ topics[u].cursor \in Int
          /\ \A w \in Watches : got[w] \in Seq(Nat) /\ \A k \in DOMAIN got[w] : got[w][k] \in Nat
          /\ cmds \in Seq(Commands)
      BY Zenon, ListeningTypes
    <3>2. /\ t \in DOMAIN topics /\ n > topics[t].cursor
          /\ DOMAIN topics' = DOMAIN topics
          /\ topics'[t].subs = {w \in topics[t].subs : Alive(w)} /\ topics'[t].cursor = n
          /\ \A u \in DOMAIN topics : u # t => topics'[u] = topics[u]
          /\ \A w \in Watches :
                got'[w] = IF w \in topics[t].subs /\ Alive(w) THEN Append(got[w], n) ELSE got[w]
      BY Zenon, <2>2 DEF Delivers, Edited
    <3>3. ASSUME NEW w \in topics[t].subs
          PROVE  /\ w \in Watches /\ topicOf[w] = t /\ status[w] # "off" /\ Append(got[w], n) # <<>>
                 /\ Len(got[w]) \in Nat /\ DOMAIN got[w] = 1 .. Len(got[w])
                 /\ \A k \in 1 .. Len(got[w]) : got[w][k] <= topics[t].cursor /\ got[w][k] \in Nat
                 /\ DOMAIN Append(got[w], n) = 1 .. Len(got[w]) + 1
                 /\ \A k \in 1 .. Len(got[w]) : Append(got[w], n)[k] = got[w][k]
                 /\ Append(got[w], n)[Len(got[w]) + 1] = n
      <4>1. w \in Watches /\ got[w] \in Seq(Nat) /\ \A k \in DOMAIN got[w] : got[w][k] \in Nat
        BY Zenon, <3>1, <3>2
      <4>2. /\ topicOf[w] = t /\ status[w] # "off"
            /\ \A k \in DOMAIN got[w] : got[w][k] <= topics[t].cursor
        BY Zenon, <3>2 DEF Listening
      <4> QED
        <5>1. /\ Append(got[w], n) # <<>> /\ Len(got[w]) \in Nat /\ DOMAIN got[w] = 1 .. Len(got[w])
              /\ DOMAIN Append(got[w], n) = 1 .. Len(got[w]) + 1
              /\ \A k \in 1 .. Len(got[w]) : Append(got[w], n)[k] = got[w][k]
              /\ Append(got[w], n)[Len(got[w]) + 1] = n
          <6>1. PICK s \in Seq(Nat) : s = got[w]
            BY Zenon, <4>1
          <6>2. /\ Append(s, n) # <<>> /\ Len(s) \in Nat /\ DOMAIN s = 1 .. Len(s)
                /\ DOMAIN Append(s, n) = 1 .. Len(s) + 1
                /\ \A k \in 1 .. Len(s) : Append(s, n)[k] = s[k]
                /\ Append(s, n)[Len(s) + 1] = n
            BY SMTT(30), AppendPlaces
          <6> QED
            BY Zenon, <6>1, <6>2
        <5>2. \A k \in 1 .. Len(got[w]) : got[w][k] <= topics[t].cursor /\ got[w][k] \in Nat
          BY Zenon, <4>1, <4>2, <5>1
        <5> QED
          BY Zenon, <4>1, <4>2, <5>1, <5>2
    <3>4. ASSUME NEW u \in DOMAIN topics', NEW w \in topics'[u].subs
          PROVE  /\ topicOf'[w] = u /\ status'[w] # "off"
                 /\ \A k \in DOMAIN got'[w] : got'[w][k] <= topics'[u].cursor
      <4>1. CASE u = t
        <5>1. w \in topics[t].subs /\ Alive(w)
          BY Zenon, <3>2, <3>4, <4>1
        <5>2. w \in Watches /\ got'[w] = Append(got[w], n) /\ topics'[u].cursor = n
          BY Zenon, <3>2, <3>3, <4>1, <5>1
        <5>3. \A k \in DOMAIN Append(got[w], n) : Append(got[w], n)[k] <= n
          <6> TAKE k \in DOMAIN Append(got[w], n)
          <6>1. CASE k = Len(got[w]) + 1
            BY SMTT(30), <3>3, <5>1, <6>1
          <6>2. CASE k \in 1 .. Len(got[w])
            BY SMTT(30), <3>1, <3>2, <3>3, <5>1, <6>2
          <6> QED
            BY SMTT(30), <3>3, <5>1, <6>1, <6>2
        <5> QED
          BY Zenon, <2>0, <3>3, <4>1, <5>1, <5>2, <5>3
      <4>2. CASE u # t
        <5>1. u \in DOMAIN topics /\ topics'[u] = topics[u] /\ w \in topics[u].subs /\ w \in Watches
          BY Zenon, <3>1, <3>2, <3>4, <4>2
        <5>2. /\ topicOf[w] = u /\ status[w] # "off"
              /\ \A k \in DOMAIN got[w] : got[w][k] <= topics[u].cursor
          BY Zenon, <5>1 DEF Listening
        <5>3. got'[w] = got[w]
          BY Zenon, <3>2, <3>3, <4>2, <5>1, <5>2
        <5> QED
          BY Zenon, <2>0, <5>1, <5>2, <5>3
      <4> QED
        BY Zenon, <4>1, <4>2
    <3>5. ASSUME NEW k \in DOMAIN cmds, cmds[k].kind = "subscribe"
          PROVE  /\ got'[cmds[k].watch] = <<>>
                 /\ \A u \in DOMAIN topics' : cmds[k].watch \notin topics'[u].subs
      <4>1. cmds[k].watch \in Watches
        BY Zenon, <3>5, ListeningTypes
      <4>2. got[cmds[k].watch] = <<>> /\ \A u \in DOMAIN topics : cmds[k].watch \notin topics[u].subs
        BY Zenon, <3>5 DEF Listening
      <4> QED
        BY Zenon, <3>2, <4>1, <4>2
    <3>6. \A w \in Watches : status'[w] = "off" => got'[w] = <<>>
      BY SMTT(30), <3>2, <3>3 DEF Listening
    <3>7. Listening'
      BY Zenon, <3>4, <3>5, <3>6 DEF Listening
    <3>8. ASSUME NEW w \in Watches, NEW j \in DOMAIN got'[w], NEW k \in DOMAIN got'[w], j < k
          PROVE  got'[w][j] < got'[w][k]
      <4>1. CASE w \in topics[t].subs /\ Alive(w)
        <5>1. got'[w] = Append(got[w], n)
          BY Zenon, <3>2, <4>1
        <5>2. j \in 1 .. Len(got[w]) + 1 /\ k \in 1 .. Len(got[w]) + 1 /\ Len(got[w]) \in Nat
          BY Zenon, <3>3, <3>8, <4>1, <5>1
        <5>3. j \in 1 .. Len(got[w]) /\ got'[w][j] = got[w][j]
          BY SMTT(30), <3>3, <3>8, <4>1, <5>1, <5>2
        <5>4. CASE k = Len(got[w]) + 1
          BY SMTT(30), <3>1, <3>2, <3>3, <4>1, <5>1, <5>3, <5>4
        <5>5. CASE k \in 1 .. Len(got[w])
          BY SMTT(30), <3>3, <3>8, <4>1, <5>1, <5>3, <5>5 DEF InOrderOnce
        <5> QED
          BY SMTT(30), <5>2, <5>4, <5>5
      <4>2. CASE ~(w \in topics[t].subs /\ Alive(w))
        BY Zenon, <3>2, <3>8, <4>2 DEF InOrderOnce
      <4> QED
        BY Zenon, <4>1, <4>2
    <3> QED
      BY Zenon, <3>7, <3>8 DEF InOrderOnce
  <2> QED
    BY Zenon, <2>1, <2>2

(* The application's steps. *)
<1>OrderApplication.
      ASSUME OrderInv, WatchTypeOK', NEW w \in Watches, Watch(w) \/ Unwatch(w)
      PROVE  Listening' /\ InOrderOnce'
  <2> USE <1>OrderApplication
  <2>0. /\ WatchTypeOK /\ Listening /\ InOrderOnce /\ cmds \in Seq(Commands)
        /\ status \in [Watches -> {"off", "asked", "on", "done", "cancelled", "failed", "ended"}]
    BY Zenon, ListeningTypes DEF OrderInv, WatchTypeOK, WatchersTypeOK
  <2>1. CASE Watch(w)
    <3>1. /\ status[w] = "off" /\ status' = [status EXCEPT ![w] = "asked"]
          /\ cmds' = Append(cmds, [kind |-> "subscribe", watch |-> w])
          /\ UNCHANGED <<topics, use, got>> /\ topicOf' = topicOf
      BY Zenon, <2>1 DEF Watch, topicOf
    <3>2. [kind |-> "subscribe", watch |-> w] \in Commands
      BY Zenon DEF Commands
    <3>3. /\ Len(cmds) \in Nat /\ DOMAIN cmds = 1 .. Len(cmds) /\ DOMAIN cmds' = 1 .. Len(cmds) + 1
          /\ \A k \in DOMAIN cmds : cmds'[k] = cmds[k]
          /\ cmds'[Len(cmds) + 1] = [kind |-> "subscribe", watch |-> w]
      BY SMTT(30), <2>0, <3>1, <3>2, AppendPlaces
    <3>4. \A v \in Watches : status[v] # "off" => status'[v] # "off"
      BY Zenon, <2>0, <3>1
    <3>5. status'[w] # "off" /\ \A v \in Watches : status'[v] = "off" => status[v] = "off"
      BY Zenon, <2>0, <3>1
    <3>6. \A t \in DOMAIN topics : topics[t].subs \subseteq Watches
      BY Zenon, <2>0, ListeningTypes
    <3>7. ASSUME NEW k \in DOMAIN cmds', cmds'[k].kind = "subscribe"
          PROVE  /\ got'[cmds'[k].watch] = <<>> /\ status'[cmds'[k].watch] # "off"
                 /\ \A t \in DOMAIN topics' : cmds'[k].watch \notin topics'[t].subs
                 /\ \A j \in DOMAIN cmds' : cmds'[j] = cmds'[k] => j = k
      <4>1. \A j \in DOMAIN cmds : cmds[j].kind = "subscribe" =>
                /\ cmds[j].watch \in Watches /\ status[cmds[j].watch] # "off" /\ cmds[j].watch # w
        BY Zenon, <2>0, <3>1, ListeningTypes DEF Listening
      <4>2. CASE k = Len(cmds) + 1
        <5>1. cmds'[k].watch = w
          BY SMTT(30), <3>3, <4>2
        <5>2. \A j \in DOMAIN cmds' : cmds'[j] = cmds'[k] => j = k
          BY SMTT(30), <3>3, <3>7, <4>1, <4>2, <5>1
        <5>3. \A t \in DOMAIN topics : w \notin topics[t].subs
          BY Zenon, <2>0, <3>1 DEF Listening
        <5> QED
          BY SMTT(30), <2>0, <3>1, <3>5, <5>1, <5>2, <5>3 DEF Listening
      <4>3. CASE k \in DOMAIN cmds
        <5>1. cmds'[k] = cmds[k] /\ cmds[k].kind = "subscribe" /\ cmds[k].watch # w
          BY Zenon, <3>3, <3>7, <4>1, <4>3
        <5>2. \A j \in DOMAIN cmds' : cmds'[j] = cmds'[k] => j = k
          BY SMTT(30), <2>0, <3>3, <4>3, <5>1 DEF Listening
        <5> QED
          BY SMTT(30), <2>0, <3>1, <3>4, <4>1, <4>3, <5>1, <5>2 DEF Listening
      <4> QED
        BY SMTT(30), <3>3, <4>2, <4>3
    <3>8. Listening'
      BY SMTT(30), <2>0, <3>1, <3>4, <3>5, <3>6, <3>7 DEF Listening
    <3> QED
      BY Zenon, <2>0, <3>1, <3>8 DEF InOrderOnce
  <2>2. CASE Unwatch(w)
    <3>1. UNCHANGED <<use, got>> /\ topicOf' = topicOf
      BY Zenon, <2>2 DEF Unwatch, topicOf
    <3>2. \A v \in Watches : status'[v] = "off" <=> status[v] = "off"
      BY SMTT(30), <2>0, <2>2 DEF Unwatch, Alive
    <3>3. CASE Gone
      <4>1. DOMAIN topics' = {} /\ DOMAIN cmds' = {}
        BY SMTT(30), <3>3 DEF Gone
      <4> QED
        BY Zenon, <2>0, <3>1, <3>2, <4>1 DEF Listening, InOrderOnce
    <3>4. CASE UNCHANGED topics /\ cmds' = Append(cmds, [kind |-> "unsubscribe", watch |-> w])
      <4>1. [kind |-> "unsubscribe", watch |-> w] \in Commands
        BY Zenon DEF Commands
      <4>2. /\ Len(cmds) \in Nat /\ DOMAIN cmds = 1 .. Len(cmds) /\ DOMAIN cmds' = 1 .. Len(cmds) + 1
            /\ \A k \in DOMAIN cmds : cmds'[k] = cmds[k]
            /\ cmds'[Len(cmds) + 1] = [kind |-> "unsubscribe", watch |-> w]
        BY SMTT(30), <2>0, <3>4, <4>1, AppendPlaces
      <4>3. \A k \in DOMAIN cmds' : cmds'[k].kind = "subscribe" => k \in DOMAIN cmds
        BY SMTT(30), <4>2
      <4>4. \A t \in DOMAIN topics : topics[t].subs \subseteq Watches
        BY Zenon, <2>0, ListeningTypes
      <4>5. ASSUME NEW k \in DOMAIN cmds', cmds'[k].kind = "subscribe"
            PROVE  /\ got'[cmds'[k].watch] = <<>> /\ status'[cmds'[k].watch] # "off"
                   /\ \A t \in DOMAIN topics' : cmds'[k].watch \notin topics'[t].subs
                   /\ \A j \in DOMAIN cmds' : cmds'[j] = cmds'[k] => j = k
        <5>1. k \in DOMAIN cmds /\ cmds'[k] = cmds[k] /\ cmds[k].kind = "subscribe"
          BY Zenon, <4>2, <4>3, <4>5
        <5>2. \A j \in DOMAIN cmds' : cmds'[j] = cmds'[k] => j = k
          BY SMTT(30), <2>0, <4>2, <4>3, <5>1 DEF Listening
        <5>3. cmds[k].watch \in Watches
          BY Zenon, <2>0, <5>1, ListeningTypes
        <5> QED
          BY Zenon, <2>0, <3>1, <3>2, <3>4, <5>1, <5>2, <5>3 DEF Listening
      <4>6. Listening'
        BY SMTT(30), <2>0, <3>1, <3>2, <3>4, <4>4, <4>5 DEF Listening
      <4> QED
        BY Zenon, <2>0, <3>1, <4>6 DEF InOrderOnce
    <3> QED
      BY Zenon, <2>2, <3>3, <3>4 DEF Unwatch
  <2> QED
    BY Zenon, <2>1, <2>2

(* The commands. *)
<1>OrderCommands.
      ASSUME OrderInv, WatchTypeOK', HandleCmd \/ ApplyOffline
      PROVE  Listening' /\ InOrderOnce'
  <2> USE <1>OrderCommands
  <2>0. /\ WatchTypeOK /\ Listening /\ InOrderOnce
        /\ \A t \in DOMAIN topics : topics[t].cursor \in Int
    BY Zenon, ListeningTypes DEF OrderInv
  <2>1. cmds # <<>> /\ cmds' = Tail(cmds)
    BY Zenon DEF HandleCmd, ApplyOffline
  <2>2. PICK w \in Watches, t \in Topics :
            /\ w = Head(cmds).watch /\ t = topicOf[w]
            /\ \/ CmdJoins(w, t) \/ CmdAsks(w, t) \/ CmdLeaves(w, t)
               \/ CmdCloses(w, t) \/ CmdIdles(w, t)
               \/ /\ UNCHANGED watchers
                  /\ OffJoins(w, t) \/ OffLeaves(w, t) \/ OffCloses(w, t) \/ OffIdles(w, t)
    <3>1. CASE HandleCmd
      BY Zenon, <2>0, <3>1, HandleCmdIs
    <3>2. CASE ApplyOffline
      <4>1. UNCHANGED watchers
        BY Zenon, <3>2 DEF ApplyOffline
      <4> QED
        BY Zenon, <2>0, <3>2, <4>1, ApplyOfflineIs
    <3> QED
      BY Zenon, <3>1, <3>2
  <2>3. Uneventful
    <3>1. UNCHANGED watchers \/ Returned({w})
      BY Zenon, <2>2 DEF CmdJoins, CmdAsks, CmdLeaves, CmdCloses, CmdIdles
    <3> QED
      BY Zenon, <3>1 DEF Uneventful, watchers, Returned
  <2>4. \/ Edited(t, topics'[t].live, Entry(t).subs \cup {w}, topics'[t].pending, Entry(t).cursor)
           /\ Head(cmds).kind = "subscribe"
        \/ t \in DOMAIN topics
           /\ Edited(t, topics'[t].live, topics[t].subs \ {w}, topics'[t].pending, topics[t].cursor)
        \/ Removed(t)
        \/ topics' = topics
    <3>1. t \in DOMAIN topics => Entry(t) = topics[t]
      BY Zenon DEF Entry
    <3> QED
      BY Zenon, <2>2, <3>1 DEF CmdJoins, CmdAsks, CmdLeaves, CmdCloses, CmdIdles, OffJoins, OffLeaves,
             OffCloses, OffIdles, Edited
  <2>5. \A u \in DOMAIN topics' : \A v \in topics'[u].subs :
            \/ /\ u \in DOMAIN topics /\ v \in topics[u].subs
               /\ topics[u].cursor <= topics'[u].cursor
            \/ Head(cmds).kind = "subscribe" /\ v = w /\ u = t
    <3>1. CASE /\ Edited(t, topics'[t].live, Entry(t).subs \cup {w}, topics'[t].pending, Entry(t).cursor)
               /\ Head(cmds).kind = "subscribe"
      <4>1. IF t \in DOMAIN topics THEN Entry(t) = topics[t] ELSE Entry(t).subs = {}
        BY Zenon DEF Entry, Fresh
      <4>2. /\ DOMAIN topics' = DOMAIN topics \cup {t} /\ topics'[t].subs = Entry(t).subs \cup {w}
            /\ topics'[t].cursor = Entry(t).cursor
            /\ \A u \in DOMAIN topics : u # t => topics'[u] = topics[u]
        BY Zenon, <3>1 DEF Edited
      <4> QED
        BY SMTT(30), <2>0, <3>1, <4>1, <4>2
    <3>2. CASE /\ t \in DOMAIN topics
               /\ Edited(t, topics'[t].live, topics[t].subs \ {w}, topics'[t].pending, topics[t].cursor)
      BY SMTT(30), <2>0, <3>2 DEF Edited
    <3>3. CASE Removed(t)
      BY SMTT(30), <2>0, <3>3 DEF Removed
    <3>4. CASE topics' = topics
      BY SMTT(30), <2>0, <3>4
    <3> QED
      BY Zenon, <2>4, <3>1, <3>2, <3>3, <3>4
  <2>6. Listening'
    BY Zenon, <2>0, <2>1, <2>2, <2>3, <2>5, <1>ListenTakes
  <2> QED
    BY Zenon, <2>0, <2>3, <2>6 DEF Uneventful, InOrderOnce

(* What the actor reads. *)
<1>OrderReads.
      ASSUME OrderInv, WatchTypeOK', HandleMsg \/ ResubscribeMsg \/ Release \/ CaughtUp
      PROVE  Listening' /\ InOrderOnce'
  <2> USE <1>OrderReads
  <2>0. /\ WatchTypeOK /\ Listening /\ InOrderOnce
        /\ \A t \in DOMAIN topics : topics[t].cursor \in Int
    BY Zenon, ListeningTypes DEF OrderInv
  <2>1. ASSUME NEW t \in Topics, NEW n \in Nat, Acks(t, n), cmds' = cmds PROVE Listening' /\ InOrderOnce'
    <3>1. UNCHANGED watchers \/ \E ws : Returned(ws)
      BY Zenon, <2>1 DEF Acks
    <3>2. Uneventful
      BY Zenon, <3>1 DEF Uneventful, watchers, Returned
    <3>3. Narrows
      <4>1. CASE topics' = topics
        BY SMTT(30), <2>0, <4>1 DEF Narrows
      <4>2. CASE topics' # topics
        <5>1. /\ t \in DOMAIN topics /\ DOMAIN topics' = DOMAIN topics
              /\ topics'[t].subs = topics[t].subs
              /\ topics'[t].cursor = IF topics[t].cursor = NoCursor THEN n ELSE topics[t].cursor
              /\ \A u \in DOMAIN topics : u # t => topics'[u] = topics[u]
          BY Zenon, <2>1, <4>2 DEF Acks, Edited
        <5>2. topics[t].cursor <= topics'[t].cursor
          BY SMTT(30), <2>0, <5>1 DEF NoCursor
        <5> QED
          BY SMTT(30), <2>0, <5>1, <5>2 DEF Narrows
      <4> QED
        BY Zenon, <4>1, <4>2
    <3>4. Listening'
      BY Zenon, <2>0, <2>1, <3>2, <3>3, <1>ListenStays
    <3> QED
      BY Zenon, <2>0, <3>2, <3>4 DEF Uneventful, InOrderOnce
  <2>2. ASSUME NEW e \in Events, Delivers(e.topic, e.n), UNCHANGED <<use, status, cmds>>
        PROVE  Listening' /\ InOrderOnce'
    <3>1. e.n \in Nat
      BY Zenon DEF Events
    <3> QED
      BY Zenon, <2>0, <2>2, <3>1, <1>ListenDelivers
  <2>3. ASSUME topics' = topics, got' = got, use' = use, status' = status, cmds' = cmds
        PROVE  Listening' /\ InOrderOnce'
    BY Zenon, <2>0, <2>3 DEF Listening, InOrderOnce, topicOf
  <2>4. CASE HandleMsg
    <3>1. down # <<>> /\ cmds' = cmds
      BY Zenon, <2>4 DEF HandleMsg
    <3>2. CASE Head(down).kind = "topic_ok"
      BY Zenon, <2>0, <2>1, <2>4, <3>1, <3>2, HeadTypes, AckIs DEF HandleMsg
    <3>3. CASE Head(down).kind # "topic_ok"
      <4>1. Head(down) \in Events /\ Deliver(Head(down)) /\ UNCHANGED <<use, status>>
        BY Zenon, <2>0, <2>4, <3>1, <3>3, HeadTypes DEF HandleMsg
      <4> QED
        BY Zenon, <2>0, <2>2, <3>1, <4>1, DeliverIs
    <3> QED
      BY Zenon, <3>2, <3>3
  <2>5. CASE ResubscribeMsg
    <3>1. down # <<>> /\ cmds' = cmds
      BY Zenon, <2>5 DEF ResubscribeMsg
    <3>2. CASE Head(down).kind = "topic_ok"
      BY Zenon, <2>0, <2>1, <2>5, <3>1, <3>2, HeadTypes, AckIs DEF ResubscribeMsg
    <3>3. CASE Head(down).kind # "topic_ok"
      BY Zenon, <2>3, <2>5, <3>1, <3>3 DEF ResubscribeMsg, watchers
    <3> QED
      BY Zenon, <3>2, <3>3
  <2>6. CASE Release
    <3>1. UNCHANGED <<use, status, cmds>>
      BY Zenon, <2>6 DEF Release
    <3>2. CASE buffered = <<>>
      BY Zenon, <2>3, <2>6, <3>1, <3>2 DEF Release
    <3>3. CASE buffered # <<>>
      <4>1. Head(buffered) \in Events /\ Deliver(Head(buffered))
        BY Zenon, <2>0, <2>6, <3>3, HeadTypes DEF Release
      <4> QED
        BY Zenon, <2>0, <2>2, <3>1, <4>1, DeliverIs
    <3> QED
      BY Zenon, <3>2, <3>3
  <2>7. CASE CaughtUp
    <3>1. UNCHANGED <<use, status, cmds>>
      BY Zenon, <2>7 DEF CaughtUp
    <3>2. CASE \E e : CatchesUp(e)
      BY Zenon, <2>2, <3>1, <3>2 DEF CatchesUp
    <3>3. CASE Advances /\ got' = got
      <4>1. reply \in Replies
        BY Zenon, <2>0, <2>7, CaughtUpIs
      <4>2. \A t \in DOMAIN topics : reply.cursors[t] \in Nat
        BY Zenon, <4>1 DEF Replies
      <4>3. Narrows
        BY SMTT(30), <2>0, <3>3, <4>2 DEF Advances, Narrows
      <4>4. Uneventful
        BY Zenon, <3>1, <3>3 DEF Uneventful
      <4>5. Listening'
        BY Zenon, <2>0, <3>1, <4>3, <4>4, <1>ListenStays
      <4> QED
        BY Zenon, <2>0, <3>3, <4>5 DEF InOrderOnce
    <3> QED
      BY Zenon, <2>0, <2>7, <3>2, <3>3, CaughtUpIs
  <2> QED
    BY Zenon, <2>4, <2>5, <2>6, <2>7

(* Connections, and the node. *)
<1>OrderConnections.
      ASSUME OrderInv, WatchTypeOK',
             \/ Dial \/ HelloOk \/ HelloFails \/ SocketEnds \/ SyncOnce \/ SyncAnswer \/ SyncFails
             \/ \E t \in Topics : Commit(t)
             \/ Publish \/ HandleClient \/ AnswerSubscribe \/ SendEvent \/ Drop
             \/ UNCHANGED watchVars
      PROVE  Listening' /\ InOrderOnce'
  <2> USE <1>OrderConnections
  <2>0. /\ WatchTypeOK /\ Listening /\ InOrderOnce
        /\ \A t \in DOMAIN topics : topics[t].cursor \in Int
    BY Zenon, ListeningTypes DEF OrderInv
  <2>1. ASSUME topics' = topics, cmds' = cmds, UNCHANGED watchers PROVE Listening' /\ InOrderOnce'
    BY Zenon, <2>0, <2>1 DEF Listening, InOrderOnce, topicOf, watchers
  <2>2. CASE \/ \E t \in Topics : Commit(t)
             \/ Publish \/ HandleClient \/ AnswerSubscribe \/ SendEvent \/ Drop
             \/ UNCHANGED watchVars
    <3>1. UNCHANGED <<actor, watchers>>
      BY Zenon, <2>2 DEF Commit, Publish, HandleClient, AnswerSubscribe, SendEvent, Drop, watchVars
    <3>2. UNCHANGED <<topics, cmds>>
      BY Zenon, <3>1 DEF actor
    <3> QED
      BY Zenon, <2>1, <3>1, <3>2
  <2>3. CASE Dial \/ SocketEnds \/ SyncOnce \/ SyncAnswer \/ SyncFails
    BY Zenon, <2>1, <2>3 DEF Dial, SocketEnds, SyncOnce, SyncAnswer, SyncFails
  <2>4. CASE HelloOk
    <3>1. cmds' = cmds /\ UNCHANGED watchers
      BY Zenon, <2>4 DEF HelloOk
    <3>2. CASE topics' = topics
      BY Zenon, <2>1, <3>1, <3>2
    <3>3. CASE Reopens
      <4>1. Narrows /\ Uneventful
        BY SMTT(30), <2>0, <3>1, <3>3 DEF Reopens, Narrows, Uneventful, watchers
      <4>2. Listening'
        BY Zenon, <2>0, <3>1, <4>1, <1>ListenStays
      <4> QED
        BY Zenon, <2>0, <3>1, <4>2 DEF InOrderOnce, watchers
    <3> QED
      BY Zenon, <2>0, <2>4, <3>2, <3>3, HelloOkIs
  <2>5. CASE HelloFails
    <3>1. CASE End
      <4>1. /\ DOMAIN topics' = {} /\ DOMAIN cmds' = {} /\ UNCHANGED <<use, got>>
            /\ \A w \in Watches : status'[w] = "off" => status[w] = "off"
        BY SMTT(30), <3>1 DEF End, Gone
      <4> QED
        BY Zenon, <2>0, <4>1 DEF Listening, InOrderOnce
    <3>2. CASE Lost /\ UNCHANGED <<topics, cmds, watchers>>
      BY Zenon, <2>1, <3>2
    <3> QED
      BY Zenon, <2>5, <3>1, <3>2 DEF HelloFails
  <2> QED
    BY Zenon, <2>2, <2>3, <2>4, <2>5
<1>1. WatchInit => OrderInv
  <2> SUFFICES ASSUME WatchInit PROVE OrderInv
    BY Zenon
  <2>1. DOMAIN topics = {} /\ DOMAIN cmds = {} /\ \A w \in Watches : got[w] = <<>>
    BY SMTT(30) DEF WatchInit
  <2> QED
    BY SMTT(30), <2>1, WatchInitTypes DEF OrderInv, Listening, InOrderOnce
<1>2. OrderInv /\ [WatchNext]_watchVars => OrderInv'
  <2> SUFFICES ASSUME OrderInv, [WatchNext]_watchVars PROVE OrderInv'
    BY Zenon
  <2>1. WatchTypeOK'
    BY Zenon, WatchTypes DEF OrderInv
  <2>2. Listening' /\ InOrderOnce'
    BY Zenon, <2>1, <1>OrderApplication, <1>OrderCommands, <1>OrderReads, <1>OrderConnections DEF WatchNext
  <2> QED
    BY Zenon, <2>1, <2>2 DEF OrderInv
<1>3. OrderInv => InOrderOnce
  BY Zenon DEF OrderInv
<1> QED
  BY <1>1, <1>2, <1>3, PTL DEF WatchSpec

=============================================================================
