--------------------------- MODULE CatchUpProofs ---------------------------
(***************************************************************************)
(* Proofs about CatchUp, for any number of records, operations, failures   *)
(* and watches.                                                            *)
(***************************************************************************)
EXTENDS CatchUp, TLAPS

(* No instant is ahead of the clock, and the last one minted is the last   *)
(* change of some record: a registration answers the clock itself.         *)
Dated ==
    /\ cursor <= clock
    /\ \A r \in Records : chain[r] <= clock /\ dead[r] <= clock /\ anchor[r] <= clock
    /\ clock = 0 \/ \E r \in Records : LastChange(r) = clock

(* A living record's version is the one its chain entry names. *)
Living == \A r \in Records : chain[r] # 0 => anchor[r] = chain[r] /\ dead[r] = 0

(* What the read of the chain at the moment h left behind. *)
ChainReadAt(e, h) ==
    /\ e.since <= h
    /\ \A r \in Records :
           /\ dead[r] <= h
           /\ e.since < chain[r] /\ chain[r] <= h => r \in DOMAIN e.saved
    /\ \A r \in DOMAIN e.saved :
           /\ e.saved[r] <= h /\ dead[r] = 0
           /\ chain[r] <= h => e.saved[r] = chain[r]
           /\ mode = "websocket" => anchor[r] = e.saved[r]

(* What the reads of the chain and the removal log at h left behind. *)
BothReadAt(e, h) ==
    /\ e.since <= h
    /\ \A r \in Records :
           /\ e.since < chain[r] /\ chain[r] <= h => r \in DOMAIN e.saved
           /\ e.since < dead[r] /\ dead[r] <= h => r \in DOMAIN e.removed
    /\ \A r \in DOMAIN e.saved :
           /\ e.saved[r] <= h /\ r \notin DOMAIN e.removed
           /\ dead[r] = 0 \/ dead[r] > h
           /\ chain[r] <= h /\ chain[r] # 0 => e.saved[r] = chain[r]
           /\ mode = "websocket" => anchor[r] = e.saved[r]
    /\ \A r \in DOMAIN e.removed : e.removed[r] = dead[r] /\ dead[r] # 0 /\ dead[r] <= h

(* An answer holds every change up to its cursor, one event a record. *)
Covers(e) ==
    /\ e.since <= e.cursor
    /\ \A c \in e.events : c.key <= e.cursor
    /\ \A c, d \in e.events : c.rec = d.rec => c = d
    /\ mode = "websocket" => \A c \in e.events : c.at = c.key
    /\ \A r \in Records : e.since < LastChange(r) /\ LastChange(r) <= e.cursor =>
           \E c \in e.events : c.rec = r /\ c.at = LastChange(r)

(* What an exchange knows at each of its steps. *)
Sound(e) ==
    e # NoExchange =>
        /\ e.since <= clock
        /\ e.step = "chain" => \E h \in 0 .. clock : ChainReadAt(e, h)
        /\ e.step = "dead" => \E h \in 0 .. clock : BothReadAt(e, h)
        /\ e.step = "answered" =>
               /\ e.cursor <= clock
               /\ IF e.since = Unset THEN e.events = {} ELSE Covers(e)

(* A tick began at the client's cursor; a piggybacked delta not after it.  *)
Began ==
    LET tick == exchange["tick"]
        post == exchange["post"]
    IN
    /\ ~watching => cursor = Unset
    /\ tick # NoExchange => watching /\ tick.since = cursor
    /\ post # NoExchange =>
           /\ mode = "poll" /\ post.since # Unset
           /\ watching /\ cursor # Unset => post.since <= cursor
           /\ tick # NoExchange /\ tick.step = "answered" => post.since <= tick.cursor

CatchUpInv ==
    /\ CatchUpTypeOK /\ Dated /\ Living /\ Began
    /\ \A x \in {"tick", "post"} : Sound(exchange[x])
    /\ CursorCoversDelivered

-----------------------------------------------------------------------------
(* The writers. *)

(* The two forms of CommitChange. *)
SaveOf(r) ==
    /\ dead[r] = 0
    /\ chain' = [chain EXCEPT ![r] = clock + 1]
    /\ anchor' = [anchor EXCEPT ![r] = clock + 1]
    /\ dead' = dead

RemoveOf(r) ==
    /\ chain[r] # 0
    /\ chain' = [chain EXCEPT ![r] = 0]
    /\ dead' = [dead EXCEPT ![r] = clock + 1]
    /\ anchor' = anchor

(* A commit is a save or a removal, and without hazards neither falls      *)
(* between reads it would disturb (ApplyOp, Undisturbed).                  *)
LEMMA CommitIsOneOf ==
    ASSUME CommitChange, ReadHazards = {}
    PROVE  \E r \in Records :
               \/ /\ SaveOf(r)
                  /\ mode = "websocket" =>
                         \A x \in DOMAIN exchange : exchange[x].step \notin {"chain", "dead"}
               \/ /\ RemoveOf(r)
                  /\ \A x \in DOMAIN exchange : exchange[x].step # "chain"
<1>1. PICK r \in Records, kind \in {"save", "remove"} :
          ApplyOp([rec |-> r, kind |-> kind, at |-> clock + 1])
  BY Zenon DEF CommitChange
<1>2. CASE kind = "save"
  <2>1. SaveOf(r)
    BY Zenon, <1>1, <1>2 DEF ApplyOp, CanApply, SaveOf
  <2>2. mode = "websocket" =>
            \A x \in DOMAIN exchange : exchange[x].step \notin {"chain", "dead"}
    BY Zenon, <1>1, <1>2 DEF ApplyOp, Undisturbed
  <2> QED
    BY Zenon, <2>1, <2>2
<1>3. CASE kind = "remove"
  <2>1. RemoveOf(r)
    BY Zenon, <1>1, <1>3 DEF ApplyOp, CanApply, RemoveOf
  <2>2. \A x \in DOMAIN exchange : exchange[x].step # "chain"
    BY Zenon, <1>1, <1>3 DEF ApplyOp, Undisturbed
  <2> QED
    BY Zenon, <2>1, <2>2
<1> QED
  BY Zenon, <1>1, <1>2, <1>3

(* A commit dates one record with the new instant and leaves the others.   *)
LEMMA CommitMovesOne ==
    ASSUME CatchUpTypeOK, Dated, Living, NEW r \in Records, SaveOf(r) \/ RemoveOf(r),
           clock' = clock + 1, cursor' = cursor
    PROVE  /\ LastChange(r)' = clock + 1
           /\ \A q \in Records \ {r} : /\ chain'[q] = chain[q] /\ dead'[q] = dead[q]
                                       /\ anchor'[q] = anchor[q]
                                       /\ LastChange(q)' = LastChange(q)
           /\ Dated' /\ Living'
<1>1. \A q \in Records : chain[q] \in Nat /\ dead[q] \in Nat /\ anchor[q] \in Nat
  BY Zenon DEF CatchUpTypeOK
<1>2. clock \in Nat /\ chain \in [Records -> Nat] /\ dead \in [Records -> Nat]
          /\ anchor \in [Records -> Nat] /\ cursor \in Nat \cup {Unset}
  BY Zenon DEF CatchUpTypeOK
<1>3. \A q \in Records \ {r} : chain'[q] = chain[q] /\ dead'[q] = dead[q] /\ anchor'[q] = anchor[q]
  BY Zenon, <1>2 DEF SaveOf, RemoveOf
<1>4. \/ chain'[r] = clock + 1 /\ anchor'[r] = clock + 1 /\ dead'[r] = 0
      \/ chain'[r] = 0 /\ anchor'[r] = anchor[r] /\ dead'[r] = clock + 1
  BY Zenon, <1>2 DEF SaveOf, RemoveOf
<1>5. LastChange(r)' = clock + 1
  BY SMTT(30), <1>2, <1>4 DEF LastChange
<1>6. \A q \in Records \ {r} : LastChange(q)' = LastChange(q)
  BY Zenon, <1>3 DEF LastChange
<1>7. Dated'
  <2>1. \A q \in Records : chain'[q] <= clock' /\ dead'[q] <= clock' /\ anchor'[q] <= clock'
    <3> SUFFICES ASSUME NEW q \in Records
                 PROVE  chain'[q] <= clock' /\ dead'[q] <= clock' /\ anchor'[q] <= clock'
      BY Zenon
    <3>1. chain[q] <= clock /\ dead[q] <= clock /\ anchor[q] <= clock
      BY Zenon DEF Dated
    <3> QED
      BY SMTT(30), <1>1, <1>2, <1>3, <1>4, <3>1
  <2> QED
    BY SMTT(30), <1>2, <1>5, <2>1 DEF Dated, Unset
<1>8. Living'
  BY Zenon, <1>2, <1>3, <1>4 DEF Living
<1> QED
  BY Zenon, <1>3, <1>5, <1>6, <1>7, <1>8

(* What an exchange knows survives a commit that is none of the hazards:   *)
(* every change the exchange has to answer for is older than the commit.   *)
LEMMA CommitKeepsSound ==
    ASSUME CatchUpTypeOK, Dated, Living, NEW r \in Records, SaveOf(r) \/ RemoveOf(r),
           clock' = clock + 1, cursor' = cursor, mode' = mode,
           NEW e, ExchangeOK(e), Sound(e),
           mode = "websocket" /\ SaveOf(r) => e.step \notin {"chain", "dead"},
           RemoveOf(r) => e.step # "chain"
    PROVE  Sound(e)'
<1>1. \A q \in Records : chain[q] \in Nat /\ dead[q] \in Nat /\ anchor[q] \in Nat
  BY Zenon DEF CatchUpTypeOK
<1>2. clock \in Nat /\ chain \in [Records -> Nat] /\ dead \in [Records -> Nat]
          /\ anchor \in [Records -> Nat]
  BY Zenon DEF CatchUpTypeOK
<1>3. \A q \in Records \ {r} : /\ chain'[q] = chain[q] /\ dead'[q] = dead[q]
                               /\ anchor'[q] = anchor[q]
                               /\ LastChange(q)' = LastChange(q)
  BY Zenon, CommitMovesOne
<1>4. LastChange(r)' = clock + 1
  BY Zenon, CommitMovesOne
<1>5. \/ SaveOf(r) /\ chain'[r] = clock + 1 /\ dead'[r] = 0 /\ dead[r] = 0
      \/ /\ RemoveOf(r) /\ chain'[r] = 0 /\ dead'[r] = clock + 1 /\ dead[r] = 0
         /\ anchor'[r] = anchor[r]
  BY Zenon, <1>2 DEF SaveOf, RemoveOf, Living
<1> SUFFICES ASSUME e # NoExchange PROVE Sound(e)'
  BY Zenon DEF Sound
<1>6. e.since <= clock' /\ (e.since \in Nat \/ e.since = Unset)
  BY SMTT(30), <1>2 DEF Sound, ExchangeOK, Unset
<1>7. CASE e.step = "asked"
  BY Zenon, <1>6, <1>7 DEF Sound
<1>8. CASE e.step = "chain"
  <2>1. PICK h \in 0 .. clock : ChainReadAt(e, h)
    BY Zenon, <1>8 DEF Sound
  <2>2. SaveOf(r) /\ mode # "websocket" /\ chain'[r] = clock + 1 /\ dead'[r] = 0
    BY Zenon, <1>5, <1>8
  <2>3. DOMAIN e.saved \subseteq Records
    BY Zenon, <1>8 DEF ExchangeOK, Log, NoExchange
  <2>4. ChainReadAt(e, h)'
    BY SMTT(30), <1>1, <1>2, <1>3, <2>1, <2>2, <2>3 DEF ChainReadAt
  <2> QED
    BY SMTT(30), <1>2, <1>6, <1>8, <2>4 DEF Sound
<1>9. CASE e.step = "dead"
  <2>1. PICK h \in 0 .. clock : BothReadAt(e, h)
    BY Zenon, <1>9 DEF Sound
  <2>2. DOMAIN e.saved \subseteq Records /\ DOMAIN e.removed \subseteq Records
    BY Zenon, <1>9 DEF ExchangeOK, Log, NoExchange
  <2>3. r \notin DOMAIN e.removed
    BY Zenon, <1>5, <2>1 DEF BothReadAt
  <2>4. \A q \in Records : /\ e.since < chain'[q] /\ chain'[q] <= h => q \in DOMAIN e.saved
                           /\ e.since < dead'[q] /\ dead'[q] <= h => q \in DOMAIN e.removed
    <3> TAKE q \in Records
    <3>1. CASE q = r
      <4>1. e.since \in Nat
        BY Zenon, <1>9 DEF ExchangeOK, NoExchange
      <4> QED
        BY SMTT(30), <1>2, <1>5, <2>1, <3>1, <4>1
    <3>2. CASE q # r
      BY Zenon, <1>3, <2>1, <3>2 DEF BothReadAt
    <3> QED
      BY Zenon, <3>1, <3>2
  <2>5. \A q \in DOMAIN e.saved :
            /\ e.saved[q] <= h /\ q \notin DOMAIN e.removed
            /\ dead'[q] = 0 \/ dead'[q] > h
            /\ chain'[q] <= h /\ chain'[q] # 0 => e.saved[q] = chain'[q]
            /\ mode = "websocket" => anchor'[q] = e.saved[q]
    <3> TAKE q \in DOMAIN e.saved
    <3>1. CASE q = r
      <4>1. mode = "websocket" => anchor'[r] = anchor[r]
        BY Zenon, <1>5, <1>9
      <4> QED
        BY SMTT(30), <1>2, <1>5, <2>1, <3>1, <4>1 DEF BothReadAt
    <3>2. CASE q # r
      BY Zenon, <1>3, <2>1, <2>2, <3>2 DEF BothReadAt
    <3> QED
      BY Zenon, <3>1, <3>2
  <2>6. \A q \in DOMAIN e.removed : e.removed[q] = dead'[q] /\ dead'[q] # 0 /\ dead'[q] <= h
    BY Zenon, <1>3, <2>1, <2>2, <2>3 DEF BothReadAt
  <2>7. BothReadAt(e, h)'
    BY Zenon, <2>1, <2>4, <2>5, <2>6 DEF BothReadAt
  <2> QED
    BY SMTT(30), <1>2, <1>6, <1>9, <2>7 DEF Sound
<1>10. CASE e.step = "answered"
  <2>1. e.cursor \in Nat /\ e.cursor <= clock
    BY Zenon, <1>10 DEF Sound, ExchangeOK, NoExchange
  <2>2. ASSUME e.since # Unset PROVE Covers(e)'
    <3>1. Covers(e)
      BY Zenon, <1>10, <2>2 DEF Sound
    <3>2. \A q \in Records : LastChange(q)' <= e.cursor => LastChange(q)' = LastChange(q)
      BY SMTT(30), <1>2, <1>3, <1>4, <2>1
    <3>3. ASSUME NEW q \in Records, e.since < LastChange(q)', LastChange(q)' <= e.cursor
          PROVE  \E c \in e.events : c.rec = q /\ c.at = LastChange(q)'
      BY SMTT(30), <3>1, <3>2, <3>3 DEF Covers
    <3> QED
      BY Zenon, <3>1, <3>3 DEF Covers
  <2>3. e.since = Unset => e.events = {}
    BY Zenon, <1>10 DEF Sound
  <2> QED
    BY SMTT(30), <1>2, <1>6, <1>10, <2>1, <2>2, <2>3 DEF Sound
<1> QED
  BY Zenon, <1>7, <1>8, <1>9, <1>10 DEF ExchangeOK

-----------------------------------------------------------------------------
(* Types. *)

Exchanges == {"tick", "post"}

(* One exchange at a time is replaced. *)
LEMMA ExchangeSet ==
    ASSUME CatchUpTypeOK, NEW x \in Exchanges, NEW v, ExchangeOK(v),
           exchange' = [exchange EXCEPT ![x] = v]
    PROVE  /\ exchange' = [y \in {"tick", "post"} |-> exchange'[y]]
           /\ exchange'[x] = v
           /\ \A y \in Exchanges : y # x => exchange'[y] = exchange[y]
           /\ \A y \in {"tick", "post"} : ExchangeOK(exchange'[y])
<1>1. DOMAIN exchange = {"tick", "post"}
  BY Zenon DEF CatchUpTypeOK
<1>2. /\ exchange' = [y \in {"tick", "post"} |-> exchange'[y]]
      /\ exchange'[x] = v
      /\ \A y \in Exchanges : y # x => exchange'[y] = exchange[y]
  BY Zenon, <1>1 DEF Exchanges
<1> QED
  BY Zenon, <1>2 DEF CatchUpTypeOK, Exchanges

(* The timeline of an answer: an instant for every event, and one event at *)
(* most from each of the two reads (collection_changes).                   *)
LEMMA ChangedType ==
    ASSUME CatchUpTypeOK, NEW saved, NEW removed, Log(saved), Log(removed)
    PROVE  /\ Changed(saved, removed) \subseteq [rec : Records, key : Nat, at : Nat]
           /\ AtMostTwoEach(Changed(saved, removed))
<1>1. \A c \in Changed(saved, removed) :
          \/ /\ c.rec \in DOMAIN saved
             /\ c = [rec |-> c.rec, key |-> saved[c.rec], at |-> anchor[c.rec]]
          \/ /\ c.rec \in DOMAIN removed
             /\ c = [rec |-> c.rec, key |-> removed[c.rec], at |-> removed[c.rec]]
  BY SMTT(30) DEF Changed
<1>2. anchor \in [Records -> Nat]
  BY Zenon DEF CatchUpTypeOK
<1>3. Changed(saved, removed) \subseteq [rec : Records, key : Nat, at : Nat]
  BY SMTT(30), <1>1, <1>2 DEF Log
<1>4. AtMostTwoEach(Changed(saved, removed))
  BY Zenon, <1>1 DEF AtMostTwoEach
<1> QED
  BY Zenon, <1>3, <1>4

(* Among a record's events one is the last, so Told is an instant.         *)
LEMMA ToldType ==
    ASSUME CatchUpTypeOK, NEW events, events \subseteq [rec : Records, key : Nat, at : Nat],
           AtMostTwoEach(events), NEW r \in Records
    PROVE  /\ Told(events, r) \in Nat
           /\ \/ Told(events, r) = seen[r] /\ {e \in events : e.rec = r /\ Delivers(events, e)} = {}
              \/ \E e \in events : e.rec = r /\ Delivers(events, e) /\ Told(events, r) = e.at
<1> DEFINE mine == {e \in events : e.rec = r /\ Delivers(events, e)}
<1>1. CASE mine = {}
  BY Zenon, <1>1 DEF Told, CatchUpTypeOK
<1>2. CASE mine # {}
  <2>1. \E e \in mine : \A d \in mine : d.key <= e.key
    <3>1. PICK c \in mine : TRUE
      BY Zenon, <1>2
    <3>2. CASE \A d \in mine : d.key <= c.key
      BY Zenon, <3>1, <3>2
    <3>3. CASE \E d \in mine : ~(d.key <= c.key)
      <4>1. PICK d \in mine : ~(d.key <= c.key)
        BY Zenon, <3>3
      <4>2. \A f \in mine : f = c \/ f = d
        BY SMTT(30), <3>1, <4>1 DEF AtMostTwoEach
      <4>3. c.key \in Nat /\ d.key \in Nat
        BY Zenon, <3>1, <4>1
      <4>4. c.key <= d.key /\ d.key <= d.key
        BY SMTT(30), <4>1, <4>3
      <4> QED
        BY Zenon, <4>1, <4>2, <4>4
    <3> QED
      BY Zenon, <3>2, <3>3
  <2>2. (CHOOSE e \in mine : \A d \in mine : d.key <= e.key) \in mine
    BY Zenon, <2>1
  <2>3. PICK e : e = CHOOSE c \in mine : \A d \in mine : d.key <= c.key
    BY Zenon
  <2>4. Told(events, r) = e.at
    BY Zenon, <1>2, <2>3 DEF Told
  <2>5. e \in events /\ e.rec = r /\ Delivers(events, e)
    BY Zenon, <2>2, <2>3
  <2>6. e.at \in Nat
    BY Zenon, <2>5
  <2> QED
    BY Zenon, <2>4, <2>5, <2>6
<1> QED
  BY Zenon, <1>1, <1>2

(* Every step keeps the types. *)
LEMMA StepTypes == CatchUpTypeOK /\ [CatchUpNext]_catchUpVars => CatchUpTypeOK'
<1> SUFFICES ASSUME CatchUpTypeOK, [CatchUpNext]_catchUpVars PROVE CatchUpTypeOK'
  BY Zenon
<1>0. DOMAIN exchange = Exchanges
  BY Zenon DEF CatchUpTypeOK, Exchanges
<1>1. CASE CommitChange
  <2>1. PICK r \in Records, kind \in {"save", "remove"} :
            ApplyOp([rec |-> r, kind |-> kind, at |-> clock + 1])
    BY Zenon, <1>1 DEF CommitChange
  <2>2. clock \in Nat /\ chain \in [Records -> Nat] /\ dead \in [Records -> Nat]
            /\ anchor \in [Records -> Nat]
    BY Zenon DEF CatchUpTypeOK
  <2>3. /\ chain' \in [Records -> Nat] /\ dead' \in [Records -> Nat]
        /\ anchor' \in [Records -> Nat]
    BY SMTT(30), <2>1, <2>2 DEF ApplyOp
  <2>4. clock' \in Nat
    BY SMTT(30), <1>1, <2>2 DEF CommitChange
  <2> QED
    BY Zenon, <1>1, <2>3, <2>4 DEF CommitChange, client, CatchUpTypeOK
<1>2. ASSUME NEW x \in Exchanges, NEW v, ExchangeOK(v), exchange' = [exchange EXCEPT ![x] = v],
             UNCHANGED <<clock, collection, client>>
      PROVE  CatchUpTypeOK'
  BY Zenon, <1>2, ExchangeSet DEF CatchUpTypeOK, collection, client
<1>3. ASSUME NEW x \in Exchanges, Ask(x) PROVE CatchUpTypeOK'
  <2>1. PICK v : v = [step |-> "asked", since |-> cursor]
    BY Zenon
  <2>2. ExchangeOK(v)
    BY Zenon, <2>1 DEF ExchangeOK, CatchUpTypeOK
  <2> QED
    BY Zenon, <1>2, <1>3, <2>1, <2>2 DEF Ask
<1>4. ASSUME NEW x \in Exchanges, Fault(x) PROVE CatchUpTypeOK'
  <2>1. ExchangeOK(NoExchange)
    BY Zenon DEF ExchangeOK
  <2> QED
    BY Zenon, <1>2, <1>4, <2>1 DEF Fault
<1>5. ASSUME NEW x \in Exchanges, Register(x) PROVE CatchUpTypeOK'
  <2>1. PICK h \in 0 .. clock : exchange' = [exchange EXCEPT ![x] =
            [step |-> "answered", since |-> Unset, events |-> {}, cursor |-> h]]
    BY Zenon, <1>5 DEF Register
  <2>2. ExchangeOK([step |-> "answered", since |-> Unset, events |-> {}, cursor |-> h])
    BY SMTT(30) DEF ExchangeOK, AtMostTwoEach, CatchUpTypeOK
  <2> QED
    BY Zenon, <1>2, <1>5, <2>1, <2>2 DEF Register
<1>6. ASSUME NEW x \in Exchanges, ReadChain(x) PROVE CatchUpTypeOK'
  <2>1. PICK saved : saved = [r \in Past(chain, exchange[x].since) |-> chain[r]]
    BY Zenon
  <2>2. PICK v : v = [step |-> "chain", since |-> exchange[x].since, saved |-> saved]
    BY Zenon
  <2>3. Log(saved)
    BY Zenon, <2>1 DEF Log, Past, CatchUpTypeOK
  <2>4. exchange[x].since \in Nat
    BY SMTT(30), <1>6 DEF CatchUpTypeOK, ExchangeOK, ReadChain, NoExchange, Exchanges
  <2>5. ExchangeOK(v)
    BY Zenon, <2>2, <2>3, <2>4 DEF ExchangeOK
  <2> QED
    BY Zenon, <1>2, <1>6, <2>1, <2>2, <2>5 DEF ReadChain
<1>7. ASSUME NEW x \in Exchanges, ReadDead(x) PROVE CatchUpTypeOK'
  <2>1. PICK removed : removed = [r \in Past(dead, exchange[x].since) |-> dead[r]]
    BY Zenon
  <2>2. PICK v : v = [step |-> "dead", since |-> exchange[x].since, saved |-> exchange[x].saved,
                      removed |-> removed]
    BY Zenon
  <2>3. Log(removed)
    BY Zenon, <2>1 DEF Log, Past, CatchUpTypeOK
  <2>4. exchange[x].since \in Nat /\ Log(exchange[x].saved)
    BY SMTT(30), <1>7 DEF CatchUpTypeOK, ExchangeOK, ReadDead, NoExchange, Exchanges
  <2>5. ExchangeOK(v)
    BY Zenon, <2>2, <2>3, <2>4 DEF ExchangeOK
  <2> QED
    BY Zenon, <1>2, <1>7, <2>1, <2>2, <2>5 DEF ReadDead
<1>8. ASSUME NEW x \in Exchanges, Answer(x) PROVE CatchUpTypeOK'
  <2>1. PICK e : e = exchange[x]
    BY Zenon
  <2>2. PICK timeline : timeline = Changed(e.saved, e.removed)
    BY Zenon
  <2>3. PICK h \in 0 .. clock : exchange' = [exchange EXCEPT ![x] =
            [step |-> "answered", since |-> e.since, events |-> timeline, cursor |-> h]]
    BY Zenon, <1>8, <2>1, <2>2 DEF Answer
  <2>4. e.since \in Nat /\ Log(e.saved) /\ Log(e.removed)
    BY SMTT(30), <1>8, <2>1 DEF CatchUpTypeOK, ExchangeOK, Answer, NoExchange, Exchanges
  <2>5. timeline \subseteq [rec : Records, key : Nat, at : Nat] /\ AtMostTwoEach(timeline)
    BY Zenon, <2>2, <2>4, ChangedType
  <2>6. h \in Nat
    BY SMTT(30) DEF CatchUpTypeOK
  <2>7. ExchangeOK([step |-> "answered", since |-> e.since, events |-> timeline, cursor |-> h])
    BY Zenon, <2>4, <2>5, <2>6 DEF ExchangeOK
  <2> QED
    BY Zenon, <1>2, <1>8, <2>3, <2>7 DEF Answer
<1>9. ASSUME NEW x \in Exchanges, ApplyReply(x) PROVE CatchUpTypeOK'
  <2>1. PICK e : e = exchange[x]
    BY Zenon
  <2>2. e.cursor \in Nat /\ e.events \subseteq [rec : Records, key : Nat, at : Nat]
            /\ AtMostTwoEach(e.events)
    BY SMTT(30), <1>9, <2>1 DEF CatchUpTypeOK, ExchangeOK, ApplyReply, NoExchange, Exchanges
  <2>3. /\ exchange' = [y \in {"tick", "post"} |-> exchange'[y]]
        /\ \A y \in {"tick", "post"} : ExchangeOK(exchange'[y])
    BY Zenon, <1>9, ExchangeSet DEF ApplyReply, ExchangeOK
  <2>4. CASE watching
    <3>1. PICK h \in Unset .. clock :
              /\ cursor' = Merged(h, e.cursor)
              /\ seen' = [r \in Records |-> Told(e.events, r)]
              /\ start' = IF cursor = Unset THEN cursor' ELSE start
      BY Zenon, <1>9, <2>1, <2>4 DEF ApplyReply
    <3>2. cursor' \in Nat
      BY SMTT(30), <2>2, <3>1 DEF Merged, Unset, CatchUpTypeOK
    <3>3. seen' \in [Records -> Nat]
      BY Zenon, <2>2, <3>1, ToldType
    <3>4. start' \in Nat
      BY Zenon, <3>1, <3>2 DEF CatchUpTypeOK
    <3> QED
      BY Zenon, <1>9, <2>3, <3>2, <3>3, <3>4 DEF ApplyReply, CatchUpTypeOK, collection
  <2>5. CASE ~watching
    BY Zenon, <1>9, <2>3, <2>5 DEF ApplyReply, CatchUpTypeOK, collection
  <2> QED
    BY Zenon, <2>4, <2>5
<1>10. CASE UnwatchTopic
  BY Zenon, <1>10 DEF UnwatchTopic, CatchUpTypeOK, collection
<1>11. CASE WatchTopic
  <2>1. ExchangeOK([step |-> "asked", since |-> Unset])
    BY Zenon DEF ExchangeOK
  <2>2. /\ exchange' = [y \in {"tick", "post"} |-> exchange'[y]]
        /\ \A y \in {"tick", "post"} : ExchangeOK(exchange'[y])
    BY Zenon, <1>11, <2>1, ExchangeSet DEF WatchTopic, Exchanges
  <2> QED
    BY Zenon, <1>11, <2>2 DEF WatchTopic, CatchUpTypeOK, collection
<1>12. CASE UNCHANGED catchUpVars
  BY Zenon, <1>12 DEF catchUpVars, collection, client, CatchUpTypeOK
<1> QED
  BY Zenon, <1>0, <1>1, <1>3, <1>4, <1>5, <1>6, <1>7, <1>8, <1>9, <1>10, <1>11, <1>12 DEF CatchUpNext

(* Everything has its type in an initial state.                            *)
LEMMA InitTypes == CatchUpInit => CatchUpTypeOK
<1> SUFFICES ASSUME CatchUpInit PROVE CatchUpTypeOK
  BY Zenon
<1>1. \A x \in {"tick", "post"} : ExchangeOK(exchange[x])
  BY Zenon DEF CatchUpInit, ExchangeOK
<1>2. exchange = [x \in {"tick", "post"} |-> exchange[x]]
  BY Zenon DEF CatchUpInit
<1> QED
  BY Zenon, <1>1, <1>2 DEF CatchUpInit, CatchUpTypeOK, Unset

(***************************************************************************)
(* A tick and a piggybacked delta may be applied in either order, with any *)
(* answer: the cursor of a watched topic never moves back (apply_reply     *)
(* takes the greater, deliver only moves forward).  No hypothesis on the   *)
(* interleaving of the node's reads with its writers.                      *)
(***************************************************************************)
THEOREM CursorMovesForward == CatchUpSpec => CursorNeverRegresses
<1>1. CatchUpInit => CatchUpTypeOK
  BY Zenon, InitTypes
<1>2. CatchUpTypeOK /\ [CatchUpNext]_catchUpVars => CatchUpTypeOK'
  BY Zenon, StepTypes
<1>3. CatchUpTypeOK /\ [CatchUpNext]_catchUpVars
          => [watching' /\ cursor' # Unset => cursor <= cursor']_catchUpVars
  <2> SUFFICES ASSUME CatchUpTypeOK, CatchUpNext, watching', cursor' # Unset
               PROVE  cursor <= cursor'
    BY Zenon
  <2>1. cursor \in Int
    BY SMTT(30) DEF CatchUpTypeOK, Unset
  <2>2. cursor' = cursor => cursor <= cursor'
    BY SMTT(30), <2>1
  <2>3. ASSUME NEW x \in {"tick", "post"}, ApplyReply(x) PROVE cursor <= cursor'
    <3>1. CASE watching
      <4>1. PICK e : e = exchange[x]
        BY Zenon
      <4>2. PICK h \in Unset .. clock : Reached(e.events, h) /\ cursor' = Merged(h, e.cursor)
        BY Zenon, <2>3, <3>1, <4>1 DEF ApplyReply
      <4>3. cursor <= h
        BY SMTT(30), <2>1, <4>2 DEF Reached, IsHighest, CatchUpTypeOK
      <4>4. e.cursor \in Nat
        BY SMTT(30), <2>3, <4>1 DEF CatchUpTypeOK, ExchangeOK, ApplyReply, NoExchange
      <4> QED
        BY SMTT(30), <2>1, <4>2, <4>3, <4>4 DEF Merged, Unset
    <3>2. CASE ~watching
      BY Zenon, <2>2, <2>3, <3>2 DEF ApplyReply
    <3> QED
      BY Zenon, <3>1, <3>2
  <2>4. CASE CommitChange
    BY Zenon, <2>2, <2>4 DEF CommitChange, client
  <2>5. ASSUME NEW x \in {"tick", "post"},
               Ask(x) \/ Fault(x) \/ Register(x) \/ ReadChain(x) \/ ReadDead(x) \/ Answer(x)
        PROVE  cursor <= cursor'
    BY Zenon, <2>2, <2>5 DEF Ask, Fault, Register, ReadChain, ReadDead, Answer, client
  <2>6. CASE UnwatchTopic
    BY Zenon, <2>6 DEF UnwatchTopic
  <2>7. CASE WatchTopic
    BY Zenon, <2>2, <2>7 DEF WatchTopic
  <2>8. DOMAIN exchange = {"tick", "post"}
    BY Zenon DEF CatchUpTypeOK
  <2> QED
    BY Zenon, <2>3, <2>4, <2>5, <2>6, <2>7, <2>8 DEF CatchUpNext
<1> QED
  BY <1>1, <1>2, <1>3, PTL DEF CatchUpSpec, CursorNeverRegresses

-----------------------------------------------------------------------------
(* The exchanges. *)

(* A step that only replaces an exchange keeps the invariant when the new  *)
(* one is sound and began where it should.                                 *)
LEMMA ExchangeStep ==
    ASSUME CatchUpInv, NEW x \in Exchanges, NEW v, ExchangeOK(v), Sound(v),
           exchange' = [exchange EXCEPT ![x] = v],
           UNCHANGED <<clock, collection, client>>, Began'
    PROVE  CatchUpInv'
<1>1. CatchUpTypeOK'
  BY Zenon, ExchangeSet DEF CatchUpInv, CatchUpTypeOK, collection, client
<1>2. /\ clock' = clock /\ chain' = chain /\ dead' = dead /\ anchor' = anchor
      /\ mode' = mode /\ watching' = watching /\ cursor' = cursor /\ start' = start
      /\ seen' = seen
  BY Zenon DEF collection, client
<1>3. Dated' /\ Living' /\ CursorCoversDelivered'
  BY Zenon, <1>2 DEF CatchUpInv, Dated, Living, CursorCoversDelivered, LastChange
<1>4. ASSUME NEW e, Sound(e) PROVE Sound(e)'
  <2>1. (e.step = "chain" /\ e # NoExchange) => \E h \in 0 .. clock : ChainReadAt(e, h)'
    BY Zenon, <1>2, <1>4 DEF Sound, ChainReadAt
  <2>2. (e.step = "dead" /\ e # NoExchange) => \E h \in 0 .. clock : BothReadAt(e, h)'
    BY SMTT(30), <1>2, <1>4 DEF Sound, BothReadAt
  <2>3. Covers(e) => Covers(e)'
    BY Zenon, <1>2 DEF Covers, LastChange
  <2> QED
    BY Zenon, <1>2, <1>4, <2>1, <2>2, <2>3 DEF Sound
<1>5. ASSUME NEW y \in Exchanges PROVE Sound(exchange[y])'
  <2>1. PICK e : e = exchange'[y]
    BY Zenon
  <2>2. Sound(e)
    <3>1. CASE y = x
      BY Zenon, <2>1, <3>1, ExchangeSet DEF CatchUpInv
    <3>2. CASE y # x
      BY Zenon, <2>1, <3>2, ExchangeSet DEF CatchUpInv, Exchanges
    <3> QED
      BY Zenon, <3>1, <3>2
  <2> QED
    BY Zenon, <1>4, <2>1, <2>2
<1> QED
  BY Zenon, <1>1, <1>3, <1>5 DEF CatchUpInv, Exchanges

(* An exchange that goes on, or ends, keeps what it began with.            *)
LEMMA ExchangeGoesOn ==
    ASSUME CatchUpInv, NEW x \in Exchanges, NEW v, ExchangeOK(v), Sound(v),
           exchange' = [exchange EXCEPT ![x] = v],
           UNCHANGED <<clock, collection, client>>,
           v # NoExchange => exchange[x] # NoExchange /\ v.since = exchange[x].since,
           x = "tick" /\ v # NoExchange /\ v.step = "answered" /\ exchange["post"] # NoExchange
               => exchange["post"].since <= v.cursor
    PROVE  CatchUpInv'
<1>1. mode' = mode /\ watching' = watching /\ cursor' = cursor
  BY Zenon DEF client
<1>2. exchange'[x] = v /\ \A y \in Exchanges : y # x => exchange'[y] = exchange[y]
  BY Zenon, ExchangeSet DEF CatchUpInv
<1>3. CASE x = "tick"
  <2>1. exchange'["tick"] = v /\ exchange'["post"] = exchange["post"]
    BY Zenon, <1>2, <1>3 DEF Exchanges
  <2>2. Began'
    BY Zenon, <1>1, <1>3, <2>1 DEF Began, CatchUpInv
  <2> QED
    BY Zenon, <2>2, ExchangeStep
<1>4. CASE x = "post"
  <2>1. exchange'["post"] = v /\ exchange'["tick"] = exchange["tick"]
    BY Zenon, <1>2, <1>4 DEF Exchanges
  <2>2. Began'
    BY Zenon, <1>1, <1>4, <2>1 DEF Began, CatchUpInv
  <2> QED
    BY Zenon, <2>2, ExchangeStep
<1> QED
  BY Zenon, <1>3, <1>4 DEF Exchanges

(* An exchange starts from the cursor of the moment. *)
LEMMA AskKeeps ==
    ASSUME CatchUpInv, ReadHazards = {}, NEW x \in Exchanges, Ask(x) PROVE CatchUpInv'
<1>1. PICK v : v = [step |-> "asked", since |-> cursor]
  BY Zenon
<1>2. ExchangeOK(v) /\ v # NoExchange
  BY Zenon, <1>1 DEF ExchangeOK, CatchUpInv, CatchUpTypeOK, NoExchange
<1>3. Sound(v)
  BY Zenon, <1>1 DEF Sound, CatchUpInv, Dated
<1>4. exchange' = [exchange EXCEPT ![x] = v] /\ UNCHANGED <<clock, collection, client>>
  BY Zenon, <1>1 DEF Ask
<1>5. mode' = mode /\ watching' = watching /\ cursor' = cursor
  BY Zenon, <1>4 DEF client
<1>6. cursor \in Int
  BY SMTT(30) DEF CatchUpInv, CatchUpTypeOK, Unset
<1>7. exchange'[x] = v /\ \A y \in Exchanges : y # x => exchange'[y] = exchange[y]
  BY Zenon, <1>2, <1>4, ExchangeSet DEF CatchUpInv
<1>8. exchange["tick"] = NoExchange /\ watching
  BY Zenon DEF Ask
<1>9. CASE x = "tick"
  <2>1. exchange'["tick"] = v /\ exchange'["post"] = exchange["post"]
    BY Zenon, <1>7, <1>9 DEF Exchanges
  <2>2. Began'
    BY SMTT(30), <1>1, <1>5, <1>8, <2>1 DEF Began, CatchUpInv
  <2> QED
    BY Zenon, <1>2, <1>3, <1>4, <2>2, ExchangeStep
<1>10. CASE x = "post"
  <2>1. exchange'["post"] = v /\ exchange'["tick"] = NoExchange
    BY Zenon, <1>7, <1>8, <1>10 DEF Exchanges
  <2>2. mode = "poll" /\ cursor # Unset
    BY Zenon, <1>10 DEF Ask
  <2>3. Began'
    BY SMTT(30), <1>1, <1>5, <1>6, <1>8, <2>1, <2>2 DEF Began, CatchUpInv
  <2> QED
    BY Zenon, <1>2, <1>3, <1>4, <2>3, ExchangeStep
<1> QED
  BY Zenon, <1>9, <1>10 DEF Exchanges

(* An exchange that fails leaves nothing behind. *)
LEMMA FaultKeeps ==
    ASSUME CatchUpInv, NEW x \in Exchanges, Fault(x) PROVE CatchUpInv'
<1>1. ExchangeOK(NoExchange) /\ Sound(NoExchange)
  BY Zenon DEF ExchangeOK, Sound
<1> QED
  BY Zenon, <1>1, ExchangeGoesOn DEF Fault

(* A registration answers the clock, which no exchange is ahead of.        *)
LEMMA RegisterKeeps ==
    ASSUME CatchUpInv, NEW x \in Exchanges, Register(x) PROVE CatchUpInv'
<1>1. PICK h \in 0 .. clock :
          /\ IsHighest(h, 0, {chain[r] : r \in Records} \cup {dead[r] : r \in Records})
          /\ exchange' = [exchange EXCEPT ![x] =
                 [step |-> "answered", since |-> Unset, events |-> {}, cursor |-> h]]
  BY Zenon DEF Register
<1>2. PICK v : v = [step |-> "answered", since |-> Unset, events |-> {}, cursor |-> h]
  BY Zenon
<1>3. clock \in Nat /\ h \in Nat
  BY SMTT(30) DEF CatchUpInv, CatchUpTypeOK
<1>4. h = clock
  <2>1. CASE clock = 0
    BY SMTT(30), <1>3, <2>1
  <2>2. ASSUME NEW r \in Records, LastChange(r) = clock PROVE h = clock
    <3>1. chain[r] <= h /\ dead[r] <= h
      BY Zenon, <1>1 DEF IsHighest
    <3> QED
      BY SMTT(30), <1>3, <2>2, <3>1 DEF LastChange
  <2> QED
    BY Zenon, <2>1, <2>2 DEF CatchUpInv, Dated
<1>5. ExchangeOK(v)
  BY Zenon, <1>2, <1>3 DEF ExchangeOK, AtMostTwoEach
<1>6. Sound(v)
  BY SMTT(30), <1>2, <1>3, <1>4 DEF Sound, Unset
<1>7. exchange[x] # NoExchange /\ v.since = exchange[x].since
  BY SMTT(30), <1>2 DEF Register, NoExchange
<1>8. exchange["post"] # NoExchange => exchange["post"].since <= v.cursor
  BY Zenon, <1>2, <1>4 DEF CatchUpInv, Sound
<1> QED
  BY Zenon, <1>1, <1>2, <1>5, <1>6, <1>7, <1>8, ExchangeGoesOn DEF Register

(* The node reads the living records, *)
LEMMA ReadChainKeeps ==
    ASSUME CatchUpInv, NEW x \in Exchanges, ReadChain(x) PROVE CatchUpInv'
<1>1. PICK since : since = exchange[x].since
  BY Zenon
<1>2. PICK saved : saved = [r \in Past(chain, since) |-> chain[r]]
  BY Zenon
<1>3. PICK v : v = [step |-> "chain", since |-> since, saved |-> saved]
  BY Zenon
<1>4. exchange' = [exchange EXCEPT ![x] = v] /\ UNCHANGED <<clock, collection, client>>
  BY Zenon, <1>1, <1>2, <1>3 DEF ReadChain
<1>5. CatchUpTypeOK
  BY Zenon DEF CatchUpInv
<1>6. exchange[x] # NoExchange /\ since \in Nat /\ since <= clock
  BY SMTT(30), <1>1 DEF CatchUpInv, CatchUpTypeOK, ExchangeOK, ReadChain, NoExchange, Exchanges, Sound
<1>7. Log(saved) /\ DOMAIN saved = Past(chain, since)
  BY Zenon, <1>2, <1>5 DEF Log, Past, CatchUpTypeOK
<1>8. ExchangeOK(v) /\ v.step = "chain" /\ v # NoExchange
  BY Zenon, <1>3, <1>6, <1>7 DEF ExchangeOK, NoExchange
<1>9. ChainReadAt(v, clock)
  <2>1. \A r \in Records : dead[r] <= clock /\ chain[r] <= clock
    BY Zenon DEF CatchUpInv, Dated
  <2>2. \A r \in DOMAIN saved : r \in Records /\ saved[r] = chain[r] /\ chain[r] # 0
    <3>1. chain \in [Records -> Nat]
      BY Zenon, <1>5 DEF CatchUpTypeOK
    <3>2. \A r \in DOMAIN saved : r \in Records /\ saved[r] = chain[r] /\ chain[r] > since
      BY Zenon, <1>2, <1>7 DEF Past
    <3> QED
      BY SMTT(30), <1>6, <3>1, <3>2
  <2>3. \A r \in DOMAIN saved : anchor[r] = chain[r] /\ dead[r] = 0
    BY Zenon, <2>2 DEF CatchUpInv, Living
  <2>4. \A r \in Records : since < chain[r] => r \in DOMAIN saved
    BY Zenon, <1>5, <1>6, <1>7 DEF Past, CatchUpTypeOK
  <2> QED
    BY Zenon, <1>3, <1>6, <2>1, <2>2, <2>3, <2>4 DEF ChainReadAt
<1>10. Sound(v)
  BY SMTT(30), <1>3, <1>5, <1>6, <1>8, <1>9 DEF Sound, CatchUpTypeOK
<1> QED
  BY Zenon, <1>1, <1>3, <1>4, <1>6, <1>8, <1>10, ExchangeGoesOn

(* then the removed ones. *)
LEMMA ReadDeadKeeps ==
    ASSUME CatchUpInv, NEW x \in Exchanges, ReadDead(x) PROVE CatchUpInv'
<1>1. PICK e : e = exchange[x]
  BY Zenon
<1>2. PICK removed : removed = [r \in Past(dead, e.since) |-> dead[r]]
  BY Zenon
<1>3. PICK v : v = [step |-> "dead", since |-> e.since, saved |-> e.saved, removed |-> removed]
  BY Zenon
<1>4. exchange' = [exchange EXCEPT ![x] = v] /\ UNCHANGED <<clock, collection, client>>
  BY Zenon, <1>1, <1>2, <1>3 DEF ReadDead
<1>5. CatchUpTypeOK
  BY Zenon DEF CatchUpInv
<1>6. e.step = "chain" /\ e # NoExchange /\ e.since \in Nat /\ e.since <= clock /\ Log(e.saved)
  BY SMTT(30), <1>1 DEF CatchUpInv, CatchUpTypeOK, ExchangeOK, ReadDead, NoExchange, Exchanges, Sound
<1>7. Log(removed) /\ DOMAIN removed = Past(dead, e.since)
  BY Zenon, <1>2, <1>5 DEF Log, Past, CatchUpTypeOK
<1>8. ExchangeOK(v) /\ v.step = "dead" /\ v # NoExchange
  BY Zenon, <1>3, <1>6, <1>7 DEF ExchangeOK, NoExchange
<1>9. PICK h \in 0 .. clock : ChainReadAt(e, h)
  BY Zenon, <1>1, <1>6 DEF CatchUpInv, Sound, Exchanges
<1>10. BothReadAt(v, h)
  <2>1. \A r \in DOMAIN removed : removed[r] = dead[r] /\ dead[r] # 0 /\ dead[r] <= h
    <3>1. dead \in [Records -> Nat]
      BY Zenon, <1>5 DEF CatchUpTypeOK
    <3>2. \A r \in DOMAIN removed : r \in Records /\ removed[r] = dead[r] /\ dead[r] > e.since
      <4>1. \A r \in Past(dead, e.since) : removed[r] = dead[r]
        BY Zenon, <1>2
      <4>2. \A r \in Past(dead, e.since) : r \in Records /\ dead[r] > e.since
        BY Zenon DEF Past
      <4> QED
        BY Zenon, <1>7, <4>1, <4>2
    <3>3. \A r \in Records : dead[r] <= h
      BY Zenon, <1>9 DEF ChainReadAt
    <3> TAKE r \in DOMAIN removed
    <3>4. r \in Records /\ removed[r] = dead[r] /\ dead[r] > e.since
      BY Zenon, <3>2
    <3>5. dead[r] \in Nat /\ e.since \in Nat
      BY Zenon, <1>6, <3>1, <3>4
    <3>6. dead[r] # 0
      BY SMTT(30), <3>4, <3>5
    <3> QED
      BY Zenon, <3>3, <3>4, <3>6
  <2>2. \A r \in DOMAIN e.saved : r \notin DOMAIN removed
    BY Zenon, <1>9, <2>1 DEF ChainReadAt
  <2>3. \A r \in Records : e.since < dead[r] => r \in DOMAIN removed
    BY Zenon, <1>5, <1>6, <1>7 DEF Past, CatchUpTypeOK
  <2> QED
    BY Zenon, <1>3, <1>9, <2>1, <2>2, <2>3 DEF ChainReadAt, BothReadAt
<1>11. Sound(v)
  BY Zenon, <1>3, <1>6, <1>8, <1>9, <1>10 DEF Sound
<1> QED
  BY Zenon, <1>1, <1>3, <1>4, <1>6, <1>8, <1>11, ExchangeGoesOn

(* The answer's cursor is one of its keys, or where it began: every change *)
(* up to it was there when the node read, and is among the events.         *)
LEMMA AnswerKeeps ==
    ASSUME CatchUpInv, NEW x \in Exchanges, Answer(x) PROVE CatchUpInv'
<1>1. PICK e : e = exchange[x]
  BY Zenon
<1>2. PICK timeline : timeline = Changed(e.saved, e.removed)
  BY Zenon
<1>3. PICK h \in 0 .. clock :
          /\ IsLastKey(h, e.since, timeline)
          /\ exchange' = [exchange EXCEPT ![x] =
                 [step |-> "answered", since |-> e.since, events |-> timeline, cursor |-> h]]
  BY Zenon, <1>1, <1>2 DEF Answer
<1>4. PICK v : v = [step |-> "answered", since |-> e.since, events |-> timeline, cursor |-> h]
  BY Zenon
<1>5. CatchUpTypeOK
  BY Zenon DEF CatchUpInv
<1>6. /\ clock \in Nat /\ chain \in [Records -> Nat] /\ dead \in [Records -> Nat]
      /\ anchor \in [Records -> Nat]
  BY Zenon, <1>5 DEF CatchUpTypeOK
<1>7. /\ e.step = "dead" /\ e # NoExchange /\ e.since \in Nat /\ e.since <= clock
      /\ Log(e.saved) /\ Log(e.removed)
  BY SMTT(30), <1>1 DEF CatchUpInv, CatchUpTypeOK, ExchangeOK, Answer, NoExchange, Exchanges, Sound
<1>8. timeline \subseteq [rec : Records, key : Nat, at : Nat] /\ AtMostTwoEach(timeline)
  BY Zenon, <1>2, <1>5, <1>7, ChangedType
<1>9. ExchangeOK(v) /\ v.step = "answered" /\ v # NoExchange
  BY SMTT(30), <1>4, <1>6, <1>7, <1>8 DEF ExchangeOK, NoExchange
<1>10. PICK g \in 0 .. clock : BothReadAt(e, g)
  BY Zenon, <1>1, <1>7 DEF CatchUpInv, Sound, Exchanges
<1>11. \A c \in timeline :
          \/ /\ c.rec \in DOMAIN e.saved
             /\ c = [rec |-> c.rec, key |-> e.saved[c.rec], at |-> anchor[c.rec]]
          \/ /\ c.rec \in DOMAIN e.removed
             /\ c = [rec |-> c.rec, key |-> e.removed[c.rec], at |-> e.removed[c.rec]]
  BY SMTT(30), <1>2 DEF Changed
<1>12. e.since <= h /\ \A c \in timeline : c.key <= h
  BY Zenon, <1>3 DEF IsLastKey, IsHighest
<1>13. h <= g
  <2>1. \A c \in timeline : c.key <= g
    BY SMTT(30), <1>10, <1>11 DEF BothReadAt
  <2>2. h = e.since \/ \E c \in timeline : h = c.key
    BY Zenon, <1>3 DEF IsLastKey, IsHighest
  <2> QED
    BY Zenon, <1>10, <2>1, <2>2 DEF BothReadAt
<1>14. Covers(v)
  <2>1. \A c, d \in timeline : c.rec = d.rec => c = d
    BY SMTT(30), <1>10, <1>11 DEF BothReadAt
  <2>2. mode = "websocket" => \A c \in timeline : c.at = c.key
    BY SMTT(30), <1>10, <1>11 DEF BothReadAt
  <2>3. ASSUME NEW r \in Records, e.since < LastChange(r), LastChange(r) <= h
        PROVE  \E c \in timeline : c.rec = r /\ c.at = LastChange(r)
    <3>1. CASE chain[r] < dead[r]
      <4>1. LastChange(r) = dead[r] /\ dead[r] <= g
        BY SMTT(30), <1>6, <1>13, <2>3, <3>1 DEF LastChange
      <4>2. r \in DOMAIN e.removed /\ e.removed[r] = dead[r]
        BY Zenon, <1>10, <2>3, <4>1 DEF BothReadAt
      <4>3. [rec |-> r, key |-> e.removed[r], at |-> e.removed[r]] \in timeline
        BY Zenon, <1>2, <4>2 DEF Changed
      <4> QED
        BY Zenon, <4>1, <4>2, <4>3
    <3>2. CASE ~(chain[r] < dead[r])
      <4>1. LastChange(r) = chain[r] /\ chain[r] <= g
        BY SMTT(30), <1>6, <1>13, <2>3, <3>2 DEF LastChange
      <4>2. chain[r] # 0
        BY SMTT(30), <1>6, <1>7, <2>3, <4>1
      <4>3. r \in DOMAIN e.saved /\ anchor[r] = chain[r]
        BY Zenon, <1>10, <2>3, <4>1, <4>2 DEF BothReadAt, CatchUpInv, Living
      <4>4. [rec |-> r, key |-> e.saved[r], at |-> anchor[r]] \in timeline
        BY Zenon, <1>2, <4>3 DEF Changed
      <4> QED
        BY Zenon, <4>1, <4>3, <4>4
    <3> QED
      BY Zenon, <3>1, <3>2
  <2> QED
    BY Zenon, <1>4, <1>12, <2>1, <2>2, <2>3 DEF Covers
<1>15. Sound(v)
  <2>1. v.cursor <= clock /\ v.since <= clock /\ v.since # Unset
    BY SMTT(30), <1>4, <1>6, <1>7 DEF Unset
  <2> QED
    BY Zenon, <1>9, <1>14, <2>1 DEF Sound
<1>16. x = "tick" /\ exchange["post"] # NoExchange => exchange["post"].since <= v.cursor
  <2> SUFFICES ASSUME x = "tick", exchange["post"] # NoExchange
               PROVE  exchange["post"].since <= v.cursor
    BY Zenon
  <2>1. watching /\ cursor = e.since
    BY Zenon, <1>1, <1>7 DEF CatchUpInv, Began
  <2>2. cursor # Unset
    BY SMTT(30), <1>7, <2>1 DEF Unset
  <2>3. exchange["post"].since <= cursor
    BY Zenon, <2>1, <2>2 DEF CatchUpInv, Began
  <2>4. exchange["post"].since \in Int
    BY SMTT(30), <1>5 DEF CatchUpTypeOK, ExchangeOK, Unset
  <2> QED
    BY SMTT(30), <1>4, <1>7, <1>12, <2>1, <2>3, <2>4
<1> QED
  BY Zenon, <1>1, <1>3, <1>4, <1>7, <1>9, <1>15, <1>16, ExchangeGoesOn DEF Answer

-----------------------------------------------------------------------------
(* The client. *)

(* An answer that is applied delivers every change between the client's    *)
(* cursor and the answer's: what the client knew up to its cursor is only  *)
(* replaced by something later.                                            *)
LEMMA AppliedCovers ==
    ASSUME CatchUpInv, NEW e, ExchangeOK(e), Sound(e), e # NoExchange, e.step = "answered",
           watching, cursor # Unset, e.since # Unset, e.since <= cursor,
           NEW h \in Unset .. clock, Reached(e.events, h), NEW r \in Records,
           start < LastChange(r), LastChange(r) <= Merged(h, e.cursor)
    PROVE  Told(e.events, r) >= LastChange(r)
<1>1. /\ e.cursor \in Nat /\ e.events \subseteq [rec : Records, key : Nat, at : Nat]
      /\ AtMostTwoEach(e.events)
  BY Zenon DEF ExchangeOK
<1>2. Covers(e)
  BY Zenon DEF Sound
<1>3. /\ CatchUpTypeOK /\ cursor \in Nat /\ clock \in Nat /\ seen[r] \in Nat
      /\ mode \in {"poll", "websocket"} /\ e.since \in Int
  BY SMTT(30) DEF CatchUpInv, CatchUpTypeOK, ExchangeOK, Unset
<1>4. LastChange(r) \in Nat
  BY Zenon DEF CatchUpInv, CatchUpTypeOK, LastChange
<1>5. \A c \in e.events : Delivers(e.events, c) => c.at > cursor
  BY Zenon DEF Delivers, PollDelivers, PushDelivers
<1>6. CASE LastChange(r) <= cursor
  <2>1. seen[r] >= LastChange(r)
    BY Zenon, <1>6 DEF CatchUpInv, CursorCoversDelivered
  <2>2. CASE Told(e.events, r) = seen[r]
    BY Zenon, <2>1, <2>2
  <2>3. CASE \E c \in e.events : Delivers(e.events, c) /\ Told(e.events, r) = c.at
    <3>1. PICK c \in e.events : Delivers(e.events, c) /\ Told(e.events, r) = c.at
      BY Zenon, <2>3
    <3>2. c.at > cursor /\ c.at \in Nat
      BY Zenon, <1>1, <1>5, <3>1
    <3> QED
      BY SMTT(30), <1>3, <1>4, <1>6, <3>1, <3>2
  <2> QED
    BY SMTT(30), <1>1, <1>3, <2>2, <2>3, ToldType
<1>7. CASE ~(LastChange(r) <= cursor)
  <2>1. LastChange(r) > cursor /\ LastChange(r) > e.since
    BY SMTT(30), <1>3, <1>4, <1>7
  <2>2. LastChange(r) <= e.cursor
    <3>1. CASE mode = "poll"
      BY SMTT(30), <1>1, <1>3, <1>4, <2>1, <3>1 DEF Reached, Merged
    <3>2. CASE mode = "websocket"
      <4>1. \A c \in e.events : c.at <= e.cursor
        BY Zenon, <1>2, <3>2 DEF Covers
      <4>2. h = cursor \/ h <= e.cursor
        BY Zenon, <3>2, <4>1 DEF Reached, IsHighest
      <4> QED
        BY SMTT(30), <1>1, <1>3, <1>4, <2>1, <4>2 DEF Merged, Unset
    <3> QED
      BY Zenon, <1>3, <3>1, <3>2
  <2>3. PICK c \in e.events : c.rec = r /\ c.at = LastChange(r)
    BY Zenon, <1>2, <2>1, <2>2 DEF Covers
  <2>4. Delivers(e.events, c)
    <3>1. CASE mode = "poll"
      BY Zenon, <2>1, <2>3, <3>1 DEF Delivers, PollDelivers
    <3>2. CASE mode = "websocket"
      <4>1. \A d \in e.events : d.at = d.key
        BY Zenon, <1>2, <3>2 DEF Covers
      <4> QED
        BY Zenon, <2>1, <2>3, <3>2, <4>1 DEF Delivers, PushDelivers
    <3> QED
      BY Zenon, <1>3, <3>1, <3>2
  <2>5. \A d \in e.events : d.rec = r => d = c
    BY Zenon, <1>2, <2>3 DEF Covers
  <2>6. Told(e.events, r) = c.at
    <3>1. c \in {d \in e.events : d.rec = r /\ Delivers(e.events, d)}
      BY Zenon, <2>3, <2>4
    <3>2. \E d \in e.events : d.rec = r /\ Told(e.events, r) = d.at
      BY SMTT(30), <1>1, <1>3, <3>1, ToldType
    <3> QED
      BY Zenon, <2>5, <3>2
  <2> QED
    BY SMTT(30), <1>4, <2>3, <2>6
<1> QED
  BY Zenon, <1>6, <1>7

(* The client takes the answer. *)
LEMMA ApplyReplyKeeps ==
    ASSUME CatchUpInv, NEW x \in Exchanges, ApplyReply(x), CatchUpTypeOK' PROVE CatchUpInv'
<1>1. PICK e : e = exchange[x]
  BY Zenon
<1>2. CatchUpTypeOK /\ DOMAIN exchange = Exchanges
  BY Zenon DEF CatchUpInv, CatchUpTypeOK, Exchanges
<1>3. /\ e.step = "answered" /\ e # NoExchange /\ ExchangeOK(e) /\ Sound(e)
      /\ e.cursor \in Nat /\ e.cursor <= clock /\ e.since \in Int
  BY SMTT(30), <1>1 DEF CatchUpInv, CatchUpTypeOK, ExchangeOK, ApplyReply, NoExchange, Exchanges, Sound, Unset
<1>4. /\ exchange'[x] = NoExchange
      /\ \A y \in Exchanges : y # x => exchange'[y] = exchange[y]
  BY Zenon, <1>2 DEF ApplyReply
<1>5. /\ clock' = clock /\ chain' = chain /\ dead' = dead /\ anchor' = anchor
      /\ mode' = mode /\ watching' = watching
  BY Zenon DEF ApplyReply, collection
<1>6. cursor \in Int /\ clock \in Nat /\ cursor <= clock
  BY SMTT(30), <1>2 DEF CatchUpTypeOK, Unset, CatchUpInv, Dated
<1>7. \A y \in Exchanges : Sound(exchange[y])'
  <2> TAKE y \in Exchanges
  <2>1. PICK f : f = exchange'[y]
    BY Zenon
  <2>2. Sound(f)
    <3>1. Sound(NoExchange)
      BY Zenon DEF Sound
    <3> QED
      BY Zenon, <1>4, <2>1, <3>1 DEF CatchUpInv, Exchanges
  <2>3. Sound(f)'
    BY SMTT(30), <1>5, <2>2 DEF Sound, ChainReadAt, BothReadAt, Covers, LastChange
  <2> QED
    BY Zenon, <2>1, <2>3
<1>8. CASE ~watching
  <2>1. cursor' = cursor /\ seen' = seen /\ start' = start
    BY Zenon, <1>8 DEF ApplyReply
  <2>2. Dated' /\ Living' /\ CursorCoversDelivered'
    BY Zenon, <1>5, <2>1 DEF CatchUpInv, Dated, Living, CursorCoversDelivered, LastChange
  <2>3. x = "post"
    BY Zenon, <1>1, <1>3, <1>8 DEF CatchUpInv, Began, Exchanges
  <2>4. exchange'["post"] = NoExchange /\ exchange'["tick"] = exchange["tick"]
    BY Zenon, <1>4, <2>3 DEF Exchanges
  <2>5. Began'
    BY Zenon, <1>5, <2>1, <2>4 DEF CatchUpInv, Began
  <2> QED
    BY Zenon, <1>7, <2>2, <2>5 DEF CatchUpInv, Exchanges
<1>9. CASE watching
  <2>1. PICK h \in Unset .. clock :
            /\ Reached(e.events, h)
            /\ cursor' = Merged(h, e.cursor)
            /\ seen' = [r \in Records |-> Told(e.events, r)]
            /\ start' = IF cursor = Unset THEN cursor' ELSE start
    BY Zenon, <1>1, <1>9 DEF ApplyReply
  <2>2. h \in Int /\ cursor <= h
    BY SMTT(30), <1>2, <1>6, <2>1 DEF Reached, IsHighest, CatchUpTypeOK, Unset
  <2>3. cursor' \in Int /\ cursor <= cursor' /\ e.cursor <= cursor' /\ cursor' <= clock
    BY SMTT(30), <1>3, <1>6, <2>1, <2>2 DEF Merged
  <2>4. Dated'
    BY Zenon, <1>5, <2>3 DEF CatchUpInv, Dated, LastChange
  <2>5. Living'
    BY Zenon, <1>5 DEF CatchUpInv, Living
  <2>6. CursorCoversDelivered'
    <3>1. CASE cursor = Unset
      <4>1. start' = cursor'
        BY Zenon, <2>1, <3>1
      <4>2. \A r \in Records : LastChange(r)' \in Nat
        BY Zenon, <1>2, <1>5 DEF CatchUpTypeOK, LastChange
      <4> QED
        BY SMTT(30), <2>3, <4>1, <4>2 DEF CursorCoversDelivered
    <3>2. CASE cursor # Unset
      <4>1. e.since # Unset /\ e.since <= cursor
        <5>1. CASE x = "tick"
          BY SMTT(30), <1>1, <1>3, <1>6, <3>2, <5>1 DEF CatchUpInv, Began
        <5>2. CASE x = "post"
          BY Zenon, <1>1, <1>3, <1>9, <3>2, <5>2 DEF CatchUpInv, Began
        <5> QED
          BY Zenon, <5>1, <5>2 DEF Exchanges
      <4>2. start' = start
        BY Zenon, <2>1, <3>2
      <4>3. ASSUME NEW r \in Records, start < LastChange(r), LastChange(r) <= cursor'
            PROVE  seen'[r] >= LastChange(r)
        BY Zenon, <1>3, <1>9, <2>1, <3>2, <4>1, <4>3, AppliedCovers
      <4>4. \A r \in Records : LastChange(r)' = LastChange(r)
        BY Zenon, <1>5 DEF LastChange
      <4> QED
        BY Zenon, <4>2, <4>3, <4>4 DEF CursorCoversDelivered
    <3> QED
      BY Zenon, <3>1, <3>2
  <2>7. Began'
    <3>1. CASE x = "tick"
      <4>1. exchange'["tick"] = NoExchange /\ exchange'["post"] = exchange["post"]
        BY Zenon, <1>4, <3>1 DEF Exchanges
      <4>2. exchange["post"] # NoExchange =>
                /\ mode = "poll" /\ exchange["post"].since # Unset
                /\ exchange["post"].since <= e.cursor
        BY Zenon, <1>1, <1>3, <3>1 DEF CatchUpInv, Began
      <4>3. exchange["post"] # NoExchange => exchange["post"].since \in Int
        BY SMTT(30), <1>2 DEF CatchUpTypeOK, ExchangeOK, Unset
      <4>4. exchange["post"] # NoExchange => exchange["post"].since <= cursor'
        BY SMTT(30), <1>3, <2>3, <4>2, <4>3
      <4> QED
        BY Zenon, <1>5, <1>9, <4>1, <4>2, <4>4 DEF Began
    <3>2. CASE x = "post"
      <4>1. exchange'["post"] = NoExchange /\ exchange'["tick"] = NoExchange
        BY Zenon, <1>4, <3>2 DEF Exchanges, ApplyReply
      <4> QED
        BY Zenon, <1>5, <1>9, <4>1 DEF Began
    <3> QED
      BY Zenon, <3>1, <3>2 DEF Exchanges
  <2> QED
    BY Zenon, <1>7, <2>4, <2>5, <2>6, <2>7 DEF CatchUpInv, Exchanges
<1> QED
  BY Zenon, <1>8, <1>9

(* The last watch of the topic leaves, *)
LEMMA UnwatchKeeps ==
    ASSUME CatchUpInv, UnwatchTopic, CatchUpTypeOK' PROVE CatchUpInv'
<1>1. /\ clock' = clock /\ chain' = chain /\ dead' = dead /\ anchor' = anchor
      /\ mode' = mode /\ exchange' = exchange /\ ~watching' /\ cursor' = Unset
      /\ exchange["tick"] = NoExchange
  BY Zenon DEF UnwatchTopic, collection
<1>2. clock \in Nat
  BY Zenon DEF CatchUpInv, CatchUpTypeOK
<1>3. Dated' /\ Living' /\ CursorCoversDelivered'
  BY SMTT(30), <1>1, <1>2 DEF CatchUpInv, Dated, Living, CursorCoversDelivered, LastChange, Unset
<1>4. Began'
  BY Zenon, <1>1 DEF CatchUpInv, Began
<1>5. \A y \in Exchanges : Sound(exchange[y])'
  <2> TAKE y \in Exchanges
  <2>1. PICK f : f = exchange[y]
    BY Zenon
  <2>2. Sound(f)'
    BY SMTT(30), <1>1, <2>1 DEF Sound, ChainReadAt, BothReadAt, Covers, LastChange, CatchUpInv, Exchanges
  <2> QED
    BY Zenon, <1>1, <2>1, <2>2
<1> QED
  BY Zenon, <1>3, <1>4, <1>5 DEF CatchUpInv, Exchanges

(* a first one comes, *)
LEMMA WatchKeeps ==
    ASSUME CatchUpInv, WatchTopic, CatchUpTypeOK' PROVE CatchUpInv'
<1>1. /\ clock' = clock /\ chain' = chain /\ dead' = dead /\ anchor' = anchor
      /\ mode' = mode /\ watching' /\ cursor' = cursor
      /\ exchange["tick"] = NoExchange
  BY Zenon DEF WatchTopic, collection
<1>2. cursor = Unset
  BY Zenon DEF CatchUpInv, Began, WatchTopic
<1>3. /\ exchange'["tick"] = [step |-> "asked", since |-> Unset]
      /\ exchange'["post"] = exchange["post"]
  BY Zenon DEF WatchTopic, CatchUpInv, CatchUpTypeOK
<1>4. Dated' /\ Living' /\ CursorCoversDelivered'
  BY Zenon, <1>1, <1>2 DEF CatchUpInv, Dated, Living, CursorCoversDelivered, LastChange
<1>5. Began'
  BY SMTT(30), <1>1, <1>2, <1>3 DEF CatchUpInv, Began
<1>6. Sound(exchange["post"])'
  <2>1. PICK f : f = exchange["post"]
    BY Zenon
  <2>2. Sound(f)'
    BY SMTT(30), <1>1, <2>1 DEF Sound, ChainReadAt, BothReadAt, Covers, LastChange, CatchUpInv
  <2> QED
    BY Zenon, <1>3, <2>1, <2>2
<1>7. Sound(exchange["tick"])'
  <2>1. PICK f : f = [step |-> "asked", since |-> Unset]
    BY Zenon
  <2>2. clock \in Nat
    BY Zenon DEF CatchUpInv, CatchUpTypeOK
  <2>3. Sound(f)'
    BY SMTT(30), <1>1, <2>1, <2>2 DEF Sound, Unset
  <2> QED
    BY Zenon, <1>3, <2>1, <2>3
<1> QED
  BY Zenon, <1>4, <1>5, <1>6, <1>7 DEF CatchUpInv

(* and a record is saved or removed. *)
LEMMA CommitKeeps ==
    ASSUME CatchUpInv, ReadHazards = {}, CommitChange, CatchUpTypeOK' PROVE CatchUpInv'
<1>1. PICK r \in Records :
          \/ /\ SaveOf(r)
             /\ mode = "websocket" =>
                    \A x \in DOMAIN exchange : exchange[x].step \notin {"chain", "dead"}
          \/ /\ RemoveOf(r)
             /\ \A x \in DOMAIN exchange : exchange[x].step # "chain"
  BY Zenon, CommitIsOneOf
<1>2. CatchUpTypeOK /\ Dated /\ Living /\ DOMAIN exchange = Exchanges
  BY Zenon DEF CatchUpInv, CatchUpTypeOK, Exchanges
<1>3. /\ clock' = clock + 1 /\ exchange' = exchange /\ mode' = mode /\ watching' = watching
      /\ cursor' = cursor /\ start' = start /\ seen' = seen
  BY Zenon DEF CommitChange, client
<1>4. /\ LastChange(r)' = clock + 1
      /\ \A q \in Records \ {r} : LastChange(q)' = LastChange(q)
      /\ Dated' /\ Living'
  BY Zenon, <1>1, <1>2, <1>3, CommitMovesOne
<1>5. Began'
  BY Zenon, <1>3 DEF CatchUpInv, Began
<1>6. CursorCoversDelivered'
  <2>1. cursor \in Int /\ clock \in Nat /\ cursor <= clock
    BY SMTT(30), <1>2 DEF CatchUpTypeOK, Dated, Unset
  <2>2. \A q \in Records : LastChange(q)' <= cursor => LastChange(q)' = LastChange(q)
    BY SMTT(30), <1>4, <2>1
  <2> QED
    BY Zenon, <1>3, <2>2 DEF CatchUpInv, CursorCoversDelivered
<1>7. ASSUME NEW x \in Exchanges PROVE Sound(exchange[x])'
  <2>1. PICK e : e = exchange[x]
    BY Zenon
  <2>2. ExchangeOK(e) /\ Sound(e)
    BY Zenon, <2>1 DEF CatchUpInv, CatchUpTypeOK, Exchanges
  <2>3. \/ SaveOf(r) /\ ~RemoveOf(r) /\ (mode = "websocket" => e.step \notin {"chain", "dead"})
        \/ RemoveOf(r) /\ ~SaveOf(r) /\ e.step # "chain"
    <3>1. ~(SaveOf(r) /\ RemoveOf(r))
      BY SMTT(30), <1>2 DEF SaveOf, RemoveOf, CatchUpTypeOK
    <3> QED
      BY Zenon, <1>1, <1>2, <2>1, <3>1
  <2>4. Sound(e)'
    BY Zenon, <1>2, <1>3, <2>2, <2>3, CommitKeepsSound
  <2> QED
    BY Zenon, <1>3, <2>1, <2>4
<1> QED
  BY Zenon, <1>4, <1>5, <1>6, <1>7 DEF CatchUpInv, Exchanges

(***************************************************************************)
(* Nothing between the start of a watch and its cursor is undelivered: in  *)
(* every state, whatever ticks, piggybacked deltas and reconnections       *)
(* overlap, fail or arrive after the watch was left and taken up again, a  *)
(* record whose last change is not after the cursor is known to the client *)
(* with that change (collection_changes, apply_reply, resubscribe).  The   *)
(* hypothesis leaves out the interleavings ReadHazards names: a removal    *)
(* between the node's two reads, a save between the reads of a             *)
(* reconnection, a delta asked for before the first answer.                *)
(***************************************************************************)
THEOREM CursorCoversWhatWasDelivered ==
    ASSUME ReadHazards = {}
    PROVE  CatchUpSpec => []CursorCoversDelivered
<1>1. CatchUpInit => CatchUpInv
  <2> SUFFICES ASSUME CatchUpInit PROVE CatchUpInv
    BY Zenon
  <2>1. Dated /\ Living /\ CursorCoversDelivered
    BY SMTT(30) DEF CatchUpInit, Dated, Living, CursorCoversDelivered, Unset
  <2>2. Began
    BY Zenon DEF CatchUpInit, Began
  <2>3. \A x \in {"tick", "post"} : Sound(exchange[x])
    BY Zenon DEF CatchUpInit, Sound
  <2> QED
    BY Zenon, <2>1, <2>2, <2>3, InitTypes DEF CatchUpInv
<1>2. CatchUpInv /\ [CatchUpNext]_catchUpVars => CatchUpInv'
  <2> SUFFICES ASSUME CatchUpInv, [CatchUpNext]_catchUpVars PROVE CatchUpInv'
    BY Zenon
  <2>1. CatchUpTypeOK' /\ DOMAIN exchange = Exchanges
    BY Zenon, StepTypes DEF CatchUpInv, CatchUpTypeOK, Exchanges
  <2>2. CASE UNCHANGED catchUpVars
    BY SMTT(30), <2>2 DEF catchUpVars, collection, client, CatchUpInv, CatchUpTypeOK, Dated, Living, Began,
                Sound, ChainReadAt, BothReadAt, Covers, CursorCoversDelivered, LastChange
  <2> QED
    BY Zenon, <2>1, <2>2, CommitKeeps, AskKeeps, FaultKeeps, RegisterKeeps, ReadChainKeeps,
       ReadDeadKeeps, AnswerKeeps, ApplyReplyKeeps, UnwatchKeeps, WatchKeeps DEF CatchUpNext
<1>3. CatchUpInv => CursorCoversDelivered
  BY Zenon DEF CatchUpInv
<1> QED
  BY <1>1, <1>2, <1>3, PTL DEF CatchUpSpec
=============================================================================
