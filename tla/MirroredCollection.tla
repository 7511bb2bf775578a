------------------------ MODULE MirroredCollection ------------------------
(***************************************************************************)
(* A node's collection (or Unique record) and the copy a client keeps of   *)
(* it in its cache (wavedb/src: client_cache.rs, client_handle.rs,         *)
(* client_lists.rs, watch.rs).  Operations of the client and of others     *)
(* commit one after the other on the node; the client applies, in any      *)
(* interleaving, the events of its watch in order, the reply to its own    *)
(* operation, and the frames of a walk or of a paged list.                 *)
(*                                                                         *)
(* Node and client restart with a clock that may have gone back: the       *)
(* node's clock is stopped at 0, so every instant is the least the floors  *)
(* allow.                                                                  *)
(***************************************************************************)
EXTENDS Collection

CONSTANTS
    TypeSetups,   \* the types explored, each with what its client does
    Keys,         \* natural keys, each its own hash
    Fields,
    ClientClocks, \* readings of the client's clock
    Chunk,        \* CHUNK of client_lists.rs
    MaxOwn,       \* bound: those of them the client's own
    MaxRestarts   \* bound: restarts of the node

ASSUME ChunkIsPositive == Chunk \in Nat \ {0}

VARIABLES
    type,         \* a type of Collection, with the fields: cached, whether the
                  \* client watches with a cache; writes and reads, what else it
                  \* does; ops, bound: operations on the node
    node, mirror, \* stores
    feed,         \* events of the watch in flight
    reply,        \* the client's own operation acknowledged, not yet mirrored
    reader,       \* the client's walk or pager
    ops, own, restarts,
    (* History variables. *)
    bodies,       \* id -> every body saved to it on the node, newest first
    top,          \* the highest instant the node's chain or log ever held
    strays,       \* records saved without an insert
    unclean,      \* records saved to while they were in no index
    seen,         \* id -> number of the last operation whose event was applied
    overtaken     \* a reply or frame was applied after a later event

bounds == <<ops, own, restarts>>
history == <<bodies, top, strays, unclean>>
delivery == <<seen, overtaken>>
mirrorVars == <<type, node, mirror, feed, reply, reader, bounds, history, delivery>>

NoReply == <<>>
Bodies == (IF type.keyed THEN Keys ELSE {0}) \X Fields

(* A reader is a walk or a pager: the frames to apply, the offset of its   *)
(* page, the frames served, the operations done when the page was read,    *)
(* the list when it began and whether an entry has left the list since.    *)
Resting == [kind |-> "none", frames |-> <<>>, at |-> 0, page |-> 0, asOf |-> 0,
            served |-> {}, began |-> {}, shrunk |-> FALSE]

MirrorInit ==
    /\ type \in TypeSetups
    /\ node = CreateRooted(Unrooted) /\ mirror = Unrooted
    /\ feed = <<>> /\ reply = NoReply /\ reader = Resting
    /\ ops = 0 /\ own = 0 /\ restarts = 0
    /\ bodies = <<>> /\ top = 0 /\ strays = {} /\ unclean = {}
    /\ seen = <<>> /\ overtaken = FALSE

-----------------------------------------------------------------------------
(* The node. *)

ListKeys(st) == {<<e[1], e[2]>> : e \in st.lists}

(* An operation's batch with the event it publishes; the client waits for  *)
(* the reply to its own.                                                   *)
Commit(result) ==
    LET id == result.mutation[2]
        event == [n |-> ops + 1, mutation |-> result.mutation]
    IN
    /\ ops < type.ops
    /\ result.mutation # <<>>
    /\ node' = result.st
    /\ ops' = ops + 1
    /\ feed' = IF type.cached THEN Append(feed, event) ELSE feed
    /\ \/ UNCHANGED <<reply, own>>
       \/ type.writes /\ reply = NoReply /\ own < MaxOwn /\ reply' = <<event>> /\ own' = own + 1
    /\ bodies' = IF result.mutation[1] = "removed" THEN bodies
                 ELSE (id :> <<result.mutation[4]>>
                             \o (IF id \in DOMAIN bodies THEN bodies[id] ELSE <<>>)) @@ bodies
    /\ unclean' = IF \/ type.unique \/ result.mutation[1] = "removed"
                     \/ \E k \in result.st.recency : k[2] = id
                  THEN unclean ELSE unclean \cup {id}
    /\ top' = Highest({top} \cup {k[1] : k \in result.st.recency \cup result.st.removals})
    /\ reader' = [reader EXCEPT !.shrunk = @ \/ ~(ListKeys(node) \subseteq ListKeys(result.st))]
    /\ UNCHANGED <<type, mirror, restarts, delivery>>

NodeInsert ==
    /\ ~type.unique
    /\ \E body \in Bodies :
           /\ Commit(Insert(node, type, 0, body))
           /\ strays' = {id \in strays : IsLive(node.anchor[id]) \/ id # KeyOf(body)}

(* An update; only a #[server] function can address an id never inserted   *)
(* (a command finds the collection through the record's back-link).        *)
NodeUpdate ==
    /\ ~type.unique
    /\ \E id \in DOMAIN node.anchor \cup (IF type.keyed THEN Keys ELSE {}), body \in Bodies :
           /\ Commit(SavePlanned(node, type, 0, id, body, {}))
           /\ strays' = IF id \in DOMAIN node.anchor THEN strays ELSE strays \cup {id}

NodeRemove ==
    /\ ~type.unique
    /\ \E id \in DOMAIN node.anchor : Commit(RemoveRecord(node, type, 0, id))
    /\ UNCHANGED strays

NodeSaveUnique ==
    /\ type.unique
    /\ \E body \in Bodies :
           LET saved == SaveUnique(node, 0, body)
           IN  Commit(Done(saved, Saved(saved, UniqueAnchor)))
    /\ UNCHANGED strays

(* The process forgets LAST; the store is what it was. *)
NodeRestart ==
    /\ restarts < MaxRestarts /\ node.last # 0
    /\ restarts' = restarts + 1
    /\ node' = [node EXCEPT !.last = 0]
    /\ UNCHANGED <<type, mirror, feed, reply, reader, ops, own, history, delivery>>

-----------------------------------------------------------------------------
(* The client. *)

MirrorUnique(st, clock, body) ==
    IF GetUnique(st) = <<body>> THEN st ELSE SaveUnique(st, clock, body)

MirrorUniqueMeta(st, meta, body) == AdoptUnique(st, meta, body)

MirrorRecord(st, clock, id, body) == Adopt(AdoptPivot(st), type, clock, id, body)

MirrorRecordMeta(st, id, meta, body) == AdoptWith(AdoptPivot(st), type, id, meta, body)

(* A local remove of a pivot never adopted fails and changes nothing. *)
MirrorRemove(st, clock, id) == IF st.rooted THEN RemoveRecord(st, type, clock, id).st ELSE st

LastSeen(id) == IF id \in DOMAIN seen THEN seen[id] ELSE 0

(* Mutant: a watch mirrors what it can without the metadata. *)
WatchNextByBody ==
    /\ feed # <<>>
    /\ \E clock \in ClientClocks :
           LET m == Head(feed).mutation IN
           mirror' = IF m[1] = "removed" THEN MirrorRemove(mirror, clock, m[2])
                     ELSE IF type.unique THEN MirrorUnique(mirror, clock, m[4])
                     ELSE MirrorRecord(mirror, clock, m[2], m[4])
    /\ seen' = (Head(feed).mutation[2] :> Head(feed).n) @@ seen
    /\ feed' = Tail(feed)
    /\ UNCHANGED <<type, node, reply, reader, bounds, history, overtaken>>

(* UniqueWatch::next and CollectionWatch::next *)
WatchNext ==
    /\ feed # <<>>
    /\ \E clock \in ClientClocks :
           LET m == Head(feed).mutation IN
           mirror' = IF m[1] = "removed" THEN MirrorRemove(mirror, clock, m[2])
                     ELSE IF type.unique THEN MirrorUniqueMeta(mirror, m[3], m[4])
                     ELSE MirrorRecordMeta(mirror, m[2], m[3], m[4])
    /\ seen' = (Head(feed).mutation[2] :> Head(feed).n) @@ seen
    /\ feed' = Tail(feed)
    /\ UNCHANGED <<type, node, reply, reader, bounds, history, overtaken>>

(* The tail of insert, update, remove and save_unique in client_handle.rs: *)
(* the reply carries no metadata.                                          *)
MirrorReply ==
    /\ reply # NoReply
    /\ \E clock \in ClientClocks :
           LET m == reply[1].mutation IN
           mirror' = IF m[1] = "removed" THEN MirrorRemove(mirror, clock, m[2])
                     ELSE IF type.unique THEN MirrorUnique(mirror, clock, m[4])
                     ELSE MirrorRecord(mirror, clock, m[2], m[4])
    /\ overtaken' = (overtaken \/ LastSeen(reply[1].mutation[2]) > reply[1].n)
    /\ reply' = NoReply
    /\ UNCHANGED <<type, node, feed, reader, bounds, history, seen>>

(* The first Chunk frames of a page of the list (listed_values). *)
Page(at) ==
    LET rest == ListedFrom(node, at)
    IN  SubSeq(rest, 1, IF Len(rest) < Chunk THEN Len(rest) ELSE Chunk)

(* cached_all: the walk is read in one exchange. *)
WalkStart ==
    /\ reader = Resting /\ type.reads /\ node.recency # {}
    /\ reader' = [Resting EXCEPT !.kind = "all", !.frames = All(node), !.asOf = ops]
    /\ UNCHANGED <<type, node, mirror, feed, reply, bounds, history, delivery>>

(* cached_listed: a first page, *)
ListStart ==
    /\ reader = Resting /\ type.reads /\ node.lists # {}
    /\ reader' = [Resting EXCEPT !.kind = "listed", !.frames = Page(0), !.page = Len(Page(0)),
                                 !.asOf = ops, !.began = {e[2] : e \in node.lists}]
    /\ UNCHANGED <<type, node, mirror, feed, reply, bounds, history, delivery>>

(* each of its records absorbed, *)
Absorb ==
    /\ reader.frames # <<>>
    /\ LET f == Head(reader.frames) IN
       /\ mirror' = MirrorRecordMeta(mirror, f.id, f.meta, f.body)
       /\ overtaken' = (overtaken \/ LastSeen(f.id) > reader.asOf)
       /\ reader' = [reader EXCEPT !.frames = Tail(@), !.served = @ \cup {f.id}]
    /\ UNCHANGED <<type, node, feed, reply, bounds, history, seen>>

(* Mutant: the next page starts after a full chunk and one. *)
NextPageSkips ==
    /\ reader.kind = "listed" /\ reader.frames = <<>> /\ reader.page = Chunk
    /\ LET at == reader.at + Chunk + 1 IN
       reader' = [reader EXCEPT !.at = at, !.frames = Page(at), !.page = Len(Page(at)),
                                !.asOf = ops]
    /\ UNCHANGED <<type, node, mirror, feed, reply, bounds, history, delivery>>

(* and another page while they come back full. *)
NextPage ==
    /\ reader.kind = "listed" /\ reader.frames = <<>> /\ reader.page = Chunk
    /\ LET at == reader.at + reader.page IN
       reader' = [reader EXCEPT !.at = at, !.frames = Page(at), !.page = Len(Page(at)),
                                !.asOf = ops]
    /\ UNCHANGED <<type, node, mirror, feed, reply, bounds, history, delivery>>

(* A reader read to its end. *)
ReaderEnded == reader.frames = <<>> /\ reader # Resting /\ (reader.kind = "all" \/ reader.page < Chunk)

MirrorNext ==
    \/ NodeInsert \/ NodeUpdate \/ NodeRemove \/ NodeSaveUnique \/ NodeRestart
    \/ WatchNext \/ MirrorReply
    \/ WalkStart \/ ListStart \/ Absorb \/ NextPage

MirrorSpec == MirrorInit /\ [][MirrorNext]_mirrorVars

-----------------------------------------------------------------------------
(* What the readers answer offline: cached_all and warm serve the mirror   *)
(* when its pivot was adopted, unique_fallback when a value is there.      *)
WarmAll == IF mirror.rooted THEN <<All(mirror)>> ELSE <<>>
WarmList == IF mirror.rooted THEN <<ListedFrom(mirror, 0)>> ELSE <<>>

Ids(frames) == {frames[i].id : i \in DOMAIN frames}

(* Every read of a store agrees on which records are living and on what    *)
(* they hold.                                                              *)
ReadsAgree(st, unindexed, doubtful) ==
    LET living == {id \in DOMAIN st.anchor : IsLive(st.anchor[id])} \ unindexed
        frames == {Frame(id, st.anchor[id]) : id \in living}
        clean(found) == {f \in found : f.id \notin doubtful}
    IN
    /\ Len(All(st)) = Cardinality(living)
    /\ {All(st)[i] : i \in DOMAIN All(st)} = frames
    /\ {ListedFrom(st, 0)[i] : i \in DOMAIN ListedFrom(st, 0)} = frames
    /\ Cardinality(st.lists) = Cardinality(living)
    /\ \A field \in Fields :
        /\ LET filed == {f \in frames : FieldOf(f.body) = field} IN
           /\ type.secondaries =>
                /\ filed \subseteq SearchBy(st, field)
                /\ clean(SearchBy(st, field)) = clean(filed)
           /\ filed \subseteq FuzzyCandidates(st, field)
           /\ clean(FuzzyCandidates(st, field)) = clean(filed)

(* On the node, all, listed, search_by and fuzzy_search find every living  *)
(* record with its current contents, through any sequence of inserts,      *)
(* updates, removals and revivals.  A record saved to while it was removed *)
(* may also be found under fields it no longer has: its keys move although *)
(* it is not indexed (plan_secondary_rekeys).  A record saved without an   *)
(* insert is in no index.                                                  *)
NodeReadsAgree == ~type.unique => ReadsAgree(node, strays, unclean)

(* A record's history is every body ever saved to it, newest first: no     *)
(* archive is overwritten although all records of a type share the slots   *)
(* and the clock may go back at a restart.  (Instants of saves to removed  *)
(* and to never inserted records are in neither log, so the floor does not *)
(* protect those.)                                                         *)
HistoryComplete ==
    unclean = {} =>
        \A id \in DOMAIN bodies : History(node, id) = bodies[id]

(* The node loses nothing of what was committed: neither a record from a   *)
(* read nor a version from a history (collection_write.rs, record.rs).     *)
NodeExact == NodeReadsAgree /\ HistoryComplete

(* What a catch-up cursor relies on: an entry that appears in the record   *)
(* chain or in the removal log is later than every entry either ever held, *)
(* restarts included (instant_floor).                                      *)
LogsGrowAtTheTail ==
    [][\A k \in (node'.recency \ node.recency) \cup (node'.removals \ node.removals) :
            k[1] > top]_mirrorVars

(* A mirror's indexes agree with its anchors whatever the order in which   *)
(* replies, frames and events reach it, unless removed or unindexed        *)
(* records were saved to.                                                  *)
MirrorReadsAgree ==
    unclean = {} /\ ~type.unique => ReadsAgree(mirror, {}, {})

(* Once every event is applied and no reply or frame was overtaken by a    *)
(* later event, the cache serves what the node would: the same records,    *)
(* the same metadata, in the same order.                                   *)
MirrorConverges ==
    type.cached /\ feed = <<>> /\ reply = NoReply /\ ~overtaken /\ unclean = {} =>
        IF type.unique THEN GetUnique(mirror) = GetUnique(node)
        ELSE \/ node.recency = {} /\ WarmAll = <<>>
             \/ WarmAll = <<All(node)>> /\ WarmList = <<ListedFrom(node, 0)>>

(* The client's copy is at every moment a collection whose reads agree     *)
(* with each other, and the node's once it has caught up (client_cache.rs, *)
(* watch.rs).                                                              *)
MirrorExact == MirrorReadsAgree /\ MirrorConverges

(* The pager asks page after page while the list changes.  A record that   *)
(* was listed when it began is served unless some entry left the list      *)
(* meanwhile: insertions may repeat rows, they hide none.                  *)
PagerMissesNothing ==
    ReaderEnded /\ reader.kind = "listed" /\ ~reader.shrunk => reader.began \subseteq reader.served
=============================================================================
