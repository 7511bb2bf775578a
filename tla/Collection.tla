---------------------------- MODULE Collection ----------------------------
(***************************************************************************)
(* The operations of a collection (wavedb-core/src/collection*.rs), each   *)
(* one atomic batch on a store.  The chains and trees an operation edits   *)
(* are the sets of their keys here (IndexStructures has their shape):      *)
(*   recency    {<<instant, id>>}, the record chain                        *)
(*   removals   {<<instant, id>>}, the removal log                         *)
(*   secs       {<<field, id>>}, the secondary trees                       *)
(*   lists      {<<field, id, version>>}, the declared lists, with a copy  *)
(*              of the record                                              *)
(*   fuzzy      {<<gram, id>>}                                             *)
(*   rooted     whether the pivot exists                                   *)
(* A type is a record: keyed (it declares a natural key), secondaries (it  *)
(* declares any), unique.  An operation answers the new store and the      *)
(* mutation it notes, <<>> when it refuses or changes nothing.             *)
(***************************************************************************)
EXTENDS VersionChain

(* create_rooted *)
Unrooted == [anchor |-> <<>>, arch |-> <<>>, last |-> 0, recency |-> {}, removals |-> {},
             secs |-> {}, lists |-> {}, fuzzy |-> {}, rooted |-> FALSE]
CreateRooted(st) == [st EXCEPT !.rooted = TRUE]

AdoptPivot(st) == IF st.rooted THEN st ELSE CreateRooted(st)

KeyOf(body) == body[1]
FieldOf(body) == body[2]

(* keyed_anchor: the anchor derived from the natural key, if there is one. *)
KeyedAnchor(type, body) == IF type.keyed THEN {KeyOf(body)} ELSE {}

InstantKey(instant, id) == <<instant, id>>
SecKeys(type, body, id) == IF type.secondaries THEN {<<FieldOf(body), id>>} ELSE {}
ListEntry(version, id) == <<FieldOf(version.body), id, version>>

(* fuzzy_keys: two texts share a gram. *)
FuzzyKeys(body, id) == {<<0, id>>, <<FieldOf(body), id>>}

(* Mutant: what was removed is forgotten. *)
LiveFloor(st) == Highest({0} \cup {k[1] : k \in st.recency})

(* instant_floor: the last keys of the chain and of the removal log. *)
InstantFloor(st) == Highest({0} \cup {k[1] : k \in st.recency \cup st.removals})

Saved(st, id) == <<"saved", id, st.anchor[id].meta, st.anchor[id].body>>
Done(st, mutation) == [st |-> st, mutation |-> mutation]
Refused(st) == Done(st, <<>>)

-----------------------------------------------------------------------------
(* Anchor::Living *)
AnchorLives(st, id) == id \in DOMAIN st.anchor /\ IsLive(st.anchor[id])

(* plan_list_removes; an insert at a key replaces the copy filed there. *)
Unlist(lists, id, body) == {e \in lists : e[2] # id \/ e[1] # FieldOf(body)}

(* A version that enters the living set: its chain entry, its copy in the  *)
(* lists, its secondary and fuzzy keys.                                    *)
File(st, type, id) ==
    LET v == st.anchor[id] IN
    [st EXCEPT !.recency = @ \cup {InstantKey(v.meta.instant, id)},
               !.lists = Unlist(@, id, v.body) \cup {ListEntry(v, id)},
               !.secs = @ \cup SecKeys(type, v.body, id),
               !.fuzzy = @ \cup FuzzyKeys(v.body, id)]

InsertWithMeta(st, type, id, meta, body) ==
    LET filed == File([st EXCEPT !.anchor = (id :> Version(meta, body)) @@ @], type, id)
    IN  Done(filed, Saved(filed, id))

(* insert_at: the id's own instant is the first version's. *)
InsertAtId(st, type, id, body) ==
    InsertWithMeta(st, type, id, Created(NoLink, id, FALSE), body)

ChainIntoLiving(st, type, clock, id, imposed, body) ==
    LET saved == ChainedSave(st, clock, id, Plan(InstantFloor(st), imposed, TRUE), body)
        filed == File(saved, type, id)
    IN  Done(filed, Saved(filed, id))

(* plan_list_moves *)
MoveLists(lists, id, old, new) ==
    {e \in lists : e[2] # id \/ e[1] \notin {FieldOf(old.body), FieldOf(new.body)}}
        \cup {ListEntry(new, id)}

(* plan_fuzzy_moves *)
MoveFuzzy(fuzzy, id, old, new) ==
    (fuzzy \ (FuzzyKeys(old.body, id) \ FuzzyKeys(new.body, id)))
        \cup (FuzzyKeys(new.body, id) \ FuzzyKeys(old.body, id))

(* plan_chain_move: only an entry that is in the chain moves. *)
ChainMoves(recency, id, old, new) ==
    IF InstantKey(old.meta.instant, id) \in recency
    THEN (recency \ {InstantKey(old.meta.instant, id)})
             \cup {InstantKey(new.meta.instant, id)}
    ELSE recency

(* plan_reindex: the list copies move with the chain entry; secondary and  *)
(* fuzzy keys move whenever they differ.                                   *)
Reindexed(st, type, id, old) ==
    LET new == st.anchor[id]
        moved == InstantKey(old.meta.instant, id) \in st.recency
    IN  [st EXCEPT
            !.recency = ChainMoves(@, id, old, new),
            !.lists = IF moved THEN MoveLists(@, id, old, new) ELSE @,
            !.secs = IF FieldOf(old.body) = FieldOf(new.body) THEN @
                     ELSE (@ \ SecKeys(type, old.body, id)) \cup SecKeys(type, new.body, id),
            !.fuzzy = MoveFuzzy(@, id, old, new)]

(* save_planned.  Saving to an id never inserted writes a record no index  *)
(* holds, unless the type has secondaries.                                 *)
SavePlanned(st, type, clock, id, body, imposed) ==
    LET saved == ChainedSave(st, clock, id, Plan(InstantFloor(st), imposed, FALSE), body)
        indexed == IF id \in DOMAIN st.anchor THEN Reindexed(saved, type, id, st.anchor[id])
                   ELSE saved
    IN  IF \/ \E anchor \in KeyedAnchor(type, body) : anchor # id
           \/ id \notin DOMAIN st.anchor /\ type.secondaries
        THEN Refused(st)
        ELSE Done(indexed, Saved(indexed, id))

(* insert: an upsert at the derived anchor of a keyed type, a minted id    *)
(* otherwise.                                                              *)
UpsertKeyed(st, type, clock, id, body) ==
    IF AnchorLives(st, id)
    THEN SavePlanned(st, type, clock, id, body, {})
    ELSE ChainIntoLiving(st, type, clock, id, {}, body)

Insert(st, type, clock, body) ==
    IF type.keyed THEN UpsertKeyed(st, type, clock, KeyOf(body), body)
    ELSE LET id == Mint(clock, st.last, InstantFloor(st))
         IN  InsertAtId([st EXCEPT !.last = id], type, id, body)

(* Mutant: the removal is logged at the instant of the version removed. *)
RemovedAtVersion(st, clock, version) == version.meta.instant

RemovedAt(st, clock, version) == Mint(clock, st.last, InstantFloor(st))

(* remove: the bytes stay; the flag, the indexes and the removal log       *)
(* change.                                                                 *)
RemoveRecord(st, type, clock, id) ==
    IF ~AnchorLives(st, id) THEN Refused(st)
    ELSE LET v == st.anchor[id]
             at == RemovedAt(st, clock, v)
         IN  Done([st EXCEPT
                 !.anchor[id].meta.removed = TRUE,
                 !.last = at,
                 !.recency = @ \ {InstantKey(v.meta.instant, id)},
                 !.removals = @ \cup {InstantKey(at, id)},
                 !.lists = Unlist(@, id, v.body),
                 !.secs = @ \ SecKeys(type, v.body, id),
                 !.fuzzy = @ \ FuzzyKeys(v.body, id)], <<"removed", id>>)

-----------------------------------------------------------------------------
(* A mirror takes a record under the id the node gave it: adopt when the   *)
(* frame carries no metadata, adopt_with when it does.                     *)
Adopt(st, type, clock, id, body) ==
    IF id \notin DOMAIN st.anchor THEN InsertAtId(st, type, id, body).st
    ELSE IF ~AnchorLives(st, id) THEN ChainIntoLiving(st, type, clock, id, {}, body).st
    ELSE IF st.anchor[id].body = body THEN st
    ELSE SavePlanned(st, type, clock, id, body, {}).st

AdoptWith(st, type, id, meta, body) ==
    IF id \notin DOMAIN st.anchor THEN InsertWithMeta(st, type, id, meta, body).st
    ELSE IF ~AnchorLives(st, id) THEN ChainIntoLiving(st, type, 0, id, {meta}, body).st
    ELSE IF st.anchor[id] = Version(meta, body) THEN st
    ELSE SavePlanned(st, type, 0, id, body, {meta}).st

-----------------------------------------------------------------------------
(* Reads.  Keys are ordered by instant or field, then by record. *)
Before(a, b) == a[1] < b[1] \/ (a[1] = b[1] /\ a[2] < b[2])

InOrder(keys) ==
    [i \in 1 .. Cardinality(keys) |->
        CHOOSE k \in keys : Cardinality({j \in keys : Before(j, k)}) = i - 1]

Frame(id, version) == [id |-> id, meta |-> version.meta, body |-> version.body]

(* all, all_values: back from the chain's tail, each record resolved at    *)
(* its anchor.                                                             *)
All(st) ==
    LET keys == InOrder(st.recency) n == Len(keys)
    IN  [i \in 1 .. n |-> Frame(keys[n + 1 - i][2], st.anchor[keys[n + 1 - i][2]])]

(* listed_from: ascending from an offset, out of the list's own copies. *)
ListedFrom(st, offset) ==
    LET entries == InOrder(st.lists)
    IN  [i \in 1 .. (IF offset < Len(entries) THEN Len(entries) - offset ELSE 0) |->
            Frame(entries[offset + i][2], entries[offset + i][3])]

(* search_by; dead records are filtered by nothing but the tree. *)
SearchBy(st, field) ==
    {Frame(k[2], st.anchor[k[2]]) : k \in {s \in st.secs : s[1] = field}}

(* The candidates of fuzzy_search for one gram. *)
FuzzyCandidates(st, gram) ==
    {Frame(k[2], st.anchor[k[2]]) : k \in {g \in st.fuzzy : g[1] = gram}}
=============================================================================
