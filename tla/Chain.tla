------------------------------- MODULE Chain -------------------------------
(***************************************************************************)
(* A record chain (segment.rs, chain.rs, chain_remove.rs): doubly linked   *)
(* segments of at least one and fewer than 2 * min entries, sorted by key  *)
(* across the whole chain, with a sparse index above them, or, for the     *)
(* removal log, none.  A chain is the record of its handle and the values  *)
(* its ids name in the store; PlanInsert and PlanRemove return the chain   *)
(* after the planned batch.  A SecKey is a natural number: chains only     *)
(* compare keys.                                                           *)
(***************************************************************************)
EXTENDS SparseTree

Segment(prev, next, entries) == [prev |-> prev, next |-> next, entries |-> entries]

FirstKey(seg) == IF seg.entries = <<>> THEN NoId ELSE seg.entries[1][1]

(* Where the key sits, or the place before which it would be inserted. *)
Position(entries, key) == Cardinality({i \in DOMAIN entries : entries[i][1] < key}) + 1

Holds(entries, key) ==
    LET i == Position(entries, key) IN i <= Len(entries) /\ entries[i][1] = key

InsertEntry(entries, key, payload) ==
    LET i == Position(entries, key)
    IN IF Holds(entries, key) THEN [entries EXCEPT ![i] = <<key, payload>>]
       ELSE InsertAt(entries, i, <<key, payload>>)

RemoveEntry(entries, key) == RemoveAt(entries, Position(entries, key))

(* plan_create and plan_create_log: one empty segment is both endpoints. *)
CreateChain(min, indexed, cap) ==
    [head |-> 1, tail |-> 1, segs |-> 1 :> Segment(NoId, NoId, <<>>),
     min |-> min, indexed |-> indexed, index |-> CreateIndex(cap)]

-----------------------------------------------------------------------------
(* locate: the segment the index names, the head when the key is below     *)
(* every separator; without an index, back from the tail while the segment *)
(* starts above the key (walk_back_to).                                    *)
Locate(c, key) ==
    LET back[id \in DOMAIN c.segs] ==
            LET seg == c.segs[id] IN
            IF FirstKey(seg) > key /\ seg.prev # NoId THEN back[seg.prev] ELSE id
        found == Find(c.index, key)
    IN IF ~c.indexed THEN back[c.tail]
       ELSE IF found = NoId THEN c.head ELSE found

Get(c, key) ==
    LET entries == c.segs[Locate(c, key)].entries
    IN IF Holds(entries, key) THEN <<entries[Position(entries, key)][2]>> ELSE <<>>

(* relink: nothing lies beyond an endpoint. *)
SetNext(segs, id, to) == IF id = NoId THEN segs ELSE [segs EXCEPT ![id].next = to]

SetPrev(segs, id, to) == IF id = NoId THEN segs ELSE [segs EXCEPT ![id].prev = to]

(* A reindex that files the new separator and forgets the old one. *)
ReindexKeepsOld(c, was, id) ==
    LET seg == c.segs[id]
    IN IF ~c.indexed \/ seg.entries = <<>> THEN c
       ELSE [c EXCEPT !.index = Upsert(@, Entry(FirstKey(seg), id, Len(seg.entries)))]

(* reindex: the separator of a segment moves from was to its least key. *)
Reindex(c, was, id) ==
    LET seg == c.segs[id]
        now == FirstKey(seg)
        cleared == IF was # now /\ was # NoId THEN Unindex(c.index, was) ELSE c.index
    IN IF ~c.indexed THEN c
       ELSE [c EXCEPT !.index =
                IF now = NoId THEN cleared
                ELSE Upsert(cleared, Entry(now, id, Len(seg.entries)))]

(* split: a full tail keeps its id and the newer half; any other segment   *)
(* keeps the older half.                                                   *)
SplitSegment(c, id, entries, was) ==
    LET seg == c.segs[id]
        half == Len(entries) \div 2
        lower == SubSeq(entries, 1, half)
        upper == SubSeq(entries, half + 1, Len(entries))
        fresh == Unused(c.segs)
        behind == Put(Put(SetNext(c.segs, seg.prev, fresh),
                          id, Segment(fresh, seg.next, upper)),
                      fresh, Segment(seg.prev, id, lower))
        after == Put(Put(SetPrev(c.segs, seg.next, fresh),
                         id, Segment(seg.prev, fresh, lower)),
                     fresh, Segment(id, seg.next, upper))
    IN IF id = c.tail
       THEN LET d == [c EXCEPT !.segs = behind,
                               !.head = IF seg.prev = NoId THEN fresh ELSE @]
            IN Reindex(Reindex(d, was, fresh), NoId, id)
       ELSE LET d == [c EXCEPT !.segs = after,
                               !.tail = IF seg.next = NoId THEN fresh ELSE @]
            IN Reindex(Reindex(d, was, id), NoId, fresh)

Full(c, entries) == Len(entries) >= 2 * c.min

PlanInsert(c, key, payload) ==
    LET id == Locate(c, key)
        was == FirstKey(c.segs[id])
        entries == InsertEntry(c.segs[id].entries, key, payload)
    IN IF Full(c, entries)
       THEN SplitSegment(c, id, entries, was)
       ELSE Reindex([c EXCEPT !.segs[id].entries = entries], was, id)

-----------------------------------------------------------------------------
EvenShares(all) ==
    LET half == (Len(all) + 1) \div 2
    IN <<SubSeq(all, 1, half), SubSeq(all, half + 1, Len(all))>>

(* redistribute: the pair's entries are shared evenly, links stay. *)
Redistribute(c, left, right, all, lwas, rwas) ==
    LET d == [c EXCEPT !.segs[left].entries = EvenShares(all)[1],
                       !.segs[right].entries = EvenShares(all)[2]]
    IN Reindex(Reindex(d, lwas, left), rwas, right)

(* The head survives a merge it takes part in, else the tail, else the     *)
(* left side.                                                              *)
KeepLeft(c, left, right) == left = c.head \/ right # c.tail

TailAfter(c, keepLeft, out, kept) == IF keepLeft /\ out = NoId THEN kept ELSE c.tail

(* merge: one segment takes every entry and the links of the other. *)
Merge(c, left, right, all, lwas, rwas) ==
    LET keepLeft == KeepLeft(c, left, right)
        kept == IF keepLeft THEN left ELSE right
        gone == IF keepLeft THEN right ELSE left
        out == IF keepLeft THEN c.segs[right].next ELSE c.segs[left].prev
        linked == IF keepLeft
                  THEN SetPrev([c.segs EXCEPT ![kept].next = out], out, kept)
                  ELSE SetNext([c.segs EXCEPT ![kept].prev = out], out, kept)
        gwas == IF keepLeft THEN rwas ELSE lwas
        d == [c EXCEPT !.segs = Erase([linked EXCEPT ![kept].entries = all], gone),
                       !.tail = TailAfter(c, keepLeft, out, kept),
                       !.head = IF ~keepLeft /\ out = NoId THEN kept ELSE @,
                       !.index = IF c.indexed /\ gwas # NoId THEN Unindex(@, gwas) ELSE @]
    IN Reindex(d, IF keepLeft THEN lwas ELSE rwas, kept)

(* plan_remove: an absent key plans nothing; a segment left with at most   *)
(* min / 2 entries is balanced against its successor, else its             *)
(* predecessor; a lone segment stays, empty if it must.                    *)
PlanRemove(c, key) ==
    LET id == Locate(c, key)
        seg == c.segs[id]
        was == FirstKey(seg)
        rest == RemoveEntry(seg.entries, key)
        d == [c EXCEPT !.segs[id].entries = rest]
        mate == IF seg.next # NoId THEN seg.next ELSE seg.prev
        left == IF seg.next # NoId THEN id ELSE mate
        right == IF seg.next # NoId THEN mate ELSE id
        lwas == IF left = id THEN was ELSE FirstKey(c.segs[left])
        rwas == IF right = id THEN was ELSE FirstKey(c.segs[right])
        all == d.segs[left].entries \o d.segs[right].entries
    IN IF ~Holds(seg.entries, key) THEN c
       ELSE IF Len(rest) > c.min \div 2 \/ mate = NoId THEN Reindex(d, was, id)
       ELSE IF Len(all) >= 2 * c.min THEN Redistribute(d, left, right, all, lwas, rwas)
       ELSE Merge(d, left, right, all, lwas, rwas)

-----------------------------------------------------------------------------
(* The segments met from the head along next (listed_from), and from the   *)
(* tail along prev (all).                                                  *)
Forward(c) ==
    LET walk[id \in DOMAIN c.segs] ==
            <<id>> \o IF c.segs[id].next = NoId THEN <<>> ELSE walk[c.segs[id].next]
    IN walk[c.head]

Backward(c) ==
    LET walk[id \in DOMAIN c.segs] ==
            <<id>> \o IF c.segs[id].prev = NoId THEN <<>> ELSE walk[c.segs[id].prev]
    IN walk[c.tail]

Entries(c, path) == FlattenSeq([i \in DOMAIN path |-> c.segs[path[i]].entries])

(* The entries a reader entered at a global offset streams. *)
ListedAt(c, offset) ==
    LET start == IF offset = 0 THEN <<c.head, 0>> ELSE FindOffset(c.index, offset)
        path == Forward(c)
        at == {i \in DOMAIN path : path[i] = start[1]}
        rest == SubSeq(path, Min(at), Len(path))
    IN IF at = {} THEN <<>>
       ELSE SubSeq(Entries(c, rest), start[2] + 1, Len(Entries(c, rest)))

=============================================================================
