----------------------------- MODULE SparseTree -----------------------------
(***************************************************************************)
(* The counted sparse index above a record chain (sparse.rs,               *)
(* sparse_write.rs).  A tree is a record [root, nodes, cap]; a node is     *)
(* [leaf, es]; an entry [first, to, count] is a Slot when its node is a    *)
(* leaf (to names a segment) and a Branch when it is not (to names a       *)
(* node).  The planners are functions from a tree to the tree their batch  *)
(* leaves behind: every read of a plan goes through the overlay of the     *)
(* writes it already made.                                                 *)
(***************************************************************************)
EXTENDS Naturals, Sequences, SequencesExt, FiniteSets, FiniteSetsExt, TLC

NoId == 0

Entry(first, to, count) == [first |-> first, to |-> to, count |-> count]

Leaf(es) == [leaf |-> TRUE, es |-> es]

Internal(es) == [leaf |-> FALSE, es |-> es]

(* mint_lane_id: an id no stored value has.  A freed id may come back,     *)
(* which the clock behind the real ids rules out.                          *)
Unused(f) == Min((1 .. Cardinality(DOMAIN f) + 1) \ DOMAIN f)

Put(f, id, v) == (id :> v) @@ f

Erase(f, id) == Restrict(f, DOMAIN f \ {id})

Total(es) == FoldLeft(LAMBDA sum, e : sum + e.count, 0, es)

(* How many entries lie at or below the key: the index of the last one,    *)
(* 0 when there is none (last_at_or_below, partition_point).               *)
AtOrBelow(es, key) == Cardinality({i \in DOMAIN es : es[i].first <= key})

BranchFor(es, key) == Max({1, AtOrBelow(es, key)})

CreateIndex(cap) == [root |-> 1, nodes |-> 1 :> Leaf(<<>>), cap |-> cap]

-----------------------------------------------------------------------------
(* find: the segment covering a key, NoId when it is below every slot. *)
Find(t, key) ==
    LET at[id \in DOMAIN t.nodes] ==
            LET n == t.nodes[id]
                i == AtOrBelow(n.es, key) IN
            IF i = 0 THEN NoId
            ELSE IF n.leaf THEN n.es[i].to ELSE at[n.es[i].to]
    IN at[t.root]

(* containing: the first entry whose running count exceeds the offset, and *)
(* the offset within it; <<0, 0>> when the offset is past the end.         *)
Containing(es, offset) ==
    LET before(i) == Total(SubSeq(es, 1, i - 1))
        hit == {i \in DOMAIN es : offset < before(i) + es[i].count}
    IN IF hit = {} THEN <<0, 0>> ELSE <<Min(hit), offset - before(Min(hit))>>

(* find_offset: the segment holding the record at a global offset and its  *)
(* place in it.                                                            *)
FindOffset(t, offset) ==
    LET at[id \in DOMAIN t.nodes, off \in 0 .. offset] ==
            LET n == t.nodes[id]
                c == Containing(n.es, off) IN
            IF c[1] = 0 THEN <<NoId, 0>>
            ELSE IF n.leaf THEN <<n.es[c[1]].to, c[2]>>
            ELSE at[n.es[c[1]].to, c[2]]
    IN at[t.root, offset]

IndexTotal(t) == Total(t.nodes[t.root].es)

-----------------------------------------------------------------------------
(* descend: the frames from the root down, and the leaf they end in. *)
Descend(t, key) ==
    LET path[id \in DOMAIN t.nodes] ==
            LET n == t.nodes[id]
                i == BranchFor(n.es, key) IN
            IF n.leaf THEN <<[id |-> id, idx |-> 0]>>
            ELSE <<[id |-> id, idx |-> i]>> \o path[n.es[i].to]
    IN path[t.root]

(* split_sibling: an overfull node keeps its lower (longer) half; the rest *)
(* goes to a fresh node, whose branch is carried up.                       *)
SplitSibling(nodes, node, cap) ==
    LET at == (Len(node.es) + 1) \div 2
        upper == SubSeq(node.es, at + 1, Len(node.es))
        id == Unused(nodes)
    IN IF Len(node.es) <= cap
       THEN [node |-> node, nodes |-> nodes, carry |-> <<>>]
       ELSE [node  |-> [node EXCEPT !.es = SubSeq(@, 1, at)],
             nodes |-> Put(nodes, id, [node EXCEPT !.es = upper]),
             carry |-> <<Entry(upper[1].first, id, Total(upper))>>]

(* One level of climb: the child just rewritten is deleted when it covers  *)
(* nothing, else its branch is refreshed and a carried sibling follows it. *)
ClimbOne(cap, s, frame) ==
    LET es == s.nodes[frame.id].es
        split == SplitSibling(s.nodes, s.node, cap)
        fresh == <<Entry(s.node.es[1].first, s.id, Total(split.node.es))>>
    IN IF s.node.es = <<>>
       THEN [id    |-> frame.id,
             node  |-> Internal(RemoveAt(es, frame.idx)),
             nodes |-> Erase(s.nodes, s.id)]
       ELSE [id    |-> frame.id,
             node  |-> Internal(SubSeq(es, 1, frame.idx - 1) \o fresh \o split.carry
                                \o SubSeq(es, frame.idx + 1, Len(es))),
             nodes |-> Put(split.nodes, s.id, split.node)]

(* The root keeps its id: an overfull one moves its lower half to a fresh  *)
(* child, and an internal one left without entries is an empty leaf again. *)
FinishRoot(t, s) ==
    LET split == SplitSibling(s.nodes, s.node, t.cap)
        low == Unused(split.nodes)
        grown == Internal(<<Entry(split.node.es[1].first, low, Total(split.node.es))>>
                          \o split.carry)
    IN [t EXCEPT !.nodes =
            IF split.carry # <<>>
            THEN Put(Put(split.nodes, low, split.node), t.root, grown)
            ELSE Put(s.nodes, t.root, IF s.node.es = <<>> THEN Leaf(<<>>) ELSE s.node)]

Climb(t, path, slots) ==
    LET base == [id |-> Last(path).id, node |-> Leaf(slots), nodes |-> t.nodes]
    IN FinishRoot(t, FoldLeft(LAMBDA s, frame : ClimbOne(t.cap, s, frame),
                              base, Reverse(Front(path))))

(* plan_upsert: replace the slot with that first key, or file it in order. *)
Upsert(t, slot) ==
    LET path == Descend(t, slot.first)
        slots == t.nodes[Last(path).id].es
        i == AtOrBelow(slots, slot.first)
        same == i > 0 /\ slots[i].first = slot.first
    IN Climb(t, path, IF same THEN [slots EXCEPT ![i] = slot]
                      ELSE InsertAt(slots, i + 1, slot))

(* plan_remove: an absent first key plans nothing. *)
Unindex(t, first) ==
    LET path == Descend(t, first)
        slots == t.nodes[Last(path).id].es
        i == AtOrBelow(slots, first)
    IN IF i = 0 \/ slots[i].first # first THEN t ELSE Climb(t, path, RemoveAt(slots, i))

=============================================================================
