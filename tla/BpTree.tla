------------------------------- MODULE BpTree -------------------------------
(***************************************************************************)
(* The B+tree under secondary and fuzzy indexes (tree.rs, tree_insert.rs,  *)
(* tree_delete.rs, node_key.rs).  A tree is a record                       *)
(* [root, nodes, leafCap, internalCap]; a node [leaf, keys, kids] is a     *)
(* leaf of keys, or separators keys[i] between the children kids[i] and    *)
(* kids[i + 1] (kids[1] is leftmost).  A SecKey is a natural number and    *)
(* Field gives its field bytes; the tree compares keys, a search bound     *)
(* compares fields.                                                        *)
(***************************************************************************)
EXTENDS Naturals, Sequences, SequencesExt, FiniteSets, FiniteSetsExt, TLC

CONSTANT Field  \* Field[k]: the field bytes of key k, growing with k

LeafNode(keys) == [leaf |-> TRUE, keys |-> keys, kids |-> <<>>]

InternalNode(keys, kids) == [leaf |-> FALSE, keys |-> keys, kids |-> kids]

(* mint_node_id, and the writes of a batch. *)
FreshNode(nodes) == Min((1 .. Cardinality(DOMAIN nodes) + 1) \ DOMAIN nodes)

PutNode(nodes, id, n) == (id :> n) @@ nodes

RemoveNode(nodes, id) == Restrict(nodes, DOMAIN nodes \ {id})

CreateTree(leafCap, internalCap) ==
    [root |-> 1, nodes |-> 1 :> LeafNode(<<>>),
     leafCap |-> leafCap, internalCap |-> internalCap]

(* A descent that sends a key equal to its separator to the left. *)
ChildIndexStrict(n, key) == Cardinality({i \in DOMAIN n.keys : n.keys[i] < key}) + 1

(* child_and_index: as many separators lie at or below the key as children *)
(* lie before the one that covers it.                                      *)
ChildIndex(n, key) == Cardinality({i \in DOMAIN n.keys : n.keys[i] <= key}) + 1

(* The path from the root to the leaf covering a key: node and child taken *)
(* at each level, child 0 at the leaf.                                     *)
PathTo(t, key) ==
    LET path[id \in DOMAIN t.nodes] ==
            LET n == t.nodes[id]
                i == ChildIndex(n, key) IN
            IF n.leaf THEN <<[id |-> id, child |-> 0]>>
            ELSE <<[id |-> id, child |-> i]>> \o path[n.kids[i]]
    IN path[t.root]

TreeContains(t, key) == Contains(t.nodes[Last(PathTo(t, key)).id].keys, key)

(* max_key: down the last child; 0 when the rightmost leaf is empty. *)
MaxKey(t) ==
    LET down[id \in DOMAIN t.nodes] ==
            LET n == t.nodes[id] IN
            IF ~n.leaf THEN down[Last(n.kids)]
            ELSE IF n.keys = <<>> THEN 0 ELSE Last(n.keys)
    IN down[t.root]

-----------------------------------------------------------------------------
(* One level of plan_insert: the separator of the split child goes in just *)
(* after it; an overfull node splits, promoting its median separator.      *)
InsertUp(t, s, frame) ==
    LET n == s.nodes[frame.id]
        keys == InsertAt(n.keys, frame.child, s.sep)
        kids == InsertAt(n.kids, frame.child + 1, s.right)
        mid == Len(keys) \div 2
        fresh == FreshNode(s.nodes)
    IN IF ~s.pending THEN s
       ELSE IF Len(keys) <= t.internalCap
       THEN [s EXCEPT !.nodes = PutNode(@, frame.id, InternalNode(keys, kids)),
                      !.pending = FALSE]
       ELSE [nodes |-> PutNode(PutNode(s.nodes, frame.id,
                                   InternalNode(SubSeq(keys, 1, mid), SubSeq(kids, 1, mid + 1))),
                               fresh,
                               InternalNode(SubSeq(keys, mid + 2, Len(keys)),
                                            SubSeq(kids, mid + 2, Len(kids)))),
             sep |-> keys[mid + 1], right |-> fresh, pending |-> TRUE]

(* plan_insert: a present key plans nothing; a split that reaches past the *)
(* root grows a new one above it.                                          *)
TreeInsert(t, key) ==
    LET path == PathTo(t, key)
        leaf == Last(path).id
        old == t.nodes[leaf].keys
        keys == InsertAt(old, Cardinality({i \in DOMAIN old : old[i] < key}) + 1, key)
        mid == Len(keys) \div 2
        fresh == FreshNode(t.nodes)
        split == [nodes |-> PutNode(PutNode(t.nodes, leaf, LeafNode(SubSeq(keys, 1, mid))),
                                    fresh, LeafNode(SubSeq(keys, mid + 1, Len(keys)))),
                  sep |-> keys[mid + 1], right |-> fresh, pending |-> TRUE]
        up == FoldLeft(LAMBDA s, frame : InsertUp(t, s, frame), split, Reverse(Front(path)))
        root == FreshNode(up.nodes)
    IN IF Contains(old, key) THEN t
       ELSE IF Len(keys) <= t.leafCap
       THEN [t EXCEPT !.nodes = PutNode(@, leaf, LeafNode(keys))]
       ELSE IF ~up.pending THEN [t EXCEPT !.nodes = up.nodes]
       ELSE [t EXCEPT !.root = root,
                      !.nodes = PutNode(up.nodes, root,
                                        InternalNode(<<up.sep>>, <<t.root, up.right>>))]

-----------------------------------------------------------------------------
Underfull(t, n) ==
    Len(n.keys) < (IF n.leaf THEN t.leafCap ELSE t.internalCap) \div 4

(* Both siblings in one node, the separator pulled down between internals. *)
Combined(left, right, sep) ==
    [left EXCEPT !.keys = @ \o (IF left.leaf THEN <<>> ELSE <<sep>>) \o right.keys,
                 !.kids = @ \o right.kids]

MergeFits(t, n) ==
    Len(n.keys) <= ((IF n.leaf THEN t.leafCap ELSE t.internalCap) * 3) \div 4

(* redistribute: leaves split at the middle, internals rotate through the  *)
(* parent's separator.                                                     *)
Share(n) ==
    LET mid == Len(n.keys) \div 2
        skip == IF n.leaf THEN mid ELSE mid + 1
        cut == IF n.leaf THEN 0 ELSE mid + 1
    IN [left  |-> [n EXCEPT !.keys = SubSeq(@, 1, mid), !.kids = SubSeq(@, 1, cut)],
        right |-> [n EXCEPT !.keys = SubSeq(@, skip + 1, Len(@)),
                            !.kids = SubSeq(@, cut + 1, Len(@))],
        sep   |-> n.keys[mid + 1]]

(* rebalance: the left sibling is preferred; a parent without separators   *)
(* passes the underflow up; a merge leaves the parent pending.             *)
Rebalance(t, s, frame) ==
    LET parent == s.nodes[frame.id]
        i == Max({1, frame.child - 1})
        left == IF frame.child = i THEN s.node ELSE s.nodes[parent.kids[i]]
        right == IF frame.child = i THEN s.nodes[parent.kids[i + 1]] ELSE s.node
        both == Combined(left, right, parent.keys[i])
        shared == Share(both)
    IN IF parent.keys = <<>>
       THEN [s EXCEPT !.nodes = PutNode(@, s.id, s.node), !.id = frame.id, !.node = parent]
       ELSE IF MergeFits(t, both)
       THEN [s EXCEPT !.nodes = RemoveNode(PutNode(@, parent.kids[i], both), parent.kids[i + 1]),
                      !.id = frame.id,
                      !.node = InternalNode(RemoveAt(parent.keys, i), RemoveAt(parent.kids, i + 1))]
       ELSE [s EXCEPT !.nodes = PutNode(PutNode(PutNode(@, parent.kids[i], shared.left),
                                                parent.kids[i + 1], shared.right),
                                        frame.id, [parent EXCEPT !.keys[i] = shared.sep]),
                      !.done = TRUE]

(* One turn of plan_remove's loop: a node that is not underfull is written *)
(* and ends it.                                                            *)
RemoveUp(t, s, frame) ==
    IF s.done THEN s
    ELSE IF ~Underfull(t, s.node)
    THEN [s EXCEPT !.nodes = PutNode(@, s.id, s.node), !.done = TRUE]
    ELSE Rebalance(t, s, frame)

(* plan_remove, with finish_at_root: an internal root without separators   *)
(* gives way to its only child.                                            *)
TreeRemove(t, key) ==
    LET path == PathTo(t, key)
        leaf == t.nodes[Last(path).id]
        start == [nodes |-> t.nodes, id |-> Last(path).id, done |-> FALSE,
                  node |-> [leaf EXCEPT !.keys = SelectSeq(@, LAMBDA k : k # key)]]
        up == FoldLeft(LAMBDA s, frame : RemoveUp(t, s, frame), start, Reverse(Front(path)))
    IN IF ~Contains(leaf.keys, key) THEN t
       ELSE IF up.done THEN [t EXCEPT !.nodes = up.nodes]
       ELSE IF ~up.node.leaf /\ up.node.keys = <<>>
       THEN [t EXCEPT !.nodes = RemoveNode(up.nodes, up.id), !.root = up.node.kids[1]]
       ELSE [t EXCEPT !.nodes = PutNode(up.nodes, up.id, up.node)]

-----------------------------------------------------------------------------
(* memcmp of byte strings. *)
Less(a, b) ==
    \/ IsStrictPrefix(a, b)
    \/ \E i \in DOMAIN a \cap DOMAIN b :
        /\ SubSeq(a, 1, i - 1) = SubSeq(b, 1, i - 1)
        /\ a[i] < b[i]

AtMost(a, b) == a = b \/ Less(a, b)

(* A bound: [kind, lo, hi]; an exact key and a prefix use lo alone. *)
BoundContains(bound, field) ==
    CASE bound.kind = "all"    -> TRUE
      [] bound.kind = "exact"  -> field = bound.lo
      [] bound.kind = "range"  -> AtMost(bound.lo, field) /\ Less(field, bound.hi)
      [] bound.kind = "prefix" -> IsPrefix(bound.lo, field)

(* le_prefix_max: not above every key that starts with p. *)
AtMostPrefixMax(x, p) ==
    LET differ == {i \in DOMAIN x \cap DOMAIN p : x[i] # p[i]}
    IN differ = {} \/ x[Min(differ)] < p[Min(differ)]

(* may_intersect over the window between two separators, 0 = unbounded. *)
MayIntersect(bound, min, max) ==
    CASE bound.kind = "all"    -> TRUE
      [] bound.kind = "exact"  -> /\ max = 0 \/ AtMost(bound.lo, Field[max])
                                  /\ min = 0 \/ AtMost(Field[min], bound.lo)
      [] bound.kind = "range"  -> /\ max = 0 \/ AtMost(bound.lo, Field[max])
                                  /\ min = 0 \/ Less(Field[min], bound.hi)
      [] bound.kind = "prefix" -> /\ max = 0 \/ AtMost(bound.lo, Field[max])
                                  /\ min = 0 \/ AtMostPrefixMax(Field[min], bound.lo)

(* expand_children: the children whose window may hold a match, in order. *)
Kept(n, bound) ==
    LET window(i) == MayIntersect(bound,
                                  IF i = 1 THEN 0 ELSE n.keys[i - 1],
                                  IF i > Len(n.keys) THEN 0 ELSE n.keys[i])
    IN SelectSeq([i \in DOMAIN n.kids |-> i], window)

(* search_keys: the walk, leaf keys filtered by the bound. *)
SearchKeys(t, bound) ==
    LET walk[id \in DOMAIN t.nodes] ==
            LET n == t.nodes[id]
                kept == Kept(n, bound) IN
            IF n.leaf THEN SelectSeq(n.keys, LAMBDA k : BoundContains(bound, Field[k]))
            ELSE FlattenSeq([i \in DOMAIN kept |-> walk[n.kids[kept[i]]]])
    IN walk[t.root]

=============================================================================
