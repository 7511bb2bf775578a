--------------------------- MODULE IndexStructures ---------------------------
(***************************************************************************)
(* The index layer driven by every sequence of insertions and removals,    *)
(* one structure per behaviour: a record chain or a removal log (module    *)
(* Chain), a B+tree (module BpTree) or the postings of a fuzzy index       *)
(* (module FuzzyIndex), each against the plain dictionary or set of keys   *)
(* it stands for; or a composite query (module IdStreams) polled to its    *)
(* end.  A batch is applied whole, so a step is a plan and its commit.     *)
(* Capacities are small so that splits, merges, redistributions and index  *)
(* levels come and go within few keys.                                     *)
(***************************************************************************)
EXTENDS Chain, BpTree, FuzzyIndex, IdStreams

CONSTANTS Shapes,    \* the structures to drive
          Payloads,  \* what a chain entry may carry
          Bounds,    \* the search bounds asked of a tree
          Texts,     \* the indexed field of a record, as written
          Searches,  \* [query, mode, limit]: the fuzzy searches asked
          Sources    \* what the polls of an id stream return

(* A shape: [kind, a, b, load, keys]: "chain" or "log" with min = a and    *)
(* index capacity b, "tree" with capacities a and b; load is the sequence  *)
(* of keys inserted first, keys the keys then inserted and removed.        *)
(* "fuzzy" has gram width a and folds Latin letters when b is 1; "query"   *)
(* and "none" have no parameters.                                          *)
ASSUME ShapesAssumption ==
    \A s \in Shapes :
        s.kind \in {"chain", "log", "tree", "fuzzy", "query", "none"} /\ s.a \in Nat /\ s.b \in Nat

VARIABLES shape, chain, tree, postings, query, held

indexVars == <<shape, chain, tree, postings, query, held>>

IsChain == shape.kind \in {"chain", "log"}

Profile == [n |-> shape.a, fold |-> IF shape.b = 1 THEN "latin" ELSE "none"]

Loaded == CHOOSE p \in Payloads : TRUE

(* held is the dictionary the structure stands for; for a query, the two   *)
(* sources it was built on.                                                *)
Hold(h, key, payload) == (key :> payload) @@ h

Drop(h, key) == Restrict(h, DOMAIN h \ {key})

IndexInit ==
    /\ shape \in Shapes
    /\ chain = IF ~IsChain THEN CreateChain(1, FALSE, 1)
               ELSE FoldLeft(LAMBDA c, k : PlanInsert(c, k, Loaded),
                             CreateChain(shape.a, shape.kind = "chain", shape.b), shape.load)
    /\ tree = IF shape.kind = "tree"
              THEN FoldLeft(TreeInsert, CreateTree(shape.a, shape.b), shape.load)
              ELSE CreateTree(1, 1)
    /\ postings = {}
    /\ \/ /\ shape.kind # "query"
          /\ query = Adapter("union", <<>>, <<>>)
          /\ held = FoldLeft(LAMBDA h, k : Hold(h, k, Loaded), <<>>, shape.load)
       \/ /\ shape.kind = "query"
          /\ \E op \in {"intersect", "except", "union"}, left, right \in Sources :
                query = Adapter(op, left, right) /\ held = <<left, right>>

-----------------------------------------------------------------------------
ChainInsert(k, p) ==
    /\ IsChain
    /\ chain' = PlanInsert(chain, k, p)
    /\ held' = Hold(held, k, p)
    /\ UNCHANGED <<shape, tree, postings, query>>

ChainRemove(k) ==
    /\ IsChain
    /\ chain' = PlanRemove(chain, k)
    /\ held' = Drop(held, k)
    /\ UNCHANGED <<shape, tree, postings, query>>

TreeAdd(k) ==
    /\ shape.kind = "tree"
    /\ tree' = TreeInsert(tree, k)
    /\ held' = Hold(held, k, Loaded)
    /\ UNCHANGED <<shape, chain, postings, query>>

TreeDrop(k) ==
    /\ shape.kind = "tree"
    /\ tree' = TreeRemove(tree, k)
    /\ held' = Drop(held, k)
    /\ UNCHANGED <<shape, chain, postings, query>>

FuzzyInsert(k, raw) ==
    /\ shape.kind = "fuzzy" /\ k \notin DOMAIN held
    /\ postings' = PostInserts(postings, Profile, raw, k)
    /\ held' = Hold(held, k, raw)
    /\ UNCHANGED <<shape, chain, tree, query>>

FuzzySave(k, raw) ==
    /\ shape.kind = "fuzzy" /\ k \in DOMAIN held
    /\ postings' = PostMoves(postings, Profile, held[k], raw, k)
    /\ held' = Hold(held, k, raw)
    /\ UNCHANGED <<shape, chain, tree, query>>

FuzzyRemove(k) ==
    /\ shape.kind = "fuzzy" /\ k \in DOMAIN held
    /\ postings' = PostRemoves(postings, Profile, held[k], k)
    /\ held' = Drop(held, k)
    /\ UNCHANGED <<shape, chain, tree, query>>

(* The caller polls until it is told the end or an error. *)
Poll ==
    /\ shape.kind = "query" /\ ~Ended(query)
    /\ query' = PollNext(query)
    /\ UNCHANGED <<shape, chain, tree, postings, held>>

IndexNext ==
    \/ \E k \in shape.keys :
        \/ \E p \in Payloads : ChainInsert(k, p)
        \/ ChainRemove(k)
        \/ TreeAdd(k)
        \/ TreeDrop(k)
        \/ \E raw \in Texts : FuzzyInsert(k, raw) \/ FuzzySave(k, raw)
        \/ FuzzyRemove(k)
    \/ Poll

IndexSpec == IndexInit /\ [][IndexNext]_indexVars

-----------------------------------------------------------------------------
Ascending(S) == SelectSeq([i \in 1 .. Max(S \cup {1}) |-> i], LAMBDA k : k \in S)

HeldInOrder == [i \in 1 .. Cardinality(DOMAIN held) |->
                    LET k == Ascending(DOMAIN held)[i] IN <<k, held[k]>>]

(* Whatever the splits, merges and redistributions, a chain walked from    *)
(* its head along next and from its tail along prev meets the same         *)
(* segments, every stored one exactly once, and their entries are the      *)
(* records held, in key order, each with its last payload (split, merge    *)
(* and relink of chain.rs and chain_remove.rs leak no segment).            *)
ChainHoldsExactly ==
    LET path == Forward(chain)
    IN IsChain =>
        /\ Backward(chain) = Reverse(path)
        /\ ToSet(path) = DOMAIN chain.segs
        /\ Len(path) = Cardinality(DOMAIN chain.segs)
        /\ Entries(chain, path) = HeldInOrder

(* A segment never reaches 2 * min entries, and with a neighbour it keeps  *)
(* more than min / 2: a starved one is merged or refilled in the same      *)
(* batch (plan_remove), so only a lone segment may be empty.               *)
SegmentsBalanced ==
    IsChain =>
        \A id \in DOMAIN chain.segs :
            LET n == Len(chain.segs[id].entries) IN
            /\ n < 2 * chain.min
            /\ Cardinality(DOMAIN chain.segs) > 1 => n > chain.min \div 2

(* The slots at the leaves of an index from left to right. *)
Slots(t) ==
    LET walk[id \in DOMAIN t.nodes] ==
            LET n == t.nodes[id] IN
            IF n.leaf THEN n.es ELSE FlattenSeq([i \in DOMAIN n.es |-> walk[n.es[i].to]])
    IN walk[t.root]

(* The sparse index is exact: its slots are the non-empty segments in      *)
(* chain order with their least keys and lengths; every branch carries     *)
(* its child's least key and total; no node is over its capacity, empty    *)
(* below the root, or stored without being reachable (climb deletes a node *)
(* that covers nothing).                                                   *)
IndexExact ==
    LET path == SelectSeq(Forward(chain), LAMBDA id : chain.segs[id].entries # <<>>)
        nodes == chain.index.nodes
        branches == UNION {ToSet(nodes[id].es) : id \in {n \in DOMAIN nodes : ~nodes[n].leaf}}
    IN shape.kind = "chain" =>
        /\ Slots(chain.index) =
            [i \in DOMAIN path |-> Entry(FirstKey(chain.segs[path[i]]), path[i],
                                         Len(chain.segs[path[i]].entries))]
        /\ \A b \in branches :
            /\ nodes[b.to].es # <<>>
            /\ b.first = nodes[b.to].es[1].first
            /\ b.count = Total(nodes[b.to].es)
        /\ \A id \in DOMAIN nodes : Len(nodes[id].es) <= chain.index.cap
        /\ {b.to : b \in branches} \cup {chain.index.root} = DOMAIN nodes
        /\ Cardinality(DOMAIN nodes) = Cardinality(branches) + 1

(* Reads agree with the dictionary: a key is found by its descent or by    *)
(* the log's walk back, an offset read streams the records from that place *)
(* on, and the total in the root is the number of records (get,            *)
(* find_offset and total).                                                 *)
ChainReadsAgree ==
    IsChain =>
        /\ \A k \in shape.keys : Get(chain, k) = IF k \in DOMAIN held THEN <<held[k]>> ELSE <<>>
        /\ shape.kind = "chain" =>
            /\ IndexTotal(chain.index) = Cardinality(DOMAIN held)
            /\ \A off \in 0 .. Cardinality(DOMAIN held) :
                ListedAt(chain, off) = SubSeq(HeldInOrder, off + 1, Len(HeldInOrder))

(* A record chain or a removal log is, after any insertions and removals,  *)
(* the ordered dictionary it stands for, balanced, exactly indexed and     *)
(* read the same by key, by offset and in either direction (chain.rs,      *)
(* chain_remove.rs, sparse_write.rs).                                      *)
ChainsExact == ChainHoldsExactly /\ SegmentsBalanced /\ IndexExact /\ ChainReadsAgree

-----------------------------------------------------------------------------
(* Keys of a tree in walk order. *)
TreeKeys == SearchKeys(tree, [kind |-> "all", lo |-> <<>>, hi |-> <<>>])

(* The tree holds its keys in order, every stored node is reached, every   *)
(* leaf is at the same depth, no node exceeds its capacity, and the        *)
(* descent finds a key exactly when it is held, whatever splits, merges    *)
(* and redistributions moved the separators (tree_insert.rs,               *)
(* tree_delete.rs).  Below an internal capacity of 4 a parent may be left  *)
(* without separators and its leaf empty, where max_key looks.             *)
TreeHoldsExactly ==
    LET nodes == tree.nodes
        kids == {<<id, i>> : id \in DOMAIN nodes, i \in 1 .. Cardinality(DOMAIN nodes)}
        links == {l \in kids : l[2] \in DOMAIN nodes[l[1]].kids}
        depths == {Len(PathTo(tree, k)) : k \in shape.keys}
    IN shape.kind = "tree" =>
        /\ TreeKeys = Ascending(DOMAIN held)
        /\ {nodes[l[1]].kids[l[2]] : l \in links} \cup {tree.root} = DOMAIN nodes
        /\ Cardinality(DOMAIN nodes) = Cardinality(links) + 1
        /\ Cardinality(depths) = 1
        /\ \A id \in DOMAIN nodes :
            Len(nodes[id].keys) <= IF nodes[id].leaf THEN tree.leafCap ELSE tree.internalCap
        /\ \A k \in shape.keys : TreeContains(tree, k) <=> k \in DOMAIN held
        /\ held # <<>> /\ tree.internalCap >= 4 => MaxKey(tree) = Max(DOMAIN held)

(* Pruning loses nothing: a bounded search returns exactly the held keys   *)
(* whose field the bound contains, in order, although it skips every       *)
(* subtree whose window cannot intersect it (expand_children,              *)
(* may_intersect, le_prefix_max).                                          *)
SearchExact ==
    shape.kind = "tree" =>
        \A b \in Bounds :
            SearchKeys(tree, b) =
                SelectSeq(Ascending(DOMAIN held), LAMBDA k : BoundContains(b, Field[k]))

(* A B+tree is the sorted set of its keys in a balanced tree, and every    *)
(* bounded search of it is exact (tree_insert.rs, tree_delete.rs, tree.rs).*)
TreesExact == TreeHoldsExactly /\ SearchExact

-----------------------------------------------------------------------------
(* The text as its words (maximal runs without white space) joined by one  *)
(* space: what normalize has to arrive at.                                 *)
Canonical(raw, fold) ==
    LET chars == [i \in DOMAIN raw |-> Lowercase(raw[i])]
        folded(ch) == IF fold = "latin" THEN PushFolded(ch) ELSE <<ch>>
        solid == {i \in DOMAIN raw : ~IsWhitespace(chars[i])}
        opens(i) == i - 1 \in DOMAIN raw \ solid /\ \E j \in solid : j < i
    IN FlattenSeq([i \in DOMAIN raw |->
            IF i \notin solid THEN <<>>
            ELSE (IF opens(i) THEN <<" ">> ELSE <<>>) \o folded(chars[i])])

(* The edit distance by its definition. *)
EditDistance(a, b) ==
    LET d[i \in 0 .. Len(a), j \in 0 .. Len(b)] ==
            IF i = 0 \/ j = 0 THEN i + j
            ELSE Min({d[i - 1, j] + 1, d[i, j - 1] + 1,
                      d[i - 1, j - 1] + IF a[i] = b[j] THEN 0 ELSE 1})
    IN d[Len(a), Len(b)]

(* Whether a record is what a search asked for, and its rank, read off the *)
(* two texts alone.                                                        *)
Wanted(raw, s) ==
    LET a == Canonical(s.query, Profile.fold)
        b == Canonical(raw, Profile.fold)
        grams(x) == GramPrefixes(x, Profile.n)
        shared == Cardinality(grams(a) \cap grams(b))
        whole == Cardinality(IF s.mode[1] = "similarity" THEN grams(a) \cup grams(b)
                             ELSE grams(a))
    IN IF s.mode[1] = "distance"
       THEN [match |-> EditDistance(a, b) <= s.mode[2], rank |-> <<EditDistance(a, b), 1>>,
             shared |-> shared]
       ELSE [match |-> shared * s.mode[3] >= s.mode[2] * whole,
             rank |-> <<whole - shared, whole>>, shared |-> shared]

(* The best of a set of records, as a search returns them. *)
BestOf(recs, s) ==
    LET ranked == SetToSortSeq({[rec |-> r, rank |-> Wanted(held[r], s).rank] : r \in recs}, Better)
    IN SubSeq(ranked, 1, Min({s.limit, Len(ranked)}))

(* The postings are those of the living texts: what a save leaves alone,   *)
(* and the symmetric difference it moves, add up to a fresh filing         *)
(* (plan_fuzzy_inserts, plan_fuzzy_moves, plan_fuzzy_removes).             *)
PostingsExact ==
    shape.kind = "fuzzy" =>
        postings = UNION {PostingKeys(Profile, held[k], k) : k \in DOMAIN held}

(* The count filter, the length filter with its saturated byte and the     *)
(* banded distance lose nothing and let nothing through: a search returns  *)
(* the best of the records that match by definition and share a gram with  *)
(* the query, in rank order, ties by record (fuzzy_search).                *)
FuzzyExact ==
    shape.kind = "fuzzy" =>
        \A s \in Searches :
            FuzzySearch(postings, held, Profile, s.query, s.mode, s.limit) =
                BestOf({r \in DOMAIN held :
                            Wanted(held[r], s).match /\ Wanted(held[r], s).shared > 0}, s)

-----------------------------------------------------------------------------
(* The ids a source gives in all. *)
IdsOf(s) == SelectSeq(s, IsId)

(* What a composite query over two sources should return. *)
Algebra(op, left, right) ==
    LET distinct(s) == SelectSeq([i \in DOMAIN s |-> <<i, s[i]>>],
                                 LAMBDA e : \A j \in 1 .. e[1] - 1 : s[j] # e[2])
        all == IdsOf(left) \o IdsOf(right)
    IN CASE op = "intersect" -> SelectSeq(IdsOf(left), LAMBDA x : x \in ToSet(right))
         [] op = "except" -> SelectSeq(IdsOf(left), LAMBDA x : x \notin ToSet(right))
         [] op = "union" -> [i \in DOMAIN distinct(all) |-> distinct(all)[i][2]]

Faulty == \E i \in 1 .. 2 : Fault \in ToSet(held[i])

(* A composite query returns exactly the ids of its two sources' algebra,  *)
(* each as often as the left side gives it (a union: once), wherever the   *)
(* left side suspends, and a store error in either source is what ends it  *)
(* (Intersect, Except, Union of stream.rs).  The argument of intersect and *)
(* except does not suspend here.                                           *)
QueriesExact ==
    LET still == query.op = "union" \/ Pending \notin ToSet(held[2])
    IN shape.kind = "query" /\ Ended(query) =>
        /\ Last(query.out) = Fault <=> Faulty
        /\ ~Faulty /\ still => IdsOf(query.out) = Algebra(query.op, held[1], held[2])

(* Searches return what their definition says: a fuzzy search over         *)
(* postings that saves have moved, and a composite query polled to its     *)
(* end (collection_fuzzy.rs, collection_fuzzy_read.rs, stream.rs).         *)
SearchesExact == PostingsExact /\ FuzzyExact /\ QueriesExact

=============================================================================
