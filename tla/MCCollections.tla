--------------------------- MODULE MCCollections ---------------------------
(* The structures of the index layer, and the collection they serve with   *)
(* its mirror: a behaviour drives one of them and the other rests.         *)
EXTENDS IndexStructures, MirroredCollection

ChainOf(min, cap, load, keys) ==
    [kind |-> "chain", a |-> min, b |-> cap, load |-> load, keys |-> keys]

LogOf(min, n) == [kind |-> "log", a |-> min, b |-> 1, load |-> <<>>, keys |-> 1 .. n]

TreeOf(leaf, internal, load, keys) ==
    [kind |-> "tree", a |-> leaf, b |-> internal, load |-> load, keys |-> keys]

FuzzyOf(n, latin) == [kind |-> "fuzzy", a |-> n, b |-> latin, load |-> <<>>, keys |-> 1 .. 2]

QueryShape == [kind |-> "query", a |-> 0, b |-> 0, load |-> <<>>, keys |-> {}]

Absent == [QueryShape EXCEPT !.kind = "none"]

Up(n) == [i \in 1 .. n |-> i]

Down(n) == [i \in 1 .. n |-> n + 1 - i]

MCShapes == {ChainOf(1, 2, <<>>, 1 .. 4), ChainOf(1, 2, Up(6), 3 .. 4),
             ChainOf(2, 2, <<>>, 1 .. 5), LogOf(2, 5),
             TreeOf(4, 4, Up(13), 1 .. 6), TreeOf(4, 4, Up(13), 7 .. 13),
             TreeOf(4, 2, Down(9), 1 .. 6),
             FuzzyOf(2, 1), FuzzyOf(3, 0), FuzzyOf(3, 1), QueryShape, Absent}

(* Thirteen keys, two records with one field, fields that are prefixes of  *)
(* each other.                                                             *)
MCField == << <<0>>, <<0, 0>>, <<0, 1>>, <<0, 1>>, <<0, 2>>, <<1>>, <<1, 0>>,
              <<1, 1>>, <<1, 2>>, <<2>>, <<2, 0>>, <<2, 1>>, <<2, 1>> >>

Bound(kind, lo, hi) == [kind |-> kind, lo |-> lo, hi |-> hi]

MCBounds == {Bound("exact", <<0, 1>>, <<>>), Bound("exact", <<1, 3>>, <<>>),
             Bound("exact", <<2, 1>>, <<>>), Bound("range", <<0, 1>>, <<1, 1>>),
             Bound("range", <<1>>, <<1>>), Bound("range", <<>>, <<0, 2>>),
             Bound("prefix", <<1>>, <<>>), Bound("prefix", <<0, 1>>, <<>>),
             Bound("prefix", <<>>, <<>>), Bound("prefix", <<2, 1>>, <<>>)}

(* Texts that differ in case, accents and spacing, that repeat a gram, and *)
(* that are longer than the saturated length.                              *)
MCTexts == { <<>>, <<"A'", "b">>, <<" ", "a", "b", " ">>, <<"a", "tab", " ", "b">>,
             <<"a", "b", "a", "b", "a", "b">>, <<"b", "a", "b", "b", "a">>,
             <<"ss", "a">>, <<"s", "s", "a">> }

Ask(q, m, l) == [query |-> q, mode |-> m, limit |-> l]

MCModes == { <<"distance", 0, 1>>, <<"distance", 1, 1>>, <<"distance", 2, 1>>,
             <<"similarity", 1, 2>>, <<"contains", 2, 3>>, <<"contains", 1, 1>> }

MCSearches ==
    {Ask(q, m, 2) : q \in { <<>>, <<"a", "B">>, <<"a", "b", "a", "b", "b">>, <<"s", "ss">> },
                    m \in MCModes}
        \cup {Ask(<<"a", "b">>, m, 1) : m \in MCModes}

MCSources ==
    UNION {[1 .. n -> {Pending, 1, 2}] : n \in 0 .. 3}
        \cup { <<1, Fault>>, <<Pending, Fault, 2>>, <<2, 1, 2, 1>> }


Type(keyed, secondaries, unique) ==
    [keyed |-> keyed, secondaries |-> secondaries, unique |-> unique]

(* Minted ids with secondaries; natural keys with and without; a Unique. *)
Plain == Type(FALSE, TRUE, FALSE)
Keyed == Type(TRUE, TRUE, FALSE)
Bare == Type(TRUE, FALSE, FALSE)
Single == Type(FALSE, FALSE, TRUE)

Client(cached, writes, reads, n) ==
    [cached |-> cached, writes |-> writes, reads |-> reads, ops |-> n]

Idle == Plain @@ Client(FALSE, FALSE, FALSE, 0)

(* Long sequences on the node alone, shorter ones under a mirror. *)
MCTypes ==
    {t @@ Client(FALSE, FALSE, FALSE, 5) : t \in {Plain, Keyed, Bare, Single}}
        \cup {t @@ Client(TRUE, TRUE, FALSE, 4) : t \in {Plain, Single}}
        \cup {Keyed @@ Client(TRUE, TRUE, FALSE, 3)}
        \cup {t @@ Client(TRUE, FALSE, TRUE, 3) : t \in {Plain, Keyed}}
        \cup {Plain @@ Client(FALSE, FALSE, TRUE, 4), Idle}

-----------------------------------------------------------------------------
CollectionsInit == IndexInit /\ MirrorInit /\ (shape = Absent <=> type # Idle)

CollectionsNext ==
    \/ IndexNext /\ UNCHANGED mirrorVars
    \/ MirrorNext /\ UNCHANGED indexVars

CollectionsSpec == CollectionsInit /\ [][CollectionsNext]_<<indexVars, mirrorVars>>
=============================================================================
