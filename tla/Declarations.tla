---------------------------- MODULE Declarations ----------------------------
(***************************************************************************)
(* The #[wavedb] attribute of wavedb-macros: what a declared struct is      *)
(* called (its STRUCT_HASH) and what the generated code stores for it.      *)
(*                                                                         *)
(* A declaration d is the struct as written:                                *)
(*   name, shape          "Unique" or "NonUnique"                           *)
(*   compress, page       #[wavedb(compress = .., page = ..)]               *)
(*   members              the fields in order: [name, type, lists, fuzzy],  *)
(*                        the last two the #[wavedb::list] and fuzzy on     *)
(*                        the field, each as its page, or as <<n, fold>>    *)
(*   keys, lists, pivots  #[wavedb::key], list and pivot on the struct:     *)
(*                        a sequence of fields, for a list [members, page]  *)
(*   hooks                validate and preprocess                           *)
(* An option is <<>> or <<value>>. A type is its spelling, without spaces.  *)
(***************************************************************************)
EXTENDS Naturals, Sequences, SequencesExt

CONSTANTS
  DefaultN,     \* the gram width of a fuzzy index that declares none
  DefaultPage   \* DEFAULT_SEGMENT_MIN

Chosen(option, default) == IF option = <<>> THEN default ELSE option[1]

FieldNames(d) == {d.members[i].name : i \in DOMAIN d.members}
TypeOf(d, name) == d.members[CHOOSE i \in DOMAIN d.members : d.members[i].name = name].type

\* The lists, the ones on fields first: a list is known by its place here.
Lists(d) ==
  FlattenSeq([i \in DOMAIN d.members |->
    [j \in DOMAIN d.members[i].lists |-> [members |-> <<d.members[i].name>>, page |-> d.members[i].lists[j]]]])
  \o d.lists

Fuzzies(d) ==
  FlattenSeq([i \in DOMAIN d.members |->
    [j \in DOMAIN d.members[i].fuzzy |->
      [field |-> d.members[i].name, n |-> Chosen(d.members[i].fuzzy[j][1], DefaultN),
       fold |-> Chosen(d.members[i].fuzzy[j][2], "latin")]]])

-----------------------------------------------------------------------------
(* What the macro refuses.                                                  *)

\* Fields named by an attribute are fields of the struct.
Resolves(d, names) == \A i \in DOMAIN names : names[i] \in FieldNames(d)

PageParses(page) == \A i \in DOMAIN page : page[i] >= 1
KeyParses(d) == Len(d.keys) <= 1 /\ \A i \in DOMAIN d.keys : d.keys[i] # <<>> /\ Resolves(d, d.keys[i])
ListParses(d) ==
  \A i \in DOMAIN Lists(d) :
    Len(Lists(d)[i].members) \in 1..3 /\ Resolves(d, Lists(d)[i].members) /\ PageParses(Lists(d)[i].page)
FuzzyParses(d) ==
  \A i \in DOMAIN Fuzzies(d) :
    /\ Fuzzies(d)[i].n >= 2 /\ Fuzzies(d)[i].fold \in {"latin", "none"}
    /\ TypeOf(d, Fuzzies(d)[i].field) = "String"
PivotParses(d) == \A i \in DOMAIN d.pivots : Len(d.pivots[i]) \in 1..3 /\ Resolves(d, d.pivots[i])

\* A Unique type has no collection to key, page, list or search.
ShapeParses(d) ==
  d.shape = "Unique" => d.keys = <<>> /\ d.page = <<>> /\ Lists(d) = <<>> /\ Fuzzies(d) = <<>> /\ d.pivots = <<>>

\* An accessor is named for its fields; the compiler refuses two of a name.
JoinedName(names) == FoldLeft(LAMBDA text, name : text \o "_" \o name, "", names)
AccessorsDistinct(d) ==
  /\ IsInjective([i \in DOMAIN Lists(d) |-> JoinedName(Lists(d)[i].members)])
  /\ IsInjective([i \in DOMAIN Fuzzies(d) |-> Fuzzies(d)[i].field])
  /\ IsInjective([i \in DOMAIN d.pivots |-> JoinedName(d.pivots[i])])

Accepted(d) ==
  /\ PageParses(d.page) /\ KeyParses(d) /\ ListParses(d) /\ FuzzyParses(d) /\ PivotParses(d)
  /\ ShapeParses(d) /\ AccessorsDistinct(d)

-----------------------------------------------------------------------------
(* The identity: what is hashed, in the order in which it is folded in. The *)
(* hash of it is SeaHash, taken to be free of collisions here.              *)

Compute(name, shape, folded) == <<name, shape, folded>>

FoldedKey(d) == [i \in DOMAIN d.keys |-> <<"#key", d.keys[i]>>]

FoldedLayout(d) ==
  (IF d.compress THEN <<>> ELSE << <<"#compress", <<"false">>>> >>)
    \o [i \in DOMAIN d.page |-> <<"#page", <<ToString(d.page[i])>>>>]

\* Mutant: a list is folded without its capacity.
FoldedListsUnpaged(d) ==
  [i \in DOMAIN Lists(d) |-> <<"#list" \o ToString(i - 1), Lists(d)[i].members>>]

FoldedLists(d) ==
  [i \in DOMAIN Lists(d) |->
    <<"#list" \o ToString(i - 1),
      Lists(d)[i].members \o [j \in DOMAIN Lists(d)[i].page |-> "@" \o ToString(Lists(d)[i].page[j])]>>]

\* Resolved values, not the declared ones: a new default is a new type.
FoldedFuzzy(d) ==
  [i \in DOMAIN Fuzzies(d) |->
    <<"#fuzzy" \o ToString(i - 1),
      <<Fuzzies(d)[i].field, "@" \o ToString(Fuzzies(d)[i].n), "/" \o Fuzzies(d)[i].fold>>>>]

HashFields(d) ==
  [i \in DOMAIN d.members |-> <<d.members[i].name, <<d.members[i].type>>>>]
    \o FoldedKey(d) \o FoldedLayout(d) \o FoldedLists(d) \o FoldedFuzzy(d)

StructHash(d) == Compute(d.name, d.shape, HashFields(d))

\* The roots of a collection are a record of their own, named for how many
\* there are of each kind.
PivotHash(d) ==
  Compute(d.name \o "Pivot", "Pivot",
    << <<"records", <<"ChainRoots">>>>, <<"removals", <<"LogRoots">>>>,
       <<"secondaries", <<"LocalId", ToString(Len(d.pivots))>>>>,
       <<"lists", <<"ChainRoots", ToString(Len(Lists(d)))>>>> >>
    \o (IF Fuzzies(d) = <<>> THEN <<>>
        ELSE << <<"fuzzy", <<"LocalId", ToString(Len(Fuzzies(d)))>>>> >>)
    \o << <<"permission", <<"PermissionRef">>>> >>)

-----------------------------------------------------------------------------
(* What the generated code does with the records of the type.              *)

\* The body on the wire: the fields, in order.
WireOf(d) == [i \in DOMAIN d.members |-> d.members[i].type]

\* The bytes a natural key hashes.
KeySource(d) == [i \in DOMAIN d.keys |-> [j \in DOMAIN d.keys[i] |-> <<d.keys[i][j], TypeOf(d, d.keys[i][j])>>]]

\* list_key and list_page of every list: only a list with a capacity of its
\* own has an arm, under its own index, the others take the type's.
PageArms(d) ==
  [i \in {j \in DOMAIN Lists(d) : Lists(d)[j].page # <<>>} |-> Lists(d)[i].page[1]]

ListPage(d, i) == IF i \in DOMAIN PageArms(d) THEN PageArms(d)[i] ELSE Chosen(d.page, DefaultPage)
ListKey(d, i) == [j \in DOMAIN Lists(d)[i].members |-> <<Lists(d)[i].members[j], TypeOf(d, Lists(d)[i].members[j])>>]

\* secondary_key of every pivot.
SecondaryKey(d, i) == [j \in DOMAIN d.pivots[i] |-> <<d.pivots[i][j], TypeOf(d, d.pivots[i][j])>>]

\* fuzzy_source and fuzzy_profile of every fuzzy index.
FuzzyProfile(d, i) == <<Fuzzies(d)[i].field, Fuzzies(d)[i].n, Fuzzies(d)[i].fold>>

\* What the engine leaves on disk for a collection of the type: the bodies,
\* the anchors, the order and capacity of
\* each chain, the postings, the keys of each secondary tree.
LayoutOf(d) ==
  [wire |-> WireOf(d), key |-> KeySource(d),
   recency |-> Chosen(d.page, DefaultPage),
   lists |-> [i \in DOMAIN Lists(d) |-> <<ListKey(d, i), ListPage(d, i)>>],
   fuzzy |-> [i \in DOMAIN Fuzzies(d) |-> FuzzyProfile(d, i)],
   secondaries |-> [i \in DOMAIN d.pivots |-> SecondaryKey(d, i)]]

\* The typed accessors listed_by_<fields>, fuzzy_<field> and by_<fields> carry
\* the index of the list, postings or tree they read.
ListedBy(d, members) == CHOOSE i \in DOMAIN Lists(d) : Lists(d)[i].members = members
FuzzyBy(d, name) == CHOOSE i \in DOMAIN Fuzzies(d) : Fuzzies(d)[i].field = name
By(d, members) == CHOOSE i \in DOMAIN d.pivots : d.pivots[i] = members

\* The slots registered for the type: its own, its pivot's and its four lanes',
\* as <<hash, compressed>>. Only its own follows its compress argument.
LaneTags == <<"WDB.SEG", "WDB.REC", "WDB.DEAD", "WDB.IDX">>
StorageEntries(d) ==
  { <<StructHash(d), d.compress>> }
    \cup IF d.shape = "Unique" THEN {}
         ELSE {<<PivotHash(d), TRUE>>}
                \cup {<<Compute(LaneTags[i], "lane", <<StructHash(d)>>), TRUE>> : i \in DOMAIN LaneTags}
=============================================================================
