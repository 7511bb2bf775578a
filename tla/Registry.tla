------------------------------ MODULE Registry ------------------------------
(***************************************************************************)
(* What a build serves: the identity of a #[server] function, the registry  *)
(* that expose_server! and expose_client! declare with its compile-time     *)
(* guards, the step a command reaches on the node, and what the client's    *)
(* typed calls send and expect.                                             *)
(*                                                                         *)
(* A wire type is a term: <<"prim", name>>, <<"struct", declaration>>,      *)
(* <<"vec", t>>, <<"option", t>>, <<"array", t, n>> or <<"tuple", ts>>. A   *)
(* signature is [name, args, ret, stream, public], ret the Ok type of the   *)
(* Result, or the item type of a stream.                                    *)
(***************************************************************************)
EXTENDS Declarations

Prim(name) == <<"prim", name>>
Struct(d) == <<"struct", d>>
Product(types) == <<"tuple", types>>
OptionOf(t) == <<"option", t>>

-----------------------------------------------------------------------------
(* The identity of a function. The mixer is taken to be free of collisions: *)
(* a hash is the term it mixes.                                             *)

Compose(seed, parts) == <<"compose", seed, parts>>
Container(kind, element) == Compose(<<kind>>, <<element>>)

RECURSIVE Tag(_)
Tag(t) ==
  CASE t[1] = "prim"   -> <<t[2]>>
    [] t[1] = "struct" -> StructHash(t[2])
    [] t[1] = "vec"    -> Container("vec", Tag(t[2]))
    [] t[1] = "option" -> Container("option", Tag(t[2]))
    [] t[1] = "array"  -> Compose(<<"array">>, <<Tag(t[2]), <<ToString(t[3])>>>>)
    [] OTHER           -> Compose(<<"tuple" \o ToString(Len(t[2]))>>, [i \in DOMAIN t[2] |-> Tag(t[2][i])])

\* Mutant: a stream is tagged like the scalar of its items.
FnHashStreamUntagged(sg) ==
  Compose(Compute(sg.name, "fn", <<>>), [i \in DOMAIN sg.args |-> Tag(sg.args[i])] \o <<Tag(sg.ret)>>)

FnHash(sg) ==
  Compose(Compute(sg.name, "fn", <<>>),
    [i \in DOMAIN sg.args |-> Tag(sg.args[i])]
      \o << IF sg.stream THEN Container("stream", Tag(sg.ret)) ELSE Tag(sg.ret) >>)

\* What the bytes of a value look like: a struct is its fields.
RECURSIVE WireShape(_)
WireShape(t) ==
  CASE t[1] = "prim"   -> t
    [] t[1] = "struct" -> <<"struct", WireOf(t[2])>>
    [] t[1] = "tuple"  -> <<"tuple", [i \in DOMAIN t[2] |-> WireShape(t[2][i])]>>
    [] t[1] = "array"  -> <<"array", WireShape(t[2]), t[3]>>
    [] OTHER           -> <<t[1], WireShape(t[2])>>

-----------------------------------------------------------------------------
(* The declared registry. An entry is [kind, hash, lanes, item, overrides]: *)
(* kind "struct", "fn" or "store"; overrides maps an op to <<>> for never   *)
(* and to <<path>> for a function of the application's.                     *)

OPS == {"get", "save", "insert", "update", "remove", "all", "history", "changes", "listed", "list_len"}

StructEntry(kind, d, overrides) ==
  [kind |-> kind, hash |-> StructHash(d),
   lanes |-> IF d.shape = "Unique" THEN <<>>
             ELSE [i \in DOMAIN LaneTags |-> Compute(LaneTags[i], "lane", <<StructHash(d)>>)],
   item |-> d, overrides |-> overrides]

\* Only a struct's entry takes overrides, and only of the ops there are.
EntryParses(e) == DOMAIN e.overrides \subseteq (IF e.kind = "struct" THEN OPS ELSE {})

FnEntry(sg) == [kind |-> "fn", hash |-> FnHash(sg), lanes |-> <<>>, item |-> sg, overrides |-> <<>>]

\* collision_guard: every pair is compared, whatever the two are.
\* Mutant: an entry is compared with the one before it only.
IdentityErrorsAdjacent(entries) ==
  {i \in DOMAIN entries : i > 1 /\ entries[i - 1].hash = entries[i].hash}

IdentityErrors(entries) ==
  {i \in DOMAIN entries : \E j \in 1..(i - 1) : entries[j].hash = entries[i].hash}

\* The salt check: occupants are the record type and its lanes; functions are
\* never stored.
Apart(left, right, bits) ==
  \A i \in DOMAIN left, j \in DOMAIN right : left[i] % 2 ^ bits # right[j] % 2 ^ bits

SaltsDistinct(a, b, bits) ==
  /\ Apart(<<a.hash>>, <<b.hash>>, bits) /\ Apart(<<a.hash>>, b.lanes, bits)
  /\ Apart(a.lanes, <<b.hash>>, bits) /\ Apart(a.lanes, b.lanes, bits)

SaltsSelfDistinct(e, bits) ==
  /\ Apart(<<e.hash>>, e.lanes, bits)
  /\ \A i \in DOMAIN e.lanes : Apart(<<e.lanes[i]>>, SubSeq(e.lanes, 1, i - 1), bits)

SaltWarnings(entries, bits) ==
  {i \in DOMAIN entries :
     /\ entries[i].kind # "fn"
     /\ \/ ~SaltsSelfDistinct(entries[i], bits)
        \/ \E j \in 1..(i - 1) : entries[j].kind # "fn" /\ ~SaltsDistinct(entries[j], entries[i], bits)}

WireEntries(entries) == SelectSeq(entries, LAMBDA e : e.kind # "store")
StorageSlots(entries) == SelectSeq(entries, LAMBDA e : e.kind # "fn")

Knows(entries, hash) == \E i \in DOMAIN WireEntries(entries) : WireEntries(entries)[i].hash = hash

\* The first arm of the dispatch match whose guard holds: <<>> or <<entry>>.
ArmOf(entries, hash) ==
  LET served == SelectSeq(WireEntries(entries), LAMBDA e : e.hash = hash)
  IN  IF served = <<>> THEN <<>> ELSE <<served[1]>>

-----------------------------------------------------------------------------
(* The node's steps, as <<what the payload is decoded as, what is replied>>.*)
(* A step that does not look at its payload decodes nothing.                *)

Nothing == Prim("()")
AnyPayload == <<"any">>
ListPlace == <<Prim("LocalId"), Prim("u32")>>
MetaFramed(d) == Product(<<Prim("Id"), Prim("Metadata"), Struct(d)>>)
ChangesPlace == Product(<<OptionOf(Prim("LocalId")), OptionOf(Prim("u64"))>>)

UniqueSteps(d) ==
  [get |-> <<AnyPayload, <<"Value", Struct(d)>>>>,
   save |-> <<Struct(d), <<"Done">>>>,
   history |-> <<AnyPayload, <<"Values", Product(<<Prim("Metadata"), Struct(d)>>)>>>>,
   changes |-> <<ChangesPlace, <<"Values", Prim("Change")>>>>]

NonUniqueSteps(d) ==
  [get |-> <<Prim("Id"), <<"Value", Struct(d)>>>>,
   insert |-> <<Product(<<Prim("LocalId"), Struct(d)>>), <<"Inserted">>>>,
   update |-> <<Product(<<Prim("Id"), Struct(d)>>), <<"Done">>>>,
   remove |-> <<Prim("Id"), <<"Removed">>>>,
   all |-> <<Prim("LocalId"), <<"Values", MetaFramed(d)>>>>,
   changes |-> <<ChangesPlace, <<"Values", Prim("Change")>>>>,
   listed |-> <<Product(ListPlace \o <<Prim("u64"), Prim("u32")>>), <<"Values", MetaFramed(d)>>>>,
   list_len |-> <<Product(ListPlace), <<"Count">>>>]

Steps(d) == IF d.shape = "Unique" THEN UniqueSteps(d) ELSE NonUniqueSteps(d)

FnStep(sg) ==
  << CASE Len(sg.args) = 0 -> AnyPayload [] Len(sg.args) = 1 -> sg.args[1] [] OTHER -> Product(sg.args),
     IF sg.stream THEN <<"Values", sg.ret>> ELSE <<"Returned", sg.ret>> >>

\* execute: <<outcome>> or <<"runs", what it decodes, what it replies>>. The two
\* identity guards open every generated step, an override has its own.
Execute(entries, who, hash, op) ==
  LET arm == ArmOf(entries, hash)
  IN  CASE arm = <<>> -> <<"UnknownStructHash">>
        [] arm[1].kind = "fn" ->
             IF who = "anonymous" /\ ~arm[1].item.public THEN <<"Unauthorized">> ELSE <<"runs">> \o FnStep(arm[1].item)
        [] op \in DOMAIN arm[1].overrides ->
             IF arm[1].overrides[op] = <<>> THEN <<"UnknownStructHash">> ELSE <<"override">>
        [] who = "anonymous" -> <<"Unauthorized">>
        [] who = "other" -> <<"IdentityMismatch">>
        [] op \in DOMAIN Steps(arm[1].item) -> <<"runs">> \o Steps(arm[1].item)[op]
        [] OTHER -> <<"UnknownStructHash">>

-----------------------------------------------------------------------------
(* The client's typed calls: <<op, the payload sent, the reply decoded>>.   *)
(* create_pivot, search_by, fuzzy_search and record_history are refused     *)
(* before anything is sent.                                                 *)

ClientCalls(e) ==
  LET d == e.item
  IN  CASE e.kind = "fn" ->
             { <<"get",
                 CASE Len(d.args) = 0 -> Nothing [] Len(d.args) = 1 -> d.args[1] [] OTHER -> Product(d.args),
                 IF d.stream THEN <<"Values", d.ret>> ELSE <<"Returned", d.ret>>>> }
        [] d.shape = "Unique" ->
             { <<"get", Nothing, <<"Value", Struct(d)>>>>,
               <<"save", Struct(d), <<"Done">>>>,
               <<"history", Nothing, <<"Values", Product(<<Prim("Metadata"), Struct(d)>>)>>>> }
        [] OTHER ->
             { <<"insert", Product(<<Prim("LocalId"), Struct(d)>>), <<"Inserted">>>>,
               <<"get", Prim("Id"), <<"Value", Struct(d)>>>>,
               <<"update", Product(<<Prim("Id"), Struct(d)>>), <<"Done">>>>,
               <<"remove", Prim("Id"), <<"Removed">>>>,
               <<"all", Prim("LocalId"), <<"Values", MetaFramed(d)>>>>,
               <<"listed", Product(ListPlace \o <<Prim("u64"), Prim("u32")>>), <<"Values", MetaFramed(d)>>>>,
               <<"list_len", Product(ListPlace), <<"Count">>>> }

Understands(decoded, sent) == decoded = AnyPayload \/ WireShape(decoded) = WireShape(sent)
SameReply(a, b) == a[1] = b[1] /\ (Len(a) = 2 => WireShape(a[2]) = WireShape(b[2]))
=============================================================================
