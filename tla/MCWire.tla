------------------------------- MODULE MCWire -------------------------------
\* What crosses a connection and what crosses a byte boundary: a behaviour is
\* one connection, or one input to the encodings.
EXTENDS Transport, Encodings

MCRequests ==
  {[auth |-> Token(<<9>>), frame |-> <<5, Get, <<3, 4>>>>],
   [auth |-> Anonymous(2), frame |-> <<6, All, <<>>>>]}

MCAnswers(frame) ==
  IF frame[2] = All
  THEN {OkR(Values(<<>>)), OkR(Values(<< <<1, 2>>, <<3>> >>)), ErrR(11, frame[1])}
  ELSE {OkR(Value(<< <<1, 2, 3>> >>)), OkR(Value(<<>>)), ErrR(0, frame[1])}

TopicA == <<5, <<>>>>
TopicB == <<6, <<3>>>>
MCTopics == {TopicA, TopicB}

MCCursors == << <<TopicA, <<4>>>> >>
MCDeltas == {<< <<>>, << <<TopicA, 4>> >> >>,
             << <<RecordEvent(TopicA, 1, 5)>>, << <<TopicA, 5>> >> >>}

Op(call, topic) == [call |-> call, topic |-> topic]
NextEvent == Op("next_event", <<>>)
MCScripts ==
  {<<>>,
   <<Op("subscribe", TopicA), NextEvent, Op("subscribe", TopicB), NextEvent>>,
   <<Op("subscribe", TopicA), Op("unsubscribe", TopicA), NextEvent>>}

MCPaths == {[split |-> 0, chunk |-> 100], [split |-> 2, chunk |-> 3]}

MCIdentities == {Token(<<9>>), Token(<<8>>), Anonymous(2)}
MCBadTokens == {<<8>>}
MCMaskKeys == {<<21, 10>>}

-----------------------------------------------------------------------------
\* The codec's inputs: types built in two rounds from the leaves, with a few
\* values each, and the envelopes.
Leaves == {<<WInt(1), 0>>, <<WInt(1), 63>>, <<WInt(2), 700>>, <<WBool, TRUE>>, <<WBool, FALSE>>,
           <<WChar(1), 7>>, <<WStr, <<>>>>, <<WStr, <<1, 2>>>>, <<WTup(<<>>), <<>>>>}
Round(S) ==
  {<<WVec(s[1]), w>> : s \in S, w \in {<<>>}}
    \cup {<<WVec(s[1]), <<s[2]>>>> : s \in S}
    \cup {<<WVec(s[1]), <<s[2], s[2]>>>> : s \in S}
    \cup {<<WOpt(s[1]), <<>>>> : s \in S}
    \cup {<<WOpt(s[1]), <<s[2]>>>> : s \in S}
    \cup {<<WArr(2, s[1]), <<s[2], s[2]>>>> : s \in S}
    \cup {<<WTup(<<s[1], WStr>>), <<s[2], <<4>>>>>> : s \in S}
    \cup {<<WEnum(<< <<>>, <<WStr, s[1]>> >>), Variant(0, <<>>)>> : s \in S}
    \cup {<<WEnum(<< <<>>, <<WStr, s[1]>> >>), Variant(1, << <<5>>, s[2]>>)>> : s \in S}
Envelopes1 ==
  {<<RequestT, <<auth, frame, sync>>>> :
     auth \in {Token(<<9>>), Anonymous(2)}, frame \in {<<5, Get, <<3, 4>>>>, <<6, All, <<>>>>},
     sync \in {<<>>, << <<TopicA, <<4>>>> >>}}
    \cup {<<SyncReplyT, << <<RecordEvent(TopicA, 1, 5), RecordEvent(TopicB, 1, 6)>>, << <<TopicA, 5>> >> >> >>}
    \cup {<<ResponseT, r>> : r \in {OkR(Values(<< <<1, 2>>, <<3>> >>)), OkR(Value(<<>>)), ErrR(11, 6)}}
    \cup {<<ServerMsgT, EventMsg(RecordEvent(t, 1, 2))>> : t \in {TopicA, TopicB}}
CodecSamples ==
  {<<"codec", s[1], s[2]>> :
     s \in Leaves \cup Round(Leaves) \cup Round(Round(Leaves)) \cup Envelopes1}

\* Two values of every key type, at the boundaries of its bytes. A string in a
\* tuple has no NUL byte.
Words == {0, 1, 63, 64, 65, 4032, 4095}
Signed == {-2048, -65, -64, -1, 0, 1, 63, 64, 2047}
Strings == {<<>>, <<1>>, <<1, 1>>, <<1, 2>>, <<2>>, <<62>>}
KeySamples ==
  LET Pairs(t, S) == {<<"keys", t, v, w>> : v, w \in S}
  IN  Pairs(WInt(2), Words) \cup Pairs(SInt(2), Signed) \cup Pairs(WBool, BOOLEAN)
        \cup Pairs(WStr, Strings \cup {<<0>>, <<1, 0>>, <<0, 1>>})
        \cup Pairs(WTup(<<WInt(2), WInt(1)>>), Words \X {0, 1, 63})
        \cup Pairs(WTup(<<WStr, WStr>>), Strings \X Strings)
        \cup Pairs(WTup(<<WStr, SInt(2), WBool>>), Strings \X {-1, 0} \X BOOLEAN)

IdSamples ==
  {<<"ids", [key |-> k, tenant |-> t, flag |-> f, salt |-> s]>> :
     k \in 0..(2^KeyBits - 1), t \in 0..(2^TenantBits - 1), f \in BOOLEAN, s \in 0..(2^(SaltBits + 1) - 1)}

Ends == {<<0, 0>>, <<0, 1>>, <<1, 0>>, <<1, 63>>, <<63, 63>>, <<1>>, <<1, 0, 0>>}
MCBounds ==
  {<<"all">>} \cup {<<"exact", e>> : e \in Ends} \cup {<<"range", lo, hi>> : lo, hi \in Ends}
    \cup {<<"prefix", p>> : p \in Ends \cup {<<>>, <<63>>}}
BoundSamples ==
  {<<"bound", b, {0, 1, 63, 64, 65, 127, 128, 4032, 4095}, 2>> : b \in MCBounds}

DescriptorSamples ==
  {<<"descriptor", s, c, o>> :
     s \in 0..(2^StartBits - 1), c \in 0..(2^CountBits - 1), o \in 0..(2^OccBits - 1)}

Meta(previous, removed, pivot, permission) ==
  <<previous, <<FALSE, 70>>, removed, pivot, 3, 4, permission>>
Metas == {Meta(<<>>, FALSE, <<>>, <<>>), Meta(<<65>>, TRUE, <<<<2, 1>>>>, <<>>),
          Meta(<<>>, FALSE, <<>>, <<Variant(1, << <<1, 2>> >>)>>)}
Sec(byte) == <<<<byte>>, <<byte, 1>>>>
Reader(form, hash, t) == <<form, hash, t>>
Stored(reader, V) == {<<"stored", reader, v>> : v \in V}
StoredSamples ==
  UNION {Stored(Reader("record", h, WStr), Metas \X {<<>>, <<4, 5>>}) : h \in {5, 6}}
    \cup Stored(Reader("envelope", 7, WVec(LocalT)), {<<>>, <<<<1, 2>>>>})
    \cup Stored(Reader("node", NodeHash, LocalT),
           {[kind |-> 0, left |-> <<>>, entries |-> e] : e \in {<<>>, <<<<1, 2>>, <<3, 4>>>>}}
             \cup {[kind |-> 1, left |-> <<9, 1>>, entries |-> <<<<<<1, 2>>, <<3, 4>>>>>>]})
    \cup UNION {Stored(Reader("segment", LaneHash(lane, 5), WBytes),
           {<<<<>>, <<>>, <<>>>>, << <<<<1, 1>>>>, <<<<2, 1>>>>, << <<Sec(1), <<7, 7>>>>, <<Sec(2), <<>>>> >> >>})
           : lane \in {"records", "recency"}}
    \cup Stored(Reader("segment", LaneHash("dead", 5), WTup(<<>>)), {<<<<>>, <<>>, << <<Sec(1), <<>>>> >> >>})
    \cup Stored(Reader("sparse", LaneHash("index", 5), WBool),
           {<<k, << <<Sec(1), <<2, 1>>, 66>> >> >> : k \in {0, 1}})

RunSamples ==
  LET Torn(t, V) == {<<"run", t, v, w>> : v, w \in V}
      Edit(hash, dict) == <<hash, 2, << <<0, 130>>, <<1, 7>> >>, dict>>
  IN  Torn(DictionaryT, {<<>>, <<1, 2, 3>>, <<1, 2, 3, 4, 5, 6>>})
        \cup Torn(EditChunkT, {<<0, <<>>>>, <<70, <<Edit(5, <<>>)>>>>, <<71, <<Edit(5, <<9>>)>>>>})
        \cup Torn(PageT, {<<5, Variant(0, << <<1, 2, 3>> >>)>>, <<5, Variant(1, <<2, 9, <<4>>>>)>>})
SuperblockSamples == {<<"superblock", s>> : s \in {<<0, 1>>, <<700, 4095>>}}

Put(id, bytes) == Variant(0, <<id, bytes>>)
MCFrames == {Variant(0, << <<Put(3, <<1>>)>> >>), Variant(1, << <<65, 0>> >>)}
FrameSamples ==
  {<<"codec", JournalFrameT, Variant(0, << <<Put(3, <<1, 2>>), Variant(1, <<5, 3>>), Variant(2, <<5, 3, b>>)>> >>)>> :
     b \in {<<>>, << <<1>> >>}}

\* Registries: three entries, one of them a collection with a lane; a function
\* between two structs, storage-only types, hashes that share a salt or are equal.
RegistrySamples ==
  LET Entry(k, hash, lanes) == [kind |-> k, hash |-> hash, lanes |-> lanes, item |-> <<>>, overrides |-> <<>>]
      Kinds == {"struct", "fn", "store"}
      Hashes == {0, 1, 4, 6}
  IN  {<<"registry", <<Entry(k1, h1, <<>>), Entry(k2, h2, <<>>), Entry(k3, h3, <<l, 3>>)>>>> :
         k1, k2 \in Kinds, k3 \in {"struct", "store"}, h1, h2, h3 \in Hashes, l \in {1, 2, 7}}

\* Builds of an application: an order type in many forms, a settings type and a
\* function, each build one change away from the first.
Plain(name, type) == [name |-> name, type |-> type, lists |-> <<>>, fuzzy |-> <<>>]
Order ==
  [name |-> "Order", shape |-> "NonUnique", compress |-> TRUE, page |-> <<>>,
   members |-> <<Plain("no", "u32"), Plain("who", "String")>>,
   keys |-> <<>>, lists |-> <<>>, pivots |-> <<>>, hooks |-> <<>>]
Prefs == [Order EXCEPT !.name = "Prefs", !.shape = "Unique"]
Listed(no, who) == [Order EXCEPT !.members[1].lists = no, !.members[2].lists = who]
Fuzzy(spec) == [Order EXCEPT !.members[2].fuzzy = <<spec>>]
Over(names, page) == [members |-> names, page |-> page]
Orders ==
  { Order, [Order EXCEPT !.members = <<Order.members[2], Order.members[1]>>],
    [Order EXCEPT !.members[1].type = "u64"], [Order EXCEPT !.members[1].name = "nr"],
    [Order EXCEPT !.compress = FALSE], [Order EXCEPT !.page = <<4>>], [Order EXCEPT !.hooks = <<"validate">>],
    [Order EXCEPT !.keys = <<<<"no">>>>], [Order EXCEPT !.keys = <<<<"who", "no">>>>],
    Listed(<<<<>>>>, <<>>), Listed(<<<<2>>>>, <<>>), Listed(<<<<>>>>, <<<<2>>>>), Listed(<<<<2>>>>, <<<<>>>>),
    [Listed(<<<<>>>>, <<>>) EXCEPT !.lists = <<Over(<<"who", "no">>, <<3>>)>>],
    [Order EXCEPT !.lists = <<Over(<<"no", "who">>, <<>>)>>],
    Fuzzy(<<<<>>, <<>>>>), Fuzzy(<<<<3>>, <<>>>>), Fuzzy(<<<<2>>, <<>>>>), Fuzzy(<<<<>>, <<"none">>>>),
    [Order EXCEPT !.pivots = <<<<"no">>>>], [Order EXCEPT !.pivots = <<<<"no">>, <<"who">>>>] }
\* What the macro refuses.
Refused ==
  { [Order EXCEPT !.page = <<0>>], [Order EXCEPT !.keys = <<<<"nr">>>>], [Order EXCEPT !.keys = <<<<"no">>, <<"who">>>>],
    [Prefs EXCEPT !.pivots = <<<<"no">>>>], [Order EXCEPT !.members[1].fuzzy = <<<<<<>>, <<>>>>>>], Fuzzy(<<<<1>>, <<>>>>) }
Fn(args, ret, stream) == FnEntry([name |-> "find", args |-> args, ret |-> ret, stream |-> stream, public |-> FALSE])
Fns ==
  { Fn(<<>>, Prim("u32"), FALSE), Fn(<<Prim("u32")>>, Struct(Order), FALSE), Fn(<<Prim("u32")>>, Struct(Order), TRUE),
    Fn(<<Struct(Order)>>, <<"vec", Struct(Order)>>, FALSE), Fn(<<Struct(Order)>>, OptionOf(Struct(Order)), FALSE),
    Fn(<<Prim("u32"), Prim("String")>>, <<"array", Prim("u32"), 2>>, FALSE),
    Fn(<<Prim("String"), Prim("u32")>>, <<"array", Prim("u32"), 3>>, FALSE),
    Fn(<<Struct([Order EXCEPT !.members[1].type = "u64"])>>, Prim("u32"), FALSE) }
Build(order, fn) == <<StructEntry("struct", order, [remove |-> <<>>, update |-> <<"audited">>]),
                      StructEntry("store", Prefs, <<>>), fn>>
MCBuilds ==
  {Build(d, Fn(<<Prim("u32")>>, Struct(d), FALSE)) : d \in Orders \cup Refused}
    \cup {Build(Order, fn) : fn \in Fns}
    \cup {<<StructEntry("struct", Prefs, <<>>), StructEntry("struct", Order, <<>>)>>,
          <<StructEntry("struct", Order, <<>>), StructEntry("struct", Prefs, <<>>), StructEntry("store", Order, <<>>)>>}
MCSamples ==
  CodecSamples \cup FrameSamples \cup KeySamples \cup IdSamples \cup BoundSamples \cup DescriptorSamples
    \cup StoredSamples \cup RunSamples \cup SuperblockSamples \cup {<<"journal">>}
    \cup RegistrySamples \cup {<<"deployment">>, <<"connection">>}

-----------------------------------------------------------------------------
WireInit == EncodingsInit /\ TransportInit /\ (sample = <<"connection">> <=> kind # "none")

WireNext ==
  \/ TransportNext /\ UNCHANGED encodingVars
  \/ EncodingsNext /\ UNCHANGED transportVars

WireSpec == WireInit /\ [][WireNext]_<<transportVars, encodingVars>> /\ Fairness
=============================================================================
