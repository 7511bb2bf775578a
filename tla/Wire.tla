-------------------------------- MODULE Wire --------------------------------
(***************************************************************************)
(* The wire codec of wavedb-wire and of its derive macro: every value is a  *)
(* fixed-size stack section followed by a heap section.                     *)
(*                                                                         *)
(* A type is a record [k, n, of]:                                           *)
(*   "int"   a scalar of n bytes                  values: 0 .. Base^n - 1   *)
(*   "bool"  one byte, 0 or 1                     values: BOOLEAN           *)
(*   "char"  a scalar of n bytes outside NoChar   values: integers          *)
(*   "str"   a byte string free of NotUtf8        values: sequences         *)
(*   "vec"   any number of of[1]                  values: sequences         *)
(*   "opt"   of[1] or nothing                     values: <<v>> or <<>>     *)
(*   "tup"   the fields of, in order: a struct, a tuple, an array, ()       *)
(*   "enum"  one variant, of[tag + 1] its fields  values: [tag, fields]     *)
(* A byte is a number below Base; a length slot is LenBytes bytes (the code *)
(* has 256 and 4).                                                          *)
(***************************************************************************)
EXTENDS Integers, Sequences, SequencesExt

CONSTANTS Base, LenBytes, NoChar, NotUtf8

ASSUME WireAssumption == Base \in Nat \ {0, 1} /\ LenBytes \in Nat \ {0}

WInt(n) == [k |-> "int", n |-> n, of |-> <<>>]
WBool == [k |-> "bool", n |-> 1, of |-> <<>>]
WChar(n) == [k |-> "char", n |-> n, of |-> <<>>]
WStr == [k |-> "str", n |-> 0, of |-> <<>>]
WVec(t) == [k |-> "vec", n |-> 0, of |-> <<t>>]
WOpt(t) == [k |-> "opt", n |-> 0, of |-> <<t>>]
WTup(ts) == [k |-> "tup", n |-> 0, of |-> ts]
WArr(n, t) == WTup([i \in 1..n |-> t])
WEnum(vs) == [k |-> "enum", n |-> 0, of |-> vs]

WBytes == WVec(WInt(1))

HasFields(t) == \E i \in DOMAIN t.of : t.of[i] # <<>>

RECURSIVE SumOf(_), Concat(_)
SumOf(s) == IF s = <<>> THEN 0 ELSE Head(s) + SumOf(Tail(s))
Concat(ss) == IF ss = <<>> THEN <<>> ELSE Head(ss) \o Concat(Tail(ss))

\* The n little-endian bytes of v, which keep only v modulo Base^n.
Le(v, n) == [i \in 1..n |-> (v \div Base^(i - 1)) % Base]
Be(v, n) == Reverse(Le(v, n))
FromLe(bytes) ==
  SumOf([i \in 1..Len(bytes) |-> bytes[i] * Base^(i - 1)])

RECURSIVE StackSize(_)
StackSize(t) ==
  CASE t.k \in {"int", "char"} -> t.n
    [] t.k \in {"bool", "opt"} -> 1
    [] t.k \in {"str", "vec"} -> LenBytes
    [] t.k = "tup" -> SumOf([i \in DOMAIN t.of |-> StackSize(t.of[i])])
    [] t.k = "enum" -> IF HasFields(t) THEN 1 + LenBytes ELSE 1

RECURSIVE EncodeStack(_, _), EncodeHeap(_, _)

\* A self-contained unit: the stacks of the fields, then their heaps. It is
\* what a Vec element, a Some and an enum variant put in the parent's heap.
Unit(ts, vs) ==
  Concat([i \in DOMAIN ts |-> EncodeStack(ts[i], vs[i])])
    \o Concat([i \in DOMAIN ts |-> EncodeHeap(ts[i], vs[i])])

EncodeHeap(t, v) ==
  CASE t.k \in {"int", "bool", "char"} -> <<>>
    [] t.k = "str" -> v
    [] t.k \in {"vec", "opt"} ->
         Concat([i \in DOMAIN v |-> Unit(t.of, <<v[i]>>)])
    [] t.k = "tup" -> Concat([i \in DOMAIN t.of |-> EncodeHeap(t.of[i], v[i])])
    [] t.k = "enum" -> Unit(t.of[v.tag + 1], v.fields)

HeapSize(t, v) == Len(EncodeHeap(t, v))

EncodeStack(t, v) ==
  CASE t.k \in {"int", "char"} -> Le(v, t.n)
    [] t.k = "bool" -> <<IF v THEN 1 ELSE 0>>
    [] t.k = "opt" -> <<Len(v)>>
    [] t.k \in {"str", "vec"} -> Le(HeapSize(t, v), LenBytes)
    [] t.k = "tup" -> Concat([i \in DOMAIN t.of |-> EncodeStack(t.of[i], v[i])])
    [] t.k = "enum" ->
         IF HasFields(t) THEN <<v.tag>> \o Le(HeapSize(t, v), LenBytes) ELSE <<v.tag>>

ToWire(t, v) == Unit(<<t>>, <<v>>)

-----------------------------------------------------------------------------
\* Decoding: a result is a value with what is left of both cursors, or an error.
Decoded(v, s, h) == [err |-> "", v |-> v, s |-> s, h |-> h]
Failed(e) == [err |-> e, v |-> <<>>, s |-> <<>>, h |-> <<>>]

First(s, n) == SubSeq(s, 1, n)
Past(s, n) == SubSeq(s, n + 1, Len(s))

RECURSIVE Decode(_, _, _), DecodeFields(_, _, _), DecodeRegion(_, _)

\* A value and then the values behind it, unless either failed.
Followed(one, rest, s, h) ==
  IF one.err # "" THEN one
  ELSE IF rest.err # "" THEN rest
  ELSE Decoded(one.v \o rest.v, s, h)

\* Fields in order over shared cursors; v accumulates their values.
DecodeFields(ts, s, h) ==
  IF ts = <<>> THEN Decoded(<<>>, s, h)
  ELSE LET Behind(one) ==
             LET rest == DecodeFields(Tail(ts), one.s, one.h)
             IN  Followed([one EXCEPT !.v = <<@>>], rest, rest.s, rest.h)
       IN  Behind(Decode(Head(ts), s, h))

\* A unit at the front of bytes: its stack is the next bytes, its heap the
\* remainder, of which it takes what it needs.
DecodeUnit(ts, bytes) ==
  LET size == StackSize(WTup(ts))
  IN  IF Len(bytes) < size THEN Failed("eof")
      ELSE DecodeFields(ts, First(bytes, size), Past(bytes, size))

\* The elements of a Vec until its region is used up.
DecodeRegion(t, region) ==
  IF region = <<>> THEN Decoded(<<>>, <<>>, <<>>)
  ELSE LET Behind(one) == Followed(one, DecodeRegion(t, one.h), <<>>, <<>>)
       IN  Behind(DecodeUnit(<<t>>, region))

\* What a length slot announces is taken off the heap before it is decoded.
Region(s, h) ==
  LET n == FromLe(First(s, LenBytes))
  IN  IF Len(h) < n THEN Failed("eof")
      ELSE Decoded(First(h, n), Past(s, LenBytes), Past(h, n))

\* The value d found in the region r, behind both.
Within(r, d) ==
  IF r.err # "" THEN r ELSE IF d.err # "" THEN d ELSE Decoded(d.v, r.s, r.h)

Decode(t, s, h) ==
  CASE t.k = "int" -> Decoded(FromLe(First(s, t.n)), Past(s, t.n), h)
    [] t.k = "char" ->
         LET c == FromLe(First(s, t.n))
         IN  IF c \in NoChar THEN Failed("char") ELSE Decoded(c, Past(s, t.n), h)
    [] t.k = "bool" ->
         IF s[1] > 1 THEN Failed("bool") ELSE Decoded(s[1] = 1, Tail(s), h)
    [] t.k = "str" ->
         LET Text(r) == Within(r, IF Contains(r.v, NotUtf8) THEN Failed("utf8") ELSE r)
         IN  Text(Region(s, h))
    [] t.k = "vec" ->
         LET Elements(r) == Within(r, DecodeRegion(t.of[1], r.v))
         IN  Elements(Region(s, h))
    [] t.k = "opt" ->
         LET Some(d) == Within(Decoded(<<>>, Tail(s), d.h), d)
         IN  IF s[1] = 0 THEN Decoded(<<>>, Tail(s), h) ELSE Some(DecodeUnit(t.of, h))
    [] t.k = "tup" -> DecodeFields(t.of, s, h)
    [] t.k = "enum" ->
         LET Tagged(d) == [d EXCEPT !.v = [tag |-> s[1], fields |-> @]]
             Variant(r) == Within(r, IF s[1] >= Len(t.of) THEN Failed("tag")
                                     ELSE Tagged(DecodeUnit(t.of[s[1] + 1], r.v)))
         IN  Variant(IF HasFields(t) THEN Region(Tail(s), h) ELSE Decoded(<<>>, Tail(s), h))

FromWire(t, bytes) == DecodeUnit(<<t>>, bytes)

\* The decoded value of bytes that decode.
ValueOf(t, bytes) == FromWire(t, bytes).v[1]
Decodes(t, bytes) == FromWire(t, bytes).err = ""
=============================================================================
