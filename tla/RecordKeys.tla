---------------------------- MODULE RecordKeys ----------------------------
(***************************************************************************)
(* The packed identities of wavedb-core and the order-preserving key bytes  *)
(* its trees compare: Id and LocalId, U48, IndexKey, and the pruning of a   *)
(* primary search by the creation instants a bound can match; with them the *)
(* block descriptor of wavedb-storage, packed the same way.                 *)
(*                                                                         *)
(* The fields keep their order and their masks; their widths are constants  *)
(* (the code has 64 key, 48 tenant and 15 salt bits, and 40, 20 and 4 bits  *)
(* in a descriptor). A key type is a type of Wire, or SInt(n).              *)
(***************************************************************************)
EXTENDS Wire

CONSTANTS KeyBits, TenantBits, SaltBits, StartBits, CountBits, OccBits

\* U48::new refuses, U48::from_truncated masks.
U48New(v) == IF v >= 2^TenantBits THEN Failed("u48") ELSE Decoded(v, <<>>, <<>>)
FromTruncated(v) == v % 2^TenantBits

TenantShift == 1 + SaltBits
KeyShift == TenantBits + TenantShift

\* The bits of raw from shift on.
Shr(raw, shift) == raw \div 2^shift

Id(key, tenant, flag, salt) ==
  key * 2^KeyShift + tenant * 2^TenantShift + (IF flag THEN 2^SaltBits ELSE 0) + (salt % 2^SaltBits)

KeyOf(id) == Shr(id, KeyShift)
TenantOf(id) == FromTruncated(Shr(id, TenantShift))
FlagOf(id) == Shr(id, SaltBits) % 2 = 1
SaltOf(id) == id % 2^SaltBits
CreatedAt(id) == IF FlagOf(id) THEN <<>> ELSE <<KeyOf(id)>>
StructHashKey(id) == IF FlagOf(id) THEN <<KeyOf(id)>> ELSE <<>>

\* A LocalId is <<key, lower>>: the flag over the salt.
LocalId(key, flag, salt) == <<key, (IF flag THEN 2^SaltBits ELSE 0) + (salt % 2^SaltBits)>>
FromId(id) == <<KeyOf(id), id % 2^TenantShift>>
LocalFlag(local) == Shr(local[2], SaltBits) % 2 = 1
LocalSalt(local) == local[2] % 2^SaltBits
ToId(local, tenant) == Id(local[1], tenant, LocalFlag(local), LocalSalt(local))

-----------------------------------------------------------------------------
SInt(n) == [k |-> "sint", n |-> n, of |-> <<>>]

\* The sign bit flipped: the least integer becomes zero.
SignedBytes(v, n) == Be(v + (Base^n \div 2), n)

RECURSIVE KeyBytes(_, _)
KeyBytes(t, v) ==
  CASE t.k \in {"int", "char"} -> Be(v, t.n)
    [] t.k = "sint" -> SignedBytes(v, t.n)
    [] t.k = "bool" -> <<IF v THEN 1 ELSE 0>>
    [] t.k = "str" -> Append(v, 0)
    [] t.k = "tup" -> Concat([i \in DOMAIN t.of |-> KeyBytes(t.of[i], v[i])])

\* memcmp, then length: the order of Rust's byte slices.
BytesLess(a, b) ==
  LET i == CHOOSE j \in 1..(Len(a) + 1) :
             /\ \A h \in 1..(j - 1) : h <= Len(b) /\ a[h] = b[h]
             /\ j > Len(a) \/ j > Len(b) \/ a[j] # b[j]
  IN  i <= Len(b) /\ (i > Len(a) \/ a[i] < b[i])

-----------------------------------------------------------------------------
\* A bound over primary keys: <<"all">>, <<"exact", k>>, <<"range", lo, hi>>
\* or <<"prefix", p>>, each of byte strings. Whether a key is in it:
Matches(key, bound, n) ==
  LET bytes == Be(key, n)
  IN  CASE bound[1] = "all" -> TRUE
        [] bound[1] = "exact" -> bytes = bound[2]
        [] bound[1] = "range" -> ~BytesLess(bytes, bound[2]) /\ BytesLess(bytes, bound[3])
        [] bound[1] = "prefix" -> IsPrefix(bound[2], bytes)

FromBe(bytes) == FromLe(Reverse(bytes))

\* p, filled up to n bytes.
Padded(p, n, byte) == [i \in 1..n |-> IF i <= Len(p) THEN p[i] ELSE byte]

\* The inclusive range of instants a bound can match, or <<>>.
CreatedAtRange(bound, n) ==
  CASE bound[1] = "exact" /\ Len(bound[2]) = n -> <<FromBe(bound[2]), FromBe(bound[2])>>
    [] bound[1] = "range" /\ Len(bound[2]) = n /\ Len(bound[3]) = n ->
         IF FromBe(bound[3]) = 0 THEN <<1, 0>>
         ELSE <<FromBe(bound[2]), FromBe(bound[3]) - 1>>
    [] bound[1] = "prefix" /\ Len(bound[2]) <= n ->
         <<FromBe(Padded(bound[2], n, 0)), FromBe(Padded(bound[2], n, Base - 1))>>
    [] OTHER -> <<>>

\* min and max are <<key>> or <<>>, an open end.
KeysMayIntersect(bound, min, max, n) ==
  LET range == CreatedAtRange(bound, n)
      from == IF min = <<>> THEN 0 ELSE min[1]
      to == IF max = <<>> THEN Base^n - 1 ELSE max[1]
  IN  range # <<>> => to >= range[1] /\ from <= range[2]

-----------------------------------------------------------------------------
Descriptor(start, count, occ) == start * 2^(CountBits + OccBits) + count * 2^OccBits + occ

StartOf(desc) == Shr(desc, CountBits + OccBits) % 2^StartBits
CountOf(desc) == Shr(desc, OccBits) % 2^CountBits
OccupationOf(desc) == desc % 2^OccBits
WithOccupation(desc, occ) == Descriptor(StartOf(desc), CountOf(desc), occ)

\* How full used bytes leave a run of capacity bytes, in parts of 2^OccBits.
Fill(used, capacity) ==
  IF capacity = 0 THEN 0
  ELSE LET gauge == (used * 2^OccBits) \div capacity
       IN  IF gauge < 2^OccBits THEN gauge ELSE 2^OccBits - 1
=============================================================================
