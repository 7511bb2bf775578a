----------------------------- MODULE Encodings -----------------------------
(***************************************************************************)
(* What crosses a byte boundary in this system, one input at a time: a      *)
(* value through the wire codec, two values through the key encoding, a     *)
(* packed identity, a bound over primary keys, a stored value, a block run; *)
(* one journal file with its appends, faults and replays; the registry of a *)
(* build, and the builds of an application that meet on the wire and disk.  *)
(***************************************************************************)
EXTENDS JournalFile, Deployment

CONSTANT Samples

VARIABLE sample
  \* <<"codec", t, v>>            a value of a wire type
  \* <<"keys", t, v, w>>          two values of a key type
  \* <<"ids", [key, tenant, flag, salt]>>
  \* <<"bound", bound, keys, n>>  a bound, and keys of n bytes
  \* <<"descriptor", start, count, occ>>
  \* <<"stored", reader, v>>      a value and the reader of its type
  \* <<"run", t, v, old>>         a framed value, and the one it is written over
  \* <<"superblock", seed>>
  \* <<"journal">>
  \* <<"registry", entries>>      entries whose hashes are numbers
  \* <<"deployment">>
  \* <<"connection">>             none of these

encodingVars == <<sample, journal, deployment>>

EncodingsInit ==
  /\ sample \in Samples /\ journal = Created
  /\ IF sample[1] = "deployment" THEN DeploymentInit ELSE deployment = NoDeployment

EncodingsNext ==
  \/ sample[1] = "journal" /\ JournalNext /\ UNCHANGED <<sample, deployment>>
  \/ sample[1] = "deployment" /\ DeploymentNext /\ UNCHANGED <<sample, journal>>

EncodingsSpec == EncodingsInit /\ [][EncodingsNext]_encodingVars

-----------------------------------------------------------------------------
\* Every element of a vector takes at least a byte: what derives the codec's
\* promise, since a vector is delimited by its bytes and not by a count.
RECURSIVE Sized(_)
Sized(t) ==
  /\ t.k = "vec" => StackSize(t.of[1]) > 0
  /\ t.k \in {"vec", "opt", "tup"} => \A i \in DOMAIN t.of : Sized(t.of[i])
  /\ t.k = "enum" => \A i \in DOMAIN t.of : \A j \in DOMAIN t.of[i] : Sized(t.of[i][j])

\* from_wire gives back what to_wire was given, also with bytes behind it.
CodecRoundTrips ==
  (sample[1] = "codec" /\ Sized(sample[2])) =>
    \A tail \in {<<>>, <<0>>, <<1, 1>>} :
      LET d == FromWire(sample[2], ToWire(sample[2], sample[3]) \o tail)
      IN  d.err = "" /\ d.v = <<sample[3]>>

\* No value decodes from a strict prefix of its bytes: a truncated message is
\* refused, it never becomes a shorter one.
TruncationRefused ==
  sample[1] = "codec" =>
    LET bytes == ToWire(sample[2], sample[3])
    IN  \A n \in 0..(Len(bytes) - 1) : ~Decodes(sample[2], First(bytes, n))

\* The order of the values of a key type: numbers by size, FALSE before TRUE,
\* strings by their bytes, tuples by their first difference.
RECURSIVE Below(_, _, _)
Below(t, v, w) ==
  CASE t.k \in {"int", "sint", "char"} -> v < w
    [] t.k = "bool" -> ~v /\ w
    [] t.k = "str" -> BytesLess(v, w)
    [] t.k = "tup" ->
         \E i \in DOMAIN t.of : Below(t.of[i], v[i], w[i]) /\ \A j \in 1..(i - 1) : v[j] = w[j]

\* IndexKey: byte order is value order, so a tree that compares bytes walks the
\* values in order, and two values never share a key.
KeyOrder ==
  sample[1] = "keys" =>
    (BytesLess(KeyBytes(sample[2], sample[3]), KeyBytes(sample[2], sample[4]))
       <=> Below(sample[2], sample[3], sample[4]))

LocalLess(a, b) == a[1] < b[1] \/ (a[1] = b[1] /\ a[2] < b[2])

\* An Id gives back its fields and its LocalId gives back the Id under its
\* tenant; ids of two tenants differ; and for every other salt and flag of the
\* same tenant the ids order as their local ids do, keys first (Id, LocalId,
\* and the KEY-first layout every range walk relies on).
IdsUnpack ==
  sample[1] = "ids" =>
    LET id == Id(sample[2].key, sample[2].tenant, sample[2].flag, sample[2].salt)
    IN  /\ <<KeyOf(id), TenantOf(id), FlagOf(id)>> = <<sample[2].key, sample[2].tenant, sample[2].flag>>
        /\ SaltOf(id) = sample[2].salt % 2^SaltBits
        /\ FromId(id) = LocalId(sample[2].key, sample[2].flag, sample[2].salt)
        /\ ToId(FromId(id), sample[2].tenant) = id
        /\ (CreatedAt(id) = <<>>) # (StructHashKey(id) = <<>>)
        /\ \A key \in 0..(2^KeyBits - 1), tenant \in 0..(2^TenantBits - 1),
              flag \in BOOLEAN, salt \in 0..(2^SaltBits - 1) :
             LET other == Id(key, tenant, flag, salt)
             IN  /\ tenant # sample[2].tenant => other # id
                 /\ tenant = sample[2].tenant => (other < id <=> LocalLess(FromId(other), FromId(id)))
                 /\ key < sample[2].key => other < id

\* The descent prunes no key the bound matches: whenever a key inside a window
\* is in the bound, the window may intersect it (Bound::created_at_range,
\* NodeKey for LocalId).
PruningSound ==
  sample[1] = "bound" =>
    LET ends == {<<>>} \cup {<<key>> : key \in sample[3]}
    IN  \A min, max \in ends, key \in sample[3] :
          ( /\ min # <<>> => min[1] <= key
            /\ max # <<>> => key <= max[1]
            /\ Matches(key, sample[2], sample[4]) )
            => KeysMayIntersect(sample[2], min, max, sample[4])

\* A block descriptor gives back its run and its gauge, a new gauge leaves the
\* run alone, and the gauge never falls as a run fills (BlockDescriptor).
DescriptorsUnpack ==
  sample[1] = "descriptor" =>
    LET d == Descriptor(sample[2], sample[3], sample[4])
    IN  /\ <<StartOf(d), CountOf(d), OccupationOf(d)>> = <<sample[2], sample[3], sample[4]>>
        /\ \A occ \in 0..(2^OccBits - 1) :
             /\ StartOf(WithOccupation(d, occ)) = sample[2]
             /\ OccupationOf(WithOccupation(d, occ)) = occ
        /\ \A used \in 0..(2 * BlockSize) :
             Fill(used, sample[3] * BlockSize) <= Fill(used + 1, sample[3] * BlockSize)

-----------------------------------------------------------------------------
\* A reader is <<form, hash, type>>: how the value is headed and what it holds.
BytesOf(reader, v) ==
  CASE reader[1] = "envelope" -> EncodeEnvelope(reader[2], reader[3], v)
    [] reader[1] = "record" -> EncodeRecord(reader[2], reader[3], v[1], v[2])
    [] reader[1] = "node" -> NodeBytes(reader[3], v)
    [] reader[1] = "segment" -> EncodeEnvelope(reader[2], SegmentT(reader[3]), v)
    [] reader[1] = "sparse" -> SparseBytes(reader[2], v)

ReadBy(reader, bytes) ==
  CASE reader[1] = "envelope" -> DecodeEnvelope(reader[2], reader[3], bytes)
    [] reader[1] = "record" -> DecodeRecord(reader[2], reader[3], bytes)
    [] reader[1] = "node" -> NodeFrom(reader[3], bytes)
    [] reader[1] = "segment" -> DecodeEnvelope(reader[2], SegmentT(reader[3]), bytes)
    [] reader[1] = "sparse" -> SparseFrom(reader[2], bytes)

\* What a store holds is read back by the reader of its own type and lane,
\* refused by every reader of another hash, and refused when cut short: a value
\* is never taken for one of another type, lane or length.
StoredApart ==
  sample[1] = "stored" =>
    LET Readers == {s[2] : s \in {x \in Samples : x[1] = "stored"}}
        Reads(whole, reader, d) ==
          IF whole /\ reader = sample[2] THEN d = Ok(sample[3])
          ELSE (reader = sample[2] \/ reader[2] # sample[2][2]) => d.err # ""
    IN  \A bytes \in {BytesOf(sample[2], sample[3])} :
          \A n \in 0..Len(bytes), reader \in Readers :
            Reads(n = Len(bytes), reader, ReadBy(reader, First(bytes, n)))

\* A run of which only some blocks were written reads as what was written, as
\* what was there before, or not at all: the length and the checksum admit no
\* mixture (SlotPage, Dictionary and EditChunk from_bytes, the superblock).
NoTornRun ==
  /\ sample[1] = "run" =>
       LET new == RunOf(Framed(sample[2], sample[3]))
           old == RunOf(Framed(sample[2], sample[4]))
       IN  \A cut \in 0..Len(new), tail \in {old, <<>>} :
             LET d == ReadFramed(sample[2], First(new, cut) \o Past(Padded(tail, Len(new), 0), cut))
             IN  d.err = "" => d.v \in {<<sample[3]>>, <<sample[4]>>}
  /\ sample[1] = "superblock" =>
       LET new == SuperblockBytes(sample[2])
       IN  /\ ReadSuperblock(new) = Ok(sample[2])
           /\ \A cut \in 0..Len(new) :
                LET d == ReadSuperblock(Padded(First(new, cut), Len(new), 0))
                IN  d.err = "" => d.v = sample[2]

\* Whatever crosses a byte boundary comes back as what it was, in the order it
\* had, or is refused: values of the wire codec, key bytes, packed ids and
\* descriptors, stored values behind their hashes, block runs and superblocks
\* behind length and checksum, and the frames of a journal file through failed
\* writes, power losses and replays (wavedb-wire, index/key.rs, id.rs, block.rs,
\* record.rs, edit.rs, journal.rs).
BytesExact ==
  /\ CodecRoundTrips /\ TruncationRefused /\ KeyOrder /\ IdsUnpack /\ PruningSound
  /\ DescriptorsUnpack /\ StoredApart /\ NoTornRun /\ ReplayExact

-----------------------------------------------------------------------------
\* In a registry that compiles, a command reaches the one entry whose identity its
\* frame names, and the hash of a storage-only type is answered as an unlisted one
\* (expose.rs expand_server, expose_collision.rs collision_guard).
RouteExact ==
  (sample[1] = "registry" /\ IdentityErrors(sample[2]) = {}) =>
    \A i \in DOMAIN sample[2] :
      LET e == sample[2][i]
      IN  /\ Knows(sample[2], e.hash) <=> e.kind # "store"
          /\ ArmOf(sample[2], e.hash) = IF e.kind = "store" THEN <<>> ELSE <<e>>

\* A registry without a salt warning gives every stored occupant, record type or
\* lane, a salt of its own (expose_salt.rs, expose_collision.rs salt_warning).
SaltsGuarded ==
  (sample[1] = "registry" /\ SaltWarnings(sample[2], SaltBits) = {}) =>
    LET slots == StorageSlots(sample[2])
        Occupants(i) == <<slots[i].hash>> \o slots[i].lanes
        Places == UNION {{<<i, k>> : k \in DOMAIN Occupants(i)} : i \in DOMAIN slots}
    IN  \A p, q \in Places :
          p # q => Occupants(p[1])[p[2]] % 2^SaltBits # Occupants(q[1])[q[2]] % 2^SaltBits

\* What the registry's compile-time guards promise of routing and of salts holds
\* of every registry they let through (expose_collision.rs, expose_salt.rs).
RegistryGuarded == RouteExact /\ SaltsGuarded
=============================================================================
