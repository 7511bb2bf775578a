---------------------------- MODULE StoredValues ----------------------------
(***************************************************************************)
(* The byte forms of what a store holds and of what the engine writes to    *)
(* its files: records, envelopes, tree nodes, chain segments and sparse     *)
(* nodes behind the hash that routes them; dictionaries, pages and edit     *)
(* chunks framed by length and checksum in block-padded runs; the           *)
(* superblock.                                                              *)
(*                                                                         *)
(* Decoding gives Decoded(value, ...) or Failed(why), as in Wire.           *)
(***************************************************************************)
EXTENDS RecordKeys

CONSTANTS
  HashBytes,   \* bytes of a STRUCT_HASH (8)
  CrcBytes,    \* bytes of a checksum (4)
  BlockSize,   \* bytes of a block
  Version      \* the on-disk format version

InstantT == WInt(HashBytes)
LocalT == WTup(<<WInt(1), WInt(1)>>)
SecKeyT == WTup(<<WBytes, LocalT>>)
\* Tag and instant on the stack, the tag 0 or 1: a bool and a word.
SuccessionT == WTup(<<WBool, InstantT>>)
PermissionT == WEnum(<< <<>>, <<WVec(WInt(1))>>, <<InstantT>> >>)
MetadataT ==
  WTup(<<WOpt(InstantT), SuccessionT, WBool, WOpt(LocalT), WInt(1), InstantT, WOpt(PermissionT)>>)

Ok(v) == Decoded(v, <<>>, <<>>)

\* The bytes behind the head, if the head is the hash expected.
Headed(hash, bytes) ==
  IF Len(bytes) < HashBytes THEN Failed("head")
  ELSE IF FromLe(First(bytes, HashBytes)) # hash THEN Failed("head")
  ELSE Ok(Past(bytes, HashBytes))

\* What Read makes of what r found, unless r failed.
AndThen(r, Read(_)) == IF r.err # "" THEN r ELSE Read(r.v)

\* The value a unit decoded holds.
TheOne(vs) == Ok(vs[1])
ReadAs(t, bytes) == AndThen(FromWire(t, bytes), TheOne)

EncodeEnvelope(hash, t, v) == Le(hash, HashBytes) \o ToWire(t, v)
DecodeEnvelope(hash, t, bytes) ==
  LET Body(b) == ReadAs(t, b) IN AndThen(Headed(hash, bytes), Body)

EncodeRecord(hash, t, meta, v) ==
  LET m == ToWire(MetadataT, meta)
  IN  Le(hash, HashBytes) \o Le(Len(m), LenBytes) \o m \o ToWire(t, v)

\* <<metadata, body bytes>> of a record.
SplitRecord(hash, bytes) ==
  LET Split(b) ==
        LET size == LenBytes + FromLe(First(b, LenBytes))
            Before(meta) == Ok(<<meta, Past(b, size)>>)
        IN  IF Len(b) < LenBytes THEN Failed("eof")
            ELSE IF Len(b) < size THEN Failed("eof")
            ELSE AndThen(ReadAs(MetadataT, SubSeq(b, LenBytes + 1, size)), Before)
  IN  AndThen(Headed(hash, bytes), Split)

DecodeRecord(hash, t, bytes) ==
  LET Body(split) ==
        LET Behind(v) == Ok(<<split[1], v>>) IN AndThen(ReadAs(t, split[2]), Behind)
  IN  AndThen(SplitRecord(hash, bytes), Body)

-----------------------------------------------------------------------------
\* A B+tree node [kind, left, entries] over keys of type t: kind 0 is a leaf of
\* keys, kind 1 has a leftmost child and <<key, child>> entries.
NodeHash == 1
NodeBytes(t, node) ==
  Le(NodeHash, HashBytes) \o <<node.kind>> \o
    (IF node.kind = 0 THEN ToWire(WVec(t), node.entries)
     ELSE ToWire(LocalT, node.left) \o ToWire(WVec(WTup(<<t, LocalT>>)), node.entries))

NodeFrom(t, bytes) ==
  LET split == StackSize(LocalT)
      Node(kind, left, et, b) ==
        LET Of(entries) == Ok([kind |-> kind, left |-> left, entries |-> entries])
        IN  AndThen(ReadAs(WVec(et), b), Of)
      Inner(b) ==
        LET Right(left) == Node(1, left, WTup(<<t, LocalT>>), Past(b, split))
        IN  IF Len(b) < split THEN Failed("eof")
            ELSE AndThen(ReadAs(LocalT, First(b, split)), Right)
      OfKind(b) ==
        CASE b = <<>> -> Failed("head")
          [] b # <<>> /\ Head(b) = 0 -> Node(0, <<>>, t, Tail(b))
          [] b # <<>> /\ Head(b) = 1 -> Inner(Tail(b))
          [] OTHER -> Failed("head")
  IN  AndThen(Headed(NodeHash, bytes), OfKind)

\* Lane::hash: the hash of a type's records, recency, dead or index lane. The
\* hash function is external; what the code relies on is that the lanes of all
\* types and the node hash differ.
Lanes == <<"records", "recency", "dead", "index">>
LaneHash(lane, hash) == Base * (CHOOSE i \in DOMAIN Lanes : Lanes[i] = lane) + hash

SegmentT(t) == WTup(<<WOpt(LocalT), WOpt(LocalT), WVec(WTup(<<SecKeyT, t>>))>>)

\* A sparse node <<kind, slots>>: slots and branches have one shape.
SlotT == WTup(<<SecKeyT, LocalT, InstantT>>)
SparseBytes(lane, node) == Le(lane, HashBytes) \o <<node[1]>> \o ToWire(WVec(SlotT), node[2])
SparseFrom(lane, bytes) ==
  LET Node(b) ==
        LET Of(slots) == Ok(<<Head(b), slots>>)
        IN  IF b = <<>> THEN Failed("head")
            ELSE IF Head(b) > 1 THEN Failed("head")
            ELSE AndThen(ReadAs(WVec(SlotT), Tail(b)), Of)
  IN  AndThen(Headed(lane, bytes), Node)

-----------------------------------------------------------------------------
\* External: crc32. What the files rely on is that a payload torn or partly
\* overwritten does not keep its checksum.
Crc(payload) ==
  (SumOf([i \in DOMAIN payload |-> payload[i] * (i * i + 3)]) + 37 * Len(payload)) % Base^CrcBytes

ToWireChecked(t, v) == LET p == ToWire(t, v) IN Le(Crc(p), CrcBytes) \o p

FromWireChecked(t, bytes) ==
  IF Len(bytes) < CrcBytes THEN Failed("eof")
  ELSE IF FromLe(First(bytes, CrcBytes)) # Crc(Past(bytes, CrcBytes)) THEN Failed("crc")
  ELSE FromWire(t, Past(bytes, CrcBytes))

\* A length before the checked bytes: pages, dictionaries, edit chunks and
\* journal frames.
Framed(t, v) == LET p == ToWireChecked(t, v) IN Le(Len(p), LenBytes) \o p

ReadFramed(t, bytes) ==
  IF Len(bytes) < LenBytes THEN Failed("eof")
  ELSE LET size == LenBytes + FromLe(First(bytes, LenBytes))
       IN  IF Len(bytes) < size THEN Failed("eof")
           ELSE FromWireChecked(t, SubSeq(bytes, LenBytes + 1, size))

DictionaryT == WBytes
SlotEditT == WTup(<<InstantT, WInt(1), WVec(WTup(<<WInt(1), InstantT>>)), WOpt(InstantT)>>)
EditChunkT == WTup(<<InstantT, WVec(SlotEditT)>>)
PageT == WTup(<<InstantT, WEnum(<< <<WBytes>>, <<WInt(1), WInt(1), WBytes>> >>)>>)

\* What a settle writes of a value: whole blocks, zeros behind the frame.
RunOf(bytes) ==
  LET blocks == (Len(bytes) + BlockSize - 1) \div BlockSize
  IN  Padded(bytes, blocks * BlockSize, 0)

Magic == <<23, 1, 22, 5>>
SuperblockT == WTup(<<WInt(1), WArr(2, InstantT)>>)
SuperblockBytes(seed) == RunOf(Magic \o ToWireChecked(SuperblockT, <<Version, seed>>))

\* The seed of a data.bin whose first block is block.
ReadSuperblock(block) ==
  IF Len(block) < BlockSize THEN Failed("bounds")
  ELSE IF First(block, Len(Magic)) # Magic THEN Failed("magic")
  ELSE LET size == Len(Magic) + CrcBytes + StackSize(SuperblockT)
           d == FromWireChecked(SuperblockT, SubSeq(block, Len(Magic) + 1, size))
       IN  IF d.err # "" THEN Failed("superblock")
           ELSE IF d.v[1][1] # Version THEN Failed("version")
           ELSE Ok(d.v[1][2])
=============================================================================
