------------------------------ MODULE SlotPage ------------------------------
(***************************************************************************)
(* What data.bin holds besides free space: the page of one bucket          *)
(* (page.rs), the dictionary of one type (dictionary.rs) and the           *)
(* addressing chunks (edit.rs), each an image of some length in units, and *)
(* the blocks an image fills.                                              *)
(*                                                                         *)
(* A record's bytes are <<n, size>>: the n-th value written, size units    *)
(* long; <<>> is no record.  zstd halves a body; what it makes of one can  *)
(* only be undone with the dictionary bytes it was made with.              *)
(***************************************************************************)
EXTENDS Allocator, Sequences, TLC

CONSTANTS
    BlockUnits,   \* BLOCK_SIZE
    DictCap       \* DICT_CAP

Absent == <<>>

EMPTY == Run(0, 0)          \* BlockDescriptor::EMPTY

IsAllocated(desc) == desc.count # 0

(* blocks_of *)
BlocksFor(units) == (units + BlockUnits - 1) \div BlockUnits

Units(records) == MapThenSumSet(LAMBDA i : records[i][2], DOMAIN records)

-----------------------------------------------------------------------------
(* Dictionary::sample, unit by unit up to the cap. *)
Sample(buf, bytes) ==
    LET room == IF Len(buf) >= DictCap THEN 0 ELSE DictCap - Len(buf)
        take == Min({bytes[2], room})
    IN  buf \o [k \in 1 .. take |-> <<bytes[1], k>>]

(* Dictionary::to_bytes *)
DictImage(buf) == [kind |-> "dict", buf |-> buf, units |-> 1 + Len(buf)]

-----------------------------------------------------------------------------
(* SlotPage::to_bytes: a body zstd cannot shrink is stored as it is; one   *)
(* it can is bound to the dictionary's latest state.                       *)
ToBytes(t, records, buf, compress) ==
    LET body == Units(records)
        zstd == (body + 1) \div 2
    IN  IF compress /\ zstd < body
        THEN [kind |-> "page", type |-> t, records |-> records,
              bound |-> buf, state |-> Len(buf), units |-> 1 + zstd]
        ELSE [kind |-> "page", type |-> t, records |-> records,
              bound |-> <<>>, state |-> 0, units |-> 1 + body]

-----------------------------------------------------------------------------
(* An image laid over blocks: block k of it, from 0. *)
Cell(image, k) == [of |-> image, at |-> k]

Zero == [of |-> [kind |-> "zero", units |-> 0], at |-> 0]

(* The image at the head of some cells: what the length prefix and the crc *)
(* let through.  Everything else is Corrupt.                               *)
ImageIn(cells) ==
    LET image == cells[1].of
        need == BlocksFor(image.units)
    IN  IF /\ image.kind # "zero"
           /\ need <= Len(cells)
           /\ \A k \in 1 .. need : cells[k] = Cell(image, k - 1)
        THEN image ELSE Zero.of

(* SlotPage::from_bytes, for a page of type t: the dictionary must reach   *)
(* the state the page was compressed against, with the same bytes.         *)
Opens(image, t, buf) ==
    /\ image.kind = "page"
    /\ image.type = t
    /\ image.state <= Len(buf)
    /\ SubSeq(buf, 1, image.state) = image.bound

-----------------------------------------------------------------------------
(* The page cache over it (page_cache.rs) as operators on a value: the     *)
(* images of runs, as the file holds them, keyed by the run's first block. *)
(*    pages  start -> [count, cells]: the blocks of the run and its bytes  *)
(*    fifo   starts in the order of insertion; the ones invalidated since  *)
(*           are still there                                               *)
(*    blocks the bytes held, in blocks                                     *)

EmptyCache == [pages |-> <<>>, fifo |-> <<>>, blocks |-> 0]

(* drop_at *)
DropAt(c, start) ==
    IF start \notin DOMAIN c.pages THEN c
    ELSE [c EXCEPT !.pages = [s \in DOMAIN @ \ {start} |-> @[s]],
                   !.blocks = @ - Len(c.pages[start].cells)]

(* get: only the very run that was inserted. *)
Holds(c, run) ==
    run.start \in DOMAIN c.pages /\ c.pages[run.start].count = run.count

(* Evict oldest first until the budget is met. *)
Shrink(c, budget) ==
    LET drop[n \in 0 .. Len(c.fifo)] ==
            IF n = 0 THEN c
            ELSE LET before == drop[n - 1] IN
                 IF before.blocks <= budget THEN before
                 ELSE [DropAt(before, Head(before.fifo))
                          EXCEPT !.fifo = Tail(@)]
    IN  drop[Len(c.fifo)]

(* insert: an image larger than the budget is not held. *)
Insert(c, run, cells, budget) ==
    IF Len(cells) > budget THEN c
    ELSE LET room == DropAt(c, run.start) IN
         Shrink([pages |-> run.start :> [count |-> run.count, cells |-> cells]
                               @@ room.pages,
                 fifo |-> Append(room.fifo, run.start),
                 blocks |-> room.blocks + Len(cells)], budget)

(* invalidate: walk down from the run's end while the entries overlap it. *)
Invalidate(c, run) ==
    LET below == {s \in DOMAIN c.pages : s < End(run)}
        Overlaps(s) == s + c.pages[s].count > run.start
        doomed == {s \in below : \A o \in below : o >= s => Overlaps(o)}
    IN  FoldSet(LAMBDA start, acc : DropAt(acc, start), c, doomed)
=============================================================================
