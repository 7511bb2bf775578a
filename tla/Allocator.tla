----------------------------- MODULE Allocator -----------------------------
(***************************************************************************)
(* BlockAllocator (alloc.rs) as operators on a value: the free-space       *)
(* manager over data.bin's block array.  An allocator is a record          *)
(*    holes      the free extents (by_pos; by_size holds the same extents  *)
(*               ordered by size)                                          *)
(*    total      total_blocks, the file length in blocks                   *)
(*    protected  the newest checkpoint's runs                              *)
(*    previous   the runs of the checkpoint before it                      *)
(*    pending    frees deferred because their run was protected            *)
(***************************************************************************)
EXTENDS Integers, FiniteSets, FiniteSetsExt

Run(start, count) == [start |-> start, count |-> count]

End(run) == run.start + run.count

BlocksOf(run) == run.start .. End(run) - 1

BlocksOfAll(runs) == UNION {BlocksOf(r) : r \in runs}

(* BlockAllocator::new *)
NewAllocator ==
    [holes |-> {}, total |-> 0, protected |-> {}, previous |-> {}, pending |-> {}]

(* The extent with the largest start, among a non-empty set of extents. *)
Highest(runs) == CHOOSE r \in runs : \A o \in runs : o.start <= r.start

(* covers: only the last run starting before run's end can reach into it,  *)
(* because the runs of one generation never overlap.                       *)
Covers(generation, run) ==
    LET candidates == {g \in generation : g.start < End(run)} IN
    candidates # {} /\ End(Highest(candidates)) > run.start

IsProtected(a, run) == Covers(a.protected, run) \/ Covers(a.previous, run)

-----------------------------------------------------------------------------
(* alloc: the smallest hole that fits, the lowest of equals; else the file *)
(* grows at the tail.  Result: the run and the allocator after it.         *)
Alloc(a, count) ==
    LET fits == {h \in a.holes : h.count >= count}
        best == CHOOSE h \in fits : \A o \in fits :
                    \/ h.count < o.count
                    \/ h.count = o.count /\ h.start <= o.start
        rest == IF best.count > count
                THEN {Run(best.start + count, best.count - count)} ELSE {}
    IN  IF fits # {}
        THEN [run |-> Run(best.start, count),
              alloc |-> [a EXCEPT !.holes = (@ \ {best}) \cup rest]]
        ELSE [run |-> Run(a.total, count),
              alloc |-> [a EXCEPT !.total = @ + count]]

(* Mutant: the defragmenter's window is carved best fit. *)
AllocTailBestFit(a, count) == Alloc(a, count)

(* alloc_tail: never from an inner hole, but the trailing free extent is   *)
(* consumed first.                                                         *)
AllocTail(a, count) ==
    LET tail == Highest(a.holes)
        rest == IF tail.count > count
                THEN {Run(tail.start + count, tail.count - count)} ELSE {}
    IN  IF /\ a.holes # {}
           /\ End(tail) = a.total
           /\ ~IsProtected(a, Run(tail.start, Min({count, tail.count})))
        THEN [run |-> Run(tail.start, count),
              alloc |-> [a EXCEPT !.holes = (@ \ {tail}) \cup rest,
                                  !.total = IF tail.count > count THEN @
                                            ELSE tail.start + count]]
        ELSE [run |-> Run(a.total, count),
              alloc |-> [a EXCEPT !.total = @ + count]]

(* Mutant: a freed run is merged with the extent after it only. *)
FreeMergesAfter(a, run) ==
    LET after == {h \in a.holes : h.start = End(run)}
        whole == Run(run.start, Max({End(r) : r \in {run} \cup after}) - run.start)
    IN  IF run.count = 0 THEN a
        ELSE IF IsProtected(a, run)
        THEN [a EXCEPT !.pending = @ \cup {run}]
        ELSE [a EXCEPT !.holes = (@ \ after) \cup {whole}]

(* free: defer a protected run, else give it back, merged with the extents *)
(* that touch it.                                                          *)
Free(a, run) ==
    LET below == {h \in a.holes : h.start < run.start}
        before == IF below # {} /\ End(Highest(below)) = run.start
                  THEN {Highest(below)} ELSE {}
        after == {h \in a.holes : h.start = End(run)}
        merged == {run} \cup before \cup after
        lowest == Min({r.start : r \in merged})
        whole == Run(lowest, Max({End(r) : r \in merged}) - lowest)
    IN  IF run.count = 0 THEN a
        ELSE IF IsProtected(a, run)
        THEN [a EXCEPT !.pending = @ \cup {run}]
        ELSE [a EXCEPT !.holes = (@ \ (before \cup after)) \cup {whole}]

FreeAll(a, runs) ==
    FoldSet(LAMBDA run, acc : Free(acc, run), a, runs)

(* retry_pending: offer every deferred free again. *)
Retried(a) == FreeAll([a EXCEPT !.pending = {}], a.pending)

(* set_protected *)
Protecting(a, runs) ==
    Retried([a EXCEPT !.previous = a.protected,
                           !.protected = {r \in runs : r.count > 0}])

(* release_previous *)
WithoutPrevious(a) == Retried([a EXCEPT !.previous = {}])

(* from_layout: every gap between used runs is a free extent. *)
FromLayout(total, used) ==
    LET runs == {r \in used : r.count > 0}
        starts == {r.start : r \in runs} \cup {total}
        ends == {End(r) : r \in runs} \cup {0}
        Gap(e) == Run(e, Min({s \in starts : s >= e}) - e)
    IN  [NewAllocator EXCEPT
            !.total = total,
            !.holes = {h \in {Gap(e) : e \in {x \in ends : x <= total}} :
                           h.count > 0}]

(* free_neighbours: what would coalesce if run moved away. *)
FreeNeighbours(a, run) ==
    LET below == {h \in a.holes : h.start < run.start}
        after == {h \in a.holes : h.start = End(run)}
    IN  [before |-> IF below # {} /\ End(Highest(below)) = run.start
                    THEN Highest(below).count ELSE 0,
         after |-> IF after # {} THEN Highest(after).count ELSE 0]
=============================================================================
