------------------------------ MODULE IdStreams ------------------------------
(***************************************************************************)
(* Set algebra over id streams (index/stream.rs).  A source is the         *)
(* sequence of what its polls return: an id, Pending when it has to wait   *)
(* and Fault when the store fails; past its end every poll returns None.   *)
(* An adapter is                                                           *)
(*   op                       "intersect", "except" or "union"             *)
(*   left, right              what is left of its two sources              *)
(*   ready, buffered          whether the right side is collected, and it  *)
(*   seen, leftDone           the union's memory                           *)
(*   out                      what its own polls have returned so far      *)
(***************************************************************************)
EXTENDS Naturals, Sequences, SequencesExt, FiniteSets

Pending == 0

Fault == 90

None == 91

Adapter(op, left, right) ==
    [op |-> op, left |-> left, right |-> right, ready |-> FALSE, buffered |-> {},
     seen |-> {}, leftDone |-> FALSE, out |-> <<>>]

Peek(s, i) == IF i > Len(s) THEN None ELSE s[i]

IsId(x) == x \notin {Pending, Fault, None}

(* The first poll of a source, from the i-th on, that is not an id         *)
(* rejected by the test.                                                   *)
FirstOther(s, accepted) ==
    CHOOSE i \in 1 .. Len(s) + 1 :
        /\ IsId(Peek(s, i)) => s[i] \in accepted
        /\ \A j \in 1 .. i - 1 : IsId(s[j]) /\ s[j] \notin accepted

Rest(s, i) == SubSeq(s, i + 1, Len(s))

(* One poll of the left side, dropping the ids the test rejects. *)
PollLeft(a, accepted) ==
    LET i == FirstOther(a.left, accepted)
    IN [a EXCEPT !.left = Rest(@, i), !.out = Append(@, Peek(a.left, i))]

(* drain_into: collects ids until the source waits, fails or ends. *)
DrainInto(s) ==
    LET i == FirstOther(s, {}) IN
    [res |-> Peek(s, i), rest |-> Rest(s, i), set |-> ToSet(SubSeq(s, 1, i - 1))]

(* A buffered adapter: the right side is drained into a set of this poll,  *)
(* kept only if the drain came to its end, before the left is polled.      *)
PollBuffered(a) ==
    LET d == DrainInto(a.right)
        ready == a.ready \/ d.res = None
        set == IF a.ready THEN a.buffered ELSE d.set
        kept == IF a.op = "intersect" THEN set ELSE {x \in ToSet(a.left) : x \notin set}
        drained == IF a.ready THEN a
                   ELSE [a EXCEPT !.right = d.rest, !.ready = d.res = None,
                                  !.buffered = IF d.res = None THEN d.set ELSE {}]
    IN IF ready THEN PollLeft(drained, kept)
       ELSE [drained EXCEPT !.out = Append(@, d.res)]

(* Union: the left until it ends, then the right, ids seen once. *)
PollUnion(a) ==
    LET fresh(s) == ToSet(s) \ a.seen
        i == FirstOther(a.left, fresh(a.left))
        x == Peek(a.left, i)
        j == FirstOther(a.right, fresh(a.right))
        y == Peek(a.right, j)
        note(z) == IF IsId(z) THEN a.seen \cup {z} ELSE a.seen
    IN IF ~a.leftDone /\ x # None
       THEN [a EXCEPT !.left = Rest(@, i), !.seen = note(x), !.out = Append(@, x)]
       ELSE [a EXCEPT !.left = <<>>, !.leftDone = TRUE, !.right = Rest(@, j),
                      !.seen = note(y), !.out = Append(@, y)]

PollNext(a) == IF a.op = "union" THEN PollUnion(a) ELSE PollBuffered(a)

Ended(a) == a.out # <<>> /\ Last(a.out) \in {None, Fault}

=============================================================================
