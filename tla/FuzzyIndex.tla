----------------------------- MODULE FuzzyIndex -----------------------------
(***************************************************************************)
(* A fuzzy index: its text half (wavedb-core, fuzzy/) and the posting tree *)
(* of one #[wavedb::fuzzy] field (collection_fuzzy.rs,                     *)
(* collection_fuzzy_read.rs).                                              *)
(*                                                                         *)
(* A text is a sequence of characters; a gram is a window of n characters  *)
(* of the padded text, Sentinel standing outside both ends; a posting key  *)
(* is a gram followed by the length of the text it was cut from.  Scores   *)
(* are fractions <<num, den>>.  A mode is ["distance", k, 1] or            *)
(* ["similarity" or "contains", num, den].  A posting is [field, rec]; the *)
(* tree is the set of its postings, which module BpTree justifies.  A      *)
(* profile is [n, fold].                                                   *)
(***************************************************************************)
EXTENDS Naturals, Sequences, SequencesExt, FiniteSets, FiniteSetsExt, TLC

CONSTANT LenMax  \* u8::MAX, the longest length a posting tells apart

(* char::to_lowercase and char::is_whitespace on the letters used here. *)
Lowercase(ch) == IF ch = "A" THEN "a" ELSE IF ch = "A'" THEN "a'" ELSE ch

IsWhitespace(ch) == ch \in {" ", "tab"}

(* The Latin fold: an accented letter to its base, a ligature to two       *)
(* letters, any other character to itself ("a'" stands for the accented    *)
(* letters, "ss" for the sharp s and the ligatures).                       *)
PushFolded(ch) ==
    CASE ch = "a'" -> <<"a">>
      [] ch = "ss" -> <<"s", "s">>
      [] OTHER -> <<ch>>

(* normalize: lowercase, then a run of white space between characters      *)
(* becomes one space, then the declared fold.                              *)
Normalize(input, fold) ==
    LET step(s, raw) ==
            LET ch == Lowercase(raw) IN
            IF IsWhitespace(ch) THEN [s EXCEPT !.gap = s.out # <<>>]
            ELSE [out |-> (IF s.gap THEN Append(s.out, " ") ELSE s.out)
                            \o (IF fold = "latin" THEN PushFolded(ch) ELSE <<ch>>),
                  gap |-> FALSE]
    IN FoldLeft(step, [out |-> <<>>, gap |-> FALSE], input).out

-----------------------------------------------------------------------------
Sentinel == ""

GramPrefixes(text, width) ==
    LET n == Max({width, 1})
        pad == [i \in 1 .. n - 1 |-> Sentinel]
        padded == pad \o text \o pad
    IN {SubSeq(padded, i, i + n - 1) : i \in 1 .. Len(padded) - n + 1}

SaturatingLen(len) == Min({len, LenMax})

FieldKey(prefix, len) == Append(prefix, SaturatingLen(len))

KeyLen(field) == Last(field)

AbsDiff(a, b) == IF a < b THEN b - a ELSE a - b

LengthGap(queryLen, stored) == AbsDiff(SaturatingLen(queryLen), Min({stored, LenMax}))

-----------------------------------------------------------------------------
Ceil(num, den) == (num + den - 1) \div den

(* How many of the query's total grams a candidate must share. *)
Threshold(mode, total, n) ==
    IF mode[1] = "distance" THEN IF total < n * mode[2] THEN 0 ELSE total - n * mode[2]
    ELSE Min({Max({Ceil(mode[2] * total, mode[3]), 1}), total})

AllowsLengthGap(mode, gap) == mode[1] = "distance" => gap <= mode[2]

Jaccard(a, b) ==
    LET shared == Cardinality(a \cap b)
        union == Cardinality(a) + Cardinality(b) - shared
    IN IF union = 0 THEN <<1, 1>> ELSE <<shared, union>>

Containment(query, record) ==
    IF query = {} THEN <<1, 1>> ELSE <<Cardinality(query \cap record), Cardinality(query)>>

(* One row of the banded table: prev is the row before, j its number, cb   *)
(* the character of the longer text; a cell out of the band is poisoned.   *)
NextRow(prev, j, a, cb, k, poison) ==
    LET sat(x) == Min({x, poison})
        lo == IF j < k THEN 0 ELSE j - k
        hi == Min({j + k, Len(a)})
        cur[i \in 0 .. Len(a)] ==
            IF i = 0 THEN j
            ELSE IF i < lo \/ i > hi THEN poison
            ELSE Min({sat(prev[i - 1] + IF a[i] = cb THEN 0 ELSE 1),
                      sat(prev[i] + 1), sat(cur[i - 1] + 1)})
    IN cur

(* levenshtein_within: <<d>> when the distance d is at most k, else <<>>.  *)
(* A row whose every cell is over k ends the search.                       *)
LevenshteinWithin(x, y, k) ==
    LET a == IF Len(x) <= Len(y) THEN x ELSE y
        b == IF Len(x) <= Len(y) THEN y ELSE x
        poison == Len(a) + Len(b) + k + 1
        rows[j \in 0 .. Len(b)] ==
            IF j = 0 THEN [i \in 0 .. Len(a) |-> i]
            ELSE IF rows[j - 1] = <<>> THEN <<>>
            ELSE LET cur == NextRow(rows[j - 1], j, a, b[j], k, poison)
                 IN IF \A i \in 0 .. Len(a) : cur[i] > k THEN <<>> ELSE cur
        last == rows[Len(b)]
    IN IF Len(b) - Len(a) > k \/ last = <<>> THEN <<>>
       ELSE IF last[Len(a)] <= k THEN <<last[Len(a)]>> ELSE <<>>

AtLeast(score, mode) == score[1] * mode[3] >= mode[2] * score[2]

(* score: the rank of a verified candidate, <<>> when it is no match.      *)
(* Smaller ranks are better in every mode.                                 *)
Score(record, query, mode, n) ==
    LET d == LevenshteinWithin(query, record, mode[2])
        s == IF mode[1] = "similarity"
             THEN Jaccard(GramPrefixes(query, n), GramPrefixes(record, n))
             ELSE Containment(GramPrefixes(query, n), GramPrefixes(record, n))
    IN IF mode[1] = "distance" THEN IF d = <<>> THEN <<>> ELSE <<d[1], 1>>
       ELSE IF AtLeast(s, mode) THEN <<s[2] - s[1], s[2]>> ELSE <<>>

-----------------------------------------------------------------------------
(* The posting tree *)

PostingKeys(profile, raw, rec) ==
    LET text == Normalize(raw, profile.fold)
    IN {[field |-> FieldKey(prefix, Len(text)), rec |-> rec] :
            prefix \in GramPrefixes(text, profile.n)}

PostInserts(postings, profile, raw, rec) == postings \cup PostingKeys(profile, raw, rec)

(* plan_fuzzy_moves comparing the grams only. *)
PostMovesByGram(postings, profile, old, new, rec) ==
    LET was == PostingKeys(profile, old, rec)
        now == PostingKeys(profile, new, rec)
        grams(keys) == {Front(p.field) : p \in keys}
    IN (postings \ {p \in was : Front(p.field) \notin grams(now)})
            \cup {p \in now : Front(p.field) \notin grams(was)}

(* plan_fuzzy_moves: only the symmetric difference of the two key sets. *)
PostMoves(postings, profile, old, new, rec) ==
    LET was == PostingKeys(profile, old, rec)
        now == PostingKeys(profile, new, rec)
    IN (postings \ (was \ now)) \cup (now \ was)

PostRemoves(postings, profile, raw, rec) == postings \ PostingKeys(profile, raw, rec)

-----------------------------------------------------------------------------
(* Steps 1 and 2 of a search: per record reached by a prefix scan, how     *)
(* many of the query's grams it was found under and the length it claims.  *)
Candidates(postings, grams) ==
    LET found(rec) == {p \in postings : p.rec = rec /\ Front(p.field) \in grams}
    IN [rec \in {p.rec : p \in {q \in postings : Front(q.field) \in grams}} |->
            [shared |-> Cardinality(found(rec)),
             len |-> KeyLen((CHOOSE p \in found(rec) : TRUE).field)]]

(* Steps 3 and 4. *)
Survivors(postings, profile, text, mode) ==
    LET grams == GramPrefixes(text, profile.n)
        seen == Candidates(postings, grams)
    IN {rec \in DOMAIN seen :
            /\ seen[rec].shared >= Threshold(mode, Cardinality(grams), profile.n)
            /\ AllowsLengthGap(mode, LengthGap(Len(text), seen[rec].len))}

(* The order of the hits: rank, then record. *)
Better(a, b) ==
    \/ a.rank[1] * b.rank[2] < b.rank[1] * a.rank[2]
    \/ a.rank[1] * b.rank[2] = b.rank[1] * a.rank[2] /\ a.rec < b.rec

(* fuzzy_search over the texts (raw, by record): survivors verified on     *)
(* their own bytes, ranked, cut at the limit.  A posting without a record  *)
(* is skipped.                                                             *)
FuzzySearch(postings, texts, profile, query, mode, limit) ==
    LET text == Normalize(query, profile.fold)
        score(rec) == Score(Normalize(texts[rec], profile.fold), text, mode, profile.n)
        found == Survivors(postings, profile, text, mode) \cap DOMAIN texts
        hits == {[rec |-> rec, rank |-> score(rec)] : rec \in {r \in found : score(r) # <<>>}}
        ranked == SetToSortSeq(hits, Better)
    IN SubSeq(ranked, 1, Min({limit, Len(ranked)}))
=============================================================================
