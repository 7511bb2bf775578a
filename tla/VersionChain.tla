--------------------------- MODULE VersionChain ---------------------------
(***************************************************************************)
(* Stored versions (wavedb-core/src: metadata.rs, mint.rs, record.rs,      *)
(* record_unique.rs).  The live version of a record sits at its anchor; a  *)
(* superseded one is archived at a slot derived from the instant it was    *)
(* authored, so links are bare instants.  All records of a type share the  *)
(* slots.                                                                  *)
(*                                                                         *)
(* A store is a record with the fields                                     *)
(*   anchor   id -> the live version, [meta, body]                         *)
(*   arch     instant -> the version archived there                        *)
(*   last     LAST, the static of mint_instant: lost with the process      *)
(* and those of Collection.  A body is <<natural key, field>>.             *)
(***************************************************************************)
EXTENDS Naturals, FiniteSets, Sequences, TLC

NoLink == 0
Missing == <<>>

Highest(instants) == CHOOSE m \in instants : \A i \in instants : i <= m

(* mint_instant: a clock reading, lifted above the floor and above what    *)
(* this process minted.                                                    *)
Mint(clock, last, floor) == Highest({clock, floor + 1, last + 1})

Created(previous, instant, removed) ==
    [previous |-> previous, instant |-> instant, removed |-> removed]

(* encode_record *)
Version(meta, body) == [meta |-> meta, body |-> body]

IsLive(version) == ~version.meta.removed

(* A plan's imposed metadata is a set of at most one. *)
Plan(floor, imposed, revives) ==
    [floor |-> floor, imposed |-> imposed, revives |-> revives]

(* The metadata of the new live version: imposed verbatim, or authored     *)
(* here.  Saving to a removed record leaves it removed unless the plan     *)
(* revives it.                                                             *)
LiveMeta(st, clock, id, plan) ==
    IF plan.imposed # {} THEN CHOOSE m \in plan.imposed : TRUE
    ELSE IF id \notin DOMAIN st.anchor
    THEN Created(NoLink, Mint(clock, st.last, plan.floor), FALSE)
    ELSE LET old == st.anchor[id].meta IN
         Created(old.instant,
                 Mint(clock, st.last, Highest({old.instant, plan.floor})),
                 ~plan.revives /\ old.removed)

(* The superseded version, its forward link stamped; skipped when it does  *)
(* not precede the imposed one.                                            *)
Archive(st, id, meta) ==
    IF id \in DOMAIN st.anchor /\ st.anchor[id].meta.instant < meta.instant
    THEN LET old == st.anchor[id] IN
         (old.meta.instant :> [previous |-> old.meta.previous, next |-> meta.instant,
                               removed |-> old.meta.removed, body |-> old.body]) @@ st.arch
    ELSE st.arch

(* plan_chained_save, its batch applied. *)
ChainedSave(st, clock, id, plan, body) ==
    LET meta == LiveMeta(st, clock, id, plan) IN
    [st EXCEPT !.arch = Archive(st, id, meta),
               !.anchor = (id :> Version(meta, body)) @@ st.anchor,
               !.last = IF plan.imposed = {} THEN meta.instant ELSE @]

(* history_stream: newest first along the previous links; a slot that is   *)
(* not there ends the walk with an error.                                  *)
History(st, id) ==
    LET older[t \in DOMAIN st.arch \cup {NoLink}] ==
            IF t = NoLink THEN <<>> ELSE <<st.arch[t].body>> \o
                (IF st.arch[t].previous \in DOMAIN older
                 THEN older[st.arch[t].previous] ELSE <<Missing>>)
        live == st.anchor[id]
    IN  <<live.body>> \o (IF live.meta.previous \in DOMAIN older
                          THEN older[live.meta.previous] ELSE <<Missing>>)

-----------------------------------------------------------------------------
(* A Unique record: one anchor per type and tenant, no floor. *)
UniqueAnchor == 0

GetUnique(st) ==
    IF UniqueAnchor \in DOMAIN st.anchor THEN <<st.anchor[UniqueAnchor].body>> ELSE <<>>

SaveUnique(st, clock, body) == ChainedSave(st, clock, UniqueAnchor, Plan(0, {}, FALSE), body)

(* adopt_unique *)
AdoptUnique(st, meta, body) ==
    IF UniqueAnchor \in DOMAIN st.anchor /\ st.anchor[UniqueAnchor] = Version(meta, body)
    THEN st
    ELSE ChainedSave(st, 0, UniqueAnchor, Plan(0, {meta}, FALSE), body)
=============================================================================
