----------------------------- MODULE Deployment -----------------------------
(***************************************************************************)
(* Builds of one application over time: a node and a client, each running a *)
(* build, and the directory the node's builds share. A build is a sequence  *)
(* of registry entries. Nothing is migrated: a build finds what an earlier  *)
(* one left under a STRUCT_HASH it has itself.                              *)
(***************************************************************************)
EXTENDS Registry, FiniteSets

CONSTANTS
  Builds,      \* the builds that may be deployed
  MaxChanges,  \* bound: how often a node or a client changes its build
  MaxStored    \* bound: how many types the directory holds records of

VARIABLE deployment

\* A build compiles: every declaration is accepted and no two entries share an
\* identity.
Compiles(build) ==
  /\ \A i \in DOMAIN build : EntryParses(build[i]) /\ (build[i].kind # "fn" => Accepted(build[i].item))
  /\ IdentityErrors(build) = {}

\* expose_client! takes the wire-reachable entries, without overrides.
ClientSide(build) ==
  [i \in DOMAIN WireEntries(build) |-> [WireEntries(build)[i] EXCEPT !.overrides = <<>>]]

Releases == {b \in Builds : Compiles(b)}

NoDeployment == [node |-> <<>>, client |-> <<>>, disk |-> {}, changes |-> 0]

DeploymentInit ==
  \E b \in Releases : deployment = [NoDeployment EXCEPT !.node = b, !.client = ClientSide(b)]

\* The node restarts with another build, on the same directory.
DeployNode ==
  /\ deployment.changes < MaxChanges
  /\ \E b \in Releases : deployment' = [deployment EXCEPT !.node = b, !.changes = @ + 1]

\* A client of another build connects.
ReleaseClient ==
  /\ deployment.changes < MaxChanges
  /\ \E b \in Releases :
       deployment' = [deployment EXCEPT !.client = ClientSide(b), !.changes = @ + 1]

Left(d) == [slots |-> StorageEntries(d), layout |-> LayoutOf(d)]

\* Records of a type are written under its slots and its collection's roots.
WriteRecords(d) ==
  /\ Cardinality(deployment.disk \cup {Left(d)}) <= MaxStored
  /\ deployment' = [deployment EXCEPT !.disk = @ \cup {Left(d)}]

\* A client's typed call that the node runs and that writes.
ClientWrites ==
  \E i \in DOMAIN deployment.client : \E call \in ClientCalls(deployment.client[i]) :
    LET ran == Execute(deployment.node, "user", deployment.client[i].hash, call[1])
    IN  /\ deployment.client[i].kind # "fn"
        /\ call[1] \in {"save", "insert", "update"}
        /\ ran[1] = "runs" /\ Understands(ran[2], call[2])
        /\ WriteRecords(ArmOf(deployment.node, deployment.client[i].hash)[1].item)

\* A server function's body, or an override, reaches every stored type.
NodeWrites ==
  \E i \in DOMAIN StorageSlots(deployment.node) : WriteRecords(StorageSlots(deployment.node)[i].item)

DeploymentNext == DeployNode \/ ReleaseClient \/ ClientWrites \/ NodeWrites

-----------------------------------------------------------------------------
(* Properties.                                                              *)

\* What the directory holds in the slot with the identity hash.
Found(hash) == {left \in deployment.disk : \E slot \in left.slots : slot[1] = hash}
StoredTypes == {StorageSlots(deployment.node)[i].item : i \in DOMAIN StorageSlots(deployment.node)}

\* The capacity a list was declared with, or the struct's.
DeclaredPage(d, page) == IF page # <<>> THEN page[1] ELSE IF d.page # <<>> THEN d.page[1] ELSE DefaultPage

\* Two builds that agree on a type's identity agree on its bytes (struct_hash.rs,
\* declarations.rs take_declarations): whatever build wrote the records a node finds,
\* their bodies have the fields it decodes, in its order, its keys and pages, its slots
\* compress as it does, and every listed_by and fuzzy accessor reads a chain or
\* postings kept in the order, and with the capacity and profile, it is declared with.
StoredAsDeclared ==
  \A d \in StoredTypes : \A left \in Found(StructHash(d)) :
    LET was == left.layout
    IN  /\ was.wire = WireOf(d) /\ was.key = KeySource(d)
        /\ \A slot \in left.slots, own \in StorageEntries(d) : slot[1] = own[1] => slot[2] = own[2]
        /\ was.recency = DeclaredPage(d, <<>>)
        /\ \A i \in DOMAIN d.members :
             LET f == d.members[i]
             IN  /\ \A j \in DOMAIN f.lists :
                      was.lists[ListedBy(d, <<f.name>>)] = << << <<f.name, f.type>> >>, DeclaredPage(d, f.lists[j]) >>
                 /\ \A j \in DOMAIN f.fuzzy :
                      was.fuzzy[FuzzyBy(d, f.name)]
                        = <<f.name, Chosen(f.fuzzy[j][1], DefaultN), Chosen(f.fuzzy[j][2], "latin")>>
        /\ \A i \in DOMAIN d.lists :
             was.lists[ListedBy(d, d.lists[i].members)]
               = << [j \in DOMAIN d.lists[i].members |-> <<d.lists[i].members[j], TypeOf(d, d.lists[i].members[j])>>],
                    DeclaredPage(d, d.lists[i].page) >>

\* A client of one build never misreads a node of another (fn_identity.rs, expose.rs
\* execute): each typed call is refused, or runs a step that decodes the payload as
\* what was sent and answers with what the client decodes. A call between equal
\* builds is refused only where the registry, or the tier of the caller, says so.
MixedBuildsAgree ==
  \A i \in DOMAIN deployment.client : \A call \in ClientCalls(deployment.client[i]) :
    \A who \in {"user", "other", "anonymous"} :
      LET e == deployment.client[i]
          ran == Execute(deployment.node, who, e.hash, call[1])
      IN  /\ ran[1] = "runs" => Understands(ran[2], call[2]) /\ SameReply(ran[3], call[3])
          /\ who = "user" /\ deployment.client = ClientSide(deployment.node) /\ ran[1] = "UnknownStructHash"
               => \E j \in DOMAIN deployment.node :
                    /\ deployment.node[j].hash = e.hash
                    /\ call[1] \in DOMAIN deployment.node[j].overrides /\ deployment.node[j].overrides[call[1]] = <<>>
=============================================================================
