------------------------------ MODULE Registry ------------------------------
(* The in-memory registry of MCP servers of one router (runtime/router.py): *)
(* what the YAML files seed, what registrations, external agents and        *)
(* imports put over it, and the guards (access policy, fields declared as    *)
(* personal data, endpoint) that the YAML declares and a registration keeps. *)
(*                                                                         *)
(* A manifest is its endpoint, its access policy (module Guards), its        *)
(* declared fields and its tool, which enters the type graph (module         *)
(* TypeGraph).  Endpoints are classes: the one of the YAML file, another that *)
(* the address check passes, one that it refuses, none; a stdio manifest is    *)
(* not checked.  The files that seed the registry are well-formed: a router   *)
(* does not start with one that is not.                                      *)
EXTENDS Guards, TypeGraph

CONSTANTS Tenants,   \* tenants that register and import
          Fields,    \* output fields that may be declared as personal data
          Seed,      \* the manifests of the YAML files: [Mcps -> Manifest \cup {Absent}]
          FileOrder, \* the order in which the files are read
          Offers,    \* the manifests that callers register
          MaxRegistrations \* bound: registrations, imports and restarts in a behaviour

System == "system"

Endpoints == {"yaml", "safe", "blocked", "none"}

Manifest == [endpoint : Endpoints, access : Policy, pii : SUBSET Fields,
             tool : ToolDefs \cup {NoTool}, stdio : BOOLEAN]

Absent == [absent |-> TRUE]

RegistryAssumption ==
    /\ TypeGraphAssumption
    /\ IsFiniteSet(Mcps)
    /\ System \notin Tenants
    /\ Seed \in [Mcps -> Manifest \cup {Absent}]
    /\ \A m \in Mcps : Seed[m] # Absent => /\ Seed[m].endpoint \in {"yaml", "none"}
                                          /\ ~Seed[m].tool.malformed
    /\ FileOrder \in Seq(Mcps)
    /\ ToSet(FileOrder) = {m \in Mcps : Seed[m] # Absent}
    /\ Offers \subseteq Manifest
    /\ MaxRegistrations \in Nat

VARIABLES manifests,    \* manifests: name -> manifest
          typed,        \* typed_manifests: name -> the raw manifest
          owner,        \* _registry_item_tenants["manifest:..."]
          typedOwner,   \* _registry_item_tenants["typed_manifest:..."]
          graph,        \* type_graph
          declared,     \* per name, the outputs of all its tools since the start
          agents,       \* external_agents: name -> tenant, or System for none
          file,         \* the last export of the registry, kept by a caller
          imported,     \* names whose manifest came with an import
          registrations \* registrations, imports and restarts so far

vars == <<manifests, typed, owner, typedOwner, graph, declared, agents, file, imported,
          registrations>>

Seeded == {m \in Mcps : Seed[m] # Absent}

NoFile == [tenant |-> System, manifests |-> [m \in Mcps |-> Absent],
           typed |-> [m \in Mcps |-> Absent]]

(***************************************************************************)
(* What a registration keeps of the YAML files.                             *)
(***************************************************************************)
MergeGuards(m, man) ==
    IF m \in Seeded
    THEN [man EXCEPT !.access = MergeAccess(Seed[m].access, @),
                     !.pii = Seed[m].pii \cup @]
    ELSE man

\* Where calls go: the address of the YAML file stays if it gives one.
EndpointSeeded(m) == m \in Seeded /\ Seed[m].endpoint # "none"

WithEndpoint(m, man) ==
    IF EndpointSeeded(m) THEN [man EXCEPT !.endpoint = Seed[m].endpoint] ELSE man

(***************************************************************************)
(* Start: the YAML files.                                                   *)
(***************************************************************************)
SeedTyped == [m \in Mcps |-> IF m \in Seeded /\ Seed[m].tool.typed THEN Seed[m] ELSE Absent]

\* The tools of manifests, entered into a graph one after the other.
WithManifests(gr, mans, order) ==
    FoldLeft(LAMBDA g, m : WithManifest(g, m, mans[m].tool), gr, order)

SeedGraph == WithManifests(EmptyGraph, Seed, FileOrder)

SeedDeclared == [m \in Mcps |-> IF m \in Seeded THEN ToSet(Seed[m].tool.outs) ELSE {}]

Init ==
    /\ manifests = Seed
    /\ typed = SeedTyped
    /\ owner = [m \in Mcps |-> System]
    /\ typedOwner = [m \in Mcps |-> System]
    /\ graph = SeedGraph
    /\ declared = SeedDeclared
    /\ agents = [m \in Mcps |-> System]
    /\ file = NoFile
    /\ imported = {}
    /\ registrations = 0

Counted == /\ registrations < MaxRegistrations
           /\ registrations' = registrations + 1

\* POST /manifests: the address of an MCP that no YAML file names is checked;
\* the raw manifest of an earlier typed registration stays as it was.
Register(t, m, man) ==
    /\ EndpointSeeded(m) \/ man.endpoint \notin {"blocked", "none"}
    /\ Counted
    /\ manifests' = [manifests EXCEPT ![m] = MergeGuards(m, WithEndpoint(m, man))]
    /\ owner' = [owner EXCEPT ![m] = t]
    /\ imported' = imported \ {m}
    /\ UNCHANGED <<typed, typedOwner, graph, declared, agents, file>>

\* POST /manifests/typed: an address may be missing, and one of a stdio server is
\* not checked; the raw manifest keeps the policy and the fields that were given,
\* and the effective address.  A malformed tool fails the request at the graph,
\* after everything else.
RegisterTyped(t, m, man) ==
    /\ EndpointSeeded(m) \/ man.endpoint # "blocked" \/ man.stdio
    /\ Counted
    /\ manifests' = [manifests EXCEPT ![m] = MergeGuards(m, WithEndpoint(m, man))]
    /\ typed' = [typed EXCEPT ![m] = WithEndpoint(m, man)]
    /\ owner' = [owner EXCEPT ![m] = t]
    /\ typedOwner' = [typedOwner EXCEPT ![m] = t]
    /\ graph' = WithManifest(graph, m, man.tool)
    /\ declared' = [declared EXCEPT ![m] = @ \cup ToSet(man.tool.outs)]
    /\ imported' = imported \ {m}
    /\ UNCHANGED <<agents, file>>

\* POST /external-agents: the names of agents ("agent:...") are never in the
\* YAML files; one that another tenant registered is refused.
RegisterAgent(t, m) ==
    /\ m \notin Seeded
    /\ owner[m] \in {System, t}
    /\ Counted
    /\ agents' = [agents EXCEPT ![m] = t]
    /\ manifests' = [manifests EXCEPT
                       ![m] = [endpoint |-> "safe", access |-> Open, pii |-> {},
                                       tool |-> NoTool, stdio |-> FALSE]]
    /\ owner' = [owner EXCEPT ![m] = t]
    /\ imported' = imported \ {m}
    /\ UNCHANGED <<typed, typedOwner, graph, declared, file>>

\* GET /registry/export: what the tenant owns.
Exported(t) ==
    [tenant    |-> t,
     manifests |-> [m \in Mcps |-> IF owner[m] = t THEN manifests[m] ELSE Absent],
     typed     |-> [m \in Mcps |-> IF t \in {owner[m], typedOwner[m]}
                                   THEN typed[m] ELSE Absent]]

Export(t) ==
    /\ file' = Exported(t)
    /\ UNCHANGED <<manifests, typed, owner, typedOwner, graph, declared, agents, imported, registrations>>

\* POST /registry/import without dry_run: the manifests, then the typed ones,
\* each put over what is there.  No guard of the YAML files is applied, and a
\* typed item brings neither policy nor fields.  They enter the graph in the
\* order of the file.  A typed item with a malformed tool fails there, before it
\* changes hands, and the next item is taken.
ImportedManifest(m) ==
    IF file.typed[m] # Absent
    THEN [file.typed[m] EXCEPT !.access = Open, !.pii = {}]
    ELSE IF file.manifests[m] # Absent THEN file.manifests[m] ELSE manifests[m]

Import ==
    LET ofTyped == {m \in Mcps : file.typed[m] # Absent}
        ofPlain == {m \in Mcps : file.manifests[m] # Absent}
        whole == {m \in ofTyped : ~file.typed[m].tool.malformed}
    IN  /\ file # NoFile
        /\ Counted
        /\ manifests' = [m \in Mcps |-> ImportedManifest(m)]
        /\ typed' = [m \in Mcps |-> IF m \in ofTyped THEN file.typed[m] ELSE typed[m]]
        /\ \E order \in SetToSeqs(ofTyped) :
              graph' = WithManifests(graph, file.typed, order)
        /\ declared' = [m \in Mcps |-> IF m \in ofTyped
                                      THEN declared[m] \cup ToSet(file.typed[m].tool.outs)
                                      ELSE declared[m]]
        /\ owner' = [m \in Mcps |-> IF m \in ofPlain \cup whole THEN file.tenant ELSE owner[m]]
        /\ typedOwner' = [m \in Mcps |-> IF m \in whole THEN file.tenant ELSE typedOwner[m]]
        /\ imported' = imported \cup ofPlain \cup ofTyped
        /\ UNCHANGED <<agents, file>>

\* The router starts again: the YAML files are all it knows.
Restart ==
    /\ Counted
    /\ manifests' = Seed
    /\ typed' = SeedTyped
    /\ graph' = SeedGraph
    /\ declared' = SeedDeclared
    /\ owner' = [m \in Mcps |-> System]
    /\ typedOwner' = [m \in Mcps |-> System]
    /\ agents' = [m \in Mcps |-> System]
    /\ imported' = {}
    /\ UNCHANGED file

Next ==
    \/ \E t \in Tenants, m \in Mcps :
          \/ \E man \in Offers : Register(t, m, man) \/ RegisterTyped(t, m, man)
          \/ RegisterAgent(t, m)
    \/ \E t \in Tenants : Export(t)
    \/ Import
    \/ Restart

Spec == Init /\ [][Next]_vars

(***************************************************************************)
(* What callers see.                                                        *)
(***************************************************************************)
\* _registry_item_visible, _assert_manifest_tenant_visibility.
Visible(m, t) == owner[m] \in {System, t}

\* GET /manifests/{name}: the raw manifest if there is one.
Shown(m, t) ==
    IF manifests[m] = Absent \/ ~Visible(m, t) THEN Absent
    ELSE IF typed[m] # Absent THEN typed[m] ELSE manifests[m]

\* The typed tool of the manifest that stands for m, its inputs and outputs.
Standing(m) == IF typed[m] = Absent THEN NoTool ELSE typed[m].tool

Ins(m) == ToSet(Standing(m).ins)

Outs(m) == ToSet(Standing(m).outs)

Malformed(m) == Standing(m).malformed

(***************************************************************************)
(* Properties.                                                              *)
(***************************************************************************)
TypeOK ==
    /\ manifests \in [Mcps -> Manifest \cup {Absent}]
    /\ typed \in [Mcps -> Manifest \cup {Absent}]
    /\ owner \in [Mcps -> Tenants \cup {System}]
    /\ typedOwner \in [Mcps -> Tenants \cup {System}]
    /\ graph \in [producers : [Types -> Seq(Mcps)],
                  inputs : [Mcps -> Seq(Input)]]
    /\ declared \in [Mcps -> SUBSET Types]
    /\ agents \in [Mcps -> Tenants \cup {System}]
    /\ file \in [tenant : Tenants \cup {System},
                 manifests : [Mcps -> Manifest \cup {Absent}],
                 typed : [Mcps -> Manifest \cup {Absent}]]
    /\ imported \in SUBSET Mcps
    /\ registrations \in 0 .. MaxRegistrations

\* What m's tools made once, and the one that stands does not.
Withdrawn(m) == declared[m] \ Outs(m)

\* The graph may hold a maker of s other than the tool that stands for it.
Contested(s) ==
    \E m \in Mcps : /\ s \in declared[m]
                    /\ s \in Withdrawn(m) \/ Malformed(m) \/ \E n \in Mcps \ {m} : s \in declared[n]

\* A chain as /capabilities shows it for t: each step's tool makes its type, or did
\* before its MCP was registered again, and every input that the tool takes as it
\* stands is primitive or made by an earlier step.
ChainFits(steps, t) ==
    /\ Last(steps).type = t
    /\ \A i \in DOMAIN steps :
          LET m == steps[i].tool
          IN  /\ steps[i].type \in Outs(m) \cup Withdrawn(m)
              /\ \A x \in Ins(m) : \/ Malformed(m) \/ x.type \in Prims
                                    \/ \E h \in 1 .. i - 1 : steps[h].type = x.type

\* Why a type is not shown: with others, it is only made from one another, where
\* the tools that stand are the ones that count.
NotToBeMade(ts) ==
    \A s \in ts : \/ Contested(s)
                  \/ \A m \in Mcps : s \in Outs(m) => \E x \in Ins(m) : x.type \in ts

\* However registrations, imports and restarts overwrite each other's tools, the
\* capabilities are those of the manifests that stand: the chains that are shown fit
\* them, a type whose makers nobody contests is missing only if it cannot be made,
\* and the inputs that are called required are all that a chain asks for.
CapabilitiesStand ==
    /\ \A t \in Capabilities(graph) : ChainFits(Resolve(graph, t, {}, FALSE).steps, t)
    /\ \A t \in (Types \ Prims) \ Capabilities(graph) :
          \E ts \in SUBSET (Types \ Prims) : t \in ts /\ NotToBeMade(ts)
    /\ RequiredSuffice(graph)

\* Whatever sequence of registrations, agents and restarts: an MCP that the
\* operator's YAML file describes is still called at the address of the file,
\* admits nobody whom the policy of the file refuses, and keeps every field of
\* the file redacted; only an import may change that (_merge_seeded_manifest_guards:
\* "can never drop or weaken what the operator declared").
GuardsStand ==
    \A m \in Seeded \ imported :
       /\ manifests[m] # Absent
       /\ EndpointSeeded(m) => manifests[m].endpoint = Seed[m].endpoint
       /\ Seed[m].pii \subseteq manifests[m].pii
       /\ \A held \in SUBSET Roles, shown \in SUBSET Groups :
             Allows(manifests[m].access, held, shown)
                => Allows(Seed[m].access, held, shown)
=============================================================================
