------------------------------- MODULE Guards -------------------------------
(* The access policy of an MCP manifest (runtime/router.py McpAccessPolicy): *)
(* whom it admits, and what is left of it when a registration brings another. *)
(* A policy that is None and one with two empty lists admit everybody and are *)
(* one value here.                                                           *)
CONSTANTS Roles,   \* platform role names
          Groups   \* groups of the identity provider

Policy == [roles : SUBSET Roles, groups : SUBSET Groups]

Open == [roles |-> {}, groups |-> {}]

Restricted(a) == a.roles # {} \/ a.groups # {}

\* A caller who holds the roles `held` and shows the groups `shown`.
Allows(a, held, shown) ==
    \/ ~Restricted(a)
    \/ shown \cap a.groups # {}
    \/ held \cap a.roles # {}

\* Mutant: the lists are joined, as those of the fields are.
Widen(seeded, given) == seeded \cup given

\* A list is narrowed; one that would become empty stays as it is seeded.
Narrow(seeded, given) == IF seeded \cap given # {} THEN seeded \cap given ELSE seeded

MergeAccess(seeded, given) ==
    IF Restricted(seeded)
    THEN [roles  |-> Narrow(seeded.roles, given.roles),
          groups |-> Narrow(seeded.groups, given.groups)]
    ELSE given
=============================================================================
