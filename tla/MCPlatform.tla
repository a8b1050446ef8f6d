----------------------------- MODULE MCPlatform -----------------------------
(* The parts of Platform, each in the behaviours in which it alone moves: as  *)
(* they share no state, no other behaviour shows a part anything else.         *)
EXTENDS Platform, TLC

CONSTANTS acme, n1, n2, A, B, i1, i2,
          sso, k1, k2, licensed, q1, q2,
          a1, a2, t1, t2, mcp, U, W,
          look, write, erase,
          seeded, unseeded, other, r1, r2, g, f1, f2, AnA, AB, Plain

VARIABLES part

\* Key A under the first id, then B besides it, then B current, then A gone.
MCEnvironment(first, second, current) ==
    [ring |-> [i \in Ids |-> IF i = i1 THEN first ELSE second], current |-> current]

MCStages == <<MCEnvironment(A, NoKey, i1), MCEnvironment(A, B, i1),
              MCEnvironment(A, B, i2), MCEnvironment(NoKey, B, i2)>>

\* A license for one feature that runs out, with the marketplace behind it, and
\* one for everything without end.
MCLicense(signer, expires, features) ==
    [signer |-> signer, expires |-> expires, id |-> licensed, enterprise |-> TRUE,
     features |-> features]

MCEnvironments ==
    {[license |-> MCLicense(k1, 2, {sso}), ring |-> {k1}, revoked |-> {}, marketplace |-> TRUE],
     [license |-> MCLicense(k2, Perpetual, {}), ring |-> {k1, k2}, revoked |-> {},
      marketplace |-> FALSE]}

\* One session token under a key of the portal, one under the old secret.
MCSigner == t1 :> k1 @@ t2 :> Secret

MCExpires == t1 :> 9 @@ t2 :> 2

\* One MCP that the YAML files describe with a policy, a field and a tool, and
\* one that they do not; tools that make circles and diamonds.
MCIn(param, type, required) == [param |-> param, type |-> type, required |-> required]

MCTool(ins, outs) == [ins |-> ins, outs |-> outs, typed |-> TRUE, malformed |-> FALSE]

FromText == MCTool(<<MCIn("text", Plain, TRUE)>>, <<AnA>>)
AtoB == MCTool(<<MCIn("a", AnA, TRUE), MCIn("n", Plain, TRUE)>>, <<AB>>)
BtoA == MCTool(<<MCIn("b", AB, FALSE)>>, <<AnA, AB>>)
BrokenB == [MCTool(<<>>, <<AB>>) EXCEPT !.malformed = TRUE]

MCToolDefs == {FromText, AtoB, BtoA, BrokenB}

MCEntry(endpoint, roles, groups, pii, tool) ==
    [endpoint |-> endpoint, access |-> [roles |-> roles, groups |-> groups], pii |-> pii,
     tool |-> tool, stdio |-> tool = BrokenB]

MCOffers ==
    {MCEntry("safe", {r2}, {g}, {}, AtoB), MCEntry("none", {r1, r2}, {}, {f2}, BtoA),
     MCEntry("blocked", {}, {}, {}, BrokenB),
     MCEntry("blocked", {}, {}, {}, [MCTool(<<>>, <<>>) EXCEPT !.typed = FALSE])}

MCSeed == seeded :> MCEntry("yaml", {r1}, {}, {f1}, FromText) @@ unseeded :> [absent |-> TRUE]

MCFileOrder == <<seeded>>

Symmetry == Permutations({q1, q2}) \cup Permutations({a1, a2})

MCInit ==
    /\ part \in {"credentials", "licensing", "tokens", "agent", "registry"}
    /\ Init /\ L!Init /\ X!Init /\ G!Init /\ R!Init
    /\ part # "credentials" => creds = [c \in Tenants \X Names |-> NoRow]
    /\ part # "licensing" => env.marketplace
    /\ part # "tokens" => published = k1

licensingVars == <<now, env, file, aws, cache, heard, asking, lastTrue>>

tokenVars == <<clock, attempts, jwks, published, lastPublished, passed, issued>>

agentVars == <<doing, round, calls, failures, written, corrected, answer, applied, lost>>

registryVars == <<manifests, typed, owner, typedOwner, graph, declared, agents, imported,
                  registrations, exported>>

MCNext ==
    /\ UNCHANGED part
    /\ \/ /\ part = "credentials" /\ Next
          /\ UNCHANGED <<licensingVars, tokenVars, agentVars, registryVars>>
       \/ /\ part = "licensing" /\ L!Next
          /\ UNCHANGED <<vars, tokenVars, agentVars, registryVars>>
       \/ /\ part = "tokens" /\ X!Next
          /\ UNCHANGED <<vars, licensingVars, agentVars, registryVars>>
       \/ /\ part = "agent" /\ G!Next
          /\ UNCHANGED <<vars, licensingVars, tokenVars, registryVars>>
       \/ /\ part = "registry" /\ R!Next
          /\ UNCHANGED <<vars, licensingVars, tokenVars, agentVars>>

MCSpec == MCInit /\ [][MCNext]_<<part, vars, licensingVars, tokenVars, agentVars, registryVars>>
=============================================================================
