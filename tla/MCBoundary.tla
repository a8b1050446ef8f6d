----------------------------- MODULE MCBoundary -----------------------------
(* A tool with declared fields, an external agent with a sealed token, a tool *)
(* whose calls want to be confirmed, one at an address that is refused, and a  *)
(* name that nobody registered.                                              *)
EXTENDS Boundary

CONSTANTS web, agent, ask, odd, gone, h1, h2, s1, s2

MCManifest ==
    [x \in Mcps |-> [transport |-> CASE x = agent -> "agent" [] x = odd -> "unsafe"
                                         [] x = gone -> "none" [] OTHER -> "http",
                     declares |-> x = web, auth |-> IF x = agent THEN {h2} ELSE {}, tenant |-> s1]]

MCRule == [x \in Mcps |-> IF x = ask THEN "require_confirm" ELSE "allow"]

MCOwner == [h \in Handles |-> s1]

At(mcp, hs, items, limit) == [mcp |-> mcp, sealed |-> hs, items |-> items, limit |-> limit]
One(mcp, hs) == At(mcp, hs, 1, 1)

MCPrograms ==
    { [kind |-> "call", steps |-> <<One(agent, {h1})>>],
      [kind |-> "call", steps |-> <<One(odd, {h1})>>],
      [kind |-> "pipeline", steps |-> <<One(web, {h1, h2})>>],
      [kind |-> "run", steps |-> <<One(ask, {})>>],
      [kind |-> "tool", steps |-> <<One(agent, {h1}), One(web, {h1})>>],
      [kind |-> "v2", steps |-> <<At(web, {h1}, 2, 1), One(gone, {})>>],
      [kind |-> "v2", steps |-> <<At(web, {}, 2, 2)>>] }

MCCallers == {[who |-> s1, allowed |-> TRUE], [who |-> s2, allowed |-> FALSE]}

MCHooks ==
    { [type |-> "manifest_pii_guard", phase |-> "post", mode |-> "redact", order |-> 10, blocks |-> TRUE],
      [type |-> "secrets_pii_guard", phase |-> "both", mode |-> "block", order |-> 50, blocks |-> TRUE],
      [type |-> "output_length_guard", phase |-> "post", mode |-> "truncate", order |-> 100,
       blocks |-> TRUE] }

MCAnswers ==
    { [shape |-> "list", has |-> {"declared", "long"}],
      [shape |-> "text", has |-> {"secret"}] }
=============================================================================
