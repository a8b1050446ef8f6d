------------------------------- MODULE Hooks -------------------------------
(* The hooks that every tool call passes through (runtime/policy_hooks.py):  *)
(* their order, what each decides about a value and what a blocked or cut     *)
(* value becomes.  A value is its shape and what is in it; the text of it is   *)
(* left out.                                                                 *)
EXTENDS Naturals, FiniteSets, SequencesExt

CONSTANT HookConfig \* the configured hooks, the built-in one included

Types == {"manifest_pii_guard", "secrets_pii_guard", "output_length_guard"}

Hook == [type : Types, phase : {"pre", "post", "both"}, mode : {"redact", "block", "truncate"},
         order : Nat, blocks : BOOLEAN]

\* What may be found in a value: a field that the manifest declares as
\* personal, a secret or an address, more text than the limit.
Contents == {"declared", "secret", "long"}

Value == [shape : {"dict", "list", "text"}, has : SUBSET Contents]

ASSUME HooksAssumption ==
    /\ HookConfig \subseteq Hook /\ IsFiniteSet(HookConfig)
    /\ \A h1, h2 \in HookConfig : h1.order = h2.order => h1 = h2

\* _hooks_for.
HooksOf(phase) == {h \in HookConfig : h.phase \in {phase, "both"}}

\* Mutant: the hook with the highest order comes first.
BackToFront(phase) ==
    CHOOSE s \in [1 .. Cardinality(HooksOf(phase)) -> HooksOf(phase)] :
        \A i, j \in DOMAIN s : i < j => s[i].order > s[j].order

\* HookManager.__post_init__: all of them, each once, by their order.
InOrder(phase) ==
    CHOOSE s \in [1 .. Cardinality(HooksOf(phase)) -> HooksOf(phase)] :
        \A i, j \in DOMAIN s : i < j => s[i].order < s[j].order

\* _truncate_result: the strings of a dict are cut in place, anything else
\* becomes the first part of its text.
Truncated(v) == [v EXCEPT !.shape = IF @ = "dict" THEN "dict" ELSE "text",
                          !.has = @ \ {"long"}]

\* What the hook h makes of the value v of a call with declared fields or
\* without; fields are found by their paths, which a text does not have.
Decide(h, phase, declares, v) ==
    CASE h.type = "manifest_pii_guard" /\ phase = "post" /\ declares /\ v.shape # "text" ->
           [act |-> "redact", value |-> [v EXCEPT !.has = @ \ {"declared"}]]
      [] h.type = "secrets_pii_guard" /\ "secret" \in v.has ->
           [act |-> IF h.mode = "block" THEN "block" ELSE "redact",
            value |-> [v EXCEPT !.has = @ \ {"secret"}]]
      [] h.type = "output_length_guard" /\ phase = "post" /\ "long" \in v.has ->
           [act |-> IF h.mode = "truncate" THEN "redact" ELSE "block",
            value |-> Truncated(v)]
      [] OTHER -> [act |-> "allow", value |-> v]

\* run_pre_call and run_post_call: each hook of the phase leaves an event; one
\* that blocks ends it, unless it only reports.
RunHooks(phase, declares, v) ==
    FoldLeft(LAMBDA r, h :
               LET d == Decide(h, phase, declares, r.value)
               IN  IF r.denied THEN r
                   ELSE [value  |-> IF d.act = "block" THEN r.value ELSE d.value,
                         events |-> r.events + 1,
                         denied |-> d.act = "block" /\ h.blocks],
             [value |-> v, events |-> 0, denied |-> FALSE],
             InOrder(phase))
=============================================================================
