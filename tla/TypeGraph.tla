----------------------------- MODULE TypeGraph -----------------------------
(* The graph of which tool produces which type (runtime/router.py            *)
(* TypeGraph): what registrations leave in it and the chain that it resolves *)
(* for a wanted type, which /capabilities and the generated pipeline pages   *)
(* show.  An MCP has one typed tool here, named after it.                    *)
(* A malformed tool lacks the type of an output or an input: its outputs are  *)
(* those before the first that lacks one.                                    *)
EXTENDS Naturals, SequencesExt

CONSTANTS Mcps,    \* names of MCP servers
          Types, Prims, \* the type registry, and the primitive types in it
          ToolDefs   \* definitions of typed tools that manifests carry

NoTool == [ins |-> <<>>, outs |-> <<>>, typed |-> FALSE, malformed |-> FALSE]

\* An input names its parameter, its type, and whether it must be given.
Input == [param : STRING, type : Types, required : BOOLEAN]

TypeGraphAssumption ==
    /\ IsFiniteSet(Types) /\ Prims \subseteq Types
    /\ \A d \in ToolDefs : /\ d.typed /\ d.malformed \in BOOLEAN
                           /\ d.ins \in Seq(Input)
                           /\ d.outs \in Seq(Types)

\* producers and tool_inputs; no entry is no producer, and no inputs.
EmptyGraph == [producers |-> [t \in Types |-> <<>>], inputs |-> [m \in Mcps |-> <<>>]]

\* Producers are appended and never taken out.
WithProducer(producers, m, outs) ==
    [t \in Types |-> LET times == Cardinality({i \in DOMAIN outs : outs[i] = t})
                     IN  producers[t] \o [i \in 1 .. times |-> m]]

\* Mutant: the inputs of a tool that is in the graph already stay.
WithFirstInputs(gr, m, d) ==
    IF ~d.typed THEN gr
    ELSE [producers |-> WithProducer(gr.producers, m, d.outs),
          inputs    |-> IF gr.inputs[m] # <<>> THEN gr.inputs ELSE [gr.inputs EXCEPT ![m] = d.ins]]

\* register_manifest: the inputs are replaced, but for a malformed tool, which
\* raises before that; a tool that is only a name leaves no trace.
WithManifest(gr, m, d) ==
    IF ~d.typed THEN gr
    ELSE [producers |-> WithProducer(gr.producers, m, d.outs),
          inputs    |-> IF d.malformed THEN gr.inputs ELSE [gr.inputs EXCEPT ![m] = d.ins]]

(***************************************************************************)
(* Resolving.                                                               *)
(***************************************************************************)
Broken == [ok |-> FALSE, steps |-> <<>>]

Given == [ok |-> TRUE, steps |-> <<>>]

\* The inputs that another tool has to produce.
Upstream(ins) == {i \in DOMAIN ins : ins[i].type \notin Prims}

MissesInput(ins, given) ==
    \E i \in DOMAIN ins : LET x == ins[i]
                          IN  x.type \in Prims /\ x.required /\ x.param \notin given

\* _resolve_type: the first producer, its upstream inputs before it; a type
\* that is being resolved already breaks the chain.
Resolve(gr, goal, given, strict) ==
    LET chain[p \in (SUBSET Types) \X Types] ==
          LET t == p[2]
              m == Head(gr.producers[t])
              ins == gr.inputs[m]
              subs == [i \in DOMAIN ins |-> IF i \in Upstream(ins)
                                           THEN chain[<<p[1] \cup {t}, ins[i].type>>]
                                           ELSE Given]
          IN  IF t \in Prims THEN Given
              ELSE IF \/ t \in p[1] \/ gr.producers[t] = <<>>
                      \/ strict /\ MissesInput(ins, given)
                      \/ \E i \in DOMAIN subs : ~subs[i].ok
              THEN Broken
              ELSE [ok |-> TRUE,
                    steps |-> Append(FlattenSeq([i \in DOMAIN subs |-> subs[i].steps]),
                                     [tool |-> m, type |-> t])]
    IN  chain[<<{}, goal>>]

\* Mutant: what the last tool needs.
RequiredOfLast(gr, steps) ==
    {x.param : x \in {y \in ToSet(gr.inputs[Last(steps).tool]) :
                        y.type \in Prims /\ y.required}}

\* _get_required_inputs.
RequiredInputs(gr, steps) ==
    {x.param : x \in {y \in UNION {ToSet(gr.inputs[steps[i].tool]) : i \in DOMAIN steps} :
                        y.type \in Prims /\ y.required}}

\* list_capabilities: the producible types and their chains.
Capabilities(gr) ==
    {t \in Types \ Prims : gr.producers[t] # <<>> /\ Resolve(gr, t, {}, FALSE).ok}

\* The inputs that are shown as required with a type make the strict search find
\* the chain that is shown.
RequiredSuffice(gr) ==
    \A t \in Capabilities(gr) :
       LET steps == Resolve(gr, t, {}, FALSE).steps
       IN  Resolve(gr, t, RequiredInputs(gr, steps), TRUE) = [ok |-> TRUE, steps |-> steps]
=============================================================================
