------------------------------- MODULE Agent -------------------------------
(* One turn of the core agent, POST /ask of agent/server.py: a model chooses   *)
(* what to do, and the agent does it on the platform in the user's name.  The  *)
(* platform is reached through the router's /mcp (runtime/router_mcp.py) or    *)
(* its pipeline endpoints, and an answer of it may get lost.                    *)
EXTENDS Naturals, Sequences, FiniteSets

CONSTANTS Reads, Writes,  \* tool calls, each a tool and its (repaired) arguments: GET and others
          MaxSteps,       \* PLATFORM_MAX_STEPS
          MaxCalls        \* bound: tool calls in one message of the model

Calls == Reads \cup Writes

AgentAssumption ==
    /\ Reads \cap Writes = {}
    /\ MaxSteps \in Nat /\ MaxCalls \in Nat \ {0}

VARIABLES doing,      \* where the turn is
          round,      \* messages asked from the model in the loop
          calls,      \* tool calls of the last message, still to be made
          failures,   \* per call, how often it failed
          written,    \* write_results: the writes that were answered
          corrected,
          answer,     \* what the turn ended with
          applied,    \* on the platform: how often each write took effect
          lost        \* how many of those the agent never heard of

vars == <<doing, round, calls, failures, written, corrected, answer, applied, lost>>

NoAnswer == [kind |-> "none"]

Answer(kind, claims) == [kind |-> kind, claims |-> claims]

Kinds == {"text", "stopped", "step limit", "502", "none found", "not authored", "not deployed",
          "created", "created, run failed", "denied", "ran", "ran, steps failed"}

TypeOK ==
    /\ doing \in {"choosing", "looping", "calling", "authoring", "repairing", "deploying",
                  "first run", "running", "done"}
    /\ round \in 0 .. MaxSteps
    /\ calls \in Seq(Calls) /\ Len(calls) <= MaxCalls
    /\ failures \in [Calls -> 0 .. 2]
    /\ written \in SUBSET Writes
    /\ corrected \in BOOLEAN
    /\ answer \in {NoAnswer} \cup [kind : Kinds, claims : BOOLEAN]
    /\ applied \in [Writes -> Nat] /\ lost \in [Writes -> Nat]

Init ==
    /\ doing = "choosing"
    /\ round = 0
    /\ calls = <<>>
    /\ failures = [c \in Calls |-> 0]
    /\ written = {}
    /\ corrected = FALSE
    /\ answer = NoAnswer
    /\ applied = [w \in Writes |-> 0] /\ lost = [w \in Writes |-> 0]

Ends(kind, claims) ==
    /\ doing' = "done"
    /\ answer' = Answer(kind, claims)

(***************************************************************************)
(* run_platform_loop.                                                       *)
(***************************************************************************)
\* The model answers with tool calls.
ModelCalls(message) ==
    /\ doing = "looping" /\ round < MaxSteps
    /\ round' = round + 1
    /\ calls' = message
    /\ doing' = "calling"
    /\ UNCHANGED <<failures, written, corrected, answer, applied, lost>>

\* _answer_needs_correction: the text is empty, holds the markup of a call, or
\* claims a change although no write was answered in this turn.
NeedsCorrection(usable, claims) == ~usable \/ (claims /\ written = {})

Corrects(usable, claims) == NeedsCorrection(usable, claims) /\ ~corrected

\* The model answers with text.  usable: there is some, without markup of a
\* call; claims: it says that something was changed.
ModelAnswers(usable, claims) ==
    /\ doing = "looping" /\ round < MaxSteps
    /\ round' = round + 1
    /\ IF Corrects(usable, claims)
       THEN /\ corrected' = TRUE
            /\ UNCHANGED <<doing, answer>>
       ELSE /\ Ends("text", claims)
            /\ UNCHANGED corrected
    /\ UNCHANGED <<calls, failures, written, applied, lost>>

StepLimit ==
    /\ doing = "looping" /\ round = MaxSteps
    /\ Ends("step limit", FALSE)
    /\ UNCHANGED <<round, calls, failures, written, corrected, applied, lost>>

\* Mutant: only a write that failed before is kept from being made again.
RepeatsUnlessFailed(c) == c \in written /\ failures[c] > 0

\* A write that was answered in this turn: its answer is given once more.
Repeats(c) == c \in written

NextCall ==
    /\ calls' = Tail(calls)
    /\ doing' = IF Len(calls) = 1 THEN "looping" ELSE "calling"

Repeat ==
    /\ doing = "calling" /\ Repeats(calls[1])
    /\ NextCall
    /\ UNCHANGED <<round, failures, written, corrected, answer, applied, lost>>

\* The call takes effect on the platform (effect), and the agent hears that it
\* worked (heard).  A deploy that failed is heard to have worked: its stream of
\* progress is a 200.
TakesEffect(c, effect, heard) ==
    /\ applied' = IF c \in Writes /\ effect THEN [applied EXCEPT ![c] = @ + 1] ELSE applied
    /\ lost' = IF c \in Writes /\ effect /\ ~heard THEN [lost EXCEPT ![c] = @ + 1] ELSE lost

CallWorks(effect) ==
    /\ doing = "calling" /\ ~Repeats(calls[1])
    /\ written' = written \cup ({calls[1]} \cap Writes)
    /\ TakesEffect(calls[1], effect, TRUE)
    /\ NextCall
    /\ UNCHANGED <<round, failures, corrected, answer>>

\* isError, a JSON-RPC error, or no answer at all: the platform may have done
\* it all the same.  The second failure of a call ends the turn.
CallFails(effect) ==
    /\ doing = "calling" /\ ~Repeats(calls[1])
    /\ failures' = [failures EXCEPT ![calls[1]] = @ + 1]
    /\ TakesEffect(calls[1], effect, FALSE)
    /\ IF failures[calls[1]] = 1
       THEN /\ Ends("stopped", FALSE)
            /\ calls' = <<>>
       ELSE NextCall /\ UNCHANGED answer
    /\ UNCHANGED <<round, written, corrected>>

\* The model, /mcp at the start of the loop, or the router cannot be reached,
\* or there is no tool to author a pipeline from.
Unreachable ==
    /\ doing \in {"choosing", "looping", "authoring", "running"}
    /\ doing = "looping" => round < MaxSteps
    /\ Ends("502", FALSE)
    /\ UNCHANGED <<round, calls, failures, written, corrected, applied, lost>>

(***************************************************************************)
(* ask: the choice, authoring and running a pipeline.                       *)
(***************************************************************************)
\* llm_select_pipeline, and what becomes of its choice; nothing chosen, or no
\* pipeline to choose from, is the end (detect_pipeline knows no keywords).
Chooses ==
    /\ doing = "choosing"
    /\ \/ /\ doing' \in {"looping", "authoring", "running"}
          /\ UNCHANGED answer
       \/ Ends("none found", FALSE)
    /\ UNCHANGED <<round, calls, failures, written, corrected, applied, lost>>

\* author_pipeline: a definition, something that is nearly JSON, or neither.
Authored(next) ==
    /\ doing = "authoring"
    /\ doing' = next
    /\ UNCHANGED <<round, calls, failures, written, corrected, answer, applied, lost>>

NotAuthored ==
    /\ doing \in {"authoring", "repairing"}
    /\ Ends("not authored", FALSE)
    /\ UNCHANGED <<round, calls, failures, written, corrected, applied, lost>>

Repaired ==
    /\ doing = "repairing"
    /\ doing' = "deploying"
    /\ UNCHANGED <<round, calls, failures, written, corrected, answer, applied, lost>>

\* deploy_pipeline.
Deployed ==
    /\ doing = "deploying"
    /\ doing' = "first run"
    /\ UNCHANGED <<round, calls, failures, written, corrected, answer, applied, lost>>

NotDeployed ==
    /\ doing = "deploying"
    /\ Ends("not deployed", FALSE)
    /\ UNCHANGED <<round, calls, failures, written, corrected, applied, lost>>

\* The first run: that it came back is success, whatever its steps say.
FirstRun(cameBack) ==
    /\ doing = "first run"
    /\ Ends(IF cameBack THEN "created" ELSE "created, run failed", TRUE)
    /\ UNCHANGED <<round, calls, failures, written, corrected, applied, lost>>

\* run_pipeline through the endpoint that it was listed from; only a v2 run is
\* searched for steps that failed.
Run(result) ==
    /\ doing = "running"
    /\ Ends(result, FALSE)
    /\ UNCHANGED <<round, calls, failures, written, corrected, applied, lost>>

Messages == UNION {[1 .. n -> Calls] : n \in 1 .. MaxCalls}

Next ==
    \/ Chooses
    \/ \E message \in Messages : ModelCalls(message)
    \/ \E usable, claims \in BOOLEAN : ModelAnswers(usable, claims)
    \/ StepLimit
    \/ Repeat
    \/ \E effect \in BOOLEAN : CallWorks(effect) \/ CallFails(effect)
    \/ Unreachable
    \/ \E next \in {"repairing", "deploying"} : Authored(next)
    \/ NotAuthored
    \/ Repaired
    \/ Deployed
    \/ NotDeployed
    \/ \E cameBack \in BOOLEAN : FirstRun(cameBack)
    \/ \E result \in {"ran", "ran, steps failed", "denied"} : Run(result)

Spec == Init /\ [][Next]_vars

(***************************************************************************)
(* Properties.                                                              *)
(***************************************************************************)
\* A write takes effect again only when its answer was lost, and at most once
\* again (run_platform_loop: write_results, failures).
WritesOnce ==
    \A w \in Writes : applied[w] <= 1 + lost[w] /\ applied[w] <= 2

\* An answer that claims a change follows a write that was answered, unless the
\* model was told once before that it had changed nothing (run_platform_loop).
ClaimsAreEarned ==
    answer # NoAnswer /\ answer.kind = "text" /\ answer.claims => written # {} \/ corrected

\* A write that the user hears of was made as often as it should, however the
\* model repeats itself and whatever gets lost on the way.
TurnsAreSound == WritesOnce /\ ClaimsAreEarned
=============================================================================
