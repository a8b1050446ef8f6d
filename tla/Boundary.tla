------------------------------ MODULE Boundary ------------------------------
(* Requests that run tools through one router (runtime/router.py): /call,    *)
(* /pipeline, named pipelines as a run and as a tool, and v2 pipelines, whose *)
(* foreach steps have several calls in flight.  Each call resolves its sealed *)
(* handles, passes the hooks (module Hooks), is sent and comes back; an       *)
(* external agent is called on a way of its own.                             *)
(*                                                                         *)
(* One action is what runs between two awaits.  Whether a user may use an     *)
(* MCP is settled by module Access; here a request is allowed or it is not.   *)
EXTENDS Hooks, FiniteSets

CONSTANTS MaxRequests, \* requests are numbered as they come
          Mcps, Handles,
          Subjects,  \* who asks: a tenant and its subject
          Manifest,  \* what is registered: [Mcps -> Registered]
          Rule,      \* the first matching rule: [Mcps -> {"allow", "deny", "require_confirm"}]
          Owner,     \* who sealed a handle: [Handles -> Subjects]
          Telling,   \* handles whose plaintext looks like a secret to the hooks
          Programs,  \* what may be asked for
          Callers,   \* by whom, and whether they may use its MCPs
          Answers    \* values that tools answer with

\* Transport "none" stands for a name that is not registered, "unsafe" for one
\* whose address the check before each call refuses; `auth` is the handle of an
\* external agent, `tenant` who registered it.
Registered == [transport : {"http", "unsafe", "agent", "none"}, declares : BOOLEAN,
               auth : SUBSET Handles, tenant : Subjects]

\* A step names an MCP, the handles in its inputs, the items of its foreach
\* (no foreach: one) and how many of them may be in flight.
Step == [mcp : Mcps, sealed : SUBSET Handles, items : Nat, limit : Nat]

Program == [kind : {"call", "pipeline", "run", "tool", "v2"}, steps : Seq(Step)]

ASSUME BoundaryAssumption ==
    /\ Manifest \in [Mcps -> Registered]
    /\ Rule \in [Mcps -> {"allow", "deny", "require_confirm"}]
    /\ Owner \in [Handles -> Subjects]
    /\ Telling \subseteq Handles
    /\ \A p \in Programs :
          /\ p \in Program /\ p.steps # <<>>
          /\ p.kind = "call" => Len(p.steps) = 1
          /\ \A s \in DOMAIN p.steps : p.kind # "v2" => p.steps[s].items = 1
          /\ \A s \in DOMAIN p.steps : p.steps[s].limit > 0
          /\ \A s \in DOMAIN p.steps :
                p.kind \in {"run", "tool"} => p.steps[s].sealed = p.steps[1].sealed
    /\ Callers \subseteq [who : Subjects, allowed : BOOLEAN]
    /\ Answers \subseteq Value
    /\ MaxRequests \in Nat

Requests == 1 .. MaxRequests

VARIABLES req,       \* the requests
          outs,      \* what came of the items of the step a request is at
          sealed,    \* the rows of sealed_handles
          events,    \* audit_events: the call that appended each, until it is handed on
          delivered  \* per handle, the calls that carried its plaintext

vars == <<req, outs, sealed, events, delivered>>

NoProgram == [kind |-> "call", steps |-> <<>>]

\* An event that was handed to _write_audit_event, whose INSERT takes or is lost
\* with a warning (module AuditChain).
Handed == <<>>

\* Nothing yet, under way since so many events, and what it can end with.
Waiting == [state |-> "waiting"]
Sent(since, agent) == [state |-> "sent", since |-> since, agent |-> agent]
Ok(v, came) == [state |-> "ok", value |-> v, came |-> came]
Failed == [state |-> "error"]

StepOf(q) == req[q].prog.steps[req[q].step]

Of(q, state) == {i \in DOMAIN outs[q] : outs[q][i].state = state}

Ended == {"idle", "done", "failed"}

Init ==
    /\ req = [q \in Requests |-> [pc |-> "idle", prog |-> NoProgram, who |-> CHOOSE s \in Subjects : TRUE,
                                  allowed |-> FALSE, step |-> 0]]
    /\ outs = [q \in Requests |-> <<>>]
    /\ sealed = [h \in Handles |-> "none"]
    /\ events = <<>>
    /\ delivered = [h \in Handles |-> {}]

(***************************************************************************)
(* Sealed handles.                                                          *)
(***************************************************************************)
\* POST /sealed, and the end of a handle that was not used: DELETE, expiry.
Seal(h) ==
    /\ sealed[h] = "none"
    /\ sealed' = [sealed EXCEPT ![h] = "fresh"]
    /\ UNCHANGED <<req, outs, events, delivered>>

Invalidate(h) ==
    /\ sealed[h] = "fresh"
    /\ sealed' = [sealed EXCEPT ![h] = "gone"]
    /\ UNCHANGED <<req, outs, events, delivered>>

\* Mutant: the UPDATE does not ask whether the row is used.
ResolvableEvenUsed(h, who) == sealed[h] \in {"fresh", "used"} /\ Owner[h] = who

\* The WHERE of the UPDATE in _resolve_handle_from_db.
Resolvable(h, who) == sealed[h] = "fresh" /\ Owner[h] = who

\* What resolving the handles hs for `who` yields, and the rows it leaves; a
\* value that does not decrypt is used up all the same.
Opened(hs, who, broken) == {h \in hs : Resolvable(h, who)} \ broken

SealedAfter(hs, who) == [h \in Handles |-> IF h \in hs /\ Resolvable(h, who) THEN "used"
                                           ELSE sealed[h]]

Delivers(hs, call) == [h \in Handles |-> IF h \in hs THEN delivered[h] \cup {call}
                                         ELSE delivered[h]]

(***************************************************************************)
(* Requests.                                                                *)
(***************************************************************************)
\* The request is answered, and what it held is gone.
EndsAs(q, pc) ==
    /\ req' = [req EXCEPT ![q] = [@ EXCEPT !.pc = pc, !.prog = NoProgram, !.step = 0]]
    /\ outs' = [outs EXCEPT ![q] = <<>>]

\* The checks before the first step.  /call looks up its MCP first and leaves
\* an external agent to the agent's own checks; a named pipeline that is
\* called as a tool is not checked stage by stage.
Checked(p) ==
    \/ p.kind \in {"pipeline", "run", "v2"}
    \/ p.kind = "call" /\ Manifest[p.steps[1].mcp].transport # "agent"

Enter(p, s) == [i \in 1 .. p.steps[s].items |-> Waiting]

Begin(q, p, caller) ==
    /\ req[q].pc = "idle"
    /\ \A r \in 1 .. q - 1 : req[r].pc # "idle"
    /\ IF Checked(p) /\ ~caller.allowed THEN EndsAs(q, "failed")
       ELSE /\ req' = [req EXCEPT ![q] = [pc |-> "running", prog |-> p, step |-> 1,
                                          who |-> caller.who, allowed |-> caller.allowed]]
            /\ outs' = [outs EXCEPT ![q] = Enter(p, 1)]
    /\ UNCHANGED <<sealed, events, delivered>>

\* Mutant: a call that ends with an error leaves before anything is written.
HandedUnlessError(since, evs) ==
    [e \in DOMAIN evs |-> IF e > since /\ evs # events THEN Handed ELSE evs[e]]

\* _write_runtime_hook_audit_events when a call ends: all events from its
\* beginning on are written to the table, those of other calls included.
Written(since, evs) == [e \in DOMAIN evs |-> IF e > since THEN Handed ELSE evs[e]]

Appended(q, i, n) == events \o [j \in 1 .. n |-> <<q, req[q].step, i>>]

Fails(q) == EndsAs(q, "failed")

Becomes(q, i, out) ==
    /\ outs' = [outs EXCEPT ![q][i] = out]
    /\ UNCHANGED req

\* The items of a step start in their order, as many as the semaphore lets
\* (one without foreach).
Next1(q) == CHOOSE i \in Of(q, "waiting") : \A j \in Of(q, "waiting") : i <= j

\* Mutant: the semaphore counts the item that asks as one in flight.
MayStartBelow(q) ==
    /\ req[q].pc = "running"
    /\ Of(q, "waiting") # {}
    /\ Cardinality(Of(q, "sent")) + 1 < StepOf(q).limit

MayStart(q) ==
    /\ req[q].pc = "running"
    /\ Of(q, "waiting") # {}
    /\ Cardinality(Of(q, "sent")) < StepOf(q).limit

\* An unknown MCP: an error among the results of a v2 step, the end of any
\* other request.
StartUnknown(q) ==
    /\ MayStart(q)
    /\ Manifest[StepOf(q).mcp].transport = "none"
    /\ IF req[q].prog.kind = "v2" THEN Becomes(q, Next1(q), Failed) ELSE Fails(q)
    /\ UNCHANGED <<sealed, events, delivered>>

\* The rules are asked by every engine but the v2 one.
Permitted(q) == Rule[StepOf(q).mcp] = "allow" \/ req[q].prog.kind = "v2"

StartDenied(q) ==
    /\ MayStart(q)
    /\ Manifest[StepOf(q).mcp].transport # "none"
    /\ ~Permitted(q)
    /\ Manifest[StepOf(q).mcp].transport = "agent" => req[q].prog.kind # "call"
    /\ Fails(q)
    /\ UNCHANGED <<sealed, events, delivered>>

\* The hooks before a call, on inputs with what looks like a secret or without,
\* and after it.
PreHooks == [telling \in BOOLEAN |->
               RunHooks("pre", FALSE, [shape |-> "dict",
                                       has |-> IF telling THEN {"secret"} ELSE {}])]

PostHooks == [declares \in BOOLEAN |->
               [answer \in Answers |-> RunHooks("post", declares, answer)]]

\* _execute_mcp_tool up to its first await: handles, the hooks before the call,
\* the check of the address, the POST.  What a hook or the check refuses ends
\* the request, but for a v2 step.  v2 engines hand the references on as they
\* are, also to an MCP that is an external agent.
StartTool(q, broken) ==
    LET i == Next1(q)
        v2 == req[q].prog.kind = "v2"
        hs == IF v2 THEN {} ELSE StepOf(q).sealed
        open == Opened(hs, req[q].who, broken)
        pre == PreHooks[open \cap Telling # {}]
        evs == Appended(q, i, pre.events)
        refused == pre.denied \/ Manifest[StepOf(q).mcp].transport = "unsafe"
    IN  /\ MayStart(q)
        /\ \/ Manifest[StepOf(q).mcp].transport \in {"http", "unsafe"}
           \/ v2 /\ Manifest[StepOf(q).mcp].transport = "agent"
        /\ Permitted(q)
        /\ broken \subseteq hs
        /\ sealed' = SealedAfter(hs, req[q].who)
        /\ IF refused
           THEN /\ events' = Written(Len(events), evs)
                /\ IF v2 THEN Becomes(q, i, Failed) ELSE Fails(q)
                /\ UNCHANGED delivered
           ELSE /\ events' = evs
                /\ Becomes(q, i, Sent(Len(events), FALSE))
                /\ delivered' = Delivers(IF "secret" \in pre.value.has THEN open
                                         ELSE open \ Telling, <<q, req[q].step>>)

\* _invoke_external_agent up to its POST.  The inputs' handles are resolved
\* before it, but not by /call; its own handle is resolved for every
\* call.  A refusal ends a /call, and a named pipeline unless it is the rate
\* limit's.
StartAgent(q, broken, limited) ==
    LET m == Manifest[StepOf(q).mcp]
        who == req[q].who
        kind == req[q].prog.kind
        inputs == IF kind = "call" THEN {} ELSE StepOf(q).sealed
        mine == req[q].allowed /\ m.tenant = who
        asked == IF mine /\ Rule[StepOf(q).mcp] = "allow" /\ ~limited THEN m.auth ELSE {}
        open == Opened(inputs \cup asked, who, broken)
        goes == mine /\ Rule[StepOf(q).mcp] = "allow" /\ ~limited /\ asked \subseteq open
    IN  /\ MayStart(q)
        /\ kind # "v2" /\ m.transport = "agent"
        /\ kind = "call" \/ Permitted(q)
        /\ broken \subseteq inputs \cup asked
        /\ sealed' = SealedAfter(inputs \cup asked, who)
        /\ IF goes THEN /\ Becomes(q, 1, Sent(Len(events), TRUE))
                        /\ delivered' = Delivers(open, <<q, req[q].step>>)
           ELSE /\ IF kind = "call" \/ (kind # "pipeline" /\ ~(mine /\ limited)) THEN Fails(q)
                   ELSE Becomes(q, 1, Failed)
                /\ UNCHANGED delivered
        /\ UNCHANGED events

\* The call comes back, with an answer or with an error; an error skips the
\* hooks.  A hook that denies ends the request, an error only a /call.
Return(q, i, answer) ==
    LET c == outs[q][i]
        post == PostHooks[Manifest[StepOf(q).mcp].declares][answer]
        evs == Appended(q, i, post.events)
        v2 == req[q].prog.kind = "v2"
    IN  /\ req[q].pc = "running" /\ i \in Of(q, "sent")
        /\ ~c.agent
        /\ events' = Written(c.since, evs)
        /\ IF post.denied /\ ~v2 THEN Fails(q)
           ELSE Becomes(q, i, IF post.denied THEN Failed ELSE Ok(post.value, answer.shape))
        /\ UNCHANGED <<sealed, delivered>>

ReturnError(q, i) ==
    LET c == outs[q][i]
    IN  /\ req[q].pc = "running" /\ i \in Of(q, "sent")
        /\ events' = IF c.agent THEN events ELSE Written(c.since, events)
        /\ IF req[q].prog.kind = "call" THEN Fails(q) ELSE Becomes(q, i, Failed)
        /\ UNCHANGED <<sealed, delivered>>

\* What an external agent answers passes no hook.
ReturnAgent(q, i, answer) ==
    /\ req[q].pc = "running" /\ i \in Of(q, "sent")
    /\ outs[q][i].agent
    /\ Becomes(q, i, Ok(answer, answer.shape))
    /\ UNCHANGED <<sealed, events, delivered>>

\* The step is over; the results of the last one are the answer.
EndStep(q) ==
    LET last == req[q].step = Len(req[q].prog.steps)
    IN  /\ req[q].pc = "running"
        /\ Of(q, "waiting") \cup Of(q, "sent") = {}
        /\ IF last THEN EndsAs(q, "done")
           ELSE /\ req' = [req EXCEPT ![q].step = @ + 1]
                /\ outs' = [outs EXCEPT ![q] = Enter(req[q].prog, req[q].step + 1)]
        /\ UNCHANGED <<sealed, events, delivered>>

Progress(q) ==
    \/ StartUnknown(q) \/ StartDenied(q)
    \/ \E broken \in SUBSET Handles :
          \/ StartTool(q, broken)
          \/ \E limited \in BOOLEAN : StartAgent(q, broken, limited)
    \/ EndStep(q)

Comes(q, i) ==
    \/ \E answer \in Answers : Return(q, i, answer) \/ ReturnAgent(q, i, answer)
    \/ ReturnError(q, i)

Next ==
    \/ \E h \in Handles : Seal(h) \/ Invalidate(h)
    \/ \E q \in Requests :
          \/ \E p \in Programs, caller \in Callers : Begin(q, p, caller)
          \/ Progress(q)
          \/ \E i \in DOMAIN outs[q] : Comes(q, i)

\* The router runs its tasks, and every POST has a time limit: as long as some
\* request can go on, one does.
Fairness == WF_vars(\E q \in Requests : Progress(q) \/ \E i \in DOMAIN outs[q] : Comes(q, i))

Spec == Init /\ [][Next]_vars /\ Fairness

(***************************************************************************)
(* Properties.                                                              *)
(***************************************************************************)
\* Whatever fails and however many requests name it, what a handle seals is
\* sent out with one call at most, of a request of its owner, and after that
\* the handle is used up (_resolve_handle_from_db and its three callers).
HandleReachesOneCall ==
    \A h \in Handles :
        /\ Cardinality(delivered[h]) <= 1
        /\ delivered[h] # {} => sealed[h] = "used"
        /\ \A call \in delivered[h] : req[call[1]].who = Owner[h]

\* What the hooks did in a call has been handed to the audit table as soon as the
\* call is over, however it ends and whatever other calls append meanwhile
\* (_execute_mcp_tool, finally).
HookEventsAudited ==
    \A e \in DOMAIN events :
        \/ events[e] = Handed
        \/ LET q == events[e][1]
               i == events[e][3]
           IN  /\ req[q].pc = "running" /\ req[q].step = events[e][2]
               /\ i \in Of(q, "sent")

\* A field that the manifest declares as personal does not come out of a call:
\* no hook makes it unreachable for the one that looks for it, and no engine
\* goes around the hooks.  What a tool answers as a text, and what external
\* agents answer, has no such fields to find (ManifestPiiGuard).
FieldsRedacted ==
    \A q \in Requests : req[q].pc = "running" =>
        \A i \in Of(q, "ok") :
            LET m == Manifest[StepOf(q).mcp]
            IN  m.transport = "http" /\ m.declares /\ outs[q][i].came # "text" =>
                    "declared" \notin outs[q][i].value.has

\* Every request that begins ends: with the semaphores of the foreach steps,
\* the refusals and the errors of calls (run_pipeline, _run_v2_pipeline).
RequestsEnd == \A q \in Requests : req[q].pc = "running" ~> req[q].pc \in Ended
=============================================================================
