---------------------------- MODULE JobLifecycle ----------------------------
(***************************************************************************)
(* What the jobs API promises about one job id, whatever runs it: it is    *)
(* queued, may be seen running, ends once, and a request that was answered *)
(* "cancelled" is how it ended.                                            *)
(***************************************************************************)
CONSTANT Ids

VARIABLES
  state,      \* what GET /jobs/{id} shows of a job, "none" before it exists
  cancelled   \* jobs a cancel request was answered "cancelled" for

vars == <<state, cancelled>>

Open  == {"queued", "running"}
Ended == {"completed", "failed"}

Init ==
  /\ state = [j \in Ids |-> "none"]
  /\ cancelled = {}

Move(j, from, to) ==
  /\ state[j] \in from
  /\ state' = [state EXCEPT ![j] = to]

Submit(j) == Move(j, {"none"}, "queued") /\ UNCHANGED cancelled

Run(j) == Move(j, {"queued"}, "running") /\ UNCHANGED cancelled

Finish(j) == \E s \in Ended : Move(j, Open, s) /\ UNCHANGED cancelled

Cancel(j) == Move(j, Open, "failed") /\ cancelled' = cancelled \cup {j}

Next == \E j \in Ids : Submit(j) \/ Run(j) \/ Finish(j) \/ Cancel(j)

Spec == Init /\ [][Next]_vars

=============================================================================
