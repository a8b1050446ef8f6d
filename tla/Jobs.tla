-------------------------------- MODULE Jobs --------------------------------
(***************************************************************************)
(* Background jobs of the runtime router (runtime/router.py): POST /jobs,  *)
(* POST /jobs/batch, POST /jobs/{id}/cancel and the asyncio tasks behind   *)
(* them.                                                                   *)
(*                                                                         *)
(* The rows of pipeline_jobs and pipeline_job_steps are in the database    *)
(* every router process shares.  The tasks, the _running_jobs table and    *)
(* the pipeline registries are in the memory of one process, called a      *)
(* replica.  A replica runs one event loop and its database calls block    *)
(* that loop, so what a task or a handler does between two awaits is one   *)
(* step of the model; the statements of two replicas interleave.           *)
(***************************************************************************)
EXTENDS Naturals, Sequences, FiniteSets

CONSTANTS
  Replicas,    \* router processes
  Singles,     \* ids of jobs created by POST /jobs
  Batches,     \* ids of parent jobs created by POST /jobs/batch
  Kids,        \* ids of the child jobs of batches
  Parent,      \* Kids -> Batches: the parent_job_id of a child
  Index,       \* Kids -> 1, 2, ...: the position of a child in its batch
  Pipelines,   \* pipeline names a request may give
  Engine,      \* Pipelines -> how the router knows the pipeline
  NSteps,      \* steps of a pipeline
  SemSize,     \* children of a batch that run at a time (5 in the code)
  None,        \* no job, no replica, no pipeline
  Crashes,     \* whether replicas crash and restart
  DbFaults     \* whether a database statement may raise

Top  == Singles \cup Batches
Jobs == Top \cup Kids

(* "named": in named_pipelines.  "v2file": in the name-keyed v2_pipelines. *)
(* "v2db": a tenant's row, in v2_db_pipelines under (tenant, name).        *)
Engines == {"named", "v2file", "v2db"}

ASSUME JobsConstants ==
  /\ Singles \cap Batches = {}
  /\ Top \cap Kids = {}
  /\ None \notin Jobs \cup Replicas \cup Pipelines
  /\ Parent \in [Kids -> Batches]
  /\ Index \in [Kids -> Nat \ {0}]
  /\ Engine \in [Pipelines -> Engines]
  /\ NSteps \in Nat \ {0}
  /\ SemSize \in Nat \ {0}
  /\ Crashes \in BOOLEAN
  /\ DbFaults \in BOOLEAN

VARIABLES
  (* pipeline_jobs and pipeline_job_steps *)
  status,      \* status column of a job's row, "none" before the INSERT
  stepRow,     \* status column of each of the job's step rows
  pipe,        \* pipeline_name of a job
  size,        \* number of items of a batch
  (* the memory of each replica *)
  loaded,      \* pipelines its registries hold
  registered,  \* keys of _running_jobs
  cancelling,  \* the job whose cancel handler has read the row, or None
  (* the asyncio task of each job *)
  pc,          \* where the task is
  home,        \* replica the task runs on
  trace,       \* outcomes of the steps the run has executed
  (* history *)
  answered     \* jobs some cancel request was answered "cancelled" for

dbVars   == <<status, stepRow, pipe, size>>
taskVars == <<pc, home, trace>>
vars     == <<status, stepRow, pipe, size, loaded, registered, cancelling,
              pc, home, trace, answered>>

StepIx      == 1 .. NSteps
Terminal    == {"completed", "failed"}
Statuses    == {"none", "queued", "running"} \cup Terminal
StepStatus  == {"none", "queued", "completed", "failed"}
Outcomes    == {"ok", "err"}
LivePCs     == {"ready", "calling", "gather"}
PCs         == LivePCs \cup {"none", "done", "cancelled", "lost"}

TypeOK ==
  /\ status \in [Jobs -> Statuses]
  /\ stepRow \in [Jobs -> [StepIx -> StepStatus]]
  /\ pipe \in [Jobs -> Pipelines \cup {None}]
  /\ size \in [Batches -> Nat]
  /\ loaded \in [Replicas -> SUBSET Pipelines]
  /\ registered \in [Replicas -> SUBSET Jobs]
  /\ cancelling \in [Replicas -> Jobs \cup {None}]
  /\ pc \in [Jobs -> PCs]
  /\ home \in [Jobs -> Replicas \cup {None}]
  /\ trace \in [Jobs -> Seq(Outcomes)]
  /\ answered \subseteq Jobs

Live(j)     == pc[j] \in LivePCs
ItemsOf(b)  == {k \in Kids : Parent[k] = b /\ Index[k] <= size[b]}
(* No cancel handler of r is between its SELECT and its UPDATE. *)
Free(r)     == cancelling[r] = None

-----------------------------------------------------------------------------
(* Requests that create jobs.                                              *)

(* _resolve_job_pipeline: an unknown name is answered 404.  The row is     *)
(* inserted, the task created and registered before the handler returns.   *)
CreateJob(r, j, p) ==
  /\ status[j] = "none"
  /\ j \in Singles
  /\ p \in loaded[r]
  /\ Free(r)
  /\ status' = [status EXCEPT ![j] = "queued"]
  /\ pipe' = [pipe EXCEPT ![j] = p]
  /\ pc' = [pc EXCEPT ![j] = "ready"]
  /\ home' = [home EXCEPT ![j] = r]
  /\ registered' = [registered EXCEPT ![r] = @ \cup {j}]
  /\ UNCHANGED <<stepRow, size, loaded, cancelling, trace, answered>>

CreateBatch(r, b, p, n) ==
  /\ status[b] = "none"
  /\ b \in Batches
  /\ p \in loaded[r]
  /\ n > 0
  /\ Free(r)
  /\ status' = [status EXCEPT ![b] = "queued"]
  /\ pipe' = [pipe EXCEPT ![b] = p]
  /\ size' = [size EXCEPT ![b] = n]
  /\ pc' = [pc EXCEPT ![b] = "ready"]
  /\ home' = [home EXCEPT ![b] = r]
  /\ registered' = [registered EXCEPT ![r] = @ \cup {b}]
  /\ UNCHANGED <<stepRow, loaded, cancelling, trace, answered>>

(* Deploying a pipeline, deleting one, or /pipelines/reload after files     *)
(* came or went: the registries of that replica, and of no other, change.  *)
Relist(r, p) ==
  /\ Free(r)
  /\ loaded' = [loaded EXCEPT ![r] = IF p \in @ THEN @ \ {p} ELSE @ \cup {p}]
  /\ UNCHANGED <<dbVars, registered, cancelling, taskVars, answered>>

-----------------------------------------------------------------------------
(* The task of one job: _execute_job and _execute_v2_job.                  *)

(* POST /jobs hands the definition of a v2 pipeline to the task (v2_def);  *)
(* a named pipeline, and every pipeline of a batch, is looked up again by  *)
(* name, and that lookup does not reach v2_db_pipelines.                   *)
Resolvable(j) ==
  \/ j \in Singles /\ Engine[pipe[j]] # "named"
  \/ Engine[pipe[j]] # "v2db" /\ pipe[j] \in loaded[home[j]]

(* Mutant: a child that ended keeps its slot. *)
HasSlotLeaks(k) ==
  Cardinality({s \in ItemsOf(Parent[k]) : pc[s] \in {"calling", "done"}}) < SemSize

(* The semaphore of the batch wakes its waiters in order. *)
HasSlot(k) ==
  LET siblings == ItemsOf(Parent[k])
  IN  /\ Cardinality({s \in siblings : pc[s] = "calling"}) < SemSize
      /\ \A s \in siblings : Index[s] < Index[k] => pc[s] # "ready"

CanStart(j) ==
  /\ j \in Singles \cup Kids
  /\ pc[j] = "ready"
  /\ Free(home[j])
  /\ j \in Kids => HasSlot(j)

(* Mutant: no finally clause. *)
EndKeepsEntry(j) ==
  /\ pc' = [pc EXCEPT ![j] = "done"]
  /\ UNCHANGED registered

(* The task ends and its finally clause drops it from _running_jobs. *)
End(j) ==
  /\ pc' = [pc EXCEPT ![j] = "done"]
  /\ registered' = [registered EXCEPT ![home[j]] = @ \ {j}]

(* Rows pre-created as queued, the run suspended in its first MCP call. *)
StartJob(j) ==
  /\ CanStart(j)
  /\ Resolvable(j)
  /\ status' = [status EXCEPT ![j] = "running"]
  /\ stepRow' = [stepRow EXCEPT ![j] = [i \in StepIx |-> "queued"]]
  /\ pc' = [pc EXCEPT ![j] = "calling"]
  /\ UNCHANGED <<pipe, size, loaded, registered, cancelling, home, trace,
                 answered>>

StartUnknown(j) ==
  /\ CanStart(j)
  /\ ~Resolvable(j)
  /\ status' = [status EXCEPT ![j] = "failed"]
  /\ End(j)
  /\ UNCHANGED <<stepRow, pipe, size, loaded, cancelling, home, trace,
                 answered>>

(* The run returns {"error": ...} before any call: an unknown MCP or a     *)
(* policy denial (named), a missing input or the demo boundary (v2).  The  *)
(* named engine fails the job; the v2 engine derives the status from the   *)
(* step outputs, of which there are none.                                  *)
StartRefused(j) ==
  /\ CanStart(j)
  /\ Resolvable(j)
  /\ LET v2 == Engine[pipe[j]] # "named"
     IN  /\ status' = [status EXCEPT ![j] = IF v2 THEN "completed" ELSE "failed"]
         /\ stepRow' = [stepRow EXCEPT
              ![j] = [i \in StepIx |-> IF v2 THEN "completed" ELSE "queued"]]
  /\ End(j)
  /\ UNCHANGED <<pipe, size, loaded, cancelling, home, trace, answered>>

CanResume(j) == pc[j] = "calling" /\ Free(home[j])

(* A step's call returns and the next one is made. *)
StepReturns(j, o) ==
  /\ CanResume(j)
  /\ Len(trace[j]) + 1 < NSteps
  /\ trace' = [trace EXCEPT ![j] = Append(@, o)]
  /\ UNCHANGED <<dbVars, loaded, registered, cancelling, pc, home, answered>>

(* Mutant: a status the rest of the code does not know. *)
RowOfError(o) == IF o = "err" THEN "error" ELSE "completed"

RowOf(o) == IF o = "err" THEN "failed" ELSE "completed"

(* Mutant: the job's status is that of its last step. *)
FinishJobByLast(j, o) ==
  LET run == Append(trace[j], o)
  IN  /\ CanResume(j)
      /\ Len(run) = NSteps
      /\ trace' = [trace EXCEPT ![j] = run]
      /\ stepRow' = [stepRow EXCEPT ![j] = [i \in StepIx |-> RowOf(run[i])]]
      /\ status' = [status EXCEPT ![j] = RowOf(o)]
      /\ End(j)
      /\ UNCHANGED <<pipe, size, loaded, cancelling, home, answered>>

(* The last call returns: every step row, then the job's row, is written. *)
FinishJob(j, o) ==
  LET run == Append(trace[j], o)
  IN  /\ CanResume(j)
      /\ Len(run) = NSteps
      /\ trace' = [trace EXCEPT ![j] = run]
      /\ stepRow' = [stepRow EXCEPT ![j] = [i \in StepIx |-> RowOf(run[i])]]
      /\ status' = [status EXCEPT
           ![j] = IF \E i \in StepIx : run[i] = "err" THEN "failed" ELSE "completed"]
      /\ End(j)
      /\ UNCHANGED <<pipe, size, loaded, cancelling, home, answered>>

(* Mutant: the except clause forgets the row. *)
AbortJobSilently(j) ==
  /\ CanResume(j)
  /\ End(j)
  /\ UNCHANGED <<dbVars, loaded, cancelling, home, trace, answered>>

(* The run leaves early: a later stage is denied, a hook refuses, an       *)
(* external agent answers 401 or 403, a v2 run raises.  Its result has no  *)
(* "steps", so the step rows stay as they were inserted.                   *)
AbortJob(j) ==
  /\ CanResume(j)
  /\ status' = [status EXCEPT ![j] = "failed"]
  /\ End(j)
  /\ UNCHANGED <<stepRow, pipe, size, loaded, cancelling, home, trace,
                 answered>>

-----------------------------------------------------------------------------
(* The task of a batch: _execute_batch.                                    *)

BatchStart(b) ==
  /\ b \in Batches
  /\ pc[b] = "ready"
  /\ Free(home[b])
  /\ status' = [j \in Jobs |-> IF j = b THEN "running"
                               ELSE IF j \in ItemsOf(b) THEN "queued" ELSE status[j]]
  /\ pipe' = [j \in Jobs |-> IF j \in ItemsOf(b) THEN pipe[b] ELSE pipe[j]]
  /\ pc' = [j \in Jobs |-> IF j = b THEN "gather"
                           ELSE IF j \in ItemsOf(b) THEN "ready" ELSE pc[j]]
  /\ home' = [j \in Jobs |-> IF j \in ItemsOf(b) THEN home[b] ELSE home[j]]
  /\ UNCHANGED <<stepRow, size, loaded, registered, cancelling, trace, answered>>

Gathered(b) ==
  /\ pc[b] = "gather"
  /\ Free(home[b])
  /\ \A k \in ItemsOf(b) : ~Live(k)

(* Mutant: one failed child fails the batch. *)
BatchStatusStrict(b) ==
  IF \E k \in ItemsOf(b) : status[k] = "failed" THEN "failed" ELSE "completed"

BatchStatus(b) ==
  LET has(s) == \E k \in ItemsOf(b) : status[k] = s
  IN  IF has("failed") /\ ~has("completed") THEN "failed" ELSE "completed"

BatchFinish(b) ==
  /\ b \in Batches
  /\ Gathered(b)
  /\ status' = [status EXCEPT ![b] = BatchStatus(b)]
  /\ End(b)
  /\ UNCHANGED <<stepRow, pipe, size, loaded, cancelling, home, trace, answered>>

-----------------------------------------------------------------------------
(* POST /jobs/{id}/cancel.                                                 *)

(* Mutant: a finished job is cancelled all the same. *)
CancelReadAny(r, j) ==
  /\ Free(r)
  /\ status[j] # "none"
  /\ cancelling' = [cancelling EXCEPT ![r] = j]
  /\ UNCHANGED <<dbVars, loaded, registered, taskVars, answered>>

(* The handler reads the row; a finished job is answered as finished. *)
CancelRead(r, j) ==
  /\ Free(r)
  /\ status[j] \in {"queued", "running"}
  /\ cancelling' = [cancelling EXCEPT ![r] = j]
  /\ UNCHANGED <<dbVars, loaded, registered, taskVars, answered>>

(* Mutant: the entry is popped, the task not cancelled. *)
CancelledForgets(r, j) == {}

(* The tasks that end when the task of j is cancelled: gather() passes the *)
(* cancellation of a batch on to its children.                             *)
Cancelled(r, j) ==
  IF j \in registered[r]
  THEN {j} \cup {k \in Kids : Parent[k] = j /\ Live(k)}
  ELSE {}

CancelTasks(r) ==
  LET j == cancelling[r]
  IN  /\ j # None
      /\ pc' = [i \in Jobs |-> IF i \in Cancelled(r, j) THEN "cancelled" ELSE pc[i]]
      /\ registered' = [registered EXCEPT ![r] = @ \ {j}]
      /\ cancelling' = [cancelling EXCEPT ![r] = None]

CancelWrite(r) ==
  /\ CancelTasks(r)
  /\ status' = [status EXCEPT ![cancelling[r]] = "failed"]
  /\ answered' = answered \cup {cancelling[r]}
  /\ UNCHANGED <<stepRow, pipe, size, loaded, home, trace>>

-----------------------------------------------------------------------------
(* Faults.  Each statement commits on its own (autocommit), so a failing   *)
(* one leaves those before it.                                             *)

(* Mutant: a job whose writes failed is queued again. *)
SalvageRequeues(j, old) ==
  \E s \in {old, "queued"} : status' = [status EXCEPT ![j] = s]

(* The except clause of the task marks the job failed, if the database     *)
(* takes that statement; otherwise the row keeps the value given.          *)
Salvage(j, old) ==
  \E s \in {old, "failed"} : status' = [status EXCEPT ![j] = s]

StartWriteFails(j) ==
  /\ DbFaults
  /\ CanStart(j)
  /\ \/ /\ Salvage(j, status[j])
        /\ UNCHANGED stepRow
     \/ \E n \in 0 .. NSteps - 1 :
          /\ Salvage(j, "running")
          /\ stepRow' = [stepRow EXCEPT
               ![j] = [i \in StepIx |-> IF i <= n THEN "queued" ELSE stepRow[j][i]]]
  /\ End(j)
  /\ UNCHANGED <<pipe, size, loaded, cancelling, home, trace, answered>>

FinishWriteFails(j, o) ==
  LET run == Append(trace[j], o)
  IN  /\ DbFaults
      /\ CanResume(j)
      /\ Len(run) = NSteps
      /\ trace' = [trace EXCEPT ![j] = run]
      /\ Salvage(j, status[j])
      /\ \E n \in 0 .. NSteps :
           stepRow' = [stepRow EXCEPT
             ![j] = [i \in StepIx |-> IF i <= n THEN RowOf(run[i]) ELSE stepRow[j][i]]]
      /\ End(j)
      /\ UNCHANGED <<pipe, size, loaded, cancelling, home, answered>>

(* Some child rows are in, and no child has a task. *)
BatchStartWriteFails(b) ==
  /\ DbFaults
  /\ b \in Batches
  /\ pc[b] = "ready"
  /\ Free(home[b])
  /\ \E n \in 0 .. size[b] - 1, s \in {status[b], "running", "failed"} :
       LET made == {k \in ItemsOf(b) : Index[k] <= n}
       IN  /\ made # {} => s # status[b]
           /\ status' = [j \in Jobs |-> IF j = b THEN s
                                        ELSE IF j \in made THEN "queued" ELSE status[j]]
           /\ pipe' = [j \in Jobs |-> IF j \in made THEN pipe[b] ELSE pipe[j]]
  /\ End(b)
  /\ UNCHANGED <<stepRow, size, loaded, cancelling, home, trace, answered>>

BatchFinishFails(b) ==
  /\ DbFaults
  /\ b \in Batches
  /\ Gathered(b)
  /\ Salvage(b, status[b])
  /\ End(b)
  /\ UNCHANGED <<stepRow, pipe, size, loaded, cancelling, home, trace, answered>>

(* The task is cancelled before the UPDATE is tried. *)
CancelWriteFails(r) ==
  /\ DbFaults
  /\ CancelTasks(r)
  /\ UNCHANGED <<dbVars, loaded, home, trace, answered>>

(* A replica stops and starts again.  Nothing in lifespan() looks at       *)
(* pipeline_jobs.  The registries are read again: Relist changes them.     *)
Crash(r) ==
  /\ Crashes
  /\ pc' = [j \in Jobs |-> IF Live(j) /\ home[j] = r THEN "lost" ELSE pc[j]]
  /\ registered' = [registered EXCEPT ![r] = {}]
  /\ cancelling' = [cancelling EXCEPT ![r] = None]
  /\ UNCHANGED <<dbVars, loaded, home, trace, answered>>

-----------------------------------------------------------------------------

Init ==
  /\ status = [j \in Jobs |-> "none"]
  /\ stepRow = [j \in Jobs |-> [i \in StepIx |-> "none"]]
  /\ pipe = [j \in Jobs |-> None]
  /\ size = [b \in Batches |-> 0]
  /\ loaded = [r \in Replicas |-> Pipelines]
  /\ registered = [r \in Replicas |-> {}]
  /\ cancelling = [r \in Replicas |-> None]
  /\ pc = [j \in Jobs |-> "none"]
  /\ home = [j \in Jobs |-> None]
  /\ trace = [j \in Jobs |-> <<>>]
  /\ answered = {}

(* What the event loop does of itself. *)
TaskStep(j) ==
  \/ StartJob(j) \/ StartUnknown(j) \/ StartRefused(j)
  \/ AbortJob(j)
  \/ \E o \in Outcomes : StepReturns(j, o) \/ FinishJob(j, o)
  \/ BatchStart(j) \/ BatchFinish(j)

Request ==
  \/ \E r \in Replicas, p \in Pipelines :
       \/ Relist(r, p)
       \/ \E j \in Singles : CreateJob(r, j, p)
       \/ \E b \in Batches :
            \E n \in {Index[k] : k \in {c \in Kids : Parent[c] = b}} :
              CreateBatch(r, b, p, n)
  \/ \E r \in Replicas, j \in Jobs : CancelRead(r, j)

Fault ==
  \/ \E j \in Jobs :
       \/ StartWriteFails(j) \/ BatchStartWriteFails(j) \/ BatchFinishFails(j)
       \/ \E o \in Outcomes : FinishWriteFails(j, o)
  \/ \E r \in Replicas : CancelWriteFails(r) \/ Crash(r)

Next ==
  \/ Request
  \/ \E j \in Jobs : TaskStep(j)
  \/ \E r \in Replicas : CancelWrite(r)
  \/ Fault

Spec == Init /\ [][Next]_vars

(* The event loop runs every task that can run, every MCP call returns or  *)
(* times out (httpx timeout=300.0), and a handler runs to its end.         *)
(* Requests and faults are never forced.                                   *)
Fairness ==
  /\ \A j \in Jobs : WF_vars(TaskStep(j))
  /\ \A r \in Replicas : WF_vars(CancelWrite(r))

FairSpec == Spec /\ Fairness

-----------------------------------------------------------------------------
(* Properties.                                                             *)

SingleReplica == \A r, s \in Replicas : r = s

(* The table POST /jobs/{id}/cancel looks in holds the tasks that still    *)
(* run on this replica and no other: a task that ended, by whatever path,  *)
(* was dropped, and none that runs was dropped before it ended.            *)
RegisteredIffLive ==
  \A r \in Replicas : registered[r] = {j \in Top : Live(j) /\ home[j] = r}

(* With one router process a job somebody was told is cancelled stays      *)
(* failed and its task never writes again, whatever crashes and database   *)
(* errors came before.                                                     *)
CancelIsFinal ==
  \A j \in Top \cap answered : status[j] = "failed" /\ ~Live(j)

(* The same promise for every job the API lists, batch children included.  *)
CancelledStaysFailed == \A j \in answered : status[j] = "failed"

(* A row of a job that has ended is never written again: no late task, no  *)
(* second cancel, no parent finishing revives or changes it.               *)
EndedRowsStand ==
  [][\A j \in Jobs : status[j] \in Terminal /\ ~Live(j) => status'[j] = status[j]]_vars

Ran(j, i) == i <= Len(trace[j]) /\ trace[j][i] = "ok"

(* A row says completed only for work that was done: a completed step row  *)
(* is a call that returned without an error, and a completed job had every *)
(* one of its steps.  A v2 run that is refused is completed step by step.  *)
CompletedRan(j) ==
  /\ \A i \in StepIx : stepRow[j][i] = "completed" => Ran(j, i)
  /\ status[j] = "completed" => \A i \in StepIx : Ran(j, i)

CompletedNamedRan ==
  \A j \in Jobs \ Batches :
    pipe[j] # None /\ Engine[pipe[j]] = "named" => CompletedRan(j)

(* What a batch reports is what its children came to: when its task has    *)
(* ended, every child has ended; the batch is failed only if no child      *)
(* completed and completed only if one did, unless a cancel request that   *)
(* another replica was still serving changed a row afterwards.             *)
BatchTellsOfChildren ==
  ~DbFaults => \A b \in Batches : pc[b] = "done" =>
    LET some(s) == \E k \in ItemsOf(b) : status[k] = s
    IN  /\ \A k \in ItemsOf(b) : status[k] \in Terminal
        /\ status[b] = "failed" => b \in answered \/ ~some("completed")
        /\ status[b] = "completed" => some("completed") \/ ItemsOf(b) \cap answered # {}

(* While no replica stops and no statement fails, a job that is shown as   *)
(* queued or running has a task that will move it, except the children of  *)
(* a batch that was cancelled.                                             *)
OpenRowsHaveTasks ==
  ~Crashes /\ ~DbFaults => \A j \in Jobs :
    status[j] \in {"queued", "running"}
      => Live(j) \/ (j \in Kids /\ pc[Parent[j]] = "cancelled")

(* Every job that is created ends and stays ended, on whatever replica it  *)
(* runs and however often it is cancelled from another one.                *)
JobsEnd ==
  \A j \in Top : status[j] = "queued" ~> [](status[j] \in Terminal)

(* With one router process, what a client sees of a job created by POST    *)
(* /jobs or /jobs/batch is the contract of JobLifecycle.                   *)
Lifecycle == INSTANCE JobLifecycle WITH
  Ids <- Top, state <- [j \in Top |-> status[j]], cancelled <- answered \cap Top

LifecycleSpec == Lifecycle!Spec

=============================================================================
