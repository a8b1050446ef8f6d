----------------------------- MODULE JobsProofs -----------------------------
(***************************************************************************)
(* What holds of Jobs for any number of replicas, jobs, batches, pipelines *)
(* and steps, with and without crashes and failing statements.             *)
(***************************************************************************)
EXTENDS Jobs, TLAPS

(* One name per kind of step, so that every proof below has the same cases. *)
Requests ==
  \E r \in Replicas :
    \/ \E p \in Pipelines : Relist(r, p)
    \/ \E p \in Pipelines, j \in Singles : CreateJob(r, j, p)
    \/ \E p \in Pipelines, b \in Batches, n \in Nat \ {0} : CreateBatch(r, b, p, n)
    \/ \E j \in Jobs : CancelRead(r, j)

LEMMA RequestSteps == Request => Requests
<1>1. ASSUME NEW b \in Batches
      PROVE  {Index[k] : k \in {c \in Kids : Parent[c] = b}} \subseteq Nat \ {0}
  BY JobsConstants
<1>2. QED
  BY <1>1 DEF Request, Requests, Jobs, Top

(***************************************************************************)
(* Type correctness.                                                       *)
(***************************************************************************)
LEMMA TypeInit == Init => TypeOK
  BY JobsConstants DEF Init, TypeOK, Statuses, StepStatus, PCs

LEMMA EndType ==
  ASSUME TypeOK, NEW j \in Jobs, End(j)
  PROVE  pc' \in [Jobs -> PCs] /\ registered' \in [Replicas -> SUBSET Jobs]
  BY DEF TypeOK, End, PCs

LEMMA SalvageType ==
  ASSUME TypeOK, NEW j \in Jobs, NEW old \in Statuses, Salvage(j, old)
  PROVE  status' \in [Jobs -> Statuses]
  BY DEF TypeOK, Salvage, Statuses, Terminal

LEMMA TypeNext == TypeOK /\ [Next]_vars => TypeOK'
<1> SUFFICES ASSUME TypeOK, [Next]_vars PROVE TypeOK'
  OBVIOUS
<1> USE JobsConstants DEF TypeOK, Statuses, StepStatus, PCs, LivePCs, Terminal, Live, Jobs, Top
<1>1. CASE Requests
  <2>1. ASSUME NEW r \in Replicas, NEW p \in Pipelines, Relist(r, p) PROVE TypeOK'
    BY <2>1 DEF Relist, dbVars, taskVars
  <2>2. ASSUME NEW r \in Replicas, NEW p \in Pipelines, NEW j \in Singles, CreateJob(r, j, p)
        PROVE  TypeOK'
    BY <2>2 DEF CreateJob
  <2>3. ASSUME NEW r \in Replicas, NEW p \in Pipelines, NEW b \in Batches,
               NEW n \in Nat \ {0}, CreateBatch(r, b, p, n)
        PROVE  TypeOK'
    BY <2>3 DEF CreateBatch
  <2>4. ASSUME NEW r \in Replicas, NEW j \in Jobs, CancelRead(r, j) PROVE TypeOK'
    BY <2>4 DEF CancelRead, dbVars, taskVars
  <2>5. QED
    BY <1>1, <2>1, <2>2, <2>3, <2>4 DEF Requests
<1>2. ASSUME NEW j \in Jobs, TaskStep(j) PROVE TypeOK'
  <2>1. CASE StartJob(j)
    BY <2>1 DEF StartJob
  <2>2. CASE StartUnknown(j)
    BY <2>2 DEF StartUnknown, End
  <2>3. CASE StartRefused(j)
    BY <2>3 DEF StartRefused, End
  <2>4. CASE AbortJob(j)
    BY <2>4 DEF AbortJob, End
  <2>5. ASSUME NEW o \in Outcomes, StepReturns(j, o) PROVE TypeOK'
    BY <2>5 DEF StepReturns, dbVars
  <2>6. ASSUME NEW o \in Outcomes, FinishJob(j, o) PROVE TypeOK'
    <3> DEFINE run == Append(trace[j], o)
    <3>1. run \in Seq(Outcomes)
      OBVIOUS
    <3>2. \A i : RowOf(run[i]) \in StepStatus
      BY DEF RowOf
    <3> HIDE DEF run
    <3>3. QED
      BY <2>6, <3>1, <3>2 DEF FinishJob, End, run
  <2>7. CASE BatchStart(j)
    BY <2>7 DEF BatchStart
  <2>8. CASE BatchFinish(j)
    BY <2>8 DEF BatchFinish, BatchStatus, End
  <2>9. QED
    BY <1>2, <2>1, <2>2, <2>3, <2>4, <2>5, <2>6, <2>7, <2>8 DEF TaskStep
<1>3. ASSUME NEW r \in Replicas, CancelWrite(r) PROVE TypeOK'
  BY <1>3 DEF CancelWrite, CancelTasks
<1>4. CASE Fault
  <2>1. ASSUME NEW j \in Jobs, StartWriteFails(j) PROVE TypeOK'
    <3>1. status' \in [Jobs -> Statuses]
      <4>1. status[j] \in Statuses /\ "running" \in Statuses
        OBVIOUS
      <4>2. QED
        BY <2>1, <4>1, SalvageType DEF StartWriteFails
    <3>2. stepRow' \in [Jobs -> [StepIx -> StepStatus]]
      <4>1. CASE UNCHANGED stepRow
        BY <4>1
      <4>2. ASSUME NEW n \in 0 .. NSteps - 1,
                   stepRow' = [stepRow EXCEPT
                     ![j] = [i \in StepIx |-> IF i <= n THEN "queued" ELSE stepRow[j][i]]]
            PROVE  stepRow' \in [Jobs -> [StepIx -> StepStatus]]
        BY <4>2
      <4>3. QED
        BY <2>1, <4>1, <4>2 DEF StartWriteFails
    <3>3. QED
      BY <2>1, <3>1, <3>2, EndType DEF StartWriteFails
  <2>2. ASSUME NEW j \in Jobs, BatchStartWriteFails(j) PROVE TypeOK'
    <3>1. PICK n \in 0 .. size[j] - 1, s \in {status[j], "running", "failed"} :
            LET made == {k \in ItemsOf(j) : Index[k] <= n}
            IN  /\ status' = [i \in Jobs |-> IF i = j THEN s
                                             ELSE IF i \in made THEN "queued" ELSE status[i]]
                /\ pipe' = [i \in Jobs |-> IF i \in made THEN pipe[j] ELSE pipe[i]]
      BY <2>2 DEF BatchStartWriteFails
    <3>2. s \in Statuses
      OBVIOUS
    <3>3. status' \in [Jobs -> Statuses] /\ pipe' \in [Jobs -> Pipelines \cup {None}]
      BY <3>1, <3>2
    <3>4. QED
      BY <2>2, <3>3, EndType DEF BatchStartWriteFails
  <2>3. ASSUME NEW j \in Jobs, BatchFinishFails(j) PROVE TypeOK'
    BY <2>3, SalvageType, EndType DEF BatchFinishFails
  <2>4. ASSUME NEW j \in Jobs, NEW o \in Outcomes, FinishWriteFails(j, o) PROVE TypeOK'
    <3> DEFINE run == Append(trace[j], o)
    <3>1. run \in Seq(Outcomes)
      OBVIOUS
    <3>2. \A i : RowOf(run[i]) \in StepStatus
      BY DEF RowOf
    <3>3. PICK n \in 0 .. NSteps :
            stepRow' = [stepRow EXCEPT
              ![j] = [i \in StepIx |-> IF i <= n THEN RowOf(run[i]) ELSE stepRow[j][i]]]
      BY <2>4 DEF FinishWriteFails
    <3> HIDE DEF run
    <3>4. [i \in StepIx |-> IF i <= n THEN RowOf(run[i]) ELSE stepRow[j][i]] \in [StepIx -> StepStatus]
      BY <3>2
    <3>5. stepRow' \in [Jobs -> [StepIx -> StepStatus]]
      BY <3>3, <3>4
    <3>6. QED
      BY <2>4, <3>1, <3>5, SalvageType, EndType DEF FinishWriteFails, run
  <2>5. ASSUME NEW r \in Replicas, CancelWriteFails(r) PROVE TypeOK'
    BY <2>5 DEF CancelWriteFails, CancelTasks, dbVars
  <2>6. ASSUME NEW r \in Replicas, Crash(r) PROVE TypeOK'
    BY <2>6 DEF Crash, dbVars
  <2>7. QED
    BY <1>4, <2>1, <2>2, <2>3, <2>4, <2>5, <2>6 DEF Fault
<1>5. CASE UNCHANGED vars
  BY <1>5 DEF vars
<1>6. QED
  BY <1>1, <1>2, <1>3, <1>4, <1>5, RequestSteps DEF Next

(* Every variable keeps its type. *)
THEOREM TypeCorrect == Spec => []TypeOK
  BY TypeInit, TypeNext, PTL DEF Spec

(***************************************************************************)
(* The registry of tasks.  RegisteredIffLive is not inductive by itself: a *)
(* task must know its replica, and a job about to be created, or about to  *)
(* get its children, must have no task already.                            *)
(***************************************************************************)
LiveHome == \A j \in Jobs : Live(j) => home[j] \in Replicas

Fresh == \A j \in Top : status[j] = "none" => pc[j] = "none" /\ j \notin answered

KidsWait ==
  \A k \in Kids : pc[Parent[k]] \in {"none", "ready"} => status[k] = "none" /\ pc[k] = "none"

CancelKnown == \A r \in Replicas : cancelling[r] # None => status[cancelling[r]] # "none"

RegInv == RegisteredIffLive /\ LiveHome /\ Fresh /\ KidsWait /\ CancelKnown

LEMMA RegInit == Init => RegInv
  BY JobsConstants
  DEF Init, RegInv, RegisteredIffLive, LiveHome, Fresh, KidsWait, CancelKnown, Live, LivePCs, Jobs, Top

(* What a task that is not a batch may do to the tables: stay or end. *)
LEMMA RegEnd ==
  ASSUME TypeOK, RegInv, NEW j \in Jobs, Live(j),
         status'[j] # "none" \/ status'[j] = status[j],
         End(j), UNCHANGED <<home, answered, cancelling>>,
         \A i \in Jobs : i # j =>
           status'[i] = status[i] \/ (i \in Kids /\ Parent[i] = j /\ status'[i] # "none")
  PROVE  RegInv'
<1> USE JobsConstants DEF TypeOK, RegInv, Live, LivePCs, Jobs, Top
<1>1. RegisteredIffLive'
  BY DEF RegisteredIffLive, LiveHome, End
<1>2. LiveHome'
  BY DEF LiveHome, End
<1>3. Fresh'
  BY DEF Fresh, End
<1>4. KidsWait'
  BY DEF KidsWait, End
<1>5. CancelKnown'
  BY DEF CancelKnown
<1>6. QED
  BY <1>1, <1>2, <1>3, <1>4, <1>5

LEMMA RegNext == TypeOK /\ RegInv /\ [Next]_vars => RegInv'
<1> SUFFICES ASSUME TypeOK, RegInv, [Next]_vars PROVE RegInv'
  OBVIOUS
<1> USE JobsConstants DEF TypeOK, Jobs, Top
<1>1. CASE Requests
  <2> USE DEF RegInv, RegisteredIffLive, LiveHome, Fresh, KidsWait, CancelKnown, Live, LivePCs
  <2>1. ASSUME NEW r \in Replicas, NEW p \in Pipelines, Relist(r, p) PROVE RegInv'
    BY <2>1 DEF Relist, dbVars, taskVars
  <2>2. ASSUME NEW r \in Replicas, NEW p \in Pipelines, NEW j \in Singles, CreateJob(r, j, p)
        PROVE  RegInv'
    <3>0. /\ registered' = [registered EXCEPT ![r] = @ \cup {j}]
          /\ home' = [home EXCEPT ![j] = r]
          /\ \A i \in Jobs : Live(i)' <=> Live(i) \/ i = j
          /\ ~Live(j)
      BY <2>2 DEF CreateJob
    <3>1. RegisteredIffLive'
      <4> HIDE DEF Live
      <4>1. ASSUME NEW s \in Replicas, NEW i \in Top
            PROVE  i \in registered'[s] <=> Live(i)' /\ home'[i] = s
        BY <3>0
      <4>2. \A s \in Replicas : registered'[s] \subseteq Top
        BY <3>0
      <4>3. QED
        BY <4>1, <4>2
    <3>2. LiveHome' /\ Fresh' /\ CancelKnown'
      BY <2>2 DEF CreateJob
    <3>3. KidsWait'
      BY <2>2 DEF CreateJob
    <3>4. QED
      BY <3>1, <3>2, <3>3
  <2>3. ASSUME NEW r \in Replicas, NEW p \in Pipelines, NEW b \in Batches,
               NEW n \in Nat \ {0}, CreateBatch(r, b, p, n)
        PROVE  RegInv'
    <3>0. /\ registered' = [registered EXCEPT ![r] = @ \cup {b}]
          /\ home' = [home EXCEPT ![b] = r]
          /\ \A i \in Jobs : Live(i)' <=> Live(i) \/ i = b
          /\ ~Live(b)
      BY <2>3 DEF CreateBatch
    <3>1. RegisteredIffLive'
      <4> HIDE DEF Live
      <4>1. ASSUME NEW s \in Replicas, NEW i \in Top
            PROVE  i \in registered'[s] <=> Live(i)' /\ home'[i] = s
        BY <3>0
      <4>2. \A s \in Replicas : registered'[s] \subseteq Top
        BY <3>0
      <4>3. QED
        BY <4>1, <4>2
    <3>2. LiveHome' /\ Fresh' /\ CancelKnown'
      BY <2>3 DEF CreateBatch
    <3>3. KidsWait'
      BY <2>3 DEF CreateBatch
    <3>4. QED
      BY <3>1, <3>2, <3>3
  <2>4. ASSUME NEW r \in Replicas, NEW j \in Jobs, CancelRead(r, j) PROVE RegInv'
    BY <2>4 DEF CancelRead, dbVars, taskVars
  <2>5. QED
    BY <1>1, <2>1, <2>2, <2>3, <2>4 DEF Requests
<1>2. ASSUME NEW j \in Jobs, TaskStep(j) PROVE RegInv'
  <2>1. CASE StartJob(j)
    <3>1. j \notin Batches /\ pc[j] = "ready" /\ status' = [status EXCEPT ![j] = "running"]
          /\ pc' = [pc EXCEPT ![j] = "calling"] /\ UNCHANGED <<home, registered, cancelling, answered>>
      BY <2>1 DEF StartJob, CanStart
    <3> USE DEF RegInv, Live, LivePCs
    <3>2. RegisteredIffLive'
      BY <3>1 DEF RegisteredIffLive
    <3>3. LiveHome' /\ Fresh'
      BY <3>1 DEF LiveHome, Fresh
    <3>4. KidsWait' /\ CancelKnown'
      BY <3>1 DEF KidsWait, CancelKnown
    <3>5. QED
      BY <3>2, <3>3, <3>4
  <2>2. CASE StartUnknown(j)
    BY <2>2, RegEnd DEF StartUnknown, CanStart, Live, LivePCs
  <2>3. CASE StartRefused(j)
    BY <2>3, RegEnd DEF StartRefused, CanStart, Live, LivePCs
  <2>4. CASE AbortJob(j)
    BY <2>4, RegEnd DEF AbortJob, CanResume, Live, LivePCs
  <2>5. ASSUME NEW o \in Outcomes, StepReturns(j, o) PROVE RegInv'
    BY <2>5 DEF StepReturns, dbVars, RegInv, RegisteredIffLive, LiveHome, Fresh, KidsWait, CancelKnown, Live
  <2>6. ASSUME NEW o \in Outcomes, FinishJob(j, o) PROVE RegInv'
    <3>1. status'[j] # "none" /\ \A i \in Jobs : i # j => status'[i] = status[i]
      BY <2>6 DEF FinishJob
    <3>2. Live(j) /\ End(j) /\ UNCHANGED <<home, answered, cancelling>>
      BY <2>6 DEF FinishJob, CanResume, Live, LivePCs
    <3>3. QED
      BY <3>1, <3>2, RegEnd
  <2>7. CASE BatchStart(j)
    BY <2>7 DEF BatchStart, ItemsOf, RegInv, RegisteredIffLive, LiveHome, Fresh, KidsWait, CancelKnown, Live, LivePCs
  <2>8. CASE BatchFinish(j)
    BY <2>8, RegEnd DEF BatchFinish, Gathered, BatchStatus, Live, LivePCs
  <2>9. QED
    BY <1>2, <2>1, <2>2, <2>3, <2>4, <2>5, <2>6, <2>7, <2>8 DEF TaskStep
<1>3. ASSUME NEW r \in Replicas, CancelTasks(r), UNCHANGED home,
             \/ UNCHANGED <<status, answered>>
             \/ /\ status' = [status EXCEPT ![cancelling[r]] = "failed"]
                /\ answered' = answered \cup {cancelling[r]}
      PROVE  RegInv'
  <2> DEFINE c == cancelling[r]
  <2>1. c \in Jobs
    BY <1>3 DEF CancelTasks
  <2>2. \A i \in Cancelled(r, c) : i = c \/ i \in Kids
    BY DEF Cancelled
  <2>3. \A i \in Cancelled(r, c) : Live(i)
    BY DEF Cancelled, RegInv, RegisteredIffLive
  <2>4. c \in registered[r] => c \in Cancelled(r, c)
    BY DEF Cancelled
  <2>5. c \notin registered[r] => Cancelled(r, c) = {}
    BY DEF Cancelled
  <2>6. /\ pc' = [i \in Jobs |-> IF i \in Cancelled(r, c) THEN "cancelled" ELSE pc[i]]
        /\ registered' = [registered EXCEPT ![r] = @ \ {c}]
        /\ cancelling' = [cancelling EXCEPT ![r] = None]
        /\ UNCHANGED home
    BY <1>3 DEF CancelTasks
  <2>7. \A i \in Jobs : Live(i)' <=> Live(i) /\ i \notin Cancelled(r, c)
    BY <2>6 DEF Live, LivePCs
  <2>8. RegisteredIffLive'
    <3>1. ASSUME NEW s \in Replicas, NEW j \in Top
          PROVE  j \in registered'[s] <=> Live(j)' /\ home'[j] = s
      BY <2>1, <2>2, <2>4, <2>5, <2>6, <2>7 DEF RegInv, RegisteredIffLive
    <3>2. \A s \in Replicas : registered'[s] \subseteq Top
      BY <2>6 DEF RegInv, RegisteredIffLive
    <3>3. QED
      BY <3>1, <3>2 DEF RegisteredIffLive
  <2>9. LiveHome'
    BY <2>6, <2>7 DEF RegInv, LiveHome
  <2>10. \A i \in Jobs : pc[i] = "none" => pc'[i] = "none"
    BY <2>3, <2>6 DEF Live, LivePCs
  <2>11. \A i \in Jobs : i # c => status'[i] = status[i]
    BY <1>3
  <2>12. answered' \subseteq answered \cup {c} /\ (c \in answered' => c \in answered \/ status'[c] = "failed")
    BY <1>3, <2>1
  <2>13. Fresh'
    BY <1>3, <2>1, <2>10, <2>11, <2>12 DEF RegInv, Fresh
  <2>14. KidsWait'
    <3>1. ASSUME NEW k \in Kids, pc'[Parent[k]] \in {"none", "ready"}
          PROVE  status'[k] = "none" /\ pc'[k] = "none"
      <4>1. pc[Parent[k]] = pc'[Parent[k]]
        BY <2>6, <3>1
      <4>2. status[k] = "none" /\ pc[k] = "none"
        BY <3>1, <4>1 DEF RegInv, KidsWait
      <4>3. k # c
        BY <2>1, <4>2, JobsConstants DEF RegInv, CancelKnown
      <4>4. QED
        BY <2>10, <2>11, <4>2, <4>3
    <3>2. QED
      BY <3>1 DEF KidsWait
  <2>15. CancelKnown'
    BY <1>3, <2>1, <2>6, <2>11 DEF RegInv, CancelKnown
  <2>16. QED
    BY <2>8, <2>9, <2>13, <2>14, <2>15 DEF RegInv
<1>4. ASSUME NEW r \in Replicas, CancelWrite(r) PROVE RegInv'
  BY <1>3, <1>4 DEF CancelWrite
<1>5. CASE Fault
  <2>1. ASSUME NEW j \in Jobs, StartWriteFails(j) PROVE RegInv'
    <3>1. Live(j) /\ End(j) /\ UNCHANGED <<home, answered, cancelling>>
      BY <2>1 DEF StartWriteFails, CanStart, Live, LivePCs
    <3>2. \E s \in {status[j], "running", "failed"} : status' = [status EXCEPT ![j] = s]
      BY <2>1 DEF StartWriteFails, Salvage
    <3>3. QED
      BY <3>1, <3>2, RegEnd
  <2>2. ASSUME NEW j \in Jobs, BatchStartWriteFails(j) PROVE RegInv'
    <3>1. Live(j) /\ End(j) /\ UNCHANGED <<home, answered, cancelling>> /\ j \notin Kids
      BY <2>2 DEF BatchStartWriteFails, Live, LivePCs
    <3>2. PICK n \in 0 .. size[j] - 1, s \in {status[j], "running", "failed"} :
            status' = [i \in Jobs |->
              IF i = j THEN s
              ELSE IF i \in {k \in ItemsOf(j) : Index[k] <= n} THEN "queued" ELSE status[i]]
      BY <2>2 DEF BatchStartWriteFails
    <3>3. \A i \in Jobs : i # j =>
            status'[i] = status[i] \/ (i \in Kids /\ Parent[i] = j /\ status'[i] # "none")
      BY <3>2 DEF ItemsOf
    <3>4. status'[j] # "none" \/ status'[j] = status[j]
      BY <3>2
    <3>5. QED
      BY <3>1, <3>3, <3>4, RegEnd
  <2>3. ASSUME NEW j \in Jobs, BatchFinishFails(j) PROVE RegInv'
    <3>1. Live(j) /\ End(j) /\ UNCHANGED <<home, answered, cancelling>>
      BY <2>3 DEF BatchFinishFails, Gathered, Live, LivePCs
    <3>2. \E s \in {status[j], "failed"} : status' = [status EXCEPT ![j] = s]
      BY <2>3 DEF BatchFinishFails, Salvage
    <3>3. QED
      BY <3>1, <3>2, RegEnd
  <2>4. ASSUME NEW j \in Jobs, NEW o \in Outcomes, FinishWriteFails(j, o) PROVE RegInv'
    <3>1. Live(j) /\ End(j) /\ UNCHANGED <<home, answered, cancelling>>
      BY <2>4 DEF FinishWriteFails, CanResume, Live, LivePCs
    <3>2. \E s \in {status[j], "failed"} : status' = [status EXCEPT ![j] = s]
      BY <2>4 DEF FinishWriteFails, Salvage
    <3>3. QED
      BY <3>1, <3>2, RegEnd
  <2>5. ASSUME NEW r \in Replicas, CancelWriteFails(r) PROVE RegInv'
    BY <1>3, <2>5 DEF CancelWriteFails, dbVars
  <2>6. ASSUME NEW r \in Replicas, Crash(r) PROVE RegInv'
    BY <2>6 DEF Crash, dbVars, RegInv, RegisteredIffLive, LiveHome, Fresh, KidsWait, CancelKnown, Live, LivePCs
  <2>7. QED
    BY <1>5, <2>1, <2>2, <2>3, <2>4, <2>5, <2>6 DEF Fault
<1>6. CASE UNCHANGED vars
  BY <1>6 DEF vars, RegInv, RegisteredIffLive, LiveHome, Fresh, KidsWait, CancelKnown, Live
<1>7. QED
  BY <1>1, <1>2, <1>4, <1>5, <1>6, RequestSteps DEF Next

(* _running_jobs of a replica always holds exactly its running tasks. *)
THEOREM RegistryCorrect == Spec => []RegisteredIffLive
<1>1. RegInv => RegisteredIffLive
  BY DEF RegInv
<1>2. QED
  BY <1>1, TypeInit, TypeNext, RegInit, RegNext, PTL DEF Spec

(***************************************************************************)
(* One router process.  A cancel request and the task it cancels meet on   *)
(* one event loop: no task runs between the handler's read and its write,  *)
(* and the registry tells the handler the truth.                           *)
(***************************************************************************)
LiveOpen == \A j \in Top : Live(j) => status[j] \in {"queued", "running"}

ReadyQueued == \A j \in Top : pc[j] = "ready" => status[j] = "queued"

CancelOpen ==
  \A r \in Replicas : cancelling[r] # None => status[cancelling[r]] \in {"queued", "running"}

SingleInv == CancelIsFinal /\ LiveOpen /\ ReadyQueued /\ CancelOpen

LEMMA SingleInit == Init => SingleInv
  BY JobsConstants
  DEF Init, SingleInv, CancelIsFinal, LiveOpen, ReadyQueued, CancelOpen, Live, LivePCs, Jobs, Top

LEMMA Idle ==
  ASSUME RegInv, SingleReplica, NEW j \in Jobs, Live(j), Free(home[j])
  PROVE  \A r \in Replicas : cancelling[r] = None
  BY DEF RegInv, LiveHome, SingleReplica, Free

(* A step of a task that ends it. *)
LEMMA SingleEnd ==
  ASSUME TypeOK, RegInv, SingleInv, SingleReplica, NEW j \in Jobs,
         Live(j), Free(home[j]), End(j), UNCHANGED <<answered, cancelling>>,
         \A i \in Jobs : i # j => status'[i] = status[i] \/ i \in Kids
  PROVE  SingleInv'
<1> USE JobsConstants DEF TypeOK, Live, LivePCs, Jobs, Top
<1>1. \A r \in Replicas : cancelling[r] = None
  BY Idle
<1>2. CancelOpen'
  BY <1>1 DEF CancelOpen
<1>3. LiveOpen' /\ ReadyQueued'
  BY DEF SingleInv, LiveOpen, ReadyQueued, End
<1>4. CancelIsFinal'
  BY DEF SingleInv, CancelIsFinal, End
<1>5. QED
  BY <1>2, <1>3, <1>4 DEF SingleInv

LEMMA SingleNext ==
  SingleReplica /\ TypeOK /\ RegInv /\ SingleInv /\ [Next]_vars => SingleInv'
<1> SUFFICES ASSUME SingleReplica, TypeOK, RegInv, SingleInv, [Next]_vars PROVE SingleInv'
  OBVIOUS
<1> USE JobsConstants DEF TypeOK, Jobs, Top
<1>1. CASE Requests
  <2> USE DEF SingleInv, CancelIsFinal, LiveOpen, ReadyQueued, CancelOpen, Live, LivePCs
  <2>1. ASSUME NEW r \in Replicas, NEW p \in Pipelines, Relist(r, p) PROVE SingleInv'
    BY <2>1 DEF Relist, dbVars, taskVars
  <2>2. ASSUME NEW r \in Replicas, NEW p \in Pipelines, NEW j \in Singles, CreateJob(r, j, p)
        PROVE  SingleInv'
    BY <2>2 DEF CreateJob, RegInv, Fresh
  <2>3. ASSUME NEW r \in Replicas, NEW p \in Pipelines, NEW b \in Batches,
               NEW n \in Nat \ {0}, CreateBatch(r, b, p, n)
        PROVE  SingleInv'
    BY <2>3 DEF CreateBatch, RegInv, Fresh
  <2>4. ASSUME NEW r \in Replicas, NEW j \in Jobs, CancelRead(r, j) PROVE SingleInv'
    BY <2>4 DEF CancelRead, dbVars, taskVars
  <2>5. QED
    BY <1>1, <2>1, <2>2, <2>3, <2>4 DEF Requests
<1>2. ASSUME NEW j \in Jobs, TaskStep(j) PROVE SingleInv'
  <2>1. CASE StartJob(j)
    <3>1. Live(j) /\ Free(home[j]) /\ UNCHANGED <<answered, cancelling>>
          /\ status' = [status EXCEPT ![j] = "running"] /\ pc' = [pc EXCEPT ![j] = "calling"]
      BY <2>1 DEF StartJob, CanStart, Live, LivePCs
    <3>2. \A r \in Replicas : cancelling[r] = None
      BY <3>1, Idle
    <3>3. QED
      BY <3>1, <3>2 DEF SingleInv, CancelIsFinal, LiveOpen, ReadyQueued, CancelOpen, Live, LivePCs
  <2>2. CASE StartUnknown(j)
    BY <2>2, SingleEnd DEF StartUnknown, CanStart, Live, LivePCs
  <2>3. CASE StartRefused(j)
    BY <2>3, SingleEnd DEF StartRefused, CanStart, Live, LivePCs
  <2>4. CASE AbortJob(j)
    BY <2>4, SingleEnd DEF AbortJob, CanResume, Live, LivePCs
  <2>5. ASSUME NEW o \in Outcomes, StepReturns(j, o) PROVE SingleInv'
    BY <2>5 DEF StepReturns, dbVars, SingleInv, CancelIsFinal, LiveOpen, ReadyQueued, CancelOpen, Live
  <2>6. ASSUME NEW o \in Outcomes, FinishJob(j, o) PROVE SingleInv'
    <3>1. /\ Live(j) /\ Free(home[j]) /\ End(j) /\ UNCHANGED <<answered, cancelling>>
          /\ \A i \in Jobs : i # j => status'[i] = status[i]
      BY <2>6 DEF FinishJob, CanResume, Live, LivePCs
    <3>2. QED
      BY <3>1, SingleEnd
  <2>7. CASE BatchStart(j)
    <3>1. /\ Live(j) /\ Free(home[j]) /\ UNCHANGED <<answered, cancelling>>
          /\ \A i \in Top : i # j => status'[i] = status[i] /\ pc'[i] = pc[i]
          /\ status'[j] = "running" /\ pc'[j] = "gather"
      BY <2>7 DEF BatchStart, ItemsOf, Live, LivePCs
    <3>2. \A r \in Replicas : cancelling[r] = None
      BY <3>1, Idle
    <3>3. QED
      BY <3>1, <3>2 DEF SingleInv, CancelIsFinal, LiveOpen, ReadyQueued, CancelOpen, Live, LivePCs
  <2>8. CASE BatchFinish(j)
    BY <2>8, SingleEnd DEF BatchFinish, Gathered, Live, LivePCs
  <2>9. QED
    BY <1>2, <2>1, <2>2, <2>3, <2>4, <2>5, <2>6, <2>7, <2>8 DEF TaskStep
<1>3. ASSUME NEW r \in Replicas, CancelTasks(r), UNCHANGED home,
             \/ UNCHANGED <<status, answered>>
             \/ /\ status' = [status EXCEPT ![cancelling[r]] = "failed"]
                /\ answered' = answered \cup {cancelling[r]}
      PROVE  SingleInv'
  <2> DEFINE c == cancelling[r]
  <2>1. c \in Jobs
    BY <1>3 DEF CancelTasks
  <2>2. /\ pc' = [i \in Jobs |-> IF i \in Cancelled(r, c) THEN "cancelled" ELSE pc[i]]
        /\ cancelling' = [cancelling EXCEPT ![r] = None]
    BY <1>3 DEF CancelTasks
  <2>3. c \in Top /\ Live(c) => c \in Cancelled(r, c)
    BY DEF Cancelled, RegInv, RegisteredIffLive, LiveHome, SingleReplica
  <2>4. \A i \in Jobs : Live(i)' => Live(i) /\ i \notin Cancelled(r, c)
    BY <2>2 DEF Live, LivePCs
  <2>5. \A i \in Jobs : pc'[i] = "ready" => pc[i] = "ready" /\ i \notin Cancelled(r, c)
    BY <2>2
  <2>6. \A i \in Jobs : i # c => status'[i] = status[i]
    BY <1>3
  <2>7. LiveOpen'
    <3>1. ASSUME NEW i \in Top, Live(i)' PROVE status'[i] \in {"queued", "running"}
      <4>1. Live(i) /\ i # c
        BY <2>3, <2>4, <3>1
      <4>2. status'[i] = status[i]
        BY <2>6, <4>1
      <4>3. QED
        BY <4>1, <4>2 DEF SingleInv, LiveOpen
    <3>2. QED
      BY <3>1 DEF LiveOpen
  <2>8. ReadyQueued'
    <3>1. ASSUME NEW i \in Top, pc'[i] = "ready" PROVE status'[i] = "queued"
      <4>1. pc[i] = "ready" /\ i # c
        BY <2>3, <2>5, <3>1 DEF Live, LivePCs
      <4>2. status'[i] = status[i]
        BY <2>6, <4>1
      <4>3. QED
        BY <4>1, <4>2 DEF SingleInv, ReadyQueued
    <3>2. QED
      BY <3>1 DEF ReadyQueued
  <2>9. CancelOpen'
    BY <2>2 DEF CancelOpen, SingleReplica
  <2>10. CancelIsFinal'
    <3>1. ASSUME NEW i \in Top, i \in answered' PROVE status'[i] = "failed" /\ ~Live(i)'
      <4>1. CASE i = c /\ c \notin answered
        BY <1>3, <2>1, <2>3, <2>4, <3>1, <4>1
      <4>2. CASE i \in answered
        BY <1>3, <2>1, <2>4, <4>2 DEF SingleInv, CancelIsFinal
      <4>3. QED
        BY <1>3, <3>1, <4>1, <4>2
    <3>2. QED
      BY <3>1 DEF CancelIsFinal
  <2>11. QED
    BY <2>7, <2>8, <2>9, <2>10 DEF SingleInv
<1>4. ASSUME NEW r \in Replicas, CancelWrite(r) PROVE SingleInv'
  BY <1>3, <1>4 DEF CancelWrite
<1>5. CASE Fault
  <2>1. ASSUME NEW j \in Jobs, StartWriteFails(j) PROVE SingleInv'
    <3>1. Live(j) /\ Free(home[j]) /\ End(j) /\ UNCHANGED <<answered, cancelling>>
      BY <2>1 DEF StartWriteFails, CanStart, Live, LivePCs
    <3>2. \A i \in Jobs : i # j => status'[i] = status[i]
      BY <2>1 DEF StartWriteFails, Salvage
    <3>3. QED
      BY <3>1, <3>2, SingleEnd
  <2>2. ASSUME NEW j \in Jobs, BatchStartWriteFails(j) PROVE SingleInv'
    <3>1. Live(j) /\ Free(home[j]) /\ End(j) /\ UNCHANGED <<answered, cancelling>>
      BY <2>2 DEF BatchStartWriteFails, Live, LivePCs
    <3>2. PICK n \in 0 .. size[j] - 1, s \in {status[j], "running", "failed"} :
            status' = [i \in Jobs |->
              IF i = j THEN s
              ELSE IF i \in {k \in ItemsOf(j) : Index[k] <= n} THEN "queued" ELSE status[i]]
      BY <2>2 DEF BatchStartWriteFails
    <3>3. \A i \in Jobs : i # j => status'[i] = status[i] \/ i \in Kids
      BY <3>2 DEF ItemsOf
    <3>4. QED
      BY <3>1, <3>3, SingleEnd
  <2>3. ASSUME NEW j \in Jobs, BatchFinishFails(j) PROVE SingleInv'
    <3>1. Live(j) /\ Free(home[j]) /\ End(j) /\ UNCHANGED <<answered, cancelling>>
      BY <2>3 DEF BatchFinishFails, Gathered, Live, LivePCs
    <3>2. \A i \in Jobs : i # j => status'[i] = status[i]
      BY <2>3 DEF BatchFinishFails, Salvage
    <3>3. QED
      BY <3>1, <3>2, SingleEnd
  <2>4. ASSUME NEW j \in Jobs, NEW o \in Outcomes, FinishWriteFails(j, o) PROVE SingleInv'
    <3>1. Live(j) /\ Free(home[j]) /\ End(j) /\ UNCHANGED <<answered, cancelling>>
      BY <2>4 DEF FinishWriteFails, CanResume, Live, LivePCs
    <3>2. \A i \in Jobs : i # j => status'[i] = status[i]
      BY <2>4 DEF FinishWriteFails, Salvage
    <3>3. QED
      BY <3>1, <3>2, SingleEnd
  <2>5. ASSUME NEW r \in Replicas, CancelWriteFails(r) PROVE SingleInv'
    BY <1>3, <2>5 DEF CancelWriteFails, dbVars
  <2>6. ASSUME NEW r \in Replicas, Crash(r) PROVE SingleInv'
    BY <2>6 DEF Crash, dbVars, SingleInv, CancelIsFinal, LiveOpen, ReadyQueued, CancelOpen, Live, LivePCs
  <2>7. QED
    BY <1>5, <2>1, <2>2, <2>3, <2>4, <2>5, <2>6 DEF Fault
<1>6. CASE UNCHANGED vars
  BY <1>6 DEF vars, SingleInv, CancelIsFinal, LiveOpen, ReadyQueued, CancelOpen, Live
<1>7. QED
  BY <1>1, <1>2, <1>4, <1>5, <1>6, RequestSteps DEF Next

(* With one router process an answered cancel is final, whatever crashed    *)
(* and whatever statement failed before or after it.                        *)
THEOREM CancelFinal == ASSUME SingleReplica PROVE Spec => []CancelIsFinal
<1>1. SingleInv => CancelIsFinal
  BY DEF SingleInv
<1>2. TypeOK /\ RegInv /\ SingleInv /\ [Next]_vars => SingleInv'
  BY SingleNext
<1>3. QED
  BY <1>1, <1>2, TypeInit, TypeNext, RegInit, RegNext, SingleInit, PTL DEF Spec

(***************************************************************************)
(* Rows and the contract of the API, step by step.                         *)
(***************************************************************************)

(* What one step does to the rows of jobs that are visible at the top, with *)
(* one router process: nothing, or one job moves.                           *)
Moved(j, from, to) ==
  /\ j \in Top
  /\ status[j] \in from
  /\ status'[j] \in to
  /\ \A i \in Top : i # j => status'[i] = status[i]

Kept == \A i \in Top : status'[i] = status[i]

TopStep ==
  \/ Kept /\ answered' \cap Top = answered \cap Top
  \/ \E j \in Top :
       /\ answered' \cap Top = answered \cap Top
       /\ \/ Moved(j, {"none"}, {"queued"})
          \/ Moved(j, {"queued"}, {"running"})
          \/ Moved(j, {"queued", "running"}, Terminal)
  \/ \E j \in Top :
       /\ answered' \cap Top = (answered \cap Top) \cup {j}
       /\ Moved(j, {"queued", "running"}, {"failed"})

(* No step of one router process writes the row of an ended job. *)
RowsStand == \A j \in Jobs : status[j] \in Terminal /\ ~Live(j) => status'[j] = status[j]

(* The row of a live job may be closed, and only a new child appears. *)
LEMMA RowsOfTask ==
  ASSUME TypeOK, RegInv, SingleInv, SingleReplica, NEW j \in Jobs, Live(j),
         UNCHANGED answered,
         status'[j] = status[j] \/ status'[j] \in Terminal
           \/ (status'[j] = "running" /\ pc[j] = "ready"),
         \A i \in Jobs : i # j =>
           status'[i] = status[i] \/ (i \in Kids /\ status[i] = "none")
  PROVE  TopStep /\ RowsStand
<1> USE DEF Jobs
<1>1. RowsStand
  BY DEF RowsStand, Terminal
<1>0. \A i \in Top : i \notin Kids
  BY JobsConstants DEF Top
<1>2. CASE j \in Kids
  <2>1. Kept
    BY <1>0, <1>2 DEF Kept
  <2>2. QED
    BY <1>1, <2>1 DEF TopStep
<1>3. CASE j \in Top
  <2>1. status[j] \in {"queued", "running"} /\ (pc[j] = "ready" => status[j] = "queued")
    BY <1>3 DEF SingleInv, LiveOpen, ReadyQueued
  <2>2. \A i \in Top : i # j => status'[i] = status[i]
    BY <1>0
  <2>3. CASE status'[j] = status[j]
    BY <1>1, <2>2, <2>3 DEF TopStep, Kept
  <2>4. CASE status'[j] \in Terminal
    BY <1>1, <1>3, <2>1, <2>2, <2>4 DEF TopStep, Moved
  <2>5. CASE status'[j] = "running" /\ pc[j] = "ready"
    <3>1. Moved(j, {"queued"}, {"running"})
      BY <1>3, <2>1, <2>2, <2>5 DEF Moved
    <3>2. QED
      BY <1>1, <1>3, <3>1 DEF TopStep
  <2>6. QED
    BY <2>3, <2>4, <2>5
<1>4. QED
  BY <1>1, <1>2, <1>3

LEMMA RowsNext ==
  SingleReplica /\ TypeOK /\ RegInv /\ SingleInv /\ [Next]_vars => TopStep /\ RowsStand
<1> SUFFICES ASSUME SingleReplica, TypeOK, RegInv, SingleInv, [Next]_vars
             PROVE  TopStep /\ RowsStand
  OBVIOUS
<1> USE JobsConstants DEF TypeOK, Jobs, Top
<1>1. ASSUME UNCHANGED <<status, answered>> PROVE TopStep /\ RowsStand
  BY <1>1 DEF TopStep, Kept, RowsStand
<1>2. CASE Requests
  <2>1. ASSUME NEW j \in Top, status[j] = "none", status' = [status EXCEPT ![j] = "queued"],
               UNCHANGED answered
        PROVE  TopStep /\ RowsStand
    BY <2>1 DEF TopStep, Moved, RowsStand, Terminal
  <2>2. QED
    BY <1>1, <1>2, <2>1 DEF Requests, Relist, CreateJob, CreateBatch, CancelRead, dbVars
<1>3. ASSUME NEW j \in Jobs, TaskStep(j) PROVE TopStep /\ RowsStand
  <2>1. ASSUME Live(j), UNCHANGED answered,
               \E s \in Terminal : status' = [status EXCEPT ![j] = s]
        PROVE  TopStep /\ RowsStand
    BY <2>1, RowsOfTask
  <2>2. CASE StartJob(j)
    <3>1. /\ Live(j) /\ pc[j] = "ready" /\ UNCHANGED answered
          /\ status' = [status EXCEPT ![j] = "running"]
      BY <2>2 DEF StartJob, CanStart, Live, LivePCs
    <3>2. QED
      BY <3>1, RowsOfTask
  <2>3. CASE StartUnknown(j)
    BY <2>1, <2>3 DEF StartUnknown, CanStart, Live, LivePCs, Terminal
  <2>4. CASE StartRefused(j)
    BY <2>1, <2>4 DEF StartRefused, CanStart, Live, LivePCs, Terminal
  <2>5. CASE AbortJob(j)
    BY <2>1, <2>5 DEF AbortJob, CanResume, Live, LivePCs, Terminal
  <2>6. ASSUME NEW o \in Outcomes, StepReturns(j, o) PROVE TopStep /\ RowsStand
    BY <1>1, <2>6 DEF StepReturns, dbVars
  <2>7. ASSUME NEW o \in Outcomes, FinishJob(j, o) PROVE TopStep /\ RowsStand
    BY <2>1, <2>7 DEF FinishJob, CanResume, Live, LivePCs, Terminal
  <2>8. CASE BatchStart(j)
    <3>1. /\ Live(j) /\ pc[j] = "ready" /\ UNCHANGED answered
          /\ status'[j] = "running"
          /\ \A i \in Jobs : i # j => status'[i] = status[i] \/ i \in ItemsOf(j)
      BY <2>8 DEF BatchStart, Live, LivePCs
    <3>2. \A i \in ItemsOf(j) : i \in Kids /\ status[i] = "none"
      BY <3>1 DEF ItemsOf, RegInv, KidsWait
    <3>3. QED
      BY <3>1, <3>2, RowsOfTask
  <2>9. CASE BatchFinish(j)
    BY <2>1, <2>9 DEF BatchFinish, BatchStatus, Gathered, Live, LivePCs, Terminal
  <2>10. QED
    BY <1>3, <2>2, <2>3, <2>4, <2>5, <2>6, <2>7, <2>8, <2>9 DEF TaskStep
<1>4. ASSUME NEW r \in Replicas, CancelWrite(r) PROVE TopStep /\ RowsStand
  <2> DEFINE c == cancelling[r]
  <2>1. c \in Jobs /\ status[c] \in {"queued", "running"}
    BY <1>4 DEF CancelWrite, CancelTasks, SingleInv, CancelOpen
  <2>2. status' = [status EXCEPT ![c] = "failed"] /\ answered' = answered \cup {c}
    BY <1>4 DEF CancelWrite
  <2> HIDE DEF c
  <2>3. RowsStand
    BY <2>1, <2>2 DEF RowsStand, Terminal
  <2>4. CASE c \in Top
    <3>1. answered' \cap Top = (answered \cap Top) \cup {c}
      BY <2>2, <2>4
    <3>2. Moved(c, {"queued", "running"}, {"failed"})
      BY <2>1, <2>2, <2>4 DEF Moved
    <3>3. QED
      BY <2>3, <2>4, <3>1, <3>2 DEF TopStep
  <2>5. CASE c \notin Top
    BY <2>1, <2>2, <2>3, <2>5 DEF TopStep, Kept
  <2>6. QED
    BY <2>4, <2>5
<1>5. CASE Fault
  <2>1. ASSUME NEW j \in Jobs, Live(j), UNCHANGED answered,
               \/ \E s \in {status[j], "failed"} : status' = [status EXCEPT ![j] = s]
               \/ pc[j] = "ready" /\ status' = [status EXCEPT ![j] = "running"]
        PROVE  TopStep /\ RowsStand
    BY <2>1, RowsOfTask DEF Terminal
  <2>2. ASSUME NEW j \in Jobs, StartWriteFails(j) PROVE TopStep /\ RowsStand
    <3>1. Live(j) /\ pc[j] = "ready" /\ UNCHANGED answered
      BY <2>2 DEF StartWriteFails, CanStart, Live, LivePCs
    <3>2. \E s \in {status[j], "running", "failed"} : status' = [status EXCEPT ![j] = s]
      BY <2>2 DEF StartWriteFails, Salvage
    <3>3. QED
      BY <2>1, <3>1, <3>2
  <2>3. ASSUME NEW j \in Jobs, BatchStartWriteFails(j) PROVE TopStep /\ RowsStand
    <3>1. /\ Live(j) /\ pc[j] = "ready" /\ UNCHANGED answered
      BY <2>3 DEF BatchStartWriteFails, Live, LivePCs
    <3>2. PICK n \in 0 .. size[j] - 1, s \in {status[j], "running", "failed"} :
            status' = [i \in Jobs |->
              IF i = j THEN s
              ELSE IF i \in {k \in ItemsOf(j) : Index[k] <= n} THEN "queued" ELSE status[i]]
      BY <2>3 DEF BatchStartWriteFails
    <3>3. \A i \in ItemsOf(j) : i \in Kids /\ status[i] = "none"
      BY <2>3, <3>1 DEF ItemsOf, RegInv, KidsWait, BatchStartWriteFails
    <3>4. \A i \in Jobs : i # j => status'[i] = status[i] \/ (i \in Kids /\ status[i] = "none")
      BY <3>2, <3>3
    <3>5. status'[j] = s
      BY <3>2
    <3>6. QED
      BY <3>1, <3>4, <3>5, RowsOfTask DEF Terminal
  <2>4. ASSUME NEW j \in Jobs, BatchFinishFails(j) PROVE TopStep /\ RowsStand
    <3>1. Live(j) /\ UNCHANGED answered
      BY <2>4 DEF BatchFinishFails, Gathered, Live, LivePCs
    <3>2. \E s \in {status[j], "failed"} : status' = [status EXCEPT ![j] = s]
      BY <2>4 DEF BatchFinishFails, Salvage
    <3>3. QED
      BY <2>1, <3>1, <3>2
  <2>5. ASSUME NEW j \in Jobs, NEW o \in Outcomes, FinishWriteFails(j, o)
        PROVE  TopStep /\ RowsStand
    <3>1. Live(j) /\ UNCHANGED answered
      BY <2>5 DEF FinishWriteFails, CanResume, Live, LivePCs
    <3>2. \E s \in {status[j], "failed"} : status' = [status EXCEPT ![j] = s]
      BY <2>5 DEF FinishWriteFails, Salvage
    <3>3. QED
      BY <2>1, <3>1, <3>2
  <2>6. QED
    BY <1>1, <1>5, <2>2, <2>3, <2>4, <2>5 DEF Fault, CancelWriteFails, Crash, dbVars
<1>6. CASE UNCHANGED vars
  BY <1>1, <1>6 DEF vars
<1>7. QED
  BY <1>2, <1>3, <1>4, <1>5, <1>6, RequestSteps DEF Next

(* With one router process the row of a job that has ended is never written *)
(* again, by its task, by its batch or by a cancel request.                 *)
THEOREM EndedRowsStay == ASSUME SingleReplica PROVE Spec => EndedRowsStand
<1>1. TypeOK /\ RegInv /\ SingleInv /\ [Next]_vars => SingleInv'
  BY SingleNext
<1>2. TypeOK /\ RegInv /\ SingleInv /\ [Next]_vars
        => [\A j \in Jobs : status[j] \in Terminal /\ ~Live(j) => status'[j] = status[j]]_vars
  BY RowsNext DEF RowsStand
<1>3. QED
  BY <1>1, <1>2, TypeInit, TypeNext, RegInit, RegNext, SingleInit, PTL DEF Spec, EndedRowsStand

(* Every step of one router process is a step of JobLifecycle, or none.     *)
LEMMA LifecycleNext == TypeOK /\ TopStep => [Lifecycle!Next]_(Lifecycle!vars)
<1> SUFFICES ASSUME TypeOK, TopStep PROVE [Lifecycle!Next]_(Lifecycle!vars)
  OBVIOUS
<1> DEFINE state == [j \in Top |-> status[j]]
           cancelled == answered \cap Top
<1>1. CASE Kept /\ cancelled' = cancelled
  <2>1. state' = state
    BY <1>1 DEF Kept
  <2>2. QED
    BY <1>1, <2>1 DEF Lifecycle!vars
<1>2. ASSUME NEW j \in Top, NEW from, NEW to, Moved(j, from, to)
      PROVE  state[j] \in from /\ \E s \in to : state' = [state EXCEPT ![j] = s]
  <2>1. state[j] \in from
    BY <1>2 DEF Moved
  <2>2. state' = [state EXCEPT ![j] = status'[j]] /\ status'[j] \in to
    BY <1>2 DEF Moved
  <2>3. QED
    BY <2>1, <2>2
<1>3. ASSUME NEW j \in Top, cancelled' = cancelled,
             \/ Moved(j, {"none"}, {"queued"})
             \/ Moved(j, {"queued"}, {"running"})
             \/ Moved(j, {"queued", "running"}, Terminal)
      PROVE  Lifecycle!Next
  <2> HIDE DEF state, cancelled
  <2>1. CASE Moved(j, {"none"}, {"queued"})
    <3>1. Lifecycle!Submit(j)
      <4>1. state[j] \in {"none"} /\ state' = [state EXCEPT ![j] = "queued"]
        BY <1>2, <1>3, <2>1
      <4>2. QED
        BY <1>3, <4>1 DEF state, cancelled, Lifecycle!Submit, Lifecycle!Move
    <3>2. QED
      BY <3>1 DEF Lifecycle!Next
  <2>2. CASE Moved(j, {"queued"}, {"running"})
    <3>1. Lifecycle!Run(j)
      <4>1. state[j] \in {"queued"} /\ state' = [state EXCEPT ![j] = "running"]
        BY <1>2, <1>3, <2>2
      <4>2. QED
        BY <1>3, <4>1 DEF state, cancelled, Lifecycle!Run, Lifecycle!Move
    <3>2. QED
      BY <3>1 DEF Lifecycle!Next
  <2>3. CASE Moved(j, {"queued", "running"}, Terminal)
    <3>1. Lifecycle!Finish(j)
      <4>1. PICK s \in Terminal : state[j] \in {"queued", "running"}
                                  /\ state' = [state EXCEPT ![j] = s]
        BY <1>2, <1>3, <2>3
      <4>2. QED
        BY <1>3, <4>1 DEF state, cancelled, Lifecycle!Finish, Lifecycle!Move,
                          Lifecycle!Open, Lifecycle!Ended, Terminal
    <3>2. QED
      BY <3>1 DEF Lifecycle!Next
  <2>4. QED
    BY <1>3, <2>1, <2>2, <2>3
<1>4. ASSUME NEW j \in Top, cancelled' = cancelled \cup {j},
             Moved(j, {"queued", "running"}, {"failed"})
      PROVE  Lifecycle!Next
  <2>1. Lifecycle!Cancel(j)
    <3> HIDE DEF state, cancelled
    <3>1. state[j] \in {"queued", "running"} /\ state' = [state EXCEPT ![j] = "failed"]
      BY <1>2, <1>4
    <3>2. QED
      BY <1>4, <3>1 DEF state, cancelled, Lifecycle!Cancel, Lifecycle!Move, Lifecycle!Open
  <2>2. QED
    BY <2>1 DEF Lifecycle!Next
<1>5. QED
  BY <1>1, <1>3, <1>4 DEF TopStep

(* One router process implements the contract of the jobs API.              *)
THEOREM ImplementsLifecycle == ASSUME SingleReplica PROVE Spec => LifecycleSpec
<1>1. Init => Lifecycle!Init
  BY DEF Init, Lifecycle!Init, Jobs
<1>2. TypeOK /\ RegInv /\ SingleInv /\ [Next]_vars => SingleInv'
  BY SingleNext
<1>3. TypeOK /\ RegInv /\ SingleInv /\ [Next]_vars => [Lifecycle!Next]_(Lifecycle!vars)
  BY RowsNext, LifecycleNext
<1>4. QED
  BY <1>1, <1>2, <1>3, TypeInit, TypeNext, RegInit, RegNext, SingleInit, PTL
  DEF Spec, LifecycleSpec, Lifecycle!Spec

(***************************************************************************)
(* What "completed" means for a named pipeline, on any number of replicas. *)
(***************************************************************************)
NotDone(j) == status[j] # "completed" /\ \A i \in StepIx : stepRow[j][i] # "completed"

Undone == \A j \in Jobs \ Batches : Live(j) \/ pc[j] = "none" => NotDone(j)

RanInv == Undone /\ CompletedNamedRan

LEMMA RanInit == Init => RanInv
  BY JobsConstants DEF Init, RanInv, Undone, NotDone, CompletedNamedRan, CompletedRan, Jobs, Top

(* Nothing is marked as done and no run moves. *)
LEMMA RanQuiet ==
  ASSUME TypeOK, RanInv,
         \A j \in Jobs \ Batches : trace'[j] = trace[j] /\ pipe'[j] = pipe[j],
         \A j \in Jobs : Live(j)' \/ pc'[j] = "none" => Live(j) \/ pc[j] = "none",
         \A j \in Jobs \ Batches : status'[j] = status[j] \/ status'[j] # "completed",
         \A j \in Jobs \ Batches : \A i \in StepIx :
           stepRow'[j][i] = stepRow[j][i] \/ stepRow'[j][i] # "completed"
  PROVE  RanInv'
<1>1. Undone'
  BY DEF RanInv, Undone, NotDone
<1>2. CompletedNamedRan'
  BY DEF RanInv, CompletedNamedRan, CompletedRan, Ran
<1>3. QED
  BY <1>1, <1>2 DEF RanInv

(* The run of a job ends with its last call. *)
LEMMA RanFinish ==
  ASSUME TypeOK, RanInv, NEW j \in Jobs \ Batches, NEW o \in Outcomes,
         Live(j), End(j), UNCHANGED pipe,
         Len(Append(trace[j], o)) = NSteps,
         trace' = [trace EXCEPT ![j] = Append(trace[j], o)],
         \A i \in Jobs : i # j => status'[i] = status[i] /\ stepRow'[i] = stepRow[i],
         \A i \in StepIx : stepRow'[j][i] = "completed"
                            => Append(trace[j], o)[i] # "err" \/ stepRow[j][i] = "completed",
         status'[j] = "completed" => \/ \A i \in StepIx : Append(trace[j], o)[i] # "err"
                                    \/ status[j] = "completed"
  PROVE  RanInv'
<1> DEFINE run == Append(trace[j], o)
<1>1. run \in Seq(Outcomes) /\ Len(run) = NSteps /\ trace'[j] = run
  BY DEF TypeOK
<1>2. \A i \in StepIx : run[i] \in Outcomes
  BY <1>1, JobsConstants DEF StepIx
<1>3. NotDone(j)
  BY DEF RanInv, Undone
<1>4. \A i \in StepIx : stepRow'[j][i] = "completed" => run[i] = "ok"
  BY <1>2, <1>3 DEF NotDone, Outcomes
<1>5. status'[j] = "completed" => \A i \in StepIx : run[i] = "ok"
  BY <1>2, <1>3 DEF NotDone, Outcomes
<1> HIDE DEF run
<1>6. CompletedRan(j)'
  <2>1. ASSUME NEW i \in StepIx, run[i] = "ok" PROVE Ran(j, i)'
    <3>1. i <= Len(trace'[j])
      BY <1>1, JobsConstants DEF StepIx
    <3>2. trace'[j][i] = "ok"
      BY <1>1, <2>1
    <3>3. QED
      BY ONLY <3>1, <3>2 DEF Ran
  <2>2. QED
    BY <1>4, <1>5, <2>1 DEF CompletedRan
<1>7. \A i \in Jobs : i # j => (CompletedRan(i) <=> CompletedRan(i)')
  BY DEF CompletedRan, Ran, TypeOK
<1>8. CompletedNamedRan'
  BY <1>6, <1>7 DEF RanInv, CompletedNamedRan
<1>9. ~(Live(j)' \/ pc'[j] = "none") /\ \A i \in Jobs : i # j => pc'[i] = pc[i]
  BY DEF End, Live, LivePCs, TypeOK
<1>10. Undone'
  BY <1>9 DEF RanInv, Undone, NotDone, Live
<1>11. QED
  BY <1>8, <1>10 DEF RanInv

(* A pipeline is chosen for jobs of which nothing is done. *)
LEMMA RanCreate ==
  ASSUME TypeOK, RanInv, UNCHANGED <<trace, stepRow>>, NEW made \in SUBSET Jobs,
         \A k \in made : pc[k] = "none" /\ status'[k] # "completed",
         \A j \in Jobs : j \notin made =>
           /\ pipe'[j] = pipe[j]
           /\ j \notin Batches => status'[j] = status[j] \/ status'[j] # "completed",
         \A j \in Jobs \ Batches : Live(j)' \/ pc'[j] = "none" => Live(j) \/ pc[j] = "none"
  PROVE  RanInv'
<1>1. Undone'
  BY DEF RanInv, Undone, NotDone
<1>2. ASSUME NEW j \in Jobs \ Batches, pipe'[j] # None, Engine[pipe'[j]] = "named"
      PROVE  CompletedRan(j)'
  <2>1. CASE j \in made
    BY <2>1 DEF RanInv, Undone, NotDone, CompletedRan
  <2>2. CASE j \notin made
    BY <1>2, <2>2 DEF RanInv, CompletedNamedRan, CompletedRan, Ran
  <2>3. QED
    BY <2>1, <2>2
<1>3. QED
  BY <1>1, <1>2 DEF RanInv, CompletedNamedRan

LEMMA RanNext == TypeOK /\ RegInv /\ RanInv /\ [Next]_vars => RanInv'
<1> SUFFICES ASSUME TypeOK, RegInv, RanInv, [Next]_vars PROVE RanInv'
  OBVIOUS
<1> USE JobsConstants DEF TypeOK
<1>1. ASSUME UNCHANGED <<status, stepRow, trace, pipe, pc>> PROVE RanInv'
  BY <1>1, RanQuiet DEF Live
<1>2. CASE Requests
  <2>1. ASSUME NEW j \in Top, status[j] = "none", UNCHANGED <<trace, stepRow>>,
               status' = [status EXCEPT ![j] = "queued"],
               pc' = [pc EXCEPT ![j] = "ready"],
               NEW p \in Pipelines, pipe' = [pipe EXCEPT ![j] = p]
        PROVE  RanInv'
    <3>1. pc[j] = "none" /\ j \in Jobs
      BY <2>1 DEF RegInv, Fresh, Jobs
    <3>2. {j} \in SUBSET Jobs
      BY <3>1
    <3>3. \A i \in Jobs : Live(i)' \/ pc'[i] = "none" => Live(i) \/ pc[i] = "none"
      BY <2>1, <3>1 DEF Live
    <3>4. \A k \in {j} : pc[k] = "none" /\ status'[k] # "completed"
      BY <2>1, <3>1
    <3>5. \A i \in Jobs : i \notin {j} =>
            /\ pipe'[i] = pipe[i]
            /\ i \notin Batches => status'[i] = status[i] \/ status'[i] # "completed"
      BY <2>1
    <3>6. \A i \in Jobs \ Batches : Live(i)' \/ pc'[i] = "none" => Live(i) \/ pc[i] = "none"
      BY <3>3
    <3>7. UNCHANGED <<trace, stepRow>>
      BY <2>1
    <3>8. QED
      BY ONLY TypeOK, RanInv, <3>2, <3>4, <3>5, <3>6, <3>7, RanCreate
  <2>2. QED
    BY <1>1, <1>2, <2>1
    DEF Requests, Relist, CreateJob, CreateBatch, CancelRead, dbVars, taskVars, Top
<1>3. ASSUME NEW j \in Jobs, End(j), Live(j)
      PROVE  \A i \in Jobs : Live(i)' \/ pc'[i] = "none" => Live(i) \/ pc[i] = "none"
  BY <1>3 DEF End, Live, LivePCs
<1>4. ASSUME NEW j \in Jobs, TaskStep(j) PROVE RanInv'
  <2>1. CASE StartJob(j)
    <3>1. \A i \in Jobs : Live(i)' \/ pc'[i] = "none" => Live(i) \/ pc[i] = "none"
      BY <2>1 DEF StartJob, CanStart, Live, LivePCs
    <3>2. QED
      BY <2>1, <3>1, RanQuiet DEF StartJob
  <2>2. CASE StartUnknown(j)
    <3>1. Live(j) /\ End(j) /\ status' = [status EXCEPT ![j] = "failed"]
          /\ UNCHANGED <<stepRow, trace, pipe>>
      BY <2>2 DEF StartUnknown, CanStart, Live, LivePCs
    <3>2. QED
      BY <1>3, <3>1, RanQuiet
  <2>3. CASE StartRefused(j)
    <3>1. Live(j) /\ End(j) /\ UNCHANGED <<trace, pipe>> /\ j \notin Batches
      BY <2>3 DEF StartRefused, CanStart, Live, LivePCs, Top
    <3>2. CASE Engine[pipe[j]] = "named"
      BY <1>3, <2>3, <3>1, <3>2, RanQuiet DEF StartRefused
    <3>3. CASE Engine[pipe[j]] # "named"
      <4>1. \A i \in Jobs : i # j => status'[i] = status[i] /\ stepRow'[i] = stepRow[i]
        BY <2>3 DEF StartRefused
      <4>2. CompletedNamedRan'
        <5>1. \A i \in Jobs : i # j => (CompletedRan(i) <=> CompletedRan(i)')
          BY <3>1, <4>1 DEF CompletedRan, Ran
        <5>2. QED
          BY <3>1, <3>3, <5>1 DEF RanInv, CompletedNamedRan
      <4>3. \A i \in Jobs : Live(i)' \/ pc'[i] = "none" => i # j /\ (Live(i) \/ pc[i] = "none")
        BY <3>1 DEF End, Live, LivePCs
      <4>4. Undone'
        BY <4>1, <4>3 DEF RanInv, Undone, NotDone
      <4>5. QED
        BY <4>2, <4>4 DEF RanInv
    <3>4. QED
      BY <3>2, <3>3
  <2>4. CASE AbortJob(j)
    <3>1. Live(j) /\ End(j) /\ status' = [status EXCEPT ![j] = "failed"]
          /\ UNCHANGED <<stepRow, trace, pipe>>
      BY <2>4 DEF AbortJob, CanResume, Live, LivePCs
    <3>2. QED
      BY <1>3, <3>1, RanQuiet
  <2>5. ASSUME NEW o \in Outcomes, StepReturns(j, o) PROVE RanInv'
    <3>1. Live(j) /\ UNCHANGED <<status, stepRow, pipe, pc>>
          /\ \A i \in Jobs : i # j => trace'[i] = trace[i]
      BY <2>5 DEF StepReturns, CanResume, dbVars, Live, LivePCs
    <3>2. Undone'
      BY <3>1 DEF RanInv, Undone, NotDone, Live
    <3>3. j \notin Batches => CompletedRan(j)'
      BY <3>1 DEF RanInv, Undone, NotDone, CompletedRan
    <3>4. \A i \in Jobs : i # j => (CompletedRan(i) <=> CompletedRan(i)')
      BY <3>1 DEF CompletedRan, Ran
    <3>5. CompletedNamedRan'
      BY <3>1, <3>3, <3>4 DEF RanInv, CompletedNamedRan
    <3>6. QED
      BY <3>2, <3>5 DEF RanInv
  <2>6. ASSUME NEW o \in Outcomes, FinishJob(j, o) PROVE RanInv'
    <3> DEFINE run == Append(trace[j], o)
    <3>1. /\ Live(j) /\ End(j) /\ UNCHANGED pipe /\ Len(run) = NSteps
          /\ trace' = [trace EXCEPT ![j] = run]
          /\ stepRow' = [stepRow EXCEPT ![j] = [i \in StepIx |-> RowOf(run[i])]]
          /\ status' = [status EXCEPT
               ![j] = IF \E i \in StepIx : run[i] = "err" THEN "failed" ELSE "completed"]
      BY <2>6 DEF FinishJob, CanResume, Live, LivePCs
    <3> HIDE DEF run
    <3>2. \A i \in Jobs : i # j => /\ status'[i] = status[i] /\ stepRow'[i] = stepRow[i]
                                  /\ trace'[i] = trace[i]
      BY <3>1
    <3>3. CASE j \in Batches
      BY <1>3, <3>1, <3>2, <3>3, RanQuiet
    <3>4. CASE j \notin Batches
      <4>1. \A i \in StepIx : stepRow'[j][i] = "completed" => run[i] # "err"
        BY <3>1 DEF RowOf
      <4>2. status'[j] = "completed" => \A i \in StepIx : run[i] # "err"
        BY <3>1
      <4>3. /\ Live(j) /\ End(j) /\ UNCHANGED pipe /\ Len(run) = NSteps
            /\ trace' = [trace EXCEPT ![j] = run]
        BY <3>1
      <4>4. \A i \in Jobs : i # j => status'[i] = status[i] /\ stepRow'[i] = stepRow[i]
        BY <3>2
      <4>5. QED
        BY ONLY TypeOK, RanInv, j \in Jobs, o \in Outcomes, <3>4, <4>1, <4>2, <4>3, <4>4,
                RanFinish DEF run
    <3>5. QED
      BY <3>3, <3>4
  <2>7. CASE BatchStart(j)
    <3>1. \A k \in ItemsOf(j) : pc[k] = "none" /\ k \in Jobs
      BY <2>7 DEF BatchStart, ItemsOf, RegInv, KidsWait, Jobs
    <3>2. ItemsOf(j) \in SUBSET Jobs
      BY <3>1
    <3>3. \A i \in Jobs \ Batches : Live(i)' \/ pc'[i] = "none" => Live(i) \/ pc[i] = "none"
      BY <2>7, <3>1 DEF BatchStart, Live, LivePCs
    <3>4. QED
      BY <2>7, <3>1, <3>2, <3>3, RanCreate DEF BatchStart
  <2>8. CASE BatchFinish(j)
    <3>1. Live(j) /\ End(j) /\ UNCHANGED <<stepRow, trace, pipe>> /\ j \in Batches
          /\ \A i \in Jobs : i # j => status'[i] = status[i]
      BY <2>8 DEF BatchFinish, Gathered, Live, LivePCs
    <3>2. QED
      BY <1>3, <3>1, RanQuiet
  <2>9. QED
    BY <1>4, <2>1, <2>2, <2>3, <2>4, <2>5, <2>6, <2>7, <2>8 DEF TaskStep
<1>5. ASSUME NEW r \in Replicas, CancelTasks(r), UNCHANGED <<stepRow, trace, pipe>>,
             UNCHANGED status \/ status' = [status EXCEPT ![cancelling[r]] = "failed"]
      PROVE  RanInv'
  <2>1. \A i \in Jobs : Live(i)' \/ pc'[i] = "none" => Live(i) \/ pc[i] = "none"
    BY <1>5 DEF CancelTasks, Live, LivePCs
  <2>2. QED
    BY <1>5, <2>1, RanQuiet
<1>6. ASSUME NEW r \in Replicas, CancelWrite(r) PROVE RanInv'
  BY <1>5, <1>6 DEF CancelWrite
<1>7. CASE Fault
  <2>1. ASSUME NEW j \in Jobs, StartWriteFails(j) PROVE RanInv'
    <3>1. Live(j) /\ End(j) /\ UNCHANGED <<trace, pipe>> /\ j \notin Batches
      BY <2>1 DEF StartWriteFails, CanStart, Live, LivePCs, Top
    <3>2. \E s \in {status[j], "running", "failed"} : status' = [status EXCEPT ![j] = s]
      BY <2>1 DEF StartWriteFails, Salvage
    <3>3. \A i \in Jobs \ Batches : \A x \in StepIx :
            stepRow'[i][x] = stepRow[i][x] \/ stepRow'[i][x] # "completed"
      <4>1. CASE UNCHANGED stepRow
        BY <4>1
      <4>2. ASSUME NEW n \in 0 .. NSteps - 1,
                   stepRow' = [stepRow EXCEPT
                     ![j] = [i \in StepIx |-> IF i <= n THEN "queued" ELSE stepRow[j][i]]]
            PROVE  \A i \in Jobs \ Batches : \A x \in StepIx :
                     stepRow'[i][x] = stepRow[i][x] \/ stepRow'[i][x] # "completed"
        BY <4>2
      <4>3. QED
        BY <2>1, <4>1, <4>2 DEF StartWriteFails
    <3>4. QED
      BY <1>3, <3>1, <3>2, <3>3, RanQuiet
  <2>2. ASSUME NEW j \in Jobs, BatchStartWriteFails(j) PROVE RanInv'
    <3>1. /\ Live(j) /\ End(j) /\ UNCHANGED <<stepRow, trace>> /\ j \in Batches
          /\ \A k \in ItemsOf(j) : pc[k] = "none"
      BY <2>2 DEF BatchStartWriteFails, ItemsOf, RegInv, KidsWait, Live, LivePCs
    <3>2. PICK n \in 0 .. size[j] - 1, s \in {status[j], "running", "failed"} :
            LET made == {k \in ItemsOf(j) : Index[k] <= n}
            IN  /\ status' = [i \in Jobs |-> IF i = j THEN s
                                             ELSE IF i \in made THEN "queued" ELSE status[i]]
                /\ pipe' = [i \in Jobs |-> IF i \in made THEN pipe[j] ELSE pipe[i]]
      BY <2>2 DEF BatchStartWriteFails
    <3> DEFINE made == {k \in ItemsOf(j) : Index[k] <= n}
    <3>3. made \in SUBSET Jobs /\ \A k \in made : pc[k] = "none" /\ k \notin Batches
      BY <3>1 DEF ItemsOf, Jobs, Top
    <3> HIDE DEF made
    <3>4. \A k \in made : pc[k] = "none" /\ status'[k] # "completed"
      BY <3>1, <3>2, <3>3 DEF made
    <3>5. \A i \in Jobs : i \notin made =>
            /\ pipe'[i] = pipe[i]
            /\ i \notin Batches => status'[i] = status[i] \/ status'[i] # "completed"
      BY <3>1, <3>2 DEF made
    <3>6. \A i \in Jobs \ Batches : Live(i)' \/ pc'[i] = "none" => Live(i) \/ pc[i] = "none"
      BY <1>3, <3>1
    <3>7. UNCHANGED <<trace, stepRow>>
      BY <3>1
    <3>8. QED
      BY ONLY TypeOK, RanInv, <3>3, <3>4, <3>5, <3>6, <3>7, RanCreate
  <2>3. ASSUME NEW j \in Jobs, BatchFinishFails(j) PROVE RanInv'
    <3>1. Live(j) /\ End(j) /\ UNCHANGED <<stepRow, trace, pipe>>
      BY <2>3 DEF BatchFinishFails, Gathered, Live, LivePCs
    <3>2. \E s \in {status[j], "failed"} : status' = [status EXCEPT ![j] = s]
      BY <2>3 DEF BatchFinishFails, Salvage
    <3>3. QED
      BY <1>3, <3>1, <3>2, RanQuiet
  <2>4. ASSUME NEW j \in Jobs, NEW o \in Outcomes, FinishWriteFails(j, o) PROVE RanInv'
    <3> DEFINE run == Append(trace[j], o)
    <3>1. /\ Live(j) /\ End(j) /\ UNCHANGED pipe /\ Len(run) = NSteps
          /\ trace' = [trace EXCEPT ![j] = run]
      BY <2>4 DEF FinishWriteFails, CanResume, Live, LivePCs
    <3>2. PICK s \in {status[j], "failed"} : status' = [status EXCEPT ![j] = s]
      BY <2>4 DEF FinishWriteFails, Salvage
    <3>3. PICK n \in 0 .. NSteps :
            stepRow' = [stepRow EXCEPT
              ![j] = [i \in StepIx |-> IF i <= n THEN RowOf(run[i]) ELSE stepRow[j][i]]]
      BY <2>4 DEF FinishWriteFails
    <3> HIDE DEF run
    <3>4. \A i \in Jobs : i # j => /\ status'[i] = status[i] /\ stepRow'[i] = stepRow[i]
                                  /\ trace'[i] = trace[i]
      BY <3>1, <3>2, <3>3
    <3>5. CASE j \in Batches
      BY <1>3, <3>1, <3>4, <3>5, RanQuiet
    <3>6. CASE j \notin Batches
      <4>1. \A i \in StepIx : stepRow'[j][i] = "completed"
                              => run[i] # "err" \/ stepRow[j][i] = "completed"
        BY <3>3 DEF RowOf
      <4>2. status'[j] = "completed" => status[j] = "completed"
        BY <3>2
      <4>3. QED
        BY <3>1, <3>4, <3>6, <4>1, <4>2, RanFinish DEF run
    <3>7. QED
      BY <3>5, <3>6
  <2>5. ASSUME NEW r \in Replicas, CancelWriteFails(r) PROVE RanInv'
    BY <1>5, <2>5 DEF CancelWriteFails, dbVars
  <2>6. ASSUME NEW r \in Replicas, Crash(r) PROVE RanInv'
    <3>1. \A i \in Jobs : Live(i)' \/ pc'[i] = "none" => Live(i) \/ pc[i] = "none"
      BY <2>6 DEF Crash, Live, LivePCs
    <3>2. QED
      BY <2>6, <3>1, RanQuiet DEF Crash, dbVars
  <2>7. QED
    BY <1>7, <2>1, <2>2, <2>3, <2>4, <2>5, <2>6 DEF Fault
<1>8. CASE UNCHANGED vars
  BY <1>1, <1>8 DEF vars
<1>9. QED
  BY <1>2, <1>4, <1>6, <1>7, <1>8, RequestSteps DEF Next

(* A named job that is shown as completed ran all its steps without error,  *)
(* and a step row that says completed is a call that returned without one.  *)
THEOREM CompletedMeansDone == Spec => []CompletedNamedRan
<1>1. RanInv => CompletedNamedRan
  BY DEF RanInv
<1>2. QED
  BY <1>1, TypeInit, TypeNext, RegInit, RegNext, RanInit, RanNext, PTL DEF Spec

(***************************************************************************)
(* Open rows.  Without faults a row is open only as long as something will *)
(* move it; a batch that is over leaves no open child, and one that was    *)
(* cancelled leaves those it stopped.                                      *)
(***************************************************************************)
Orphan(j) == j \in Kids /\ pc[Parent[j]] = "cancelled"

OpenHasTask == \A j \in Jobs : status[j] \in {"queued", "running"} => Live(j) \/ Orphan(j)

(* A task that ends with its row closed leaves the others as they were. *)
LEMMA OpenEnd ==
  ASSUME TypeOK, OpenHasTask, NEW j \in Jobs, NEW s \in Terminal, Live(j), End(j),
         status' = [status EXCEPT ![j] = s]
  PROVE  OpenHasTask'
<1> USE JobsConstants DEF TypeOK, Live, LivePCs, Jobs, Top, Orphan
<1>1. status'[j] \notin {"queued", "running"}
  BY DEF Terminal
<1>2. \A i \in Jobs : i # j => pc'[i] = pc[i] /\ status'[i] = status[i]
  BY DEF End
<1>3. \A i \in Kids : Orphan(i) => Orphan(i)'
  BY <1>2
<1>4. QED
  BY <1>1, <1>2, <1>3 DEF OpenHasTask

LEMMA OpenNext ==
  ASSUME TypeOK, RegInv, OpenHasTask, [Next]_vars, ~Crashes, ~DbFaults
  PROVE  OpenHasTask'
<1> USE JobsConstants DEF TypeOK, Jobs, Top
<1>1. CASE Requests
  <2> USE DEF OpenHasTask, Orphan, Live, LivePCs
  <2>1. ASSUME NEW r \in Replicas, NEW p \in Pipelines, Relist(r, p) PROVE OpenHasTask'
    BY <2>1 DEF Relist, dbVars, taskVars
  <2>2. ASSUME NEW r \in Replicas, NEW p \in Pipelines, NEW j \in Singles, CreateJob(r, j, p)
        PROVE  OpenHasTask'
    BY <2>2 DEF CreateJob
  <2>3. ASSUME NEW r \in Replicas, NEW p \in Pipelines, NEW b \in Batches,
               NEW n \in Nat \ {0}, CreateBatch(r, b, p, n)
        PROVE  OpenHasTask'
    <3>1. pc[b] = "none"
      BY <2>3 DEF CreateBatch, RegInv, Fresh
    <3>2. QED
      BY <2>3, <3>1 DEF CreateBatch
  <2>4. ASSUME NEW r \in Replicas, NEW j \in Jobs, CancelRead(r, j) PROVE OpenHasTask'
    BY <2>4 DEF CancelRead, dbVars, taskVars
  <2>5. QED
    BY <1>1, <2>1, <2>2, <2>3, <2>4 DEF Requests
<1>2. ASSUME NEW j \in Jobs, TaskStep(j) PROVE OpenHasTask'
  <2>1. CASE StartJob(j)
    BY <2>1 DEF StartJob, CanStart, OpenHasTask, Orphan, Live, LivePCs
  <2>2. CASE StartUnknown(j)
    BY <2>2, OpenEnd DEF StartUnknown, CanStart, Live, LivePCs, Terminal
  <2>3. CASE StartRefused(j)
    BY <2>3, OpenEnd DEF StartRefused, CanStart, Live, LivePCs, Terminal
  <2>4. CASE AbortJob(j)
    BY <2>4, OpenEnd DEF AbortJob, CanResume, Live, LivePCs, Terminal
  <2>5. ASSUME NEW o \in Outcomes, StepReturns(j, o) PROVE OpenHasTask'
    BY <2>5 DEF StepReturns, dbVars, OpenHasTask, Orphan, Live
  <2>6. ASSUME NEW o \in Outcomes, FinishJob(j, o) PROVE OpenHasTask'
    <3>1. Live(j) /\ End(j)
      BY <2>6 DEF FinishJob, CanResume, Live, LivePCs
    <3>2. \E s \in Terminal : status' = [status EXCEPT ![j] = s]
      BY <2>6 DEF FinishJob, Terminal
    <3>3. QED
      BY <3>1, <3>2, OpenEnd
  <2>7. CASE BatchStart(j)
    <3>1. /\ j \in Batches /\ pc[j] = "ready"
          /\ \A i \in Jobs : i # j /\ i \notin ItemsOf(j) =>
               pc'[i] = pc[i] /\ status'[i] = status[i]
          /\ pc'[j] = "gather"
          /\ \A i \in ItemsOf(j) : i # j => pc'[i] = "ready"
      BY <2>7 DEF BatchStart, ItemsOf
    <3>2. \A i \in Batches : i # j => pc'[i] = pc[i]
      BY <3>1 DEF ItemsOf
    <3>3. \A i \in Jobs : Live(i) => Live(i)'
      BY <3>1 DEF Live, LivePCs
    <3>4. \A i \in Kids : Orphan(i) => Orphan(i)'
      BY <3>1, <3>2 DEF Orphan
    <3>5. \A i \in ItemsOf(j) : i # j => Live(i)'
      BY <3>1 DEF Live, LivePCs
    <3>6. Live(j)'
      BY <3>1 DEF Live, LivePCs
    <3>7. QED
      BY <3>1, <3>3, <3>4, <3>5, <3>6 DEF OpenHasTask, Orphan
  <2>8. CASE BatchFinish(j)
    BY <2>8, OpenEnd DEF BatchFinish, Gathered, BatchStatus, Live, LivePCs, Terminal
  <2>9. QED
    BY <1>2, <2>1, <2>2, <2>3, <2>4, <2>5, <2>6, <2>7, <2>8 DEF TaskStep
<1>3. ASSUME NEW r \in Replicas, CancelWrite(r) PROVE OpenHasTask'
  <2> DEFINE c == cancelling[r]
  <2>1. /\ c \in Jobs
        /\ pc' = [i \in Jobs |-> IF i \in Cancelled(r, c) THEN "cancelled" ELSE pc[i]]
        /\ status' = [status EXCEPT ![c] = "failed"]
    BY <1>3 DEF CancelWrite, CancelTasks
  <2>2. \A i \in Cancelled(r, c) : i # c => i \in Kids /\ Parent[i] = c /\ c \in Cancelled(r, c)
    BY DEF Cancelled
  <2>3. \A i \in Kids : Orphan(i) => Orphan(i)'
    BY <2>1 DEF Orphan
  <2>4. \A i \in Jobs : i # c /\ Live(i) => Live(i)' \/ Orphan(i)'
    BY <2>1, <2>2 DEF Orphan, Live
  <2>5. QED
    BY <2>1, <2>3, <2>4 DEF OpenHasTask, Orphan
<1>4. CASE Fault
  BY <1>4
  DEF Fault, StartWriteFails, BatchStartWriteFails, BatchFinishFails, FinishWriteFails,
      CancelWriteFails, Crash
<1>5. CASE UNCHANGED vars
  BY <1>5 DEF vars, OpenHasTask, Orphan, Live
<1>6. QED
  BY <1>1, <1>2, <1>3, <1>4, <1>5, RequestSteps DEF Next

(* See OpenRowsHaveTasks: without crashes and failing statements, on any   *)
(* number of replicas, a row that is shown as open is moved by a task, or  *)
(* belongs to a child of a batch that was cancelled.                       *)
THEOREM OpenRowsMove == Spec => []OpenRowsHaveTasks
<1> DEFINE IInv == ~Crashes /\ ~DbFaults => OpenHasTask
<1>1. Init => IInv
  BY DEF Init, OpenHasTask
<1>2. TypeOK /\ RegInv /\ IInv /\ [Next]_vars => IInv'
  BY OpenNext
<1>3. IInv => OpenRowsHaveTasks
  BY DEF OpenHasTask, Orphan, OpenRowsHaveTasks
<1>4. QED
  BY <1>1, <1>2, <1>3, TypeInit, TypeNext, RegInit, RegNext, PTL DEF Spec

(***************************************************************************)
(* What a batch says of its children.  While its task gathers, each child  *)
(* runs on the same replica and stops there only by ending, unless the     *)
(* batch stops with it; so a batch that is done has children that are, and *)
(* their rows tell.  It has a child, for a batch is never created empty.   *)
(***************************************************************************)
DoneIsOver == \A j \in Jobs : pc[j] = "done" => status[j] \in Terminal

Tells(b) ==
  /\ status[b] = "failed" =>
       b \in answered \/ \A k \in ItemsOf(b) : status[k] # "completed"
  /\ status[b] = "completed" =>
       \/ \E k \in ItemsOf(b) : status[k] = "completed"
       \/ ItemsOf(b) \cap answered # {}

BatchSound(b) ==
  /\ pc[b] # "calling"
  /\ pc[b] # "none" => ItemsOf(b) # {}
  /\ pc[b] = "gather" =>
       \A k \in ItemsOf(b) : pc[k] \in {"ready", "calling", "done"} /\ home[k] = home[b]
  /\ pc[b] = "done" => Tells(b) /\ \A k \in ItemsOf(b) : pc[k] = "done"

GatherInv == DoneIsOver /\ \A b \in Batches : BatchSound(b)

LEMMA GatherInit == Init => GatherInv
  BY JobsConstants DEF Init, GatherInv, DoneIsOver, BatchSound, Jobs, Top

LEMMA Items ==
  ASSUME UNCHANGED size, NEW b \in Batches
  PROVE  /\ ItemsOf(b)' = ItemsOf(b)
         /\ ItemsOf(b) \subseteq Kids
         /\ \A k \in ItemsOf(b) : k \in Jobs /\ k \notin Top /\ Parent[k] = b
  BY JobsConstants DEF ItemsOf, Jobs

(* A batch none of whose rows and tasks a step touches stays sound. *)
LEMMA GatherSame ==
  ASSUME NEW b \in Batches, BatchSound(b), UNCHANGED <<size, home[b], pc[b], status[b]>>,
         answered \subseteq answered',
         \A k \in ItemsOf(b) : /\ UNCHANGED <<pc[k], home[k]>>
                               /\ \/ UNCHANGED status[k]
                                  \/ status'[k] = "failed" /\ k \in answered'
  PROVE  BatchSound(b)'
<1>1. ItemsOf(b)' = ItemsOf(b)
  BY Items
<1>2. pc[b] = "done" => Tells(b)'
  <2>1. SUFFICES ASSUME Tells(b) PROVE Tells(b)'
    BY DEF BatchSound
  <2>2. \A k \in ItemsOf(b) : status'[k] = "completed" => status[k] = "completed"
    OBVIOUS
  <2>3. \A k \in ItemsOf(b) : status[k] = "completed" =>
                                status'[k] = "completed" \/ k \in answered'
    OBVIOUS
  <2>4. QED
    BY <1>1, <2>1, <2>2, <2>3 DEF Tells
<1>3. QED
  BY <1>1, <1>2 DEF BatchSound

(* A step of the task of a single job or of a child leaves a child whose   *)
(* batch gathers where the batch can see it.                               *)
LEMMA GatherChild ==
  ASSUME TypeOK, GatherInv, NEW j \in Jobs \ Batches, pc[j] \in {"ready", "calling"},
         NEW p \in {"calling", "done"}, pc' = [pc EXCEPT ![j] = p],
         NEW s \in Statuses, status' = [status EXCEPT ![j] = s],
         p = "done" => s \in Terminal,
         UNCHANGED <<size, home, answered>>
  PROVE  GatherInv'
<1> USE DEF TypeOK
<1>1. DoneIsOver'
  BY DEF GatherInv, DoneIsOver
<1>2. ASSUME NEW b \in Batches PROVE BatchSound(b)'
  <2>1. b \in Jobs /\ b # j /\ UNCHANGED <<home[b], pc[b], status[b]>> /\ BatchSound(b)
    BY DEF Jobs, Top, GatherInv
  <2>2. CASE j \in ItemsOf(b)
    <3>1. pc[b] # "done"
      BY <2>1, <2>2 DEF BatchSound
    <3>2. \A k \in ItemsOf(b) : pc'[k] = pc[k] \/ pc'[k] = p
      BY Items
    <3>3. QED
      BY <2>1, <3>1, <3>2, Items DEF BatchSound
  <2>3. CASE j \notin ItemsOf(b)
    <3>1. \A k \in ItemsOf(b) : UNCHANGED <<pc[k], home[k], status[k]>>
      BY <2>3, Items
    <3>2. QED
      BY <2>1, <3>1, GatherSame
  <2>4. QED
    BY <2>2, <2>3
<1>3. QED
  BY <1>1, <1>2 DEF GatherInv

(* A batch starts: its children come to be, and they have its replica. *)
LEMMA GatherStart ==
  ASSUME TypeOK, GatherInv, NEW b \in Batches, BatchStart(b)
  PROVE  GatherInv'
<1> USE DEF TypeOK
<1>1. /\ pc[b] = "ready" /\ pc'[b] = "gather" /\ home'[b] = home[b] /\ b \in Jobs
      /\ \A i \in ItemsOf(b) : pc'[i] = "ready" /\ home'[i] = home[b]
      /\ \A i \in Jobs : i # b /\ i \notin ItemsOf(b) => UNCHANGED <<pc[i], status[i], home[i]>>
      /\ UNCHANGED <<size, answered>>
  BY Items DEF BatchStart, Jobs, Top
<1>2. DoneIsOver'
  BY <1>1 DEF GatherInv, DoneIsOver
<1>3. BatchSound(b)'
  <2>1. ItemsOf(b)' = ItemsOf(b) /\ ItemsOf(b) # {}
    BY <1>1, Items DEF GatherInv, BatchSound
  <2>2. QED
    BY <1>1, <2>1 DEF BatchSound
<1>4. ASSUME NEW c \in Batches, c # b PROVE BatchSound(c)'
  <2>1. c \in Jobs /\ c \notin ItemsOf(b)
    BY <1>1, Items DEF Jobs, Top
  <2>2. /\ \A k \in ItemsOf(c) : k \in Jobs /\ k \notin Top /\ Parent[k] = c
        /\ \A k \in ItemsOf(b) : Parent[k] = b
    BY <1>1, Items
  <2>3. \A k \in ItemsOf(c) : k \in Jobs /\ k \notin ItemsOf(b) /\ k # b
    BY <1>4, <2>2 DEF Top
  <2>4. QED
    BY <1>1, <1>4, <2>1, <2>3, GatherSame DEF GatherInv
<1>5. QED
  BY <1>2, <1>3, <1>4 DEF GatherInv

(* A batch ends: all its children are done, so each is completed or failed. *)
LEMMA GatherFinish ==
  ASSUME TypeOK, GatherInv, NEW b \in Batches, BatchFinish(b)
  PROVE  GatherInv'
<1> USE DEF TypeOK
<1>1. /\ pc[b] = "gather" /\ pc' = [pc EXCEPT ![b] = "done"] /\ b \in Jobs
      /\ status' = [status EXCEPT ![b] = BatchStatus(b)]
      /\ UNCHANGED <<size, home, answered>>
      /\ \A k \in ItemsOf(b) : ~Live(k)
  BY DEF BatchFinish, Gathered, End, Jobs, Top
<1>2. \A i \in Jobs : i # b => UNCHANGED <<pc[i], status[i], home[i]>>
  BY <1>1
<1>3. \A c \in Batches : \A k \in ItemsOf(c) : k \in Jobs /\ k # b
  BY <1>1, Items DEF Top
<1>4. \A k \in ItemsOf(b) : pc[k] = "done" /\ status[k] \in Terminal
  BY <1>1, <1>3 DEF GatherInv, BatchSound, DoneIsOver, Live, LivePCs
<1>5. status'[b] = BatchStatus(b) /\ pc'[b] = "done" /\ BatchStatus(b) \in Terminal
  BY <1>1 DEF BatchStatus, Terminal
<1>6. DoneIsOver'
  BY <1>2, <1>5 DEF GatherInv, DoneIsOver
<1>7. BatchSound(b)'
  <2>1. ItemsOf(b) # {} /\ ItemsOf(b)' = ItemsOf(b)
    BY <1>1, Items DEF GatherInv, BatchSound
  <2>2. /\ status'[b] = "failed" => \A k \in ItemsOf(b) : status[k] # "completed"
        /\ status'[b] = "completed" => \E k \in ItemsOf(b) : status[k] = "completed"
    BY <1>4, <1>5, <2>1 DEF BatchStatus, Terminal
  <2>3. \A k \in ItemsOf(b) : status'[k] = status[k] /\ pc'[k] = "done"
    BY <1>2, <1>3, <1>4
  <2>4. Tells(b)'
    BY <2>1, <2>2, <2>3 DEF Tells
  <2>5. QED
    BY <1>5, <2>1, <2>3, <2>4 DEF BatchSound
<1>8. ASSUME NEW c \in Batches, c # b PROVE BatchSound(c)'
  BY <1>1, <1>2, <1>3, <1>8, GatherSame DEF GatherInv, Jobs, Top
<1>9. QED
  BY <1>6, <1>7, <1>8 DEF GatherInv

(* A cancel request stops a job with its children, and writes one row.     *)
LEMMA GatherCancel ==
  ASSUME TypeOK, RegInv, GatherInv, NEW r \in Replicas, CancelWrite(r)
  PROVE  GatherInv'
<1> USE DEF TypeOK
<1> DEFINE c == cancelling[r]
<1>1. /\ c \in Jobs
      /\ pc' = [i \in Jobs |-> IF i \in Cancelled(r, c) THEN "cancelled" ELSE pc[i]]
      /\ status' = [status EXCEPT ![c] = "failed"]
      /\ answered' = answered \cup {c}
      /\ UNCHANGED <<size, home>>
  BY DEF CancelWrite, CancelTasks
<1>2. \A i \in Cancelled(r, c) : /\ i = c \/ (i \in Kids /\ Parent[i] = c)
                                 /\ c \in Top /\ c \in Cancelled(r, c)
                                 /\ Live(i)
  BY DEF Cancelled, RegInv, RegisteredIffLive
<1>3. \A i \in Jobs : \/ UNCHANGED status[i]
                      \/ status'[i] = "failed" /\ i \in answered'
  BY <1>1
<1>4. DoneIsOver'
  BY <1>1 DEF GatherInv, DoneIsOver, Terminal
<1>5. ASSUME NEW b \in Batches PROVE BatchSound(b)'
  <2>1. b \in Jobs /\ BatchSound(b)
    BY DEF Jobs, Top, GatherInv
  <2>2. CASE b \in Cancelled(r, c)
    <3>1. pc'[b] = "cancelled" /\ pc[b] # "none"
      BY <1>1, <1>2, <2>1, <2>2 DEF Live, LivePCs
    <3>2. QED
      BY <1>1, <2>1, <3>1, Items DEF BatchSound
  <2>3. CASE b \notin Cancelled(r, c)
    <3>1. \A k \in ItemsOf(b) : k \in Jobs /\ k \notin Cancelled(r, c)
      <4>1. \A k \in ItemsOf(b) : k \in Jobs /\ k \notin Top /\ Parent[k] = b
        BY <1>1, Items
      <4>2. QED
        BY <1>2, <2>3, <4>1
    <3>2. UNCHANGED pc[b] /\ \A k \in ItemsOf(b) : UNCHANGED <<pc[k], home[k]>>
      BY <1>1, <2>1, <2>3, <3>1
    <3>3. CASE UNCHANGED status[b]
      BY <1>1, <1>3, <2>1, <3>1, <3>2, <3>3, GatherSame
    <3>4. CASE status'[b] = "failed" /\ b \in answered'
      <4>1. ItemsOf(b)' = ItemsOf(b)
        BY <1>1, Items
      <4>2. Tells(b)'
        BY <3>4 DEF Tells
      <4>3. QED
        BY <1>1, <2>1, <3>2, <4>1, <4>2 DEF BatchSound
    <3>5. QED
      BY <1>3, <2>1, <3>3, <3>4
  <2>4. QED
    BY <2>2, <2>3
<1>6. QED
  BY <1>4, <1>5 DEF GatherInv

(* A single job or a batch is created: a batch with the child whose index  *)
(* is the number of its items.                                             *)
LEMMA GatherCreate ==
  ASSUME TypeOK, RegInv, GatherInv, NEW j \in Top, status[j] = "none",
         pc' = [pc EXCEPT ![j] = "ready"], status' = [status EXCEPT ![j] = "queued"],
         NEW r \in Replicas, home' = [home EXCEPT ![j] = r], UNCHANGED answered,
         \A b \in Batches : b # j => size'[b] = size[b],
         j \in Batches => \E k \in Kids : Parent[k] = j /\ Index[k] <= size'[j]
  PROVE  GatherInv'
<1> USE DEF TypeOK
<1>1. pc[j] = "none" /\ j \in Jobs
  BY DEF RegInv, Fresh, Jobs
<1>2. DoneIsOver'
  BY <1>1 DEF GatherInv, DoneIsOver
<1>3. ASSUME NEW b \in Batches, b # j PROVE BatchSound(b)'
  <2>1. b \in Jobs /\ UNCHANGED <<pc[b], status[b], home[b]>> /\ BatchSound(b)
    BY <1>3 DEF Jobs, Top, GatherInv
  <2>2. ItemsOf(b)' = ItemsOf(b) /\ \A k \in ItemsOf(b) : k \in Jobs /\ k # j
    BY <1>1, <1>3, JobsConstants DEF ItemsOf, Jobs
  <2>3. \A k \in ItemsOf(b) : UNCHANGED <<pc[k], status[k]>> /\ home'[k] = home[k]
    BY <1>1, <2>2
  <2>4. Tells(b) => Tells(b)'
    BY <2>1, <2>2, <2>3 DEF Tells
  <2>5. QED
    BY <2>1, <2>2, <2>3, <2>4 DEF BatchSound
<1>4. ASSUME j \in Batches PROVE BatchSound(j)'
  BY <1>1, <1>4 DEF BatchSound, ItemsOf
<1>5. QED
  BY <1>2, <1>3, <1>4 DEF GatherInv

LEMMA GatherNext ==
  ASSUME TypeOK, RegInv, GatherInv, [Next]_vars, ~DbFaults
  PROVE  GatherInv'
<1> USE JobsConstants
<1>1. CASE Request
  <2>1. ASSUME NEW r \in Replicas, NEW p \in Pipelines, Relist(r, p) PROVE GatherInv'
    BY <2>1 DEF Relist, dbVars, taskVars, GatherInv, DoneIsOver, BatchSound, Tells, ItemsOf
  <2>2. ASSUME NEW r \in Replicas, NEW p \in Pipelines, NEW j \in Singles, CreateJob(r, j, p)
        PROVE  GatherInv'
    BY <2>2, GatherCreate DEF CreateJob, Top
  <2>3. ASSUME NEW r \in Replicas, NEW p \in Pipelines, NEW b \in Batches,
               NEW n \in {Index[k] : k \in {c \in Kids : Parent[c] = b}}, CreateBatch(r, b, p, n)
        PROVE  GatherInv'
    <3>1. PICK k \in Kids : Parent[k] = b /\ Index[k] = n /\ n \in Nat
      OBVIOUS
    <3>2. size'[b] = n /\ \A c \in Batches : c # b => size'[c] = size[c]
      BY <2>3, <3>1 DEF CreateBatch, TypeOK
    <3>3. Index[k] <= size'[b]
      BY <3>1, <3>2
    <3>4. QED
      BY <2>3, <3>1, <3>2, <3>3, GatherCreate DEF CreateBatch, Top
  <2>4. ASSUME NEW r \in Replicas, NEW j \in Jobs, CancelRead(r, j) PROVE GatherInv'
    BY <2>4 DEF CancelRead, dbVars, taskVars, GatherInv, DoneIsOver, BatchSound, Tells, ItemsOf
  <2>5. QED
    BY <1>1, <2>1, <2>2, <2>3, <2>4 DEF Request
<1>2. ASSUME NEW j \in Jobs, TaskStep(j) PROVE GatherInv'
  <2>1. ASSUME CanStart(j) PROVE j \in Jobs \ Batches /\ pc[j] \in {"ready", "calling"}
    BY <2>1 DEF CanStart, Top, Jobs
  <2>2. ASSUME CanResume(j) PROVE j \in Jobs \ Batches /\ pc[j] \in {"ready", "calling"}
    BY <2>2 DEF CanResume, GatherInv, BatchSound
  <2> USE DEF Statuses, Terminal
  <2>3. CASE StartJob(j)
    BY <2>1, <2>3, GatherChild DEF StartJob
  <2>4. CASE StartUnknown(j)
    BY <2>1, <2>4, GatherChild DEF StartUnknown, End
  <2>5. CASE StartRefused(j)
    BY <2>1, <2>5, GatherChild DEF StartRefused, End
  <2>6. CASE AbortJob(j)
    BY <2>2, <2>6, GatherChild DEF AbortJob, End
  <2>7. ASSUME NEW o \in Outcomes, StepReturns(j, o) PROVE GatherInv'
    BY <2>7 DEF StepReturns, dbVars, GatherInv, DoneIsOver, BatchSound, Tells, ItemsOf
  <2>8. ASSUME NEW o \in Outcomes, FinishJob(j, o) PROVE GatherInv'
    <3>1. /\ CanResume(j) /\ pc' = [pc EXCEPT ![j] = "done"] /\ UNCHANGED <<size, home, answered>>
          /\ \E s \in Terminal : status' = [status EXCEPT ![j] = s]
      BY <2>8 DEF FinishJob, End
    <3>2. QED
      BY <2>2, <3>1, GatherChild
  <2>9. CASE BatchStart(j)
    BY <2>9, GatherStart DEF BatchStart
  <2>10. CASE BatchFinish(j)
    BY <2>10, GatherFinish DEF BatchFinish
  <2>11. QED
    BY <1>2, <2>3, <2>4, <2>5, <2>6, <2>7, <2>8, <2>9, <2>10 DEF TaskStep
<1>3. ASSUME NEW r \in Replicas, CancelWrite(r) PROVE GatherInv'
  BY <1>3, GatherCancel
<1>4. ASSUME NEW r \in Replicas, Crash(r) PROVE GatherInv'
  <2>1. /\ pc' = [j \in Jobs |-> IF Live(j) /\ home[j] = r THEN "lost" ELSE pc[j]]
        /\ UNCHANGED <<status, size, home, answered>>
    BY <1>4 DEF Crash, dbVars
  <2>2. DoneIsOver'
    BY <2>1 DEF GatherInv, DoneIsOver
  <2>3. ASSUME NEW b \in Batches PROVE BatchSound(b)'
    <3>1. b \in Jobs /\ BatchSound(b) /\ ItemsOf(b)' = ItemsOf(b)
      BY <2>1, Items DEF Jobs, Top, GatherInv
    <3>2. \A k \in ItemsOf(b) : k \in Jobs
      BY <2>1, Items
    <3>3. Tells(b) => Tells(b)'
      BY <2>1, <3>1 DEF Tells
    <3>4. pc'[b] \in {"lost", pc[b]} /\ (pc[b] = "none" => pc'[b] = "none")
      BY <2>1, <3>1 DEF Live, LivePCs
    <3>5. ASSUME pc'[b] = "gather"
          PROVE  \A k \in ItemsOf(b) : pc'[k] = pc[k]
      <4>1. pc[b] = "gather" /\ home[b] # r
        BY <2>1, <3>1, <3>5 DEF Live, LivePCs
      <4>2. QED
        BY <2>1, <3>1, <3>2, <4>1 DEF BatchSound
    <3>6. \A k \in ItemsOf(b) : pc[k] = "done" => pc'[k] = "done"
      BY <2>1, <3>2 DEF Live, LivePCs
    <3>7. QED
      BY <2>1, <3>1, <3>3, <3>4, <3>5, <3>6 DEF BatchSound
  <2>4. QED
    BY <2>2, <2>3 DEF GatherInv
<1>5. CASE Fault
  BY <1>4, <1>5
  DEF Fault, StartWriteFails, BatchStartWriteFails, BatchFinishFails, FinishWriteFails,
      CancelWriteFails
<1>6. CASE UNCHANGED vars
  BY <1>6 DEF vars, GatherInv, DoneIsOver, BatchSound, Tells, ItemsOf
<1>7. QED
  BY <1>1, <1>2, <1>3, <1>5, <1>6 DEF Next

(* See BatchTellsOfChildren: what a batch reports, with cancel requests    *)
(* from any replica and crashes in between, is what its children came to.  *)
THEOREM BatchesTell == Spec => []BatchTellsOfChildren
<1> DEFINE IInv == ~DbFaults => GatherInv
<1>1. Init => IInv
  BY GatherInit
<1>2. TypeOK /\ RegInv /\ IInv /\ [Next]_vars => IInv'
  BY GatherNext
<1>3. IInv => BatchTellsOfChildren
  <2>1. SUFFICES ASSUME ~DbFaults, GatherInv, NEW b \in Batches, pc[b] = "done"
                 PROVE  /\ \A k \in ItemsOf(b) : status[k] \in Terminal
                        /\ Tells(b)
    BY DEF BatchTellsOfChildren, Tells
  <2>2. \A k \in ItemsOf(b) : k \in Jobs
    BY DEF ItemsOf, Jobs
  <2>3. QED
    BY <2>1, <2>2 DEF GatherInv, BatchSound, DoneIsOver
<1>4. QED
  BY <1>1, <1>2, <1>3, TypeInit, TypeNext, RegInit, RegNext, PTL DEF Spec

=============================================================================
