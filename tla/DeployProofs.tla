----------------------------- MODULE DeployProofs -----------------------------
(***************************************************************************)
(* Theorems of Deploy, for any number of requests, whichever of them have  *)
(* tools or the same manifest.                                             *)
(***************************************************************************)
EXTENDS Deploy, TLAPS

(***************************************************************************)
(* Types.                                                                  *)
(***************************************************************************)
LEMMA TypeInit == Init => TypeOK
  BY DEF Init, TypeOK, Some, Stages

LEMMA TypeNext == TypeOK /\ [Next]_vars => TypeOK'
<1> SUFFICES ASSUME TypeOK, [Next]_vars PROVE TypeOK'
  OBVIOUS
<1> USE DEF TypeOK, Some, Stages, row, db, cluster, history
<1>1. CASE UNCHANGED vars
  BY <1>1 DEF vars
<1>2. ASSUME NEW d \in Deploys, Begin(d) PROVE TypeOK'
  BY <1>2 DEF Begin, Goes
<1>3. ASSUME NEW d \in Deploys, Stage(d) PROVE TypeOK'
  <2>1. CASE Build(d)
    BY <2>1 DEF Build, Goes
  <2>2. CASE Push(d)
    BY <2>2 DEF Push, Goes
  <2>3. CASE WriteManifest(d)
    BY <2>3 DEF WriteManifest, Goes
  <2>4. CASE Apply(d)
    BY <2>4 DEF Apply, Applied, Goes
  <2>5. CASE Rollout(d)
    BY <2>5 DEF Rollout, Goes
  <2>6. CASE RegisterTools(d)
    BY <2>6 DEF RegisterTools, Goes
  <2>7. CASE Register(d)
    BY <2>7 DEF Register, Commits, Goes
  <2>8. CASE Waits(d)
    BY <2>8 DEF Waits
  <2>9. CASE Returns(d)
    BY <2>9 DEF Returns, Leaves, Applied, Goes
  <2>10. CASE \E b \in BOOLEAN : Raises(d, b)
    BY <2>10 DEF Raises, RaisesIn, Goes
  <2>11. CASE \E b \in BOOLEAN : RegisterFails(d, b)
    BY <2>11 DEF RegisterFails, Goes
  <2>12. CASE Rollback(d)
    BY <2>12 DEF Rollback, Release, Goes
  <2>13. QED
    BY <1>3, <2>1, <2>2, <2>3, <2>4, <2>5, <2>6, <2>7, <2>8, <2>9, <2>10, <2>11, <2>12 DEF Stage
<1>4. ASSUME NEW d \in Deploys, ClientGone(d) PROVE TypeOK'
  BY <1>4 DEF ClientGone, Release
<1>5. ASSUME NEW d \in Deploys, OrphanEnds(d) PROVE TypeOK'
  BY <1>5 DEF OrphanEnds
<1>6. CASE Restart
  BY <1>6 DEF Restart
<1>7. CASE PodStarts
  BY <1>7 DEF PodStarts
<1>8. QED
  BY <1>1, <1>2, <1>3, <1>4, <1>5, <1>6, <1>7 DEF Next

(* Every variable keeps to its type. *)
THEOREM DeployTypes == Spec => []TypeOK
  BY TypeInit, TypeNext, PTL DEF Spec

(***************************************************************************)
(* Locks.  A transaction is open across a yield only in the stages "tools" *)
(* and "failing", and the event loop waits in "register".                  *)
(***************************************************************************)
LockInv ==
  /\ holder # None => pc[holder] \in {"tools", "failing"}
  /\ \A d \in Deploys : pc[d] = "tools" => holder = d /\ d \in HasTools
  /\ loop # None => pc[loop] = "register" /\ holder \in Deploys \ {loop}

LEMMA LockNext == TypeOK /\ LockInv /\ [Next]_vars => LockInv'
<1> SUFFICES ASSUME TypeOK, LockInv, [Next]_vars PROVE LockInv'
  OBVIOUS
<1> USE DeployConstants DEF LockInv, TypeOK, Some, Stages, UnderWay, row, db, cluster, history
<1>1. CASE UNCHANGED vars
  BY <1>1 DEF vars
<1>2. ASSUME NEW d \in Deploys, Begin(d) PROVE LockInv'
  BY <1>2 DEF Begin, Goes
<1>3. ASSUME NEW d \in Deploys, Stage(d) PROVE LockInv'
  <2>1. CASE Build(d)
    BY <2>1 DEF Build, Goes
  <2>2. CASE Push(d)
    BY <2>2 DEF Push, Goes
  <2>3. CASE WriteManifest(d)
    BY <2>3 DEF WriteManifest, Goes
  <2>4. CASE Apply(d)
    BY <2>4 DEF Apply, Applied, Goes
  <2>5. CASE Rollout(d)
    BY <2>5 DEF Rollout, Goes
  <2>6. CASE RegisterTools(d)
    BY <2>6 DEF RegisterTools, Goes
  <2>7. CASE Register(d)
    BY <2>7 DEF Register, Commits, Goes
  <2>8. CASE Waits(d)
    BY <2>8 DEF Waits
  <2>9. CASE Returns(d)
    BY <2>9 DEF Returns, Leaves, Applied, Goes
  <2>10. CASE \E b \in BOOLEAN : Raises(d, b)
    BY <2>10 DEF Raises, RaisesIn, Goes
  <2>11. CASE \E b \in BOOLEAN : RegisterFails(d, b)
    BY <2>11 DEF RegisterFails, Goes
  <2>12. CASE Rollback(d)
    BY <2>12 DEF Rollback, Release, Goes
  <2>13. QED
    BY <1>3, <2>1, <2>2, <2>3, <2>4, <2>5, <2>6, <2>7, <2>8, <2>9, <2>10, <2>11, <2>12 DEF Stage
<1>4. ASSUME NEW d \in Deploys, ClientGone(d) PROVE LockInv'
  BY <1>4 DEF ClientGone, Release
<1>5. ASSUME NEW d \in Deploys, OrphanEnds(d) PROVE LockInv'
  BY <1>5 DEF OrphanEnds
<1>6. CASE Restart
  BY <1>6 DEF Restart
<1>7. CASE PodStarts
  BY <1>7 DEF PodStarts
<1>8. QED
  BY <1>1, <1>2, <1>3, <1>4, <1>5, <1>6, <1>7 DEF Next

(* What the event loop waits for is a request at a yield in its transaction. *)
THEOREM WaitsOnlyForYields == Spec => []WaitsForYield
<1>1. Init => LockInv
  BY DeployConstants DEF Init, LockInv
<1>2. TypeOK /\ LockInv => WaitsForYield
  BY DeployConstants DEF LockInv, WaitsForYield, TypeOK
<1>3. QED
  BY <1>1, <1>2, DeployTypes, LockNext, PTL DEF Spec

(***************************************************************************)
(* The catalog.                                                            *)
(***************************************************************************)
LEMMA CatalogNext == CatalogAgrees /\ [Next]_vars => CatalogAgrees'
<1> SUFFICES ASSUME CatalogAgrees, [Next]_vars PROVE CatalogAgrees'
  OBVIOUS
<1> USE DEF CatalogAgrees, row, db, cluster, history
<1>1. CASE UNCHANGED vars
  BY <1>1 DEF vars
<1>2. ASSUME NEW d \in Deploys, Begin(d) PROVE CatalogAgrees'
  BY <1>2 DEF Begin, Goes
<1>3. ASSUME NEW d \in Deploys, Stage(d) PROVE CatalogAgrees'
  <2>1. CASE Build(d)
    BY <2>1 DEF Build, Goes
  <2>2. CASE Push(d)
    BY <2>2 DEF Push, Goes
  <2>3. CASE WriteManifest(d)
    BY <2>3 DEF WriteManifest, Goes
  <2>4. CASE Apply(d)
    BY <2>4 DEF Apply, Applied, Goes
  <2>5. CASE Rollout(d)
    BY <2>5 DEF Rollout, Goes
  <2>6. CASE RegisterTools(d)
    BY <2>6 DEF RegisterTools, Goes
  <2>7. CASE Register(d)
    BY <2>7 DEF Register, Commits, Goes
  <2>8. CASE Waits(d)
    BY <2>8 DEF Waits
  <2>9. CASE Returns(d)
    BY <2>9 DEF Returns, Leaves, Applied, Goes
  <2>10. CASE \E b \in BOOLEAN : Raises(d, b)
    BY <2>10 DEF Raises, RaisesIn, Goes
  <2>11. CASE \E b \in BOOLEAN : RegisterFails(d, b)
    BY <2>11 DEF RegisterFails, Goes
  <2>12. CASE Rollback(d)
    BY <2>12 DEF Rollback, Release, Goes
  <2>13. QED
    BY <1>3, <2>1, <2>2, <2>3, <2>4, <2>5, <2>6, <2>7, <2>8, <2>9, <2>10, <2>11, <2>12 DEF Stage
<1>4. ASSUME NEW d \in Deploys, ClientGone(d) PROVE CatalogAgrees'
  BY <1>4 DEF ClientGone, Release
<1>5. ASSUME NEW d \in Deploys, OrphanEnds(d) PROVE CatalogAgrees'
  BY <1>5 DEF OrphanEnds
<1>6. CASE Restart
  BY <1>6 DEF Restart
<1>7. CASE PodStarts
  BY <1>7 DEF PodStarts
<1>8. QED
  BY <1>1, <1>2, <1>3, <1>4, <1>5, <1>6, <1>7 DEF Next

(* The row and the catalog name the same endpoint, and it has a receipt. *)
THEOREM CatalogAlwaysAgrees == Spec => []CatalogAgrees
<1>1. Init => CatalogAgrees
  BY DEF Init, CatalogAgrees
<1>2. QED
  BY <1>1, CatalogNext, PTL DEF Spec

(***************************************************************************)
(* Requests one by one: the one under way, or whose build is, began last,  *)
(* and what it has done so far is still what is there.                     *)
(***************************************************************************)
AloneInv ==
  ~overlap => \A d \in Deploys : UnderWay(d) \/ pc[d] = "orphan" => d = latest

LEMMA AloneNext == TypeOK /\ AloneInv /\ [Next]_vars => AloneInv'
<1> SUFFICES ASSUME TypeOK, AloneInv, [Next]_vars PROVE AloneInv'
  OBVIOUS
<1> USE DEF AloneInv, TypeOK, Some, Stages, UnderWay, row, db, cluster, history
<1>1. CASE UNCHANGED vars
  BY <1>1 DEF vars
<1>2. ASSUME NEW d \in Deploys, Begin(d) PROVE AloneInv'
  BY <1>2 DEF Begin, Goes
<1>3. ASSUME NEW d \in Deploys, Stage(d) PROVE AloneInv'
  <2>1. CASE Build(d)
    BY <2>1 DEF Build, Goes
  <2>2. CASE Push(d)
    BY <2>2 DEF Push, Goes
  <2>3. CASE WriteManifest(d)
    BY <2>3 DEF WriteManifest, Goes
  <2>4. CASE Apply(d)
    BY <2>4 DEF Apply, Applied, Goes
  <2>5. CASE Rollout(d)
    BY <2>5 DEF Rollout, Goes
  <2>6. CASE RegisterTools(d)
    BY <2>6 DEF RegisterTools, Goes
  <2>7. CASE Register(d)
    BY <2>7 DEF Register, Commits, Goes
  <2>8. CASE Waits(d)
    BY <2>8 DEF Waits
  <2>9. CASE Returns(d)
    BY <2>9 DEF Returns, Leaves, Applied, Goes
  <2>10. CASE \E b \in BOOLEAN : Raises(d, b)
    BY <2>10 DEF Raises, RaisesIn, Goes
  <2>11. CASE \E b \in BOOLEAN : RegisterFails(d, b)
    BY <2>11 DEF RegisterFails, Goes
  <2>12. CASE Rollback(d)
    BY <2>12 DEF Rollback, Release, Goes
  <2>13. QED
    BY <1>3, <2>1, <2>2, <2>3, <2>4, <2>5, <2>6, <2>7, <2>8, <2>9, <2>10, <2>11, <2>12 DEF Stage
<1>4. ASSUME NEW d \in Deploys, ClientGone(d) PROVE AloneInv'
  BY <1>4 DEF ClientGone, Release
<1>5. ASSUME NEW d \in Deploys, OrphanEnds(d) PROVE AloneInv'
  BY <1>5 DEF OrphanEnds
<1>6. CASE Restart
  BY <1>6 DEF Restart
<1>7. CASE PodStarts
  BY <1>7 DEF PodStarts
<1>8. QED
  BY <1>1, <1>2, <1>3, <1>4, <1>5, <1>6, <1>7 DEF Next

RowInv ==
  /\ latest = repo
  /\ RunningRowIsTrue

LEMMA RowNext == TypeOK /\ AloneInv /\ RowInv /\ [Next]_vars => RowInv'
<1> SUFFICES ASSUME TypeOK, AloneInv, RowInv, [Next]_vars PROVE RowInv'
  OBVIOUS
<1> USE DEF AloneInv, RowInv, RunningRowIsTrue, TypeOK, Some, Stages, UnderWay, row, db, cluster, history
<1>1. CASE UNCHANGED vars
  BY <1>1 DEF vars
<1>2. ASSUME NEW d \in Deploys, Begin(d) PROVE RowInv'
  BY <1>2 DEF Begin, Goes
<1>3. ASSUME NEW d \in Deploys, Stage(d) PROVE RowInv'
  <2>1. CASE Build(d)
    BY <2>1 DEF Build, Goes
  <2>2. CASE Push(d)
    BY <2>2 DEF Push, Goes
  <2>3. CASE WriteManifest(d)
    BY <2>3 DEF WriteManifest, Goes
  <2>4. CASE Apply(d)
    BY <2>4 DEF Apply, Applied, Goes
  <2>5. CASE Rollout(d)
    BY <2>5 DEF Rollout, Goes
  <2>6. CASE RegisterTools(d)
    BY <2>6 DEF RegisterTools, Goes
  <2>7. CASE Register(d)
    BY <2>7 DEF Register, Commits, Goes
  <2>8. CASE Waits(d)
    BY <2>8 DEF Waits
  <2>9. CASE Returns(d)
    BY <2>9 DEF Returns, Leaves, Applied, Goes
  <2>10. CASE \E b \in BOOLEAN : Raises(d, b)
    BY <2>10 DEF Raises, RaisesIn, Goes
  <2>11. CASE \E b \in BOOLEAN : RegisterFails(d, b)
    BY <2>11 DEF RegisterFails, Goes
  <2>12. CASE Rollback(d)
    BY <2>12 DEF Rollback, Release, Goes
  <2>13. QED
    BY <1>3, <2>1, <2>2, <2>3, <2>4, <2>5, <2>6, <2>7, <2>8, <2>9, <2>10, <2>11, <2>12 DEF Stage
<1>4. ASSUME NEW d \in Deploys, ClientGone(d) PROVE RowInv'
  BY <1>4 DEF ClientGone, Release
<1>5. ASSUME NEW d \in Deploys, OrphanEnds(d) PROVE RowInv'
  BY <1>5 DEF OrphanEnds
<1>6. CASE Restart
  BY <1>6 DEF Restart
<1>7. CASE PodStarts
  BY <1>7 DEF PodStarts
<1>8. QED
  BY <1>1, <1>2, <1>3, <1>4, <1>5, <1>6, <1>7 DEF Next

(* A row that says running shows the endpoint of its own repository. *)
THEOREM RunningRowAlwaysTrue == Spec => []RunningRowIsTrue
<1>1. Init => AloneInv /\ RowInv
  BY DEF Init, AloneInv, RowInv, RunningRowIsTrue, UnderWay, Stages
<1>2. RowInv => RunningRowIsTrue
  BY DEF RowInv
<1>3. QED
  BY <1>1, <1>2, DeployTypes, AloneNext, RowNext, PTL DEF Spec

AfterPush     == {"manifest", "apply", "rollout", "register", "tools", "failing", "done"}
AfterManifest == AfterPush \ {"manifest"}
AfterApply    == AfterManifest \ {"apply"}
AfterRollout  == AfterApply \ {"rollout"}

ServedInv ==
  /\ \A d \in replaced : pc[d] \notin {"new", "build", "push", "manifest", "apply"}
  /\ ~overlap => \A d \in Deploys : d = latest =>
       /\ pc[d] = "push" => tag = d
       /\ pc[d] \in AfterPush => pushed = d
       /\ pc[d] \in AfterManifest => file = d
       /\ pc[d] \in AfterApply => spec = d /\ (rolling \/ d \notin replaced \/ image = d)
       /\ pc[d] \in AfterRollout => ~rolling

LEMMA ServedNext == TypeOK /\ AloneInv /\ ServedInv /\ [Next]_vars => ServedInv'
<1> SUFFICES ASSUME TypeOK, AloneInv, ServedInv, [Next]_vars PROVE ServedInv'
  OBVIOUS
<1> USE DEF ServedInv, AloneInv, AfterPush, AfterManifest, AfterApply, AfterRollout, TypeOK, Some, Stages, UnderWay, row, db, cluster, history
<1>1. CASE UNCHANGED vars
  BY <1>1 DEF vars
<1>2. ASSUME NEW d \in Deploys, Begin(d) PROVE ServedInv'
  BY <1>2 DEF Begin, Goes
<1>3. ASSUME NEW d \in Deploys, Stage(d) PROVE ServedInv'
  <2>1. CASE Build(d)
    BY <2>1 DEF Build, Goes
  <2>2. CASE Push(d)
    BY <2>2 DEF Push, Goes
  <2>3. CASE WriteManifest(d)
    BY <2>3 DEF WriteManifest, Goes
  <2>4. CASE Apply(d)
    <3>1. /\ pc[d] = "apply" /\ pc' = [pc EXCEPT ![d] = "rollout"]
          /\ UNCHANGED <<pushed, file, latest, overlap>> /\ spec' = file
      BY <2>4 DEF Apply, Applied, Goes
    <3>2. d \notin replaced
      BY <3>1
    <3>3. d \notin replaced' \/ rolling'
      BY <2>4, <3>2 DEF Apply, Applied
    <3>4. replaced' \subseteq replaced \cup {d}
      BY <2>4 DEF Apply, Applied
    <3>5. ~overlap => d = latest /\ pushed = d /\ file = d
      BY <3>1
    <3>6. \A e \in replaced' : pc'[e] \notin {"new", "build", "push", "manifest", "apply"}
      BY <3>1, <3>4
    <3>7. pc'[d] = "rollout"
      BY <3>1
    <3>8. QED
      BY <3>1, <3>3, <3>5, <3>6, <3>7
  <2>5. CASE Rollout(d)
    BY <2>5 DEF Rollout, Goes
  <2>6. CASE RegisterTools(d)
    BY <2>6 DEF RegisterTools, Goes
  <2>7. CASE Register(d)
    BY <2>7 DEF Register, Commits, Goes
  <2>8. CASE Waits(d)
    BY <2>8 DEF Waits
  <2>9. CASE Returns(d)
    BY <2>9 DEF Returns, Leaves, Applied, Goes
  <2>10. CASE \E b \in BOOLEAN : Raises(d, b)
    BY <2>10 DEF Raises, RaisesIn, Goes
  <2>11. CASE \E b \in BOOLEAN : RegisterFails(d, b)
    BY <2>11 DEF RegisterFails, Goes
  <2>12. CASE Rollback(d)
    BY <2>12 DEF Rollback, Release, Goes
  <2>13. QED
    BY <1>3, <2>1, <2>2, <2>3, <2>4, <2>5, <2>6, <2>7, <2>8, <2>9, <2>10, <2>11, <2>12 DEF Stage
<1>4. ASSUME NEW d \in Deploys, ClientGone(d) PROVE ServedInv'
  BY <1>4 DEF ClientGone, Release
<1>5. ASSUME NEW d \in Deploys, OrphanEnds(d) PROVE ServedInv'
  BY <1>5 DEF OrphanEnds
<1>6. CASE Restart
  BY <1>6 DEF Restart
<1>7. CASE PodStarts
  BY <1>7 DEF PodStarts
<1>8. QED
  BY <1>1, <1>2, <1>3, <1>4, <1>5, <1>6, <1>7 DEF Next

(* A request that was answered with success runs what it has built. *)
THEOREM DeployedAlwaysServed == Spec => []DeployedIsServed
<1>1. Init => AloneInv /\ ServedInv
  BY DEF Init, AloneInv, ServedInv, UnderWay, Stages, AfterPush, AfterManifest, AfterApply, AfterRollout
<1>2. ServedInv => DeployedIsServed
  BY DEF ServedInv, DeployedIsServed, AfterPush, AfterManifest, AfterApply, AfterRollout
<1>3. QED
  BY <1>1, <1>2, DeployTypes, AloneNext, ServedNext, PTL DEF Spec
=============================================================================
