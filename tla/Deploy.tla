-------------------------------- MODULE Deploy --------------------------------
(***************************************************************************)
(* deploy_pipeline of deploy/server.py: an MCP is cloned, built, pushed,   *)
(* applied to the cluster and registered, for requests that deploy the     *)
(* same name.  A request is an async generator: what stands between two    *)
(* of its yields, subprocesses and database calls included, runs without   *)
(* interruption on the only event loop; at a yield any other request may   *)
(* run.  The docker build runs beside the loop and tags its image by       *)
(* itself.                                                                 *)
(*                                                                         *)
(* Requests of one name share the row in deployments and in servers, the   *)
(* tag name:latest, the file BUILDS_DIR/name/k8s.yaml and the Kubernetes   *)
(* deployment.  A request stands for its repository and its manifest too.  *)
(***************************************************************************)
EXTENDS Naturals, FiniteSets

CONSTANTS
  Deploys,    \* requests, each of them made once
  HasTools,   \* those whose repository declares tools
  Alike,      \* those with the same port and environment
  None

ASSUME DeployConstants ==
  None \notin Deploys /\ HasTools \subseteq Deploys /\ Alike \subseteq Deploys

VARIABLES
  pc,         \* where each request is
  loop,       \* the request in which the event loop waits for a lock, or None
  (* the database *)
  status, repo, endpoint,  \* the row in deployments
  catalog,    \* the request whose endpoint is in servers
  holder,     \* the request with an open transaction on the row in servers
  receipts,   \* requests with an ok receipt in audit_events
  (* images, files and the cluster *)
  tag,        \* what name:latest is in the docker daemon
  pushed,     \* what it is in the registry
  file,       \* the manifest in k8s.yaml
  spec,       \* the manifest of the Kubernetes deployment
  rolling,    \* it has changed and its pods have not been replaced yet
  image,      \* what the pods run
  (* history *)
  latest,     \* the request that began last
  replaced,   \* requests whose kubectl apply changed the deployment
  overlap     \* a request began while another, or its build, was under way

row     == <<status, repo, endpoint>>
db      == <<row, catalog, holder, receipts>>
cluster == <<tag, pushed, file, spec, rolling, image>>
history == <<latest, replaced, overlap>>
vars    == <<pc, loop, db, cluster, history>>

Stages == {"build", "push", "manifest", "apply", "rollout", "register", "tools", "failing"}
Some   == Deploys \cup {None}

TypeOK ==
  /\ pc \in [Deploys -> Stages \cup {"new", "done", "ended", "orphan"}]
  /\ loop \in Some
  /\ status \in {"none", "deploying", "running", "failed"}
  /\ {repo, endpoint, catalog, holder} \subseteq Some
  /\ receipts \subseteq Deploys
  /\ {tag, pushed, file, spec, image} \subseteq Some
  /\ rolling \in BOOLEAN
  /\ latest \in Some /\ replaced \subseteq Deploys /\ overlap \in BOOLEAN

UnderWay(d) == pc[d] \in Stages

(* kubectl apply compares what the manifests say.  The image is the same   *)
(* name:latest in all of them.                                             *)
Same(d, e) == d = e \/ {d, e} \subseteq Alike

-----------------------------------------------------------------------------
(* The stages.                                                             *)

Goes(d, from, to) ==
  /\ loop = None
  /\ pc[d] = from
  /\ pc' = [pc EXCEPT ![d] = to]
  /\ UNCHANGED loop

(* Mutant: a row that is there keeps its status as well. *)
BeginKeepsStatus(d) ==
  /\ Goes(d, "new", "build")
  /\ status' = IF status = "none" THEN "deploying" ELSE status
  /\ repo' = d
  /\ latest' = d
  /\ overlap' = (overlap \/ \E e \in Deploys : UnderWay(e) \/ pc[e] = "orphan")
  /\ UNCHANGED <<endpoint, catalog, holder, receipts, cluster, replaced>>

(* The row is upserted; it keeps the endpoint of the last registration. *)
Begin(d) ==
  /\ Goes(d, "new", "build")
  /\ status' = "deploying" /\ repo' = d
  /\ latest' = d
  /\ overlap' = (overlap \/ \E e \in Deploys : UnderWay(e) \/ pc[e] = "orphan")
  /\ UNCHANGED <<endpoint, catalog, holder, receipts, cluster, replaced>>

(* The clone, mcp.yaml and the Dockerfile are the request's own; docker    *)
(* build ends with the tag, and the last lines of its output are still to  *)
(* be streamed.                                                            *)
Build(d) ==
  /\ Goes(d, "build", "push")
  /\ tag' = d
  /\ UNCHANGED <<db, pushed, file, spec, rolling, image, history>>

(* Mutant: the push is not waited for. *)
PushLater(d) ==
  /\ Goes(d, "push", "manifest")
  /\ pushed' \in {pushed, tag}
  /\ UNCHANGED <<db, tag, file, spec, rolling, image, history>>

(* docker push pushes what the tag is now. *)
Push(d) ==
  /\ Goes(d, "push", "manifest")
  /\ pushed' = tag
  /\ UNCHANGED <<db, tag, file, spec, rolling, image, history>>

WriteManifest(d) ==
  /\ Goes(d, "manifest", "apply")
  /\ file' = d
  /\ UNCHANGED <<db, tag, pushed, spec, rolling, image, history>>

(* kubectl apply of the file as it is now.  A deployment whose manifest    *)
(* does not change keeps its pods.                                         *)
Applied(d) ==
  /\ spec' = file
  /\ rolling' = (rolling \/ ~Same(file, spec))
  /\ replaced' = IF Same(file, spec) THEN replaced ELSE replaced \cup {d}

Apply(d) ==
  /\ Goes(d, "apply", "rollout")
  /\ Applied(d)
  /\ UNCHANGED <<db, tag, pushed, file, image, latest, overlap>>

(* kubectl rollout status has seen the new pods.  Then the typed manifest, *)
(* if there is one, is posted to the router; whatever the router answers,  *)
(* the request goes on.                                                    *)
Rollout(d) ==
  /\ Goes(d, "rollout", "register")
  /\ ~rolling
  /\ UNCHANGED <<db, cluster, history>>

(* The transaction commits. *)
Commits(d) ==
  /\ status' = "running" /\ endpoint' = d
  /\ catalog' = d
  /\ holder' = None

(* The servers row and the tools are upserted.  With tools the generator   *)
(* yields here, in the open transaction.                                   *)
RegisterTools(d) ==
  /\ d \in HasTools
  /\ holder = None
  /\ Goes(d, "register", "tools")
  /\ holder' = d
  /\ UNCHANGED <<row, catalog, receipts, cluster, history>>

(* The receipt is committed on a connection of its own, then the row is    *)
(* updated and the transaction committed.                                  *)
Register(d) ==
  /\ \/ d \notin HasTools /\ holder = None /\ Goes(d, "register", "done")
     \/ Goes(d, "tools", "done")
  /\ receipts' = receipts \cup {d}
  /\ Commits(d)
  /\ UNCHANGED <<repo, cluster, history>>

(* The upsert waits for the row that another request holds, and the event  *)
(* loop with it.                                                           *)
Waits(d) ==
  /\ loop = None
  /\ pc[d] = "register"
  /\ holder # None
  /\ loop' = d
  /\ UNCHANGED <<pc, db, cluster, history>>

-----------------------------------------------------------------------------
(* Failures.                                                               *)

(* What a subprocess that failed leaves: a push or an apply may have taken *)
(* effect and its answer is lost, or the time that run_cmd gives it is up. *)
Leaves(d, stage) ==
  /\ pushed' \in {pushed} \cup (IF stage = "push" THEN {tag} ELSE {})
  /\ \/ stage = "apply" /\ Applied(d)
     \/ UNCHANGED <<spec, rolling, replaced>>
  /\ UNCHANGED <<db, tag, file, image, latest, overlap>>

(* Mutant: kubectl rollout status waits for ever. *)
ReturnsUnlessRolling(d) ==
  \E stage \in {"build", "push", "apply"} : Goes(d, stage, "ended") /\ Leaves(d, stage)

(* A subprocess fails: an error event and return; the row is left as it is. *)
Returns(d) ==
  \E stage \in {"build", "push", "apply", "rollout"} :
     Goes(d, stage, "ended") /\ Leaves(d, stage)

RaisesIn(d) ==
  \/ \E stage \in {"build", "manifest", "register"} : Goes(d, stage, "ended")
  \/ ~rolling /\ Goes(d, "rollout", "ended")

(* Mutant: the row is given a status of the receipts. *)
RaisesError(d, marked) ==
  /\ RaisesIn(d)
  /\ status' = IF marked THEN "error" ELSE status
  /\ UNCHANGED <<repo, endpoint, catalog, holder, receipts, cluster, history>>

(* An exception: a malformed mcp.yaml, a full disk, a router (after the    *)
(* rollout) or a database that cannot be reached.  The row is marked,      *)
(* whichever request wrote it, unless that fails as well.  The event that  *)
(* is streamed before that is part of the stage that raised.               *)
Raises(d, marked) ==
  /\ RaisesIn(d)
  /\ status' = IF marked THEN "failed" ELSE status
  /\ UNCHANGED <<repo, endpoint, catalog, holder, receipts, cluster, history>>

(* Mutant: the transaction is committed statement by statement. *)
RegisterFailsHalfway(d, noted) ==
  /\ \/ holder = None /\ Goes(d, "register", "failing") /\ holder' \in {None, d}
     \/ Goes(d, "tools", "failing") /\ UNCHANGED holder
  /\ catalog' = d
  /\ receipts' = IF noted THEN receipts \cup {d} ELSE receipts
  /\ UNCHANGED <<row, cluster, history>>

(* A statement of the registration raises.  The ok receipt may have been   *)
(* committed before.  The generator yields its error event with the        *)
(* transaction, and the lock if it has one, still open.                    *)
RegisterFails(d, noted) ==
  /\ \/ holder = None /\ Goes(d, "register", "failing") /\ holder' \in {None, d}
     \/ Goes(d, "tools", "failing") /\ UNCHANGED holder
  /\ receipts' = IF noted THEN receipts \cup {d} ELSE receipts
  /\ UNCHANGED <<row, catalog, cluster, history>>

(* Mutant: the connection outlives the generator. *)
ReleaseNothing(d) == holder

Release(d) == IF holder = d THEN None ELSE holder

(* Then it rolls back and returns. *)
Rollback(d) ==
  /\ Goes(d, "failing", "ended")
  /\ holder' = Release(d)
  /\ UNCHANGED <<row, catalog, receipts, cluster, history>>

(* The client goes away: the generator is closed at its yield and its      *)
(* connections with it.  A build goes on without it.                       *)
ClientGone(d) ==
  /\ loop = None
  /\ UnderWay(d)
  /\ pc' = [pc EXCEPT ![d] = IF pc[d] = "build" THEN "orphan" ELSE "ended"]
  /\ holder' = Release(d)
  /\ UNCHANGED <<loop, row, catalog, receipts, cluster, history>>

(* A build nobody waits for ends, with or without the tag. *)
OrphanEnds(d) ==
  /\ pc[d] = "orphan"
  /\ pc' = [pc EXCEPT ![d] = "ended"]
  /\ tag' \in {tag, d}
  /\ UNCHANGED <<loop, db, pushed, file, spec, rolling, image, history>>

(* The service is started anew. *)
Restart ==
  /\ pc' = [d \in Deploys |-> IF UnderWay(d) \/ pc[d] = "orphan" THEN "ended" ELSE pc[d]]
  /\ loop' = None
  /\ holder' = None
  /\ UNCHANGED <<row, catalog, receipts, cluster, history>>

(* Kubernetes starts a pod, for a rollout or because the old one is gone;  *)
(* a :latest image is pulled every time.                                   *)
PodStarts ==
  /\ spec # None
  /\ image' = pushed
  /\ rolling' = FALSE
  /\ UNCHANGED <<pc, loop, db, tag, pushed, file, spec, history>>

-----------------------------------------------------------------------------
Init ==
  /\ pc = [d \in Deploys |-> "new"]
  /\ loop = None
  /\ status = "none" /\ repo = None /\ endpoint = None
  /\ catalog = None /\ holder = None /\ receipts = {}
  /\ tag = None /\ pushed = None /\ file = None /\ spec = None /\ image = None
  /\ rolling = FALSE
  /\ latest = None /\ replaced = {} /\ overlap = FALSE

Stage(d) ==
  \/ Build(d) \/ Push(d) \/ WriteManifest(d) \/ Apply(d) \/ Rollout(d)
  \/ RegisterTools(d) \/ Register(d) \/ Waits(d)
  \/ Returns(d)
  \/ \E b \in BOOLEAN : Raises(d, b)
  \/ \E b \in BOOLEAN : RegisterFails(d, b)
  \/ Rollback(d)

Next ==
  \/ \E d \in Deploys : Begin(d)
  \/ \E d \in Deploys : Stage(d)
  \/ \E d \in Deploys : ClientGone(d)
  \/ \E d \in Deploys : OrphanEnds(d)
  \/ Restart
  \/ PodStarts

Spec == Init /\ [][Next]_vars

(* The event loop goes on as long as a request can: a subprocess ends      *)
(* (run_cmd has a timeout, and so has kubectl rollout status; a docker     *)
(* build ends by itself).  Nobody has to restart the service: its chart    *)
(* has a readiness probe, but no liveness probe.                           *)
Fairness == WF_vars(\E d \in Deploys : Stage(d))

FairSpec == Spec /\ Fairness

-----------------------------------------------------------------------------
(* Properties.                                                             *)

(* The row in deployments and the row in servers name the same endpoint,   *)
(* and there is an ok receipt of the request that put it there, whatever   *)
(* failed, overlapped or was cut off.                                      *)
CatalogAgrees ==
  /\ endpoint = catalog
  /\ catalog # None => catalog \in receipts

(* deploy_pipeline, the order of build, push, apply and rollout status: a  *)
(* request that was answered with success runs what it has built, provided *)
(* that requests came one by one and that its manifest differed from the   *)
(* one before.                                                             *)
DeployedIsServed ==
  \A d \in Deploys :
    pc[d] = "done" /\ latest = d /\ ~overlap /\ d \in replaced => image = d /\ spec = d

(* A row that says running names the repository whose endpoint it shows,   *)
(* provided that requests came one by one.                                 *)
RunningRowIsTrue ==
  ~overlap /\ status = "running" => endpoint = repo /\ pc[repo] = "done"

(* Every request ends, unless the event loop waits for a lock whose holder *)
(* it would have to run.                                                   *)
DeploysEnd ==
  []<>(loop # None \/ \A d \in Deploys : ~UnderWay(d))

(* Such a wait has a holder that is at a yield in its open transaction,    *)
(* and it never is a request's wait for itself.                            *)
WaitsForYield ==
  loop # None => /\ holder \in Deploys \ {loop} /\ pc[loop] = "register"
                 /\ pc[holder] \in {"tools", "failing"}
                 /\ pc[holder] = "tools" => holder \in HasTools

(* cli.py:456-458, an error event is terminal and the stream ends; so does *)
(* a stream that meets no error.                                           *)
StreamsEnd == \A d \in Deploys : UnderWay(d) ~> ~UnderWay(d)
=============================================================================
