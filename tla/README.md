# TLA+ models of Sealfleet

Sealfleet lets agents and users call MCP servers through one router: it runs
pipelines of tool calls, keeps them as background jobs, audits them, starts and
stops the servers behind them, deploys new ones, and bills for it. This directory
holds TLA+ modules of the parts where order, concurrency and failure decide
whether the program is right, TLC configurations that check them, and theorems
about them that TLAPS proves.

Paths below are relative to the repository's root; `router.py` is
`runtime/router.py`. `PROJECT.json` lists, for every definition that stands for
code, the lines it stands for.

## 1. The system

One row for each part; section 6 says what is left out and why.

| Component | State it keeps | Operations | Modules |
|---|---|---|---|
| Background jobs (`router.py` 4414-4918) | `pipeline_jobs`, `pipeline_job_steps` (database); `_running_jobs` and the asyncio tasks (memory of one process) | create a job, create a batch, cancel, list, get | `Jobs`, `JobLifecycle`, `JobsProofs` |
| Audit chain (`router.py` 970-1298, 4192-4272; `deploy/server.py` 258-280) | `audit_events` (database), an advisory lock (session), `_db_conn` (process) | write an event, verify the chain | `AuditChain`, `AuditChainProofs` |
| Scale-to-zero (`router.py` 784-930, 2741-2747, 4065-4130) | `spec.replicas` (cluster), `last_call` (process) | ensure running, record a call, idle pass, scale up and down by hand | `ScaleToZero` |
| Usage metering (`portal/src/app/api/billing/report-usage`, `portal/src/lib/billing.ts`) | `usage_reported_through`, `api_key_usage_log` (database), the events Stripe has taken | report usage | `Metering`, `MeteringProofs` |
| Billing webhook and provisioning (`portal/src/app/api/billing/webhook`, `portal/src/lib/billing.ts`, `portal/src/lib/provisioning.ts`) | `subscriptions`, `api_keys.is_active`, tenants | Stripe's events, first sign-in | `Entitlement`, `EntitlementProofs` |
| Pipeline store (`router.py` 1840-1930, 5069-5205, 5463-5600) | `named_pipelines`, `v2_pipelines`, `v2_db_pipelines` (process), `pipelines_v2` (database), files | deploy, delete, register, reload, restart, resolve, list, a job's second lookup | `PipelineStore`, `Pipelines`, `PlatformProofs` |
| Pipeline engines (`router.py` 3891-4062, 4369-4410, 4933-5065, 5210-5360) | none beyond one run | a list of steps, a named pipeline as a run and as a tool, a v2 pipeline with foreach | `Boundary`; `Jobs` sees a run's outcomes |
| Tool-call boundary and hooks (`router.py` 1301-1362, 3394-3460, `runtime/policy_hooks.py`), external agents (`router.py` 2836-3015) | hook events, agents (process) | a call with its rules, handles, hooks, POST and end | `Boundary`, `Hooks`, `BoundaryProofs` |
| Sealed handles (`router.py` 1438-1600) | `sealed_handles` | create, delete, expire, resolve once | `Boundary`, `BoundaryProofs` |
| Credentials (`router.py` 5603-5795, `runtime/credentials.py`) | `credentials`, Secrets of the cluster, the key ring of each process | create, change, delete, resolve, rotate the ring | `Credentials`, `Platform`, `PlatformProofs` |
| Type graph (`router.py` 170-300), registry (`router.py` 600-650, 2960-3360) | manifests, typed manifests, owners, agents, producers and inputs of types (process) | seed, register in three ways, export, import, restart; search a chain | `Registry`, `TypeGraph`, `Guards`, `Platform`, `PlatformProofs` |
| Deploy service (`deploy/server.py`) | `deployments`, `servers`, `tools` rows, the manifest directory, the image tag, the cluster | deploy, list, get | `Deploy`, `DeployProofs`; its audit writer in `AuditChain` |
| API keys (`router.py` 2405-2520) | a list of keys with a five-minute life | validate, refresh | the list, in `Entitlement` |
| Authorization (`router.py` 2059-2330, 2520-2740; `portal/src/auth.ts`; the administrators' routes; SCIM and erasure, `router.py` 5796-6320) | users, roles and their sources, mappings, grants | check a call or an action; sign in; administer; provision; erase | `Access`, `AccessProofs`, `Guards`; the retention thread, in `AuditChain` |
| Token exchange (`router.py` 1980-2030, 6371-6650; the portal's `jwks.json`) | attempts, keys fetched (process) | exchange, rotate, restart | `TokenExchange`, `Platform`, `PlatformProofs` |
| Licensing (`runtime/licensing.py`, `portal/src/lib/entitlement.ts`) | two caches, the revocation file, the marketplace's agreements | ask, ask through the portal, restart | `Licensing`, `Platform`, `PlatformProofs` |
| Agent (`agent/server.py`) | one turn | answer, call tools in a loop; select, author, deploy and run a pipeline | `Agent`, `Platform`, `PlatformProofs` |
| Policy engine (`policy/engine.py`), AWS Marketplace's registration, portal pages, registry service, broker, observability, command line, importers, packaging | rules, agreements, sessions, servers | decide, register, pages, CRUD, conversions | - |

How the parts interact. A router process runs one asyncio event loop. Its
database driver is synchronous, so a handler that does not await runs to its end
undisturbed within its process, while the statements of several processes
interleave; every statement commits on its own (autocommit). Several routers share
the database, the cluster and Stripe; each has its own task table, registries,
caches and connection. The deploy service and the portal write to the same
database. Nothing but the database survives a restart.

### What is hard, and what makes each part right

* **Jobs.** A job is a row anyone can see and a task only one process has. The
  task is started, cancelled and finished by different coroutines; a batch waits
  for children that share five slots; a process may stop, a statement may fail
  half way. Right means: the table a cancel request looks in holds exactly the
  live tasks; a cancelled job stays cancelled; a row that ended is never written
  again; `completed` means that every step returned without an error; every job
  ends.
* **Audit chain.** Every event's hash covers the one before it, and writers in
  several processes read and append in two statements under an advisory lock.
  Right means: nobody's concurrency, failure or restart makes `/audit/verify`
  report tampering; tampering is reported; the lock is never left behind.
* **Scale-to-zero.** A loop stops a deployment by looking at a time in memory
  while calls start it by looking at the cluster, with awaits between look and
  act. Right means: calls get through, idle deployments go down, and a
  deployment that is being started is left alone.
* **Metering.** A count is sent to Stripe and a watermark advanced, in two
  systems that fail separately. Right means: no call skipped, none billed twice.
* **Pipeline store.** Three registries of a process, each with its own source
  and precedence, loaded at start and changed by requests that reach one process.
  Right means: a name resolves to the latest definition the caller may see, and
  a deploy that was answered is not lost.
* **Webhook.** Stripe repeats and reorders events; the subscription row and the
  tenant's keys are two statements; each router admits the keys of a list it
  loads now and then. Right means: keys are active exactly when the subscription
  says so, once deliveries stop, and the routers come to know it.
* **Tool calls and handles.** A handle is marked used in the statement that reads
  it; hooks append to a list all calls share; items of a foreach are in flight
  together. Right means: what a handle seals leaves once, for its owner; what
  hooks did is handed to the audit table when the call is over; declared fields do not come out;
  requests end.
* **Authorization.** A check is five or six statements, and sign-ins, SCIM and
  administrators write between them. Right means: nobody is let in on a grant
  put together from two states, nobody is overlooked, and a sign-in leaves the
  roles the identity provider asserts.
* **Registry and type graph.** Three kinds of registration replace one manifest,
  producers are only ever appended. Right means: what the operator's files
  declare stays declared, and the capabilities that are shown are those of the
  manifests that stand: what a chain takes is what its tools take now, and what is
  not shown cannot be made. The code keeps withdrawn outputs, so that part is
  promised only for types nobody withdrew (section 5).
* **Credentials.** Replicas are restarted one by one with the next key ring while
  all of them write. Right means: every replica reads what was stored last.
* **Agent.** The model repeats itself and answers get lost. Right means: a write
  is made once, and an answer does not claim what was not done.
* **Deploy service.** Clone, build, push, apply, register, each of which may
  fail, on an event loop that every subprocess and statement blocks. Right means:
  the row and the catalog tell the truth, what was reported as deployed runs, and
  a request ends.
* **Caches and windows** (keys, licenses, token exchange). Right means: bounded
  staleness where caches stand behind each other, and a limit that holds at its
  boundary through eviction.

`PROJECT.json` names the line of each such hazard and the property that covers it.

## 2. The modules

Every module is the state of one component as variables, one action for each
handler or each part of a handler between two places where others can run, and
its properties at the end. Definitions called *Mutant* are not part of the
specification: each is what a plausible mistake would make of the definition
after it, and is there to show that a property notices.

### Jobs, JobLifecycle

`status`, `stepRow`, `pipe`, `size` are the columns of the two tables;
`loaded`, `registered` and `cancelling` the memory of a replica (its registries,
`_running_jobs`, a cancel handler between its SELECT and its UPDATE); `pc`,
`home`, `trace` the task of each job. `answered` is history: jobs whose cancel
request was answered "cancelled".

| Action | Code |
|---|---|
| `CreateJob`, `CreateBatch` | `create_job`, `create_batch_job`: resolve, INSERT, create and register the task, without an await |
| `Relist` | deploy, delete and reload of pipelines on one replica |
| `StartJob`, `StartUnknown`, `StartRefused` | `_execute_job` up to its first call; its lookup failing; a run that returns before any call |
| `StepReturns`, `FinishJob`, `AbortJob` | a step's answer; the last one and the writes after it; a run that leaves early |
| `BatchStart`, `BatchFinish` | `_execute_batch` before and after `gather` |
| `CancelRead`, `CancelWrite` | `cancel_job` |
| `StartWriteFails` ... `CancelWriteFails` | a statement of the above raises: those before it stay, the `except` clause runs, or fails as well |
| `Crash` | a process stops and starts; `lifespan` looks at no job |

A cancel handler is two steps because statements of other replicas may come
between; within its replica nothing else runs, which is what the guard `Free`
says. `JobLifecycle` is the abstract specification: what a client may see of one
id, whatever runs it. `Jobs` implements it for the jobs of `POST /jobs` and
`POST /jobs/batch` under one router process (`LifecycleSpec`).

### AuditChain

`rows` is the table in the order of `seq`; `holder` and `depth` the advisory
lock, which Postgres grants again to the session that has it; `conn` the
connection every process opens once and then keeps; `pc`, `ev`, `prev` the
writers. Each statement of `_write_audit_event` is an action (`Lock`, `Read`,
`Insert`, `Unlock`), with `StatementFails` for the path through `finally`,
`StatementOnBroken` for the connection nobody replaces, `ConnectionLost` and
`Restart`. `DeployInsert` is the deploy service. `Verify` is `/audit/verify`,
with the rows it skips and those it excuses; `Init` starts from any table older
releases leave. SHA-256 is taken to be injective: a hash is the sequence of what
was hashed. Threads that share a session (`SessionOf`) are the event loop and
the retention thread of one process.

### ScaleToZero

`spec` and `pod` are the cluster, `lastCall` the entry of each router (absent,
recent, older than the timeout), `scan`, `down` and `pc` the idle loop, the
manual scale-down and the calls. Each k8s request is served in one step; between
two of them everything else may happen. The map from MCPs to deployments is
empty as the code ships (`MCP_DEPLOYMENT_MAP`), and the manager does nothing
without a cluster: the model takes one MCP that is in the map, and an
initialised client.

### Metering

`clock` is the portal's, `stamp` the database's time of a call's row, which
nothing ties to it. `metered` and `watermark` are the subscription's row. Each
await of the handler ends an action: `Begin` (time taken), `List`, `Plant`,
`Count`, `Report`, `Advance`; `AnswerLost` is Stripe accepting without the
portal hearing of it, `BreaksOff` any other exception or stop. Stripe ignores an
identifier it has seen. One tenant is modelled: tenants of a run share only the
time it took and the fact that an exception outside the `try` ends it, which
`BreaksOff` covers. `lastTo`, `late`, `planted`, `mishap` are history, kept to
say when a promise is made: `late` are calls whose row becomes visible after a
run has taken a time past its stamp; `mishap` is that runs overlapped, or that
one broke off after Stripe took its event.

### Entitlement

`log` is what Stripe says, as the list of the events it created; `pending` those
it has not been answered 200 for, which it delivers in any order and may deliver
again. A webhook request is `Deliver`, `Upsert` (`upsertSubscription`) and
`SetKeys` (`setTenantKeysActive` and the answer, which may be lost); `Fails` is
the 500 of its `catch`, or a restart, after the first statement or before it.
`row` and `active` are the tenant's row and the `is_active` of all its keys;
`admits`, `age` and `broken` are a router's list, the time since `last_refresh`
and the connection `_get_db` never replaces. `off`, `overlap` and `disorder` are
history: how long the keys have been inactive, and whether deliveries overlapped
or an event was taken up before an older one was answered. One tenant: nothing in
the webhook relates two of them. `trialing` behaves as `active`, every other
status as `past_due`.

### Deploy

Requests for one name; other names share only the event loop. `pc` is the stage a
request is in, `loop` the request the whole event loop waits in. An action is
what `deploy_pipeline` does from one `yield` after which others may change what
it uses to the next: `Begin`, `Build`, `Push`, `WriteManifest`, `Apply`,
`Rollout`, `RegisterTools`, `Register`. `Waits` is the `INSERT INTO servers` that
blocks in psycopg2 on a row another request has locked. `Returns`, `Raises`,
`RegisterFails` with `Rollback`, `ClientGone` (the generator is closed, a docker
build goes on: `OrphanEnds`) and `Restart` are the ways out; `PodStarts` is
Kubernetes, which pulls `:latest` for every pod. A request stands for its
repository, image and manifest alike; `Alike` are those whose manifests say the
same. A push or an apply that is reported as failed may have taken effect, as a
subprocess whose time is up does (`Leaves`). The clone, the Dockerfile and `mcp.yaml` lie in a directory of the request
and are part of `Build`.

### PipelineStore

`rows` is the table by owner and name, `data` the data directory; `mem`, `dbMem`
and `named` the three registries of each replica, `conn` its connection. A
definition is the number it was written as, so that "latest" can be said;
`author` and `filed` tell who wrote it and whether it had to go to a file.
`DeployRow`, `DeployFile` (the database does not take it), `Delete`,
`RegisterNamed`, `Reload`, `Restart`, `AcceptJob` and `StartJob` are handlers
without an await after the body is read, hence one action each; a statement whose
answer is lost commits and breaks the connection (`AnswerLost`). `off` is
history: names a replica may answer wrongly until it loads, and why.

### Guards, Access

`Guards` is a manifest's access policy and its merge with the seeded one.
`Access` is one user and one MCP: `db` the tables, `login` the sign-ins, `check`
the checks under way, which go one statement further per step. `BeginCall` and
`BeginAction` are what is decided before the first statement, `Select` the next
SELECT, `After` the order in which the code asks. A check carries history: whether
it could have been admitted at some instant (`saw`, `sawGate`) and the paths that
held all along (`kept`, `keptGate`). `grants` is the table of MCPs or that of
actions, whichever the check reads. Administrators, SCIM and erasure are one step
each: the first two are transactions, erasure (which is not, a finding) is the
state after its last statement. The portal's PUT of a role replaces its grants
(`AdminRole`), its mapping routes add and remove one (`AdminMap`); grants of users
and of actions are written by hand and each grant may expire
(`GrantComesOrGoes`). A token names its groups; what makes it valid is
left out.

### Hooks, Boundary

`Hooks` runs the configured hooks in their order over a value, which is a shape
and what is in it. `Boundary` is `MaxRequests` requests to one router, each a
program of steps on one of five ways (`/call`, `/pipeline`, a named pipeline run
or called as a tool, v2). `outs` is what became of the items of the step a
request is at, `events` the list of hook events, by the call that appended each,
`Handed` once it was given to `_write_audit_event`, which stores it or loses it
with a warning (its own failures are those of `AuditChain`); `delivered` records which calls carried
what a handle seals. `StartTool` is `_execute_mcp_tool` up to its first await,
`StartAgent` the external agent's way, `Return`, `ReturnError`, `ReturnAgent`
what comes back, `EndStep` the step or the request. The ways differ where the
code does: in what they check, which rules they ask, what an error ends, whether
handles are resolved at all. An MCP of transport `unsafe` is one whose address the
check before each call refuses (`_assert_safe_endpoint` raises, which ends
`/pipeline` and a named run, and is a failed step of v2).

### TypeGraph, Registry

`TypeGraph` is the graph as registrations leave it and the search of a chain, as
a recursive function of the types on the way and the wanted one. An MCP has one
typed tool; a tool is its inputs and outputs, and a malformed one raises in
`register_manifest` after the outputs before the bad entry were added and before
its inputs are. `Registry` is the manifests of one router: `Register`,
`RegisterTyped`, `RegisterAgent`, `Export`, `Import`, `Restart`, with the endpoint,
policy, declared fields and tool of each manifest. A typed registration whose tool
is malformed has replaced the manifests when it fails; an imported one has as well,
and does not change hands. A stdio manifest's address is not checked. `declared` is
history: every output an MCP's tools have had since the start, so that
`CapabilitiesStand` can tell a withdrawn output from one the standing tool makes.

### Credentials

`stage` is how far each replica is in a rotation, a sequence of environments of
which neighbours can read each other's values (the assumption on `Stages`);
`creds` the rows, with the key that encrypted each, `secrets` the tenants'
Secrets in the cluster. `Reencrypt` is `reencrypt_platform`, applied to rows by
whoever runs the rotation; `NextStage` restarts a replica when no other is
behind it and no row needs the key that goes.

### Licensing, TokenExchange, Agent

`Licensing`: sources that change on their own, the router's cache, the portal's
cache behind it, and requests of the portal that overlap; `lastTrue` is history,
when the sources last said an answer. `TokenExchange`: the two buckets of an
attempt with the eviction that chooses among ties, the fetched key, the portal
that rotates, and tokens under the legacy secret (HS256), which are taken where
`HS256Allowed` and need no key. `Agent`: one turn of `POST /ask`; what the model says is free, and
a platform call may work, fail with or without effect, or not be heard.
`applied` and `lost` count what really happened on the platform.

### Platform, MCPlatform, Pipelines

`Credentials`, `Licensing`, `TokenExchange`, `Agent` and `Registry` share no
state. `Platform` puts them side by side: `PlatformSpec` is the conjunction of
their specifications, in which any of them may move in a step, and the theorems
are about it. `MCPlatform` is how TLC checks them in one run: `part` says which of
the five moves in a behaviour, and its states are the sum of theirs, not the
product. `Pipelines` is `PipelineStore` under names of its own (`Routers`,
`Customers`, `Pipes`), so that its proofs can stand beside the others'; the run
`pipelines` checks its specification.

## 3. The runs

| Run | Asks | Bounds |
|---|---|---|
| `jobs_single` | One process with crashes and failing statements: registry, cancellation, step rows, ended rows, the client's view | one job and a batch of one child, a named and a tenant's v2 pipeline, two steps: all paths of a task and every point of failure in each; two steps tell first from last |
| `jobs_replicas` | Two processes, no faults: every job ends, batches report their children, open rows have tasks | a batch of one or two children through one slot, so that one waits; any replica may cancel any job |
| `audit_routers` | Two routers, faults and the deploy service: the chain verifies, tampering shows, writes end | three events, up to one old row of each kind: enough for two writers to interleave behind a third row |
| `audit_retention` | violated: two threads of one session fork the chain | one session, two threads |
| `scale_routers` | Two routers, faults, manual scaling: calls end, idle deployments go down | one call, one manual scale-up, one deployment |
| `metering` | Overlapping runs that break off anywhere: nothing skipped, nothing twice without a mishap, calls billed in the end | two runs, one call, three ticks |
| `entitlement` | Redelivery, reordering, failing statements, a router that loses its database: row and keys agree, the row is the newest event's, lists are no older than their router believes, who pays nothing is refused in the end | two requests to the webhook, one router, up to two subscriptions and three events, an interval of one tick |
| `deploy` | Three deploys of one name: row and catalog agree, what was reported runs, a running row is true, requests end or the loop waits for a lock held across a yield | three requests, one with tools, two with the same manifest |
| `pipelines` | Registries agree with the stores, tenants see what is theirs or shared, a job runs what was accepted | two replicas, two tenants, one name that the image ships as well, two definitions, one mishap of the database |
| `access` | Who is let in had a grant, who keeps one is let in, a sign-in leaves the asserted roles | one check and one sign-in, two roles, one group, a manifest for a role and one for everybody, one statement of an administrator, SCIM, erasure or the identity provider; any start with an active user and at most two rows among roles given by hand, mappings and grants, or the admin flag |
| `calls` | One call for a handle, hook events audited, declared fields redacted, requests end | two requests of seven programs on five ways, two handles, five MCPs (with declared fields, an external agent, one to be confirmed, one whose address is refused, unknown), foreach of two items through one slot and two, three hooks |
| `platform` | Credentials through a rotation, license answers, tokens, an agent's turn, guards and capabilities of the registry | two replicas, two names, four environments; two licenses, clock to 3; two addresses and tokens, two attempts a window, three buckets, clock to 2; four rounds of two calls; three registrations of four manifests, one of them of a stdio server with a malformed tool |

Why the bounds are enough. Jobs differ only in kind and engine, and the engine
matters only at lookup and refusal; a second single job shares nothing with the
first but the table. Two writers and two replicas are what every race here needs:
no guard counts above one except the batch's slots, which `SemSize = 1` with two
children exercises, and that of the foreach, with a limit of one and two items. A
check of `access` needs one foreign statement to see two states. Three buckets of
four make the eviction choose; two attempts are a limit with an inside and a
boundary. The four environments of a rotation are one key, both, the other as the
current one, and the other alone. Two webhook requests and three events give a cancellation, an older event that
comes back after it and an overlap. Three deploys give a change and a change back
(or none, for the two alike) one by one, and any pair of them overlapping. Three
ticks give a run a window with a start, an inside and
an end, and a later run another one. `metering` has one call because its
liveness property is expensive (with two, the safety part takes seconds and is
the same); the theorems hold for any number. The audit runs are finite
because events run out; they and nothing else stop, so they alone set
`CHECK_DEADLOCK FALSE`.

Each passing run's properties are tested by a mutant of the code: an off-by-one
in the window, a missing `finally`, a lock that is tried and not awaited, a status taken from the last step only, a policy that is widened where it should be
narrowed, hooks from back to front. Each is found.

### Conditions in the properties

A property states what the code promises and no more; where that needs a
condition, it is written in it.

* `CancelIsFinal`, `EndedRowsStand`, `LifecycleSpec` are checked with one
  router process. With several, the code does not give them: a cancel request
  that arrives elsewhere finds no task.
* `OpenRowsHaveTasks`, `BatchTellsOfChildren` exclude crashes or failing
  statements, after which rows are left that nothing takes up.
* `CompletedNamedRan` is about named pipelines; for v2 it is false
  (a run that is refused is completed, section 5).
* `ChainIntact` asks that no other service wrote into the chain: the deploy
  service breaks it. `TamperShows` is about entries that another one
  follows: removing the newest ones leaves a shorter chain that verifies.
* `IdleScalesDown` asks for an entry: after a restart a deployment has none
  until it is called.
* `NothingSkipped` and `CallsGetBilled` are about rows that are there before a
  run takes a time past their stamp, and after metering has begun.
* `RowDecidesKeys` asks that no two deliveries overlapped, `RowFollowsStripe` and
  `UnpaidIsRefused` also that events came in order: without that they are false
  (`CancellationIsRefused`), for the handler never looks at an event's time.
  `UnpaidIsRefused` is about routers whose connection lives.
* `DeployedIsServed` asks that deploys came one by one, and that the manifest
  changed what was there. Overlapping deploys take each other's tag and file; an
  unchanged manifest restarts nothing. `RunningRowIsTrue` asks for the first.
* `DeploysEnd` excepts the event loop that waits for a lock; `WaitsForYield` says
  what that lock is.
* `LoadedAgrees` excepts names another replica changed since the last load, names
  whose deletion left something behind, and a load without the database.
  `OwnOrShared` excepts what had to be stored as a file, which has no tenant.
  `JobRunsWhatWasAccepted` is about single jobs and about batches of files, as
  long as nobody changed what the replica has under that name.
* `AdmittedWasGranted` says "at some instant of the check", which is what a check
  of several statements can give. `SignInIsAuthoritative` is about a sign-in that
  nobody disturbed and whose statements succeeded.
* `CapabilitiesStand` says of each step that its tool makes the type or did before
  its MCP was registered again, and of what is not shown that it cannot be made
  where no MCP withdrew one of the types, no tool is malformed and no two MCPs make
  one: the code keeps the first producer, withdrawn or not.
* `KeysAreRecent` (in `IssuedInOrder`) is about tokens under a key; the legacy
  secret knows no rotation.
* `HookEventsAudited` does not say once, nor that the INSERT took, and `FieldsRedacted` is about values with
  fields and a configuration in which nothing truncates before the guard.
  `RequestsEnd` asks for at least one slot.
* `GuardsStand` excepts imports. `ResolvesLatest` is about credentials without a
  Secret of their name. `WindowHolds` (in `IssuedInOrder`) is about buckets that
  are not thrown out. `WritesOnce` (in `TurnsAreSound`) allows a second effect for
  a lost answer.

What a document says and the code does not do is stated in the modules as well,
next to the property that does hold, and is listed with the findings:
`CancelledStaysFailed` (Jobs), `ColdStartSurvives` (ScaleToZero),
`BilledAtMostOnce` (Metering), `CancellationIsRefused` (Entitlement),
`BatchRunsWhatWasAccepted` (PipelineStore). One such run is kept, `audit_retention`;
the others are refuted by the configuration of their module with that one
property in it. `TypeOK`, `LockHeldByWriters` and `WaitsForYield` are there for the
proofs, which establish them.

### Fairness

Only what the code schedules is fair. Tasks on the event loop go on (a call
ends by answer or timeout, `httpx timeout=300`, and a handler runs to its end):
weak fairness of `TaskStep`, `CancelWrite`, `Statement`, `CallStep`, `DownStep`.
Postgres queues the waiters of an advisory lock: strong fairness of `Lock`.
The idle loop runs every 60 seconds and time passes: weak fairness of
`ScanStarts`, `Ages`, `Tick`. A service that is asked again and again does not
fail every time: strong fairness of `ScanReads`, `ScanPatches`, `List`, `Count`,
`Report`. The scheduler calls report-usage repeatedly: weak fairness of
`RunStep`. Stripe delivers an event until it is answered: weak fairness of
`Deliver`, strong fairness of the two statements, which do not fail every time.
Requests reach every router: weak fairness of `Refresh`. The deploy service's loop
goes on as long as some request can: weak fairness of all stages together, which
needs no fairness of Kubernetes, since `rollout status` gives up after 120
seconds. A request of `Boundary` goes on when it can, and every POST has a time
limit: weak fairness of `Progress` and `Comes` of all requests together. Users, operators, failures, crashes and restarts are never forced to
happen, and never assumed to stop except through these.

## 4. The theorems

TLAPS proves these for every value of the constants the modules' assumptions
allow: any number of jobs, batches, replicas, steps, sessions, events, runs,
calls, requests, programs, hooks, users, roles, tenants, names, tools, types and
stages of a rotation. Every safety invariant and every action property that a passing
run checks is the statement of a theorem.

**JobsProofs.** `TypeCorrect`. `RegistryCorrect`: `RegisteredIffLive` alone is
not inductive, since nothing in it says that a task's home is a replica, that a
job without a row has no task and was not answered, that the children of a batch
that has not started have none, or that a row a cancel handler read exists;
`RegInv` adds these (`LiveHome`, `Fresh`, `KidsWait`, `CancelKnown`).
`CancelFinal`, `EndedRowsStay` and `ImplementsLifecycle` assume one replica and
use `SingleInv` on top: a live job's row is open, a task that has not started is
queued, and the row a cancel handler has read is still open when it writes.
`ImplementsLifecycle` is the refinement: the initial state maps to an initial
state, and each step to a step of `JobLifecycle` or to a stutter.
`CompletedMeansDone`, on any number of replicas, uses `RanInv`: no row of a job
that is not finished says completed. `OpenRowsMove` and `BatchesTell` are about any
number of replicas as well: an open row has a live task or a parent that was
cancelled (`OpenHasTask`), and a batch gathers children that are ready, calling or
done on its own replica, so that when it goes on they all are done, and what it
then writes stays true of their rows, which only a cancel request changes
(`GatherInv`).

**AuditChainProofs.** `AuditTypes`. `LockFollowsWriters` proves that the depth
of the lock is the number of writers between lock and unlock and that they are
of its session; `Carrying` ties each of them to a connection that is up.
`ChainStaysIntact` assumes one writing thread per session, and proves that the
chain verifies unless another service wrote into it: every chained row links to
the one before, and a writer about to insert has read the hash of the last row
(`ChainInv`), which no one can outdate while it holds the lock.
`TamperingIsReported`: in a table that verifies every chained row's hash is longer
than that of the chained row before (`TamperInv`; a hash is the sequence of what was
hashed), so a row that is missing or exchanged breaks a link and one that is edited
its own hash. It holds for any table, with rows of other writers and older formats
in between, and needs no assumption about threads.

**MeteringProofs.** `MeteringTypes`. `NeverSkipped`: `SkipInv` says that every
time the system holds on to - the watermark, the start of a listed window, the
end of one that was accepted, an identifier Stripe knows - is settled, that is
all that is to be billed up to it was billed, and that none is later than the
latest time a run has taken; overlapping runs may set the watermark back or
forward, but only among settled times. `BilledOnceUnlessMishap`: one run at a
time works on a window that begins at the watermark, and what is billed lies
behind the watermark or in the window that is about to move it (`OnceInv`).

**EntitlementProofs.** `EntitlementTypes`. `ListAgeIsKnown`: a list with the keys
was loaded while they were active, and both clocks run alike. `KeysFollowRow`:
while deliveries do not overlap, the event a request is about stays pending until
its answer, so a request that failed between its statements leaves something
pending, and the row the keys follow is the one the same request wrote
(`AloneInv`). `RowFollowsEvents` adds that, in order, what is pending is an end of
the log and a request is about its first event, so that the request that leaves
nothing pending wrote the newest one (`OrderInv`).

**DeployProofs.** `DeployTypes`. `WaitsOnlyForYields`: a transaction is open across a
yield only in two stages (`LockInv`). `CatalogAlwaysAgrees` is inductive as it stands.
`RunningRowAlwaysTrue` and `DeployedAlwaysServed` rest on `AloneInv`: while requests
come one by one, the one that is under way, or whose build is, began last; hence
nothing but its own stages touches tag, registry, file and cluster, and each stage
finds what the one before it left (`ServedInv`).

**BoundaryProofs.** `OneCallForAHandle`: the calls that carried a handle are one,
of a request of its owner, and exist only when the row is used (`Once`); a request
keeps its caller, and a used row stays used. `CallsLeaveNoEvents`: an event that is
not stored is one of a call that is out and that began before it (`Audit`), so the
slice that this call writes when it ends contains it, whatever others appended
meanwhile; that the list only grows by the events of the call at hand is a fact
about the fold over the hooks. `NoDeclaredFieldOut` assumes `GuardFirst`: among the
hooks after a call a guard of the declared fields comes before each hook that cuts
an answer to a text. The default orders give that (10 for this guard, 100 for
the others), and the run's configuration has it; without it the property is false
(section 5). From there a value keeps its fields until the guard
has seen it, and no hook adds any.

The hooks are run by a fold over a sequence that is chosen as the sorted one, so
the proofs first establish that such a sequence exists and is unique, and what
the fold computes hook by hook. The induction theorems of the library take an
operator and cannot be instantiated here; these proofs use induction in the form of
a lemma about sets (`Induction`: a set with 0 that is closed under successors
contains every natural number), which is proved from the cardinality of finite sets.

**AccessProofs.** `AccessTypes`. `NobodyAdmittedUngranted` and `NobodyOverlooked`
rest on what a check that is under way knows (`InFlight`): it took note of every
way in that there is now, and of those that held since it began none is of a kind
that a statement before has looked for (`Tried`, `GateTried`), as that statement
would have admitted. Hence a statement that finds a grant finds one that was noted,
and a check that has asked for everything has nothing left that held throughout.
`SignInSettlesRoles`: between its DELETE and its last INSERT a sign-in has inserted
what it mapped but for what is still to do, and every other writer marks it as
disturbed (`SignedIn`).

**PlatformProofs, credentials.** `TypeCorrect`. `RotationKeepsCredentials`: a row
the platform encrypted has a key that the ring of every replica holds (`RowsOK`),
and no two replicas are further apart than one environment (`Together`), so that
what one encrypts all can read, and the restart that drops a key has looked at the
rows; rows hold what was stored last (`LatestStands`).

**PlatformProofs, agent.** `TurnTypes`. `WritesAreMadeOnce`: the effects of a write
are those that were lost, of which each was a failure, and at most one that was
heard, after which it is never made again (`Accounted`); a second failure ends the
turn (`GoesOn`).

**PlatformProofs, licensing.** `LicenseTypes`. `CachesKeepToTheirTime`: whatever is
kept anywhere carries a time at which it was true, which is no earlier than when it
was stored in the router's cache (`CacheTrue`), and less than TTL before the portal
asked, whenever the answer arrives (`AskedTrue`, `HeardTrue`); the ages of the two
caches add up.

**PlatformProofs, token exchange.** `ExchangeTypes`. `ExchangeKeepsToItsLimits`:
within the window the attempts of a bucket stand, one by one from the end, at or
after the exchanges that passed (`Covers`), so a full bucket has let through no more
than its limit, through pruning, through attempts that the other bucket refused, and
through evictions, which forget both; the clock is `time.monotonic`, which orders
the attempts and makes pruning the removal of a first part. A key in the cache was
published no earlier than it was fetched (`KeysNoted`).

**PlatformProofs, registry.** `RegistrationsKeepTheGuards`: a name of the YAML files
that no import has replaced is the file's manifest or one offer merged with it
(`Guarded`); a registration merges with the files and not with what is there, so
that no sequence of them is longer than one. That a merge admits nobody whom the
file refuses is a lemma about `MergeAccess` for any set of roles and groups.

**PlatformProofs, type graph.** `RegistryTypes`: what the files seed and what an
import brings is entered into the graph by a fold, of which the proofs first
establish what it does tool by tool (`Induction` again, `FoldsTell`).
`ShownChainsStand` has two halves. One is an invariant that ties the graph to the
manifests (`GraphTells`): the producers of a type are the MCPs that have declared
it, the standing tool's outputs are among those, and a well-formed standing tool's
inputs are those of the graph; registrations, imports in any order and restarts
keep it. The other half holds of every graph. The search is a function of the types
that are on the way and of the wanted one, and TLAPS cannot take it for defined
until it is shown to exist: `SearchCases` does, and gives its cases as equations.
The induction is over the finite set of types that are not yet on the way
(`SearchInduction`): a search that asks for `t` goes on with `t` on the way. By it
each step of a chain that was found is the first producer of its type and what the
graph says it takes is made before (`SearchIsSound`); a type that is not found is in
a set of which each member has no producer, or whose first producer takes another
member (`NotFoundHopeless`); and a search that insists on the inputs finds what the
other one found when the inputs called required are given
(`InsistingFindsTheSame`). `SoundFits` and `HopelessFits` then say with the
invariant what that is in terms of the manifests; the second needs that a type
nobody contests has no producer but the tool that stands for it.

**PlatformProofs, pipeline store.** `StoreTypes`. `TenantsSeeTheirOwn`: in every row
and in every copy of one is a definition its owner wrote, in every file and copy of
a file one that is noted as filed (`StoresOwn`). `ReplicasAgree`: for a name a
replica is not off from, its files and the tenants' parts of its registry are those
of the stores (`StoresAgree`). `JobsRunWhatWasAccepted`: as long as nothing has moved
under a waiting job, the lookup it is going to make would find what it was accepted
with (`Follows`), which every other step preserves or tells the job (`Carries`).

The assumptions are those named in the modules (`JobsConstants`, `AuditConstants`,
`MeteringConstants`, `EntitlementConstants`, `DeployConstants`,
`CredentialsAssumption`, `HooksAssumption`, `BoundaryAssumption`, `AccessAssumption`,
`PlatformAssumption`, `PipelinesAssumption`), which TLC evaluates on each run, and
`SingleReplica`, `OneThreadPerSession` or `GuardFirst` where the theorem says so.

Only model-checked: everything under fairness (`JobsEnd`, `WritesEnd`, `CallsEnd`,
`IdleScalesDown`, `CallsGetBilled`, `UnpaidIsRefused`, `DeploysEnd`, `RequestsEnd`),
which is out of the prover's reach. `ScaleToZero` has no safety beyond its type.
Of the constants the proofs about the type graph assume that the types of the type
registry and the names of MCP servers that occur are finitely many, as both are
entries of dictionaries that files and requests fill.

## 5. What the work found

Each is in `PROJECT.json` with its line and the text it disagrees with.

* Cancelling a batch's child answers "cancelled" and changes nothing: its task
  goes on and overwrites the row. The same happens to any job when another
  router than its own gets the request.
* Cancelling a batch leaves its children's rows queued or running.
* A v2 job that is refused before its first step is recorded as completed.
* A batch accepts a tenant's v2 pipeline and then fails every child as unknown;
  its children do not get the creator's credentials.
* Rows of jobs whose router restarted stay open for ever.
* The retention thread shares the event loop's session, so that the advisory
  lock does not keep the two apart and the chain can fork.
* The deploy service's events make the router restart its chain, which
  `/audit/verify` reports as tampering; removing the newest entries is not
  reported; a broken connection is kept, and events are dropped from then on.
* During a cold start the idle loop may stop what a call is starting;
  `ensure_running` returns True whether or not the pod came up.
* A lost answer of Stripe bills a window twice; so do overlapping runs. A row
  that becomes visible late, and the calls between the last run and a
  cancellation, are never billed.
* An event older than a cancellation, handled after it, gives a canceled tenant its
  keys back for good. Two subscriptions of a tenant share one row: the end of one
  cuts off the other. Every renewal switches on keys an operator has switched off.
  A router that lost its database admits its last list until it is restarted.
* Two overlapping deploys of a name with tools stop the deploy service for good:
  one yields in its transaction, the other blocks the event loop on its lock.
  Overlapping deploys push each other's image and apply each other's manifest.
  A redeploy with an unchanged manifest restarts no pod and says it is complete.
  Deploys that fail stay `deploying`; an ok receipt may precede an error; the
  typed manifest's 401 is reported as registered.
* Deleting a tenant's own pipeline hides the global one of its name until a restart;
  a deploy that fell back to a file is answered, and an older row goes on being
  served; a reload forgets named pipelines.
* v2 steps ask no rules, resolve no handles and write no call rows, although the
  docstring says they do; `concurrency: 0` hangs; hook events of concurrent calls
  are written twice and never leave memory; an external agent's own handle works
  once; a truncating hook before the guard lets declared fields through, and so do
  error results.
* A failing mapping query or two overlapping sign-ins leave other roles than the
  identity provider asserts; a delegated key of an administrator meets the
  manifest's gate the administrator passes; SCIM's PATCH without `active` activates;
  a failed erasure is not rolled back.
* An MCP that is registered again without an output stays the first producer of its
  type: `/capabilities` shows a chain whose step does not make it, or hides a
  second MCP that does behind a circle. A malformed tool fails its registration
  halfway: the manifest is replaced and the graph has part of the tool.
* A hook event whose INSERT fails is lost with a warning.
* An import drops the guards of seeded MCPs; a plain registration leaves the typed
  manifest as it was and takes over any name.
* `reencrypt_platform` has no caller; a changed BYOK credential keeps its mode, and
  one in a Secret its old value; `/use` reads platform credentials only.
* A revoked license stays unlocked for up to 360 seconds; a refused attempt of a
  token exchange is charged to its first bucket and evicts nothing; after a rotation
  of the portal's key new tokens are refused for up to 300 seconds.
* The agent repeats a write whose answer was lost, reports a first run with failed
  steps as successful, and answers 502 after writes were made.
* The policy engine sorts by priority before it sorts denials first.

## 6. Limits

Not modelled at all: what handlers format, log or render; formats and signatures
of tokens and licenses (valid or not); what the language model reads and says;
`policy/engine.py`, which nothing calls with rules of its own; services without
order or state of their own (importers, command line, observability, packaging);
the broker, which nothing imports; the registry service, which is CRUD of one
statement each; AWS Marketplace's registration and notifications; the agent's
training and benchmark scripts; chats and pages of the portal.

Abstractions that matter: what runs between two awaits of one process is one
step; a failing `pg_advisory_unlock` on a healthy session is left out; an audit
row's place is taken when it is inserted (`seq` and commit are one); times are
compared, not measured; the stages of a run are their outcomes; template
expansion, channels and nested `pipeline:` steps, which are requests of the router
to itself, are left out of `Boundary`; in `Access` the writes of an administrator
are one step. In `TypeGraph` an MCP has one typed tool: of a manifest with several,
of which a later one is malformed, the earlier ones would be in the graph as well.
The files that seed the registry are well-formed (a router does not start with one
that is not).

## 7. Plan

Done: every component above that keeps state over several steps. Next, in this
order:

1. Proofs: the type invariant of `ScaleToZero`, and abstract views of further
   components, refined step by step as `JobLifecycle` is by `Jobs`.
2. Nested pipelines: a request that holds a slot while it waits for a request of
   its own, in `Boundary`.
3. `Jobs` with `PipelineStore` as its registries, instead of `Relist`.
4. AWS Marketplace's registration; the window of the external agents' limit as
   an instance of `TokenExchange`'s.

Runs stay few: one for each question, and parts that share no state in one run.
