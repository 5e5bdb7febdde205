# A specification of ODAHU-flow

TLA+ modules, TLC configurations and TLAPS proofs for the concurrent core of
ODAHU-flow: the API server whose requests become transactions, the controller
that keeps Kubernetes and PostgreSQL in step, the operators behind the custom
resources, the outbox of route events with the service catalog that follows it,
and the clients that repeat what they are not sure of.

- [The system](#the-system): components, state, operations, hazards
- [The modules](#the-modules): how they correspond to the code
- [The runs](#the-runs): what TLC checks, bounds, fairness, disagreements found
- [The proofs](#the-proofs): what TLAPS proves, from what, by which invariant
- [Not modelled](#not-modelled)
- [The plan](#the-plan): what is there, what could come next

## The system

A user talks to the **API server**, mostly through the **command line and the
SDK**. The server writes entities (model trainings, packagings, deployments,
routes, batch inference jobs) to **PostgreSQL** and connections to Vault or
Kubernetes. The **system controller** creates a Kubernetes custom resource for
every row and carries the status of the resource back to the row. **Operators**
(the same binary family, built on controller-runtime) turn the custom resources
into Tekton task runs, Knative services and Istio virtual services. Each change
of a deployment or route leaves an event in an **outbox** table, which the
**service catalog** reads over HTTP to know which models are served and where.

```
 CLI, SDK -> API server -> PostgreSQL <-> system controller <-> custom resources
                |             |                                      |
           connections     outbox                                operators
         (Vault, secrets)     |                                      |
                        service catalog               Tekton, Knative, Istio
```

| Component | State | Operations | What is hard | What must be true |
|---|---|---|---|---|
| System controller (`pkg/controller`) | the lease; per process: the two lists and the plan of a pass, a status reconcile, the reconcile queue | list both sides, compare, create, update, delete, delete in DB; fetch, compare, report status | two lists and many calls that are not atomic; failed items; crashes; delete and re-create under a running pass; paging; errors that look like empty lists | no resource outlives its row; nothing unmarked is taken down; a job starts once; results belong to their spec; everything converges |
| API server, deployments and routes (`pkg/service`, `pkg/repository`) | rows, events, transactions | create with a default route, update, mark, report a status, delete with the default routes | transactions that overlap at REPEATABLE READ; errors that are overwritten; commits that fail and are only logged | a default route belongs to its deployment; the last events tell the rows, with two exceptions; a mark stays |
| API server, trainings, packagings, batch jobs | rows: spec, deletion mark, status | create, update (resets the status), mark, delete, guarded status update | status update against a concurrent edit | a status is stored only for the spec it was computed for |
| Outbox (`pkg/repository/outbox`) | last event per entity, a sequence | publish in the transaction of the change; read behind a cursor | ids are drawn at insert, visible at commit | a reader with a cursor misses nothing (it may: below) |
| Service catalog (`pkg/servicecatalog`) | cursor, event cache, workqueue, route and model maps | fetch, queue, cache, handle, retry, forget | fetcher and workers share the cache without a common lock; retries; restarts | the last event wins; failures are retried; nothing goes back |
| Operators of trainings, packagings, batch jobs (Tekton) | custom resource status, task run, result config map | create or re-create the task run, derive the state, store the result | informer caches lag; a task run is replaced under the same name | a reported state goes with a task run of the present spec, which only an outdated reconcile deletes; edits and final states stay |
| Operator of deployments (Knative) | custom resource, policy map, pull secret, service; per reconcile its local variables | make policy, secret and service, derive the state, inspect the model | four caches that lag; reconciles that are cut off between two children; errors that end a reconcile with success; passwords that change without an event | no edit is undone; it never rests on a policy or (without a pull connection) a service of another spec; everything follows in the end |
| Operator of routes (Istio) | route, virtual service with the route's version on it | label, read targets and mirror, make the virtual service, derive the state | the version is taken for the proof that nothing has changed; a state that is not stored; its own writes wake it up | a virtual service taken for up to date is; all ready targets are routed; it comes to rest |
| Kubernetes clients (`pkg/kubeclient`) | none | create, update, delete, list custom resources | update keeps or resets the status, foreground deletion | part of the modules above |
| Connections (`routes/v1/connection`, `pkg/service/connection`, `pkg/repository/connection`) | the records, each request that is being handled | create, read, update, delete; validate, fill in, encode and mask secrets | handlers look and write by separate calls, without a transaction; errors of Kubernetes get lost; masks are sent back | a mask never becomes a secret; what is stored is complete |
| Command line and SDK (`packages/cli`, `packages/sdk`) | per command: the request, attempts left, whether it has logged in | create, edit, delete, bulk apply and remove; repeat, log in, report | requests that are lost, late or done twice; two HTTP clients with retries of their own | success means it is done; a create writes once; a command ends |
| Feedback collector (`packages/feedback`) | none | read Envoy's tap, post to Fluentd | half of a pair posted before an error | - |
| Tools in pods, charts | none | sequential | the saves of a result | - |

`PROJECT.json` lists the hazards with the line each one bites at and the
properties that would notice.

## The modules

| Specification | Properties | For TLC | Proofs |
|---|---|---|---|
| `GenericWorker`, `EntityLifecycle` (abstract), `CustomResource` (abstract) | `GenericWorkerProps` | `MCGenericWorker` | `GenericWorkerProofs` |
| `ApiServer` (its events those of `Outbox`) | `ApiServerProps` | `MCApiServer` | `ApiServerProofs` |
| `Outbox`, `Reflector` (extends it), `RouteCatalog` (abstract) | `ReflectorProps` | `MCReflector` | `ReflectorProofs` |
| `TaskOperator` | `TaskOperatorProps` | the same | `TaskOperatorProofs` |
| `KubeCache`, `DeploymentOperator` | `DeploymentOperatorProps` | `MCDeploymentOperator` | `DeploymentOperatorProofs` |
| `RouteOperator` | `RouteOperatorProps` | `MCRouteOperator` | `RouteOperatorProofs` |
| `ConnectionService`, `ApiClient` (extends it) | `ApiClientProps` | `MCApiClient` | `ApiClientProofs` |

The `Props` modules hold the type invariant, the safety properties and the
inductive invariant `IInv` of the proofs. A definition whose comment begins
"Mutant of" is a plausible mistake in the definition that follows it;
`PROJECT.json` says which property notices.

### GenericWorker

One module for the five kinds of entity; its CONSTANTS say what the adapter,
the service and the Kubernetes client of a kind do.

| Constant | In the code | Kinds |
|---|---|---|
| `MarkedDelete` | the API's delete sets `deletionmark` (`SetDeletionMark`) instead of deleting the row | deployments, batch jobs |
| `Foreground` | `DeleteModelDeployment` deletes with foreground propagation; `IsDeleting` looks at the state `Deleting` | deployments |
| `Finite` | `IsFinished` can be true | trainings, packagings, batch jobs |
| `KeepsStatus` | the client's update writes the spec only | deployments, routes |
| `Immutable` | `GetSpecHash` is 0 and `UpdateInRuntime` refuses | batch jobs |
| `JoinsService` | `ListStorage` drops a row whose service it cannot fetch | batch jobs |
| `HidesErrors` | `ConvertK8sErrToOdahuflowErr` turns an error of the list into none, and the list is empty | batch jobs |
| `StoragePage`, `RuntimePage` | rows and resources a list call returns (500) | all |

State and actions:

| TLA+ | Code |
|---|---|
| `rows` | a table of PostgreSQL: spec, mark, status |
| `objs` | the custom resources: spec, foreground deletion, status |
| `lease` | the config map lock of `controller.go` |
| `pc`, `listed`, `plan` | the local variables of `SyncSpecs` and `GetNotSynced` in a process |
| `rec` | the local variables of `statusReconciler.Reconcile` |
| `polled` | its workqueue: ids that are queued, or will be after 30 seconds or a backoff |
| `started` | history: ids whose present row has had a custom resource |
| `CreateRow`, `UpdateRow`, `MarkRow`, `DeleteRow` | the API's services, each one transaction |
| `Acquire`, `Crash` | `OnStartedLeading`; the end of a process or of its lease |
| `ListRuntime`, `ListStorage`, `ListStorageFails` | the two calls at the head of `GetNotSynced`; `Decide` is its comparison of the lists |
| `CreateInRuntime`, `UpdateInRuntime`, `DeleteInRuntime`, `DeleteInDB`, `ItemFails` | one item of one of the four loops of `SyncSpecs`; `Turn` keeps the order of the loops |
| `FetchObject`, `FetchRow`, `ReportStatus`, `ReconcileFails` | the calls of a status reconcile; `ReportStatus` is the transaction of `UpdateModelTrainingStatus` and its siblings |
| `OperatorReports`, `OperatorMarksDeleting`, `Collect` | the operators and the garbage collector, as the controller sees them |
| `Resync` | the periodic resync of the informers |

Every call to the database or to Kubernetes is an action of its own, so users,
passes, reconciles and operators interleave between any two of them. A call
that fails leaves the state alone and the code goes on with the next item. A
status carries, besides its state, the spec the operator had read when it
computed it (`of`); the code keeps no such field, the properties need it.
`"Done"` stands for Succeeded, Failed or Ready, whatever is final for a kind;
`"Working"` for every other reported state.

`EntityLifecycle` is the abstract specification of an entity that is deleted
with a mark: declared, started, condemned, stopped, forgotten, in an order that
never stops what is not condemned and never forgets what runs. `GenericWorker`
implements it under the mapping `Lifecycle` (declared = rows, condemned =
marked rows, running = custom resources). `MCGenericWorker` adds the liveness
properties.

### CustomResource

The contract between the system controller and an operator about one custom
resource, and the seam between `GenericWorker` and the three modules of
operators. Its state is what both sides see: the spec, whether deletion has
begun, and a stage (`Unknown`, `Working`, `Done`, `Deleting`, or no resource).
The controller's half is `Create`, `Update`, `Delete`; the operator's half, with
the garbage collector, is `Report`, `MarkDeleting`, `Collect`. Its constants are
those of `GenericWorker` that the operator has to know: `Foreground`, `Finite`
(what is done is not reported again), `KeepsStatus` (an update keeps the stage).

Each of the four modules has a `View` (or `Shown`) of its state and an
`INSTANCE` of the contract, and `KeepsContract` says that it implements it:

| Module | `Foreground` | `Finite` | `KeepsStatus` | Stages |
|---|---|---|---|---|
| `GenericWorker` | as configured | as configured | as configured | the state of its `Status` |
| `TaskOperator` | no | yes | no | Scheduling and Running are `Working`, Succeeded and Failed are `Done` |
| `DeploymentOperator` | yes | no | yes | Processing is `Working`, Ready is `Done` |
| `RouteOperator` | no | no | yes | the same |

These are the constants of the kinds in `training.cfg`, `batch.cfg` and
`deployment.cfg`. `GenericWorker` thus stands for the operators soundly in two
directions: nothing the operators do is missing in its `Cluster`
(`OperatorsAreExpected`), and they rely on nothing its controller does not keep.

### ApiServer

The transactions of the API server on deployments, routes and the outbox.
PostgreSQL runs them at REPEATABLE READ: each reads what was committed when it
began, and one that writes a row another one has written since fails. So a
transaction is one `Begin`, which holds all it is going to write, and one
`Commit` or `Rollback`.

| TLA+ | Code |
|---|---|
| `md`, `mr` | the tables of deployments and routes: spec, status, mark; first target, default, Ready |
| `outbox` | the last event of each deployment and route |
| `tx` | what the transaction of a client inserts, writes and publishes |
| `Commit`, `Late` | the commit, and the serialization failures it causes in the others |
| `belated` | history: entities whose last event comes of a request that found neither row nor event, and committed after others |
| `Rollback` | an error of a statement or of the commit (`FinishTx` only logs the latter) |
| `CreateModelDeployment` with `SaveOnly`, `SaveWithRoute` | the function of the service; it publishes nothing when it finds a default route |
| `UpdateModelDeployment`, `SetDeletionMark`, `UpdateModelDeploymentStatus`, `DeleteModelDeployment` | the functions of `deployment_service.go`, with the errors they overwrite |
| `CreateModelRoute`, `UpdateModelRoute`, `UpdateModelRouteStatus`, `DeleteModelRoute` | those of `route_service.go`, with the refusals of the HTTP handlers |

An insert does not fail for a row that is being deleted but waits for the
deletion and succeeds (`MayInsert`), though it has read the tables as they were
before. `Promoted` are the deployments whose users make an ordinary route a
second default one, which `UpdateModelRoute` lets them do.
`ApiServerProps!RouteEventsFollow` ties this module to the next: the events of a
route come in the order that `Outbox!Follows` takes for granted.

### Outbox, Reflector

`Outbox` has the sequence of event ids, the open transactions and the committed
event of each route. `Reflector` extends it with the process of the service
catalog:

| TLA+ | Code |
|---|---|
| `cursor`, `batch`, `fetched`, `added` | the local variables of `runFetcher`; `added` is the point between `queue.Add` and `eventCache.put` |
| `cache` | `eventCache`: an event and the cursor before its fetch as version |
| `dirty`, `processing`, `waiting` | client-go's rate limiting workqueue |
| `job` | what a `runProcessor` goroutine holds in its local variables |
| `catalog`, `models` | `routeMap` and `modelsMap` |
| `handled` | history: the newest event handled without error |
| `Fetch`, `AddKey`, `PutEvent`, `MoveCursor` | the statements of `runFetcher` |
| `Get`, `ReadCache`, `Handle*`, `Retry`, `Forget`, `Expire` | the statements of `runProcessor` and the end of a backoff; one `Handle` action per outcome of `UpdateHandler.Handle` |
| `Restart` | the process stops, by itself or not, and starts with nothing |

`RouteCatalog` is what the catalog promises, without fetcher, cache, queue and
workers: a reader that learns the committed events of a route in their order
(it may pass some over, and learn one again), is never ahead of the outbox, shows
what it has learned, and may start over. `Reflector` implements it with `feed` =
`outbox`, `last` = `handled`, `entry` = `catalog` (`FollowsOutbox`).

### TaskOperator

The three operators that run an entity as a Tekton task run. They have the same
shape, so `kind` tells them apart: a batch job has no result map, is never
edited, and is reconciled after its end too; the trainer swallows the error of
saving a result, the packager does not.

| TLA+ | Code |
|---|---|
| `cr`, `run`, `cm` | the custom resource, the task run with its pod, the result config map: each as it is (`now`) and as its informer shows it (`seen`) |
| `orphans` | objects whose owner reference names a resource that is gone |
| `dying` | the pod of a deleted task run is in its grace period |
| `rec` | the local variables of `Reconcile`; `fresh`: its resource version is the present one |
| `queued` | the workqueue of the operator, for the one name |
| `Declare`, `Edit`, `Remove` | the create, update and delete of the Kubernetes clients |
| `Begin`, `CreateResultConfigMap`, `DeleteTaskRun`, `CreateTaskRun`, `UpdateStatus` | the writes of `Reconcile`, each with the cached reads just before it |
| `Ignore`, `Fail`, `Restart`, `Resync` | its early returns and its errors; the process and its informers |
| `SaveCommit`, `Finish`, `Terminate` | the trainer and the packager in the pod |

Every call of `Reconcile` can meet a cache that shows any earlier version, each
object on its own (`Lagging`), but never one older than it has shown before.
What `Put` and `Watch` say of the Kubernetes API and of controller-runtime is
what the code relies on: an update of an old version is a conflict, deleting and
creating go by name, an event reaches the queue when the cache shows it. A task
run and its pod are one record, since the operator is only notified of the pod
through the task run. A result map holds a result or not; whose it is, is left
out, and so are the artifacts in the status. Two versions with the same content
count as one, so an update that puts back what is there anyway is never a
conflict; a resource is created again only when the cache has shown the end of
the one before (`Declare`).

### DeploymentOperator

The operator of model deployments at one name. `KubeCache` is an object of
Kubernetes as the server has it and as an informer shows it.

| TLA+ | Code |
|---|---|
| `setup` | what differs between deployments: the kind of pull connection, the roles users ask for, the caches that may be late, how many pods there can be |
| `md`, `cm`, `secret`, `ks` | the custom resource, the policy config map, the pull secret with its service account, the Knative service, each `now` and `seen` |
| `password` | the password of the connection, or the token of ECR |
| `replicas` | the pods of the latest ready revision, from its Deployment |
| `orphans` | children whose owner is gone |
| `rec`, `queued` | the local variables of `Reconcile`, the workqueue |
| `Declare`, `Edit`, `Remove`, `Rotate` | the Kubernetes client on behalf of users (foreground deletion), and the registry |
| `Begin`, `Ignore` | the head of `Reconcile`: a resource in deletion goes straight to its status |
| `ReconcilePolicyCM` | `reconcilePolicyCM`: create, replace without a version, or delete by name |
| `ReconcilePullConnection`, `RecordCreds` | `pull_connections.go`: the secret, and the time of a token written to the resource at once |
| `ReconcileKnativeService` | `ReconcileKnativeService`: create, or update what the last applied hash says is another one |
| `JudgeNotReady`, `Inspect`, `JudgeReady` | `reconcileStatus` up to its writes, and the inspection of a model that may not answer |
| `UpdateStatus`, `LoseStatus` | the writes of the state; the error of storing Processing is dropped |
| `Fail`, `PullFails` | an error that comes back after a backoff, and one that ends in success |
| `Requeue`, `Restart` | `RequeueAfter` and the resync; a new process |
| `Observe`, `Collect`, `CollectResource`, `KnativeReports`, `PodsChange` | informers, garbage collector, Knative and its pods |

A secret is watched for another type of owner, and the Deployment of a revision
is an event only when it is updated; so is it in `Notify` and `PodsChange`.

### RouteOperator

The operator of model routes at one route, with the deployments it leads to.

| TLA+ | Code |
|---|---|
| `route` | the custom resource with its resource version |
| `md` | the deployments, as the cache shows them: ready, and where |
| `vs` | the virtual service with the version of the route it was made for (`ModelRouteVersionKey`) |
| `rec`, `queued` | the local variables of `Reconcile`, the workqueue |
| `SetLabels` | the labels that name the targets, an update with a new version |
| `ReadTarget`, `ReadMirror` | the loop over the targets: one that is missing is left out, one that is not ready ends the reading; the mirror |
| `ReconcileVirtualService` | create, or update unless the version is that of the route |
| `UpdateStatus`, `LoseStatus` | the writes of the state; the error of storing Processing is dropped (`StatusIsLost`) |
| `Fail`, `Requeue`, `Restart` | errors, `RequeueAfter` and resync, a new process |
| `DeploymentStep` | a deployment comes, goes, gets ready, or moves to another host; every route is queued for it |
| `CollectVirtualService` | the garbage collector |

Resource versions are only compared. The route, a reconcile and the virtual
service hold one each, so four that are used again and again are as good as
endless ones; the lemma `NewVersionIsNew` proves that a new version is always
one nobody holds.

### ConnectionService, ApiClient

`ConnectionService` is one connection in the API server.

| TLA+ | Code |
|---|---|
| `store`, `conn` | the configured repository, Vault or Kubernetes, and the record in it |
| `calls` | requests that are being handled, and how far |
| `writes`, `alone` | history, for the properties: how often a command has written, and whether anybody else has |
| `Reject`, `Valid`, `SetDefaults`, `Needs` | the validator; the defaults it fills in (the key of a git host, the region of a registry) |
| `Decoded`, `Masked`, `Decrypted`, `Encode` | `DecodeBase64Fields`, the mask and `EncodeBase64Fields` |
| `GetConnection`, `CheckAbsent`, `CheckPresent`, `CheckNotVital`, `CheckAgain` | what handlers and service look at before they write |
| `Write`, `Refused`, `Conflict` | the write; Kubernetes refuses some, Vault none |
| `LookFails`, `WriteFails` | errors of the store, those of Kubernetes lost on their way (`ConvertK8sErrToOdahuflowErr`) |

`ApiClient` extends it with commands and the two HTTP clients of the SDK.

| TLA+ | Code |
|---|---|
| `session` | the command of a client, its present request, attempts left, whether it has logged in; or its last report |
| `Start` | `create`, `edit`, `delete` (`parsers/connection.py`), bulk `apply` and `remove` (`parsers/bulk.py`), from a file or from what a GET has shown |
| `Send`, `NotSent` | a request that arrives, or does not |
| `Interrupted` | an answer that is lost or late; the handler goes on (`awaited`) |
| `Unauthorized`, `Login` | a refused token and its exchange, once per request (`limit_stack`) |
| `Looked`, `NothingToRemove` | the first of the two requests of a bulk command |
| `Succeeded`, `RefusedOrIgnored`, `ServerError`, `End` | answers and reports; `Idempotent` and `Budget` are the retries of urllib3 and of the loop of the asynchronous client |

## The runs

| Run | Question | Bounds | States |
|---|---|---|---|
| `deployment` | life cycle of a deployment under edits, deletion, re-creation, failures and crashes: refinement of `EntityLifecycle` with its fairness, convergence of specs, polling | 1 id, 2 specs, 1 controller | 77 thousand |
| `batch` | two jobs whose services can be read: no second start, even when a list of jobs fails and looks empty, or shows one of the two | 2 ids, 1 spec (jobs are immutable), 1 controller, 1 job per page of the runtime | 643 thousand |
| `training` | results belong to their spec and arrive; zombies go | 1 id, 2 specs, 1 controller | 7 thousand |
| `api` | requests that overlap: default routes, events, marks, the order of events | 2 deployments (one of them with a promoted route), 2 routes, 1 spec, 2 clients | 2.2 million |
| `catalog` | a route and two workers: it implements `RouteCatalog`, nothing goes back, deleted stays deleted, nothing is dropped, failures are retried, a restarted catalog catches up | 1 route, 3 events, 2 workers | 24 thousand |
| `tekton` | the three operators: the task run of a reported state is of the present spec and kept, edits and final states stay | 2 specs, all three caches may stand still at any version | 1.7 million |
| `tekton_live` | a packaging: edits are started, outcomes reported | 2 specs, the cache of task runs may stand still | 108 thousand |
| `serving` | a deployment: edits, agreement at rest, service, state, credentials, clean-up | 1 model, 2 roles, 2 passwords, five set-ups (`MCSetups`) | 259 thousand |
| `routing` | a route: the mark on its virtual service, targets, state, rest, clean-up | 2 deployments, 1 host, 2 wishes; Processing is always stored | 583 thousand |
| `connections` | commands and handlers: secrets, reports, creates, ends | 1 client, 2 calls, 3 files, both stores, 2 retries | 651 thousand |
| `catalog_race`, `route_stale` | disagreements between the code and what it says, below | as small as they get | 3 and 13 thousand |

Why the bounds are enough. In `GenericWorker` entities interact in two places
only: the order of the four loops and the pages of the lists. `batch` has the
two ids that make the order matter, and shows one of two jobs on a page of the
runtime; the theorems lift the safety properties to every number of ids. Two specs are the least that tell a status of an old
spec from one of the new; an edit back and forth between them covers "changed
and changed back". One controller: with two, a former leader that is still in
its pass can undo what the new one decided (`SyncSpecs` ignores its context);
`OneController` says so in the premise of the theorems.

In `api` a conflict is between two transactions; the two routes let a deployment
have an old default route and a new one, and an ordinary one become a second
default one. One spec suffices, since the status that an update takes away
already tells two versions of a row apart; the proofs are for any number of
everything. In `catalog` two workers give every interleaving of two handlers and
of one handler with the fetcher; three events give one that is handled, one that
fails and one that arrives meanwhile; the proofs are for any number of routes,
workers and events. `MaxEvents` bounds the sequence of the outbox.

The operators work on one name at a time and share nothing between names, so
`tekton`, `serving` and `routing` have one; a cache that lags may stand still
for any number of versions, so that a reconcile reads before any number of edits
and of its own writes. `tekton_live` lets the cache of task runs lag. That of
the resource is prompt there: its versions are known by what they say, so an edit
that puts back what a late cache still shows would be no event in the module,
though it is one in the cluster. The set-ups of `serving` let one
cache lag at a time and vary what goes with it: the role is changed while the
cache of services or of config maps is late, set and dropped while that of the
resource is; Docker
credentials that change, a token of ECR with a late secret. `routing` has the
two deployments that can be missing, not ready or a mirror in turn.

In `connections` a call nobody waits for stands for a request of anybody, since
it may carry any body the client could have sent before; two calls give one that
is late while the next one is on its way. Retries of 2 give a first, a repeated
and a last attempt of both clients.

Nothing else is bounded: rows and resources are created, marked and deleted any
number of times, crashes and failures come at any point. No run turns the
deadlock check off. `api` uses the symmetry of clients and of routes, where only
safety is checked. `TypeOK` is proved for every module and is not a property of
a run.

**Fairness.** Users, crashes, restarts and failures are never fair.

- The worker (`WorkerFairness`, `ReconcilerFairness` of `GenericWorker`): a free
  lease is taken (the elector retries), and the ticker of its holder goes on
  (`Run`); a call that is tried again and again succeeds in the end, and the
  garbage collector works. The strong form is needed since a crash or a failed
  call disables a step over and over. The reconciler: its queue serves every id,
  and the informers resync.
- The reflector: its goroutines run, every queued id is taken in its turn, a
  backoff ends, and a handler that is tried again and again succeeds in the end.
  Nothing obliges anyone to publish or to restart.
- The Tekton operators: informers deliver, the queue is served, a reconcile
  ends, and a call that is made again and again succeeds in the end, which is
  what the rate-limited requeue of controller-runtime is for. Tekton itself, the
  pods and the garbage collector owe nothing.
- The operators of deployments and routes: informers deliver, a queued name is
  taken and comes back after `RequeueAfter`, a reconcile goes on, the garbage
  collector works; and from some time on a call fails for a conflict only
  (`Lucky`). Without the last, an operator whose every second call fails need
  never come to its end. Knative, pods, deployments and users owe nothing;
  where a property needs them to rest, its premise says so.
- A client goes on (`Advance`): it sends, gives up waiting, or takes the answer.
  The server owes nothing, not even an answer.

### What the runs disagree with

- `catalog_race`: the reflector promises that the last of several events is
  processed, but queues the id before it caches the event. A worker that takes
  the id in between handles the event before, and the new one stays in the cache
  until the next event of the route or a restart.
- `route_stale`: "Route should reacts on changes in any ModelDeployment from its
  targets". A virtual service is left alone as long as the route keeps its
  version. A missing target changes the version only through the state
  Processing; if that is not stored (its error is dropped), or if a target is
  re-created on another host between two looks, the route is Ready while its
  virtual service lacks the target or leads to the old host. `routing` shows that
  with one host and the state always stored all is well.

What follows came up in the modules too and has no run of its own; where
constants are named, giving them these values shows it. The lines are with the
hazards in `PROJECT.json`.

- Polling of routes, trainings and packagings (`GenericWorker`, `MarkedDelete =
  FALSE`, `PollScheduled`): the adapters poll every 30 seconds for an entity
  that "was deleted and created again immediately in Storage", but a reconcile
  between the two finds no row and ends the polling. The status of the new row
  then stays empty until the ten-hour resync.
- Lists of batch jobs: a job beyond the first 500 rows (`StoragePage = 1`), or
  one whose service cannot be fetched (`JoinsService`), is taken for a zombie and
  killed; the latter is then started again. A list of custom resources that
  fails is taken for an empty one (`HidesErrors`): marked rows are deleted while
  their jobs run (`NoOrphanObject` fails).
- The cursor of the route events may pass an event that is committed later
  (`Outbox`): the catalog never reads it.
- A deployment that is created while its predecessor is being deleted finds the
  old default route in its snapshot and publishes nothing: both transactions
  commit, and it has no default route.
- A route that a user makes a second default one (`Promoted`) makes the deletion
  of its deployment fail for good.
- What `RunIsKept` excepts: with a late cache of the resource, a reconcile that
  still reads `Unknown` deletes the task run of a resource that has left that
  state; if its create then fails, later reconciles look for a task run that is
  not there. With a late cache of task runs, a reconcile after an edit can
  report the outcome of the old run, which is then final. A trainer whose save
  of the result fails succeeds all the same.
- Pods may run under the policy of another role for a while: those of an existing
  revision under the new map until the service follows, and, where the cache of
  config maps hides that the map has changed, those of a new revision under an
  old map. `RestsInAgreement` says that the operator does not stop there.
- The last event of a deployment may be wrong for a time (`EventsTellRows`): one
  that finds a default route at its creation has no event of it, and a deletion
  that was asked for before there was anything may be told of after the creation
  it has overlapped with, since it has neither row nor event to conflict on.
- The token of ECR is never renewed: until the end of any period there is always
  less time left than the period.
- An update of a deployment keeps its status, so `dep edit --wait` may report
  the Ready of the earlier spec (`deployment.py`, `deploymentclient/client.go`).
- Connections in Kubernetes: errors of the store are answered with 201 or 200. A
  connection may become vital between the check of a deletion and the deletion.
- The asynchronous client repeats a POST that may have arrived, unlike the other
  one; a repeated DELETE reports that there is nothing to delete.

## The proofs

Every theorem holds for all values of the constants that the named assumptions
of the module allow (sizes are positive, switches are Boolean, `None` is none of
the values).

| Module | Theorem | Premise | Result |
|---|---|---|---|
| `GenericWorkerProofs` | `TypeCorrect` | none | `TypeOK` |
| | `InvariantHolds` | `Guarded` | `IInv` |
| | `NoOrphans` | `Guarded` | `NoOrphanObject` |
| | `PollingGoesOn` | `Guarded` | `PollScheduled` |
| | `OnlyMarkedAreTakenDown` | `Guarded` | `OnlyMarkedTakenDown` |
| | `JobsStartOnce` | `OneController`, `N <= StoragePage`, every step keeps `ServicesAreRead` | `StartedOnce` |
| | `LifecycleImplemented` | `Guarded` | `ImplementsLifecycle` |
| | `DoneBelongsToSpec` | `~KeepsStatus`, `~Immutable` | `DoneIsOfSpec` |
| | `ContractKept` | none | `KeepsContract` |
| | `OperatorsAreExpected` | none | a step of `CustomResource!Operator` is a step of `Cluster` |
| `ApiServerProofs` | `InvariantHolds`, `TypeCorrect` | none | `IInv`, `TypeOK` |
| | `DefaultRoutesAreOwned` | none | `DefaultRouteIsOwned` |
| | `EventsAreTrue` | none | `EventsTellRows` |
| | `MarksStay` | none | `MarkStays` |
| | `EventsFollow` | none | `RouteEventsFollow` |
| `ReflectorProofs` | `InvariantHolds`, `TypeCorrect` | none | `IInv`, `TypeOK` |
| | `CatalogNeverGoesBack` | none | `NeverBackwards` |
| | `DeletedRoutesAreGone` | none | `DeletedIsGone` |
| | `EventsAreNotLost` | none | `DroppedWhenHandled` |
| | `OutboxIsFollowed` | none | `FollowsOutbox` |
| | `NothingIsInvented` | none | `NothingInvented` |
| `TaskOperatorProofs` | `InvariantHolds`, `TypeCorrect` | none | `IInv`, `TypeOK` |
| | `RunBelongsToSpec` | none | `RunIsOfSpec` |
| | `EditsSurvive` | none | `EditsAreKept` |
| | `FinalStays` | none | `FinishedIsFinal` |
| | `RunsAreKept` | none | `RunIsKept` |
| | `EndsBelongToSpec` | none | `EndIsOfSpec` |
| | `ChildrenAreCollected` | none | `NothingStrays` |
| | `ContractKept` | no batch job with a late cache of task runs | `KeepsContract` |
| `DeploymentOperatorProofs` | `InvariantHolds`, `TypeCorrect` | none | `IInv`, `TypeOK` |
| | `EditsOfUsersAreKept` | none | `EditsAreKept` |
| | `AtRestAllAgrees` | none | `RestsInAgreement` |
| | `ChildrenAreCollected` | none | `NothingStrays` |
| | `ContractKept` | none | `KeepsContract` |
| `RouteOperatorProofs` | `InvariantHolds`, `TypeCorrect` | none | `IInv`, `TypeOK` |
| | `MarksAreTrue` | none | `MarkIsTrue` |
| | `ChildrenAreCollected` | none | `NothingStrays` |
| | `ContractKept` | none | `KeepsContract` |
| `ApiClientProofs` | `InvariantHolds`, `TypeCorrect` | none | `IInv`, `TypeOK` |
| | `SecretsAreSound` | none | `StoredIsSound` |
| | `ReportsAreRight` | none (the property is about Vault) | `ReportIsRight` |
| | `CreatesWriteOnce` | none | `CreatedOnce` |

`Guarded` says: the kind is deleted with a mark, the lists are complete (no
more entities than a page, no join, no hidden error), and there is one
controller process. Each part is needed. Without the first `PollScheduled` can
fail, without complete lists jobs are killed or left behind, and two processes
can undo each other. `JobsStartOnce` asks for less, since the batch jobs it is
about are none of the guarded kinds: their runtime lists may be cut off or come
empty, and their services are joined. It assumes of the join only that no pass
misses a service (`ServicesAreRead`): one that does kills the job, and the next
one starts it again.

**GenericWorker.** Whether a delete in the database leaves an orphan depends on
what a pass saw when it listed and on what has happened since. `IInv` adds that.
`ListedIsSafe`: an id that the runtime list did not show still has no resource,
and one it did show has a row. `PlanIsSafe`: an item of the plan is justified
now, not only when it was decided: create and deleteDB find no resource, delete
and deleteDB find a marked row. `DeletingIsMarked` and `StartedIsRunning` tie
the marks and the history to the two stores. The argument is that, under one
controller, only the pass itself creates and removes resources and removes rows,
and users can only add rows or marks; a pass reads the runtime first, which is
why its older list does no harm. The action properties and the refinement follow
from `IInv` step by step. `DoneBelongsToSpec` has an invariant of its own,
`StatusesAreOwn`: a status that is stored, reported or in flight stands next to
its spec. So has `JobsStartOnce`, `StartsAreKept`: the resource of a started,
unmarked row is there and nobody plans to delete it, so that a creation planned
since a list did not show it finds it and is refused.

**ApiServer.** A transaction knows the rows from its beginning only; what makes
it safe is what stays true of it until it ends. `WritesRows`, `KeepsDefaults`
and `Tells` say that of each open transaction: what it changes is still there,
it takes no mark back, makes or drops no default route but with its deployment,
and publishes what it writes. `InsertsApart`: two transactions never insert one
new default route. A request of a deletion that finds no row writes an event only,
and so conflicts over the event only: `Replaces` and `ReplacesToo` say that while it
is open no row can come there but a new one, since whoever edits that has to
replace the same event. Where there is no event either nothing excludes it; these
entities are in `belated`, which `EventsTellRows` excepts. That a commit keeps all this for the others is `CommitKeeps`,
the one place where `Late` is needed: whoever read what has changed is rolled
back.

**Reflector.** A version of the cache is the cursor before a fetch, a number
that says little. The invariant says what it is worth: `VersionsOrder`, a
version that somebody may still use names one event of its route, later versions
later events, and the cache has the latest; `OneWorker`, the workqueue never
gives a route to two workers, though both the dirty set and the backoffs put it
back; `FetchedIsAhead` bounds what is fetched and not yet cached;
`HandledIsPast` and `SucceededIsHandled` tie the history to these, from which a
worker that deletes "its" version deletes what was handled.

That it implements `RouteCatalog` needs one thing more, that nobody in the
process is ahead of the outbox. `IdsGrow`: transactions on one route exclude each
other, so its events are committed in the order of their ids, although the
sequence is shared by all routes. `KnownIsPast`: what is fetched, cached or
carried is what the outbox has, or older. The step of a handler is then `Learn`,
since `NeverBackwards` and `HandledIsPast` leave it the last event or a later
one. `NothingIsInvented` follows an event that is never committed for a route:
it cannot get into the batch, so not into the cache (`EventsArePassedOn`), the
workers or the catalog (`HandledComes`).

**CustomResource.** `GenericWorker` keeps the controller's half for every kind,
without any premise (`ContractKept`), and each step of the operator's half that
notifies the controller is a step of `Cluster` (`OperatorsAreExpected`). On the
other side the refinements differ in what makes a report one of the present
resource. `DeploymentOperator`: a fresh reconcile holds the spec and the deletion
of the user (`FreshIsCurrent`), and until it comes to a state of its own the
state it has read (`StatusFits`), so that an update of the credentials reports
nothing. `RouteOperator`: a fresh reconcile has the route as it is
(`VersionsTell`), so labels change nothing the contract sees. `TaskOperator`:
neither a reconcile nor its cache takes a finished resource for a new one, and
the run of a finished batch job is at its end (`EndStands`). A batch job is
reconciled after its end too; where the cache of task runs is late, one that was
reported Failed without a run can be Scheduling again, hence the premise.

`NothingStrays`, in all three, is the safe part of "nothing is left": a child
that has no resource is one the collector takes. It needs `OwnerIsThere`, what a
reconcile knows of the resource it makes children for.

**TaskOperator.** `RunIsOfSpec` alone is not inductive: a reconcile that holds
an old resource may be about to create a task run. `IInv` says what it can hold:
`KnowsSpec`, if it reads the `Unknown` state of a resource that has left it, the
spec it reads is the present one, because only one reconcile at a time reports
states, from a version the cache has shown, and a cache never goes back; a fresh
version is the present one; a training or packaging it works on is not in a
final state; a task run that was created in this reconcile is of its spec.
`RunIsKept` has an invariant on top (`RunStays`): a run that is going to be
collected belongs to a resource without a state, and a reconcile that may still
report a state has made a run. It holds whichever caches lag; what `RunIsKept`
excepts, the delete by a reconcile shown an outdated resource, is a step the code
can take.

**DeploymentOperator.** `FreshIsCurrent`: a reconcile whose version is the
present one holds the spec and the deletion of the user, so an update of the
whole resource takes neither back. `RestsInAgreement` speaks of the end of a long
chain (edit, cache, queue, reconcile, write, cache again), and `Agreement` follows
it link by link. `ShownIsAlive` and `ReadIsShown`: until an event has come, what a
reconcile holds is what the cache shows. `PolicyAgrees` and `ServiceAgrees`: once
a reconcile has gone over the policy (the service) and no event has come since, the
object is that of the resource shown, unless the cache of the object is behind,
and then an event is still to come. `OwnedUnlessQueued`: children made for a
resource that is gone leave a name in the queue for the resource created again.

**RouteOperator.** The version of the route stands for its content. This is true
of a reconcile (`VersionsTell`) and of what was found or made for that version
(`FoundFits`), and stays true when versions are used again, since a new one is
held by nobody.

**ApiClient.** `CallsFit` and `AwaitedIsOwned` tie the calls to the present
command of their owner, also those it has given up; `CreateWrites` counts what a
create has written by how far its one call has come, and `AnswersHold` says that
an answer that will be reported as success is true until then, as long as
nobody else writes. `BodiesAreHonest` keeps masks from passing for secrets. The
steps are sorted into six kinds (of a handler, start, send, try again, go on
after an answer, end), with a lemma for each.

Only model-checked: liveness (`LifecycleProgress`, `SpecConverges`,
`ZombiesRemoved`, `ResultDelivered`, `FailureIsRetried`, `RebuiltAfterRestart`,
`EditIsStarted`, `OutcomeIsReported`, `ServiceFollowsSpec`,
`StateFollowsService`, `CredentialsArrive`, `NothingIsLeft`, `TargetsAreRouted`,
`StateFollowsTargets`, `ComesToRest`, `CommandsEnd`), which is out of the reach
of the provers. Every invariant and action property of a passing run is a theorem.
`KeepsContract` and `NothingStrays` of the operators, `EndIsOfSpec` and
`NothingInvented` are proved and are properties of no run; `KeepsContract` of
`GenericWorker` could not be, since TLC takes no quantified instance. No module that is proved about has a RECURSIVE operator.

## Not modelled

- `GenericWorker` sees the operators from the controller: a report is computed
  for the spec the resource has at that moment. Controller and operators are not
  in one module; the contract `CustomResource` composes them, about specs,
  deletion and stages. What it does not say is whose outcome a stage is:
  `TaskOperator` shows that the task run is of the present spec (`RunIsOfSpec`),
  and that an end is taken from it unless the cache of task runs is late
  (`EndIsOfSpec`). `DeploymentOperator` and `RouteOperator` are not composed (a
  route sees deployments that change as they like), nor are `ApiServer` and
  `Outbox`, but for `RouteEventsFollow`.
- Weights of a virtual service (those of a missing target are not given to the
  others), its gateways, rewrites and retries; a late cache of the route, whose
  stale reads end in the same conflicts as an edit.
- What a task or service specification says: images, resources, tolerations,
  node pools, probes, steps, policies.
- Toolchains, packaging integrations and inference services are rows without
  behaviour; a service matters only in that it may not be fetched.
- The validators of kinds other than connections: they look at the form of one
  request and keep nothing.
- The shutdown of a process (`manager.go`, `OnStoppedLeading`) is its crash.
- The feedback collector: one loop from Envoy's tap to Fluentd, without state
  to keep. Its two posts per message can be torn apart by an error, and nobody
  puts them together again.
- The command line beyond connections: other kinds send the same requests; the
  loops that wait for a state read and report. The login with a browser, streams
  of logs and local trainings.
- Swagger documents, inspectors, HTTP, what the tools in pods do besides saving
  results, robot tests and charts: input and output, or sequential code.

A quarter of the Go code is generated or is data bound into Go files, and half of
the Python code is classes that only carry fields. Most of the rest that no
definition names moves data between such forms, checks the form of one request,
or repeats for one kind of entity what the map names for another: adapters,
repositories, clients and routes exist five times, and one definition models
them all. So the definitions name about a sixth of the lines, and stand for more.

## The plan

1. `GenericWorker`, its properties, refinement and proofs: done.
2. `Outbox` and `Reflector`, with the proofs of their safety: done.
3. `TaskOperator`, its safety proved: done.
4. `DeploymentOperator` and `RouteOperator`, with proofs: done.
5. `ApiServer`: default routes and events under overlapping transactions, with
   proofs: done.
6. `ConnectionService` and `ApiClient`: repeated requests from end to end, with
   proofs: done.

7. The contract `CustomResource` between controller and operators, and the
   abstract `RouteCatalog`, with the refinements proved: done.

What could come next, in this order: `DeploymentOperator` and `RouteOperator` in
one proof, so that a Ready route is seen to lead to a deployment that was Ready
with the host it is given; the events of `ApiServer` as a refinement of
`Outbox`; the weights of a virtual service; the commands that wait for a state.
