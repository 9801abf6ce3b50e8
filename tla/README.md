# A TLA+ model of releasea-worker

releasea-worker takes operations (deploys, promotions, rule publications, scalings, ...) that the
Releasea API queues, claims each of them under a lease, executes it against a Kubernetes cluster and
reports the verdict. Beside that, every worker process watches the cluster (curator, runtime monitor) and
the repositories (auto deploy). Many such processes run at once; the API, the broker and the cluster are
shared, answers get lost, processes die and deliveries are repeated. This directory models those
interactions, checks the models with TLC and proves the central results with TLAPS.

Paths below are relative to `src/internal/`.

## The system

| Component | State it keeps | Operations | Module |
|---|---|---|---|
| Operation lifecycle: consumer, poller, `processOperation` (`features/workers/worker`) | per goroutine: the operation, attempt, lost claim, poller's snapshot; in the API: status and claim; in the broker: the message | deliver, poll, recover claims, claim, renew, retry in place, publish the verdict, ack/nack | `OperationLifecycle` |
| Curator (`features/maintenance/worker/maintenance_operations_curate.go`) | the snapshot of a sweep | settle what looks ready or broken | `OperationLifecycle` (its writes), `RulePublication` (its sweep over rule deploys), not its judgement of pods |
| Service deploy, promotions (`features/deploys/worker`) | none of its own: Deployments, Services, VirtualServices of the cluster, active slot in the API | stage, wait, promote, switch, undo, clean up | `ServiceRollout` |
| Rule operations, edge and policies (`features/rules/worker`) | none: VirtualServices and every policy of a rule | availability guard, override, publish, reconcile, delete | `ServiceRollout` (destinations), `RulePublication` (resources) |
| Runtime monitor (`maintenance_runtime_status_monitor.go`) | none: replicas and autoscaler of a service | pause when idle, resume, assess | `IdlePause` (pausing), assessment as one outcome |
| Auto deploy (`maintenance_autodeploy_control.go`) | recently queued commits, cooldowns; in the API: the lease | lease, look up, queue | `AutoDeploy` |
| Worker tokens (`platform/auth/tokens.go`) | the token and when it is thought to expire | get, exchange, invalidate | `WorkerToken` in `ControlPlane` |
| Deploy and rule logs (`platform/logging/deploy_rule.go`) | buffer, pending batches | write, flush, retry, give up | `DeployLog` in `ControlPlane` |
| Pool control (`workers_pool_control.go`) | the cached switch | ask, store, fall back | `PoolControl` in `WorkerLoops` |
| Heartbeat (`workers_heartbeat_send.go`) | hash of the workloads last sent | full, unchanged, without | `Heartbeat` in `WorkerLoops` |
| Discovery, secrets, builds, deletion, static sites, topology, configuration | none that outlives a call | | not modelled, see the end |

How they interact: the consumer and the poller of every worker ask the pool control and call the same
`processOperation`, which routes to the deploy and rule handlers (`workers_operation_route.go`); the curator
settles the same operations from outside; rule handlers and deploy handlers write and delete each other's
destinations; the runtime monitor scales what deploys have just applied, and a deploy ends with a cycle of
the monitor of its own (`executeServiceDeploy` calls `UpdateRuntimeStatuses`); auto deploy creates the operations
the others execute. Every goroutine that talks to the API, the handlers' loggers and the heartbeat loop
among them, does so with the one token of the process.

What is hard, and what correctness means there:

* **Lifecycle.** Delivery, polling, recovery, renewals and verdicts race. Executions must exclude each other
  as far as the claim goes, messages may be acknowledged only when nothing is lost by it, a verdict must be
  one that an execution came to, and every operation must be settled in the end.
* **Rollout.** Handlers are sequences of single requests, planned from reads that may be stale, cut off
  anywhere and executed again from the start. Traffic must not move to pods that are not there, cleanup
  must not delete what is in use, success must mean that the new version answers, a switch must not undo
  itself by being executed twice.
* **Publication.** A rule is up to ten resources, put into place one request after the other, while the rule is
  edited, other executions cross and the curator looks. Nothing of an earlier version may be left, what is
  recorded as deployed must have its guards, and no route may lose them on the way.
* **Idle pause.** Every replica of every worker runs the monitor; reads come first and writes several
  requests later. What is paused must have been idle, and a request must wake it.
* **Auto deploy.** The lease must outlast a cycle, although processes restart and forget; lost answers must
  not become second deploys, and the last commit must get one.
* **Requests.** The token expires, is withdrawn, and is dropped by whichever goroutine is refused. Requests must
  not be refused for a token that could have been renewed, and a log must stay in order, free of duplicates
  and complete whatever happens to the requests that carry it.
* **Worker loops.** Caches are filled without the mutex and hashes are remembered before they arrive. What is
  acted on must be recent, and "unchanged" must be true.

## The modules

| Module | What it is |
|---|---|
| `OperationContract` | abstract: a set of operation records, claimed, settled, concluded, recovered |
| `OperationLifecycle` | workers, API records and broker, one action per request or decision of the code; implements `OperationContract` |
| `OperationLifecycleProofs` | inductive invariant, safety theorems and the refinement |
| `ServiceRollout` | the handlers as sequences of writes to one service's workloads and routes, Kubernetes as the environment |
| `ServiceRolloutProofs` | inductive invariant, types, and the safety theorems about traffic, routes and success |
| `RulePublication` | the handlers of rules as sequences of writes to one rule's resources, edits and the curator beside them |
| `RulePublicationProofs` | types, what an execution nobody crosses leaves behind, what is recorded as deployed, which routes stay closed |
| `IdlePause` | the monitors' cycles, deploys and scalings beside them, ages in ticks |
| `IdlePauseProofs` | types, what is paused and for what it is resumed |
| `AutoDeploy` | the monitors' cycles under the lease, deploys, pushes and operators beside them, times in ticks |
| `AutoDeployProofs` | inductive invariant and safety theorems |
| `WorkerToken`, `DeployLog` | the token with the requests made with it, the loggers of deploys and rules |
| `OrderedLog` | abstract: a log that is always the beginning of what was written |
| `ControlPlane` | composes the two: a logger and the heartbeats on one token; implements `OrderedLog` |
| `ControlPlaneProofs` | types, expiry, order, uniqueness and completeness of lines, the refinement |
| `PoolControl`, `Heartbeat` | the cached switch in front of claims, the inventory in the heartbeats |
| `WorkerLoops` | composes the two in one process that may restart |
| `WorkerLoopsProofs` | types, how old a control may be, what "unchanged" speaks of |
| `MC*` | instances for TLC: model values, and for some of them tags, rules, a constraint and symmetry |

`PROJECT.json` maps each definition to the lines it models. Definitions marked *Seeded* are deliberate bugs
next to the definition they spoil; each property is known to fail with one of them.

### OperationLifecycle

Executors are pairs of worker and goroutine. `pc` follows `processOperation`: "claiming" (the operation has
been read and is queued), "executing", "finishing" (the verdict is being published). `Deliver*` are the
decisions of `runConsumer` and `processJob`; `Poll*` those of `drainQueuedOperations`, where the snapshot
that was read before is `batch`. `ClaimGranted`, `Renew` and the failing variants send the same in-progress
update, as `api_client.go` does, and the API does not tell them apart. `ReturnNil` and `ReturnError` are
acknowledgement and rejection. Everything the API and the broker do is external, taken from what the
requests ask and how the code reads the answers: `OwnerOnlyVerdict` leaves open whether a verdict is
accepted from a worker that is not the owner (the safety run checks the liberal API, the liveness run the strict one).

Left out because nothing changes by it: deliveries put back (a pool in maintenance, an incompatible
operation), idle reconnections, prefetch above one (the deliveries behind the first stay unacknowledged,
like those in the queue). Reports on the deploy record are best effort and are read by nothing here.

`epoch` counts how often recovery took an operation back; `term` is the epoch an execution was granted
under; `evidence` the verdicts executions came to. They are history: no guard reads them.

### ServiceRollout

The cluster is reduced to what traffic sees: `dep` (the version in a Deployment), `pods` (versions with
available pods), `sel` (what a Service selects), `route` (workloads a VirtualService names). A job fetches the
service, makes a plan (`DeployPlans`, `CleanupPlan`, `ShiftPlans`) from what it reads and writes it request by
request (`Write`); `After` says where a handler goes next. `Abort` is the failure of a request or wait that the
handler returns, a timeout, a lost claim or a crash; `Start` may then execute the operation again. Whether the
operation of a switch is executed again (`asked` stays) is left open.

Not every failed request ends a handler. `Start` decides (`blind`, if `ReadErrors`) whether a read fails whose
error the execution swallows, and the plans go on from what the code takes for the answer: a rolling deploy applies
the canonical Service as rendered (`deploys_strategy_apply_workloads.go:60`), a canary deploy takes it for one that
selects nothing (`:187`), a blue-green deploy creates the active slot from the new version instead of copying the
legacy workload (`:234`, `:237`), a rule deploy leaves the service as it is configured
(`rules_strategy_guard_availability.go`). Other errors that are dropped have actions of their own: `Revert`,
`ObserveUnhealthy` and `UndoSlot` may write nothing, `CleanupSkipped` ends a rule deploy well. A read error in
`resolveCanaryReadinessTargets` makes the deploy wait for a stable workload that is not there until its time is up,
which is an `Abort`.

Assumed of the API: it runs one operation that changes workloads per service at a time; rule operations may
run beside it (`Overlap`). Rules that deny or have no gateway delete their VirtualService, like a rule
deletion ("unpublish"). Not part of it: replica counts, the autoscaler (`IdlePause` has it), policies
(`RulePublication` has them), secrets.

### RulePublication

A version of a rule is the record of the fields that decide which resources it has; `Wanted` names those
resources, and `built[r]` is the version that resource `r` was built from. `DeployOrder` and `DeleteOrder` are the
requests of `HandleRuleDeploy` and `HandleRuleDelete` in the order of the code, with `reconcileJWTAccessResources`
and `reconcileEdgeResources` in their places; `Write` makes the next one, `Refused` is where a handler gives
up by itself (a deny rule over TCP, a rule that demands tokens of no issuer). `Retry` starts over with the rule
as it is by then. The curator takes an operation, fetches the rule and looks for one resource after the other
(`LookNext`), then settles. `alone`, `intact` and `calm` are history: the properties use them to say when an
execution or a sweep was crossed.

The service, the namespace and the traffic split are left to `ServiceRollout`; who holds the claim of an
operation to `OperationLifecycle`: here any execution may be abandoned and any operation recovered.

### IdlePause

Replicas are "none" or "some". `handlePauseWhenIdle` becomes `Observe` (deployment and age of its
revision), `CheckResume` or `CheckPause` (metrics), and one action per write. A tick is the monitors' interval;
a cycle spans at most `CycleTime` ticks, because it is cut off by `resolveMaintenanceCycleTimeout`, and a
monitor that is not in a cycle starts one in every tick.

### AutoDeploy

One service of one environment; commits are numbered in the order of their pushes. `runAutoDeployCycle` becomes
`AcquireLease`, `ReadDeploys`, `LookUpCommit` and `QueueDeploy`, each one request with the guards that follow
it. `recent` and `cooldown` are the memory of a process and are lost in `Restart`. The API creates a deploy
unless one is active, which the code relies on by reading `blockedByActiveDeploy`; a lost answer leaves open
whether it did. The service is one that `shouldAutoDeployService` lets through in every cycle
(`maintenance_autodeploy_control.go:131`): a service that becomes or stops being eligible is not modelled.
`isAutoDeployBlockingStatus` does not list the phases "validating" and "promoting", so `Blocks` does not either.

Assumed: `CycleTime < LeaseTTL`. With the default settings a cycle gets three quarters of the interval
and at most two minutes, the lease twice the interval and more. `WORKER_AUTODEPLOY_LEASE_SECONDS` can break it (30 s
under a cycle of 45 s), and so can replicas that share one WORKER_ID, which the API takes for one holder.

### ControlPlane: WorkerToken and DeployLog

Times are relative: a token knows how long it still lives, `belief` is how long the manager thinks it does, and
the two drift apart because the manager counts from the answer and the API from the issue. `Get` is
`GetCached`, `GetNothing` or `Exchange` and `Exchanged`, the latter with the mutex held in between; a request
is then served, refused, lost or broken off, and a refusal ends in `Invalidate`, which drops the token of the
moment, whichever was refused. Static tokens and tokens without an expiry are part of it.

Lines are numbers in the order they are written. `Logf` and `FlushNow` cut batches, each under an id of its
own; `Delivered` and the variants of `Failed` are what the end of a request means to the log, and to the API,
which may have appended the batch, or will (`late`), although the worker was told nothing. The API drops a batch
whose id it has seen; a rule's logger has no ids and forgets its lines instead.

`ControlPlane` joins each way a request can end for the token with what it means to the one who made it: the
two modules' actions are conjoined, so that a token withdrawn by the API costs the logger an attempt and a
`401` of the heartbeat drops the logger's token.

Assumed: the skew covers an exchange and a request that take their full time (`Skew >= 2 * Timeout`, 120 s
by default). The smallest skew `config_load.go` accepts, 30 s, is less than two of the 20 s timeouts of the
auto-deploy client.

### WorkerLoops: PoolControl and Heartbeat

`workerPoolControlCache.get` is `Hit`, or `Ask`, `Answer` and then `Store` or `FallBack`: two goroutines may ask at
once and store what they were told in either order. A heartbeat is built (and its hash remembered) in
`BeatBegins` and then answered, lost, or given up and still on its way. `Restart` forgets both.

## The runs

| Run | Instance | States | Shows |
|---|---|---|---|
| `pair` | 2 workers, 1 operation, 2 attempts, 2 faults | 170 k | grants exclude each other; no silent acknowledgement; the broker holds the message while its operation is worked on; verdicts are earned; a lost claim is silent; the contract is implemented |
| `settles` | 2 workers, 1 operation the curator may settle, 1 fault, fair | 225 k | every operation is settled for good, with the curator beside its executors |
| `double` (violation) | 1 worker, 1 operation, no fault | | consumer and poller of one worker execute one operation at once |
| `moves` | 1 job, 3 versions (1 never ready), 1 rule, 4 executions, read errors | 2.8 M | rolling and canary deploys, promotions and rules, templates and rendered payloads: the two ways to lose traffic, routes keep their workloads, success is live |
| `cutover` (violation) | 1 job, rolling only, read errors | | a deploy that cannot read the canonical Service moves the traffic to a workload without pods |
| `slots` | 1 job, 3 versions, 2 rules, 4 executions, read errors | 1.7 M | blue-green deploys over a legacy workload and between slots, switches, rules |
| `publication` | 4 versions of a rule, 2 deploys and a deletion, 2 executors, curator, 1 edit, 1 fault | 1.8 M | a lone execution is exact; what is recorded as deployed is guarded; old routes stay closed |
| `pause` | 2 monitors, 1 change, 1 failed request, fair | 1 M | pauses are earned, no flapping, requests wake |
| `restoration` (violation) | 1 monitor, 1 failed request, fair | | a promised restoration does not come |
| `lease` | 2 workers, 2 commits, 1 deploy by hand, 2 faults, fair | 127 k | one cycle at a time, each commit once, never backwards, the last commit is deployed |
| `requests` | logger and heartbeats, 2 lines, batches of 2, 2 attempts, 2 faults, fair | 892 k | no expired token is used; the ordered log is implemented; no line twice, none lost below the attempts; heartbeats get through |
| `control` | 2 goroutines, 2 inventories, times of 2 ticks | 623 k | controls acted on are recent; "unchanged" is true |

Why these bounds are enough to be interesting:

* Two workers are needed for a claim to be contested and two goroutines each are there anyway; with two faults an
  answer can be lost and the recovery from it be disturbed. Operations share nothing but the order in
  which a goroutine takes them, so that one is enough; `PollLimit` is drawn against the queue by the model.
  With two attempts the retry loop has a first, a last and no middle round, which only counts.
* Four executions are a deploy, a second one that is cut off, its repetition, and a promotion, switch or rule
  after it. Three versions give an old one, a new one and one whose pods never become ready. In `slots`
  one rule's route can be left on a slot while another's moves on. No run has a rule operation beside a
  deploy or a promotion (`Overlap`): most of what they would check does not hold there (see the weaknesses), and what
  does, `LostOnlyUnseen` and `SuccessIsLive` without slots, is proved with `Overlap` left open.
* `pair` has no operation the curator may settle, so its contract is checked for executors only; `settles` has
  one, and `ImplementsContract` is proved for every set of them.
* The four versions of the rule are one that has every kind of guard, what it takes to lose its route (deny,
  no gateways), and one that fails halfway. An edit, a fault and two deploys are a deploy of the old version
  cut off by one of the new. `FewAtOnce` follows two executions beside each other only if both deploy, and
  the curator only beside one that deploys: the properties about crossings speak of no others.
* Idle window 3, resume setting 6 (capped to 3), cycles of one tick, ages up to 7: every boundary is
  crossed, and the cap matters. One change and one fault can fall anywhere into two overlapping cycles.
* Two commits are enough for "older" and "newer", two faults for a lost answer and a restart.
* Lifetime 3, skew 2, timeout 1 are the smallest times that fit together and tell fresh, stale and expired apart.
  Two attempts (the code makes three) and two lines in batches of one or two give a batch that fails, one behind
  it, and one that arrives late; two faults are as many as the attempts, which is where lines may be lost.
* A time to live and a timeout of two ticks each let both answers age differently and overlap.

Two properties say again, to be read by themselves, what a refinement says: `VerdictHasEvidence` is part of the
contract, and `NoLineTwice` follows from the ordered log for deploys, but not for rules, which the refinement leaves out.

Deadlock is checked in every run but those of `ServiceRollout` and `RulePublication`, which really stop once
`MaxOps` executions, or all operations, are used up and nothing is left to do.

### Fairness

`settles`: goroutines are scheduled, requests are answered, executions end because every wait in the
handlers has a timeout, and the lease of an untended claim runs out. Faults, the broker and the curator are
not assumed to do anything. `pause` and `lease`: the loops run (`RunRuntimeMonitor`, `RunAutoDeployMonitor` start a
cycle at each tick of their tickers), time passes, deploys end, Kubernetes reconciles. All of it is weak fairness.

`requests`: the heartbeat's ticker brings the next one, and a request that can be answered is, unless it is
lost. The heartbeat's fairness is strong because it asks for the token manager's mutex, which the logger may
hold again and again: a Go mutex turns to starvation mode after a millisecond and goes to the one who waits. The
logger's is weak.

### What the violations show

* `double`: the poller passes operations of its snapshot to `processOperation`, which trusts the snapshot's
  status. If the consumer of the same worker has claimed the operation in between, the poller's claim is taken
  for the owner's heartbeat, and both execute. The property that does hold is `SameGrantSameWorker`.
* `cutover`: the comment of `promoteRollingTraffic` says that it switches the canonical Service "only after
  readiness succeeded, avoiding traffic cutover before pods are healthy". The staging before it keeps the Service on
  its target only if it could read the target (`deploys_strategy_apply_workloads.go:60`); after a timeout or a 5xx
  on that GET it applies the Service as rendered, and the traffic of a formerly blue-green service moves to the
  rolling workload at once. Steps: the Service selects "blue"; a rolling deploy starts, its read fails, it writes
  the canonical Service, and nobody serves.
* `restoration`: the status "autoscaler restoration pending" is reported when restoring failed; the service then has
  replicas, and the branch that restores is never taken again.

### Known weaknesses the properties step around

The models also show what the code does not promise. Each is a hazard of `PROJECT.json`; the property
beside it says what does hold.

* A blue-green deploy over a rolling workload keeps the traffic where it is, the first time. The first
  execution creates the active slot; repeated, it finds the slot and points the canonical Service to it, with
  no pod ready (`LostOnlyGoingBack`).
* A service that changes between strategies can have a legacy workload that never had a pod. If a switch came undone
  and the slot recorded as active is gone, the next blue-green deploy takes that workload for the target and points
  the canonical Service to it (five executions; `LostOnlyGoingBack` is checked and proved for blue-green alone).
* A switch that ends between moving the traffic and recording the slot leaves the next deploy to take
  the serving slot for the candidate (`StagingSparesTraffic`).
* A switch moves the canonical Service and deletes the old slot, which a published VirtualService may still
  name (`OnlySwitchesCutRoutes`).
* A rolling or canary deploy on a formerly blue-green service moves the canonical Service before the stable
  workload has pods, with templates when a read error is swallowed, with rendered payloads always
  (`LostOnlyUnseen`, first way).
* The pods of a rendered canary carry the stable label. A cleanup deletes them, also while they are the only ones
  that serve because the stable workload's own never became ready (`LostOnlyUnseen`, second way).
* A positive `canaryPercentOverride` publishes a canary that is not there. A rule deploy beside a promotion can
  publish the canary between the promotion's check and its deletes, and one that finds no slot ready removes
  the slots a deploy is staging (`RoutesKept` is checked without `Overlap`).
* A deploy waits, until its time is up, for the end of workloads that its own cleanup kept.
* While a rule is published its route is ahead of its guards, and stays so if the execution is cut off there
  or the rule has no issuer; an allow rule without gateways leaves an earlier deny policy, and every rule
  those under a former name (`DeployedMeansGuarded`, `OldRoutesStayClosed`, `LoneRunIsExact`). With an edit or
  a deletion during its sweep, the curator settles on resources of another version.
* A deploy or a request between a monitor's reads and its scale to zero is not seen (`PausesAreEarned` excepts
  the cycle).
* A static token is dropped by the first refusal and there is nothing to fetch another with
  (`HeartbeatsGetThrough` is stated for registered workers).
* An operator's deploy between a monitor's look at the deploys and its request is seen by the API's active-deploy
  check only: one of a later commit that ends in between is followed by the monitor's older one
  (`OnceByMonitors` and `NeverBackwards` speak of monitors).
* After a full heartbeat that was not answered the following ones say "unchanged" of what the API never got
  (`UnchangedIsTrue` holds until then). A first pool control that cannot be fetched lets the callers claim.

`README.md:97` gives 120 as the default of `WORKER_PAUSE_IDLE_RESUME_WINDOW_SECONDS`; the code has 300. The
models do not depend on it.

## The proofs

`OperationLifecycleProofs` holds for every set of workers and operations, every compatibility relation, poll limit,
number of attempts and faults, and both readings of `OwnerOnlyVerdict`; it assumes only `ConstantsAssumption`.
The safety invariants are not inductive alone. `IInv` adds:

* `HoldsOperation`: a busy goroutine has an operation, and one that finishes has not lost its claim and has evidence
  for its verdict. Without it `VerdictHasEvidence` does not survive `FinishAccepted`.
* `OneHolder`: two consumers on intact channels never hold the same message. Without it the first to
  acknowledge would take the other's message away (`MessageHeldWhileWorking`).
* `GrantKnown`: the grant an execution runs under is the current one, and then the API's claim is its worker's, or
  it has been taken back since. It makes `SameGrantSameWorker` inductive: a claim can be granted to another
  worker only in a later epoch.
* `CuratesItsOwn`: the curator's snapshot holds only operations of its kinds, so that it cannot settle the others.

The refinement `ImplementsContract` maps status, claim and evidence to the contract's and every step to one of its
steps or a stutter, and rests on the same invariant.

`ServiceRolloutProofs` holds for every set of versions, rules and jobs, every start and payload, and any number of
executions. One invariant, `IInv`, carries all of its theorems; the parts are on the handlers' plans more than on
the cluster, because what a plan was read from may have changed when it is written:

* `Exclusive`, `Course`, `Planned`: who may run at once, which places a handler of which kind passes, and which writes
  it can have left there. With them every request of every handler is one of nine cases (`Requests`).
* `TrafficKept`: while a rolling or canary deploy stages, a write of the canonical Service leaves it where it is;
  only a handler that could not read where that is, or applies rendered resources, points it at the stable workload.
  It was there when the plan was read; that it still is needs `Exclusive`. `BaseReady`: who is about to
  move the traffic to the stable workload has seen pods there.
* `SweepsSpareTraffic`, `SweepsSpareRoutes`: what a cleanup has left to delete is neither selected nor routed *now*,
  although it looked once, before its first delete.
* `BaseProgress`, `SwitchProgress`: what a handler that goes on to report success has achieved is not undone
  before it does. `SuccessIsLive` is not inductive without: the last wait of a deploy looks at pods only.
* `ActiveRecorded`, `SwitchAsked`, `ActiveCreatedFirst`: whose slot a handler goes by, and that staging writes the
  active slot at most once, first, and only if it is not there.
* `SlotsOnly`: where only slots are deployed there is no canary, and the legacy workload has pods as long as it exists.

`IInv` drops a part where the constants make it false, and the theorems say which constants they need. Each of
these hypotheses is needed: without it, TLC finds a counterexample on an instance like those of the runs.

| Theorem | Needs | Because otherwise |
|---|---|---|
| `TypeCorrect` | nothing | |
| `TrafficLostOnlyUnseen` | no blue-green | a repeated blue-green deploy goes to a slot without pods |
| `SuccessLeavesVersionLive` | no rule operation beside a switch (`Overlap`, or no blue-green) | the cleanup of a rule deploy, which decided before, removes the slot after the switch's last look |
| `SwitchesStick` | no `Overlap`; `PayloadSlot` | the same, while the switch waits for the slot; a switch executed again after its record goes back |
| `StagingLeavesTraffic` | no `Overlap` | the same, beside a deploy that stages |
| `RoutesCutBySwitchesOnly` | no `Overlap` | a rule deploy publishes what a promotion has already decided to delete |
| `PublishedRoutesKept` | no `Overlap`, no blue-green | the same; a switch deletes a slot that is still routed |
| `LostByGoingBackOnly` | no `Overlap`, only blue-green | the cleanup of a rule deploy; a legacy workload without pods (see above) |

`Overlap` and `PayloadSlot` are about the API: whether it queues rule operations beside others, and whether it
writes "activeSlot" into the payload of a switch.

`RulePublicationProofs` holds for every rule, that is, every assignment of fields to versions, and every number of
executors, operations and faults. It first shows that the orders of requests are complete: every resource
that a version may want or has to remove is among them (`DeployOrderComplete`, `DeleteOrderComplete`).
`LoneInv` then says of an execution that nobody crosses: each resource of its order is in place or still to do. At
the end nothing is to do, which is `LoneRunIsExact`.

`CalmInv` says that what the curator has found while it looks is still there, because whoever executes meanwhile
deploys the version it looks for; with `LoneInv` for the executions this gives `DeployedMeansGuarded`.
`OldRoutesStayClosed` needs two facts. A deploy is done with the route before it touches the policy at the
gateway (`RouteFirst`), so that in the step in which that policy could go, the route is already its own. And until
then a route that demands tokens has the policy it was published with (`OldRouteGuarded` in `IntactInv`). The
policies at the workload alone would not do: the sweep of another version may remove them first.

`IdlePauseProofs` holds for any monitors and windows. `Quiet` says what a cycle on its way to a pause has seen
and that what is younger has come since it began; `PausedQuietly` that a pause found no recent request, which
with the cap of the resume window gives `Asked`: whoever resumes goes by a request after the pause.

`AutoDeployProofs` holds for every set of workers, any number of commits, all durations with `CycleTime <
LeaseTTL`, any number of faults. `Leased` says that the lease has aged no more than the cycle it was taken
for, so that it still runs (`LeaseHeld`) and no other worker is granted it: `AloneInCycle`. Because cycles do not
overlap, what a cycle has read about the monitors' own deploys stays true until it queues
(`SeenIsCurrent`, `FoundIsNew`), which gives `OnceByMonitors` and `NeverBackwards`.

`ControlPlaneProofs` holds for any times with `Skew >= 2 * Timeout`, any attempts, batch size, lines and faults.
Each step of the composition is a step of the token and one of the log (`StepIsTokenStep`, `StepIsLogStep`), so
that the two are proved apart.

* Expiry: `Ahead` bounds how far `belief` runs ahead of the token's life by a timeout, `Exchanging` how much of a
  new token an exchange uses up, and `Outlives` says that a token on its way lives longer than its
  request may still take. The skew of two timeouts is used where a cached token is taken.
* Order: `Prefix` (the API has the first lines), `Chain` and `Rest` (pending batches follow each other, the buffer
  follows them), `Front` (the first pending batch is what the API lacks, or what it had last), `Known` and `Late`
  (ids seen and requests still under way are of lines the API has, or of the first batch). Together
  they let a batch be appended only where the log ends, which is the step of `OrderedLog`.
* Complete: `CostInv` matches each failed attempt of the batch at the front with a fault. A refusal is the
  fault of a withdrawal that came before it, so the withdrawal has to be paid for ahead: `Owing` says that one
  failure is still to come (the logger's request is refused or under way with a withdrawn token, the manager holds
  one, or somebody is about to fetch one), and then the failed attempts are fewer than the faults. That a withdrawal
  costs one attempt and not two rests on the mutex: `Invalidate` waits for the exchange under way (`Locked`),
  and so drops the withdrawn token that the other goroutine has fetched, too.
* No line twice: for a deploy from the order; for a rule from `Separate` and `Delayed`: what arrived, what may
  still arrive and what is in the buffer have no line in common.

`WorkerLoopsProofs` holds for any goroutines and times. `Dated`: an answer on its way for some ticks, or
stored for some after taking up to a timeout, is what the API says unless that has changed since.
`Followed`: as long as full heartbeats are answered, what is remembered is what the API has or is being sent.

Only model-checked: all liveness (`EveryOperationSettles`, `RequestsWake`, `TipGetsDeployed`,
`HeartbeatsGetThrough`), which is beyond the prover, and the three violations. Every safety property of the passing runs
is stated by a theorem.

## What is left

1. The curator's judgement of deploys (`evaluateDeploymentStatus`, pod failures, ages) on top of the rollout's cluster.
2. `ApplyResource` as get and put against concurrent writers.
3. Service deletion beside the other operations on the service.

## Not modelled

* Service deletion, static sites, SCM and registry clean-up: sequential calls whose failures are collected; retried as a whole
  by the operation lifecycle.
* Image builds, secrets, command execution: input and output of external tools.
* Discovery and agents: reads and projections without state; `Heartbeat` takes their result as a number.
* Contents of manifests (matches, headers, filters, keys): data that no control depends on. `RulePublication` has
  which of them exist and which version they are of.
* Exchanges and queues of the broker: declared once at start; the broker's behaviour is part of `OperationLifecycle`.
* Configuration, names, namespaces, templates: pure string conversions.
* Messages that are not operations (rejected to the dead-letter queue at once) and the unlimited redelivery of an
  operation no worker of the queue can run.
