# TLA+ models of the telemetry-manager pipeline reconcilers

This directory holds TLA+ specifications of the concurrent parts of telemetry-manager's pipeline controllers (`src/internal/reconciler/...`). It also holds the TLC configurations that check them.
`PROJECT.json` lists:

- the components;
- every run and what it is expected to show;
- a mutant for every property of every passing run;
- the map from each definition to the Go lines it models;
- the findings;
- the hazards.

## The system

A controller-runtime manager runs one reconciler per pipeline kind. A work queue feeds each reconciler, and several workers may serve it.
The queue never hands one key to two workers at once. Passes for *different* pipelines do run concurrently, and they share three things:

* **The quota lock** (`k8sutils.ResourceCountLock`, a ConfigMap). Each pass calls `TryAcquireLock`, which reads the lock, recomputes its holders from the live pipelines and writes them back optimistically. The holders are the first `MaxPipelines` pipelines by creation time. `isReconcilable` then calls `IsLockHolder` for each listed pipeline, and each call is a fresh read.
* **The rendered gateway (and agent) configuration.** Every pass that reaches the apply step overwrites it with the pipelines *that pass* found reconcilable.
* **Pipeline statuses.** The deferred `updateStatus` writes the status of the pass's own pipeline. The trace reconciler also clears every pipeline's conditions once per process (`clearPipelinesConditions`, guarded by the in-memory latch `pipelinesConditionsCleared`). It does this so that the legacy `Running`/`Pending` conditions are re-appended at the tail.

A LogParser's status is written by `logparser/status.go`. Its `updateStatus` reads the parser, probes the Fluent Bit DaemonSet twice (once for `AgentHealthy`, once for the legacy `Running`/`Pending` conditions) and writes the status back with the resourceVersion it read.

The trace components checker (`telemetry/trace_components_checker.go`) reduces the pipelines' conditions to one condition of the Telemetry resource. The result is a status, a reason and a message.

## Modules

| module | models | source |
|---|---|---|
| `QuotaLock` | holder computation and `IsLockHolder` (spec-modelled: the lock's code is not under `src/`) | spec §3, §4.1 |
| `Conditions` | `meta.SetStatusCondition`/`RemoveStatusCondition` and the legacy helpers `HandlePendingCondition`/`HandleRunningCondition` (spec-modelled: `internal/conditions` is not under `src/`) | spec §2, `tracepipeline/reconciler.go:285-288` |
| `LogParserStatus` | `updateStatus`, `setAgentHealthyCondition` and `setLegacyConditions`, with parsers edited, deleted and removed and the DaemonSet's readiness changing | `logparser/status.go` |
| `TracePipelineReconciler` | `Reconcile` → `doReconcile` with its deferred status, lock, list, clear, filter and apply, run by concurrent workers, plus the user, the resync and restarts | `tracepipeline/reconciler.go` |
| `MetricPipelineReconciler` | the same pass without clearing, plus `reconcileMetricAgents` | `metricpipeline/reconciler.go` |
| `TraceComponentsChecker` | `Check` and its helpers as operators, and a state machine that changes pipeline conditions one at a time | `telemetry/trace_components_checker.go` |
| `MC*` | model values, symmetry and TLS outcome tables for TLC | none |

### Reconciler modules

Each blocking call in `doReconcile` ends a step. Every worker `w` has a program counter `pc[w]` and the pass's locals:

- `req`, the pipeline being reconciled;
- `lockAcquired`;
- `snapshot`, the live pipelines `TryAcquireLock` read, and `lockStale`, set when another write changed the lock since that read;
- `listed`, the List snapshot, with `listedDeleting`;
- `todo`, the pipelines not filtered yet;
- `reconcilable`;
- `err`.

The steps are:

* `Receive`: a worker takes the head of `queue`, provided no other worker is busy with that key (`Reconcile`). `ReceiveFails` (trace) is a failed `LoadOverrides` or a `Get` error other than NotFound: `Reconcile` returns the error and the key is requeued.
* `LockRead`, `LockWrite`: `TryAcquireLock`. The write fails with a conflict if the lock changed since it was read, and then `lockAcquired` becomes FALSE and the error requeues the pass. A change is a change of resourceVersion: a write that alters the lock marks every other pass between its read and its write as stale (`LockWritten`), even if the lock later returns to the content they read. A write that leaves the content as it is marks nobody.
* `List` takes the snapshot of existing pipelines. `ClearLoop` (trace only) runs `clearPipelinesConditions` one `Status().Update` at a time. An update fails on a conflict when the object was touched after the snapshot (`stale`), or transiently. Either way the latch is left unset.
* `Filter` runs `isReconcilable` for one listed pipeline. It checks the deletion timestamp of the listed copy, then the current secret, then the certificate outcome (trace), then `IsLockHolder` on the current lock.
* `Apply`/`ApplyGateway` sets `gateway' = reconcilable`. `ApplyAgent` (metric) sets `agent' = listed`. Only passes of a pipeline for which `isMetricAgentRequired` holds reach it, i.e. a pipeline with its runtime, prometheus or istio input enabled (`Inputs`). In the metric model, `reconcileMetricGateway` and `reconcileMetricAgents` install the set they are given. The metric gateway is also applied with a replica count, `replicas`. `ApplyGatewayScaled` takes it from `getReplicaCountFromTelemetry`, a recursive scan of the listed Telemetry resources: the first one with `spec.metric` set, static scaling, a static block and a positive count gives the count. If there is none, or the List of Telemetry fails (which is only logged), the count is `defaultReplicaCount`. A Telemetry resource is reduced to those four fields. `EditTelemetry` lets a user change the list once, and it enqueues no pipeline. The metric `IsReconcilable` checks the certificate outcome as the trace one does.
* `UpdateStatus` is the deferred status write. It always runs, even after an error. In the trace model it replaces the conditions by `ConfigurationGenerated`, `GatewayHealthy` and the legacy condition at the tail, through `HandleRunningCondition` or `HandlePendingCondition` as the comment at `reconciler.go:285-288` describes. `EndPass` requeues on error. The trace `updateStatus` takes the pipeline's name, so it Gets the object again and writes it back with the resourceVersion it read. The model does the Get and the write in one step. If another writer (the clearing loop, a deletion, a removal or another pass's status write) changed the pipeline while the worker was at `UpdateStatus`, `statusStale[w]` records it, and `statusCopy[w]` records the conditions from before the first such change (`StatusTouched`). A stale update may then conflict: nothing is written and the key is requeued. It may also have done its Get after the change and write over the current conditions. The mutant `UpdateStatusBlind` writes from the old copy without the conflict check.
* `StepFails`/`UpdateStatusFails` are transient API errors, up to `MaxFailures` in total.
* The environment: `CreatePipeline`, `DeletePipeline` (sets the deletion timestamp and enqueues), `RemovePipeline` (the object of a deleting pipeline disappears once its finalizer is removed, at any time), `ChangeSecret`, `Resync` (enqueues a pipeline), and `Restart` (trace: a new process with the latch unset and workers idle, up to `MaxRestarts`).

Pipelines are numbers, and a smaller number means an earlier creation.
Data is abstracted:

- the rendered configuration is the set of rendered pipelines;
- a certificate is one of `NotRequired`, `Valid`, `AboutToExpire` or `Invalid`;
- a probe is a boolean;
- conditions are records with a type, a status and a reason.

### LogParserStatus

Each parser has a `pc` running through `Request`, `Get`, `SetAgentHealthy`, `SetLegacy` and `Update`. The steps run as follows:

- `Get` ends the update when the parser is gone or being deleted.
- Each probe is `dsReady` or an error, and an error counts as not ready.
- `Update` writes the copy unless the parser changed since `Get` (`stale`). A conflict leaves the conditions unchanged.

The environment:

- edits parsers (up to `MaxEdits`);
- deletes and removes them;
- flips the DaemonSet's readiness (up to `MaxReadinessChanges`).

Initial condition lists include the one an earlier manager version left behind: only the legacy `Running`.

### TraceComponentsChecker

Each loop is a `RECURSIVE` scan, with its iteration order kept from the code:

- `firstUnhealthyPipelineReason` loops over condition types, then over pipelines;
- `determineReason` checks deletion, no pipelines, the first unhealthy reason, then an about-to-expire certificate;
- `createMessageForReason` gives the TLS message first.

`SpecRollup` and `SpecMessage` are reference definitions written from spec §4.4. The state machine adds and removes pipelines (up to `MaxListed`), sets any condition to any of its values, and may start the deletion of Telemetry. This covers every reachable condition list of up to two pipelines.

## Runs

| run | checks | result |
|---|---|---|
| `trace_live` | `GatewayConverges`, `StatusConverges`, `LockConverges` | pass. The gateway settles on the desired set (live pipelines with secret, valid certificate and quota), and each pipeline's `ConfigurationGenerated` reason settles on the value for its final situation. The persisted lock settles on the holders of the live pipelines, by creation order (`LockHolders`). |
| `trace_safety` | `TypeOK`, `MigratedOnceCleared` | pass, with two workers, a transient error in any step, a restart, a pipeline and a secret created later, and mixed certificates. Once the latch is set, every existing pipeline has its legacy condition at the tail, even when a deferred status update races the clearing loop. The update's resourceVersion check is what keeps an old copy from being written back (mutant `UpdateStatusBlind`). |
| `trace_quota_race` | `QuotaRespectedByGateway` | **violation**. A pass mixes two holder lists and renders two pipelines with `MaxPipelines = 1`. |
| `trace_clear_twice` | `ClearsEachPipelineOnce` | **violation**. A failed clear leaves the latch unset, and a later pass clears a pipeline again. |
| `trace_deleting_deployed` | `DeletingEventuallyUndeployed` | **violation**. A pass that listed the pipeline just before its deletion renders it. After that its own passes are denied the lock, which counts only non-deleted pipelines (spec §3), so they return before the apply (`reconciler.go:135-137`). With no other pipeline, it stays rendered while its finalizer holds. |
| `checker_rollup` | `TypeOK`, `RollupMatchesSpec` | pass. The status and reason equal spec rules a–e. |
| `checker_message` | `MessageMatchesSpec` | **violation**. The TLS message beats the deletion-blocking message. |
| `logparser_status` | `TypeOK`, `StatusFrozenOnceDeleting` | pass. Once a parser's deletion has started, no status write changes it. An update whose `Get` came before the deletion is stopped by the resourceVersion conflict. |
| `logparser_legacy_order` | `ParserLegacyAtTail` | **violation**. A parser written by an earlier version has only `Running`, and `AgentHealthy` is appended behind it. |
| `metric_live` | `TypeOK`, `GatewayConverges`, `AgentConverges` | pass |
| `metric_single` | `GatewayConverges`, `AgentConverges`, `ReplicasConverge` | pass, with failures, a secret created later, every kind of Telemetry scaling and one edit of it |
| `metric_agent_scope` | `AgentWithinGateway` | **violation**. The agent renders all listed pipelines, including ones over quota. |

`PROJECT.json` records the violations as findings, each at the Go line where the behaviour originates.

Every TryAcquireLock error, a write conflict included, sets `lockAcquired = false` (`reconciler.go:136`). A pass that loses a lock-write race therefore reports the denial reason for one pass before its retry. The `FailTo` step models this, but no run checks it.

### Bounds

Two pipelines and `MaxPipelines = 1` are the smallest configuration in which quota, creation order and a loser exist. Two workers are the smallest in which passes interleave, and the workers are symmetric in the safety runs.
The failure and restart budgets (`MaxFailures`, `MaxRestarts`) are 0 or 1. They are bounded because every failure requeues and could otherwise repeat forever, which is the unbounded retry the code also does not exclude.
`trace_safety` has the gateway ready in every probe. A not-ready probe only swaps `Running` for `Pending` at the same position, and with both outcomes plus failures the run would take about four minutes. `HandlePendingCondition` is exercised by the LogParser runs.
Two parsers, one fresh and one with a pre-upgrade status, are used for LogParser. `logparser_status` allows two edits and two readiness changes, so a request can overlap a change of the object and of the DaemonSet, repeatedly.
`metric_single` starts from each of four Telemetry lists and allows one edit: an override of 3; a zero override before an override of 1, so the positivity check decides; a Telemetry without `spec.metric` before one with static scaling but no static block; and a static block under a non-static type. Its single failure can hit the List of Telemetry. `ReplicasConverge` compares the applied count with `SpecReplicaCount`, the override as spec section 4.3 states it, written with sets and a minimum.
A three-pipeline instance with `MaxPipelines = 2` of the trace safety run, even without failures or restarts, does not finish within five minutes.
The runs finish in between a few seconds and about two and a half minutes (`trace_safety`).

### Fairness

The liveness runs assume:

* weak fairness on every worker step, since a running goroutine continues (stated once per worker as `WF_vars(PassStep(w))`, which is the same because only the step at `pc[w]` is enabled);
* strong fairness on `Receive` per pipeline, since the queue hands out an enqueued key once no worker holds it;
* weak fairness on `Resync`, the periodic resync of the informers. `ReplicasConverge` depends on it: a failed List of Telemetry returns no error and a Telemetry edit enqueues nothing, so only a later pass corrects the count.

There is no fairness for user actions, failures or restarts. Liveness is claimed only for behaviours where these eventually stop, and that holds here because they are bounded.
All runs set `CHECK_DEADLOCK FALSE`: once the bounded environment is exhausted, an idle controller with an empty queue is a legitimate final state.

## Not modelled

* **The LogParser reconciler** that calls `updateStatus` (not under `src/`). Each request is one `updateStatus`, and the model does not say when requests happen. Its double readiness probe is therefore listed as a hazard without a property.
* **The trace gateway's replica count** (`tracepipeline/reconciler.go:247-270`). It is the same function as the metric one, which `metric_single` checks; adding a Telemetry dimension to the trace runs would push them past their time limit.
* **Override pause, rendering detail, Istio status, probes and the certificate validator.** These are external or carry no control. Probes and certificates are nondeterministic inputs.
* **Owner references and garbage collection** of the gateway and agent resources (`k8sutils.NewOwnerReferenceSetter`, not under `src/`). After the last pipeline is removed no pass runs, and the model keeps the last rendered configuration. The code relies on garbage collection here, so no property claims the empty case.
* **The List error of the components checker** (`trace_components_checker.go:23-26`). `Check` then returns an empty condition and the error, without a rollup, so there is nothing for `RollupMatchesSpec` to compare.
* **Tests and e2e.**

## Plan for later work

1. Larger bounds (three pipelines, `MaxPipelines = 2`) for the safety runs. This needs a run of its own, beyond the twelve the project now uses, and a state space reduction, since the instance does not finish within five minutes.
2. Metric status conditions (`GatewayHealthy`, `AgentHealthy`) and a metric counterpart of the components checker.
