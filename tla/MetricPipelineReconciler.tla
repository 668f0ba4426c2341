----------------------- MODULE MetricPipelineReconciler -----------------------
(***************************************************************************)
(* The MetricPipeline reconciler of                                        *)
(* src/internal/reconciler/metricpipeline/reconciler.go, run by concurrent*)
(* workers on the controller's work queue.  Its pass is the trace pass    *)
(* (TracePipelineReconciler) without the legacy-condition clearing and    *)
(* with one more step: when the requested pipeline enables an input that  *)
(* needs the metric agent, the agent DaemonSet's configuration is applied *)
(* after the gateway's -- from the full pipeline list, not from the       *)
(* reconcilable pipelines.                                                 *)
(*   Receive, LockRead, LockWrite, List, Filter, ApplyGateway, ApplyAgent, *)
(*   UpdateStatus                                                          *)
(* The rendered gateway and agent configurations are abstracted to the    *)
(* sets of pipelines they contain, and the gateway's scaling to its       *)
(* replica count; status to the ConfigurationGenerated reason (the legacy *)
(* conditions are the subject of the trace module).                       *)
(***************************************************************************)
EXTENDS Naturals, Sequences, FiniteSets, FiniteSetsExt, QuotaLock

CONSTANTS
    Pipelines,        \* MetricPipeline names; smaller = created earlier
    Workers,          \* reconcile workers of the controller
    MaxPipelines,     \* Config.MaxPipelines
    InitiallyLive,    \* pipelines existing at start
    SecretInitially,  \* pipelines whose referenced secret key exists at start
    SecretEdits,      \* pipelines whose secret a user creates or deletes (once)
    Inputs,           \* per pipeline: the inputs its spec enables
    TLS,              \* outcome of ValidateCertificate per pipeline
    MaxFailures,      \* bound on transient I/O errors
    TelemetryLists,   \* the Telemetry lists the cluster may hold
    TelemetryEdits    \* bound on users' edits of the Telemetry resources

ASSUME /\ Pipelines \subseteq Nat /\ Pipelines # {}
       /\ InitiallyLive \subseteq Pipelines /\ SecretInitially \subseteq Pipelines
       /\ SecretEdits \subseteq Pipelines
       /\ Inputs \in [Pipelines -> SUBSET {"otlp", "runtime", "prometheus", "istio"}]
       /\ TLS \in [Pipelines -> {"NotRequired", "Valid", "AboutToExpire", "Invalid"}]
       /\ MaxPipelines \in Nat \ {0} /\ MaxFailures \in Nat
       /\ TelemetryLists # {} /\ TelemetryEdits \in Nat

VARIABLES
    phase,          \* per pipeline: absent, live, deleting (deletionTimestamp set), gone
    telemetry,      \* the listed Telemetry resources, reduced to their metric scaling
    telemetryEdits,
    secretExists,   \* does the secret key the pipeline references exist
    secretChanged,  \* the user created/deleted that secret (once per pipeline)
    configGenerated,\* per pipeline: reason of its ConfigurationGenerated condition
    lock,           \* persisted holder list of telemetry-metricpipeline-lock
    gateway,        \* pipelines rendered into the applied gateway configuration
    replicas,       \* replica count of the applied gateway Deployment
    agent,          \* pipelines rendered into the applied agent configuration
    queue,          \* work queue of pipeline names
    failures,
    pc, req, lockAcquired, lockStale, snapshot, listed, listedDeleting, todo,
    reconcilable, err   \* per worker, as in TracePipelineReconciler

env    == <<phase, secretExists, secretChanged, telemetry, telemetryEdits>>
worker == <<pc, req, lockAcquired, lockStale, snapshot, listed, listedDeleting, todo,
            reconcilable, err>>
vars   == <<env, configGenerated, lock, gateway, replicas, agent, queue, failures, worker>>

Existing == { p \in Pipelines : phase[p] \in {"live", "deleting"} }
Live     == { p \in Pipelines : phase[p] = "live" }
Busy     == { req[w] : w \in { v \in Workers : pc[v] # "Idle" } }

\* tlsCertValidationRequired and the certificate check of isReconcilable:
\* no TLS material, or a certificate that validates or is only about to
\* expire.
TLSPasses(p) == TLS[p] # "Invalid"

\* isMetricAgentRequired: the runtime, prometheus or istio input is enabled.
isMetricAgentRequired(p) == Inputs[p] \cap {"runtime", "prometheus", "istio"} # {}

AgentRequired == { p \in Pipelines : isMetricAgentRequired(p) }

\* A listed Telemetry resource is a record of its metric scaling: whether
\* spec.metric is set (metric), spec.metric.gateway.scaling.type (type),
\* whether scaling.static is set (hasStatic) and static.replicas.
defaultReplicaCount == 2

\* Mutant of getReplicaCountFromTelemetry: static.Replicas is returned
\* without the check that it is positive.
RECURSIVE getReplicaCountAnyStatic(_)
getReplicaCountAnyStatic(ts) ==
    IF ts = <<>> THEN defaultReplicaCount
    ELSE LET t == Head(ts)
         IN  IF t.metric /\ t.type = "Static" /\ t.hasStatic
             THEN t.replicas ELSE getReplicaCountAnyStatic(Tail(ts))

\* getReplicaCountFromTelemetry's loop over the listed Telemetry resources:
\* the first one with spec.metric set, static scaling and a positive
\* static replica count gives the count; otherwise the default.
RECURSIVE getReplicaCountFromTelemetry(_)
getReplicaCountFromTelemetry(ts) ==
    IF ts = <<>> THEN defaultReplicaCount
    ELSE LET t == Head(ts)
         IN  IF t.metric /\ t.type = "Static" /\ t.hasStatic /\ t.replicas > 0
             THEN t.replicas ELSE getReplicaCountFromTelemetry(Tail(ts))

\* reconcileMetricGateway: the collector configuration is rendered from
\* the given pipelines and applied with the replica count; Istio ports and
\* the resource multiplier carry no control.
reconcileMetricGateway(pipelines, count) == gateway' = pipelines /\ replicas' = count

\* The List of Telemetry resources in getReplicaCountFromTelemetry: an
\* error is logged and the default count used, the pass goes on.
ApplyGatewayScaled(pipelines) ==
    \/ /\ reconcileMetricGateway(pipelines, getReplicaCountFromTelemetry(telemetry))
       /\ UNCHANGED failures
    \/ /\ failures < MaxFailures
       /\ failures' = failures + 1
       /\ reconcileMetricGateway(pipelines, defaultReplicaCount)

\* reconcileMetricAgents: the agent configuration is rendered from the
\* given pipelines and applied.
reconcileMetricAgents(pipelines) == agent' = pipelines

\* Mutant of IsReconcilable: the IsLockHolder check is left out.
IsReconcilableNoLock(w, p) ==
    /\ p \notin listedDeleting[w]
    /\ secretExists[p]
    /\ TLSPasses(p)

\* isReconcilable; every MetricPipeline here has a certificate that
\* validates (the certificate outcomes are explored in the trace module).
IsReconcilable(w, p) ==
    /\ p \notin listedDeleting[w]
    /\ secretExists[p]
    /\ TLSPasses(p)
    /\ IsLockHolder(lock, p)

\* metricpipeline/status.go (not under src/; spec sections 4.3, 6).
ConfigGeneratedReason(p, acquired) ==
    CASE ~acquired        -> "MaxPipelinesExceeded"
      [] ~secretExists[p] -> "ReferencedSecretMissing"
      [] TLS[p] = "Invalid"       -> "TLSCertificateInvalid"
      [] TLS[p] = "AboutToExpire" -> "TLSCertificateAboutToExpire"
      [] OTHER            -> "AgentGatewayConfigured"

-----------------------------------------------------------------------------
Init ==
    /\ phase = [p \in Pipelines |-> IF p \in InitiallyLive THEN "live" ELSE "absent"]
    /\ telemetry \in TelemetryLists
    /\ telemetryEdits = 0
    /\ secretExists = [p \in Pipelines |-> p \in SecretInitially]
    /\ secretChanged = [p \in Pipelines |-> FALSE]
    /\ configGenerated = [p \in Pipelines |-> "None"]
    /\ lock = {}
    /\ gateway = {}
    /\ replicas = defaultReplicaCount
    /\ agent = {}
    /\ queue = InitiallyLive
    /\ failures = 0
    /\ pc = [w \in Workers |-> "Idle"]
    /\ req = [w \in Workers |-> Min(Pipelines)]
    /\ lockAcquired = [w \in Workers |-> TRUE]
    /\ lockStale = [w \in Workers |-> FALSE]
    /\ snapshot = [w \in Workers |-> {}]
    /\ listed = [w \in Workers |-> {}]
    /\ listedDeleting = [w \in Workers |-> {}]
    /\ todo = [w \in Workers |-> {}]
    /\ reconcilable = [w \in Workers |-> {}]
    /\ err = [w \in Workers |-> FALSE]

Goto(w, s) == pc' = [pc EXCEPT ![w] = s]

\* doReconcile returns err; the deferred updateStatus runs.
FailTo(w, denied) ==
    /\ err' = [err EXCEPT ![w] = TRUE]
    /\ lockAcquired' = [lockAcquired EXCEPT ![w] = IF denied THEN FALSE ELSE @]
    /\ Goto(w, "UpdateStatus")

\* Reconcile: Get the named pipeline; NotFound ends the pass silently.
Receive(w, p) ==
    /\ pc[w] = "Idle"
    /\ p \in queue \ Busy
    /\ queue' = queue \ {p}
    /\ IF p \in Existing
       THEN Goto(w, "LockRead") /\ req' = [req EXCEPT ![w] = p]
       ELSE UNCHANGED <<pc, req>>
    /\ UNCHANGED <<env, configGenerated, lock, gateway, replicas, agent, failures, lockAcquired,
                   lockStale, snapshot, listed, listedDeleting, todo, reconcilable, err>>

\* TryAcquireLock: read the lock (its resourceVersion) and the live
\* pipelines ...
LockRead(w) ==
    /\ pc[w] = "LockRead"
    /\ lockStale' = [lockStale EXCEPT ![w] = FALSE]
    /\ snapshot' = [snapshot EXCEPT ![w] = Live]
    /\ Goto(w, "LockWrite")
    /\ UNCHANGED <<env, configGenerated, lock, gateway, replicas, agent, queue, failures, req,
                   lockAcquired, listed, listedDeleting, todo, reconcilable, err>>

\* A write that changes the lock moves its resourceVersion on: every other
\* pass between its read and its write of the lock now conflicts.
LockWritten(w, new) ==
    lockStale' = [v \in Workers |->
                    lockStale[v] \/ (v # w /\ pc[v] = "LockWrite" /\ new # lock)]

\* Mutant of LockWrite: the holders computed are added to the list read
\* instead of replacing it.
LockWriteUnion(w) ==
    /\ pc[w] = "LockWrite"
    /\ LET holders == LockHolders(snapshot[w], MaxPipelines) IN
       \/ /\ ~lockStale[w]
          /\ lock' = lock \cup holders
          /\ LockWritten(w, lock \cup holders)
          /\ IF req[w] \in holders
             THEN Goto(w, "List") /\ UNCHANGED <<lockAcquired, err>>
             ELSE FailTo(w, TRUE)
       \/ /\ lockStale[w]
          /\ FailTo(w, TRUE)
          /\ UNCHANGED <<lock, lockStale>>
    /\ UNCHANGED <<env, configGenerated, gateway, replicas, agent, queue, failures, req,
                   snapshot, listed, listedDeleting, todo, reconcilable>>

\* ... then compute the holders and write them with the version read; a
\* conflict or a denial is an error and sets lockAcquired = false.
LockWrite(w) ==
    /\ pc[w] = "LockWrite"
    /\ LET holders == LockHolders(snapshot[w], MaxPipelines) IN
       \/ /\ ~lockStale[w]
          /\ lock' = holders
          /\ LockWritten(w, holders)
          /\ IF req[w] \in holders
             THEN Goto(w, "List") /\ UNCHANGED <<lockAcquired, err>>
             ELSE FailTo(w, TRUE)
       \/ /\ lockStale[w]
          /\ FailTo(w, TRUE)
          /\ UNCHANGED <<lock, lockStale>>
    /\ UNCHANGED <<env, configGenerated, gateway, replicas, agent, queue, failures, req,
                   snapshot, listed, listedDeleting, todo, reconcilable>>

\* r.List(ctx, &allPipelinesList); getReconcilablePipelines starts.
List(w) ==
    /\ pc[w] = "List"
    /\ listed' = [listed EXCEPT ![w] = Existing]
    /\ listedDeleting' = [listedDeleting EXCEPT ![w] = Existing \ Live]
    /\ todo' = [todo EXCEPT ![w] = Existing]
    /\ Goto(w, IF Existing = {} THEN "UpdateStatus" ELSE "Filter")
    /\ UNCHANGED <<env, configGenerated, lock, gateway, replicas, agent, queue, failures, req,
                   lockAcquired, lockStale, snapshot, reconcilable, err>>

\* getReconcilablePipelines: one isReconcilable per step; an empty result
\* ends the pass with neither gateway nor agent applied.
Filter(w) ==
    /\ pc[w] = "Filter"
    /\ LET p    == Min(todo[w])
           recs == IF IsReconcilable(w, p) THEN reconcilable[w] \cup {p}
                                                     ELSE reconcilable[w]
       IN  /\ reconcilable' = [reconcilable EXCEPT ![w] = recs]
           /\ todo' = [todo EXCEPT ![w] = @ \ {p}]
           /\ IF todo[w] = {p}
              THEN Goto(w, IF recs = {} THEN "UpdateStatus" ELSE "ApplyGateway")
              ELSE UNCHANGED pc
    /\ UNCHANGED <<env, configGenerated, lock, gateway, replicas, agent, queue, failures, req,
                   lockAcquired, lockStale, snapshot, listed, listedDeleting, err>>

\* Mutant of ApplyGateway: the pass ends after the gateway, never applying
\* the agent.
ApplyGatewayOnly(w) ==
    /\ pc[w] = "ApplyGateway"
    /\ ApplyGatewayScaled(reconcilable[w])
    /\ Goto(w, "UpdateStatus")
    /\ UNCHANGED <<env, configGenerated, lock, agent, queue, req, lockAcquired,
                   lockStale, snapshot, listed, listedDeleting, todo, reconcilable, err>>

\* reconcileMetricGateway with the reconcilable pipelines; then the agent
\* if isMetricAgentRequired(pipeline) for the requested pipeline.
ApplyGateway(w) ==
    /\ pc[w] = "ApplyGateway"
    /\ ApplyGatewayScaled(reconcilable[w])
    /\ Goto(w, IF isMetricAgentRequired(req[w]) THEN "ApplyAgent" ELSE "UpdateStatus")
    /\ UNCHANGED <<env, configGenerated, lock, agent, queue, req, lockAcquired,
                   lockStale, snapshot, listed, listedDeleting, todo, reconcilable, err>>

\* reconcileMetricAgents(ctx, pipeline, allPipelinesList.Items)
ApplyAgent(w) ==
    /\ pc[w] = "ApplyAgent"
    /\ reconcileMetricAgents(listed[w])
    /\ Goto(w, "UpdateStatus")
    /\ UNCHANGED <<env, configGenerated, lock, gateway, replicas, queue, failures, req,
                   lockAcquired, lockStale, snapshot, listed, listedDeleting, todo, reconcilable, err>>

\* A transient error of List, IsLockHolder or an apply.
StepFails(w) ==
    /\ pc[w] \in {"List", "Filter", "ApplyGateway", "ApplyAgent"}
    /\ failures < MaxFailures
    /\ failures' = failures + 1
    /\ FailTo(w, FALSE)
    /\ UNCHANGED <<env, configGenerated, lock, gateway, replicas, agent, queue, req, lockStale,
                   snapshot, listed, listedDeleting, todo, reconcilable>>

\* The pass returns and the worker forgets its locals.
EndPass(w) ==
    /\ pc' = [pc EXCEPT ![w] = "Idle"]
    /\ req' = [req EXCEPT ![w] = Min(Pipelines)]
    /\ lockAcquired' = [lockAcquired EXCEPT ![w] = TRUE]
    /\ lockStale' = [lockStale EXCEPT ![w] = FALSE]
    /\ snapshot' = [snapshot EXCEPT ![w] = {}]
    /\ listed' = [listed EXCEPT ![w] = {}]
    /\ listedDeleting' = [listedDeleting EXCEPT ![w] = {}]
    /\ todo' = [todo EXCEPT ![w] = {}]
    /\ reconcilable' = [reconcilable EXCEPT ![w] = {}]
    /\ err' = [err EXCEPT ![w] = FALSE]

\* The deferred updateStatus; an error requeues the request.
UpdateStatus(w) ==
    /\ pc[w] = "UpdateStatus"
    /\ configGenerated' =
          IF req[w] \in Existing
          THEN [configGenerated EXCEPT ![req[w]] = ConfigGeneratedReason(req[w], lockAcquired[w])]
          ELSE configGenerated
    /\ queue' = IF err[w] THEN queue \cup {req[w]} ELSE queue
    /\ EndPass(w)
    /\ UNCHANGED <<env, lock, gateway, replicas, agent, failures>>

UpdateStatusFails(w) ==
    /\ pc[w] = "UpdateStatus"
    /\ failures < MaxFailures
    /\ failures' = failures + 1
    /\ queue' = queue \cup {req[w]}
    /\ EndPass(w)
    /\ UNCHANGED <<env, configGenerated, lock, gateway, replicas, agent>>

-----------------------------------------------------------------------------
(* The environment.                                                       *)

CreatePipeline(p) ==
    /\ phase[p] = "absent"
    /\ \A q \in Pipelines : q < p => phase[q] # "absent"
    /\ phase' = [phase EXCEPT ![p] = "live"]
    /\ queue' = queue \cup {p}
    /\ UNCHANGED <<secretExists, secretChanged, telemetry, telemetryEdits, configGenerated,
                   lock, gateway, replicas, agent, failures, worker>>

DeletePipeline(p) ==
    /\ phase[p] = "live"
    /\ phase' = [phase EXCEPT ![p] = "deleting"]
    /\ queue' = queue \cup {p}
    /\ UNCHANGED <<secretExists, secretChanged, telemetry, telemetryEdits, configGenerated,
                   lock, gateway, replicas, agent, failures, worker>>

RemovePipeline(p) ==
    /\ phase[p] = "deleting"
    /\ phase' = [phase EXCEPT ![p] = "gone"]
    /\ configGenerated' = [configGenerated EXCEPT ![p] = "None"]
    /\ queue' = queue \cup {p}
    /\ UNCHANGED <<secretExists, secretChanged, telemetry, telemetryEdits, lock, gateway,
                   replicas, agent, failures, worker>>

ChangeSecret(p) ==
    /\ p \in SecretEdits
    /\ ~secretChanged[p]
    /\ p \in Live
    /\ secretExists' = [secretExists EXCEPT ![p] = ~@]
    /\ secretChanged' = [secretChanged EXCEPT ![p] = TRUE]
    /\ queue' = queue \cup {p}
    /\ UNCHANGED <<phase, telemetry, telemetryEdits, configGenerated, lock, gateway, replicas,
                   agent, failures, worker>>

\* A user edits the Telemetry resources; no MetricPipeline is enqueued for
\* it (the controller's watches are not under src/), so only a later pass
\* reads the new scaling.
EditTelemetry ==
    /\ telemetryEdits < TelemetryEdits
    /\ telemetryEdits' = telemetryEdits + 1
    /\ \E ts \in TelemetryLists \ {telemetry} : telemetry' = ts
    /\ UNCHANGED <<phase, secretExists, secretChanged, configGenerated, lock, gateway, replicas,
                   agent, queue, failures, worker>>

Resync(p) ==
    /\ p \in Existing \ queue
    /\ queue' = queue \cup {p}
    /\ UNCHANGED <<env, configGenerated, lock, gateway, replicas, agent, failures, worker>>

Next ==
    \/ \E w \in Workers :
          \/ \E p \in Pipelines : Receive(w, p)
          \/ LockRead(w) \/ LockWrite(w) \/ List(w) \/ Filter(w)
          \/ ApplyGateway(w) \/ ApplyAgent(w) \/ StepFails(w)
          \/ UpdateStatus(w) \/ UpdateStatusFails(w)
    \/ \E p \in Pipelines :
          \/ CreatePipeline(p) \/ DeletePipeline(p) \/ RemovePipeline(p)
          \/ ChangeSecret(p) \/ Resync(p)
    \/ EditTelemetry

\* As in TracePipelineReconciler: blocking I/O returns, the FIFO queue
\* hands every name out, the informer resyncs.
Fairness ==
    /\ \A w \in Workers :
          /\ WF_vars(LockRead(w)) /\ WF_vars(LockWrite(w)) /\ WF_vars(List(w))
          /\ WF_vars(Filter(w)) /\ WF_vars(ApplyGateway(w)) /\ WF_vars(ApplyAgent(w))
          /\ WF_vars(UpdateStatus(w))
    /\ \A p \in Pipelines :
          /\ SF_vars(\E w \in Workers : Receive(w, p))
          /\ WF_vars(Resync(p))

Spec == Init /\ [][Next]_vars /\ Fairness

-----------------------------------------------------------------------------
(* Properties.                                                            *)

PCs == {"Idle", "LockRead", "LockWrite", "List", "Filter", "ApplyGateway",
        "ApplyAgent", "UpdateStatus"}

\* Types, with the quota: the holder list never exceeds MaxPipelines.
TypeOK ==
    /\ phase \in [Pipelines -> {"absent", "live", "deleting", "gone"}]
    /\ secretExists \in [Pipelines -> BOOLEAN] /\ secretChanged \in [Pipelines -> BOOLEAN]
    /\ configGenerated \in [Pipelines -> {"None", "MaxPipelinesExceeded",
                                          "ReferencedSecretMissing", "TLSCertificateInvalid",
                                          "TLSCertificateAboutToExpire", "AgentGatewayConfigured"}]
    /\ lock \subseteq Pipelines /\ Cardinality(lock) <= MaxPipelines
    /\ gateway \subseteq Pipelines /\ agent \subseteq Pipelines /\ queue \subseteq Pipelines
    /\ failures \in 0..MaxFailures
    /\ telemetry \in TelemetryLists /\ telemetryEdits \in 0..TelemetryEdits
    /\ replicas \in Nat
    /\ pc \in [Workers -> PCs] /\ req \in [Workers -> Pipelines]
    /\ lockAcquired \in [Workers -> BOOLEAN] /\ err \in [Workers -> BOOLEAN]
    /\ \A w \in Workers :
          /\ lockStale[w] \in BOOLEAN /\ snapshot[w] \subseteq Pipelines
          /\ listedDeleting[w] \subseteq listed[w] /\ listed[w] \subseteq Pipelines
          /\ todo[w] \subseteq Pipelines /\ reconcilable[w] \subseteq Pipelines

Desired ==
    { p \in Live : secretExists[p] /\ TLSPasses(p) /\ p \in LockHolders(Live, MaxPipelines) }

\* doReconcile / reconcileMetricGateway: once users stop editing, the
\* gateway renders exactly the desired pipelines for good.
GatewayConverges == <>[](Desired # {} => gateway = Desired)

\* reconcileMetricAgents: once users stop editing, every desired pipeline
\* is rendered into the agent configuration for good whenever a desired
\* pipeline needs the agent -- even though only passes of such a pipeline
\* apply the agent.
AgentConverges == <>[](Desired \cap AgentRequired # {} => Desired \subseteq agent)

\* Spec section 3: the reconcilable pipelines are what gets rendered
\* downstream, so the agent renders no pipeline the gateway leaves out.
AgentWithinGateway == agent \subseteq gateway

\* Spec section 4.3 step 5: the gateway runs the replica count of the
\* cluster-wide scaling override -- the static scaling of the metric
\* gateway, when one sets a positive count -- else the fixed default.
SpecReplicaCount(ts) ==
    LET overrides == { i \in 1..Len(ts) : ts[i].metric /\ ts[i].type = "Static"
                                          /\ ts[i].hasStatic /\ ts[i].replicas >= 1 }
    IN  IF overrides = {} THEN defaultReplicaCount ELSE ts[Min(overrides)].replicas

\* getReplicaCountFromTelemetry / reconcileMetricGateway: once users stop
\* editing, the applied gateway runs the override's replica count for
\* good -- also after a failed List of Telemetry silently applied the
\* default, and after a Telemetry edit that enqueues no pipeline.
ReplicasConverge == <>[](Desired # {} => replicas = SpecReplicaCount(telemetry))

============================================================================
