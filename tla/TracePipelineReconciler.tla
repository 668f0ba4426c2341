----------------------- MODULE TracePipelineReconciler -----------------------
(***************************************************************************)
(* The TracePipeline reconciler of                                         *)
(* src/internal/reconciler/tracepipeline/reconciler.go, run by concurrent *)
(* workers that take pipeline names from the controller's work queue.     *)
(*                                                                         *)
(* One reconcile pass (Reconcile, doReconcile) is split into the steps at *)
(* which it performs blocking I/O against the cluster, so that the passes *)
(* of different workers, the user's edits and a manager restart           *)
(* interleave between them:                                                *)
(*   Receive     Reconcile: Get the named pipeline                         *)
(*   LockRead    TryAcquireLock: read the live pipelines and the lock      *)
(*   LockWrite   TryAcquireLock: optimistic write of the holder list       *)
(*   List        List all TracePipelines; clearPipelinesConditions' latch  *)
(*   ClearLoop   clearPipelinesConditions: one Status().Update per pipeline*)
(*   Filter      isReconcilable for one pipeline (IsLockHolder is a read)  *)
(*   Apply       reconcileTraceGateway                                     *)
(*   UpdateStatus the deferred updateStatus, then the pass returns         *)
(* The rendered collector configuration is abstracted to the set of       *)
(* pipelines it contains (gateway); replicas, ports, checksum and the     *)
(* YAML itself are derived from that set and carry no further control.    *)
(***************************************************************************)
EXTENDS Naturals, FiniteSets, Sequences, FiniteSetsExt, QuotaLock, Conditions

CONSTANTS
    Pipelines,        \* TracePipeline names; smaller = created earlier
    Workers,          \* reconcile workers of the controller
    MaxPipelines,     \* Config.MaxPipelines
    InitiallyLive,    \* pipelines existing (with pre-migration conditions) at start
    SecretInitially,  \* pipelines whose referenced secret key exists at start
    SecretEdits,      \* pipelines whose secret a user creates or deletes (once)
    TLS,              \* outcome of ValidateCertificate per pipeline
    ProbeResults,     \* readiness values the gateway deployment probe may return
    MaxFailures,      \* bound on transient I/O errors
    MaxRestarts       \* bound on manager restarts

TLSResult == {"NotRequired", "Valid", "AboutToExpire", "Invalid"}

ASSUME /\ Pipelines \subseteq Nat /\ Pipelines # {}
       /\ InitiallyLive \subseteq Pipelines /\ SecretInitially \subseteq Pipelines
       /\ SecretEdits \subseteq Pipelines
       /\ TLS \in [Pipelines -> TLSResult]
       /\ MaxPipelines \in Nat \ {0}
       /\ ProbeResults \subseteq BOOLEAN /\ ProbeResults # {}
       /\ MaxFailures \in Nat /\ MaxRestarts \in Nat

VARIABLES
    phase,          \* per pipeline: absent, live, deleting (deletionTimestamp set), gone
    secretExists,   \* does the secret key the pipeline references exist
    secretChanged,  \* the user created/deleted that secret (once per pipeline)
    conds,          \* Status.Conditions of each pipeline, in list order
    lock,           \* persisted holder list of telemetry-tracepipeline-lock
    gateway,        \* pipelines rendered into the applied gateway configuration
    queue,          \* work queue of pipeline names
    pipelinesConditionsCleared, \* Reconciler.pipelinesConditionsCleared
    clearedOnce,    \* history: pipelines cleared since the process started
    failures, restarts,
    pc,             \* per worker: step of the pass in progress
    req,            \* per worker: pipeline named by the request
    lockAcquired,   \* per worker: doReconcile's lockAcquired
    lockStale,      \* per worker: the lock changed since TryAcquireLock read it
    snapshot,       \* per worker: live pipelines TryAcquireLock read
    listed,         \* per worker: the pipelines List returned
    listedDeleting, \* per worker: those of them with a deletionTimestamp
    stale,          \* per worker in the clearing loop: listed objects changed since
    statusStale,    \* per worker in updateStatus: the pipeline changed meanwhile
    statusCopy,     \* per worker: its conditions before that first change
    todo,           \* per worker: pipelines the current loop has yet to visit
    reconcilable,   \* per worker: reconcilablePipelines
    err             \* per worker: doReconcile's err

env    == <<phase, secretExists, secretChanged>>
workerLocals == <<pc, req, lockAcquired, lockStale, snapshot, listed, listedDeleting, todo,
                 reconcilable, err>>
worker == <<workerLocals, stale, statusStale, statusCopy>>
vars   == <<env, conds, lock, gateway, queue, pipelinesConditionsCleared,
            clearedOnce, failures, restarts, worker>>

-----------------------------------------------------------------------------
\* The condition list a pipeline carries from a manager version before the
\* new condition types existed.
LegacyConds == << Cond("Running", "True", "GatewayReady") >>

-----------------------------------------------------------------------------
(* Cluster state as the reconciler reads it.                              *)

Existing == { p \in Pipelines : phase[p] \in {"live", "deleting"} }
Live     == { p \in Pipelines : phase[p] = "live" }

\* An optimistic update conflicts iff the object changed since it was read
\* (its resourceVersion moved on).  The clearing loop writes objects it read
\* earlier, so a change is recorded for the workers inside that loop.
Touched(S) == [v \in Workers |-> IF pc[v] = "ClearLoop" THEN stale[v] \cup S ELSE stale[v]]

\* updateStatus Gets the pipeline and writes it back in the same step of
\* the model; a change of it by someone else while a worker is in
\* updateStatus may fall between that Get and that write.  The first such
\* change is recorded, with the conditions the Get may have read before it.
StatusTouched(S) ==
    /\ statusStale' = [v \in Workers |-> statusStale[v] \/ (pc[v] = "UpdateStatus" /\ req[v] \in S)]
    /\ statusCopy' = [v \in Workers |->
                        IF pc[v] = "UpdateStatus" /\ req[v] \in S /\ ~statusStale[v]
                        THEN conds[req[v]] ELSE statusCopy[v]]

Busy == { req[w] : w \in { v \in Workers : pc[v] # "Idle" } }

\* tlsCertValidationRequired plus ValidateCertificate / IsCertAboutToExpireError
TLSPasses(p) == TLS[p] # "Invalid"

\* Mutant of IsReconcilable: the IsLockHolder check is left out.
IsReconcilableNoLock(w, p) ==
    /\ p \notin listedDeleting[w]
    /\ secretExists[p]
    /\ TLSPasses(p)

\* isReconcilable, for pipeline p as worker w listed it
IsReconcilable(w, p) ==
    /\ p \notin listedDeleting[w]
    /\ secretExists[p]
    /\ TLSPasses(p)
    /\ IsLockHolder(lock, p)

\* updateStatus (tracepipeline/status.go is not under src/; modelled from
\* spec sections 4.3, 4.4, 6): configuration-generated, gateway-healthy,
\* then the legacy condition (HandleRunningCondition or HandlePendingCondition).
ConfigGeneratedCond(p, acquired) ==
    CASE ~acquired               -> Cond("ConfigurationGenerated", "False", "MaxPipelinesExceeded")
      [] ~secretExists[p]        -> Cond("ConfigurationGenerated", "False", "ReferencedSecretMissing")
      [] TLS[p] = "Invalid"      -> Cond("ConfigurationGenerated", "False", "TLSCertificateInvalid")
      [] TLS[p] = "AboutToExpire" -> Cond("ConfigurationGenerated", "True", "TLSCertificateAboutToExpire")
      [] OTHER                   -> Cond("ConfigurationGenerated", "True", "GatewayConfigured")

StatusConditions(cs0, p, acquired, ready) ==
    LET gh  == IF ready THEN Cond("GatewayHealthy", "True", "GatewayReady")
                        ELSE Cond("GatewayHealthy", "False", "GatewayNotReady")
        cs  == SetStatusCondition(SetStatusCondition(cs0, ConfigGeneratedCond(p, acquired)), gh)
    IN  IF ready THEN HandleRunningCondition(cs, "GatewayReady", "GatewayNotReady")
                 ELSE HandlePendingCondition(cs, "GatewayNotReady")

-----------------------------------------------------------------------------
Init ==
    /\ phase = [p \in Pipelines |-> IF p \in InitiallyLive THEN "live" ELSE "absent"]
    /\ secretExists = [p \in Pipelines |-> p \in SecretInitially]
    /\ secretChanged = [p \in Pipelines |-> FALSE]
    /\ conds = [p \in Pipelines |-> IF p \in InitiallyLive THEN LegacyConds ELSE <<>>]
    /\ lock = {}
    /\ gateway = {}
    /\ queue = InitiallyLive
    /\ pipelinesConditionsCleared = FALSE
    /\ clearedOnce = {}
    /\ failures = 0
    /\ restarts = 0
    /\ pc = [w \in Workers |-> "Idle"]
    /\ req = [w \in Workers |-> Min(Pipelines)]
    /\ lockAcquired = [w \in Workers |-> TRUE]
    /\ lockStale = [w \in Workers |-> FALSE]
    /\ snapshot = [w \in Workers |-> {}]
    /\ listed = [w \in Workers |-> {}]
    /\ listedDeleting = [w \in Workers |-> {}]
    /\ stale = [w \in Workers |-> {}]
    /\ statusStale = [w \in Workers |-> FALSE]
    /\ statusCopy = [w \in Workers |-> <<>>]
    /\ todo = [w \in Workers |-> {}]
    /\ reconcilable = [w \in Workers |-> {}]
    /\ err = [w \in Workers |-> FALSE]

-----------------------------------------------------------------------------
(* The reconcile pass of worker w.                                        *)

Goto(w, s) == pc' = [pc EXCEPT ![w] = s]

\* Mutant of FailTo: a denied lock does not reset lockAcquired.
FailToKeepsLockAcquired(w, denied) ==
    /\ err' = [err EXCEPT ![w] = TRUE]
    /\ UNCHANGED lockAcquired
    /\ Goto(w, "UpdateStatus")

\* The pass fails: doReconcile returns err and the deferred updateStatus runs.
FailTo(w, denied) ==
    /\ err' = [err EXCEPT ![w] = TRUE]
    /\ lockAcquired' = [lockAcquired EXCEPT ![w] = IF denied THEN FALSE ELSE @]
    /\ Goto(w, "UpdateStatus")

\* Reconcile: the queue hands out p (never to two workers at once); Get
\* returns NotFound for a pipeline that is gone, and the pass ends silently.
Receive(w, p) ==
    /\ pc[w] = "Idle"
    /\ p \in queue \ Busy
    /\ queue' = queue \ {p}
    /\ IF p \in Existing
       THEN /\ Goto(w, "LockRead")
            /\ req' = [req EXCEPT ![w] = p]
            /\ lockAcquired' = [lockAcquired EXCEPT ![w] = TRUE]
            /\ err' = [err EXCEPT ![w] = FALSE]
            /\ reconcilable' = [reconcilable EXCEPT ![w] = {}]
       ELSE UNCHANGED <<pc, req, lockAcquired, err, reconcilable>>
    /\ UNCHANGED <<env, conds, lock, gateway, pipelinesConditionsCleared, clearedOnce,
                   failures, restarts, lockStale, snapshot, listed, listedDeleting, stale, statusStale, statusCopy, todo>>

\* Reconcile's LoadOverrides or Get returns an error other than NotFound:
\* the error requeues the request, nothing else happens.
ReceiveFails(w, p) ==
    /\ pc[w] = "Idle"
    /\ p \in queue \ Busy
    /\ failures < MaxFailures
    /\ failures' = failures + 1
    /\ UNCHANGED <<env, conds, lock, gateway, queue, pipelinesConditionsCleared, clearedOnce,
                   restarts, worker>>

\* Mutant of LockRead: the holder list is computed from every existing
\* pipeline, those being deleted included.
LockReadCountsDeleting(w) ==
    /\ pc[w] = "LockRead"
    /\ lockStale' = [lockStale EXCEPT ![w] = FALSE]
    /\ snapshot' = [snapshot EXCEPT ![w] = Existing]
    /\ Goto(w, "LockWrite")
    /\ UNCHANGED <<env, conds, lock, gateway, queue, pipelinesConditionsCleared,
                   clearedOnce, failures, restarts, req, lockAcquired, listed, listedDeleting,
                   stale, statusStale, statusCopy, todo, reconcilable, err>>

\* TryAcquireLock, first half: read the lock (remembering its
\* resourceVersion) and the live pipelines the holder list is computed from.
LockRead(w) ==
    /\ pc[w] = "LockRead"
    /\ lockStale' = [lockStale EXCEPT ![w] = FALSE]
    /\ snapshot' = [snapshot EXCEPT ![w] = Live]
    /\ Goto(w, "LockWrite")
    /\ UNCHANGED <<env, conds, lock, gateway, queue, pipelinesConditionsCleared,
                   clearedOnce, failures, restarts, req, lockAcquired, listed, listedDeleting,
                   stale, statusStale, statusCopy, todo, reconcilable, err>>

\* A write that changes the lock moves its resourceVersion on, so every
\* other pass between its read and its write of the lock now conflicts; a
\* write of the same content leaves the object, and its version, as it is.
LockWritten(w, new) ==
    lockStale' = [v \in Workers |->
                    lockStale[v] \/ (v # w /\ pc[v] = "LockWrite" /\ new # lock)]

\* Mutant of LockWrite: the holders computed are added to the list read
\* instead of replacing it.
LockWriteUnion(w) ==
    /\ pc[w] = "LockWrite"
    /\ LET holders == LockHolders(snapshot[w], MaxPipelines) IN
       \/ /\ ~lockStale[w]
          /\ lock' = lock \cup holders
          /\ LockWritten(w, lock \cup holders)
          /\ IF req[w] \in holders
             THEN Goto(w, "List") /\ UNCHANGED <<lockAcquired, err>>
             ELSE FailTo(w, TRUE)
       \/ /\ lockStale[w]
          /\ FailTo(w, TRUE)
          /\ UNCHANGED <<lock, lockStale>>
    /\ UNCHANGED <<env, conds, gateway, queue, pipelinesConditionsCleared, clearedOnce,
                   failures, restarts, req, snapshot, listed, listedDeleting, stale, statusStale, statusCopy,
                   todo, reconcilable>>

\* TryAcquireLock, second half: compute the holder list from the live
\* pipelines read and write it with the resourceVersion read; the write
\* conflicts if the lock changed since.  Any error of TryAcquireLock, a
\* conflict included, sets lockAcquired = false.
LockWrite(w) ==
    /\ pc[w] = "LockWrite"
    /\ LET holders == LockHolders(snapshot[w], MaxPipelines) IN
       \/ /\ ~lockStale[w]
          /\ lock' = holders
          /\ LockWritten(w, holders)
          /\ IF req[w] \in holders
             THEN Goto(w, "List") /\ UNCHANGED <<lockAcquired, err>>
             ELSE FailTo(w, TRUE)
       \/ /\ lockStale[w]
          /\ FailTo(w, TRUE)
          /\ UNCHANGED <<lock, lockStale>>
    /\ UNCHANGED <<env, conds, gateway, queue, pipelinesConditionsCleared, clearedOnce,
                   failures, restarts, req, snapshot, listed, listedDeleting, stale, statusStale, statusCopy,
                   todo, reconcilable>>

\* The step after clearPipelinesConditions: getReconcilablePipelines over
\* the listed pipelines; with none listed it finds none and the pass ends.
StartFilter(w, names) ==
    /\ todo' = [todo EXCEPT ![w] = names]
    /\ Goto(w, IF names = {} THEN "UpdateStatus" ELSE "Filter")

\* r.List(ctx, &allPipelinesList), then clearPipelinesConditions reads its
\* latch on entry (no I/O in between).  With nothing listed the loop is
\* empty and the latch is set at once.
List(w) ==
    /\ pc[w] = "List"
    /\ listed' = [listed EXCEPT ![w] = Existing]
    /\ listedDeleting' = [listedDeleting EXCEPT ![w] = Existing \ Live]
    /\ \/ /\ pipelinesConditionsCleared
          /\ StartFilter(w, Existing)
          /\ UNCHANGED pipelinesConditionsCleared
       \/ /\ ~pipelinesConditionsCleared /\ Existing = {}
          /\ pipelinesConditionsCleared' = TRUE
          /\ StartFilter(w, Existing)
       \/ /\ ~pipelinesConditionsCleared /\ Existing # {}
          /\ todo' = [todo EXCEPT ![w] = Existing]
          /\ Goto(w, "ClearLoop")
          /\ UNCHANGED pipelinesConditionsCleared
    /\ UNCHANGED <<env, conds, lock, gateway, queue, clearedOnce, failures, restarts,
                   req, lockAcquired, lockStale, snapshot, stale, statusStale, statusCopy, reconcilable, err>>

\* One iteration of the clearing loop: Status().Update of the listed object
\* with an empty condition list; a conflict or NotFound ends the pass.
\* After the last one the latch is set.
ClearLoop(w) ==
    /\ pc[w] = "ClearLoop"
    /\ LET p == Min(todo[w]) IN
       IF p \in Existing /\ p \notin stale[w]
       THEN /\ conds' = [conds EXCEPT ![p] = <<>>]
            /\ stale' = [Touched(IF conds[p] # <<>> THEN {p} ELSE {}) EXCEPT ![w] = @]
            /\ StatusTouched(IF conds[p] # <<>> THEN {p} ELSE {})
            /\ clearedOnce' = clearedOnce \cup {p}
            /\ IF todo[w] = {p}
               THEN /\ pipelinesConditionsCleared' = TRUE
                    /\ StartFilter(w, listed[w])
               ELSE /\ todo' = [todo EXCEPT ![w] = @ \ {p}]
                    /\ UNCHANGED <<pc, pipelinesConditionsCleared>>
            /\ UNCHANGED <<lockAcquired, err>>
       ELSE /\ FailTo(w, FALSE)
            /\ UNCHANGED <<conds, stale, statusStale, statusCopy, clearedOnce, todo, pipelinesConditionsCleared>>
    /\ UNCHANGED <<env, lock, gateway, queue, failures, restarts, req, lockStale,
                   snapshot, listed, listedDeleting, reconcilable>>

\* getReconcilablePipelines: one isReconcilable per step, since each reads
\* the cluster (secret, certificate, lock) anew.  An empty result ends the
\* pass without touching the gateway.
Filter(w) ==
    /\ pc[w] = "Filter"
    /\ LET p    == Min(todo[w])
           recs == IF IsReconcilable(w, p) THEN reconcilable[w] \cup {p}
                                                     ELSE reconcilable[w]
       IN  /\ reconcilable' = [reconcilable EXCEPT ![w] = recs]
           /\ todo' = [todo EXCEPT ![w] = @ \ {p}]
           /\ IF todo[w] = {p}
              THEN Goto(w, IF recs = {} THEN "UpdateStatus" ELSE "Apply")
              ELSE UNCHANGED pc
    /\ UNCHANGED <<env, conds, lock, gateway, queue, pipelinesConditionsCleared,
                   clearedOnce, failures, restarts, req, lockAcquired, lockStale,
                   snapshot, listed, listedDeleting, stale, statusStale, statusCopy, err>>

\* reconcileTraceGateway: render the reconcilable pipelines and apply.
Apply(w) ==
    /\ pc[w] = "Apply"
    /\ gateway' = reconcilable[w]
    /\ Goto(w, "UpdateStatus")
    /\ UNCHANGED <<env, conds, lock, queue, pipelinesConditionsCleared, clearedOnce,
                   failures, restarts, req, lockAcquired, lockStale, snapshot, listed,
                   listedDeleting, stale, statusStale, statusCopy,
                   todo, reconcilable, err>>

\* A transient error of List, of a clearing Status().Update, of IsLockHolder
\* or of applying the gateway resources.
StepFails(w) ==
    /\ pc[w] \in {"List", "ClearLoop", "Filter", "Apply"}
    /\ failures < MaxFailures
    /\ failures' = failures + 1
    /\ FailTo(w, FALSE)
    /\ UNCHANGED <<env, conds, lock, gateway, queue, pipelinesConditionsCleared,
                   clearedOnce, restarts, req, lockStale, snapshot, listed, listedDeleting,
                   stale, statusStale, statusCopy, todo,
                   reconcilable>>

\* The pass returns: the worker forgets its locals; the objects in
\* changed were written by the pass's last step.
EndPass(w, changed) ==
    /\ pc' = [pc EXCEPT ![w] = "Idle"]
    /\ req' = [req EXCEPT ![w] = Min(Pipelines)]
    /\ lockAcquired' = [lockAcquired EXCEPT ![w] = TRUE]
    /\ lockStale' = [lockStale EXCEPT ![w] = FALSE]
    /\ snapshot' = [snapshot EXCEPT ![w] = {}]
    /\ listed' = [listed EXCEPT ![w] = {}]
    /\ listedDeleting' = [listedDeleting EXCEPT ![w] = {}]
    /\ stale' = [Touched(changed) EXCEPT ![w] = {}]
    /\ statusStale' = [v \in Workers |->
                         IF v = w THEN FALSE
                         ELSE statusStale[v] \/ (pc[v] = "UpdateStatus" /\ req[v] \in changed)]
    /\ statusCopy' = [v \in Workers |->
                        IF v = w THEN <<>>
                        ELSE IF pc[v] = "UpdateStatus" /\ req[v] \in changed /\ ~statusStale[v]
                             THEN conds[req[v]] ELSE statusCopy[v]]
    /\ todo' = [todo EXCEPT ![w] = {}]
    /\ reconcilable' = [reconcilable EXCEPT ![w] = {}]
    /\ err' = [err EXCEPT ![w] = FALSE]

\* Mutant of UpdateStatus: the status is written without the resourceVersion
\* the Get read, so a copy read before a change overwrites it.
UpdateStatusBlind(w) ==
    /\ pc[w] = "UpdateStatus"
    /\ \E ready \in ProbeResults, readBefore \in IF statusStale[w] THEN BOOLEAN ELSE {FALSE} :
          /\ conds' = IF req[w] \in Existing
                      THEN [conds EXCEPT ![req[w]] =
                              StatusConditions(IF readBefore THEN statusCopy[w] ELSE conds[req[w]],
                                               req[w], lockAcquired[w], ready)]
                      ELSE conds
          /\ EndPass(w, IF conds'[req[w]] # conds[req[w]] THEN {req[w]} ELSE {})
    /\ queue' = IF err[w] THEN queue \cup {req[w]} ELSE queue
    /\ UNCHANGED <<env, lock, gateway, pipelinesConditionsCleared, clearedOnce,
                   failures, restarts>>

\* The deferred updateStatus(ctx, pipeline.Name, lockAcquired): Get the named
\* pipeline, probe the gateway deployment, set the conditions on the copy
\* and Status().Update it with the copy's resourceVersion.  If the pipeline
\* changed while the worker was here, the Get came before the change (the
\* write conflicts: an error, the request is requeued) or after it.  A
\* pipeline gone at the Get is NotFound and nothing is written.
UpdateStatus(w) ==
    /\ pc[w] = "UpdateStatus"
    /\ \E ready \in ProbeResults, conflict \in IF statusStale[w] THEN BOOLEAN ELSE {FALSE} :
          /\ conds' = IF req[w] \in Existing /\ ~conflict
                      THEN [conds EXCEPT ![req[w]] =
                              StatusConditions(conds[req[w]], req[w], lockAcquired[w], ready)]
                      ELSE conds
          /\ EndPass(w, IF conds'[req[w]] # conds[req[w]] THEN {req[w]} ELSE {})
          /\ queue' = IF err[w] \/ conflict THEN queue \cup {req[w]} ELSE queue
    /\ UNCHANGED <<env, lock, gateway, pipelinesConditionsCleared, clearedOnce,
                   failures, restarts>>

\* updateStatus itself fails; the error is returned and the request requeued.
UpdateStatusFails(w) ==
    /\ pc[w] = "UpdateStatus"
    /\ failures < MaxFailures
    /\ failures' = failures + 1
    /\ queue' = queue \cup {req[w]}
    /\ EndPass(w, {})
    /\ UNCHANGED <<env, conds, lock, gateway, pipelinesConditionsCleared, clearedOnce,
                   restarts>>

-----------------------------------------------------------------------------
(* The environment: users, the informer and the process.                  *)

\* A user creates pipeline p (creation timestamps increase with the name).
CreatePipeline(p) ==
    /\ phase[p] = "absent"
    /\ \A q \in Pipelines : q < p => phase[q] # "absent"
    /\ phase' = [phase EXCEPT ![p] = "live"]
    /\ queue' = queue \cup {p}
    /\ UNCHANGED <<secretExists, secretChanged, conds, lock, gateway,
                   pipelinesConditionsCleared, clearedOnce, failures, restarts, worker>>

\* A user deletes p: its deletionTimestamp is set while finalizers remain.
DeletePipeline(p) ==
    /\ phase[p] = "live"
    /\ phase' = [phase EXCEPT ![p] = "deleting"]
    /\ queue' = queue \cup {p}
    /\ stale' = Touched({p})
    /\ StatusTouched({p})
    /\ UNCHANGED <<secretExists, secretChanged, conds, lock, gateway,
                   pipelinesConditionsCleared, clearedOnce, failures, restarts,
                   workerLocals>>

\* The teardown path removes the finalizers and the object, with its
\* status, disappears.
RemovePipeline(p) ==
    /\ phase[p] = "deleting"
    /\ phase' = [phase EXCEPT ![p] = "gone"]
    /\ conds' = [conds EXCEPT ![p] = <<>>]
    /\ queue' = queue \cup {p}
    /\ stale' = Touched({p})
    /\ StatusTouched({p})
    /\ UNCHANGED <<secretExists, secretChanged, lock, gateway,
                   pipelinesConditionsCleared, clearedOnce, failures, restarts,
                   workerLocals>>

\* A user creates or deletes the secret p references; the secret watch
\* enqueues p.
ChangeSecret(p) ==
    /\ p \in SecretEdits
    /\ ~secretChanged[p]
    /\ p \in Live
    /\ secretExists' = [secretExists EXCEPT ![p] = ~@]
    /\ secretChanged' = [secretChanged EXCEPT ![p] = TRUE]
    /\ queue' = queue \cup {p}
    /\ UNCHANGED <<phase, conds, lock, gateway, pipelinesConditionsCleared,
                   clearedOnce, failures, restarts, worker>>

\* The informer's periodic resync enqueues every existing pipeline.
Resync(p) ==
    /\ p \in Existing \ queue
    /\ queue' = queue \cup {p}
    /\ UNCHANGED <<env, conds, lock, gateway, pipelinesConditionsCleared, clearedOnce,
                   failures, restarts, worker>>

\* The manager restarts: passes in flight are lost, the in-memory latch is
\* reset, and the initial list enqueues every existing pipeline.
Restart ==
    /\ restarts < MaxRestarts
    /\ restarts' = restarts + 1
    /\ pipelinesConditionsCleared' = FALSE
    /\ clearedOnce' = {}
    /\ queue' = Existing
    /\ pc' = [w \in Workers |-> "Idle"]
    /\ req' = [w \in Workers |-> Min(Pipelines)]
    /\ lockAcquired' = [w \in Workers |-> TRUE]
    /\ lockStale' = [w \in Workers |-> FALSE]
    /\ snapshot' = [w \in Workers |-> {}]
    /\ listed' = [w \in Workers |-> {}]
    /\ listedDeleting' = [w \in Workers |-> {}]
    /\ stale' = [w \in Workers |-> {}]
    /\ statusStale' = [w \in Workers |-> FALSE]
    /\ statusCopy' = [w \in Workers |-> <<>>]
    /\ todo' = [w \in Workers |-> {}]
    /\ reconcilable' = [w \in Workers |-> {}]
    /\ err' = [w \in Workers |-> FALSE]
    /\ UNCHANGED <<env, conds, lock, gateway, failures>>

-----------------------------------------------------------------------------
Next ==
    \/ \E w \in Workers :
          \/ \E p \in Pipelines : Receive(w, p) \/ ReceiveFails(w, p)
          \/ LockRead(w) \/ LockWrite(w) \/ List(w) \/ ClearLoop(w)
          \/ Filter(w) \/ Apply(w) \/ StepFails(w)
          \/ UpdateStatus(w) \/ UpdateStatusFails(w)
    \/ \E p \in Pipelines :
          \/ CreatePipeline(p) \/ DeletePipeline(p) \/ RemovePipeline(p)
          \/ ChangeSecret(p) \/ Resync(p)
    \/ Restart

\* The steps of a pass after Receive, failures excluded.  Only the step at
\* pc[w] is enabled, and only w (or a restart) moves pc[w], so weak
\* fairness on this disjunction is weak fairness on each step.
PassStep(w) ==
    \/ LockRead(w) \/ LockWrite(w) \/ List(w) \/ ClearLoop(w)
    \/ Filter(w) \/ Apply(w) \/ UpdateStatus(w)

\* Every step of a pass is blocking I/O that returns; the work queue is
\* FIFO, so a queued name is handed out whenever workers keep coming back;
\* the informer resyncs periodically.  Users, errors and restarts are not
\* fair.
Fairness ==
    /\ \A w \in Workers : WF_vars(PassStep(w))
    /\ \A p \in Pipelines :
          /\ SF_vars(\E w \in Workers : Receive(w, p))
          /\ WF_vars(Resync(p))

Spec == Init /\ [][Next]_vars /\ Fairness

-----------------------------------------------------------------------------
(* Properties.                                                            *)

PCs == {"Idle", "LockRead", "LockWrite", "List", "ClearLoop",
        "Filter", "Apply", "UpdateStatus"}

ConditionRecords ==
    { Cond("ConfigurationGenerated", s, r) :
          <<s, r>> \in { <<"False", "MaxPipelinesExceeded">>, <<"False", "ReferencedSecretMissing">>,
                         <<"False", "TLSCertificateInvalid">>, <<"True", "TLSCertificateAboutToExpire">>,
                         <<"True", "GatewayConfigured">> } }
    \cup { Cond("GatewayHealthy", "True", "GatewayReady"), Cond("GatewayHealthy", "False", "GatewayNotReady"),
           Cond("Running", "True", "GatewayReady"), Cond("Pending", "True", "GatewayNotReady"),
           Cond("Pending", "False", "GatewayNotReady") }

\* Types of the state, with the quota: the persisted holder list never
\* has more than MaxPipelines entries.
TypeOK ==
    /\ phase \in [Pipelines -> {"absent", "live", "deleting", "gone"}]
    /\ secretExists \in [Pipelines -> BOOLEAN]
    /\ secretChanged \in [Pipelines -> BOOLEAN]
    /\ \A p \in Pipelines : conds[p] \in Seq(ConditionRecords)
    /\ lock \subseteq Pipelines /\ Cardinality(lock) <= MaxPipelines
    /\ gateway \subseteq Pipelines
    /\ queue \subseteq Pipelines
    /\ pipelinesConditionsCleared \in BOOLEAN
    /\ clearedOnce \subseteq Pipelines
    /\ failures \in 0..MaxFailures /\ restarts \in 0..MaxRestarts
    /\ pc \in [Workers -> PCs]
    /\ req \in [Workers -> Pipelines]
    /\ lockAcquired \in [Workers -> BOOLEAN] /\ err \in [Workers -> BOOLEAN]
    /\ \A w \in Workers :
          /\ lockStale[w] \in BOOLEAN /\ snapshot[w] \subseteq Pipelines
          /\ listedDeleting[w] \subseteq listed[w] /\ listed[w] \subseteq Pipelines
          /\ stale[w] \subseteq Pipelines
          /\ statusStale[w] \in BOOLEAN /\ statusCopy[w] \in Seq(ConditionRecords)
          /\ todo[w] \subseteq Pipelines /\ reconcilable[w] \subseteq Pipelines

\* clearPipelinesConditions: once the latch is set, every existing
\* pipeline's condition list has the legacy conditions ("Running",
\* "Pending") at its tail -- whatever status updates of other passes,
\* conflicts and partial failures of the clearing loop came before.
MigratedOnceCleared ==
    pipelinesConditionsCleared => \A p \in Existing : LegacyAtTail(conds[p])

\* The pipelines a converged gateway renders: live, secret present,
\* certificate acceptable, and among the first MaxPipelines live ones.
Desired ==
    { p \in Live : secretExists[p] /\ TLSPasses(p) /\ p \in LockHolders(Live, MaxPipelines) }

\* doReconcile / getReconcilablePipelines / reconcileTraceGateway: once
\* users stop editing, the gateway eventually renders exactly the desired
\* pipelines for good (when there are any), despite stale lock reads,
\* conflicting lock writes and passes running on stale lists.
GatewayConverges == <>[](Desired # {} => gateway = Desired)

\* The deferred updateStatus: eventually every live pipeline's
\* ConfigurationGenerated condition states its final situation, the
\* pipelines denied a quota slot included.
HasCondition(cs, c) == \E i \in 1..Len(cs) : cs[i] = c

StatusConverges ==
    <>[](\A p \in Live :
            HasCondition(conds[p], ConfigGeneratedCond(p, p \in LockHolders(Live, MaxPipelines))))

\* The gateway never renders more pipelines than the quota allows (spec
\* section 4.1/8: the quota caps how many pipelines are deployed).
QuotaRespectedByGateway == Cardinality(gateway) <= MaxPipelines

\* Spec section 8: the legacy clear fires at most once per process
\* lifetime -- a pipeline cleared once keeps the conditions later set.
ClearsEachPipelineOnce ==
    [][\A p \in clearedOnce : conds[p] # <<>> /\ phase'[p] # "gone" => conds'[p] # <<>>]_vars

\* Spec section 3: a pipeline being deleted is not part of the deployed
\* configuration -- once deleting, it eventually leaves the gateway (or
\* disappears).
DeletingEventuallyUndeployed ==
    \A p \in Pipelines : phase[p] = "deleting" ~> (p \notin gateway \/ phase[p] = "gone")

\* TryAcquireLock recomputes from the live pipelines: once users stop, the
\* lock ends up as the first MaxPipelines live pipelines for good,
\* whatever stale holder lists were written before, as long as any
\* pipeline (being deleted or not) is still reconciled.
LockConverges ==
    <>[](Existing # {} => lock = LockHolders(Live, MaxPipelines))

=============================================================================
