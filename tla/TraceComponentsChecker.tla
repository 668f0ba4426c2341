------------------------- MODULE TraceComponentsChecker -------------------------
(***************************************************************************)
(* The cluster-wide "trace components healthy" rollup of                   *)
(* src/internal/reconciler/telemetry/trace_components_checker.go.         *)
(*                                                                         *)
(* Check lists the TracePipelines and folds their status conditions into  *)
(* one condition.  The folds are written as the code's loops (recursive   *)
(* scans over the listed sequence) and compared with a reference rollup   *)
(* written from spec section 4.4 with sets and minima.  The state machine *)
(* around them lets the pipeline reconcilers set conditions, users create *)
(* and delete pipelines and the Telemetry resource, so that Check's result*)
(* is checked for every reachable list of pipelines.                      *)
(*                                                                         *)
(* A condition is abstracted to its status and reason; FindStatusCondition*)
(* is a lookup by type, since SetStatusCondition keeps types unique.       *)
(* Messages are records naming what they are built from.                  *)
(***************************************************************************)
EXTENDS Naturals, Sequences, FiniteSets, FiniteSetsExt

CONSTANTS
    Names,      \* TracePipeline names
    MaxListed   \* bound on the number of pipelines in the list

VARIABLES
    pipelines,                 \* the listed TracePipelines, in List order
    telemetryInDeletion,       \* the Telemetry resource has a deletionTimestamp
    flowHealthProbingEnabled   \* traceComponentsChecker.flowHealthProbingEnabled

vars == <<pipelines, telemetryInDeletion, flowHealthProbingEnabled>>

-----------------------------------------------------------------------------
CondTypes == {"ConfigurationGenerated", "GatewayHealthy", "FlowHealthy"}

C(s, r) == [status |-> s, reason |-> r]

\* FindStatusCondition returns nil
NoCond == C("None", "None")

\* The conditions the trace pipeline reconciler sets, per type.
CondValues ==
    [ ConfigurationGenerated |->
          { C("True", "GatewayConfigured"), C("True", "TLSCertificateAboutToExpire"),
            C("False", "MaxPipelinesExceeded"), C("False", "ReferencedSecretMissing"),
            C("False", "TLSCertificateInvalid") },
      GatewayHealthy |-> { C("True", "GatewayReady"), C("False", "GatewayNotReady") },
      FlowHealthy    |-> { C("True", "FlowHealthy"), C("False", "GatewayThrottling") } ]

Pipeline(n, cs) == [name |-> n, conds |-> cs]

FindStatusCondition(p, t) == p.conds[t]

-----------------------------------------------------------------------------
(* trace_components_checker.go                                            *)

\* The inner loop of firstUnhealthyPipelineReason: the reason of the first
\* pipeline whose condition of type t is False, or "".
RECURSIVE FirstFalseOfType(_, _)
FirstFalseOfType(ps, t) ==
    IF ps = <<>> THEN ""
    ELSE LET cond == FindStatusCondition(Head(ps), t)
         IN  IF cond # NoCond /\ cond.status = "False" THEN cond.reason
             ELSE FirstFalseOfType(Tail(ps), t)

\* The outer loop over condTypes, in priority order.
RECURSIVE FirstFalseOfTypes(_, _)
FirstFalseOfTypes(ps, condTypes) ==
    IF condTypes = <<>> THEN ""
    ELSE LET reason == FirstFalseOfType(ps, Head(condTypes))
         IN  IF reason # "" THEN reason ELSE FirstFalseOfTypes(ps, Tail(condTypes))

PriorityTypes(flow) ==
    IF flow THEN <<"ConfigurationGenerated", "GatewayHealthy", "FlowHealthy">>
            ELSE <<"ConfigurationGenerated", "GatewayHealthy">>

\* Mutant of firstUnhealthyPipelineReason: the loops nested the other way
\* round, so the first pipeline with any False condition wins.
RECURSIVE FirstFalseOfPipelines(_, _)
FirstFalseOfPipelines(ps, condTypes) ==
    IF ps = <<>> THEN ""
    ELSE LET reason == FirstFalseOfTypes(<<Head(ps)>>, condTypes)
         IN  IF reason # "" THEN reason ELSE FirstFalseOfPipelines(Tail(ps), condTypes)

FirstFalseByPipeline(ps, flow) == FirstFalseOfPipelines(ps, PriorityTypes(flow))

firstUnhealthyPipelineReason(ps, flow) == FirstFalseOfTypes(ps, PriorityTypes(flow))

\* The loop of determineReason looking for an about-to-expire certificate.
RECURSIVE FirstAboutToExpire(_)
FirstAboutToExpire(ps) ==
    IF ps = <<>> THEN ""
    ELSE LET cond == FindStatusCondition(Head(ps), "ConfigurationGenerated")
         IN  IF cond # NoCond /\ cond.reason = "TLSCertificateAboutToExpire" THEN cond.reason
             ELSE FirstAboutToExpire(Tail(ps))

\* Mutant of determineReason: the result of firstUnhealthyPipelineReason is
\* returned without testing it for "".
determineReasonUnchecked(ps, inDeletion, flow) ==
    IF Len(ps) = 0 THEN "NoPipelineDeployed"
    ELSE IF inDeletion THEN "ResourceBlocksDeletion"
    ELSE firstUnhealthyPipelineReason(ps, flow)

determineReason(ps, inDeletion, flow) ==
    IF Len(ps) = 0 THEN "NoPipelineDeployed"
    ELSE IF inDeletion THEN "ResourceBlocksDeletion"
    ELSE IF firstUnhealthyPipelineReason(ps, flow) # "" THEN firstUnhealthyPipelineReason(ps, flow)
    ELSE IF FirstAboutToExpire(ps) # "" THEN FirstAboutToExpire(ps)
    ELSE "ComponentsRunning"

determineConditionStatus(reason) ==
    IF reason \in {"NoPipelineDeployed", "ComponentsRunning", "TLSCertificateAboutToExpire"}
    THEN "True" ELSE "False"

\* determineTLSCertMsg (not under src/; spec section 4.4): a pipeline whose
\* configuration-generated condition reports an about-to-expire
\* certificate carries that condition's message.
NoMessage == [kind |-> "None"]

determineTLSCertMsg(p) ==
    IF FindStatusCondition(p, "ConfigurationGenerated").reason = "TLSCertificateAboutToExpire"
    THEN [kind |-> "TLSCertificate", pipeline |-> p.name]
    ELSE NoMessage

RECURSIVE firstTLSCertificateMessage(_)
firstTLSCertificateMessage(ps) ==
    IF ps = <<>> THEN NoMessage
    ELSE IF determineTLSCertMsg(Head(ps)) # NoMessage THEN determineTLSCertMsg(Head(ps))
    ELSE firstTLSCertificateMessage(Tail(ps))

\* conditions.MessageForTracePipeline (not under src/): the fixed message of
\* a reason.
MessageForTracePipeline(reason) == [kind |-> "Reason", reason |-> reason]

\* generateDeletionBlockedMessage (not under src/): names the blocking
\* pipelines in list order.
generateDeletionBlockedMessage(names) == [kind |-> "DeletionBlocked", names |-> names]

createMessageForReason(ps, reason) ==
    IF firstTLSCertificateMessage(ps) # NoMessage THEN firstTLSCertificateMessage(ps)
    ELSE IF reason # "ResourceBlocksDeletion" THEN MessageForTracePipeline(reason)
    ELSE generateDeletionBlockedMessage([i \in 1..Len(ps) |-> ps[i].name])

CheckCondition(ps, inDeletion, flow) ==
    LET reason == determineReason(ps, inDeletion, flow)
    IN  [type    |-> "TraceComponentsHealthy",
         status  |-> determineConditionStatus(reason),
         reason  |-> reason,
         message |-> createMessageForReason(ps, reason)]

-----------------------------------------------------------------------------
(* The rollup as spec section 4.4 states it.                              *)

FalseAt(ps, t) == { i \in 1..Len(ps) : ps[i].conds[t].status = "False" }

\* Rules a-e: the first rule that applies gives status and reason.
SpecRollup(ps, inDeletion, flow) ==
    LET types   == PriorityTypes(flow)
        failing == { k \in 1..Len(types) : FalseAt(ps, types[k]) # {} }
        expiring == { i \in 1..Len(ps) :
                        ps[i].conds["ConfigurationGenerated"].reason = "TLSCertificateAboutToExpire" }
    IN  CASE Len(ps) = 0    -> C("True", "NoPipelineDeployed")
          [] inDeletion     -> C("False", "ResourceBlocksDeletion")
          [] failing # {}   -> LET t == types[Min(failing)]
                               IN  C("False", ps[Min(FalseAt(ps, t))].conds[t].reason)
          [] expiring # {}  -> C("True", "TLSCertificateAboutToExpire")
          [] OTHER          -> C("True", "ComponentsRunning")

\* The message: the deletion-blocking message always wins; otherwise an
\* about-to-expire certificate's message precedes the reason's message.
SpecMessage(ps, inDeletion, flow) ==
    LET reason   == SpecRollup(ps, inDeletion, flow).reason
        expiring == { i \in 1..Len(ps) :
                        ps[i].conds["ConfigurationGenerated"].reason = "TLSCertificateAboutToExpire" }
    IN  CASE reason = "ResourceBlocksDeletion" ->
                 generateDeletionBlockedMessage([i \in 1..Len(ps) |-> ps[i].name])
          [] expiring # {} -> [kind |-> "TLSCertificate", pipeline |-> ps[Min(expiring)].name]
          [] OTHER         -> MessageForTracePipeline(reason)

-----------------------------------------------------------------------------
(* What Check is given: the pipeline reconcilers set conditions, users    *)
(* create and delete pipelines and request deletion of Telemetry.         *)

ListedNames == { pipelines[i].name : i \in 1..Len(pipelines) }

Init ==
    /\ pipelines = <<>>
    /\ telemetryInDeletion = FALSE
    /\ flowHealthProbingEnabled \in BOOLEAN

CreatePipeline(n) ==
    /\ n \notin ListedNames
    /\ Len(pipelines) < MaxListed
    /\ pipelines' = Append(pipelines, Pipeline(n, [t \in CondTypes |-> NoCond]))
    /\ UNCHANGED <<telemetryInDeletion, flowHealthProbingEnabled>>

\* A pipeline reconciler's updateStatus sets condition c of type t.
SetCondition(i, t, c) ==
    /\ pipelines' = [pipelines EXCEPT ![i].conds[t] = c]
    /\ UNCHANGED <<telemetryInDeletion, flowHealthProbingEnabled>>

RemovePipeline(i) ==
    /\ pipelines' = SubSeq(pipelines, 1, i - 1) \o SubSeq(pipelines, i + 1, Len(pipelines))
    /\ UNCHANGED <<telemetryInDeletion, flowHealthProbingEnabled>>

DeleteTelemetry ==
    /\ ~telemetryInDeletion
    /\ telemetryInDeletion' = TRUE
    /\ UNCHANGED <<pipelines, flowHealthProbingEnabled>>

Next ==
    \/ \E n \in Names : CreatePipeline(n)
    \/ \E i \in 1..Len(pipelines), t \in CondTypes : \E c \in CondValues[t] : SetCondition(i, t, c)
    \/ \E i \in 1..Len(pipelines) : RemovePipeline(i)
    \/ DeleteTelemetry

Spec == Init /\ [][Next]_vars

-----------------------------------------------------------------------------
(* Properties of the condition Check returns for the current pipelines.   *)

Result == CheckCondition(pipelines, telemetryInDeletion, flowHealthProbingEnabled)

Reasons ==
    { "NoPipelineDeployed", "ResourceBlocksDeletion", "ComponentsRunning",
      "TLSCertificateAboutToExpire", "TLSCertificateInvalid", "MaxPipelinesExceeded",
      "ReferencedSecretMissing",
      "GatewayNotReady", "GatewayThrottling" }

\* Types, with Check's condition: a True/False status and a reason of the
\* closed enumeration.
TypeOK ==
    /\ Len(pipelines) <= MaxListed
    /\ \A i \in 1..Len(pipelines) : \A t \in CondTypes :
          pipelines[i].conds[t] \in CondValues[t] \cup {NoCond}
    /\ telemetryInDeletion \in BOOLEAN /\ flowHealthProbingEnabled \in BOOLEAN
    /\ Result.status \in {"True", "False"} /\ Result.reason \in Reasons

\* determineReason / firstUnhealthyPipelineReason / determineConditionStatus:
\* the rolled-up status and reason are those of spec rules a-e -- the
\* first condition type in priority order that any pipeline reports False
\* wins over the list order of pipelines.
RollupMatchesSpec ==
    SpecRollup(pipelines, telemetryInDeletion, flowHealthProbingEnabled)
        = C(Result.status, Result.reason)

\* createMessageForReason: the message is the one spec section 4.4
\* composes; while Telemetry is being deleted it names the blocking
\* pipelines, even when a certificate is about to expire.
MessageMatchesSpec ==
    Result.message = SpecMessage(pipelines, telemetryInDeletion, flowHealthProbingEnabled)

============================================================================
