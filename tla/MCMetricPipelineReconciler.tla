----------------------- MODULE MCMetricPipelineReconciler -----------------------
EXTENDS MetricPipelineReconciler, TLC

WorkerSymmetry == Permutations(Workers)

\* Enabled inputs: every pipeline needs the agent, only pipeline 2 does,
\* or only pipeline 1 does.
MCInputsAll    == [p \in Pipelines |-> {"runtime"}]
MCInputsSecond == [p \in Pipelines |-> IF p = 2 THEN {"otlp", "prometheus"} ELSE {"otlp"}]
MCInputsFirst  == [p \in Pipelines |-> IF p = 1 THEN {"istio"} ELSE {"otlp"}]

\* Certificate outcomes: no TLS material, or pipeline 1's certificate
\* about to expire.
MCTLSAllValid == [p \in Pipelines |-> "NotRequired"]
MCTLSExpiring == [p \in Pipelines |-> IF p = 1 THEN "AboutToExpire" ELSE "Valid"]

\* A Telemetry resource's metric gateway scaling.
TScaling(metric, type, hasStatic, count) ==
    [metric |-> metric, type |-> type, hasStatic |-> hasStatic, replicas |-> count]

\* No Telemetry resource: the default replica count.
MCTelemetryNone == {<<>>}

\* One override of 3 replicas; a zero override before a positive one;
\* a Telemetry without spec.metric before one with static scaling but no
\* static block; and a static block under a non-static scaling type.
MCTelemetryLists ==
    { << TScaling(TRUE, "Static", TRUE, 3) >>,
      << TScaling(TRUE, "Static", TRUE, 0), TScaling(TRUE, "Static", TRUE, 1) >>,
      << TScaling(FALSE, "", FALSE, 0), TScaling(TRUE, "Static", FALSE, 0) >>,
      << TScaling(TRUE, "", TRUE, 3) >> }

============================================================================
