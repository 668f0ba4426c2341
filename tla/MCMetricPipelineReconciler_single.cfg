\* One worker, a transient error, the second pipeline created later and
\* the only one needing the agent, its secret created by the user: the
\* agent is applied only by passes of a pipeline that waits for a slot;
\* every kind of Telemetry scaling, edited once, and a failed List of
\* Telemetry that falls back to the default replica count.
CONSTANTS
    Pipelines = {1, 2}
    Workers = {w1}
    MaxPipelines = 1
    InitiallyLive = {1}
    SecretInitially = {1}
    SecretEdits = {2}
    Inputs <- MCInputsSecond
    TLS <- MCTLSAllValid
    MaxFailures = 1
    TelemetryLists <- MCTelemetryLists
    TelemetryEdits = 1
SPECIFICATION Spec
PROPERTIES GatewayConverges AgentConverges ReplicasConverge
\* With every pipeline gone and the users' edits used up, the controller
\* idles on an empty queue: that terminal state is real.
CHECK_DEADLOCK FALSE
