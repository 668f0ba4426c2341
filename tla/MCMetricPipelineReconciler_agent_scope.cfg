\* One worker, two live pipelines, one quota slot: a pass of the holder
\* applies the agent with the pipeline over quota in it.
CONSTANTS
    Pipelines = {1, 2}
    Workers = {w1}
    MaxPipelines = 1
    InitiallyLive = {1, 2}
    SecretInitially = {1, 2}
    SecretEdits = {}
    Inputs <- MCInputsFirst
    TLS <- MCTLSAllValid
    MaxFailures = 0
    TelemetryLists <- MCTelemetryNone
    TelemetryEdits = 0
SPECIFICATION Spec
INVARIANT AgentWithinGateway
CHECK_DEADLOCK FALSE
