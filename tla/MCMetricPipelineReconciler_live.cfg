\* Two workers, a second pipeline (secret present) created later competing for
\* one quota slot, both needing the agent:
\* quota, gateway and agent convergence.
CONSTANTS
    Pipelines = {1, 2}
    Workers = {w1, w2}
    MaxPipelines = 1
    InitiallyLive = {1}
    SecretInitially = {1, 2}
    SecretEdits = {}
    Inputs <- MCInputsAll
    TLS <- MCTLSExpiring
    MaxFailures = 0
    TelemetryLists <- MCTelemetryNone
    TelemetryEdits = 0
SPECIFICATION Spec
INVARIANT TypeOK
PROPERTIES GatewayConverges AgentConverges
\* With every pipeline gone and the users' edits used up, the controller
\* idles on an empty queue: that terminal state is real.
CHECK_DEADLOCK FALSE
