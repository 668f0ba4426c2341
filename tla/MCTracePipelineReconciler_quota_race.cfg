\* Two passes read the lock at different times while a pipeline is deleted.
CONSTANTS
    Pipelines = {1, 2}
    Workers = {w1, w2}
    MaxPipelines = 1
    InitiallyLive = {1, 2}
    SecretInitially = {1, 2}
    SecretEdits = {}
    TLS <- MCTLSAllValid
    ProbeResults = {TRUE}
    MaxFailures = 0
    MaxRestarts = 0
SPECIFICATION Spec
INVARIANT QuotaRespectedByGateway
CHECK_DEADLOCK FALSE
