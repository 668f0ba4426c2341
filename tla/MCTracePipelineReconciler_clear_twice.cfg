\* The clearing loop fails part-way and the next pass clears again.
CONSTANTS
    Pipelines = {1, 2}
    Workers = {w1}
    MaxPipelines = 1
    InitiallyLive = {1, 2}
    SecretInitially = {1, 2}
    SecretEdits = {}
    TLS <- MCTLSAllValid
    ProbeResults = {TRUE}
    MaxFailures = 0
    MaxRestarts = 0
SPECIFICATION Spec
PROPERTY ClearsEachPipelineOnce
CHECK_DEADLOCK FALSE
