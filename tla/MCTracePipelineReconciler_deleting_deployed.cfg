\* The only pipeline is deleted while its finalizers remain.  Its own passes
\* are denied the lock, which counts only non-deleted pipelines, and no other
\* pipeline's pass comes to drop it from the gateway.
CONSTANTS
    Pipelines = {1}
    Workers = {w1}
    MaxPipelines = 1
    InitiallyLive = {1}
    SecretInitially = {1}
    SecretEdits = {}
    TLS <- MCTLSAllValid
    ProbeResults = {TRUE}
    MaxFailures = 0
    MaxRestarts = 0
SPECIFICATION Spec
PROPERTY DeletingEventuallyUndeployed
CHECK_DEADLOCK FALSE
