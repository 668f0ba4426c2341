\* Convergence of gateway and status under fair workers and resync: two
\* workers, two pipelines for one quota slot, the first with a certificate
\* about to expire.
CONSTANTS
    Pipelines = {1, 2}
    Workers = {w1, w2}
    MaxPipelines = 1
    InitiallyLive = {1, 2}
    SecretInitially = {1, 2}
    SecretEdits = {}
    TLS <- MCTLSExpiring
    ProbeResults = {TRUE}
    MaxFailures = 0
    MaxRestarts = 0
SPECIFICATION Spec
PROPERTIES GatewayConverges StatusConverges LockConverges
\* With every pipeline gone and the users' edits used up, the controller
\* idles on an empty queue: that terminal state is real.
CHECK_DEADLOCK FALSE
