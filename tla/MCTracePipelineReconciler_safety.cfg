\* Legacy-condition migration and the quota under two workers, write
\* conflicts, transient errors in every step, a manager restart, the
\* creation of pipeline 2 and the later creation of its secret, and
\* certificates about to expire (pipeline 1) and invalid (pipeline 2).
\* The gateway is ready in every probe: the not-ready outcome only swaps
\* Running for Pending, whose helper the LogParser runs exercise.
CONSTANTS
    Pipelines = {1, 2}
    Workers = {w1, w2}
    MaxPipelines = 1
    InitiallyLive = {1}
    SecretInitially = {1}
    SecretEdits = {2}
    TLS <- MCTLSMixed
    ProbeResults = {TRUE}
    MaxFailures = 1
    MaxRestarts = 1
SPECIFICATION Spec
SYMMETRY WorkerSymmetry
INVARIANTS TypeOK MigratedOnceCleared
\* With every pipeline gone and the users' edits used up, the controller
\* idles on an empty queue: that terminal state is real.
CHECK_DEADLOCK FALSE
