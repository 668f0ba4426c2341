\* Two parsers, one fresh and one with a pre-upgrade status, requests
\* interleaved with two edits, deletions, removals and two readiness
\* changes of the DaemonSet.
CONSTANTS
    Parsers = {lp1, lp2}
    MaxEdits = 2
    MaxReadinessChanges = 2
    InitialConditions <- MCInitialConditions
SPECIFICATION Spec
INVARIANT TypeOK
PROPERTY StatusFrozenOnceDeleting
\* Once every parser is removed and the bounded changes are used up,
\* nothing is left to do.
CHECK_DEADLOCK FALSE
