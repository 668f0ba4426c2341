CONSTANTS
    Parsers = {lp1, lp2}
    MaxEdits = 1
    MaxReadinessChanges = 1
    InitialConditions <- MCInitialConditions
SPECIFICATION Spec
INVARIANT ParserLegacyAtTail
CHECK_DEADLOCK FALSE
