------------------------ MODULE MCTraceComponentsChecker ------------------------
EXTENDS TraceComponentsChecker, TLC

NameSymmetry == Permutations(Names)

============================================================================
