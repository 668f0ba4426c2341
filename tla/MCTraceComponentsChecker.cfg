\* Every list of up to two pipelines with every combination of the
\* conditions the reconcilers set, with and without flow-health probing
\* and a Telemetry deletion: Check's rollup against spec rules a-e.
CONSTANTS
    Names = {n1, n2}
    MaxListed = 2
SPECIFICATION Spec
INVARIANTS TypeOK RollupMatchesSpec
