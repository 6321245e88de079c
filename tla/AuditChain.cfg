SPECIFICATION Spec
CONSTANTS
    Tasks = {k1, k2}
    Seeds <- HealthySeeds
    Retention = 1
    MaxId = 4
    MaxTime = 3
    MaxCrashes = 1
    ClockSteps = TRUE
    ReAudit = TRUE
    Tracing = FALSE
    Watching = FALSE
SYMMETRY TaskSymmetry
CHECK_DEADLOCK FALSE
INVARIANT ChainVerifies
