SPECIFICATION Spec
CONSTANTS
    Tasks = {k1, k2}
    Seeds <- CurrentSeeds
    Retention = 1
    MaxId = 5
    MaxTime = 3
    MaxCrashes = 1
    ClockSteps = FALSE
    ReAudit = TRUE
    Tracing = TRUE
    Watching = TRUE
SYMMETRY TaskSymmetry
CHECK_DEADLOCK FALSE
INVARIANTS NoFalseAlarm DeletionsCounted NoOrphanTrace
PROPERTY ImplementsLog
