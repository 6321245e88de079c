SPECIFICATION OrderlySpec
CONSTANTS
    Tasks = {k1}
    Seeds <- AllSeeds
    Servers = {s1}
    Clis = {c1}
    MaxKills = 3
    Retention = 1
    MaxId = 5
    MaxTime = 3
    MaxCrashes = 0
    ClockSteps = FALSE
    ReAudit = FALSE
    Tracing = FALSE
    Watching = FALSE
CHECK_DEADLOCK FALSE
INVARIANT BootHeals
