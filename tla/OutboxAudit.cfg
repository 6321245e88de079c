CONSTANTS
    Runs = {r1}
    Keys = {k1}
    Payloads = {p1}
    SteeringCap = 2
    MaxId = 4
    MaxRev = 2
    MaxCrashes = 1
    AuditFails = FALSE
    Faults = FALSE
SPECIFICATION Spec
INVARIANTS LineageHolds SteeringBounded EnqueueEvidenced
PROPERTIES HistoryKept
CHECK_DEADLOCK FALSE
