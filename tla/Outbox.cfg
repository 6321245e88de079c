CONSTANTS
    Runs = {r1, r2}
    Keys = {k1}
    Payloads = {p1, p2}
    SteeringCap = 1
    MaxId = 2
    MaxRev = 0
    MaxCrashes = 1
    AuditFails = TRUE
    Faults = TRUE
SPECIFICATION Spec
SYMMETRY Symmetry
INVARIANTS ReceiptsHold
CHECK_DEADLOCK FALSE
