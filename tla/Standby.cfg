SPECIFICATION Spec
CONSTANTS
    MaxCommits = 2
    MaxAttempts = 3
    MaxFaults = 2
    FailureLimit = 2
INVARIANT VouchedPair
INVARIANT DrillCovers
PROPERTY ChunkFresh
PROPERTY Heals
CHECK_DEADLOCK FALSE
