CONSTANTS
    NumDomains = 1
    MaxId = 3
    Batch = 1
    Buffer = 2
    MaxDrops = 2
    MaxCrashes = 1
    DeliverFails = TRUE
    ReplayFails = TRUE
SPECIFICATION Spec
INVARIANTS GapsExplained
PROPERTIES EventuallyDelivered EventuallyShown
