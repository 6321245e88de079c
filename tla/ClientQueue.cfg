SPECIFICATION Spec
CONSTANTS
    Proposals = {p}
    Contents = {x, y}
    Erasures = {g}
    MaxTasks = 2
    MaxQueued = 2
    MaxRetries = 1
    MaxClicks = 2
    MaxFaults = 2
    None = None
INVARIANT ApprovedWasShown
INVARIANT ErasedAsAsked
INVARIANT NothingForgotten
CHECK_DEADLOCK FALSE
