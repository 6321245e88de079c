SPECIFICATION Spec
CONSTANTS
    Tasks = {t1, t2}
    Reviewers = {alice, bob}
    Contents = {x, y}
    Kinds = {"user_map"}
    Quorum = 1
    TTL = 0
    MaxTime = 1
    MaxFiled = 1
    MaxRequests = 3
    MaxErased = 0
    MaxLost = 0
SYMMETRY Symmetry
CHECK_DEADLOCK FALSE
INVARIANT NeverSecondApproval
