SPECIFICATION Spec
CONSTANTS
    Tasks = {t1, t2}
    Reviewers = {alice, bob}
    Contents = {x, y}
    Kinds = {"remedy", "template", "user_map", "draft"}
    Quorum = 2
    TTL = 0
    MaxTime = 1
    MaxFiled = 2
    MaxRequests = 3
    MaxErased = 1
    MaxLost = 1
SYMMETRY Symmetry
CHECK_DEADLOCK FALSE
INVARIANT AppliedOnce
INVARIANT SecondEyes
INVARIANT Evidenced
PROPERTY DecisionFinal
