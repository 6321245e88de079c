SPECIFICATION Spec
CONSTANTS
    Queued = {a, b, e}
    Direct = {c}
    PastClaims <- OldClaims
    Tasks = {t1, t2}
    QueueMax = 1
    SeenMax = 2
    SeenEvict = 1
    MaxRequests = 3
    MaxKills = 1
CHECK_DEADLOCK FALSE
INVARIANT QueueBounded
INVARIANT ReplayRefused
INVARIANT ActedOnce
INVARIANT NewestKept
INVARIANT Accounted
PROPERTY QueueDrains
