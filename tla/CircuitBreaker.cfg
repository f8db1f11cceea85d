SPECIFICATION BreakerFairSpec
CONSTANTS
    Callers = {c1, c2, c3}
    FailureThreshold = 2
    SuccessThreshold = 3
    MaxHalfOpenRequests = 2
    Timeout = 1
    MaxTimeout = 3
    MaxPanics = 1
    c1 = c1
    c2 = c2
    c3 = c3
INVARIANTS InflightAccounted BackoffBounded
PROPERTY Recovers
