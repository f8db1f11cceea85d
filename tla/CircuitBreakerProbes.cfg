SPECIFICATION BreakerSpec
CONSTANTS
    Callers = {c1, c2, c3}
    FailureThreshold = 2
    SuccessThreshold = 2
    MaxHalfOpenRequests = 1
    Timeout = 1
    MaxTimeout = 3
    MaxPanics = 0
    c1 = c1
    c2 = c2
    c3 = c3
INVARIANT HalfOpenLimit
SYMMETRY CallerSymmetry
