SPECIFICATION Spec
CONSTANTS
    Attempts = {a1, a2, a3}
    Counters = {"rpm", "tpm"}
    Limit <- Limits
    Cost <- Costs
    Window = 2
    NumLeases = 2
    LeaseLimit <- LeaseLimits
    TTL = 2
    MaxRetries = 1
    MaxTime = 2
    MaxFaults = 1
    a1 = a1
    a2 = a2
    a3 = a3
SYMMETRY AttemptSymmetry
INVARIANTS NeverOvercounts CountsEveryGrant LeasesBounded NoLeaseLeft
