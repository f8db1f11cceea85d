SPECIFICATION GateSpec
CONSTANTS
    UserRequests = {1, 2}
    Estimate <- TwoEstimates
    InitialBalance = 3
    MaxAttempts = 2
    MaxFallbacks = 0
    TTL = 2
    GateMaxTime = 0
    MaxFaults = 0
INVARIANT SpansRequest
