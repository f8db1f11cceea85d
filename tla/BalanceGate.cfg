SPECIFICATION GateSpec
CONSTANTS
    UserRequests = {1, 2, 3}
    Estimate <- Estimates
    InitialBalance = 3
    MaxAttempts = 2
    MaxFallbacks = 1
    TTL = 2
    GateMaxTime = 2
    MaxFaults = 1
INVARIANTS NoOverReservation FirstAttemptCovered NothingLeftBehind
