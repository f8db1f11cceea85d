SPECIFICATION FairSpec
CONSTANTS
    Requests = {"r1", "r2"}
    Accounts = {"a1", "a2"}
    NoAccount = "none"
    Max = 1
    MaxAttempts <- TwoAndOne
    Fallbacks <- OneFallback
    TTL = 1
    Retention = 1
    MaxFaults = 1
INVARIANTS CapacityHeld LeaseSettled MarkerCovers
PROPERTY EventuallySelectable
CHECK_DEADLOCK FALSE
