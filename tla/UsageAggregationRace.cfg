SPECIFICATION FairSpec
CONSTANTS
    Rows = {1, 2}
    Users = {1}
    Owner <- SameOwner
    Cost <- TwoCosts
    Live = {1, 2}
    Unrecorded = {}
    Readers = {}
    Edited = {1}
    Resettable = {1}
    Subscribed = {1}
    Deletable = {1}
    RollLen = 1
    Settle = 0
    MaxAge = 2
    Limit = 2
    MaxTime = 2
    MaxFaults = 1
INVARIANTS AppliedOnce CostExact
PROPERTY EventuallyAggregated
