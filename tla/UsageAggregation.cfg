SPECIFICATION Spec
CONSTANTS
    Rows = {1, 2}
    Users = {1}
    Owner <- SameOwner
    Cost <- TwoCosts
    Live = {1}
    Unrecorded = {2}
    Readers = {1}
    Edited = {}
    Resettable = {}
    Subscribed = {1}
    Deletable = {}
    RollLen = 1
    Settle = 0
    MaxAge = 2
    Limit = 2
    MaxTime = 2
    MaxFaults = 0
INVARIANTS CostExact UsageCoversPeriod
PROPERTY WindowForwardOnly
