SPECIFICATION Spec
CONSTANTS
    Users = {1}
    Costs = {1}
    InitialBalance = 1
    Chargers = {"c1"}
    Limit = 2
    MaxBatch = 1
    LowThreshold = 1
    Codes = {}
    CodeValue = 2
    MaxRedemptions = 1
    Admins = {"a1"}
    AdminAmounts = {1}
    Deletable = {}
    MaxRows = 1
    MaxAdjusts = 1
    MaxFaults = 0
INVARIANT LedgerChainAtRest
