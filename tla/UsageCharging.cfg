SPECIFICATION Spec
CONSTANTS
    Users = {1, 2}
    Costs = {1}
    InitialBalance = 1
    Chargers = {"c1", "c2"}
    Limit = 2
    MaxBatch = 1
    LowThreshold = 1
    Codes = {1}
    CodeValue = 2
    MaxRedemptions = 1
    Admins = {}
    AdminAmounts = {1}
    Deletable = {1}
    MaxRows = 3
    MaxAdjusts = 0
    MaxFaults = 1
INVARIANTS NoDoubleCharge ChargedIffBilled LedgerChain BalanceExplained
PROPERTY ImplementsSettlement
