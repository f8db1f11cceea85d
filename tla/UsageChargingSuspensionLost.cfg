SPECIFICATION FairSpec
CONSTANTS
    Users = {1, 2}
    Costs = {1}
    InitialBalance = 0
    Chargers = {"c1"}
    Limit = 2
    MaxBatch = 1
    LowThreshold = 1
    Codes = {}
    CodeValue = 2
    MaxRedemptions = 1
    Admins = {}
    AdminAmounts = {1}
    Deletable = {1}
    MaxRows = 2
    MaxAdjusts = 0
    MaxFaults = 0
PROPERTY OverdrawnSuspended
