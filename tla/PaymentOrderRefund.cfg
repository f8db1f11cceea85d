SPECIFICATION Spec
CONSTANTS
    Jobs = {j1}
    Amount = 1
    RefundAmounts = {1}
    Products = {"balance_credit"}
    MaxRefunds = 1
    MaxFaults = 1
    j1 = j1
INVARIANT DebitedOnlyIfCredited
CHECK_DEADLOCK FALSE
