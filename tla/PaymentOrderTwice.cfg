SPECIFICATION Spec
CONSTANTS
    Jobs = {j1, j2}
    Amount = 1
    RefundAmounts = {1}
    Products = {"balance_credit"}
    MaxRefunds = 1
    MaxFaults = 0
    j1 = j1
    j2 = j2
INVARIANT CreditedIdempotently
CHECK_DEADLOCK FALSE
