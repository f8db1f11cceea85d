SPECIFICATION Spec
CONSTANTS
    Jobs = {j1, j2}
    Amount = 2
    RefundAmounts = {1, 2}
    Products = {"balance_credit", "subscription_plan"}
    MaxRefunds = 1
    MaxFaults = 1
    j1 = j1
    j2 = j2
SYMMETRY JobSymmetry
INVARIANTS MoneyMoved FulfilledDelivered CreditedOnce ClawbackBounded PaidNotLost
CHECK_DEADLOCK FALSE
