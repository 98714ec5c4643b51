CONSTANTS
    Order = {a}
    HasTxn = {a}
    Part = {front, back}
    Lists <- OwnOrders
    InOrder = FALSE
    MaxHooks = 4
    MaxRefunds = 1
    MaxRepeats = 1
    MaxFaults = 0
SPECIFICATION Spec
INVARIANTS PartialRefundKeepsOrder
CHECK_DEADLOCK FALSE
