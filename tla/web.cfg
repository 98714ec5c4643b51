\* Three hooks in order, one of them repeated, two failures or restarts.
CONSTANTS
    Order = {a}
    HasTxn = {a}
    Part = {front, back}
    Lists <- OwnOrders
    InOrder = TRUE
    MaxHooks = 3
    MaxRefunds = 1
    MaxRepeats = 1
    MaxFaults = 2
SPECIFICATION FairSpec
INVARIANTS ProcessedComplete MadeOnce AttemptRecorded
PROPERTIES ImplementsParcels PaidIsHandled RefundReachesOrders ClosedIsCancelled
CHECK_DEADLOCK FALSE
