\* Every batch of four transactions of two customers.
SPECIFICATION Spec
CONSTANTS
    Count = 4
    Customer = {c, d}
    Invoice = {1, 3}
    NoInvoice = NoInvoice
INVARIANTS EachOnce PairsFit NothingLeft ClosestTaken
PROPERTY RefinesGrouping
CHECK_DEADLOCK FALSE
