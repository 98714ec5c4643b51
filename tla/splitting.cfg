\* Any three products with up to three pieces of each, any of them extra parts.
SPECIFICATION Spec
CONSTANTS
    Product = {"safe", "rack", "battery"}
    List <- MCList
    Price <- MCPrice
    Tax <- MCTax
    Shipping <- MCShipping
    Weight <- MCWeight
    MaxQuantity = 3
INVARIANTS PiecesAddUp AmountPaidIsWhole PartsTravelAlone
CHECK_DEADLOCK FALSE
