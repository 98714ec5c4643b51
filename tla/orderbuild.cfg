\* Two pairs and a single transaction, settled or not, of any product.
SPECIFICATION Spec
CONSTANTS
    Groups <- MCGroups
    Price <- MCPrice
    Tables <- MCTables
INVARIANTS AmountIsSum EachGroupOnce 
CHECK_DEADLOCK FALSE
