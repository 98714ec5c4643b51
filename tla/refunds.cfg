\* Redelivered refunds, a failure anywhere, orders that share a prefix, one
\* of them of the BigCommerce webhook.
SPECIFICATION Spec
CONSTANTS
    Order <- MCOrder
    Event = {"r", "s", "b"}
    Number <- MCNumber
    OrderOf <- MCOrderOf
    NumberOf <- MCNumberOf
    FromShop = {"o123"}
    Undefined = "undefined"
    Invoice <- MCInvoice
    Under <- MCUnder
    Amount <- MCAmount
    Settle <- MCSettle
    NoAmount = NoAmount
    BigCommerce = {"b"}
    MaxDeliveries = 2
    MaxFaults = 2
INVARIANTS RefundsAddUp OncePerDelivery FoundIsTaken
PROPERTIES ImplementsLedger ListedIsSettled
CHECK_DEADLOCK FALSE
