\* A transaction of the site, one that was declined and one of BigCommerce, two
\* requests of the operator, one failure anywhere.
CONSTANTS
    lock = lock
    part = part
    unknown = unknown
    bare = bare
    bigc = bigc
    declined = declined
    Txn = {lock, declined, bigc}
    BigCommerce = {bigc}
    NotApproval = {declined}
    MaxFaults = 1
    Hook = hook
    Request = {q1, q2}
    MaxDeliveries = 1
    Run = {r1}
    Combine <- Combined
    Unknown <- Unmatched
    Undescribed = {}
SPECIFICATION Spec
INVARIANTS OneOrder ProcessedHasOrder OnlyPaidShipped StrayIsHeld
PROPERTIES CustodyKept
SYMMETRY RequestSymmetry
