\* A known and an unknown product, webhooks that come twice and no failures.
CONSTANTS
    lock = lock
    part = part
    unknown = unknown
    bare = bare
    bigc = bigc
    declined = declined
    Txn = {lock, unknown}
    BigCommerce = {}
    NotApproval = {}
    MaxFaults = 0
    Hook = hook
    Request = {}
    MaxDeliveries = 2
    Run = {r1}
    Combine <- Combined
    Unknown <- Unmatched
    Undescribed = {}
SPECIFICATION FairSpec
PROPERTIES KnownProductShips
