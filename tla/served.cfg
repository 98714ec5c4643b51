\* A lock, its accessory, which alone is a product nobody knows, and one that cannot
\* be read: webhooks that come twice, and one failure anywhere.
CONSTANTS
    lock = lock
    part = part
    unknown = part
    bare = bare
    bigc = bigc
    declined = declined
    Txn = {lock, part, bare}
    BigCommerce = {}
    NotApproval = {}
    MaxFaults = 1
    Hook = hook
    Request = {}
    MaxDeliveries = 2
    Run = {r1}
    Combine <- Combined
    Unknown <- Unmatched
    Undescribed = {bare}
SPECIFICATION FairSpec
PROPERTIES SettledIsServed
