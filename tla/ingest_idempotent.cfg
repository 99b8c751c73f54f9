CONSTANTS
    pr = pr
    h1 = h1
    h2 = h2
    alice = alice
    None = None
    PRs <- OnePR
    Handlers <- TwoHandlers
    Users <- OneUser
    MaxDeliveries = 1
    MaxReceipts = 2
    MaxFaults = 0
SPECIFICATION Spec
INVARIANT RepeatedDeliveryIdempotent
