SPECIFICATION Spec
CONSTANTS
    Players = {p1, p2}
    Authorities = {a1, a2}
    NoAuthority = NoAuthority
    MinClaimDelay = 1
    MaxClaimDelay = 2
    MaxRefundDelay = 3
    MaxU64 = 3
    SessionIdReused = TRUE
    Amounts = {1, 2}
    Roots <- MCRoots
    MaxDonation = 1
    MaxSlot = 5
INVARIANTS
    RefundsCover
CHECK_DEADLOCK FALSE
