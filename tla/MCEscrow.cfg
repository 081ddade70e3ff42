SPECIFICATION FairSpec
CONSTANTS
    Players = {p1, p2}
    Authorities = {a1, a2}
    NoAuthority = NoAuthority
    MinClaimDelay = 1
    MaxClaimDelay = 2
    MaxRefundDelay = 3
    MaxU64 = 3
    SessionIdReused = FALSE
    Amounts = {1, 2}
    Roots <- MCRoots
    MaxDonation = 1
    MaxSlot = 4
INVARIANTS
    VaultSolvent PaidOnce RefundsCover
PROPERTY MoneyComesOut
CHECK_DEADLOCK FALSE
