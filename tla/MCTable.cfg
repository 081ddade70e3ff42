SPECIFICATION Spec
CONSTANTS
    SeatNumbers = {0, 1, 2}
    BuyIns = {1, 3}
    SmallBlind = 1
    BigBlind = 2
    Ante = 1
    Rake <- MCRake
    Game = "ROE"
    RoeHandsPerGame = 1
    MaxHands = 2
    MaxSeated = 3
    MaxRequests = 3
INVARIANTS
    ChipsAccounted LeaversGone HandCanGoOn
PROPERTY
    DealtAsWished
CHECK_DEADLOCK FALSE
