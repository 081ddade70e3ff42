SPECIFICATION FairSpec
CONSTANTS
    Players = {p1, p2}
    Workers = {w1, w2}
    NoTurn = NoTurn
    NoRow = NoRow
    NoOwner = NoOwner
    NotRecovering = NotRecovering
    ActionClock = 1
    TimeBank = 2
    LeaseTime = 1
    MaxVersion = 4
    MaxCrashes = 1
INVARIANTS
    RowIsTurn BankSpentOnce
PROPERTIES
    TimesOutItsClaim OverdueResolved
CHECK_DEADLOCK FALSE
