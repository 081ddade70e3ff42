SPECIFICATION PayoutSpec
CONSTANTS
    Players = {1, 4, 6}
    MaxContribution = 3
    Ranks = {1, 2, 3}
    Button = 4
    Rakes <- MCRakes
INVARIANTS
    SettlementConserves NobodyWinsMoreThanCovered BestHandCollects OddChipsClockwise
CHECK_DEADLOCK FALSE
