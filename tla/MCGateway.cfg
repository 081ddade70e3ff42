SPECIFICATION FairSpec
CONSTANTS
    p = p
    q = q
    g = g
    Wallets = {p, q, g}
    Operators = {q}
    MaxUses = 2
    Seats = 3
    MaxAttempts = 3
    Starts <- MCStarts
    Player = p
PROPERTIES RefusedIsNotSeated CatchesUp CardsArrive CommandsAnswered
CHECK_DEADLOCK FALSE
