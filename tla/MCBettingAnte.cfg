SPECIFICATION Spec
CONSTANTS
    Tables = {{1, 4, 6}}
    Stacks = {1, 4, 7}
    SmallBlind = 1
    BigBlind = 2
    Antes = {2}
    Straddles = {0}
    Games = {"NLH"}
INVARIANT HandSettles
CHECK_DEADLOCK FALSE
