SPECIFICATION FairSpec
CONSTANTS
    Tables = {{1, 4}, {1, 4, 6}}
    Stacks = {1, 4, 7}
    SmallBlind = 1
    BigBlind = 2
    Antes = {0, 1}
    Straddles = {0, 4}
    Games = {"NLH", "PLO4"}
INVARIANTS
    ChipsConserved NextActorExists StreetsEndRight IncreaseIsPossible HandSettles
PROPERTIES
    ShortAllInDoesNotReopen HandEnds
CHECK_DEADLOCK FALSE
