CONSTANTS
    TypeOrder <- OneType
    NumRanks = 2
    MaxOps = 4
    Branches = {"ifSV"}
    UsedClasses <- BcastOnly
    CommPrefixes <- OneWorld
    CondNames = {"gt0", "gt1"}
    OtherCondNames = {}
    Builds = {"release"}
    Stale <- StaleValues
    Ranks = {0, 1}
SPECIFICATION MCSpecPipe
INVARIANT CoveredRanksCall
CHECK_DEADLOCK FALSE
