CONSTANTS
    TypeOrder <- OneType
    NumRanks = 0
    MaxOps = 5
    Branches = {"ifMV", "ifSV", "forMV", "for2", "whileSV"}
    UsedClasses <- BcastOnly
    CommPrefixes <- OneWorld
    SeveralOps = 4
    SeveralBranches = {"ifMV", "for0"}
SPECIFICATION MCSpec
INVARIANTS TypeOK SlotsInBounds FiledInSlot FiledOnce CausesDivergent ReportedOnce VerdictExact
PROPERTY Terminates
CHECK_DEADLOCK FALSE
