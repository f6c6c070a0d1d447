CONSTANTS
    TypeOrder <- OneType
    NumRanks = 0
    MaxOps = 3
    Branches = {"forMV", "for2"}
    UsedClasses <- BcastOnly
    CommPrefixes <- OneWorld
    SeveralOps = 0
    SeveralBranches = {}
SPECIFICATION MCSpec
INVARIANT UnknownLoopsReported
CHECK_DEADLOCK FALSE
