CONSTANTS
    TypeOrder <- TwoTypes
    NumRanks = 0
    MaxOps = 4
    Branches = {"ifMV", "ifSV", "forMV", "forSV", "for1", "for2MV"}
    UsedClasses <- BcastIreduce
    CommPrefixes <- OneWorld
    DeepOps = 5
    DeepBranches = {"ifMV", "ifSV", "for2"}
    Ranks = {r1, r2}
    MaxTrip = 2
SPECIFICATION MCSpecCountable
SYMMETRY RankSymmetry
INVARIANT AcceptedRunsMatch
CHECK_DEADLOCK FALSE
