CONSTANTS
    TypeOrder <- OneType
    NumRanks = 0
    MaxOps = 5
    Branches = {"ifMV", "for1"}
    UsedClasses <- BcastOnly
    CommPrefixes <- OneWorld
    DeepOps = 0
    DeepBranches = {}
    Ranks = {r1, r2}
    MaxTrip = 2
SPECIFICATION MCSpecUnslotted
SYMMETRY RankSymmetry
INVARIANT AcceptedRunsMatch
CHECK_DEADLOCK FALSE
