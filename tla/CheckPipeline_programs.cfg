CONSTANTS
    TypeOrder <- OneType
    NumRanks = 3
    MaxOps = 4
    Branches = {"ifSV", "forSV", "whileSV"}
    UsedClasses <- BcastOnly
    CommPrefixes <- OneWorld
    CondNames = {"uniform", "eq0", "eq2", "or01", "or0P"}
    OtherCondNames = {"uniform", "opaque", "parity", "eq0", "gt0", "eqU", "eqV", "or01", "or0U", "or0P", "orNE", "orLT"}
    Builds = {"debug", "release"}
    Stale <- StaleValues
    Ranks = {0, 1, 2}
SPECIFICATION MCSpecPipe
INVARIANTS TypeOKMV AllUndivided InnermostLabels LabelsExact CoveredRanksCallExact MVnessDefined
PROPERTIES PassedUntouched
CHECK_DEADLOCK FALSE
