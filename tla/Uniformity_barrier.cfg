CONSTANTS
    Ranks = {0, 1}
    MaxTurns = 2
    MaxStatements = 2
    Statements = {"storeRank", "barrier"}
    OtherStatements = {}
    WrittenNames = {}
SPECIFICATION MCSpec
INVARIANTS UniformAgrees
CHECK_DEADLOCK FALSE
