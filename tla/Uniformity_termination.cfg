CONSTANTS
    Ranks = {0, 1}
    MaxTurns = 2
    MaxStatements = 2
    Statements = {"storeTwo", "storeRank", "storeLast", "load", "ifLast", "for", "while", "barrier", "recv"}
    OtherStatements = {}
    WrittenNames = {"scattered", "ifResult", "carried", "carriedRank", "sum", "views", "select", "argument", "freed", "malloc", "mallocOrArgument", "merged", "elements", "copied", "waiting"}
SPECIFICATION MCSpec
PROPERTIES TerminatesSolver
CHECK_DEADLOCK FALSE
