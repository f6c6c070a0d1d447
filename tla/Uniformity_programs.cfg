CONSTANTS
    Ranks = {0, 1}
    MaxTurns = 2
    MaxStatements = 3
    Statements = {"storeTwo", "storeRank", "storeIv", "storeLast", "load", "ifRank", "ifLast", "for", "while", "bcast"}
    OtherStatements = {"storeRank", "load", "add", "ifRank", "ifLast", "for", "forRank", "while"}
    WrittenNames = {"ifResult", "carried", "carriedRank", "sum", "views", "select", "argument", "freed", "malloc", "mallocOrArgument"}
SPECIFICATION MCSpec
INVARIANTS TypeOKUniformity DefinitionsSettled UniformAgrees LastWriterReaches OnlyLastWriterReaches AllInitialized UniformWithoutRank Settled NotDivergentTogether SingleValuedTogether
CHECK_DEADLOCK FALSE
