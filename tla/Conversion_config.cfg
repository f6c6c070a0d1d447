CONSTANTS
    TypeOrder <- AllTypes
    Programs = {"devices"}
    MaxCalls = 3
SPECIFICATION MCSpecConversion
INVARIANTS ConfigurationKept
CHECK_DEADLOCK FALSE
