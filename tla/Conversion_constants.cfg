CONSTANTS
    TypeOrder <- AllTypes
    Programs = {"devices"}
    MaxCalls = 3
SPECIFICATION MCSpecConversion
INVARIANTS ArgumentsMeant
CHECK_DEADLOCK FALSE
