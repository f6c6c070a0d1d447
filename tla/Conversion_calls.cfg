CONSTANTS
    TypeOrder <- AllTypes
    Programs = {"splits", "devices", "teams", "mixedTeams", "teamDevices", "requests", "groups", "regroups", "memory", "openmp", "noMain"}
    MaxCalls = 4
SPECIFICATION MCSpecConversion
INVARIANTS TypeOKConversion ConvertedWellFormed CommunicatorMeant CallsDeclared WaitsMeant BlocksAsMeant
CHECK_DEADLOCK FALSE
