CONSTANTS
    None = none
    Hyst = 2
    MaxThreats = 2
    ExecuteReturn = TRUE
    Home = h
    Missions = {c1, h}
    Detours = {}
    Externals = {}
    LegacyGoal = c1
    RouteGoal = c1
    ClosePairs = {}
    AcceptExternal = FALSE
    UseWaypoints = FALSE
    Dynamic = TRUE
    Periodic = FALSE
    UseGt = FALSE
SPECIFICATION ChainSpec
PROPERTIES ReturnDeserved ReturnArrives
