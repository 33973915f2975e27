CONSTANTS
    None = none
    Home = h
    Missions = {c1}
    Detours = {}
    Externals = {}
    LegacyGoal = c1
    RouteGoal = c1
    ClosePairs = {}
    AcceptExternal = FALSE
    UseWaypoints = TRUE
    Dynamic = TRUE
    Periodic = FALSE
    UseGt = FALSE
SPECIFICATION FairSpec
PROPERTY ReturnRecovers
