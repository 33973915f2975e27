CONSTANTS
    None = none
    Home = h
    Missions = {c1, c2, h}
    Detours = {d}
    Externals = {x}
    LegacyGoal = x
    RouteGoal = c2
    ClosePairs = {{c1, d}, {c2, d}}
    AcceptExternal = TRUE
    UseWaypoints = TRUE
    Dynamic = TRUE
    Periodic = FALSE
    UseGt = TRUE
SPECIFICATION Spec
INVARIANTS GoalIsOwned OneWorker RoutesServe
