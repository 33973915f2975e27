CONSTANTS
    Cols = 4
    Rows = 3
    From <- SceneFrom
    Via <- SceneVia
    To <- SceneTo
    Budgets = {5, 100}
    Desired = 2
    Weight = 350
    Bound = 1
    SideWeight = 600
    Rough <- SceneRough
    Unit = 1000
    Diagonal = 1414
    Root <- SceneRoot
    Excess = 0
    Lanes = {0, 2, 4}
    Things = {1, 4}
    Inflate = 1
    Margin = 2
    Merge = 2
    Match = 0
    Ttl = 1
    MaxMemory = 3
    MaxHistory = 1
    Hits = 2
    Cooldown = 2
    FastCooldown = 1
    Guard = 2
    Waypoints <- SceneWaypoints
    Home <- SceneHome
    Places <- ScenePlaces
    Missions <- SceneMissions
    Detours <- SceneDetours
    Reached = 8
    Passed = 3
    PassedTol = 1
    Segments = {4, 10, 20}
    Corners = 3
    Tangents = {4, 6}
    Brake = 12
    Lengths = {2, 4}
    MaxVersion = 4
    Points <- ScenePoints
    Boxes <- SceneBoxes
    Threat <- SceneThreat
    Length = 2
    MaxDistance = 6
    Corridor = 2
    SideSafety = 2
    ThreatRadius = 6
    Watch = 6
    Caution = 4
    Danger = 3
    SidePass = 2
    HardClose = 1
    North = TRUE
    Activate = 4
    MaxPoints = 1
    BlockedTicks = 2
    ClearTicks = 2
    MaxRounds = 1
    LiveView = TRUE
SPECIFICATION RoutesSpec
INVARIANTS
    RouteSound
    LegsServeGoal
PROPERTIES
    BlocksAnswered
    NoStepBack
    AdviceIsEarned
    ChoiceIsShown
CHECK_DEADLOCK FALSE
