SPECIFICATION PlanOnly
CONSTANTS
    MatchDets = {1, 2}
    MatchClusters = {1, 2, 3}
    MatchMax = 2
    MatchDelta = 2
    Width = 6
    Behind = 2
    Cameras = {0, 1}
    Margin = 1
    Dets = {1, 2}
    Boxes <- SceneBoxes
    Clusters = {1, 2}
    Shapes <- SceneShapes
    MinHits = 2
    MinRange = 1
    MaxRange = 3
    Limit = 12
    PersonLimit = 14
    MaxScore = 16
    Delta = 2
    Points <- ScenePoints
    MinPoints = 2
    Gate = 1
    Classes = {tank, tent}
    Places = {0, 1, 2, 3}
    Pixels = {0, 1}
    Views = {0, 2}
    MaxIds = 2
    Merge = 2
    Outlier = 1
    Confirm = 3
    Decay = 2
    Known = 1
    Stable = 1
    Cells = {1, 2, 3}
    Columns = {{}, {0}, {3}, {0, 3, 4}}
    Climb = 2
    MinHeight = 1
    Eps = 1
    MinSamples = 2
    MinSize = 2
    MaxPoints = 3
    PhoneClasses = {"rock"}
    Road = 2
    Sights = {1, 3}
    TrackMerge = 1
    Ttl = 1
    LockTtl = 2
    MaxTracks = 2
    TrackIds = 3
    Rocks = {2}
    RealTtl = 0
    PhoneTtl = 0
    Route = 5
    Sizes = {1, 3}
    Bias = 1
    MinPlace = 2
    MaxPlace = 3
    MinWall = 2
    MaxWall = 3
    Lookahead = 2
    MinLook = 1
    Stale = 2
    TurretStale = 2
    Path <- ScenePath
    Spots <- SceneSpots
    MaxFound = 2
    FinalTank <- SceneFinal
    Walls <- SceneWalls
    Ridges <- SceneRidges
    Anchor <- SceneAnchor
    Firebase <- SceneFirebase
    LastBase <- SceneLastBase
    GunMin = 2
    GunMax = 13
    Tactical = 7
    BestStatic = 11
    BestFinal = 9
    Exposed = 6
    Duplicate = 3
    Same = 3
    Fallbacks = 2
    Preferred = "A"
INVARIANT PlanShown
CHECK_DEADLOCK FALSE
