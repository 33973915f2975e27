CONSTANTS
    Road = 2
    Goals = {0, 2}
    StopFresh = 1
    StopTol = 2
    PreMargin = 1
    Teleport = 1
    StuckPeriod = 1
    EscapeTurn = 1
    PreHold = 2
    Inhibit = 1
    OvTtl = 1
    ExitOnGoal = FALSE
    None = None
    Lock = 2
    Window = 6
    Threshold = 3
    Hold = 4
    ApfMax = 3
    ApfCool = 2
    SharpMax = 3
    SharpCool = 2
    AwayLock = 3
    Spots = {1, 2}
    Stale = 1
    Dwell = 2
    Cool = 2
    HomeDelay = 1
    ReverseHold = 1
SPECIFICATION DriveSpec
CHECK_DEADLOCK FALSE
INVARIANT HullStops
PROPERTIES
    HeldPlaceIsKept
    StampedStuckEnds
    DriveIsSteady
