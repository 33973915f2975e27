SPECIFICATION AimSpec
CONSTANTS
    Reach = 5
    YawTol = 1
    Gate = 2
    Top = 2
    PitchTol = 1
    Margin = 1
    MinError = 2
    Goals = {2, 3, 4}
    BrakeTime = 1
    ObserveTime = 1
    StableTime = 1
    StallTime = 2
    Ttl = 2
    MaxDelay = 1
    Slow = 6
    MaxMoves = 1
INVARIANTS ShotOnTarget EndstopIsReal
PROPERTY AimEnds
