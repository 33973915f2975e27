CONSTANTS
    NStages = 2
    Homes = {h1, h2}
    AlignStages = {}
    Fallbacks <- OneFallback
    MaxShots = 2
    MaxRefire = 1
    RequireBullet = FALSE
    LowerBarrel = FALSE
    CenterTurret = FALSE
    ReturnEnabled = TRUE
    ShotBound = 4
SPECIFICATION Spec
INVARIANTS ShotsAreSound
