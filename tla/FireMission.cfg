CONSTANTS
    NStages = 2
    Homes = {h1, h2}
    AlignStages <- FirstStage
    Fallbacks <- OneFallback
    MaxShots = 2
    MaxRefire = 1
    RequireBullet = TRUE
    LowerBarrel = TRUE
    CenterTurret = TRUE
    ReturnEnabled = TRUE
    ShotBound = 4
SPECIFICATION FairSpec
INVARIANTS ShotAccounting ResultsEarned LegsKept
PROPERTIES ImplementsLegs TimedPhasesEnd AbortGoesHome
