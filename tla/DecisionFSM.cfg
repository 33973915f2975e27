CONSTANTS
    Targets = {t1, t2}
    NoTarget = none
    Cooldown = 3
    Timeout = 4
    AimTime = 2
    Outcomes = {TRUE, FALSE}
    MaxInFlight = 2
SPECIFICATION FairSpec
INVARIANT EngagementsSound
PROPERTIES DeadlineFreesTheTank ReturnHolds
