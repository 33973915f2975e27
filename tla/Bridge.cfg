SPECIFICATION ProcessSpec
CONSTANTS
    MinHold = 1
    MaxHold = 2
    SignalTtl = 1
    Cooldown = 1
    Depth = 1
    MaxPlans = 1
    CmdTtl = 0
    Kinds = {"obstacle", "bullet", "action"}
    Threads = {1, 2}
    MaxCalls = 2
    Workers = {w1, w2}
    PhoneThreads = {p1}
    MaxFrames = 3
    MaxPhone = 2
    Phone = phone
    NoPicture = none
INVARIANT BridgeSafe
PROPERTIES
    StopGetsThrough
    BrakeLetsGo
    StateTopicHeals
    SwitchHeals
    FramesAnswered
CHECK_DEADLOCK FALSE
