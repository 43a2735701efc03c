CONSTANTS
    EightK = 2
    ThreeK = 1
    FiveK = 2
    FillLevels = {0, 3}
    Joint = {}
    OwnTun = {}
    SCHEDULE_FRAMES = 4
    SLOT_FRAMES = 1
    Early = 1
    Tol = 0
    Ahead = 2
    DropEarly = 1
    DumpOld = 2
    BusyFrames = 1
    MaxSendLowLoops = 0
    MaxZerosWaiting = 1
    MaxNow = 0
    UserUnits = 2
    TriggerWarmup = FALSE
    MaxNormal = 2
    MaxRb = 2
    Budgets <- LiveBudget
SPECIFICATION LiveSpec
PROPERTIES
    RecoveryEnds
    NormalDrainsOrLowHasThePort
