SPECIFICATION MCSpec
CONSTANTS
    Key = {a}
    Caller = {v, w}
    WalkawayTTL = 1
    BanTime = 2
    Cooldown = 2
    BanMemory = 1
    PathTime = 1
    MaxPaths = 2
    MaxTime = 4
    MaxSent = 4
SYMMETRY Symmetric
INVARIANTS ReportsSpaced BansAnswered CountsGrow BanCountsEnd
CHECK_DEADLOCK FALSE
