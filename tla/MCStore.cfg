SPECIFICATION MCFairSpec
CONSTANTS
    Key = {a}
    Path = {p, q}
    WalkawayTtl = 1
    BanDuration = 2
    Cooldown = 2
    ReportKeep = 2
    BanCountKeep = 2
    Window = 1
    MaxPaths = 1
    MaxTime = 3
    MaxCount = 2
    MaxBans = 2
    MaxCrashes = 2
    MaxFailures = 1
    Persistent = TRUE
    NoFile = NoFile
    Torn = Torn
INVARIANTS CrashLosesNothing BanOutlivesCrash
PROPERTIES ReportsSpaced CleaningUnseen SavedBansReachDisk
