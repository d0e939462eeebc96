SPECIFICATION Spec
CONSTANTS
    i1 = i1
    i2 = i2
    i3 = i3
    f1 = f1
    f2 = f2
    None = None
    Ids <- IdsThree
    Flakelets <- FlakeletsOne
    MaxJobs = 2
    KeepJobs = 1
    KeepLogs = 0
    LogCap = 1
    Faults <- NoFaults
    MaxClock = 0
    MaxAccepts = 3
    MaxCrashes = 1
    MaxLines = 2
    MaxChanges = 1
SYMMETRY Symmetry
INVARIANTS
    TypeOK
    OneTaskPerFlakelet
    NoJobLost
    UnitWatched
    RunOnce
    LogsFollowCursor
    DiskAgrees
    KnownIdReplays
PROPERTIES
    LedgerSpec
    NobodyOvertaken
