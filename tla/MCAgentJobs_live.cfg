SPECIFICATION FairSpec
CONSTANTS
    i1 = i1
    i2 = i2
    i3 = i3
    f1 = f1
    f2 = f2
    None = None
    Ids <- IdsTwo
    Flakelets <- FlakeletsOne
    MaxJobs = 1
    KeepJobs = 1
    KeepLogs = 9
    LogCap = 1
    Faults <- LaunchFault
    MaxClock = 1
    MaxAccepts = 3
    MaxCrashes = 2
    MaxLines = 1
    MaxChanges = 0
PROPERTIES
    EveryJobFinishes
