SPECIFICATION Spec
CONSTANTS
    i1 = i1
    i2 = i2
    i3 = i3
    f1 = f1
    f2 = f2
    None = None
    Ids <- IdsTwo
    Flakelets <- FlakeletsOne
    MaxJobs = 9
    KeepJobs = 1
    KeepLogs = 0
    LogCap = 1
    Faults <- EveryFault
    MaxClock = 0
    MaxAccepts = 2
    MaxCrashes = 1
    MaxLines = 0
    MaxChanges = 0
SYMMETRY Symmetry
VIEW WithoutByFile
INVARIANTS
    OneTaskPerFlakelet
    NoJobLost
