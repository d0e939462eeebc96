SPECIFICATION Spec
CONSTANTS
    r1 = r1
    r2 = r2
    None = None
    Reqs <- TwoReqs
    Order <- OneName
    Accepts <- BothAudiences
    Published <- Replace
    Tokens <- Few
    Refresh = 2
    Retry = 1
    MaxStale = 3
    Leeway = 0
    Latency = 1
    MaxTime = 5
    MaxFails = 2
    MaxRestarts = 1
SYMMETRY Symmetry
INVARIANTS
    TypeOK
PROPERTIES
    WithdrawnKeyRefused
    NewKeyAccepted
    OutageSurvived
