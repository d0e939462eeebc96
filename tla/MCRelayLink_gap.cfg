SPECIFICATION Spec
CONSTANTS
    i1 = i1
    d1 = d1
    q1 = q1
    c1 = c1
    c2 = c2
    None = None
    Ids <- OneId
    Conns <- TwoConns
    Deploys <- OneDeploy
    Watches <- NoWatch
    Targets <- AllOnOne
    After <- AnyTime
    EventCap = 9
    MaxQueue = 2
    MaxLines = 2
    MaxDrops = 1
    MaxRestarts = 0
CHECK_DEADLOCK FALSE
INVARIANTS
    StreamComplete
