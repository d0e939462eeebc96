SPECIFICATION FairSpec
CONSTANTS
    i1 = i1
    d1 = d1
    q1 = q1
    c1 = c1
    c2 = c2
    None = None
    Ids <- OneId
    Conns <- TwoConns
    Deploys <- OneDeploy
    Watches <- OneWatch
    Targets <- AllOnOne
    After <- AnyTime
    EventCap = 9
    MaxQueue = 2
    MaxLines = 0
    MaxDrops = 0
    MaxRestarts = 0
CHECK_DEADLOCK FALSE
PROPERTIES
    StreamsEnd
