SPECIFICATION FairSpec
CONSTANTS
    h1 = h1
    app = app
    t1 = t1
    None = None
    Hosts <- OneHost
    Flakelets <- OneFlakelet
    Principals <- Both
    Rules <- GroupRule
    Queries <- NotWell
    Tabs <- OneTab
    Live <- EveryPage
    ChannelCap = 1
    MaxDeploys = 2
    MaxSwitches = 1
    MaxDrops = 1
    MaxRestarts = 1
INVARIANTS
    TypeOK
    RetryOnlyFailed
PROPERTIES
    PageFollows
    StreamTaskEnds
