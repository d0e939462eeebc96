SPECIFICATION Spec
CONSTANTS
    r1 = r1
    r2 = r2
    h1 = h1
    h2 = h2
    h3 = h3
    h4 = h4
    None = None
    Relays <- TwoRelays
    Hosts <- FourHosts
    Configured <- ThreeHosts
    Allowed <- ThreeHosts
    Installed <- TwoHosts
    Requests <- InTwoWaves
    MaxStreams = 3
    MaxFaults = 1
SYMMETRY Symmetry
CHECK_DEADLOCK FALSE
INVARIANTS
    ResumeHonest
