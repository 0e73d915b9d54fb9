CONSTANTS
    Startup <- MCStartup
    Handles = {h1, h2}
    MaxFaults = 3
    MaxQueue = 2
SPECIFICATION FairSpec
INVARIANTS
    Agree
    HasData
PROPERTIES
    SyncInStep
    Reachable
CHECK_DEADLOCK FALSE
