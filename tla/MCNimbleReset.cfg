CONSTANTS
    Startup <- MCStartup
    Handles = {h1}
    MaxFaults = 2
    MaxQueue = 2
SPECIFICATION Spec
INVARIANTS
    ResetIsTold
CHECK_DEADLOCK FALSE
