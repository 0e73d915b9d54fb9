\* The keyboard: a key that is typed with shift, and two faults, which let a
\* command be cut short or forgotten and the device come back.  The mouse: one
\* fault.
CONSTANTS
    Commands <- MCCommands
    NDev = 1
    DownCap = 4
    UpCap = 1
    MaxFaults = 2
    Keys = {65}
    BadKey = 0
    Usages = {4}
    Modifiers = {"lshift"}
    UsageOf <- MCUsageOf
    ModsOf <- MCModsOf
    NSlots = 1
    ButtonArgs <- MCButtonArgs
    NotifyMayFail = TRUE
SPECIFICATION MCSpec
INVARIANTS
    StuckIsTold
    StatusIsTrue
PROPERTIES
    AckLifts
    LinkSpec
