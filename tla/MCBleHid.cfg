\* Two keys share a usage; two slots instead of six, so that the report fills
\* up.  All button numbers, 4 standing for the side buttons the firmware
\* refuses; the mouse keeps moving.
CONSTANTS
    Keys <- MCKeys
    BadKey = "bad"
    Usages = {4, 5}
    Modifiers = {"lshift"}
    UsageOf <- MCUsageOf
    ModsOf <- MCModsOf
    NSlots = 2
    ButtonArgs = {0, 1, 2, 3, 4}
    NotifyMayFail = TRUE
SPECIFICATION MCSpec
INVARIANTS
    TypeOK
    NoDuplicateUsage
    StuckOnlyByRefusedRelease
    HostInSync
    CloseReleases
PROPERTIES
    HostChangesMatchCommand
    MotionRepairs
