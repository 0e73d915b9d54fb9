\* The margin is 2, so that of five positions two are away from the edges; an
\* int8_t holds -3..2, so that the longest moves wrap around.
CONSTANTS
    Sizes <- MCSizes
    Slides <- MCSlides
    OobDiv = 20
    OobMin = 2
    Int8Mod = 6
    MaxMoves = 3
SPECIFICATION Spec
INVARIANTS
    WarpNotTranslated
