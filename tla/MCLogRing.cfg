\* Four slots, windows from no line to more lines than entries.
CONSTANTS
    N = 4
    Msgs <- MCMsgs
    LenOf <- MCLenOf
    Lines = {0, 2, 4}
SPECIFICATION Spec
INVARIANTS
    TypeOK
    TextFits
    ScreenIsCurrent
PROPERTIES
    KeepsNewest
