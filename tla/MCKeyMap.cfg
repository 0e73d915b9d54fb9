\* The tables have no parameters.
SPECIFICATION KeyMapSpec
INVARIANTS
    PositionKept
    AcceptedIsTyped
