\* Three connections: one served, one that waits and one more that was given up.
CONSTANTS
    Clients = {c1, c2}
    c2 = c2
    NConns = 3
    Backlog = 2
    MaxEvents = 2
SPECIFICATION MCSpec
INVARIANTS
    TypeOK
    NoSigpipe
    AnswersInStep
    AnsweredExecuted
PROPERTIES
    EventsReturn
    Delivers
