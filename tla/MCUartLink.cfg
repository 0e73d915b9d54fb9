\* Three faults: enough for an answer given up, a command cut short and a restart.
\* When they are over, the user, the program and the firmware go on.
CONSTANTS
    Commands <- MCCommands
    NDev = 2
    DownCap = 4
    UpCap = 2
    MaxFaults = 3
SPECIFICATION FairSpec
INVARIANTS
    TypeOK
    FramingNeedsNoAnswers
    OnlyPingsSwallowed
    Lockstep
    AnswersInStep
PROPERTIES
    Recovers
