SPECIFICATION FairSpec
CONSTANTS
    Pids = {1, 2, 3}
    Timeout = 2
    MaxPassed = 2
    NotWaiting = NotWaiting
INVARIANTS
    TypeOK
    LedTellsLine
    OneStopProgram
PROPERTIES
    CloseEnds
\* The window may be closed.
CHECK_DEADLOCK FALSE
