SPECIFICATION FairSpec
CONSTANTS
    Songs <- MCSongs
    Pids = {1, 2, 3}
INVARIANTS
    TypeOK
    PidIsPlayer
    HandlerReturns
PROPERTIES
    PlaysOn
\* The window may be closed.
CHECK_DEADLOCK FALSE
