SPECIFICATION FairSpec
CONSTANTS
    Docks = {d1, d2, d3}
    Clients = {c1, c2}
    MaxPending = 5
    Race = FALSE
INVARIANTS
    TypeOK
    StartSucceeds
    RunningReachable
PROPERTY NoClientLeftWaiting
\* Every dock and every client may have come to its end.
CHECK_DEADLOCK FALSE
