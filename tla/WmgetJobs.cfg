SPECIFICATION FairSpec
CONSTANTS
    MaxActive = 2
    MaxQueued = 2
    MaxJobs = 3
    MaxFaults = 1
INVARIANTS
    TypeOK
    SlotOwnership
    Accounted
    StatusShowsStage
    StopOnlyIfAsked
    AtMostMaxActive
    SlotsComeBack
PROPERTIES
    SlotHandover
    LifeCycle
    ImplementsPool
    StopHonoured
    SlotsServed
\* The dock may quit after its last download has ended.
CHECK_DEADLOCK FALSE
