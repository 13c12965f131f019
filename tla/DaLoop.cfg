SPECIFICATION FairSpec
CONSTANTS
    Interval = 2
    Slip = 1
    MaxEvents = 2
    MaxClients = 1
INVARIANTS
    TypeOK
    EventsInOrder
PROPERTIES
    TimerFires
    ClientsServed
    EventsHandled
\* The dockapp exits when its window is destroyed.
CHECK_DEADLOCK FALSE
