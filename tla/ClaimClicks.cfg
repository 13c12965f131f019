SPECIFICATION FairSpec
CONSTANTS
    Interval = 2
    Slip = 1
    MaxEvents = 1
    MaxClients = 1
PROPERTIES
    ClicksHandled
\* The dockapp exits when its window is destroyed.
CHECK_DEADLOCK FALSE
