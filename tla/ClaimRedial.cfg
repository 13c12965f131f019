SPECIFICATION Spec
CONSTANTS
    Pids = {1, 2, 3}
    Timeout = 2
    MaxPassed = 2
    NotWaiting = NotWaiting
PROPERTIES
    RedialsUnasked
CHECK_DEADLOCK FALSE
