SPECIFICATION Spec
CONSTANTS
    Last = 2
    Threads = {r1, r2}
    MaxDeaths = 1
PROPERTIES
    EngineCatchesUp
CHECK_DEADLOCK FALSE
