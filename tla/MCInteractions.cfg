\* Two interactions; the relay's connection may break at any time.
SPECIFICATION Spec
CONSTANTS
    Keys = {k1, k2}
    MaxRetries = 3
    MaxFaults = 1
PROPERTIES
    PublishedInTheEnd
CHECK_DEADLOCK FALSE
