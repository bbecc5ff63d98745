SPECIFICATION FairSpec
CONSTANTS
    Last = 2
    Relays = {w1}
    RecordsOutcome = FALSE
    BrokerMayRefuse = FALSE
    MaxRetries = 5
    MaxCrashes = 0
    MaxSends = 3
PROPERTIES
    EventsNotLost
CHECK_DEADLOCK FALSE
