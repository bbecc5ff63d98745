\* Two relays on one outbox; two interactions; one event of one template that is
\* delivered twice to two consumers.
SPECIFICATION MCSpec
CONSTANTS
    Last = 2
    Relays = {w1, w2}
    RecordsOutcome = TRUE
    BrokerMayRefuse = TRUE
    MaxRetries = 5
    MaxCrashes = 1
    MaxSends = 3
    Keys = {k1, k2}
    MaxPublishRetries = 3
    MaxDeaths = 1
    Events = {e1}
    Templates = {email1}
    Consumers = {n1, n2}
    MaxResends = 5
    MaxCopies = 2
    MaxFailures = 2
INVARIANTS
    DuplicatesNeedCrashes
    CountedOnce
    NotifiedOnce
PROPERTIES
    EventsSettled
    EachCounted
    EachNotified
CHECK_DEADLOCK FALSE
