\* The sagas of two orders; one paid order to ship; two callers of one host.
SPECIFICATION MCSpec
CONSTANTS
    Orders = {o1, o2}
    SkipConfirm = {TRUE, FALSE}
    OrdersShipped = {o1}
    RetryLimit = 5
    MaxDuplicates = 2
    Callers = {r1, r2}
    FailThreshold = 3
    MaxRetries = 2
INVARIANTS
    SagaMatchesOrder
    CancelReleasesStock
    CompletedIsSettled
    ProcessingShips
PROPERTIES
    CancelledIsFinal
    OnlyPaymentFailureUndoes
    PaymentResolves
    PaidShips
    Recovers
CHECK_DEADLOCK FALSE
