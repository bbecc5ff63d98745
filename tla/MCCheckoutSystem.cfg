SPECIFICATION FairSpec
CONSTANTS
    Variants = {v1}
    Orders = {o1, o2}
    MaxQty = 1
    Lots = {1}
    Corrections <- MCCorrections
    StockBound = 1
    MaxInFlight = 2
    SkipConfirm = {FALSE}
INVARIANTS
    NoOrphanHold
    NoLostConfirm
PROPERTIES
    SagaSpec
    PromiseSpec
    ReservedResolves
CHECK_DEADLOCK FALSE
