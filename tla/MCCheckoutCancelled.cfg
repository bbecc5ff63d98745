SPECIFICATION Spec
CONSTANTS
    Variants = {v1}
    Orders = {o1}
    MaxQty = 1
    Lots = {1}
    Corrections <- MCCorrections
    StockBound = 1
    MaxInFlight = 1
    SkipConfirm = {FALSE}
INVARIANTS
    CancelledSellsNothing
CHECK_DEADLOCK FALSE
