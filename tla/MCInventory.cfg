SPECIFICATION Spec
CONSTANTS
    Variants = {v1, v2}
    Orders = {o1, o2}
    ClientKeys = {k1}
    MaxQty = 1
    Lots = {1}
    Corrections <- MCCorrections
    StockBound = 1
    MaxInFlight = 2
SYMMETRY Symmetry
INVARIANTS
    ReservedAnnouncedOnce
    ReservedIsHeld
    EveryUnitAccounted
PROPERTIES
    LedgerSpec
