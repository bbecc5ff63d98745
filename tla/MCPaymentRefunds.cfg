SPECIFICATION Spec
CONSTANTS
    Orders = {o1}
    Keys = {k1}
    NoKey = none
    Callers = {c1, c2}
    MaxAttempts = 1
    MaxRefunds = 2
SYMMETRY Symmetry
INVARIANTS
    RecordedRefundOnce
CHECK_DEADLOCK FALSE
