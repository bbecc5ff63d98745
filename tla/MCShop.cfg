\* Placing and paying an order of the integer-id shop, the payment intents of the
\* other, the accounts, the carts and the categories.
SPECIFICATION MCSpec
CONSTANTS
    Orders = {o1, o2}
    o1 = o1
    o2 = o2
    p1 = p1
    v1 = v1
    Products = {p1}
    Vouchers = {v1}
    NoVoucher = none
    Payload <- MCPayload
    Stock <- MCStock
    UsageLimit <- MCUsageLimit
    SaleQuantity <- MCSaleQuantity
    MaxTries = 2
    MaxStray = 3
    OrdersPaid = {o1}
    Customers = {c1, c2}
    MaxPayments = 2
    MaxRefunds = 1
    MaxUpdates = 2
    Intents = {i1, i2}
    Keys = {key1}
    NoKey = none
    Callers = {c1, c2}
    MaxFailures = 1
    MaxPayBacks = 2
    Requests = {a1, a2}
    Names = {n1}
    MaxAttempts = 2
    Units = {u1, u2, u3}
    Checkouts = {k1, k2}
    Cats = {t1, t2, t3}
    Root = root
    MaxRenames = 1
    MaxEdits = 1
INVARIANTS
    OrderHasStock
    LeaksNeedLoss
    PromotionsBounded
    StockAccounted
    PaidOnce
    UnpaidStays
    StatusAnnounced
    ChargedOnce
    RefundNeedsCharge
    KeyedRefundOnce
    AccountWhole
    UnitsKept
    OrderedOnce
    PathsAgree
PROPERTIES
    StatusMoves
CHECK_DEADLOCK FALSE
