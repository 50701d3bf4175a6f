SPECIFICATION Spec
CONSTANTS
    o1 = o1
    o2 = o2
    m1 = m1
    m2 = m2
    v1 = v1
    v2 = v2
    v3 = v3
    v4 = v4
    buyer = buyer
    job = job
    NoVoucher = NoVoucher
    Orders = {o1, o2}
    Models = {m1, m2}
    Vouchers = {v1, v2, v3}
    Sessions = {buyer, job}
    Job = job
    d1 = d1
    d2 = d2
    Deleters = {d1, d2}
    Price <- MCPrice
    PricePerModel = 1
    Subscriptions = {}
    WalletOrders = {}
    Discounted = {}
    Legacy = {o2}
    InitialStock <- MCStock
    StockPerModel = 1
    ItemLimit = 2
SYMMETRY Symmetry
CONSTRAINT DeletionBound
INVARIANTS
    ChargedOrderIsKept
    PaidOrderHasStock
PROPERTIES
    UnitsMoveWithOneOrder
    UncertainCaptureKeepsHold
CHECK_DEADLOCK FALSE
