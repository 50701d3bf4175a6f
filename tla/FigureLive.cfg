SPECIFICATION FigureFairSpec
CONSTANTS
    o1 = o1
    o2 = o2
    m1 = m1
    m2 = m2
    v1 = v1
    v2 = v2
    v3 = v3
    buyer = buyer
    job = job
    NoVoucher = NoVoucher
    Orders = {o1, o2}
    Models = {m1}
    Vouchers = {v1, v2}
    Sessions = {job}
    Job = job
    d1 = d1
    d2 = d2
    Deleters = {d1}
    Price <- MCPrice
    PricePerModel = 1
    Subscriptions = {}
    WalletOrders = {o2}
    Discounted = {o1}
    Legacy = {}
    InitialStock <- MCStock
    StockPerModel = 1
    ItemLimit = 2
INVARIANTS
    StockConserved
    RefundedMoneyWentBack
    RefundFollowsRejection
PROPERTIES
    RefundIsResolved
CHECK_DEADLOCK FALSE
