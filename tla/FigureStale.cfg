SPECIFICATION FigureSpec
CONSTANTS
    o1 = o1
    o2 = o2
    m1 = m1
    m2 = m2
    v1 = v1
    v2 = v2
    v3 = v3
    buyer = buyer
    job = job
    NoVoucher = NoVoucher
    Orders = {o1}
    Models = {m1}
    Vouchers = {v1}
    Sessions = {buyer, job}
    Job = job
    d1 = d1
    d2 = d2
    Deleters = {}
    Price <- MCPrice
    PricePerModel = 1
    Subscriptions = {}
    WalletOrders = {}
    Discounted = {}
    Legacy = {}
    InitialStock <- MCStock
    StockPerModel = 1
    ItemLimit = 1
PROPERTIES
    RepeatedConfirmationIsNoop
CHECK_DEADLOCK FALSE
