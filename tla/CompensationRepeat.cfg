SPECIFICATION BillingSpec
CONSTANTS
    c1 = c1
    c2 = c2
    none = none
    Contracts = {c1}
    NoContract = none
    Admins = {"a"}
    MaxPayments = 2
    MaxMonths = 2
    MaxCompensations = 2
INVARIANTS CompensatedOnce
CHECK_DEADLOCK FALSE
