SPECIFICATION Spec
CONSTANTS
    p1 = p1
    p2 = p2
    job = job
    admin = admin
    Payouts = {p1, p2}
    Workers = {job, admin}
    Job = job
    Amount <- MCAmount
    MaxEarnings = 2
CONSTRAINT SecondIsSimple
INVARIANTS
    SentAtMostOnce
PROPERTIES
    SpendingIsCovered
    ImplementsWithdrawals
