SPECIFICATION FairServiceSpec
CONSTANTS
    s1 = s1
    s2 = s2
    p1 = p1
    job1 = job1
    q1 = q1
    g1 = g1
    Services = {s1, s2}
    NoService = NoService
    MaxLosses = 2
    Payouts = {p1}
    Workers = {job1}
    Job = job1
    Amount <- MCAmount
    MaxEarnings = 1
    Requests = {q1}
    Approvals = {}
    Nobody = Nobody
    Generations = {g1}
    Stages = 2
CONSTRAINT
    OneProcessWorks
INVARIANTS
    QueuesFollowJobs
PROPERTIES
    OneServiceSettles
    ApprovedIsResolved
    ScheduledIsCancelled
    QueuedIsPromoted
