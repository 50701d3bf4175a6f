SPECIFICATION Spec
CONSTANTS
    q1 = q1
    q2 = q2
    approval = approval
    Nobody = Nobody
    Requests = {q1}
    Approvals = {}
INVARIANTS
    PendingIsScheduled
