SPECIFICATION MCSpec
CONSTANTS
    e1 = e1
    e2 = e2
    q1 = q1
    q2 = q2
    n1 = n1
    b1 = b1
    w1 = w1
    d1 = d1
    Evidence = {e1, e2}
    Requests = {q1, q2}
    Enrichments = {n1}
    Beats = {b1}
    Hooks = {w1}
    SenderOf <- MCSenderOf
    Loads <- MCLoads
    Allowance = 2
    FailureLimit = 2
    HeartbeatLimit = 2
INVARIANTS
    ReleasedIsQuiet
    EscalationIsReported
    OneAtATime
PROPERTIES
    StopEnds
    
\* A gateway that has released its directory or exited takes no step.
CHECK_DEADLOCK FALSE
