SPECIFICATION FairSpec
CONSTANTS
    e1 = e1
    e2 = e2
    k1 = k1
    k2 = k2
    x1 = x1
    Endpoint = {e1}
    Phase = {k1}
    Exclusion = {x1}
    LastStep = 5
    CertStep = 4
    MaxRetransmit = 1
    MaxToken = 1
    MaxId = 2
    MaxApproval = 1
    MaxRestart = 1

INVARIANT IncludedCompleted
PROPERTIES PhaseEnds SessionEnds
CHECK_DEADLOCK FALSE
