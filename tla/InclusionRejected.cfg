SPECIFICATION Spec
CONSTANTS
    e1 = e1
    e2 = e2
    k1 = k1
    k2 = k2
    x1 = x1
    Endpoint = {e1}
    Phase = {k1}
    Exclusion = {}
    LastStep = 2
    CertStep = 2
    MaxRetransmit = 0
    MaxToken = 1
    MaxId = 1
    MaxApproval = 1
    MaxRestart = 0
INVARIANT IncludedAccepted
CHECK_DEADLOCK FALSE
