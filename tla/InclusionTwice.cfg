SPECIFICATION Spec
CONSTANTS
    e1 = e1
    e2 = e2
    k1 = k1
    k2 = k2
    x1 = x1
    Endpoint = {e1}
    Phase = {k1, k2}
    Exclusion = {}
    LastStep = 2
    CertStep = 2
    MaxRetransmit = 1
    MaxToken = 2
    MaxId = 2
    MaxApproval = 2
    MaxRestart = 1
SYMMETRY Symmetry
INVARIANTS TypeOK IdsConsistent SessionsConsistent PhaseApproved
CHECK_DEADLOCK FALSE
