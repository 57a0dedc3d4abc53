CONSTANTS
    e1 = e1  e2 = e2  ip1 = ip1  ip2 = ip2
    o1 = o1  o2 = o2  o3 = o3  t1 = t1  t2 = t2
    Endpoint = {e1, e2}
    Ip = {ip1, ip2}
    Scope = {0}
    Source <- PlainSource
    Op = {o1, o2, o3}
    Token = {t1, t2}
    TokenOf <- CollidingTokens
    Lifetime = {0}
    Grace = 0
    Horizon = 1
    MaxId = 2
    MaxRestart = 0
SYMMETRY DevicesAndOps
VIEW WithoutHistory
SPECIFICATION Spec
INVARIANTS
    OpAccounted
PROPERTY
    OutcomeFinal
