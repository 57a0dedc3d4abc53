CONSTANTS
    e1 = e1  e2 = e2  ip1 = ip1  ip2 = ip2
    o1 = o1  o2 = o2  o3 = o3  t1 = t1  t2 = t2
    Endpoint = {e1, e2}
    Ip = {ip1, ip2}
    Scope = {0}
    Source <- PlainSource
    Op = {}
    Token = {}
    TokenOf <- NoTokens
    Lifetime = {0, 1}
    Grace = 1
    Horizon = 3
    MaxId = 4
    MaxRestart = 0
CONSTRAINT StillStated
SPECIFICATION FairSpec
PROPERTIES
    ExpiryIsDue
    SilentDevicePurged
