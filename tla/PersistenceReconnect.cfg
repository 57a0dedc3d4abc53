SPECIFICATION IncludedSpec
CONSTANTS
    e1 = e1  l1 = l1  l2 = l2  t1 = t1  t2 = t2
    NoFile = NoFile  Empty = Empty  Torn = Torn
    Endpoint = {e1}
    Leaf = {l1, l2}
    Known = {l1, l2}
    Value = {1}
    Task = {t1}
    MaxError = 0
    MaxRestart = 0
PROPERTY StatePreserved
