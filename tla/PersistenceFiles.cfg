SPECIFICATION Spec
CONSTANTS
    e1 = e1  l1 = l1  l2 = l2  t1 = t1  t2 = t2
    NoFile = NoFile  Empty = Empty  Torn = Torn
    Endpoint = {e1}
    Leaf = {l1}
    Known = {l1}
    Value = {1, 2}
    Task = {t1, t2}
    MaxError = 1
    MaxRestart = 1
SYMMETRY Tasks
INVARIANTS TypeOK WholeUnlessDisturbed ListSaved StateSaved
PROPERTIES StartupConsistent DeletedMeansUnlisted
