SPECIFICATION Spec
CONSTANTS
    t1 = t1  t2 = t2  c1 = c1
    Task = {t1, t2}
    Client = {c1}
    Capacity = 2
    SeqMod = 1
    Writes = 1
SYMMETRY Tasks
INVARIANTS TypeOK StatusTold
