SPECIFICATION Spec
CONSTANTS
    a1 = a1  a2 = a2
    Addr = {a1, a2}
    MaxCalls = 2
    OnlineInterval = 5
    OfflineInterval = 3
    Window = 8
    Horizon = 8
    MaxRestart = 1
INVARIANTS TypeOK SilenceBounded ComesBackInTime PingBudget
