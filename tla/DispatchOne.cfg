CONSTANTS
    o1 = o1
    Ping = Ping
    Op = {o1}
    Addr = {1, 2}
    MaxRetransmit = 2
    IpcTimeout = 4
    SweepAge = 4
    SweepEvery = 2
    Capacity = 1
    MaxMove = 1
    MaxSendError = 1
SPECIFICATION FairSpec
INVARIANTS TypeOK DeadlineMeansDisturbed DoneMeansSettled
PROPERTIES ImplementsRemoteCall InFlightEnds
