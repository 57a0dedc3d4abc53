CONSTANTS
    u1 = u1  u2 = u2
    Upload = {u1, u2}
    Size = 4
    Sizes = {1, 2}
    BlockSize = 2
    MAX_RETRANSMIT = 2
    FirstAckTimeout = 4
    WatchTimeout = 6
    MaxErrors = 1
SPECIFICATION FairSpec
INVARIANTS
    TypeOK
    CompleteMeansReceived
    UploadsExclusive
PROPERTIES
    UploadEnds
    StartedIsReported
