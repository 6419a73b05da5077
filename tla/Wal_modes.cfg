SPECIFICATION FairSpec
CONSTANTS
    HeaderCells = 2
    BodyCells = 2
    SyncModes = {"SyncAlways", "SyncPeriodic", "SyncNever"}
    BufCells = 6
    PowerLoss = TRUE
    MaxRecords = 4
    MaxFiles = 4
INVARIANTS
    TypeOK
    ReplayInOrder
PROPERTIES
    IsDurableLog
    EventuallyKept
CHECK_DEADLOCK FALSE
