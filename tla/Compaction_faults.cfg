SPECIFICATION CFairSpec
CONSTANTS
    a1 = a1
    s1 = s1
    NoRecord = NoRecord
    PartitionDuration = 4
    LateArrivalWindow = 0
    LateArrivalMode = "Tolerant"
    MemtableLimit = 0
    FlushChCap = 1
    MaxNow = 3
    MaxSessions = 2
    MaxFaults = 1
    RetentionDuration = 1
    CompactChCap = 1
    MaxMerges = 3
    ScansEndFirst = TRUE
    Records <- TwoRecords
    TsOf <- OneWindow2
    Appenders <- OneAppender
    Scanners <- NoScanner
    CrashPhases <- ServingPhases
    Callers <- Disciplined
    CompactorFaults <- AllFaults
    MaxFilesPerPartition <- FirstSession
PROPERTY KeptUnlessExpired
PROPERTY MergedEventually
PROPERTY ExpiredEventually
PROPERTY CompactorLetsCloseReturn
CHECK_DEADLOCK FALSE
