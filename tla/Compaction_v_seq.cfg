SPECIFICATION CSpec
CONSTANTS
    a1 = a1
    s1 = s1
    NoRecord = NoRecord
    PartitionDuration = 4
    LateArrivalWindow = 0
    LateArrivalMode = "Tolerant"
    MemtableLimit = 0
    FlushChCap = 1
    MaxNow = 0
    MaxSessions = 2
    MaxFaults = 0
    RetentionDuration = 0
    CompactChCap = 1
    MaxMerges = 4
    ScansEndFirst = TRUE
    Records <- ThreeRecords
    TsOf <- OneWindow3
    Appenders <- OneAppender
    Scanners <- NoScanner
    CrashPhases <- Never
    Callers <- Disciplined
    CompactorFaults <- NoFault
    MaxFilesPerPartition <- EverySession
PROPERTY KeptUnlessExpired
CHECK_DEADLOCK FALSE
