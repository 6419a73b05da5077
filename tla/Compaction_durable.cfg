SPECIFICATION CSpec
CONSTANTS
    a1 = a1
    s1 = s1
    NoRecord = NoRecord
    PartitionDuration = 4
    LateArrivalWindow = 0
    LateArrivalMode = "Tolerant"
    MemtableLimit = 0
    FlushChCap = 1
    MaxNow = 5
    MaxSessions = 3
    MaxFaults = 0
    RetentionDuration = 3
    CompactChCap = 1
    MaxMerges = 4
    ScansEndFirst = TRUE
    Records <- ThreeRecords
    TsOf <- OneWindow3
    Appenders <- OneAppender
    Scanners <- OneScanner
    CrashPhases <- ServingPhases
    Callers <- Disciplined
    CompactorFaults <- NoFault
    MaxFilesPerPartition <- FirstSession
INVARIANT CompactorTypeOK
INVARIANT AckedKept
INVARIANT NoDuplicates
INVARIANT OpenMatchesManifest
INVARIANT HeldReadersOpen
INVARIANT ScanIntact
PROPERTY KeptUnlessExpired
CHECK_DEADLOCK FALSE
