SPECIFICATION FairSpec
CONSTANTS
    a1 = a1
    a2 = a2
    NoRecord = NoRecord
    PartitionDuration = 10
    LateArrivalWindow = 0
    LateArrivalMode = "Tolerant"
    MemtableLimit = 1
    FlushChCap = 2
    MaxNow = 0
    MaxSessions = 3
    MaxFaults = 0
    Records <- FourRecords
    TsOf <- TwoPairs
    Appenders <- TwoAppenders
    CrashPhases <- Never
    Callers <- NoPromise
INVARIANT AckedVisible
INVARIANT CloseCommitsAll
PROPERTY OversizedIsFlushed
PROPERTY CloseReturns
CHECK_DEADLOCK FALSE
