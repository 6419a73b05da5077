SPECIFICATION Spec
CONSTANTS
    a1 = a1
    a2 = a2
    NoRecord = NoRecord
    PartitionDuration = 2
    LateArrivalWindow = 0
    LateArrivalMode = "Strict"
    MemtableLimit = 1
    FlushChCap = 1
    MaxNow = 3
    MaxSessions = 2
    MaxFaults = 1
    Records <- ThreeRecords
    TsOf <- OneWindow
    Appenders <- TwoAppenders
    CrashPhases <- ServingPhases
    Callers <- NoPromise
SYMMETRY Symmetric
INVARIANT TypeOK
INVARIANT NoDuplicates
INVARIANT IInv
INVARIANT RejectedStaysInvisible
PROPERTY CommittedStays
CHECK_DEADLOCK FALSE
