SPECIFICATION Spec
CONSTANTS
    a1 = a1
    a2 = a2
    NoRecord = NoRecord
    PartitionDuration = 10
    LateArrivalWindow = 0
    LateArrivalMode = "Tolerant"
    MemtableLimit = 1
    FlushChCap = 2
    MaxNow = 0
    MaxSessions = 2
    MaxFaults = 0
    Records <- ThreeRecords
    TsOf <- TwoWindows
    Appenders <- TwoAppenders
    CrashPhases <- ServingPhases
    Callers <- Disciplined
SYMMETRY Symmetric
INVARIANT AckedVisible
CHECK_DEADLOCK FALSE
