SPECIFICATION Spec
CONSTANTS
    Times = {1, 2, 3}
    Sources = {1, 2}
    Filters = {nil, 1, 2}
    NilFilter = nil
    BlockRecords = 2
    IndexSources = TRUE
    MaxRecords = 5
INVARIANTS
    TypeOK
    FlushNeverOutOfOrder
    ScanAnswer
    AggregateExact
