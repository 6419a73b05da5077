SPECIFICATION Spec
CONSTANTS
    Times = {1, 2, 3}
    Sources = {1, 2}
    Filters = {nil}
    NilFilter = nil
    BlockRecords = 2
    IndexSources = FALSE
    MaxRecords = 4
INVARIANTS
    ScanExact
