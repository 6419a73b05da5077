SPECIFICATION ManifestSpec
CONSTANTS
    HeaderCells = 2
    BodyCells = 2
    MaxEdits = 5
    MaxFaults = 2
INVARIANT SeqNumbersEdits
INVARIANT AckedEditsReplayed
CHECK_DEADLOCK FALSE
