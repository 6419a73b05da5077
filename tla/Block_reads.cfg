SPECIFICATION BSpec
CONSTANTS
    r1 = r1
    r2 = r2
    Readers <- TwoReaders
    Keys <- BlockKeys
    Written <- RowPayloads
    MaxBytes = 8
    MaxDamage = 1
    Timestamps = {1, 2}
    Strings <- ShortStrings
    MaxBlock = 2
    Cells = {0, 1, 2}
    MaxCells = 6
INVARIANTS
    IInv
    ViewIntact
    ListMatchesMap
    BytesAccounted
    KeepsMostRecent
    RoundTrip
    MalformedIsRefused
SYMMETRY Symmetric
CHECK_DEADLOCK FALSE
