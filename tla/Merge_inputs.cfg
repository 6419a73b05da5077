SPECIFICATION Spec
CONSTANTS
    Keys = {1, 2}
    Iters = 4
    MaxLen = 2
INVARIANTS
    TypeOK
    MergedInOrder
    NoSilentLoss
