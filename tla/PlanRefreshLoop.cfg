SPECIFICATION Spec
CONSTANTS
    Pairs = {p}
    a1 = a1
    a1q = a1q
    a2 = a2
    c = c
    Addresses = {a1, a1q, a2}
    NormalForm <- Normal
    BranchAddresses = {a2}
    Coords = {c}
    Typo = Typo
    NoCoord = NoCoord
    NoRecord = NoRecord
    MaxDay = 1
    Samples <- SomeEntries
INVARIANTS
    OrderIndependent
    MovedIsFlagged
CHECK_DEADLOCK FALSE
