SPECIFICATION Spec
CONSTANTS
    Pairs = {p}
    a1 = a1
    a1q = a1q
    a2 = a2
    a3 = a3
    Addresses = {a1, a2}
    NormalForm <- Normal
    BranchAddresses = {}
    Coords = {c}
    Typo = Typo
    NoCoord = NoCoord
    NoRecord = NoRecord
    NoFile = NoFile
    NoJournal = NoJournal
    MaxDay = 2
    RecoveryMayCrash = TRUE
    EditsDuringRun = FALSE
    EditsMayRestore = FALSE
    MayLoseCandidates = FALSE
    MayDrop = FALSE
    MayCorrupt = FALSE
    HandStatuses = {"accepted"}
INVARIANTS
    AlwaysLoadable
