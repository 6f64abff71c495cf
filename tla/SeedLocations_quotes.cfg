SPECIFICATION Spec
CONSTANTS
    Pairs = {p}
    a1 = a1
    a1q = a1q
    a2 = a2
    a3 = a3
    Addresses = {a1, a1q}
    NormalForm <- Normal
    BranchAddresses = {a1}
    Coords = {c}
    Typo = Typo
    NoCoord = NoCoord
    NoRecord = NoRecord
    NoFile = NoFile
    NoJournal = NoJournal
    MaxDay = 1
    RecoveryMayCrash = FALSE
    EditsDuringRun = FALSE
    EditsMayRestore = FALSE
    MayLoseCandidates = TRUE
    MayDrop = FALSE
    MayCorrupt = FALSE
    HandStatuses = {"pinned"}
INVARIANTS
    HumanDecisionSurvives
PROPERTIES
    ImplementsRegister
