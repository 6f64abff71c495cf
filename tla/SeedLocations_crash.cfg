SPECIFICATION Spec
CONSTANTS
    Pairs = {p}
    a1 = a1
    a1q = a1q
    a2 = a2
    a3 = a3
    Addresses = {a1, a2}
    NormalForm <- Normal
    BranchAddresses = {}
    Coords = {c, d}
    Typo = Typo
    NoCoord = NoCoord
    NoRecord = NoRecord
    NoFile = NoFile
    NoJournal = NoJournal
    MaxDay = 2
    RecoveryMayCrash = FALSE
    EditsDuringRun = FALSE
    EditsMayRestore = FALSE
    MayLoseCandidates = FALSE
    MayDrop = TRUE
    MayCorrupt = TRUE
    HandStatuses = {"accepted", "no_pin"}
INVARIANTS
    TypeOK
    AlwaysLoadable
    HumanDecisionSurvives
    CleanMeansInSync
    WriterAcceptsWhatIsSaved
PROPERTIES
    CorruptKept
