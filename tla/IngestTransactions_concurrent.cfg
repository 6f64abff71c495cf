SPECIFICATION FairSpec
CONSTANTS
    i1 = i1
    i2 = i2
    r1 = r1
    g1 = g1
    k1 = k1
    k2 = k2
    n1 = n1
    street1 = street1
    A = A
    Institutions = {k1, k2, n1}
    Nurseries = {n1}
    Streets = {street1}
    SearchNorm <- Norm
    SmallIntMax = 2
    Numbers = {1, 2}
    Letters = {None, A}
    Entrances = {None, A}
    None = None
    Unparsable = Unparsable
    Districts = {1, 2}
    Ingests = {i1, i2}
    Restamps = {r1}
    Reloads = {g1}
    Snapshots <- TwoSnapshots
    File <- Archives
    Loaded <- LoadedBefore
    Fallible = {i1}
INVARIANTS
    TypeOK
    OneRowPerAddress
    CatchmentComplete
    StampsAreBestTier
    NoneStranded
    RestampPropagates
PROPERTIES
    IngestKeepsStamps
    AloneIsAtomic
    RunsEnd
CHECK_DEADLOCK FALSE
