SPECIFICATION Spec
CONSTANTS
    l1 = l1
    l2 = l2
    k1 = k1
    n1 = n1
    p1 = p1
    p2 = p2
    street1 = street1
    Institutions = {k1, n1, p1, p2}
    Nurseries = {n1}
    Preschools = {p1, p2}
    InfantGroups = {k1}
    Streets = {street1}
    SearchNorm <- Norm
    SmallIntMax = 2
    Numbers = {1, 2}
    Letters = {None}
    Entrances = {None}
    None = None
    Unparsable = Unparsable
    Districts = {1, 2}
    Snapshots <- TwoSnapshots
    Archives <- TwoArchives
    Loaders = {l1, l2}
    File <- TwoFiles
    Pages = {None, p1, "institutions"}
INVARIANTS
    TypeOK
    LocationsAreOneFile
    IngestNeverHidesAMatch
    RevalidatedIsCurrent
