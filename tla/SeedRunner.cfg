SPECIFICATION FairSpec
CONSTANTS
    k1 = k1
    n1 = n1
    p1 = p1
    p2 = p2
    street1 = street1
    Institutions = {k1, n1, p1, p2}
    Nurseries = {n1}
    Preschools = {p1, p2}
    InfantGroups = {}
    Streets = {street1}
    SearchNorm <- Norm
    SmallIntMax = 3
    Numbers = {1, 2, 3}
    Letters = {None}
    Entrances = {None}
    None = None
    Unparsable = Unparsable
    Districts = {1, 2}
    Releases <- TwoReleases
    Published <- OnR2
    MaxChanges = 2
    MaxFailures = 2
    DistrictCount = 1
    RoutingCase <- Case
    Branched = k1
    BranchCount = 1
INVARIANTS
    TypeOK
    SeededMeans
    VerifiedIsTheSnapshot
PROPERTIES
    RemediesEnd
