----------------------------- MODULE SeedRunner -----------------------------
(***************************************************************************)
(* python -m yasli.seed: a local database is seeded from the committed     *)
(* artifacts, step by step, each step a transaction of its own that reads  *)
(* its file when its turn comes; `verify` compares what came out with the  *)
(* artifacts and prints a remedy for every check that fails.  Meanwhile    *)
(* the artifacts may change, by checking out another release or by `freeze`, *)
(* and a step may fail.                                                    *)
(*                                                                         *)
(* A database is never emptied by a seed: what an earlier release put into *)
(* it stays.                                                               *)
(***************************************************************************)
EXTENDS CatalogueTables

CONSTANTS
    Releases,       \* the committed artifacts of several releases
    Published,      \* the snapshot on R2, for freeze to fetch
    MaxChanges,     \* how often the artifacts change (a bound)
    MaxFailures,    \* how many steps fail by themselves (a bound)
    DistrictCount,  \* how many districts ГРАО lists
    RoutingCase,    \* the address of the routing case, also a known one
    Branched,       \* the institution known to have branches
    BranchCount     \* how many

\* Besides the three files, the district verify.py knows of the routing case.
Artifacts == [grao : SUBSET GraoRow, snapshot : SnapshotFile,
              locations : SUBSET LocationRow, known : Districts]

ASSUME SeedAssumption ==
    /\ Releases # {} /\ Releases \subseteq Artifacts
    /\ Published \in SnapshotFile
    /\ MaxChanges \in Nat /\ MaxFailures \in Nat
    /\ RoutingCase \in Address /\ Branched \in Institutions

\* parse_rows lets no file through that has two main rows of an institution.
ASSUME LocationsAssumption ==
    \A files \in Releases : \A q, r \in MainRows(files.locations) :
        q.institution = r.institution => q = r

ASSUME PlanAssumption ==
    \A s \in {files.snapshot : files \in Releases} \cup {Published} : Collected(s)

VARIABLES
    db, migrated,       \* the committed tables, and whether there are any
    artifacts, changes, \* the files on disk, and how often they have changed
    at,                 \* the seed's step, or "idle"
    steady,             \* whether this seed has seen one set of artifacts
    failures,
    report              \* the remedies the last verify has printed

vars == <<db, migrated, artifacts, changes, at, steady, failures, report>>

Unread == {"unread"}    \* no report yet on these artifacts and this database

-----------------------------------------------------------------------------
(* The checks of verify.py: those that fail, each with its remedy.          *)

SnapshotInstitutions == ToSet(PlanInstitutions(artifacts.snapshot))

CheckInstitutionSet(tables) ==
    LET there == DOMAIN tables.institutions
    IN  IF SnapshotInstitutions \ there # {} THEN {"seed"}
        ELSE IF there \ SnapshotInstitutions # {} THEN {"reset"} ELSE {}

CheckEdgesMissing(tables) ==
    IF PlanEdges(artifacts.snapshot) \ tables.edges # {} THEN {"seed"} ELSE {}
CheckEdgesReseeding(tables) ==
    IF PlanEdges(artifacts.snapshot) # tables.edges THEN {"seed"} ELSE {}
CheckCatchmentEdges(tables) ==
    LET expected == PlanEdges(artifacts.snapshot)
    IN  IF tables.edges \ expected # {} THEN {"reset"}
        ELSE IF expected \ tables.edges # {} THEN {"seed"} ELSE {}

CheckGraoAddresses(tables) ==
    IF Cardinality({r.district : r \in tables.grao}) = DistrictCount THEN {} ELSE {"seed"}

\* At most one address in fifty may be without a district.
CheckAddressDistricts(tables) ==
    LET stamped == {a \in DOMAIN tables.addresses : tables.addresses[a] # NoDistrict}
        total == Cardinality(DOMAIN tables.addresses)
    IN  IF total > 0 /\ 50 * (total - Cardinality(stamped)) <= total THEN {} ELSE {"seed"}

CheckInstitutionDistricts(tables) ==
    IF \A k \in DOMAIN tables.institutions \cap Nurseries :
            tables.institutions[k].district # NoDistrict
    THEN {} ELSE {"seed"}

CheckInstitutionLocations(tables) ==
    LET branches == {r \in tables.locations : r.role = "branch"}
    IN  IF /\ MainRows(tables.locations) # {}
           /\ Cardinality({r \in branches : r.institution = Branched}) = BranchCount
        THEN {} ELSE {"seed"}

CheckKnownDistricts(tables) ==
    IF RoutingCase \in DOMAIN tables.addresses /\ tables.addresses[RoutingCase] = artifacts.known
    THEN {} ELSE {"seed"}

\* All kinds are offered, in the district it is known to be in.
CheckRoutingCase(tables) ==
    IF /\ CheckKnownDistricts(tables) = {}
       /\ {o.reception : o \in Offerings(FindMatches(tables, RoutingCase, AllKinds))} = AllKinds
    THEN {} ELSE {"seed"}

CheckMatchData(tables) == IF HardFailures(tables) = {} THEN {} ELSE {"validate-match-data"}

Remedies(tables) ==
    UNION {CheckInstitutionSet(tables), CheckCatchmentEdges(tables),
           CheckGraoAddresses(tables), CheckAddressDistricts(tables),
           CheckInstitutionDistricts(tables), CheckInstitutionLocations(tables),
           CheckKnownDistricts(tables), CheckRoutingCase(tables), CheckMatchData(tables)}

-----------------------------------------------------------------------------
Init ==
    /\ db = EmptyTables
    /\ migrated = FALSE
    /\ artifacts \in Releases
    /\ changes = 0
    /\ at = "idle"
    /\ steady = TRUE
    /\ failures = 0
    /\ report = Unread

(* The order is load-bearing: ingest stamps from what grao has loaded.      *)
StepsWithoutRestamp == <<"migrate", "grao", "ingest", "institution-locations">>
Steps == <<"migrate", "grao", "ingest", "institution-locations", "restamp-districts">>

Following(step) ==
    LET next == {i \in 2 .. Len(Steps) : Steps[i - 1] = step}
    IN  IF next = {} THEN "verify" ELSE Steps[CHOOSE i \in next : TRUE]

\* A step that commits `tables`.
Run(step, tables) ==
    /\ at = step
    /\ at' = Following(step)
    /\ db' = tables
    /\ UNCHANGED <<artifacts, changes, steady, failures, report>>

Migrate == Run("migrate", db) /\ migrated' = TRUE

LoadGrao == Run("grao", AfterReload(db, artifacts.grao)) /\ UNCHANGED migrated

IngestSnapshot == Run("ingest", AfterIngest(db, artifacts.snapshot)) /\ UNCHANGED migrated

\* With allow_incomplete, which does not skip the guard against rows of
\* unknown institutions.
LoadLocations ==
    /\ Guards(db, artifacts.locations, TRUE)
    /\ Run("institution-locations", [db EXCEPT !.locations = artifacts.locations])
    /\ UNCHANGED migrated

RestampDistricts == Run("restamp-districts", AfterRestamp(db)) /\ UNCHANGED migrated

\* A step that raises is rolled back and ends the seed: "fix the cause and
\* re-run, or just db-reset && just be-seed".
EndSeed ==
    /\ at' = "idle"
    /\ report' = {"seed", "reset"}
    /\ UNCHANGED <<db, migrated, artifacts, changes, steady>>

RefuseLocations ==
    /\ at = "institution-locations"
    /\ ~Guards(db, artifacts.locations, TRUE)
    /\ EndSeed
    /\ UNCHANGED failures

StepFails ==
    /\ at \notin {"idle", "verify"}
    /\ failures < MaxFailures
    /\ failures' = failures + 1
    /\ EndSeed

\* The seed's last act, and a command of its own.  Without tables every check
\* raises.
Verify ==
    /\ at \in {"verify", "idle"}
    /\ at' = "idle"
    /\ report' = IF migrated THEN Remedies(db) ELSE {"seed"}
    /\ UNCHANGED <<db, migrated, artifacts, changes, steady, failures>>

-----------------------------------------------------------------------------
(* What people do.                                                          *)

StartSeed ==
    /\ at = "idle"
    /\ at' = Steps[1]
    /\ steady' = TRUE
    /\ report' = Unread
    /\ UNCHANGED <<db, migrated, artifacts, changes, failures>>

\* just db-reset && just be-seed
ResetAndSeed ==
    /\ at = "idle" /\ "reset" \in report
    /\ at' = Steps[1]
    /\ db' = EmptyTables
    /\ migrated' = FALSE
    /\ steady' = TRUE
    /\ report' = Unread
    /\ UNCHANGED <<artifacts, changes, failures>>

ReplaceArtifacts(files) ==
    /\ changes < MaxChanges
    /\ changes' = changes + 1
    /\ artifacts' = files
    /\ steady' = FALSE
    /\ report' = IF at = "idle" THEN Unread ELSE report
    /\ UNCHANGED <<db, migrated, at, failures>>

\* git pull or git checkout
Checkout == \E files \in Releases \ {artifacts} : ReplaceArtifacts(files)

\* run_freeze writes only what differs.
Freeze ==
    /\ artifacts.snapshot # Published
    /\ ReplaceArtifacts([artifacts EXCEPT !.snapshot = Published])

SeedStep ==
    \/ Migrate \/ LoadGrao \/ IngestSnapshot \/ LoadLocations \/ RestampDistricts
    \/ RefuseLocations

Next == SeedStep \/ StepFails \/ Verify \/ StartSeed \/ ResetAndSeed \/ Checkout \/ Freeze

Spec == Init /\ [][Next]_vars

(* A seed that has begun goes on to its verify.  Of the person in front of  *)
(* it: does what the last report said, and tries each of two remedies that  *)
(* are printed again and again.                                             *)
FollowSeed == (report = Unread \/ "seed" \in report) /\ StartSeed

Fairness ==
    /\ WF_vars(SeedStep) /\ WF_vars(at = "verify" /\ Verify)
    /\ WF_vars(FollowSeed) /\ SF_vars(ResetAndSeed)

FairSpec == Spec /\ Fairness

-----------------------------------------------------------------------------
TypeOK ==
    /\ WellFormed(db)
    /\ artifacts \in Artifacts
    /\ changes \in 0 .. MaxChanges
    /\ at \in ToSet(Steps) \cup {"idle", "verify"}
    /\ failures \in 0 .. MaxFailures
    /\ report = Unread \/ report \subseteq {"seed", "reset", "validate-match-data"}
    /\ ~migrated => db = EmptyTables

\* The tables a seed of an empty database from these files leaves.
CleanSeed(files) ==
    LET loaded == AfterReload(EmptyTables, files.grao)
        ingested == AfterIngest(loaded, files.snapshot)
    IN  AfterRestamp([ingested EXCEPT !.locations = files.locations])

(* "A re-seed, where a previous ГРАО cycle may have stamped a район         *)
(* differently" is what the closing restamp is for: when the steps are      *)
(* through and the files have not changed meanwhile, whatever was in the    *)
(* database and however often the seed had failed before, the tables hold   *)
(* all that a clean seed puts there, every address that ГРАО lists exactly  *)
(* is in the district it says, and the pins are those of the file.          *)
SeededMeans ==
    at = "verify" /\ steady =>
        LET clean == CleanSeed(artifacts) IN
        /\ DOMAIN clean.institutions \subseteq DOMAIN db.institutions
        /\ clean.edges \subseteq db.edges
        /\ db.grao = clean.grao /\ db.locations = clean.locations
        /\ \A a \in DOMAIN db.addresses :
            Speaks(1, db.grao, a) => db.addresses[a] = Says(1, db.grao, a)

(* "A dirty database must not pass verification": one that passes has the   *)
(* institutions, the addresses and the catchments of a clean seed, so that  *)
(* no kindergarten of another release is offered anywhere.                  *)
VerifiedIsTheSnapshot ==
    report = {} =>
        LET clean == CleanSeed(artifacts) IN
        /\ DOMAIN db.institutions = DOMAIN clean.institutions
        /\ DOMAIN db.addresses = DOMAIN clean.addresses
        /\ db.edges = clean.edges

\* A seed of an empty database from the files on disk succeeds and passes.
Seedable ==
    /\ Unmatched(CleanSeed(artifacts), artifacts.locations) = {}
    /\ Remedies(CleanSeed(artifacts)) = {}

(* "Each failure names the seed step that would fix it": if a seed of an    *)
(* empty database from the files would pass, doing what the reports say     *)
(* ends, whatever the database holds, in one that passes.                   *)
RemediesEnd == <>[]Seedable => <>[](migrated /\ Remedies(db) = {})
=============================================================================
