-------------------------- MODULE SeedRunnerProofs --------------------------
(***************************************************************************)
(* What a seed leaves and what passing verification means, for any         *)
(* releases of the artifacts, any snapshot on R2, and whatever has failed, *)
(* been checked out or been frozen between any two steps.                  *)
(***************************************************************************)
EXTENDS SeedRunner, CatalogueTablesProofs

(* The steps in their order.                                                *)
LEMMA StepsFollow ==
    /\ Steps[1] = "migrate"
    /\ Following("migrate") = "grao"
    /\ Following("grao") = "ingest"
    /\ Following("ingest") = "institution-locations"
    /\ Following("institution-locations") = "restamp-districts"
    /\ Following("restamp-districts") = "verify"
    /\ ToSet(Steps) = {"migrate", "grao", "ingest", "institution-locations", "restamp-districts"}
<1>1. /\ Len(Steps) = 5 /\ DOMAIN Steps = 1 .. 5 /\ Steps[1] = "migrate" /\ Steps[2] = "grao"
      /\ Steps[3] = "ingest" /\ Steps[4] = "institution-locations"
      /\ Steps[5] = "restamp-districts"
  BY DEF Steps
<1> DEFINE next(step) == {i \in 2 .. Len(Steps) : Steps[i - 1] = step}
<1>2. /\ next("migrate") = {2} /\ next("grao") = {3} /\ next("ingest") = {4}
      /\ next("institution-locations") = {5} /\ next("restamp-districts") = {}
  BY <1>1
<1>3. \A step : Following(step) = IF next(step) = {} THEN "verify"
                                 ELSE Steps[CHOOSE i \in next(step) : TRUE]
  BY DEF Following
<1> HIDE DEF next
<1>4. \A i : (CHOOSE j \in {i} : TRUE) = i
  OBVIOUS
<1>5. ToSet(Steps) = {Steps[1], Steps[2], Steps[3], Steps[4], Steps[5]}
  BY <1>1 DEF ToSet
<1> QED
  BY <1>1, <1>2, <1>3, <1>4, <1>5

-----------------------------------------------------------------------------
(* Types.  The files are of a release, but for the snapshot, which may be   *)
(* the one of R2.                                                           *)

SnapshotsSeen == {files.snapshot : files \in Releases} \cup {Published}

TypesInv ==
    /\ TypeOK
    /\ Tables(db) /\ IsFiniteSet(DOMAIN db.addresses)
    /\ artifacts.snapshot \in SnapshotsSeen
    /\ \E files \in Releases : artifacts.locations = files.locations
    /\ at \notin {"idle", "migrate"} => migrated

LEMMA EmptyIsSane == Sane(EmptyTables)
<1>1. /\ DOMAIN EmptyTables = Fields /\ EmptyTables.edges = {} /\ EmptyTables.grao = {}
      /\ EmptyTables.locations = {} /\ DOMAIN EmptyTables.institutions = {}
      /\ DOMAIN EmptyTables.addresses = {}
  BY DEF EmptyTables, Fields
<1> QED
  BY <1>1, FS_EmptySet DEF Sane, Tables, WellFormed

LEMMA TypesInit ==
    ASSUME Init
    PROVE  TypesInv
BY EmptyIsSane, StepsFollow, SeedAssumption
   DEF Init, TypesInv, TypeOK, Sane, SnapshotsSeen, Unread

\* What an artifact of the seed is.
LEMMA ArtifactsAre ==
    ASSUME TypesInv
    PROVE  /\ artifacts.grao \in SUBSET GraoRow /\ artifacts.locations \in SUBSET LocationRow
           /\ Plans(artifacts.snapshot)
           /\ \A q, r \in MainRows(artifacts.locations) : q.institution = r.institution => q = r
<1>1. artifacts \in Artifacts /\ artifacts.snapshot \in SnapshotsSeen
  BY DEF TypesInv, TypeOK
<1>2. artifacts.snapshot \in SnapshotFile /\ artifacts.grao \in SUBSET GraoRow
      /\ artifacts.locations \in SUBSET LocationRow
  BY <1>1 DEF Artifacts
<1>3. Plans(artifacts.snapshot)
  BY <1>1, <1>2, SnapshotPlans, PlanAssumption DEF SnapshotsSeen
<1> QED
  BY <1>2, <1>3, LocationsAssumption DEF TypesInv

LEMMA TypesInductive ==
    ASSUME TypesInv, [Next]_vars
    PROVE  TypesInv'
<1> DEFINE Files == /\ artifacts \in Artifacts /\ artifacts.snapshot \in SnapshotsSeen
                    /\ \E files \in Releases : artifacts.locations = files.locations
                    /\ changes \in 0 .. MaxChanges
           Place == /\ at \in ToSet(Steps) \cup {"idle", "verify"}
                    /\ at \notin {"idle", "migrate"} => migrated
                    /\ ~migrated => db = EmptyTables
           Report == report = Unread \/ report \subseteq {"seed", "reset", "validate-match-data"}
           Failures == failures \in 0 .. MaxFailures
<1>1. Sane(db) /\ Files /\ Place /\ Report /\ Failures
  BY DEF TypesInv, TypeOK, Sane
<1>2. SUFFICES Sane(db)' /\ Files' /\ Place' /\ Report' /\ Failures'
  BY DEF TypesInv, TypeOK, Sane
<1>3. ASSUME NEW step, NEW tables, Run(step, tables)
      PROVE  Files' /\ Report' /\ Failures'
  BY <1>1, <1>3 DEF Run
<1> HIDE DEF Files, Report, Failures
<1>4. CASE Migrate
  BY <1>1, <1>3, <1>4, StepsFollow DEF Migrate, Run
<1>5. CASE LoadGrao
  <2>1. Sane(db')
    BY <1>1, <1>5, ArtifactsAre, ReloadStaysSane DEF LoadGrao, Run
  <2> QED
    BY <1>1, <1>3, <1>5, <2>1, StepsFollow DEF LoadGrao, Run
<1>6. CASE IngestSnapshot
  <2>1. Sane(db')
    BY <1>1, <1>6, ArtifactsAre, IngestStaysSane DEF IngestSnapshot, Run
  <2> QED
    BY <1>1, <1>3, <1>6, <2>1, StepsFollow DEF IngestSnapshot, Run
<1>7. CASE LoadLocations
  <2>1. Unmatched(db, artifacts.locations) = {}
        /\ db' = [db EXCEPT !.locations = artifacts.locations]
    BY <1>7 DEF LoadLocations, Guards, Run
  <2>2. Sane([db EXCEPT !.locations = artifacts.locations])
    BY <1>1, <2>1, ArtifactsAre, LocationsStaySane
  <2> QED
    BY <1>1, <1>3, <1>7, <2>1, <2>2, StepsFollow DEF LoadLocations, Run
<1>8. CASE RestampDistricts
  <2>1. Sane(db')
    BY <1>1, <1>8, RestampStaysSane DEF RestampDistricts, Run
  <2> QED
    BY <1>1, <1>3, <1>8, <2>1, StepsFollow DEF RestampDistricts, Run
<1> USE DEF Files, Report, Failures
<1>9. CASE RefuseLocations
  BY <1>1, <1>9 DEF RefuseLocations, EndSeed
<1>10. CASE StepFails
  BY <1>1, <1>10, SeedAssumption DEF StepFails, EndSeed
<1>11. CASE Verify
  <2>1. Remedies(db) \subseteq {"seed", "reset", "validate-match-data"}
    BY DEF Remedies, CheckInstitutionSet, CheckCatchmentEdges, CheckGraoAddresses,
           CheckAddressDistricts, CheckInstitutionDistricts, CheckInstitutionLocations,
           CheckKnownDistricts, CheckRoutingCase, CheckMatchData
  <2> HIDE DEF Remedies
  <2> QED
    BY <1>1, <1>11, <2>1 DEF Verify
<1>12. CASE StartSeed \/ ResetAndSeed
  BY <1>1, <1>12, StepsFollow, EmptyIsSane DEF StartSeed, ResetAndSeed
<1>13. ASSUME NEW files \in Artifacts, files.snapshot \in SnapshotsSeen,
              \E f \in Releases : files.locations = f.locations, ReplaceArtifacts(files)
       PROVE  Sane(db)' /\ Files' /\ Place' /\ Report' /\ Failures'
  BY <1>1, <1>13, SeedAssumption DEF ReplaceArtifacts
<1>14. CASE Checkout
  BY <1>13, <1>14, SeedAssumption DEF Checkout, SnapshotsSeen
<1>15. CASE Freeze
  <2> DEFINE files == [artifacts EXCEPT !.snapshot = Published]
  <2>1. files \in Artifacts /\ files.snapshot = Published /\ files.locations = artifacts.locations
    BY <1>1, SeedAssumption DEF Artifacts
  <2> HIDE DEF files
  <2>2. ReplaceArtifacts(files)
    BY <1>15 DEF Freeze, files
  <2> QED
    BY <1>1, <1>13, <2>1, <2>2 DEF SnapshotsSeen
<1>16. CASE UNCHANGED vars
  BY <1>1, <1>16 DEF vars
<1> QED
  BY <1>4, <1>5, <1>6, <1>7, <1>8, <1>9, <1>10, <1>11, <1>12, <1>14, <1>15, <1>16
     DEF Next, SeedStep

(* Whatever is checked out, frozen or fails: the tables, the artifacts and  *)
(* the report are well typed, and the foreign keys hold.                    *)
THEOREM AlwaysWellTyped == Spec => []TypeOK
<1>1. TypesInv => TypeOK
  BY DEF TypesInv
<1> QED
  BY <1>1, TypesInit, TypesInductive, PTL DEF Spec

-----------------------------------------------------------------------------
(* What each step of a seed leaves for the next, as long as nothing is      *)
(* checked out or frozen.                                                   *)

GraoLoaded == db.grao = artifacts.grao
SnapshotIngested ==
    /\ ToSet(PlanInstitutions(artifacts.snapshot)) \subseteq DOMAIN db.institutions
    /\ PlanEdges(artifacts.snapshot) \subseteq db.edges
LocationsLoaded == db.locations = artifacts.locations
Restamped == \A a \in DOMAIN db.addresses :
                Speaks(1, db.grao, a) => db.addresses[a] = Says(1, db.grao, a)

SeedInv ==
    steady =>
        /\ at \in {"ingest", "institution-locations", "restamp-districts", "verify"} => GraoLoaded
        /\ at \in {"institution-locations", "restamp-districts", "verify"} => SnapshotIngested
        /\ at \in {"restamp-districts", "verify"} => LocationsLoaded
        /\ at = "verify" => Restamped

LEMMA SeedInductive ==
    ASSUME Tables(db), SeedInv, [Next]_vars
    PROVE  SeedInv'
<1> USE DEF GraoLoaded, SnapshotIngested, LocationsLoaded
<1>1. CASE Migrate
  BY <1>1, StepsFollow DEF Migrate, Run, SeedInv
<1>2. CASE LoadGrao
  <2>1. db'.grao = artifacts.grao
    BY <1>2 DEF LoadGrao, Run, AfterReload, Tables, Fields
  <2> QED
    BY <1>2, <2>1, StepsFollow DEF LoadGrao, Run, SeedInv
<1>3. CASE IngestSnapshot
  <2>1. /\ DOMAIN db'.institutions = DOMAIN db.institutions
                \cup ToSet(PlanInstitutions(artifacts.snapshot))
        /\ db'.edges = db.edges \cup PlanEdges(artifacts.snapshot)
        /\ db'.grao = db.grao
    BY <1>3, IngestAdds DEF IngestSnapshot, Run
  <2> QED
    BY <1>3, <2>1, StepsFollow DEF IngestSnapshot, Run, SeedInv
<1>4. CASE LoadLocations
  <2>1. /\ db'.locations = artifacts.locations /\ db'.grao = db.grao
        /\ db'.institutions = db.institutions /\ db'.edges = db.edges
    BY <1>4 DEF LoadLocations, Run, Tables, Fields
  <2> QED
    BY <1>4, <2>1, StepsFollow DEF LoadLocations, Run, SeedInv
<1>5. CASE RestampDistricts
  <2>1. /\ DOMAIN db'.institutions = DOMAIN db.institutions
        /\ db'.edges = db.edges /\ db'.grao = db.grao /\ db'.locations = db.locations
        /\ Restamped'
    BY <1>5, RestampKeeps DEF RestampDistricts, Run, Restamped
  <2> HIDE DEF Restamped
  <2> QED
    BY <1>5, <2>1, StepsFollow DEF RestampDistricts, Run, SeedInv
<1>6. CASE RefuseLocations \/ StepFails \/ Verify
  BY <1>6 DEF RefuseLocations, StepFails, EndSeed, Verify, SeedInv
<1>7. CASE StartSeed \/ ResetAndSeed
  BY <1>7, StepsFollow DEF StartSeed, ResetAndSeed, SeedInv
<1>8. CASE Checkout \/ Freeze
  BY <1>8 DEF Checkout, Freeze, ReplaceArtifacts, SeedInv
<1>9. CASE UNCHANGED vars
  BY <1>9 DEF vars, SeedInv, Restamped
<1> QED
  BY <1>1, <1>2, <1>3, <1>4, <1>5, <1>6, <1>7, <1>8, <1>9 DEF Next, SeedStep

\* What a seed of an empty database leaves.
LEMMA CleanIs ==
    ASSUME NEW files
    PROVE  LET clean == CleanSeed(files)
               s == files.snapshot
           IN  /\ DOMAIN clean.institutions = ToSet(PlanInstitutions(s))
               /\ DOMAIN clean.addresses = PlanAddresses(s)
               /\ clean.edges = PlanEdges(s)
               /\ clean.grao = files.grao /\ clean.locations = files.locations
<1> DEFINE loaded == AfterReload(EmptyTables, files.grao)
           ingested == AfterIngest(loaded, files.snapshot)
           located == [ingested EXCEPT !.locations = files.locations]
<1>1. /\ Tables(loaded) /\ loaded.grao = files.grao /\ loaded.edges = {}
      /\ DOMAIN loaded.institutions = {} /\ DOMAIN loaded.addresses = {}
  BY DEF AfterReload, EmptyTables, Tables, Fields
<1> HIDE DEF loaded
<1>2. /\ DOMAIN ingested.institutions = ToSet(PlanInstitutions(files.snapshot))
      /\ DOMAIN ingested.addresses = PlanAddresses(files.snapshot)
      /\ ingested.edges = PlanEdges(files.snapshot)
      /\ ingested.grao = files.grao
  BY <1>1, IngestAdds
<1>3. Tables(ingested)
  BY <1>1, IngestGrows DEF Grown
<1> HIDE DEF ingested
<1>4. /\ Tables(located) /\ located.locations = files.locations
      /\ located.institutions = ingested.institutions /\ located.edges = ingested.edges
      /\ located.addresses = ingested.addresses /\ located.grao = ingested.grao
  BY <1>2, <1>3 DEF Tables, Fields
<1> HIDE DEF located
<1>5. CleanSeed(files) = AfterRestamp(located)
  BY DEF CleanSeed, located, ingested, loaded
<1> QED
  BY <1>2, <1>4, <1>5, RestampKeeps

(* When a seed is through and nothing was checked out or frozen meanwhile,  *)
(* whatever was in the database before and whichever seeds had failed, all  *)
(* a clean seed puts there is there, under the districts of the classifier. *)
THEOREM AlwaysSeeded == Spec => []SeededMeans
<1>1. Init => SeedInv
  BY DEF Init, SeedInv
<1>2. TypesInv /\ SeedInv /\ [Next]_vars => SeedInv'
  BY SeedInductive DEF TypesInv
<1>3. SeedInv => SeededMeans
  BY CleanIs DEF SeedInv, SeededMeans, GraoLoaded, SnapshotIngested, LocationsLoaded, Restamped
<1> QED
  BY <1>1, <1>2, <1>3, TypesInit, TypesInductive, PTL DEF Spec

-----------------------------------------------------------------------------
(* Verification.  What passed stands until a seed begins or the artifacts   *)
(* change; and every address has come with an edge.                         *)

\* The database has the keys and the edges of the snapshot.
SameKeys ==
    /\ DOMAIN db.institutions = ToSet(PlanInstitutions(artifacts.snapshot))
    /\ db.edges = PlanEdges(artifacts.snapshot)

VerifyInv ==
    /\ DOMAIN db.addresses = {e[1] : e \in db.edges}
    /\ report = {} => at = "idle" /\ SameKeys

LEMMA NoRemedyMeans ==
    ASSUME Remedies(db) = {}
    PROVE  SameKeys
<1>1. CheckInstitutionSet(db) = {} /\ CheckCatchmentEdges(db) = {}
  BY DEF Remedies
<1>2. DOMAIN db.institutions = ToSet(PlanInstitutions(artifacts.snapshot))
  BY <1>1 DEF CheckInstitutionSet, SnapshotInstitutions
<1>3. db.edges = PlanEdges(artifacts.snapshot)
  BY <1>1 DEF CheckCatchmentEdges
<1> QED
  BY <1>2, <1>3 DEF SameKeys

LEMMA VerifyInductive ==
    ASSUME TypesInv, VerifyInv, [Next]_vars
    PROVE  VerifyInv'
<1>1. Tables(db)
  BY DEF TypesInv
<1>2. ASSUME NEW step, NEW tables, step # "idle", Run(step, tables),
             DOMAIN tables.addresses = {e[1] : e \in tables.edges}
      PROVE  VerifyInv'
  <2>1. at = step /\ db' = tables /\ report' = report
    BY <1>2 DEF Run
  <2>2. report # {}
    BY <1>2, <2>1 DEF VerifyInv
  <2> QED
    BY <1>2, <2>1, <2>2 DEF VerifyInv
<1>3. CASE Migrate
  BY <1>2, <1>3 DEF Migrate, VerifyInv
<1>4. CASE LoadGrao
  <2> DEFINE U == AfterReload(db, artifacts.grao)
  <2>1. U.addresses = db.addresses /\ U.edges = db.edges
    BY <1>1 DEF AfterReload, Tables, Fields
  <2> HIDE DEF U
  <2> QED
    BY <1>2, <1>4, <2>1 DEF LoadGrao, VerifyInv, U
<1>5. CASE IngestSnapshot
  <2> DEFINE U == AfterIngest(db, artifacts.snapshot)
  <2>1. DOMAIN U.addresses = DOMAIN db.addresses \cup PlanAddresses(artifacts.snapshot)
        /\ U.edges = db.edges \cup PlanEdges(artifacts.snapshot)
    BY <1>1, IngestAdds
  <2> HIDE DEF U
  <2>2. DOMAIN U.addresses = {e[1] : e \in U.edges}
    BY <2>1 DEF VerifyInv, PlanAddresses
  <2> QED
    BY <1>2, <1>5, <2>2 DEF IngestSnapshot, U
<1>6. CASE LoadLocations
  <2> DEFINE U == [db EXCEPT !.locations = artifacts.locations]
  <2>1. U.addresses = db.addresses /\ U.edges = db.edges
    BY <1>1 DEF Tables, Fields
  <2> HIDE DEF U
  <2> QED
    BY <1>2, <1>6, <2>1 DEF LoadLocations, VerifyInv, U
<1>7. CASE RestampDistricts
  <2> DEFINE U == AfterRestamp(db)
  <2>1. DOMAIN U.addresses = DOMAIN db.addresses /\ U.edges = db.edges
    BY <1>1, RestampKeeps
  <2> HIDE DEF U
  <2> QED
    BY <1>2, <1>7, <2>1 DEF RestampDistricts, VerifyInv, U
<1>8. CASE RefuseLocations \/ StepFails
  BY <1>8 DEF RefuseLocations, StepFails, EndSeed, VerifyInv
<1>9. CASE Verify
  <2>1. /\ report' = IF migrated THEN Remedies(db) ELSE {"seed"}
        /\ at' = "idle" /\ UNCHANGED <<db, artifacts>>
    BY <1>9 DEF Verify
  <2>2. report' = {} => Remedies(db) = {}
    BY <2>1
  <2> QED
    BY <2>1, <2>2, NoRemedyMeans DEF VerifyInv, SameKeys
<1>10. CASE StartSeed
  BY <1>10 DEF StartSeed, VerifyInv, Unread
<1>11. CASE ResetAndSeed
  <2>1. DOMAIN EmptyTables.addresses = {} /\ EmptyTables.edges = {}
    BY DEF EmptyTables
  <2>2. db' = EmptyTables /\ report' = Unread
    BY <1>11 DEF ResetAndSeed
  <2> QED
    BY <2>1, <2>2 DEF VerifyInv, Unread
<1>12. CASE Checkout \/ Freeze
  <2>1. /\ db' = db /\ at' = at
        /\ report' = IF at = "idle" THEN Unread ELSE report
    BY <1>12 DEF Checkout, Freeze, ReplaceArtifacts
  <2> QED
    BY <2>1 DEF VerifyInv, Unread
<1>13. CASE UNCHANGED vars
  BY <1>13 DEF vars, VerifyInv, SameKeys
<1> QED
  BY <1>3, <1>4, <1>5, <1>6, <1>7, <1>8, <1>9, <1>10, <1>11, <1>12, <1>13
     DEF Next, SeedStep

(* "A dirty database must not pass verification": one that passes has the   *)
(* institutions, the addresses and the catchments of a clean seed from the  *)
(* artifacts, whatever was ever seeded into it.                             *)
THEOREM VerifiedAlwaysMeans == Spec => []VerifiedIsTheSnapshot
<1>1. Init => VerifyInv
  BY DEF Init, VerifyInv, EmptyTables, Unread
<1>2. TypesInv /\ VerifyInv /\ [Next]_vars => VerifyInv'
  BY VerifyInductive
<1>3. VerifyInv => VerifiedIsTheSnapshot
  BY CleanIs DEF VerifiedIsTheSnapshot, VerifyInv, SameKeys, PlanAddresses
<1> QED
  BY <1>1, <1>2, <1>3, TypesInit, TypesInductive, PTL DEF Spec
=============================================================================
