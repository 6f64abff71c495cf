------------------------ MODULE CatalogueReadsProofs ------------------------
(***************************************************************************)
(* What the readers of the catalogue rely on, for any number of            *)
(* institutions, addresses, snapshots, classifiers and loads.              *)
(***************************************************************************)
EXTENDS CatalogueReads, CatalogueTablesProofs

-----------------------------------------------------------------------------
(* The rows of institution_locations.  Whoever has truncated the table has  *)
(* taken away all there is in it, and nobody else has truncated it since.   *)

OwnedByOne ==
    /\ DOMAIN load = Loaders
    /\ Tables(db)
    /\ \A l \in Truncated : load[l].removed = db.locations
    /\ \A l, m \in Truncated : l = m

LocationsInv == OwnedByOne /\ LocationsAreOneFile

\* A step that leaves the rows and the loads alone, whatever else it commits.
LEMMA OthersKeepLocations ==
    ASSUME LocationsInv, UNCHANGED load, Grown(db, db')
    PROVE  LocationsInv'
BY DEF LocationsInv, OwnedByOne, LocationsAreOneFile, Truncated, Grown, Tables

LEMMA StatementKeepsLocations ==
    ASSUME LocationsInv, UNCHANGED <<db, load>>
    PROVE  LocationsInv'
BY DEF LocationsInv, OwnedByOne, LocationsAreOneFile, Truncated, Tables

\* A load that moves without having truncated, or gives up.
LEMMA LoadKeepsLocations ==
    ASSUME LocationsInv, UNCHANGED db, NEW l \in Loaders, NEW label,
           label \notin {"truncated", "loaded"}, load[l].at # "loaded", LoadGoesTo(l, label, {})
    PROVE  LocationsInv'
BY DEF LocationsInv, OwnedByOne, LocationsAreOneFile, Truncated, Tables, LoadGoesTo

LEMMA LocationsInductive ==
    ASSUME LocationsInv, [Next]_vars
    PROVE  LocationsInv'
<1> USE DEF CommitTables
<1>1. CASE Ingest
  BY <1>1, IngestGrows, OthersKeepLocations DEF Ingest, LocationsInv, OwnedByOne
<1>2. CASE Restamp
  BY <1>2, RestampGrows, OthersKeepLocations DEF Restamp, LocationsInv, OwnedByOne
<1>3. CASE Reload
  BY <1>3, ReloadGrows, OthersKeepLocations DEF Reload, LocationsInv, OwnedByOne
<1>4. ASSUME NEW l \in Loaders, CheckFile(l)
      PROVE  LocationsInv'
  BY <1>4, LoadKeepsLocations DEF CheckFile
<1>5. ASSUME NEW l \in Loaders, Truncate(l)
      PROVE  LocationsInv'
  BY <1>5 DEF Truncate, LoadGoesTo, Truncated, LocationsInv, OwnedByOne, LocationsAreOneFile,
              Tables
<1>6. ASSUME NEW l \in Loaders, InsertLocations(l)
      PROVE  LocationsInv'
  <2>1. load[l].removed = db.locations /\ l \in Truncated
    BY <1>6 DEF InsertLocations, Truncated, LocationsInv, OwnedByOne
  <2>2. db'.locations = File[l] /\ Tables(db')
    BY <1>6, <2>1 DEF InsertLocations, LocationsInv, OwnedByOne, Tables, Fields
  <2>3. load' = [load EXCEPT ![l] = [at |-> "loaded", removed |-> {}]] /\ DOMAIN load = Loaders
    BY <1>6 DEF InsertLocations, LoadGoesTo, LocationsInv, OwnedByOne
  <2>4. Truncated' = {}
    BY <2>1, <2>3 DEF Truncated, LocationsInv, OwnedByOne
  <2> QED
    BY <2>2, <2>3, <2>4 DEF LocationsInv, OwnedByOne, LocationsAreOneFile
<1>7. ASSUME NEW l \in Loaders, FailLoad(l)
      PROVE  LocationsInv'
  BY <1>7, LoadKeepsLocations DEF FailLoad
<1>8. CASE UNCHANGED <<db, load>>
  BY <1>8, StatementKeepsLocations
<1> QED
  BY <1>1, <1>2, <1>3, <1>4, <1>5, <1>6, <1>7, <1>8
  DEF Next, vars, Publish, BeginMatch, AddressNotFound, ReadContext, ReadKindergartens,
      ReadNurseries, ReadPreschoolsByAddress, ReadPreschoolsByDistrict, BeginGet, ReadList,
      InstitutionNotFound, ReadInstitution, ReadLocations, ReadCoverage, Respond, CloseSession,
      Statement

(* However many loads of institution_locations run, and whatever ingests    *)
(* commit beside them, the table is empty or the file of one of them.       *)
THEOREM LocationsAlwaysOneFile == Spec => []LocationsAreOneFile
<1>1. Init => LocationsInv
  BY DEF Init, EmptyTables, LocationsInv, OwnedByOne, LocationsAreOneFile, Truncated, Tables,
         Fields
<1>2. LocationsInv /\ [Next]_vars => LocationsInv'
  BY LocationsInductive
<1>3. LocationsInv => LocationsAreOneFile
  BY DEF LocationsInv
<1> QED
  BY <1>1, <1>2, <1>3, PTL DEF Spec

-----------------------------------------------------------------------------
(* The GETs.  An institution once in the catalogue stays, so a page that    *)
(* has been shown once is never a 404 again; and until another transaction  *)
(* commits, what has been read is what the page would be now.               *)

PageStages ==
    /\ at \in {"context", "kindergartens", "nurseries", "preschools", "fallback"} => page = None
    /\ at \in {"list", "institution", "locations", "coverage", "respond"} => page # None
    /\ at = "list" => page \in Lists
    /\ at \in {"institution", "locations", "coverage"} => page \notin Lists

KnownPage == page \in Lists \/ page \in DOMAIN db.institutions

ReadSoFar ==
    /\ at = "locations" => got.row = db.institutions[page]
    /\ at = "coverage" => /\ got.row = db.institutions[page]
                          /\ got.locations = LocationsOf(db, page)
    /\ at = "respond" => got.row = Body(db)
    /\ at = "answered" => cache = Body(db)

PageInv ==
    /\ Tables(db)
    /\ DOMAIN got = DOMAIN Nothing
    /\ PageStages
    /\ page # None =>
        /\ cache # None \/ at \in {"locations", "coverage", "respond"} => KnownPage
        /\ seen.commits = {} => ReadSoFar

\* A commit either changes nothing or is noticed by the request it meets.
LEMMA CommitsKeepPage ==
    ASSUME PageInv, NEW U, NEW writer, CommitTables(U, writer),
           Tables(U), DOMAIN db.institutions \subseteq DOMAIN U.institutions
    PROVE  PageInv'
<1>1. /\ UNCHANGED <<page, cache, at, got>> /\ db' = U /\ Tables(U)
      /\ DOMAIN db.institutions \subseteq DOMAIN U.institutions
  BY DEF CommitTables, request
<1>2. PageStages' /\ Tables(db') /\ (DOMAIN got = DOMAIN Nothing)'
  BY <1>1 DEF PageInv, PageStages, Nothing
<1>3. KnownPage => KnownPage'
  BY <1>1 DEF KnownPage
<1>4. CASE U = db
  <2>1. UNCHANGED <<db, seen>>
    BY <1>4, <1>1 DEF CommitTables
  <2>2. UNCHANGED <<ReadSoFar, KnownPage>>
    BY <1>1, <2>1 DEF ReadSoFar, KnownPage, Body, Etag
  <2> QED
    BY <1>1, <1>2, <2>1, <2>2 DEF PageInv
<1>5. CASE U # db /\ at = "idle"
  <2>1. ReadSoFar'
    BY <1>5, <1>1 DEF ReadSoFar
  <2> QED
    BY <1>1, <1>2, <1>3, <2>1 DEF PageInv
<1>6. CASE U # db /\ at # "idle"
  <2>1. seen'.commits # {}
    BY <1>6 DEF CommitTables
  <2> QED
    BY <1>1, <1>2, <1>3, <2>1 DEF PageInv
<1> QED
  BY <1>4, <1>5, <1>6

LEMMA PageInductive ==
    ASSUME PageInv, [Next]_vars
    PROVE  PageInv'
<1>1. CASE Ingest
  BY <1>1, IngestGrows, CommitsKeepPage DEF Ingest, PageInv, Grown
<1>2. CASE Restamp
  BY <1>2, RestampGrows, CommitsKeepPage DEF Restamp, PageInv, Grown
<1>3. CASE Reload
  BY <1>3, ReloadGrows, CommitsKeepPage DEF Reload, PageInv, Grown
<1>4. ASSUME NEW l \in Loaders, InsertLocations(l)
      PROVE  PageInv'
  <2> DEFINE U == [db EXCEPT !.locations = (@ \ load[l].removed) \cup File[l]]
  <2>1. CommitTables(U, "load")
    BY <1>4 DEF InsertLocations
  <2>2. Tables(U) /\ U.institutions = db.institutions /\ U.addresses = db.addresses
    BY DEF PageInv, Tables, Fields
  <2> QED
    BY <2>1, <2>2, CommitsKeepPage DEF Grown
<1>5. CASE BeginMatch \/ AddressNotFound \/ ReadContext \/ ReadKindergartens \/ ReadNurseries
           \/ ReadPreschoolsByAddress \/ ReadPreschoolsByDistrict
  <2>1. /\ page = None /\ page' = None /\ Tables(db')
        /\ (DOMAIN got = DOMAIN Nothing)'
        /\ at' \in {"context", "kindergartens", "nurseries", "preschools", "fallback", "answered"}
    BY <1>5
    DEF BeginMatch, AddressNotFound, ReadContext, ReadKindergartens, ReadNurseries,
        ReadPreschoolsByAddress, ReadPreschoolsByDistrict, Statement, PageInv, PageStages
  <2> QED
    BY <2>1 DEF PageInv, PageStages
<1>6. CASE BeginGet
  BY <1>6 DEF BeginGet, PageInv, PageStages, KnownPage, ReadSoFar, Lists
<1>7. CASE ReadList
  <2>1. /\ UNCHANGED <<db, page, cache, seen>> /\ page \in Lists /\ at' = "respond"
        /\ got' = [got EXCEPT !.row = [list |-> ListOf(db, page)]]
    BY <1>7 DEF ReadList, Statement, PageInv, PageStages
  <2>2. ReadSoFar'
    BY <2>1 DEF ReadSoFar, Body, PageInv, Nothing
  <2> QED
    BY <1>7, <2>1, <2>2 DEF ReadList, Statement, PageInv, PageStages, KnownPage, Nothing
<1>8. CASE InstitutionNotFound
  <2>1. /\ UNCHANGED <<db, page, cache, seen, got>> /\ page \notin Lists /\ at' = "answered"
        /\ page \notin DOMAIN db.institutions /\ page # None
    BY <1>8 DEF InstitutionNotFound, Statement, PageInv, PageStages
  <2>2. cache = None
    BY <2>1 DEF PageInv, KnownPage
  <2>3. ReadSoFar'
    BY <2>1, <2>2 DEF ReadSoFar, Body
  <2> QED
    BY <2>1, <2>2, <2>3 DEF PageInv, PageStages, KnownPage
<1>9. CASE ReadInstitution
  <2>1. /\ UNCHANGED <<db, page, cache, seen>> /\ page \notin Lists /\ at' = "locations"
        /\ page \in DOMAIN db.institutions /\ page # None
        /\ got' = [got EXCEPT !.row = db.institutions[page]]
    BY <1>9 DEF ReadInstitution, Statement, PageInv, PageStages
  <2>2. ReadSoFar'
    BY <2>1 DEF ReadSoFar, PageInv, Nothing
  <2> QED
    BY <2>1, <2>2 DEF PageInv, PageStages, KnownPage, Nothing
<1>10. CASE ReadLocations
  <2>1. /\ UNCHANGED <<db, page, cache, seen>> /\ page \notin Lists /\ at' = "coverage"
        /\ page # None /\ at = "locations"
        /\ got' = [got EXCEPT !.locations = LocationsOf(db, page)]
    BY <1>10 DEF ReadLocations, Statement, PageInv, PageStages
  <2>2. seen.commits = {} => ReadSoFar'
    BY <2>1 DEF ReadSoFar, PageInv, Nothing
  <2> QED
    BY <2>1, <2>2 DEF PageInv, PageStages, KnownPage, Nothing
<1>11. CASE ReadCoverage
  <2>1. /\ UNCHANGED <<db, page, cache, seen>> /\ page \notin Lists /\ at' = "respond"
        /\ page # None /\ at = "coverage"
        /\ got' = [got EXCEPT !.row =
                        DetailOf(page, got.row, got.locations, Coverage(db, page))]
    BY <1>11 DEF ReadCoverage, Statement, PageInv, PageStages
  <2>2. page \in DOMAIN db.institutions
    BY <2>1 DEF PageInv, KnownPage
  <2>3. seen.commits = {} => ReadSoFar'
    BY <2>1, <2>2 DEF ReadSoFar, PageInv, Nothing, Body
  <2> QED
    BY <2>1, <2>2, <2>3 DEF PageInv, PageStages, KnownPage, Nothing
<1>12. CASE Respond
  <2>1. /\ UNCHANGED <<db, page, got, seen>> /\ at = "respond" /\ at' = "answered"
        /\ page # None /\ cache' = got.row
    BY <1>12 DEF Respond, Statement, PageInv, PageStages, Etag
  <2>2. KnownPage
    BY <2>1 DEF PageInv
  <2>3. seen.commits = {} => ReadSoFar'
    BY <2>1 DEF ReadSoFar, PageInv, Body
  <2> QED
    BY <2>1, <2>2, <2>3 DEF PageInv, PageStages, KnownPage
<1>13. CASE CloseSession
  BY <1>13 DEF CloseSession, PageInv, PageStages, KnownPage, ReadSoFar, Nothing
<1>14. CASE UNCHANGED <<db, page, cache, at, got, seen>>
  BY <1>14 DEF PageInv, PageStages, KnownPage, ReadSoFar, Body
<1> QED
  BY <1>1, <1>2, <1>3, <1>4, <1>5, <1>6, <1>7, <1>8, <1>9, <1>10, <1>11, <1>12, <1>13, <1>14
  DEF Next, vars, Publish, CheckFile, Truncate, FailLoad

(* A GET during which nothing was committed leaves the browser with the     *)
(* page as it is, a 304 no less than a 200, for any catalogue and page.     *)
THEOREM RevalidatedAlwaysCurrent == Spec => []RevalidatedIsCurrent
<1>1. Init => PageInv
  BY DEF Init, EmptyTables, PageInv, PageStages, ReadSoFar, Tables, Fields
<1>2. PageInv /\ [Next]_vars => PageInv'
  BY PageInductive
<1>3. PageInv => RevalidatedIsCurrent
  BY DEF PageInv, ReadSoFar, RevalidatedIsCurrent
<1> QED
  BY <1>1, <1>2, <1>3, PTL DEF Spec

-----------------------------------------------------------------------------
(* The matches.  The snapshot tells the district of a nursery; that of a    *)
(* preschool is derived from its catchment, and a district once derived is  *)
(* changed by a restamp only.                                               *)

NoPreschoolTold ==
    \A i \in 1 .. Len(Snapshots) : \A k \in Preschools :
        k \in ToSet(PlanInstitutions(Snapshots[i])) => PlanRow(Snapshots[i], k).district = NoDistrict

\* What the writers other than a restamp leave of what a match has read.
Kept(T, U) ==
    /\ T.edges \subseteq U.edges
    /\ DOMAIN T.addresses \subseteq DOMAIN U.addresses
    /\ \A a \in DOMAIN T.addresses :
        T.addresses[a] # NoDistrict => U.addresses[a] = T.addresses[a]
    /\ \A k \in Preschools \cap DOMAIN T.institutions :
        /\ k \in DOMAIN U.institutions
        /\ T.institutions[k].district # NoDistrict =>
                U.institutions[k].district = T.institutions[k].district

LEMMA UpsertsKeep ==
    ASSUME NEW T, Tables(T), NEW i \in 1 .. Len(Snapshots), NoPreschoolTold
    PROVE  Kept(T, AfterUpserts(T, Snapshots[i]))
<1> DEFINE s == Snapshots[i]
           ks == ToSet(PlanInstitutions(s))
           U == AfterUpserts(T, s)
           kept(k) == IF k \in DOMAIN T.institutions THEN T.institutions[k].district
                      ELSE NoDistrict
<1>1. /\ T.edges \subseteq U.edges
      /\ DOMAIN T.addresses \subseteq DOMAIN U.addresses
      /\ \A a \in DOMAIN T.addresses : U.addresses[a] = T.addresses[a]
      /\ DOMAIN T.institutions \subseteq DOMAIN U.institutions
  BY UpsertsGrow DEF Grown
<1>2. U.institutions = [k \in (DOMAIN T.institutions) \cup ks |->
            IF k \notin ks THEN T.institutions[k]
            ELSE [address |-> PlanRow(s, k).address,
                  district |-> IF PlanRow(s, k).district = NoDistrict THEN kept(k)
                               ELSE PlanRow(s, k).district]]
  BY DEF AfterUpserts, Tables, Fields
<1>3. \A k \in Preschools : k \in ks => PlanRow(s, k).district = NoDistrict
  BY DEF NoPreschoolTold
<1> HIDE DEF s, ks, U
<1>4. ASSUME NEW k \in Preschools \cap DOMAIN T.institutions
      PROVE  U.institutions[k].district = T.institutions[k].district
  BY <1>2, <1>3
<1> QED
  BY <1>1, <1>4 DEF Kept, U, s

LEMMA IngestKeeps ==
    ASSUME NEW T, Tables(T), NEW i \in 1 .. Len(Snapshots), NoPreschoolTold
    PROVE  Kept(T, AfterIngest(T, Snapshots[i]))
<1> DEFINE U == AfterUpserts(T, Snapshots[i])
           V == [U EXCEPT !.addresses = [a \in DOMAIN @ |->
                        IF @[a] = NoDistrict THEN Lookup(T.grao, a) ELSE @[a]]]
           ks == {k \in DOMAIN V.institutions \ Nurseries : V.institutions[k].district = NoDistrict}
           W == WithInstitutionsStamped(V, ks)
<1>1. Kept(T, U) /\ Tables(U)
  BY UpsertsKeep, UpsertsGrow DEF Grown
<1>2. AfterIngest(T, Snapshots[i]) = W
  BY DEF AfterIngest
<1>3. /\ Tables(V) /\ V.edges = U.edges /\ V.institutions = U.institutions
      /\ V.addresses = [a \in DOMAIN U.addresses |->
                IF U.addresses[a] = NoDistrict THEN Lookup(T.grao, a) ELSE U.addresses[a]]
  BY <1>1 DEF Tables, Fields
<1>4. \A k \in DOMAIN V.institutions \ Nurseries :
        V.institutions[k].district # NoDistrict => k \notin ks
  OBVIOUS
<1> HIDE DEF U, V, ks
<1>5. /\ W.addresses = V.addresses /\ W.edges = V.edges
      /\ DOMAIN W.institutions = DOMAIN V.institutions
      /\ \A k \in DOMAIN V.institutions \ ks : W.institutions[k] = V.institutions[k]
  BY <1>3, StampGrows
<1> HIDE DEF W
<1>6. \A a \in DOMAIN T.addresses : T.addresses[a] # NoDistrict => W.addresses[a] = T.addresses[a]
  BY <1>1, <1>3, <1>5 DEF Kept
<1>7. ASSUME NEW k \in Preschools \cap DOMAIN T.institutions
      PROVE  /\ k \in DOMAIN W.institutions
             /\ T.institutions[k].district # NoDistrict =>
                    W.institutions[k].district = T.institutions[k].district
  BY <1>1, <1>3, <1>4, <1>5, KindsAssumption DEF Kept
<1> QED
  BY <1>1, <1>2, <1>3, <1>5, <1>6, <1>7 DEF Kept

-----------------------------------------------------------------------------
(* What an offer comes from.                                                *)

Rows(T, a, district) ==
    AddressRows(T, a, Kindergartens) \cup DistrictRows(T, district, Nurseries)
        \cup PreschoolRows(T, a, district)

LEMMA OffersGrow ==
    ASSUME NEW R, NEW S, R \subseteq S
    PROVE  Offerings(R) \subseteq Offerings(S)
BY DEF Offerings

LEMMA OfferHasRow ==
    ASSUME NEW R, NEW o \in Offerings(R)
    PROVE  \E r \in R : r.institution = o.institution /\ o \in Offerings({r})
BY DEF Offerings

LEMMA AddressRowIs ==
    ASSUME NEW T, NEW a, NEW kind, NEW r \in AddressRows(T, a, kind)
    PROVE  /\ r.institution \in kind /\ <<a, r.institution>> \in T.edges
           /\ r = [institution |-> r.institution, basis |-> "address"]
<1>1. PICK k \in {x \in kind : <<a, x>> \in T.edges} :
        r = [institution |-> k, basis |-> "address"]
  BY DEF AddressRows
<1> QED
  BY <1>1

LEMMA DistrictRowIs ==
    ASSUME NEW T, NEW d, NEW kind, NEW r \in DistrictRows(T, d, kind)
    PROVE  /\ r.institution \in kind \cap DOMAIN T.institutions
           /\ d # NoDistrict /\ T.institutions[r.institution].district = d
           /\ r = [institution |-> r.institution, basis |-> "district"]
<1>1. PICK k \in kind \cap DOMAIN T.institutions :
        /\ d # NoDistrict /\ T.institutions[k].district = d
        /\ r = [institution |-> k, basis |-> "district"]
  BY DEF DistrictRows
<1> QED
  BY <1>1

\* The three kinds come from the three parts of the query.
LEMMA OfferComesFrom ==
    ASSUME NEW T, NEW q, NEW o \in Offered(T, q)
    PROVE  /\ q.address \in DOMAIN T.addresses
           /\ \E r \in Rows(T, q.address, T.addresses[q.address]) :
                /\ r.institution = o.institution /\ o \in Offerings({r})
                /\ KindOf(r.institution) \in q.kinds
                /\ \/ /\ r.institution \in Kindergartens
                       /\ r \in AddressRows(T, q.address, Kindergartens)
                   \/ /\ r.institution \in Nurseries
                      /\ r \in DistrictRows(T, T.addresses[q.address], Nurseries)
                   \/ /\ r.institution \in Preschools
                      /\ r \in PreschoolRows(T, q.address, T.addresses[q.address])
<1> DEFINE d == T.addresses[q.address]
<1>1. q.address \in DOMAIN T.addresses
  BY DEF Offered
<1>2. o \in Offerings(FindMatches(T, q.address, q.kinds))
  BY <1>1 DEF Offered
<1>3. PICK r \in FindMatches(T, q.address, q.kinds) :
        r.institution = o.institution /\ o \in Offerings({r})
  BY <1>2, OfferHasRow
<1>4. r \in Rows(T, q.address, d) /\ KindOf(r.institution) \in q.kinds
  BY DEF FindMatches, Rows
<1>5. /\ r \in AddressRows(T, q.address, Kindergartens) => r.institution \in Kindergartens
      /\ r \in DistrictRows(T, d, Nurseries) => r.institution \in Nurseries
      /\ r \in PreschoolRows(T, q.address, d) => r.institution \in Preschools
  <2>1. \A kind : r \in AddressRows(T, q.address, kind) => r.institution \in kind
    BY AddressRowIs
  <2>2. \A kind : r \in DistrictRows(T, d, kind) => r.institution \in kind
    BY DistrictRowIs
  <2>3. r \in PreschoolRows(T, q.address, d) =>
            r \in AddressRows(T, q.address, Preschools) \cup DistrictRows(T, d, Preschools)
    BY DEF PreschoolRows
  <2> QED
    BY <2>1, <2>2, <2>3
<1> QED
  BY <1>1, <1>3, <1>4, <1>5 DEF Rows

-----------------------------------------------------------------------------
(* The invariant of a match.  Of what every state since it began offers     *)
(* (`always`), each kind is in the answer once its statement has run; the   *)
(* district read first is the address's, or it had none and whatever is     *)
(* always offered is offered by the catchment.                              *)

DistrictRead ==
    /\ req.address \in DOMAIN db.addresses
    /\ got.district # NoDistrict => db.addresses[req.address] = got.district
    /\ got.district = NoDistrict =>
        \A o \in seen.always :
            /\ o.institution \notin Nurseries
            /\ o.institution \in Preschools => <<req.address, o.institution>> \in db.edges

Answered(kind) ==
    \A o \in seen.always : o.institution \in kind => o \in Offerings(got.results)

\* The fallback statement, whenever it runs, finds the preschools.
OwedByFallback ==
    \A o \in seen.always : o.institution \in Preschools =>
        \E r \in Found(DistrictRows(db, got.district, Preschools)) : o \in Offerings({r})

Answering ==
    /\ at \in {"kindergartens", "nurseries", "preschools", "fallback"} => DistrictRead
    /\ at \in {"nurseries", "preschools", "fallback"} => Answered(Kindergartens)
    /\ at \in {"preschools", "fallback"} => Answered(Nurseries)
    /\ at = "fallback" => OwedByFallback
    /\ at = "answered" /\ page = None => seen.always \subseteq Offerings(got.results)

MatchInv ==
    /\ seen.always \subseteq Offered(db, req)
    /\ at = "idle" => seen.always = {}
    /\ "restamp" \notin seen.commits => Answering

LEMMA KeptDistrictRows ==
    ASSUME NEW T, NEW U, Kept(T, U), NEW d
    PROVE  DistrictRows(T, d, Preschools) \subseteq DistrictRows(U, d, Preschools)
BY DEF Kept, DistrictRows

\* The writers other than a restamp.
LEMMA CommitsKeepAnswer ==
    ASSUME MatchInv, NEW U, NEW writer, Kept(db, U), CommitTables(U, writer)
    PROVE  MatchInv'
<1>1. UNCHANGED <<page, at, req, got>> /\ db' = U
  BY DEF CommitTables, request
<1>2. CASE U = db
  <2>1. UNCHANGED <<db, seen, page, at, req, got>>
    BY <1>1, <1>2 DEF CommitTables
  <2> QED
    BY <2>1 DEF MatchInv, Answering, DistrictRead, Answered, OwedByFallback, Found
<1>3. CASE U # db /\ at = "idle"
  <2>1. UNCHANGED seen /\ seen.always = {}
    BY <1>3 DEF CommitTables, MatchInv
  <2> QED
    BY <1>1, <1>3, <2>1 DEF MatchInv, Answering
<1>4. CASE U # db /\ at # "idle"
  <2>1. /\ seen'.always = seen.always \cap Offered(U, req)
        /\ seen'.commits = seen.commits \cup {writer}
    BY <1>4 DEF CommitTables
  <2>2. ASSUME DistrictRead
        PROVE  DistrictRead'
    BY <1>1, <2>1, <2>2 DEF DistrictRead, Kept
  <2>3. ASSUME OwedByFallback
        PROVE  OwedByFallback'
    <3>1. Found(DistrictRows(db, got.district, Preschools))
            \subseteq Found(DistrictRows(db, got.district, Preschools))'
      BY <1>1, KeptDistrictRows DEF Found
    <3> QED
      BY <2>1, <2>3, <3>1 DEF OwedByFallback
  <2>4. \A kind : Answered(kind) => Answered(kind)'
    BY <1>1, <2>1 DEF Answered
  <2>5. Answering => Answering'
    BY <1>1, <2>1, <2>2, <2>3, <2>4 DEF Answering
  <2> QED
    BY <1>1, <1>4, <2>1, <2>5 DEF MatchInv
<1> QED
  BY <1>2, <1>3, <1>4

LEMMA RestampsKeepAnswer ==
    ASSUME MatchInv, NEW U, CommitTables(U, "restamp")
    PROVE  MatchInv'
<1>1. UNCHANGED <<page, at, req, got>> /\ db' = U
  BY DEF CommitTables, request
<1>2. CASE U = db
  <2>1. UNCHANGED <<db, seen, page, at, req, got>>
    BY <1>1, <1>2 DEF CommitTables
  <2> QED
    BY <2>1 DEF MatchInv, Answering, DistrictRead, Answered, OwedByFallback, Found
<1>3. CASE U # db /\ at = "idle"
  <2>1. UNCHANGED seen /\ seen.always = {}
    BY <1>3 DEF CommitTables, MatchInv
  <2> QED
    BY <1>1, <1>3, <2>1 DEF MatchInv, Answering
<1>4. CASE U # db /\ at # "idle"
  BY <1>1, <1>4 DEF MatchInv, CommitTables
<1> QED
  BY <1>2, <1>3, <1>4

\* Where the answer to an offer of `always` is to be found now.
LEMMA AlwaysComesFrom ==
    ASSUME MatchInv, NEW o \in seen.always
    PROVE  LET d == db.addresses[req.address]
           IN  /\ req.address \in DOMAIN db.addresses
               /\ o.institution \in Kindergartens \cup Nurseries \cup Preschools
               /\ o.institution \in Kindergartens =>
                    \E r \in Found(AddressRows(db, req.address, Kindergartens)) : o \in Offerings({r})
               /\ o.institution \in Nurseries =>
                    \E r \in Found(DistrictRows(db, d, Nurseries)) : o \in Offerings({r})
               /\ o.institution \in Preschools =>
                    \E r \in Found(PreschoolRows(db, req.address, d)) :
                        o \in Offerings({r}) /\ r.institution = o.institution
<1>1. o \in Offered(db, req)
  BY DEF MatchInv
<1>2. Kindergartens \cap (Nurseries \cup Preschools) = {} /\ Nurseries \cap Preschools = {}
  BY KindsAssumption DEF Kindergartens
<1>3. PICK r \in Rows(db, req.address, db.addresses[req.address]) :
        /\ r.institution = o.institution /\ o \in Offerings({r})
        /\ KindOf(r.institution) \in req.kinds
        /\ \/ /\ r.institution \in Kindergartens
              /\ r \in AddressRows(db, req.address, Kindergartens)
           \/ /\ r.institution \in Nurseries
              /\ r \in DistrictRows(db, db.addresses[req.address], Nurseries)
           \/ /\ r.institution \in Preschools
              /\ r \in PreschoolRows(db, req.address, db.addresses[req.address])
  BY <1>1, OfferComesFrom
<1>4. \A T : r \in T => r \in Found(T)
  BY <1>3 DEF Found
<1>5. req.address \in DOMAIN db.addresses
  BY <1>1, OfferComesFrom
<1> QED
  BY <1>2, <1>3, <1>4, <1>5

LEMMA FoundIsAnswered ==
    ASSUME NEW S, NEW r \in S, NEW o \in Offerings({r})
    PROVE  o \in Offerings(S)
BY OffersGrow, {r} \subseteq S

LEMMA ContextKeepsMatch ==
    ASSUME MatchInv, ReadContext, DOMAIN got = DOMAIN Nothing
    PROVE  MatchInv'
<1>1. /\ UNCHANGED <<db, req, page, seen>> /\ at' = "kindergartens"
      /\ req.address \in DOMAIN db.addresses
      /\ got'.district = db.addresses[req.address]
  BY DEF ReadContext, Statement, Nothing
<1>2. ASSUME got'.district = NoDistrict, NEW o \in seen.always
      PROVE  /\ o.institution \notin Nurseries
             /\ o.institution \in Preschools => <<req.address, o.institution>> \in db.edges
  <2> DEFINE d == db.addresses[req.address]
  <2>1. \A kind : DistrictRows(db, d, kind) = {}
    BY <1>1, <1>2 DEF DistrictRows
  <2>2. o.institution \notin Nurseries
    BY <2>1, AlwaysComesFrom DEF Found
  <2>3. ASSUME o.institution \in Preschools
        PROVE  <<req.address, o.institution>> \in db.edges
    <3>1. PICK r \in PreschoolRows(db, req.address, d) : r.institution = o.institution
      BY <2>3, AlwaysComesFrom DEF Found
    <3>2. r \in AddressRows(db, req.address, Preschools)
      BY <2>1 DEF PreschoolRows
    <3> QED
      BY <3>1, <3>2, AddressRowIs
  <2> QED
    BY <2>2, <2>3
<1>3. DistrictRead'
  BY <1>1, <1>2 DEF DistrictRead
<1> QED
  BY <1>1, <1>3 DEF MatchInv, Answering

LEMMA KindergartensKeepMatch ==
    ASSUME MatchInv, ReadKindergartens, DOMAIN got = DOMAIN Nothing
    PROVE  MatchInv'
<1>1. /\ UNCHANGED <<db, req, page, seen>> /\ at = "kindergartens" /\ at' = "nurseries"
      /\ got'.results = Found(AddressRows(db, req.address, Kindergartens))
      /\ got'.district = got.district
  BY DEF ReadKindergartens, Statement, Nothing
<1>2. Answered(Kindergartens)'
  BY <1>1, AlwaysComesFrom, FoundIsAnswered DEF Answered
<1>3. DistrictRead => DistrictRead'
  BY <1>1 DEF DistrictRead
<1> QED
  BY <1>1, <1>2, <1>3 DEF MatchInv, Answering

LEMMA NurseriesKeepMatch ==
    ASSUME MatchInv, ReadNurseries, DOMAIN got = DOMAIN Nothing
    PROVE  MatchInv'
<1>1. /\ UNCHANGED <<db, req, page, seen>> /\ at = "nurseries" /\ at' = "preschools"
      /\ got'.results = got.results \cup Found(DistrictRows(db, got.district, Nurseries))
      /\ got'.district = got.district
  BY DEF ReadNurseries, Statement, Nothing
<1>2. DistrictRead => DistrictRead'
  BY <1>1 DEF DistrictRead
<1>3. Answered(Kindergartens) => Answered(Kindergartens)'
  BY <1>1, OffersGrow DEF Answered
<1>4. ASSUME DistrictRead, NEW o \in seen.always, o.institution \in Nurseries
      PROVE  o \in Offerings(got'.results)
  <2>1. db.addresses[req.address] = got.district
    BY <1>4 DEF DistrictRead
  <2>2. PICK r \in Found(DistrictRows(db, got.district, Nurseries)) : o \in Offerings({r})
    BY <1>4, <2>1, AlwaysComesFrom
  <2> QED
    BY <1>1, <2>2, FoundIsAnswered
<1>5. DistrictRead => Answered(Nurseries)'
  BY <1>1, <1>4 DEF Answered
<1> QED
  BY <1>1, <1>2, <1>3, <1>5 DEF MatchInv, Answering

LEMMA ByAddressKeepsMatch ==
    ASSUME MatchInv, ReadPreschoolsByAddress, DOMAIN got = DOMAIN Nothing
    PROVE  MatchInv'
<1> DEFINE byEdge == AddressRows(db, req.address, Preschools)
           d == db.addresses[req.address]
<1>1. /\ UNCHANGED <<db, req, page, seen>> /\ at = "preschools"
      /\ at' = IF Found(byEdge) = {} THEN "fallback" ELSE "answered"
      /\ got'.results = got.results \cup Found(byEdge)
      /\ got'.district = got.district
  BY DEF ReadPreschoolsByAddress, Statement, Nothing
<1>2. DistrictRead => DistrictRead'
  BY <1>1 DEF DistrictRead
<1>3. \A kind : Answered(kind) => Answered(kind)'
  BY <1>1, OffersGrow DEF Answered
<1>4. ASSUME NEW o \in seen.always, o.institution \in Preschools, byEdge # {}
      PROVE  \E r \in Found(byEdge) : o \in Offerings({r})
  BY <1>4, AlwaysComesFrom DEF PreschoolRows
<1>5. ASSUME DistrictRead, Found(byEdge) = {}, NEW o \in seen.always, o.institution \in Preschools
      PROVE  \E r \in Found(DistrictRows(db, got.district, Preschools)) : o \in Offerings({r})
  <2>1. byEdge = {}
    BY <1>4, <1>5
  <2>2. <<req.address, o.institution>> \notin db.edges
    BY <2>1, <1>5 DEF AddressRows
  <2>3. d = got.district
    BY <2>2, <1>5 DEF DistrictRead
  <2> QED
    BY <2>1, <2>3, <1>5, AlwaysComesFrom DEF PreschoolRows
<1>6. CASE Found(byEdge) = {}
  <2>1. DistrictRead => OwedByFallback'
    BY <1>1, <1>5, <1>6 DEF OwedByFallback, Found
  <2> QED
    BY <1>1, <1>2, <1>3, <1>6, <2>1 DEF MatchInv, Answering
<1>7. CASE Found(byEdge) # {}
  <2>1. byEdge # {}
    BY <1>7 DEF Found
  <2>2. Answered(Preschools)'
    BY <1>1, <1>4, <2>1, FoundIsAnswered DEF Answered
  <2>3. Answered(Kindergartens) /\ Answered(Nurseries) => seen.always \subseteq Offerings(got'.results)
    BY <1>1, <1>3, <2>2, AlwaysComesFrom DEF Answered
  <2> QED
    BY <1>1, <1>7, <2>3 DEF MatchInv, Answering
<1> QED
  BY <1>6, <1>7

LEMMA ByDistrictKeepsMatch ==
    ASSUME MatchInv, ReadPreschoolsByDistrict, DOMAIN got = DOMAIN Nothing
    PROVE  MatchInv'
<1>1. /\ UNCHANGED <<db, req, page, seen>> /\ at = "fallback" /\ at' = "answered"
      /\ got'.results = got.results \cup Found(DistrictRows(db, got.district, Preschools))
  BY DEF ReadPreschoolsByDistrict, Statement, Nothing
<1>2. \A kind : Answered(kind) => Answered(kind)'
  BY <1>1, OffersGrow DEF Answered
<1>3. OwedByFallback => Answered(Preschools)'
  BY <1>1, FoundIsAnswered DEF OwedByFallback, Answered
<1>4. Answered(Kindergartens) /\ Answered(Nurseries) /\ OwedByFallback =>
        seen.always \subseteq Offerings(got'.results)
  BY <1>1, <1>2, <1>3, AlwaysComesFrom DEF Answered
<1> QED
  BY <1>1, <1>4 DEF MatchInv, Answering

LEMMA MatchInductive ==
    ASSUME NoPreschoolTold, latest \in 1 .. Len(Snapshots), PageInv, MatchInv, [Next]_vars
    PROVE  MatchInv'
<1>1. CASE Ingest
  BY <1>1, IngestKeeps, CommitsKeepAnswer DEF Ingest, PageInv
<1>2. CASE Restamp
  BY <1>2, RestampsKeepAnswer DEF Restamp
<1>3. CASE Reload
  <2>1. PICK archive \in Archives : CommitTables(AfterReload(db, archive), "reload")
    BY <1>3 DEF Reload
  <2>2. Kept(db, AfterReload(db, archive))
    BY DEF AfterReload, Kept, PageInv, Tables, Fields
  <2> QED
    BY <2>1, <2>2, CommitsKeepAnswer
<1>4. ASSUME NEW l \in Loaders, InsertLocations(l)
      PROVE  MatchInv'
  <2> DEFINE U == [db EXCEPT !.locations = (@ \ load[l].removed) \cup File[l]]
  <2>1. CommitTables(U, "load")
    BY <1>4 DEF InsertLocations
  <2>2. Kept(db, U)
    BY DEF Kept, PageInv, Tables, Fields
  <2> QED
    BY <2>1, <2>2, CommitsKeepAnswer
<1>5. CASE BeginMatch
  BY <1>5 DEF BeginMatch, MatchInv, Answering
<1>6. CASE AddressNotFound
  <2>1. /\ UNCHANGED <<db, req, seen>> /\ at' = "answered"
        /\ req.address \notin DOMAIN db.addresses
    BY <1>6 DEF AddressNotFound, Statement
  <2>2. seen.always = {}
    BY <2>1 DEF MatchInv, Offered
  <2> QED
    BY <2>1, <2>2 DEF MatchInv, Answering
<1>7. CASE ReadContext \/ ReadKindergartens \/ ReadNurseries \/ ReadPreschoolsByAddress
           \/ ReadPreschoolsByDistrict
  BY <1>7, ContextKeepsMatch, KindergartensKeepMatch, NurseriesKeepMatch, ByAddressKeepsMatch,
     ByDistrictKeepsMatch DEF PageInv
<1>8. CASE BeginGet \/ CloseSession
  <2>1. UNCHANGED db /\ seen'.always = {} /\ at' \in {"idle", "list", "institution"}
    BY <1>8 DEF BeginGet, CloseSession
  <2> QED
    BY <2>1 DEF MatchInv, Answering
<1>9. CASE ReadList \/ InstitutionNotFound \/ ReadInstitution \/ ReadLocations \/ ReadCoverage
           \/ Respond
  <2>1. /\ UNCHANGED <<db, req, page, seen>> /\ page # None
        /\ at' \in {"locations", "coverage", "respond", "answered"}
    BY <1>9 DEF ReadList, InstitutionNotFound, ReadInstitution, ReadLocations, ReadCoverage,
                Respond, Statement, PageInv, PageStages
  <2> QED
    BY <2>1 DEF MatchInv, Answering
<1>10. CASE UNCHANGED <<db, page, at, req, got, seen>>
  BY <1>10 DEF MatchInv, Answering, DistrictRead, Answered, OwedByFallback, Found
<1> QED
  BY <1>1, <1>2, <1>3, <1>4, <1>5, <1>6, <1>7, <1>8, <1>9, <1>10
  DEF Next, vars, Publish, CheckFile, Truncate, FailLoad

LEMMA LatestInductive ==
    ASSUME latest \in 1 .. Len(Snapshots), [Next]_vars
    PROVE  latest' \in 1 .. Len(Snapshots)
<1>1. CASE Publish
  BY <1>1, ReadsAssumption DEF Publish
<1>2. CASE UNCHANGED latest
  BY <1>2
<1> QED
  BY <1>1, <1>2
  DEF Next, vars, Ingest, Restamp, Reload, CheckFile, Truncate, InsertLocations, FailLoad,
      BeginMatch, AddressNotFound, ReadContext, ReadKindergartens, ReadNurseries,
      ReadPreschoolsByAddress, ReadPreschoolsByDistrict, BeginGet, ReadList,
      InstitutionNotFound, ReadInstitution, ReadLocations, ReadCoverage, Respond, CloseSession,
      Statement

(* As long as no snapshot tells the district of a preschool (a NULL there   *)
(* "means backend-derived", pipeline.py), a match between whose statements  *)
(* anything but a restamp commits still has every offer that every state    *)
(* since it began would have made.                                          *)
THEOREM IngestAlwaysLeavesTheMatch ==
    ASSUME NoPreschoolTold
    PROVE  Spec => []IngestNeverHidesAMatch
<1> DEFINE Inv == latest \in 1 .. Len(Snapshots) /\ PageInv /\ MatchInv
<1>1. Init => Inv
  BY ReadsAssumption
  DEF Init, EmptyTables, PageInv, PageStages, ReadSoFar, Tables, Fields, MatchInv, Answering
<1>2. Inv /\ [Next]_vars => Inv'
  BY NoPreschoolTold, PageInductive, MatchInductive, LatestInductive
<1>3. Inv => IngestNeverHidesAMatch
  BY DEF MatchInv, Answering, IngestNeverHidesAMatch
<1> QED
  BY <1>1, <1>2, <1>3, PTL DEF Spec

-----------------------------------------------------------------------------
(* Types.  A load that has passed its guards still may: institutions are    *)
(* never deleted, so whatever commits before its INSERT, its rows refer to  *)
(* institutions there are.                                                  *)

ReadsTypes ==
    /\ TypeOK
    /\ Sane(db)
    /\ DOMAIN got = DOMAIN Nothing
    /\ \A l \in Loaders : load[l].at \in {"checked", "truncated"} => Unmatched(db, File[l]) = {}

LEMMA ReadsInit ==
    ASSUME Init
    PROVE  ReadsTypes
<1>1. /\ DOMAIN EmptyTables = Fields /\ EmptyTables.edges = {} /\ EmptyTables.grao = {}
      /\ EmptyTables.locations = {} /\ DOMAIN EmptyTables.institutions = {}
      /\ DOMAIN EmptyTables.addresses = {}
  BY DEF EmptyTables, Fields
<1>2. Sane(db)
  BY <1>1, FS_EmptySet DEF Init, Sane, Tables, WellFormed
<1> QED
  BY <1>2, ReadsAssumption DEF Init, ReadsTypes, TypeOK, Sane, NoRequest, Nothing

LEMMA SnapshotsPlan == \A i \in 1 .. Len(Snapshots) : Plans(Snapshots[i])
BY SnapshotPlans, ReadsAssumption, PlanAssumption

\* Another writer commits tables with all the institutions there were.
LEMMA CommitKeepsTypes ==
    ASSUME ReadsTypes, NEW tables, Sane(tables), Grown(db, tables),
           NEW writer \in {"ingest", "restamp", "reload"}, CommitTables(tables, writer),
           UNCHANGED <<latest, load>>
    PROVE  ReadsTypes'
<1>1. db' = tables /\ UNCHANGED request
  BY DEF CommitTables
<1>2. seen'.commits \subseteq {"ingest", "restamp", "reload", "load"}
  BY DEF CommitTables, ReadsTypes, TypeOK
<1>3. DOMAIN db.institutions \subseteq DOMAIN db'.institutions
  BY <1>1 DEF Grown
<1> QED
  BY <1>1, <1>2, <1>3 DEF ReadsTypes, TypeOK, Sane, request, Unmatched

\* A load's row goes to `label` and nothing else changes.
LEMMA LoadKeepsTypes ==
    ASSUME ReadsTypes, NEW l \in Loaders,
           NEW label \in {"checked", "truncated", "loaded", "done", "refused"},
           NEW removed \in SUBSET LocationRow, LoadGoesTo(l, label, removed),
           label \in {"checked", "truncated"} => Unmatched(db, File[l]) = {},
           UNCHANGED <<db, latest, page, cache, at, req, got, seen>>
    PROVE  ReadsTypes'
<1>1. load' = [load EXCEPT ![l] = [at |-> label, removed |-> removed]]
  BY DEF LoadGoesTo
<1>2. load' \in [Loaders -> [at : {"start", "checked", "truncated", "loaded", "done", "refused"},
                             removed : SUBSET LocationRow]]
  BY <1>1 DEF ReadsTypes, TypeOK
<1>3. \A m \in Loaders : load'[m] = IF m = l THEN [at |-> label, removed |-> removed] ELSE load[m]
  BY <1>1 DEF ReadsTypes, TypeOK
<1>4. \A m \in Loaders : load'[m].at \in {"checked", "truncated"} => Unmatched(db, File[m]) = {}
  BY <1>3 DEF ReadsTypes
<1>5. TypeOK'
  BY <1>2 DEF ReadsTypes, TypeOK
<1> QED
  BY <1>4, <1>5 DEF ReadsTypes

LEMMA InsertKeepsTypes ==
    ASSUME ReadsTypes, LocationsInv, NEW l \in Loaders, InsertLocations(l)
    PROVE  ReadsTypes'
<1> DEFINE tables == [db EXCEPT !.locations = File[l]]
<1>1. l \in Truncated /\ load[l].removed = db.locations
  BY DEF InsertLocations, Truncated, LocationsInv, OwnedByOne
<1>2. db' = tables /\ UNCHANGED <<latest, request>>
  <2>1. db' = [db EXCEPT !.locations = (@ \ load[l].removed) \cup File[l]]
        /\ UNCHANGED <<latest, request>>
    BY DEF InsertLocations, CommitTables
  <2>2. (db.locations \ load[l].removed) \cup File[l] = File[l]
    BY <1>1
  <2> QED
    BY <2>1, <2>2
<1>3. Sane(tables) /\ tables.institutions = db.institutions
  <2>1. File[l] \in SUBSET LocationRow
    BY ReadsAssumption
  <2>2. Unmatched(db, File[l]) = {}
    BY <1>1 DEF ReadsTypes, Truncated
  <2> QED
    BY <2>1, <2>2, LocationsStaySane, FilesAssumption DEF ReadsTypes, Sane, Tables, Fields
<1> HIDE DEF tables
<1>4. load' \in [Loaders -> [at : {"start", "checked", "truncated", "loaded", "done", "refused"},
                             removed : SUBSET LocationRow]]
      /\ \A m \in Loaders : load'[m].at \in {"checked", "truncated"} => load'[m] = load[m]
  <2>1. load' = [load EXCEPT ![l] = [at |-> "loaded", removed |-> {}]]
    BY DEF InsertLocations, LoadGoesTo
  <2> QED
    BY <2>1 DEF ReadsTypes, TypeOK
<1>5. seen'.commits \subseteq {"ingest", "restamp", "reload", "load"}
  BY DEF InsertLocations, CommitTables, ReadsTypes, TypeOK
<1> QED
  BY <1>2, <1>3, <1>4, <1>5 DEF ReadsTypes, TypeOK, Sane, request, Unmatched

\* A statement of a request adds rows of institutions there are.
LEMMA ReadKeepsTypes ==
    ASSUME ReadsTypes, UNCHANGED <<db, latest, load>>, DOMAIN got' = DOMAIN Nothing,
           got'.district \in Districts \cup {NoDistrict},
           \A r \in got'.results : r.institution \in DOMAIN db.institutions,
           req'.address \in Address \cup {None} /\ req'.kinds \in Requests \cup {{}},
           seen'.commits = seen.commits \/ seen'.commits = {}
    PROVE  ReadsTypes'
BY DEF ReadsTypes, TypeOK

LEMMA RowsAreThere ==
    ASSUME ReadsTypes, NEW a, NEW kind, NEW d
    PROVE  /\ \A r \in AddressRows(db, a, kind) : r.institution \in DOMAIN db.institutions
           /\ \A r \in DistrictRows(db, d, kind) : r.institution \in DOMAIN db.institutions
<1>1. db.edges \subseteq (DOMAIN db.addresses) \X (DOMAIN db.institutions)
  BY DEF ReadsTypes, TypeOK, WellFormed
<1>2. \A k : <<a, k>> \in db.edges => k \in DOMAIN db.institutions
  BY <1>1
<1>3. ASSUME NEW r \in AddressRows(db, a, kind)
      PROVE  r.institution \in DOMAIN db.institutions
  <2>1. PICK k \in kind : <<a, k>> \in db.edges /\ r = [institution |-> k, basis |-> "address"]
    BY <1>3 DEF AddressRows
  <2> QED
    BY <1>2, <2>1
<1>4. ASSUME NEW r \in DistrictRows(db, d, kind)
      PROVE  r.institution \in DOMAIN db.institutions
  BY <1>4 DEF DistrictRows
<1> QED
  BY <1>3, <1>4

LEMMA ReadsInductive ==
    ASSUME ReadsTypes, LocationsInv, [Next]_vars
    PROVE  ReadsTypes'
<1>1. Sane(db) /\ Tables(db) /\ latest \in 1 .. Len(Snapshots)
  BY DEF ReadsTypes, Sane, TypeOK
<1>2. CASE Publish
  BY <1>2, ReadsAssumption DEF Publish, ReadsTypes, TypeOK
<1>3. CASE Ingest
  <2>1. Sane(AfterIngest(db, Snapshots[latest])) /\ Grown(db, AfterIngest(db, Snapshots[latest]))
    BY <1>1, IngestStaysSane, IngestGrows, SnapshotsPlan
  <2> QED
    BY <1>3, <2>1, CommitKeepsTypes DEF Ingest
<1>4. CASE Restamp
  <2>1. Sane(AfterRestamp(db)) /\ Grown(db, AfterRestamp(db))
    BY <1>1, RestampStaysSane, RestampGrows
  <2> QED
    BY <1>4, <2>1, CommitKeepsTypes DEF Restamp
<1>5. CASE Reload
  <2>1. PICK archive \in Archives : CommitTables(AfterReload(db, archive), "reload")
    BY <1>5 DEF Reload
  <2>2. Sane(AfterReload(db, archive)) /\ Grown(db, AfterReload(db, archive))
    BY <1>1, ReloadStaysSane, ReloadGrows, ReadsAssumption
  <2> QED
    BY <1>5, <2>1, <2>2, CommitKeepsTypes DEF Reload
<1>6. ASSUME NEW l \in Loaders, CheckFile(l)
      PROVE  ReadsTypes'
  <2>1. PICK allow_incomplete \in BOOLEAN, dry_run \in BOOLEAN :
            LoadGoesTo(l, IF ~Guards(db, File[l], allow_incomplete) THEN "refused"
                          ELSE IF dry_run THEN "done" ELSE "checked", {})
    BY <1>6 DEF CheckFile
  <2>2. Guards(db, File[l], allow_incomplete) => Unmatched(db, File[l]) = {}
    BY DEF Guards
  <2> QED
    BY <1>6, <2>1, <2>2, LoadKeepsTypes DEF CheckFile
<1>7. ASSUME NEW l \in Loaders, Truncate(l)
      PROVE  ReadsTypes'
  <2>1. Unmatched(db, File[l]) = {} /\ db.locations \in SUBSET LocationRow
    BY <1>7 DEF Truncate, ReadsTypes, TypeOK, WellFormed
  <2> QED
    BY <1>7, <2>1, LoadKeepsTypes DEF Truncate
<1>8. ASSUME NEW l \in Loaders, FailLoad(l)
      PROVE  ReadsTypes'
  BY <1>8, LoadKeepsTypes DEF FailLoad
<1>9. CASE BeginMatch
  <2>1. PICK a \in Address, kinds \in Requests :
            /\ req' = [address |-> a, kinds |-> kinds]
            /\ seen' = [always |-> Offered(db, req'), commits |-> {}]
    BY <1>9 DEF BeginMatch
  <2>2. /\ req'.address \in Address \cup {None} /\ req'.kinds \in Requests \cup {{}}
        /\ seen'.commits = {}
    BY <2>1
  <2>3. UNCHANGED <<db, latest, load, got>>
    BY <1>9 DEF BeginMatch
  <2>4. DOMAIN got = DOMAIN Nothing /\ got.district \in Districts \cup {NoDistrict}
        /\ \A r \in got.results : r.institution \in DOMAIN db.institutions
    BY DEF ReadsTypes, TypeOK
  <2> QED
    BY <2>2, <2>3, <2>4, ReadKeepsTypes
<1>10. CASE AddressNotFound \/ InstitutionNotFound \/ Respond \/ BeginGet
  <2>1. /\ UNCHANGED <<db, latest, load, got, req>>
        /\ seen'.commits = seen.commits \/ seen'.commits = {}
    BY <1>10 DEF AddressNotFound, InstitutionNotFound, Respond, BeginGet, Statement
  <2> QED
    BY <2>1, ReadKeepsTypes DEF ReadsTypes, TypeOK
<1>11. CASE ReadContext
  <2>1. db.addresses[req.address] \in Districts \cup {NoDistrict}
    BY <1>11 DEF ReadContext, ReadsTypes, TypeOK, WellFormed
  <2> QED
    BY <1>11, <2>1, ReadKeepsTypes DEF ReadContext, Statement, ReadsTypes, TypeOK, Nothing
<1>12. ASSUME NEW rows, \A r \in rows : r.institution \in DOMAIN db.institutions,
              NEW from, NEW to, Statement(from, to),
              \/ got' = [got EXCEPT !.results = rows]
              \/ got' = [got EXCEPT !.results = @ \cup rows]
       PROVE  ReadsTypes'
  BY <1>12, ReadKeepsTypes DEF Statement, ReadsTypes, TypeOK, Nothing
<1>13. CASE ReadKindergartens
  BY <1>12, <1>13, RowsAreThere DEF ReadKindergartens, Found
<1>14. CASE ReadNurseries
  BY <1>12, <1>14, RowsAreThere DEF ReadNurseries, Found
<1>15. CASE ReadPreschoolsByAddress
  BY <1>12, <1>15, RowsAreThere DEF ReadPreschoolsByAddress, Found
<1>16. CASE ReadPreschoolsByDistrict
  BY <1>12, <1>16, RowsAreThere DEF ReadPreschoolsByDistrict, Found
<1>17. CASE ReadList \/ ReadInstitution \/ ReadLocations \/ ReadCoverage
  <2>1. /\ DOMAIN got' = DOMAIN got /\ got'.district = got.district /\ got'.results = got.results
        /\ UNCHANGED <<db, latest, load, req, seen>>
    BY <1>17 DEF ReadList, ReadInstitution, ReadLocations, ReadCoverage, Statement, ReadsTypes,
                 Nothing
  <2> QED
    BY <2>1, ReadKeepsTypes DEF ReadsTypes, TypeOK
<1>18. CASE CloseSession
  BY <1>18, ReadKeepsTypes DEF CloseSession, ReadsTypes, NoRequest, Nothing
<1>19. CASE UNCHANGED vars
  BY <1>19 DEF vars, ReadsTypes, TypeOK
<1> QED
  BY <1>2, <1>3, <1>4, <1>5, <1>6, <1>7, <1>8, <1>9, <1>10, <1>11, <1>13, <1>14, <1>15, <1>16,
     <1>17, <1>18, <1>19, InsertKeepsTypes DEF Next

(* Whatever commits between a load's guards and its INSERT, and whatever a  *)
(* request has read: every row refers to a row there is, and the index of   *)
(* main rows has nothing to refuse.                                         *)
THEOREM ReadsWellTyped == Spec => []TypeOK
<1>1. Init => LocationsInv
  BY DEF Init, EmptyTables, LocationsInv, OwnedByOne, LocationsAreOneFile, Truncated, Tables,
         Fields
<1>2. ReadsTypes => TypeOK
  BY DEF ReadsTypes
<1> QED
  BY <1>1, <1>2, LocationsInductive, ReadsInit, ReadsInductive, PTL DEF Spec
=============================================================================
