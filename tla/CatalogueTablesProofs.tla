----------------------- MODULE CatalogueTablesProofs -----------------------
(***************************************************************************)
(* What each writer of CatalogueTables leaves of the tables it found: what *)
(* it may not take away, and that they stay well formed.                   *)
(***************************************************************************)
EXTENDS CatalogueTables, CatchmentRulesProofs

Fields == {"institutions", "addresses", "edges", "grao", "locations"}

Tables(T) == DOMAIN T = Fields

\* What a writer other than a load leaves of the tables it found.
Grown(T, U) ==
    /\ Tables(U)
    /\ U.locations = T.locations
    /\ DOMAIN T.institutions \subseteq DOMAIN U.institutions

LEMMA StampGrows ==
    ASSUME NEW T, Tables(T), NEW ks
    PROVE  LET U == WithInstitutionsStamped(T, ks)
           IN  /\ Tables(U)
               /\ U.addresses = T.addresses /\ U.edges = T.edges
               /\ U.grao = T.grao /\ U.locations = T.locations
               /\ DOMAIN U.institutions = DOMAIN T.institutions
               /\ \A k \in DOMAIN T.institutions \ ks : U.institutions[k] = T.institutions[k]
BY DEF WithInstitutionsStamped, Tables, Fields

LEMMA UpsertsGrow ==
    ASSUME NEW T, Tables(T), NEW s
    PROVE  LET U == AfterUpserts(T, s)
           IN  /\ Grown(T, U)
               /\ U.grao = T.grao
               /\ T.edges \subseteq U.edges
               /\ DOMAIN T.addresses \subseteq DOMAIN U.addresses
               /\ \A a \in DOMAIN T.addresses : U.addresses[a] = T.addresses[a]
BY DEF AfterUpserts, Grown, Tables, Fields

LEMMA IngestGrows ==
    ASSUME NEW T, Tables(T), NEW s
    PROVE  Grown(T, AfterIngest(T, s))
<1> DEFINE U == AfterUpserts(T, s)
           V == [U EXCEPT !.addresses = [a \in DOMAIN @ |->
                        IF @[a] = NoDistrict THEN Lookup(T.grao, a) ELSE @[a]]]
           ks == {k \in DOMAIN V.institutions \ Nurseries : V.institutions[k].district = NoDistrict}
<1>1. Grown(T, U) /\ U.grao = T.grao
  BY UpsertsGrow
<1>2. /\ Tables(V) /\ V.locations = T.locations
      /\ DOMAIN T.institutions \subseteq DOMAIN V.institutions
  BY <1>1 DEF Grown, Tables, Fields
<1>3. AfterIngest(T, s) = WithInstitutionsStamped(V, ks)
  BY <1>1 DEF AfterIngest
<1> HIDE DEF U, V, ks
<1> QED
  BY <1>2, <1>3, StampGrows DEF Grown

LEMMA RestampGrows ==
    ASSUME NEW T, Tables(T)
    PROVE  Grown(T, AfterRestamp(T))
<1> DEFINE V == [T EXCEPT !.addresses = [a \in DOMAIN @ |->
                        IF Speaks(1, T.grao, a) THEN Says(1, T.grao, a)
                        ELSE IF @[a] = NoDistrict THEN Lookup(T.grao, a) ELSE @[a]]]
           ks == DOMAIN V.institutions \ Nurseries
<1>1. Tables(V) /\ V.locations = T.locations /\ V.institutions = T.institutions
  BY DEF Tables, Fields
<1>2. AfterRestamp(T) = WithInstitutionsStamped(V, ks)
  BY DEF AfterRestamp
<1> HIDE DEF V, ks
<1> QED
  BY <1>1, <1>2, StampGrows DEF Grown

LEMMA ReloadGrows ==
    ASSUME NEW T, Tables(T), NEW archive
    PROVE  Grown(T, AfterReload(T, archive))
BY DEF AfterReload, Grown, Tables, Fields

-----------------------------------------------------------------------------
(* What a seed relies on: what an ingest adds, and that a restamp has every *)
(* address the classifier lists exactly in the district it says.            *)

LEMMA IngestAdds ==
    ASSUME NEW T, Tables(T), NEW s
    PROVE  LET U == AfterIngest(T, s)
           IN  /\ DOMAIN U.institutions = DOMAIN T.institutions \cup ToSet(PlanInstitutions(s))
               /\ DOMAIN U.addresses = DOMAIN T.addresses \cup PlanAddresses(s)
               /\ U.edges = T.edges \cup PlanEdges(s)
               /\ U.grao = T.grao
<1> DEFINE W == AfterUpserts(T, s)
           V == [W EXCEPT !.addresses = [a \in DOMAIN @ |->
                        IF @[a] = NoDistrict THEN Lookup(T.grao, a) ELSE @[a]]]
           ks == {k \in DOMAIN V.institutions \ Nurseries : V.institutions[k].district = NoDistrict}
<1>1. /\ Tables(W) /\ W.grao = T.grao
      /\ DOMAIN W.institutions = DOMAIN T.institutions \cup ToSet(PlanInstitutions(s))
      /\ DOMAIN W.addresses = DOMAIN T.addresses \cup PlanAddresses(s)
      /\ W.edges = T.edges \cup PlanEdges(s)
  BY DEF AfterUpserts, Tables, Fields
<1>2. AfterIngest(T, s) = WithInstitutionsStamped(V, ks)
  BY <1>1 DEF AfterIngest
<1> HIDE DEF W
<1>3. /\ Tables(V) /\ V.grao = T.grao /\ V.institutions = W.institutions /\ V.edges = W.edges
      /\ DOMAIN V.addresses = DOMAIN W.addresses
  BY <1>1 DEF Tables, Fields
<1> HIDE DEF V, ks
<1> QED
  BY <1>1, <1>2, <1>3, StampGrows

LEMMA RestampKeeps ==
    ASSUME NEW T, Tables(T)
    PROVE  LET U == AfterRestamp(T)
           IN  /\ DOMAIN U.institutions = DOMAIN T.institutions
               /\ DOMAIN U.addresses = DOMAIN T.addresses
               /\ U.edges = T.edges /\ U.grao = T.grao /\ U.locations = T.locations
               /\ \A a \in DOMAIN U.addresses :
                    Speaks(1, U.grao, a) => U.addresses[a] = Says(1, U.grao, a)
<1> DEFINE V == [T EXCEPT !.addresses = [a \in DOMAIN @ |->
                        IF Speaks(1, T.grao, a) THEN Says(1, T.grao, a)
                        ELSE IF @[a] = NoDistrict THEN Lookup(T.grao, a) ELSE @[a]]]
           ks == DOMAIN V.institutions \ Nurseries
<1>1. /\ Tables(V) /\ V.institutions = T.institutions /\ DOMAIN V.addresses = DOMAIN T.addresses
      /\ V.edges = T.edges /\ V.grao = T.grao /\ V.locations = T.locations
      /\ \A a \in DOMAIN V.addresses :
            Speaks(1, T.grao, a) => V.addresses[a] = Says(1, T.grao, a)
  BY DEF Tables, Fields
<1>2. AfterRestamp(T) = WithInstitutionsStamped(V, ks)
  BY DEF AfterRestamp
<1> HIDE DEF V, ks
<1> QED
  BY <1>1, <1>2, StampGrows

-----------------------------------------------------------------------------
(* Well-formed tables stay so.                                              *)

Sane(T) == Tables(T) /\ WellFormed(T) /\ IsFiniteSet(DOMAIN T.addresses)

LEMMA DistrictIs ==
    ASSUME NEW T, Sane(T), NEW k
    PROVE  DistrictOf(T, k) \in Districts \cup {NoDistrict}
<1> DEFINE rows == CatchmentOf(T, k)
<1>1. /\ DOMAIN rows \subseteq DOMAIN T.addresses
      /\ \A a \in DOMAIN rows : rows[a] \in Districts \cup {NoDistrict}
  BY DEF CatchmentOf, Sane, WellFormed
<1>2. IsFiniteSet(DOMAIN rows)
  BY <1>1, FS_Subset DEF Sane
<1> HIDE DEF rows
<1>3. Majority(rows) \in Districts \cup {NoDistrict}
  BY <1>1, <1>2, MajorityIs
<1> QED
  BY <1>3, LookupIs DEF DistrictOf, rows

LEMMA StampedStaysSane ==
    ASSUME NEW T, Sane(T), NEW ks
    PROVE  Sane(WithInstitutionsStamped(T, ks))
<1> DEFINE U == WithInstitutionsStamped(T, ks)
<1>1. /\ Tables(U)
      /\ U.addresses = T.addresses /\ U.edges = T.edges
      /\ U.grao = T.grao /\ U.locations = T.locations
      /\ DOMAIN U.institutions = DOMAIN T.institutions
  BY StampGrows DEF Sane
<1>2. ASSUME NEW k \in DOMAIN T.institutions
      PROVE  U.institutions[k] \in InstitutionRow
  <2>1. T.institutions[k] \in InstitutionRow
    BY DEF Sane, WellFormed
  <2>2. U.institutions[k] = IF k \in ks /\ DistrictOf(T, k) # NoDistrict
                            THEN [T.institutions[k] EXCEPT !.district = DistrictOf(T, k)]
                            ELSE T.institutions[k]
    BY DEF WithInstitutionsStamped, Sane, Tables, Fields
  <2> QED
    BY <2>1, <2>2, DistrictIs DEF InstitutionRow
<1> QED
  BY <1>1, <1>2 DEF Sane, WellFormed

\* Addresses stamped with what districts there are.
LEMMA AddressesStaySane ==
    ASSUME NEW T, Sane(T), NEW f, DOMAIN f = DOMAIN T.addresses,
           \A a \in DOMAIN f : f[a] \in Districts \cup {NoDistrict}
    PROVE  Sane([T EXCEPT !.addresses = f])
BY DEF Sane, Tables, Fields, WellFormed

LEMMA UpsertsStaySane ==
    ASSUME NEW T, Sane(T), NEW s, Plans(s)
    PROVE  Sane(AfterUpserts(T, s))
<1> DEFINE U == AfterUpserts(T, s)
           ks == ToSet(PlanInstitutions(s))
           kept(k) == IF k \in DOMAIN T.institutions THEN T.institutions[k].district
                      ELSE NoDistrict
<1>1. /\ Tables(U) /\ U.grao = T.grao /\ U.locations = T.locations
      /\ DOMAIN T.institutions \subseteq DOMAIN U.institutions
  BY UpsertsGrow DEF Sane, Grown
<1>2. /\ U.institutions = [k \in (DOMAIN T.institutions) \cup ks |->
            IF k \notin ks THEN T.institutions[k]
            ELSE [address |-> PlanRow(s, k).address,
                  district |-> IF PlanRow(s, k).district = NoDistrict THEN kept(k)
                               ELSE PlanRow(s, k).district]]
      /\ U.addresses = [a \in (DOMAIN T.addresses) \cup PlanAddresses(s) |->
            IF a \in DOMAIN T.addresses THEN T.addresses[a] ELSE NoDistrict]
      /\ U.edges = T.edges \cup PlanEdges(s)
  BY DEF AfterUpserts, Sane, Tables, Fields
<1> HIDE DEF U
<1>3. ASSUME NEW k \in DOMAIN U.institutions
      PROVE  U.institutions[k] \in InstitutionRow /\ k \in Institutions
  <2>1. k \in DOMAIN T.institutions =>
            T.institutions[k] \in InstitutionRow /\ k \in Institutions
    BY DEF Sane, WellFormed
  <2>2. kept(k) \in Districts \cup {NoDistrict}
    BY <2>1 DEF InstitutionRow
  <2>3. k \in ks => /\ PlanRow(s, k).address \in Address \cup {None} /\ k \in Institutions
                    /\ PlanRow(s, k).district \in Districts \cup {NoDistrict}
    BY DEF Plans
  <2> HIDE DEF kept, ks
  <2> QED
    BY <1>2, <2>1, <2>2, <2>3 DEF InstitutionRow
<1>4. PlanAddresses(s) \subseteq Address /\ PlanEdges(s) \subseteq PlanAddresses(s) \X ks
  BY DEF Plans, PlanAddresses
<1>5. IsFiniteSet(DOMAIN U.addresses)
  <2>1. IsFiniteSet(DOMAIN T.addresses) /\ IsFiniteSet(PlanAddresses(s))
    BY DEF Plans, Sane
  <2>2. IsFiniteSet((DOMAIN T.addresses) \cup PlanAddresses(s))
    BY <2>1, FS_Union
  <2> QED
    BY <1>2, <2>2
<1>6. /\ DOMAIN U.addresses \subseteq Address
      /\ \A a \in DOMAIN U.addresses : U.addresses[a] \in Districts \cup {NoDistrict}
  BY <1>2, <1>4 DEF Sane, WellFormed
<1>7. U.edges \subseteq (DOMAIN U.addresses) \X (DOMAIN U.institutions)
  BY <1>2, <1>4 DEF Sane, WellFormed
<1> HIDE DEF ks
<1>8. /\ U.grao \subseteq GraoRow /\ U.locations \subseteq LocationRow
      /\ \A r \in U.locations :
            /\ r.institution \in DOMAIN U.institutions
            /\ r.role = "main" => \A q \in U.locations :
                    q.role = "main" /\ q.institution = r.institution => q = r
  BY <1>1 DEF Sane, WellFormed
<1> QED
  BY <1>1, <1>3, <1>5, <1>6, <1>7, <1>8 DEF Sane, WellFormed, U

LEMMA IngestStaysSane ==
    ASSUME NEW T, Sane(T), NEW s, Plans(s)
    PROVE  Sane(AfterIngest(T, s))
<1> DEFINE U == AfterUpserts(T, s)
           f == [a \in DOMAIN U.addresses |->
                    IF U.addresses[a] = NoDistrict THEN Lookup(T.grao, a) ELSE U.addresses[a]]
           V == [U EXCEPT !.addresses = f]
           ks == {k \in DOMAIN V.institutions \ Nurseries : V.institutions[k].district = NoDistrict}
<1>1. Sane(U) /\ U.grao = T.grao
  BY UpsertsStaySane, UpsertsGrow DEF Sane
<1>2. AfterIngest(T, s) = WithInstitutionsStamped(V, ks)
  BY <1>1 DEF AfterIngest
<1> HIDE DEF U
<1>3. \A a \in DOMAIN f : f[a] \in Districts \cup {NoDistrict}
  BY <1>1, LookupIs DEF Sane, WellFormed
<1> HIDE DEF f
<1>4. Sane(V)
  BY <1>1, <1>3, AddressesStaySane DEF f
<1> HIDE DEF V, ks
<1> QED
  BY <1>2, <1>4, StampedStaysSane

LEMMA RestampStaysSane ==
    ASSUME NEW T, Sane(T)
    PROVE  Sane(AfterRestamp(T))
<1> DEFINE f == [a \in DOMAIN T.addresses |->
                    IF Speaks(1, T.grao, a) THEN Says(1, T.grao, a)
                    ELSE IF T.addresses[a] = NoDistrict THEN Lookup(T.grao, a)
                    ELSE T.addresses[a]]
           V == [T EXCEPT !.addresses = f]
           ks == DOMAIN V.institutions \ Nurseries
<1>1. AfterRestamp(T) = WithInstitutionsStamped(V, ks)
  BY DEF AfterRestamp
<1>2. \A a \in DOMAIN f : f[a] \in Districts \cup {NoDistrict}
  BY SaysADistrict, LookupIs DEF Sane, WellFormed
<1> HIDE DEF f
<1>3. Sane(V)
  BY <1>2, AddressesStaySane DEF f
<1> HIDE DEF V, ks
<1> QED
  BY <1>1, <1>3, StampedStaysSane

LEMMA ReloadStaysSane ==
    ASSUME NEW T, Sane(T), NEW archive \in SUBSET GraoRow
    PROVE  Sane(AfterReload(T, archive))
BY DEF AfterReload, Sane, Tables, Fields, WellFormed

\* A file of known institutions with one main row each.
LEMMA LocationsStaySane ==
    ASSUME NEW T, Sane(T), NEW rows \in SUBSET LocationRow, Unmatched(T, rows) = {},
           \A q, r \in MainRows(rows) : q.institution = r.institution => q = r
    PROVE  Sane([T EXCEPT !.locations = rows])
<1> DEFINE U == [T EXCEPT !.locations = rows]
<1>1. /\ U.locations = rows /\ Tables(U) /\ U.institutions = T.institutions
      /\ U.addresses = T.addresses /\ U.edges = T.edges /\ U.grao = T.grao
  BY DEF Sane, Tables, Fields
<1>2. \A r \in rows : r.institution \in DOMAIN T.institutions
  BY DEF Unmatched
<1> HIDE DEF U
<1> QED
  BY <1>1, <1>2 DEF Sane, WellFormed, MainRows, U
=============================================================================
