--------------------------- MODULE CatalogueTables ---------------------------
(***************************************************************************)
(* The tables of the catalogue as one committed transaction leaves them    *)
(* and as one SELECT reads them, keyed by natural keys.  What several      *)
(* writers do to each other inside their transactions is the subject of    *)
(* IngestTransactions; here a transaction is the function from the tables  *)
(* it found to the tables it committed.                                    *)
(*                                                                         *)
(* tables.institutions maps (external_id, kind) to a row, .addresses an    *)
(* address to its district, .edges is the junction, .grao the classifier   *)
(* and .locations the rows of institution_locations.                       *)
(***************************************************************************)
EXTENDS CatchmentRules

CONSTANTS
    Preschools,     \* the institutions that are neither these nor nurseries
                    \* are kindergartens
    InfantGroups    \* kindergartens with has_infant_group

ASSUME KindsAssumption ==
    /\ Preschools \subseteq Institutions \ Nurseries
    /\ InfantGroups \subseteq Institutions \ (Nurseries \cup Preschools)

Kindergartens == Institutions \ (Nurseries \cup Preschools)

KindOf(k) == IF k \in Nurseries THEN "nursery"
             ELSE IF k \in Preschools THEN "preschool" ELSE "kindergarten"

AllKinds == {"nursery", "kindergarten", "preschool"}

EmptyTables ==
    [institutions |-> <<>>, addresses |-> <<>>, edges |-> {}, grao |-> {}, locations |-> {}]

InstitutionRow == [address : Address \cup {None}, district : Districts \cup {NoDistrict}]

\* An address stands for its normal form.
LocationRow == [institution : Institutions, role : {"main", "branch"},
                address : Address \cup {None}]

\* The types of the columns, the foreign keys, and one main row each.
WellFormed(tables) ==
    /\ DOMAIN tables.institutions \subseteq Institutions
    /\ \A k \in DOMAIN tables.institutions : tables.institutions[k] \in InstitutionRow
    /\ DOMAIN tables.addresses \subseteq Address
    /\ \A a \in DOMAIN tables.addresses : tables.addresses[a] \in Districts \cup {NoDistrict}
    /\ tables.edges \subseteq (DOMAIN tables.addresses) \X (DOMAIN tables.institutions)
    /\ tables.grao \subseteq GraoRow
    /\ tables.locations \subseteq LocationRow
    /\ \A r \in tables.locations :
        /\ r.institution \in DOMAIN tables.institutions
        /\ r.role = "main" => \A q \in tables.locations :
                q.role = "main" /\ q.institution = r.institution => q = r

-----------------------------------------------------------------------------
(* The catchment majority, else the district of the institution's own       *)
(* address.                                                                 *)
CatchmentOf(tables, k) ==
    [a \in {e[1] : e \in {x \in tables.edges : x[2] = k}} |-> tables.addresses[a]]

DistrictOf(tables, k) ==
    LET majority == Majority(CatchmentOf(tables, k))
        address == tables.institutions[k].address
    IN  IF majority # NoDistrict THEN majority
        ELSE IF address \in Address THEN Lookup(tables.grao, address) ELSE NoDistrict

\* Those of the institutions ks the pass finds a district for.
WithInstitutionsStamped(tables, ks) ==
    LET found == [k \in ks |-> DistrictOf(tables, k)]
    IN  [tables EXCEPT !.institutions = [k \in DOMAIN @ |->
            IF k \in ks /\ found[k] # NoDistrict
            THEN [@[k] EXCEPT !.district = found[k]] ELSE @[k]]]

(* pipeline.run: upserts, edges, and the stamps that are NULL.  Nothing is  *)
(* ever deleted, and a district the snapshot leaves out is kept.            *)
AfterUpserts(tables, snapshot) ==
    LET ks == ToSet(PlanInstitutions(snapshot))
        kept(k) == IF k \in DOMAIN tables.institutions
                   THEN tables.institutions[k].district ELSE NoDistrict
    IN  [tables EXCEPT
            !.institutions = [k \in (DOMAIN @) \cup ks |->
                IF k \notin ks THEN @[k]
                ELSE LET row == PlanRow(snapshot, k)
                     IN  [address |-> row.address,
                          district |-> IF row.district = NoDistrict THEN kept(k)
                                       ELSE row.district]],
            !.addresses = [a \in (DOMAIN @) \cup PlanAddresses(snapshot) |->
                IF a \in DOMAIN @ THEN @[a] ELSE NoDistrict],
            !.edges = @ \cup PlanEdges(snapshot)]

(* restamp-districts: the exact tier overrules the stamp there is, the      *)
(* fallback tiers only fill in.                                             *)
AfterRestamp(tables) ==
    LET stamped == [tables EXCEPT !.addresses = [a \in DOMAIN @ |->
                        IF Speaks(1, tables.grao, a) THEN Says(1, tables.grao, a)
                        ELSE IF @[a] = NoDistrict THEN Lookup(tables.grao, a) ELSE @[a]]]
    IN  WithInstitutionsStamped(stamped, DOMAIN stamped.institutions \ Nurseries)

AfterIngestUngated(tables, snapshot) == AfterRestamp(AfterUpserts(tables, snapshot))
AfterIngest(tables, snapshot) ==
    LET upserted == AfterUpserts(tables, snapshot)
        stamped == [upserted EXCEPT !.addresses = [a \in DOMAIN @ |->
                        IF @[a] = NoDistrict THEN Lookup(tables.grao, a) ELSE @[a]]]
        rows == stamped.institutions
    IN  WithInstitutionsStamped(stamped,
            {k \in DOMAIN rows \ Nurseries : rows[k].district = NoDistrict})

\* grao_loader.load_rows
AfterReload(tables, archive) == [tables EXCEPT !.grao = archive]

(* The guards of institution_locations_loader.load_rows.                    *)
Unmatched(tables, rows) == {r.institution : r \in rows} \ DOMAIN tables.institutions

MainRows(rows) == {r \in rows : r.role = "main"}

MissingMain(tables, rows) ==
    DOMAIN tables.institutions \ {r.institution : r \in MainRows(rows)}

Drifted(tables, rows) ==
    {r \in MainRows(rows) : tables.institutions[r.institution].address \notin {None, r.address}}

GuardsSkippingAll(tables, rows, allow_incomplete) ==
    \/ allow_incomplete
    \/ Unmatched(tables, rows) = {} /\ MissingMain(tables, rows) \cup Drifted(tables, rows) = {}
Guards(tables, rows, allow_incomplete) ==
    /\ Unmatched(tables, rows) = {}
    /\ allow_incomplete \/ MissingMain(tables, rows) \cup Drifted(tables, rows) = {}

-----------------------------------------------------------------------------
(* find_matches, statement by statement.                                    *)

AddressRows(tables, a, kind) ==
    {[institution |-> k, basis |-> "address"] : k \in {x \in kind : <<a, x>> \in tables.edges}}

DistrictRows(tables, district, kind) ==
    {[institution |-> k, basis |-> "district"] :
        k \in {x \in kind \cap DOMAIN tables.institutions :
                district # NoDistrict /\ tables.institutions[x].district = district}}

PreschoolRows(tables, a, district) ==
    LET byEdge == AddressRows(tables, a, Preschools)
    IN  IF byEdge # {} THEN byEdge ELSE DistrictRows(tables, district, Preschools)

FindMatches(tables, a, kinds) ==
    LET district == tables.addresses[a]
        found == AddressRows(tables, a, Kindergartens)
                    \cup DistrictRows(tables, district, Nurseries)
                    \cup PreschoolRows(tables, a, district)
    IN  {r \in found : KindOf(r.institution) \in kinds}

(* build_offerings: a kindergarten of the catchment that takes infants is   *)
(* offered twice.                                                           *)
Offerings(results) ==
    {[institution |-> r.institution, reception |-> KindOf(r.institution)] : r \in results}
    \cup {[institution |-> r.institution, reception |-> "nursery"] :
            r \in {x \in results : x.institution \in InfantGroups /\ x.basis = "address"}}

(* What validate_match_data counts as hard failures, of those a committed   *)
(* table can have.                                                          *)
HardFailures(tables) ==
    {k \in DOMAIN tables.institutions \cap Nurseries :
        \/ tables.institutions[k].district = NoDistrict
        \/ \E a \in DOMAIN tables.addresses : <<a, k>> \in tables.edges}
=============================================================================
