--------------------------- MODULE CatalogueReads ---------------------------
(***************************************************************************)
(* The API reading the catalogue while its writers commit: a match or a    *)
(* GET with If-None-Match, each a session of several READ COMMITTED        *)
(* SELECTs, beside weekly ingests, restamps, ГРАО reloads and loads of     *)
(* institution_locations.                                                  *)
(*                                                                         *)
(* The other writers' commits are one step each; a load of locations is    *)
(* three, because its TRUNCATE takes effect on everybody at once: it waits *)
(* for every session that has read the table and keeps the next from       *)
(* reading it until it ends.                                               *)
(*                                                                         *)
(* One request is served at a time, always matches or always GETs of one   *)
(* page: requests share nothing but the tables.                            *)
(***************************************************************************)
EXTENDS CatalogueTables

CONSTANTS
    Snapshots,      \* what latest.json holds, one after another
    Archives,       \* ГРАО files that may be loaded
    Loaders,        \* runs of institution_locations_loader
    File,           \* the rows each of them has parsed
    Pages           \* what the browser fetches: a list, an institution, or
                    \* with None only matches

Lists == {"streets", "addresses", "institutions"}

ASSUME ReadsAssumption ==
    /\ Len(Snapshots) \in Nat \ {0}
    /\ \A i \in 1 .. Len(Snapshots) : Snapshots[i] \in SnapshotFile
    /\ Archives \subseteq SUBSET GraoRow
    /\ File \in [Loaders -> SUBSET LocationRow]
    /\ Pages \subseteq Institutions \cup Lists \cup {None}

\* parse_rows lets no file through that has two main rows of an institution.
ASSUME FilesAssumption ==
    \A l \in Loaders : \A q, r \in MainRows(File[l]) : q.institution = r.institution => q = r

ASSUME PlanAssumption == \A i \in 1 .. Len(Snapshots) : Collected(Snapshots[i])

VARIABLES
    db, latest,     \* the committed tables; the snapshot published
    load,           \* load[l].at, and the rows l's TRUNCATE took away
    page, cache,    \* what the browser visits and the body it keeps of it
    at, req, got,   \* the request served: its next statement, its
                    \* parameters, what it has read
    seen            \* observed: what every committed state since the request
                    \* began offers, and which commits there were

vars == <<db, latest, load, page, cache, at, req, got, seen>>
request == <<page, cache, at, req, got>>

Requests == {AllKinds} \cup {{kind} : kind \in AllKinds}

Offered(tables, r) ==
    IF r.address \in DOMAIN tables.addresses
    THEN Offerings(FindMatches(tables, r.address, r.kinds)) ELSE {}

NoRequest == [address |-> None, kinds |-> {}]
Nothing == [district |-> NoDistrict, results |-> {}, row |-> None, locations |-> {}]

Init ==
    /\ db = EmptyTables
    /\ latest = 1
    /\ load = [l \in Loaders |-> [at |-> "start", removed |-> {}]]
    /\ page \in Pages
    /\ cache = None
    /\ at = "idle"
    /\ req = NoRequest
    /\ got = Nothing
    /\ seen = [always |-> {}, commits |-> {}]

-----------------------------------------------------------------------------
(* Writers.                                                                 *)

\* A commit that changes nothing goes unnoticed.
CommitTables(tables, writer) ==
    /\ db' = tables
    /\ seen' = IF tables = db \/ at = "idle" THEN seen
               ELSE [always |-> seen.always \cap Offered(tables, req),
                     commits |-> seen.commits \cup {writer}]
    /\ UNCHANGED request

Publish ==
    /\ latest < Len(Snapshots)
    /\ latest' = latest + 1
    /\ UNCHANGED <<db, load, page, cache, at, req, got, seen>>

Ingest == CommitTables(AfterIngest(db, Snapshots[latest]), "ingest") /\ UNCHANGED <<latest, load>>

Restamp == CommitTables(AfterRestamp(db), "restamp") /\ UNCHANGED <<latest, load>>

Reload ==
    /\ \E archive \in Archives : CommitTables(AfterReload(db, archive), "reload")
    /\ UNCHANGED <<latest, load>>

LoadGoesTo(l, label, removed) == load' = [load EXCEPT ![l] = [at |-> label, removed |-> removed]]

\* institution_locations belongs to whoever has truncated it, and is kept
\* from being truncated by a session that has read it.
Truncated == {l \in Loaders : load[l].at = "truncated"}
LocationsRead == at \in {"coverage", "respond", "answered"} /\ page \in Institutions \cup {"institutions"}

(* The guards, read before anything is locked.  A dry run ends here.        *)
CheckFile(l) ==
    /\ load[l].at = "start"
    /\ \E allow_incomplete, dry_run \in BOOLEAN :
        LoadGoesTo(l, IF ~Guards(db, File[l], allow_incomplete) THEN "refused"
                      ELSE IF dry_run THEN "done" ELSE "checked", {})
    /\ UNCHANGED <<db, latest, page, cache, at, req, got, seen>>

\* DELETE takes away the rows committed when it starts, and waits for no one.
TruncateByDelete(l) ==
    /\ load[l].at = "checked"
    /\ LoadGoesTo(l, "truncated", db.locations)
    /\ UNCHANGED <<db, latest, page, cache, at, req, got, seen>>
Truncate(l) ==
    /\ load[l].at = "checked"
    /\ Truncated = {}
    /\ ~LocationsRead
    /\ LoadGoesTo(l, "truncated", db.locations)
    /\ UNCHANGED <<db, latest, page, cache, at, req, got, seen>>

InsertLocations(l) ==
    /\ load[l].at = "truncated"
    /\ LoadGoesTo(l, "loaded", {})
    /\ CommitTables([db EXCEPT !.locations = (@ \ load[l].removed) \cup File[l]], "load")
    /\ UNCHANGED latest

\* Anything raised rolls the load back.
FailLoad(l) ==
    /\ load[l].at \in {"checked", "truncated"}
    /\ LoadGoesTo(l, "refused", {})
    /\ UNCHANGED <<db, latest, page, cache, at, req, got, seen>>

-----------------------------------------------------------------------------
(* GET /api/match.                                                          *)

\* Runs one statement of a request: `from` is where it stands.
Statement(from, to) ==
    /\ at = from
    /\ at' = to
    /\ UNCHANGED <<db, latest, load, page, req, seen>>

BeginMatch ==
    /\ at = "idle" /\ page = None
    /\ at' = "context"
    /\ \E a \in Address, kinds \in Requests :
        /\ req' = [address |-> a, kinds |-> kinds]
        /\ seen' = [always |-> Offered(db, req'), commits |-> {}]
    /\ UNCHANGED <<db, latest, load, page, cache, got>>

\* No such address: 404.
AddressNotFound ==
    /\ Statement("context", "answered")
    /\ req.address \notin DOMAIN db.addresses
    /\ UNCHANGED <<cache, got>>

ReadContext ==
    /\ Statement("context", "kindergartens")
    /\ req.address \in DOMAIN db.addresses
    /\ got' = [got EXCEPT !.district = db.addresses[req.address]]
    /\ UNCHANGED cache

Found(rows) == {r \in rows : KindOf(r.institution) \in req.kinds}

ReadKindergartens ==
    /\ Statement("kindergartens", "nurseries")
    /\ got' = [got EXCEPT !.results = Found(AddressRows(db, req.address, Kindergartens))]
    /\ UNCHANGED cache

ReadNurseries ==
    /\ Statement("nurseries", "preschools")
    /\ got' = [got EXCEPT !.results = @ \cup Found(DistrictRows(db, got.district, Nurseries))]
    /\ UNCHANGED cache

ReadPreschoolsByAddress ==
    /\ LET rows == Found(AddressRows(db, req.address, Preschools))
       IN  /\ Statement("preschools", IF rows = {} THEN "fallback" ELSE "answered")
           /\ got' = [got EXCEPT !.results = @ \cup rows]
    /\ UNCHANGED cache

ReadPreschoolsByDistrict ==
    /\ Statement("fallback", "answered")
    /\ got' = [got EXCEPT !.results = @ \cup Found(DistrictRows(db, got.district, Preschools))]
    /\ UNCHANGED cache

-----------------------------------------------------------------------------
(* The other GETs, which a browser repeats with the ETag of what it has.    *)

Coverage(tables, k) == {e[1] : e \in {x \in tables.edges : x[2] = k}}

LocationsOf(tables, k) == {r \in tables.locations : r.institution = k}

DetailOf(k, row, locations, coverage) ==
    [institution |-> k, row |-> row, locations |-> locations, coverage |-> coverage]

ListStreets(tables) == {a.street : a \in DOMAIN tables.addresses}

ListAddresses(tables) == DOMAIN tables.addresses

\* Every institution joined with its main row, if it has one.
ListInstitutions(tables) ==
    {<<k, MainRows(LocationsOf(tables, k))>> : k \in DOMAIN tables.institutions}

ListOf(tables, name) ==
    CASE name = "streets" -> ListStreets(tables)
      [] name = "addresses" -> ListAddresses(tables)
      [] name = "institutions" -> ListInstitutions(tables)

\* What the page is when read at one moment.
Body(tables) ==
    IF page \in Lists THEN [list |-> ListOf(tables, page)]
    ELSE IF page \in DOMAIN tables.institutions
    THEN DetailOf(page, tables.institutions[page], LocationsOf(tables, page), Coverage(tables, page))
    ELSE None

\* The hash of the body: equal for equal bodies only.
EtagOfRow(body) == IF body # None /\ page \notin Lists THEN body.row ELSE body
Etag(body) == body

BeginGet ==
    /\ at = "idle" /\ page # None
    /\ at' = IF page \in Lists THEN "list" ELSE "institution"
    /\ seen' = [always |-> {}, commits |-> {}]
    /\ UNCHANGED <<db, latest, load, page, cache, req, got>>

ReadList ==
    /\ Statement("list", "respond")
    /\ page = "institutions" => Truncated = {}
    /\ got' = [got EXCEPT !.row = [list |-> ListOf(db, page)]]
    /\ UNCHANGED cache

InstitutionNotFound ==
    /\ Statement("institution", "answered")
    /\ page \notin DOMAIN db.institutions
    /\ UNCHANGED <<cache, got>>

ReadInstitution ==
    /\ Statement("institution", "locations")
    /\ page \in DOMAIN db.institutions
    /\ got' = [got EXCEPT !.row = db.institutions[page]]
    /\ UNCHANGED cache

ReadLocations ==
    /\ Statement("locations", "coverage")
    /\ Truncated = {}
    /\ got' = [got EXCEPT !.locations = LocationsOf(db, page)]
    /\ UNCHANGED cache

ReadCoverage ==
    /\ Statement("coverage", "respond")
    /\ got' = [got EXCEPT !.row = DetailOf(page, got.row, got.locations, Coverage(db, page))]
    /\ UNCHANGED cache

\* 304 leaves the browser what it has; 200 replaces it.
Respond ==
    /\ Statement("respond", "answered")
    /\ cache' = IF cache # None /\ Etag(cache) = Etag(got.row) THEN cache ELSE got.row
    /\ UNCHANGED got

CloseSession ==
    /\ at = "answered"
    /\ at' = "idle"
    /\ req' = NoRequest
    /\ got' = Nothing
    /\ seen' = [always |-> {}, commits |-> {}]
    /\ UNCHANGED <<db, latest, load, page, cache>>

Next ==
    \/ Publish \/ Ingest \/ Restamp \/ Reload
    \/ \E l \in Loaders : CheckFile(l) \/ Truncate(l) \/ InsertLocations(l) \/ FailLoad(l)
    \/ BeginMatch \/ AddressNotFound \/ ReadContext \/ ReadKindergartens \/ ReadNurseries
    \/ ReadPreschoolsByAddress \/ ReadPreschoolsByDistrict
    \/ BeginGet \/ ReadList \/ InstitutionNotFound \/ ReadInstitution \/ ReadLocations
    \/ ReadCoverage \/ Respond \/ CloseSession

Spec == Init /\ [][Next]_vars

-----------------------------------------------------------------------------
(* The rows have their types and refer to rows there are; in particular the *)
(* foreign key of institution_locations and its index of main rows never    *)
(* have to refuse what the loader's guards let through.                     *)
TypeOK ==
    /\ WellFormed(db)
    /\ latest \in 1 .. Len(Snapshots)
    /\ load \in [Loaders -> [at : {"start", "checked", "truncated", "loaded", "done", "refused"},
                             removed : SUBSET LocationRow]]
    /\ req.address \in Address \cup {None} /\ req.kinds \in Requests \cup {{}}
    /\ got.district \in Districts \cup {NoDistrict}
    /\ \A r \in got.results : r.institution \in DOMAIN db.institutions
    /\ seen.commits \subseteq {"ingest", "restamp", "reload", "load"}

(* "TRUNCATE + INSERT inside one transaction": however many loads run at    *)
(* once, the table is empty or holds the file of one of them, never a mix.  *)
LocationsAreOneFile ==
    db.locations \in {{}} \cup {File[l] : l \in {x \in Loaders : load[x].at = "loaded"}}

(* "Weekly ingest stays idempotent": a place that every committed state     *)
(* since the request began offers to the address is in the answer, whatever *)
(* ingests, reloads and loads commit between its statements, unless a       *)
(* restamp, which may move the address and the institution at once, does.   *)
IngestNeverHidesAMatch ==
    at = "answered" /\ page = None /\ "restamp" \notin seen.commits =>
        seen.always \subseteq Offerings(got.results)

(* _etag hashes the body and not a version of the row: what a browser has   *)
(* after asking is current if nothing was committed meanwhile, also when    *)
(* what it had was put together across a commit and had an ETag of its own. *)
RevalidatedIsCurrent ==
    at = "answered" /\ page # None /\ seen.commits = {} => cache = Body(db)
=============================================================================
