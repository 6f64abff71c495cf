------------------------- MODULE IngestTransactions -------------------------
(***************************************************************************)
(* The writers of the catchment tables: ingest runs (pipeline.run),        *)
(* restamp-districts runs and ГРАО reloads, each one Postgres transaction  *)
(* under READ COMMITTED, any number of them at once: the cron job, "Run    *)
(* now", and an operator's shell.                                          *)
(*                                                                         *)
(* `db` holds the committed tables and own[t] what transaction t has       *)
(* written and not yet committed.  A statement of t sees its own writes    *)
(* over the tables as committed when it starts.  A row in own[t] is a row  *)
(* lock of t; a transaction that has read grao_addresses keeps the table   *)
(* from being truncated until it ends, and TRUNCATE keeps others from      *)
(* reading it.  A statement is one step, taken when nothing is in its way; *)
(* the upserts, whose order of locking matters, take one step a row.       *)
(*                                                                         *)
(* mem[t] is the program's memory: the rows still to upsert, the ids       *)
(* RETURNING gave, the institutions still to stamp and the one in hand;    *)
(* `alone`, which is observed, says that t has run beside no other.        *)
(***************************************************************************)
EXTENDS CatchmentRules

CONSTANTS
    Ingests, Restamps, Reloads,   \* the transactions that may run
    Snapshots,                    \* what latest.json holds, one after another
    File,                         \* the archive each reload loads
    Loaded,                       \* archives that may have been loaded before
    Fallible                      \* transactions that may fail by themselves

Stampers == Ingests \cup Restamps
Txns == Stampers \cup Reloads

ASSUME TransactionsAssumption ==
    /\ Ingests \cap Restamps = {} /\ Stampers \cap Reloads = {}
    /\ Len(Snapshots) \in Nat \ {0}
    /\ File \in [Reloads -> SUBSET GraoRow]
    /\ Loaded \subseteq SUBSET GraoRow /\ Loaded # {}
    /\ Fallible \subseteq Txns

ASSUME PlanAssumption ==
    \A i \in 1 .. Len(Snapshots) :
        Snapshots[i].institutions \in SnapshotFile /\ Collected(Snapshots[i].institutions)

VARIABLES db, latest, nextid, pc, own, mem

vars == <<db, latest, nextid, pc, own, mem>>

Empty == [x \in {} |-> {}]
Over(f, g) ==
    [x \in DOMAIN f \cup DOMAIN g |-> IF x \in DOMAIN f THEN f[x] ELSE g[x]]

Nothing == [institutions |-> Empty, streets |-> {}, addresses |-> Empty,
            edges |-> {}]
Blank == [snapshot |-> 0, todo |-> <<>>, ids |-> Empty, candidates |-> {},
          chosen |-> [institution |-> None, district |-> NoDistrict], alone |-> FALSE]

\* The tables as transaction t sees them.
View(t) ==
    [institutions |-> Over(own[t].institutions, db.institutions),
     streets |-> own[t].streets \cup db.streets,
     addresses |-> Over(own[t].addresses, db.addresses),
     edges |-> own[t].edges \cup db.edges,
     grao |-> IF pc[t] = "loaded" THEN File[t] ELSE db.grao]

Snapshot(t) == Snapshots[mem[t].snapshot].institutions

Running(t) == pc[t] \notin {"start", "committed", "failed"}

-----------------------------------------------------------------------------
(* Locks.                                                                   *)

InstitutionHolders(t, k) == {u \in Txns \ {t} : k \in DOMAIN own[u].institutions}
StreetHolders(t, s) == {u \in Txns \ {t} : s \in own[u].streets}
AddressHolders(t, ids) == {u \in Txns \ {t} : DOMAIN own[u].addresses \cap ids # {}}

\* Inserting a key another transaction has inserted waits for its end,
\* unless the unique index cannot tell that they are equal.
InsertHolders(t, keys) ==
    {u \in Txns \ {t} : \E id \in DOMAIN own[u].addresses :
        own[u].addresses[id].key \in keys /\ ~HasNull(own[u].addresses[id].key)}

Tiers == [tier1 |-> 1, tier2 |-> 2, tier3 |-> 3]
GraoReaders == {t \in Stampers : pc[t] \in
    {"tier2", "tier3", "settlements", "candidates", "institutions", "set_district"}}
GraoWriters == {t \in Reloads : pc[t] = "loaded"}

\* The addresses of the plan that the SELECT did not find.
FreshKeys(t) == PlanAddresses(Snapshot(t)) \ DOMAIN mem[t].ids

\* The rows one tier's UPDATE touches.  Only the first tier of a restamp is
\* not gated on NULL.
TierRowsGated(t, n) ==
    LET rows == View(t).addresses
        grao == View(t).grao
    IN  {id \in DOMAIN rows :
            rows[id].district = NoDistrict /\ Speaks(n, grao, rows[id].key)}
TierRows(t, n) ==
    LET rows == View(t).addresses
        grao == View(t).grao
    IN  {id \in DOMAIN rows :
            /\ (t \in Restamps /\ n = 1) \/ rows[id].district = NoDistrict
            /\ Speaks(n, grao, rows[id].key)}

SettlementRows(t) ==
    LET rows == View(t).addresses
    IN  {id \in DOMAIN rows : t \in Restamps \/ ~rows[id].settled}

(* The transactions the next statement of t waits for.                      *)
WaitsFor(t) ==
    CASE pc[t] = "upsert" /\ mem[t].todo # <<>> ->
            LET x == Head(mem[t].todo)
            IN  IF x \in Streets THEN StreetHolders(t, x) ELSE InstitutionHolders(t, x)
      [] pc[t] = "insert" -> InsertHolders(t, FreshKeys(t))
      [] pc[t] \in DOMAIN Tiers ->
            (GraoWriters \ {t}) \cup AddressHolders(t, TierRows(t, Tiers[pc[t]]))
      [] pc[t] = "settlements" -> AddressHolders(t, SettlementRows(t))
      [] pc[t] = "set_district" -> InstitutionHolders(t, mem[t].chosen.institution)
      [] pc[t] = "truncate" -> (GraoReaders \cup GraoWriters) \ {t}
      [] OTHER -> {}

Ready(t) == WaitsFor(t) = {}

\* t begins with the memory m.
Begin(t, m) ==
    mem' = [u \in Txns |->
        IF u # t THEN [mem[u] EXCEPT !.alone = FALSE]
        ELSE [m EXCEPT !.alone = \A v \in Txns \ {t} : ~Running(v)]]

Goto(t, label) == pc' = [pc EXCEPT ![t] = label]

-----------------------------------------------------------------------------
Init ==
    /\ \E grao \in Loaded :
        db = [institutions |-> Empty, streets |-> {}, addresses |-> Empty,
              edges |-> {}, grao |-> grao]
    /\ latest = 1
    /\ nextid = 1
    /\ pc = [t \in Txns |-> "start"]
    /\ own = [t \in Txns |-> Nothing]
    /\ mem = [t \in Txns |-> Blank]

(* The scraper replaces latest.json.                                        *)
Publish ==
    /\ latest < Len(Snapshots)
    /\ latest' = latest + 1
    /\ UNCHANGED <<db, nextid, pc, own, mem>>

(* Fetch, validate, plan; then BEGIN.                                       *)
FetchWithoutStreets(t) ==
    /\ t \in Ingests
    /\ pc[t] = "start"
    /\ Goto(t, "upsert")
    /\ Begin(t, [Blank EXCEPT !.snapshot = latest,
                              !.todo = PlanInstitutions(Snapshots[latest].institutions)])
    /\ UNCHANGED <<db, latest, nextid, own>>
Fetch(t) ==
    /\ t \in Ingests
    /\ pc[t] = "start"
    /\ Goto(t, "upsert")
    /\ Begin(t, [Blank EXCEPT
                !.snapshot = latest,
                !.todo = LET s == Snapshots[latest].institutions
                         IN  PlanInstitutions(s) \o PlanStreets(s)])
    /\ UNCHANGED <<db, latest, nextid, own>>

(* INSERT ... ON CONFLICT DO UPDATE, one row.  A district the snapshot      *)
(* leaves out keeps the value the row has now.                              *)
UpsertInstitutionPlainly(t) ==
    /\ pc[t] = "upsert" /\ mem[t].todo # <<>> /\ Head(mem[t].todo) \in Institutions
    /\ Ready(t)
    /\ LET k == Head(mem[t].todo)
           row == PlanRow(Snapshot(t), k)
       IN  own' = [own EXCEPT ![t].institutions = Over([x \in {k} |->
                    [address |-> row.address, district |-> row.district]], @)]
    /\ mem' = [mem EXCEPT ![t].todo = Tail(@)]
    /\ UNCHANGED <<db, latest, nextid, pc>>
UpsertInstitution(t) ==
    /\ pc[t] = "upsert" /\ mem[t].todo # <<>> /\ Head(mem[t].todo) \in Institutions
    /\ Ready(t)
    /\ LET k == Head(mem[t].todo)
           row == PlanRow(Snapshot(t), k)
           old == IF k \in DOMAIN View(t).institutions
                  THEN View(t).institutions[k].district ELSE NoDistrict
       IN  own' = [own EXCEPT ![t].institutions = Over([x \in {k} |->
                    [address |-> row.address,
                     district |-> IF row.district = NoDistrict THEN old ELSE row.district]], @)]
    /\ mem' = [mem EXCEPT ![t].todo = Tail(@)]
    /\ UNCHANGED <<db, latest, nextid, pc>>

\* The DO UPDATE locks a street that is there already: whoever has passed
\* this row has the street to itself.
UpsertStreet(t) ==
    /\ pc[t] = "upsert" /\ mem[t].todo # <<>> /\ Head(mem[t].todo) \in Streets
    /\ Ready(t)
    /\ own' = [own EXCEPT ![t].streets = @ \cup {Head(mem[t].todo)}]
    /\ mem' = [mem EXCEPT ![t].todo = Tail(@)]
    /\ UNCHANGED <<db, latest, nextid, pc>>

(* The SELECT of _pg_upsert for addresses: the ids of the rows there are.   *)
PrefetchNothing(t) ==
    /\ pc[t] = "upsert" /\ mem[t].todo = <<>>
    /\ Goto(t, "insert")
    /\ mem' = [mem EXCEPT ![t].ids = Empty]
    /\ UNCHANGED <<db, latest, nextid, own>>
PrefetchAddresses(t) ==
    /\ pc[t] = "upsert" /\ mem[t].todo = <<>>
    /\ Goto(t, "insert")
    /\ LET rows == View(t).addresses
           found == {id \in DOMAIN rows : rows[id].key \in PlanAddresses(Snapshot(t))}
       IN  mem' = [mem EXCEPT ![t].ids = [a \in {rows[id].key : id \in found} |->
                    CHOOSE id \in found : rows[id].key = a]]
    /\ UNCHANGED <<db, latest, nextid, own>>

(* The INSERT of the rest.  ON CONFLICT catches a key without NULLs that    *)
(* was committed since the SELECT.                                          *)
InsertAddresses(t) ==
    /\ pc[t] = "insert"
    /\ Goto(t, "edges")
    /\ Ready(t)
    /\ LET caught(a) == {id \in DOMAIN db.addresses : db.addresses[id].key = a /\ ~HasNull(a)}
           new == {a \in FreshKeys(t) : caught(a) = {}}
           idOf == CHOOSE f \in [new -> nextid .. nextid + Cardinality(new) - 1] :
                        \A a, b \in new : f[a] = f[b] => a = b
       IN  /\ own' = [own EXCEPT ![t].addresses = Over(
                        [id \in {idOf[a] : a \in new} |->
                            [key |-> CHOOSE a \in new : idOf[a] = id,
                             district |-> NoDistrict, settled |-> FALSE]], @)]
           /\ mem' = [mem EXCEPT ![t].ids = [a \in DOMAIN @ \cup FreshKeys(t) |->
                        IF a \in DOMAIN @ THEN @[a]
                        ELSE IF a \in new THEN idOf[a]
                        ELSE CHOOSE id \in caught(a) : TRUE]]
           /\ nextid' = nextid + Cardinality(new)
    /\ UNCHANGED <<db, latest>>

(* The junction rows, ON CONFLICT DO NOTHING.  Nobody else can be inserting *)
(* the same pair: the institution's row is locked.                          *)
InsertEdgesOfNew(t) ==
    /\ pc[t] = "edges"
    /\ Goto(t, "tier1")
    /\ own' = [own EXCEPT ![t].edges = @ \cup
                {<<mem[t].ids[e[1]], e[2]>> :
                    e \in {x \in PlanEdges(Snapshot(t)) : mem[t].ids[x[1]] \in DOMAIN own[t].addresses}}]
    /\ UNCHANGED <<db, latest, nextid, mem>>
InsertEdges(t) ==
    /\ pc[t] = "edges"
    /\ Goto(t, "tier1")
    /\ own' = [own EXCEPT ![t].edges = @ \cup
                {<<mem[t].ids[e[1]], e[2]>> : e \in PlanEdges(Snapshot(t))}]
    /\ UNCHANGED <<db, latest, nextid, mem>>

-----------------------------------------------------------------------------
(* The stamping passes.  An ingest comes to them after its upserts, a       *)
(* restamp starts with them.                                                *)

BeginRestamp(t) ==
    /\ t \in Restamps
    /\ pc[t] = "start"
    /\ Goto(t, "tier1")
    /\ Begin(t, Blank)
    /\ UNCHANGED <<db, latest, nextid, own>>

Stamp(t, ids, n) ==
    LET rows == View(t).addresses
        grao == View(t).grao
    IN  own' = [own EXCEPT ![t].addresses = Over(
            [id \in ids |-> [rows[id] EXCEPT !.district = Says(n, grao, rows[id].key)]], @)]

\* One tier's UPDATE.
StampTier(t) ==
    \E label \in DOMAIN Tiers :
        /\ pc[t] = label
        /\ Ready(t)
        /\ Stamp(t, TierRows(t, Tiers[label]), Tiers[label])
        /\ Goto(t, CASE label = "tier1" -> "tier2" [] label = "tier2" -> "tier3"
                     [] label = "tier3" -> "settlements")
        /\ UNCHANGED <<db, latest, nextid, mem>>

\* Every street the parser lets in belongs to a known settlement.
StampSettlements(t) ==
    /\ pc[t] = "settlements"
    /\ Goto(t, "candidates")
    /\ Ready(t)
    /\ own' = [own EXCEPT ![t].addresses = Over(
                [id \in SettlementRows(t) |->
                    [View(t).addresses[id] EXCEPT !.settled = TRUE]], @)]
    /\ UNCHANGED <<db, latest, nextid, mem>>

(* The institutions pass: one SELECT of candidates and their addresses,     *)
(* then for each of them a read of its catchment and an UPDATE by id, which *)
(* does not look at the row again.                                          *)
SelectCandidates(t) ==
    /\ pc[t] = "candidates"
    /\ Goto(t, "institutions")
    /\ LET rows == View(t).institutions
       IN  mem' = [mem EXCEPT ![t].candidates =
                {[institution |-> k, address |-> rows[k].address] : k \in
                    {x \in DOMAIN rows \ Nurseries :
                        t \in Restamps \/ rows[x].district = NoDistrict}}]
    /\ UNCHANGED <<db, latest, nextid, own>>

Catchment(tables, k) ==
    [id \in {e[1] : e \in {x \in tables.edges : x[2] = k}} |-> tables.addresses[id].district]

DistrictOf(tables, candidate) ==
    LET majority == Majority(Catchment(tables, candidate.institution))
    IN  IF majority # NoDistrict THEN majority
        ELSE IF candidate.address \in Address THEN Lookup(tables.grao, candidate.address)
        ELSE NoDistrict

ReadDistrictUntilFound(t) ==
    /\ pc[t] = "institutions"
    /\ \E c \in mem[t].candidates :
        LET d == DistrictOf(View(t), c) IN
        /\ mem' = [mem EXCEPT ![t].candidates = IF d = NoDistrict THEN @ ELSE @ \ {c},
                              ![t].chosen = [institution |-> c.institution, district |-> d]]
        /\ IF d = NoDistrict THEN UNCHANGED pc ELSE Goto(t, "set_district")
    /\ UNCHANGED <<db, latest, nextid, own>>
ReadDistrictCommitted(t) ==
    /\ pc[t] = "institutions"
    /\ \E c \in mem[t].candidates :
        LET d == DistrictOf(db, c) IN
        /\ mem' = [mem EXCEPT ![t].candidates = @ \ {c},
                              ![t].chosen = [institution |-> c.institution, district |-> d]]
        /\ IF d = NoDistrict THEN UNCHANGED pc ELSE Goto(t, "set_district")
    /\ UNCHANGED <<db, latest, nextid, own>>
ReadDistrict(t) ==
    /\ pc[t] = "institutions"
    /\ \E c \in mem[t].candidates :
        LET d == DistrictOf(View(t), c) IN
        /\ mem' = [mem EXCEPT ![t].candidates = @ \ {c},
                              ![t].chosen = [institution |-> c.institution, district |-> d]]
        /\ IF d = NoDistrict THEN UNCHANGED pc ELSE Goto(t, "set_district")
    /\ UNCHANGED <<db, latest, nextid, own>>

SetDistrict(t) ==
    /\ pc[t] = "set_district"
    /\ Goto(t, "institutions")
    /\ Ready(t)
    /\ LET k == mem[t].chosen.institution
       IN  own' = [own EXCEPT ![t].institutions = Over([x \in {k} |->
                    [View(t).institutions[k] EXCEPT !.district = mem[t].chosen.district]], @)]
    /\ UNCHANGED <<db, latest, nextid, mem>>

-----------------------------------------------------------------------------
(* grao_loader.load_rows: TRUNCATE, then INSERT.                            *)
BeginReload(t) ==
    /\ t \in Reloads
    /\ pc[t] = "start"
    /\ Goto(t, "truncate")
    /\ Begin(t, Blank)
    /\ UNCHANGED <<db, latest, nextid, own>>

\* DELETE, as on a database other than Postgres, waits for no reader.
ReloadGraoByDelete(t) ==
    /\ pc[t] = "truncate"
    /\ Goto(t, "loaded")
    /\ GraoWriters \ {t} = {}
    /\ UNCHANGED <<db, latest, nextid, own, mem>>
ReloadGrao(t) ==
    /\ pc[t] = "truncate"
    /\ Goto(t, "loaded")
    /\ Ready(t)
    /\ UNCHANGED <<db, latest, nextid, own, mem>>

Commit(t) ==
    /\ pc[t] = "loaded" \/ (pc[t] = "institutions" /\ mem[t].candidates = {})
    /\ db' = View(t)
    /\ own' = [own EXCEPT ![t] = Nothing]
    /\ mem' = [mem EXCEPT ![t] = [Blank EXCEPT !.snapshot = mem[t].snapshot]]
    /\ Goto(t, "committed")
    /\ UNCHANGED <<latest, nextid>>

Rollback(t) ==
    /\ own' = [own EXCEPT ![t] = Nothing]
    /\ mem' = [mem EXCEPT ![t] = Blank]
    /\ Goto(t, "failed")
    /\ UNCHANGED <<db, latest, nextid>>

\* A statement fails, or the connection, or the process.
Fail(t) == t \in Fallible /\ Running(t) /\ Rollback(t)

\* Transactions that wait for each other; Postgres ends one of them, which
\* finds itself among those it waits for.
Deadlocked(t) ==
    LET reach[n \in 0 .. Cardinality(Txns)] ==
            IF n = 0 THEN WaitsFor(t)
            ELSE LET near == reach[n - 1] IN near \cup UNION {WaitsFor(u) : u \in near}
    IN  WaitsFor(t) # {} /\ t \in reach[Cardinality(Txns)]
EndDeadlock(t) == Deadlocked(t) /\ Rollback(t)

Step(t) ==
    \/ Fetch(t) \/ UpsertInstitution(t) \/ UpsertStreet(t) \/ PrefetchAddresses(t)
    \/ InsertAddresses(t) \/ InsertEdges(t)
    \/ BeginRestamp(t) \/ StampTier(t) \/ StampSettlements(t)
    \/ SelectCandidates(t) \/ ReadDistrict(t) \/ SetDistrict(t)
    \/ BeginReload(t) \/ ReloadGrao(t)
    \/ Commit(t)

Next == Publish \/ \E t \in Txns : Step(t) \/ Fail(t) \/ EndDeadlock(t)

Spec == Init /\ [][Next]_vars

(* While a statement can be executed or a deadlock ended, Postgres does one *)
(* or the other: nothing is assumed of any single transaction.              *)
Fairness == WF_vars(\E t \in Txns : Step(t) \/ EndDeadlock(t))

FairSpec == Spec /\ Fairness

-----------------------------------------------------------------------------
InstitutionRow == [address : Address \cup {None}, district : Districts \cup {NoDistrict}]
AddressRow == [key : Address, district : Districts \cup {NoDistrict}, settled : BOOLEAN]

WellTyped(institutions, streets, addresses, edges) ==
    /\ DOMAIN institutions \subseteq Institutions
    /\ \A k \in DOMAIN institutions : institutions[k] \in InstitutionRow
    /\ streets \subseteq Streets
    /\ DOMAIN addresses \subseteq 1 .. nextid - 1
    /\ \A id \in DOMAIN addresses : addresses[id] \in AddressRow
    /\ edges \subseteq (1 .. nextid - 1) \X Institutions

(* Every table, committed or not, holds rows of its type, and every row     *)
(* refers to rows its transaction can see: the foreign keys.                *)
TypeOK ==
    /\ WellTyped(db.institutions, db.streets, db.addresses, db.edges)
    /\ db.grao \subseteq GraoRow
    /\ latest \in 1 .. Len(Snapshots)
    /\ \A t \in Txns :
        /\ WellTyped(own[t].institutions, own[t].streets, own[t].addresses, own[t].edges)
        /\ \A id \in DOMAIN View(t).addresses : View(t).addresses[id].key.street \in View(t).streets
        /\ \A e \in View(t).edges :
            e[1] \in DOMAIN View(t).addresses /\ e[2] \in DOMAIN View(t).institutions

(* addresses holds one row per natural key, also where the unique           *)
(* constraint, to which NULLs are distinct, would let two in: what the      *)
(* pre-filter of _pg_upsert is for, and what keeps it right when two        *)
(* ingests run at once is the lock on the street.                           *)
OneRowPerAddress ==
    \A i, j \in DOMAIN db.addresses :
        db.addresses[i].key = db.addresses[j].key => i = j

(* A committed ingest has put every edge of its snapshot into the junction, *)
(* also those to addresses that were there before.                          *)
CatchmentComplete ==
    \A t \in Ingests : pc[t] = "committed" =>
        \A e \in PlanEdges(Snapshot(t)) :
            \E id \in DOMAIN db.addresses :
                db.addresses[id].key = e[1] /\ <<id, e[2]>> \in db.edges

(* _stamp_addresses: a district a transaction stamps is the one the most    *)
(* exact tier that speaks gives, by one ГРАО file for all three tiers.      *)
StampsAreBestTier ==
    \A t \in Stampers : pc[t] \in {"settlements", "candidates", "institutions", "set_district"} =>
        \A id \in DOMAIN own[t].addresses :
            LET d == own[t].addresses[id].district IN
            d # NoDistrict /\ (id \in DOMAIN db.addresses => d # db.addresses[id].district)
                => d = Lookup(db.grao, own[t].addresses[id].key)

(* "Order matters: addresses first": no kindergarten or preschool is left   *)
(* without a district when an address of its catchment has one.             *)
NoneStranded ==
    \A k \in DOMAIN db.institutions \ Nurseries :
        db.institutions[k].district = NoDistrict => Majority(Catchment(db, k)) = NoDistrict

(* "Preserve an existing district stamp so weekly ingest stays idempotent": *)
(* an ingest does not change the district a kindergarten or preschool of    *)
(* its snapshot has.                                                        *)
IngestKeepsStamps ==
    [][\A t \in Ingests : Commit(t) =>
        \A k \in ToSet(PlanInstitutions(Snapshot(t))) \ Nurseries :
            k \in DOMAIN db.institutions /\ db.institutions[k].district # NoDistrict =>
                db'.institutions[k].district = db.institutions[k].district]_vars

Tables == INSTANCE CatalogueTables WITH Preschools <- {}, InfantGroups <- {}

\* The tables without surrogate ids.
ByKey(tables) ==
    LET keyOf(id) == tables.addresses[id].key
    IN  [institutions |-> tables.institutions,
         addresses |-> [a \in {keyOf(id) : id \in DOMAIN tables.addresses} |->
            tables.addresses[CHOOSE id \in DOMAIN tables.addresses : keyOf(id) = a].district],
         edges |-> {<<keyOf(e[1]), e[2]>> : e \in tables.edges},
         grao |-> tables.grao,
         locations |-> {}]

(* A transaction that runs by itself, whatever has run before it, takes the *)
(* tables, statement by statement, where CatalogueTables says in one step.  *)
AloneIsAtomic ==
    [][\A t \in Txns : Commit(t) /\ mem[t].alone =>
        ByKey(db') = CASE t \in Ingests -> Tables!AfterIngest(ByKey(db), Snapshot(t))
                       [] t \in Restamps -> Tables!AfterRestamp(ByKey(db))
                       [] t \in Reloads -> Tables!AfterReload(ByKey(db), File[t])]_vars

(* Every run that has begun comes to an end, whoever it has to wait for.    *)
RunsEnd == \A t \in Txns : Running(t) ~> ~Running(t)

(* "Run the non-gated restamp to propagate": once a restamp has passed its  *)
(* tiers, no address that ГРАО lists exactly has another district, also one *)
(* an ingest committed meanwhile.  (An address stamped by a fallback tier   *)
(* keeps the district it has: tiers 2 and 3 are gated in a restamp too.)    *)
RestampPropagates ==
    \A t \in Restamps : pc[t] \in {"settlements", "candidates", "institutions", "set_district"} =>
        \A id \in DOMAIN View(t).addresses :
            LET row == View(t).addresses[id] IN
            Speaks(1, db.grao, row.key) => row.district = Says(1, db.grao, row.key)
=============================================================================
