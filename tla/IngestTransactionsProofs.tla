---------------------- MODULE IngestTransactionsProofs ----------------------
(***************************************************************************)
(* IngestTransactions for any number of ingests, restamps and reloads and  *)
(* any snapshots and classifiers.                                          *)
(*                                                                         *)
(* One row per address.  The unique constraint cannot tell two rows with a *)
(* NULL apart, so what keeps an ingest from inserting a row another one    *)
(* has inserted since its SELECT is the lock on the street, taken by an    *)
(* upsert of the street before the SELECT and held until the commit.       *)
(*                                                                         *)
(* The districts.  Every table, committed or not, is well typed and keeps  *)
(* its foreign keys; a committed ingest has its whole catchment; stamps    *)
(* are those of the best tier of one classifier; no institution is left    *)
(* without a district its catchment could give it; an ingest changes no    *)
(* stamp of the institutions in its snapshot.  The argument: a row belongs *)
(* to at most one transaction, and from its first tier to its end a        *)
(* transaction has the classifier to itself or shares it with readers.     *)
(* Two transactions past their tiers have used the same classifier, so     *)
(* what one has found NULL and could not stamp, the other could not stamp  *)
(* either.                                                                 *)
(***************************************************************************)
EXTENDS IngestTransactions, CatchmentRulesProofs

\* What a plan is made of.
LEMMA PlanMeans ==
    ASSUME NEW i \in 1 .. Len(Snapshots)
    PROVE  LET s == Snapshots[i].institutions
           IN  /\ PlanInstitutions(s) \in Seq(Institutions)
               /\ PlanStreets(s) \in Seq(Streets)
               /\ Plans(s)
<1> DEFINE s == Snapshots[i].institutions
<1>1. s \in SnapshotFile /\ Collected(s)
  BY PlanAssumption
<1> QED
  BY <1>1, SnapshotPlans DEF Collected

Shapes ==
    /\ DOMAIN pc = Txns /\ DOMAIN own = Txns /\ DOMAIN mem = Txns
    /\ DOMAIN db = DOMAIN Nothing \cup {"grao"}
    /\ \A t \in Txns : DOMAIN own[t] = DOMAIN Nothing /\ DOMAIN mem[t] = DOMAIN Blank
    /\ \A id \in DOMAIN db.addresses : "key" \in DOMAIN db.addresses[id]
    /\ \A t \in Txns : \A id \in DOMAIN own[t].addresses : "key" \in DOMAIN own[t].addresses[id]

\* The rows t has inserted, those it has only stamped left out.
New(t) == DOMAIN own[t].addresses \ DOMAIN db.addresses

Ids ==
    /\ nextid \in Nat
    /\ \A id \in DOMAIN db.addresses : id \in Nat /\ id < nextid
    /\ \A t \in Txns : \A id \in DOMAIN own[t].addresses : id \in Nat /\ id < nextid

SameKeys(t) ==
    \A id \in DOMAIN own[t].addresses \cap DOMAIN db.addresses :
        own[t].addresses[id].key = db.addresses[id].key

NewRows(t) ==
    \A i \in New(t) :
        /\ own[t].addresses[i].key.street \in own[t].streets
        /\ \A j \in New(t) : own[t].addresses[i].key = own[t].addresses[j].key => i = j
        /\ \A j \in DOMAIN db.addresses : own[t].addresses[i].key # db.addresses[j].key

Apart(t, u) ==
    /\ New(t) \cap DOMAIN own[u].addresses = {}
    /\ own[t].streets \cap own[u].streets = {}

\* The streets of the plan are locked or will be before the SELECT.
AtUpsert(t) ==
    pc[t] = "upsert" =>
        /\ mem[t].todo \in Seq(Institutions \cup Streets)
        /\ \A a \in PlanAddresses(Snapshot(t)) :
            a.street \in own[t].streets \cup {mem[t].todo[i] : i \in DOMAIN mem[t].todo}

\* What the SELECT has found is all there is of the plan.
AtInsert(t) ==
    pc[t] = "insert" =>
        /\ \A a \in PlanAddresses(Snapshot(t)) : a.street \in own[t].streets
        /\ \A id \in DOMAIN db.addresses :
            db.addresses[id].key \in PlanAddresses(Snapshot(t)) =>
                db.addresses[id].key \in DOMAIN mem[t].ids

Before(t) ==
    /\ pc[t] \in {"start", "upsert", "insert"} => DOMAIN own[t].addresses = {}
    /\ pc[t] \in {"upsert", "insert"} => mem[t].snapshot \in 1 .. Len(Snapshots)

Single(t) == SameKeys(t) /\ NewRows(t) /\ AtUpsert(t) /\ AtInsert(t) /\ Before(t)

OneRowInv ==
    /\ Shapes /\ Ids /\ latest \in 1 .. Len(Snapshots)
    /\ OneRowPerAddress
    /\ \A t \in Txns : Single(t)
    /\ \A t \in Txns : \A u \in Txns \ {t} : Apart(t, u)

-----------------------------------------------------------------------------
\* A step of t leaves the others what they have and know.
Others(t) ==
    \A u \in Txns \ {t} :
        /\ own'[u] = own[u] /\ pc'[u] = pc[u]
        /\ mem'[u].snapshot = mem[u].snapshot /\ mem'[u].todo = mem[u].todo
        /\ mem'[u].ids = mem[u].ids

LEMMA OthersKeep ==
    ASSUME OneRowInv, NEW t \in Txns, UNCHANGED <<db, latest>>, Others(t),
           Shapes', Ids', Single(t)',
           \A u \in Txns \ {t} : Apart(t, u)' /\ Apart(u, t)'
    PROVE  OneRowInv'
<1>1. ASSUME NEW u \in Txns \ {t}
      PROVE  Single(u)'
  <2>1. Single(u)
    BY DEF OneRowInv
  <2>2. /\ own'[u] = own[u] /\ pc'[u] = pc[u] /\ UNCHANGED db
        /\ mem'[u].snapshot = mem[u].snapshot /\ mem'[u].todo = mem[u].todo
        /\ mem'[u].ids = mem[u].ids
    BY DEF Others
  <2>3. SameKeys(u)' /\ NewRows(u)' /\ Before(u)'
    BY <2>1, <2>2 DEF Single, SameKeys, NewRows, New, Before
  <2>4. AtUpsert(u)' /\ AtInsert(u)'
    BY <2>1, <2>2 DEF Single, AtUpsert, AtInsert, Snapshot
  <2> QED
    BY <2>3, <2>4 DEF Single
<1>2. ASSUME NEW u \in Txns \ {t}, NEW v \in Txns \ {u, t}
      PROVE  Apart(u, v)'
  BY DEF OneRowInv, Others, Apart, New
<1>3. OneRowPerAddress'
  BY DEF OneRowInv, OneRowPerAddress
<1> QED
  BY <1>1, <1>2, <1>3 DEF OneRowInv

\* A statement that inserts no address and after which t is past its upserts.
LEMMA StatementKeeps ==
    ASSUME OneRowInv, NEW t \in Txns, UNCHANGED <<db, latest, nextid>>, Others(t), Shapes',
           pc'[t] \notin {"start", "upsert", "insert"}, own'[t].streets = own[t].streets,
           DOMAIN own'[t].addresses \subseteq DOMAIN View(t).addresses,
           \A id \in DOMAIN own'[t].addresses :
                own'[t].addresses[id].key = View(t).addresses[id].key
    PROVE  OneRowInv'
<1>1. /\ DOMAIN View(t).addresses = DOMAIN own[t].addresses \cup DOMAIN db.addresses
      /\ \A id \in DOMAIN View(t).addresses : View(t).addresses[id] =
            IF id \in DOMAIN own[t].addresses THEN own[t].addresses[id] ELSE db.addresses[id]
  BY DEF View, Over
<1>2. Single(t) /\ Ids
  BY DEF OneRowInv
<1>3. New(t)' \subseteq New(t)
  BY <1>1 DEF New
<1>4. \A id \in New(t)' : own'[t].addresses[id].key = own[t].addresses[id].key
  BY <1>1, <1>3 DEF New
<1>5. SameKeys(t)'
  BY <1>1, <1>2 DEF Single, SameKeys
<1>6. NewRows(t)'
  BY <1>2, <1>3, <1>4 DEF Single, NewRows
<1>7. Single(t)'
  BY <1>5, <1>6 DEF Single, AtUpsert, AtInsert, Before
<1>8. Ids'
  BY <1>1, <1>2 DEF Ids, Others
<1>9. ASSUME NEW u \in Txns \ {t}
      PROVE  Apart(t, u)' /\ Apart(u, t)'
  <2>1. Apart(t, u) /\ Apart(u, t) /\ own'[u] = own[u]
    BY DEF OneRowInv, Others
  <2> QED
    BY <2>1, <1>1, <1>3 DEF Apart, New
<1> QED
  BY <1>7, <1>8, <1>9, OthersKeep

-----------------------------------------------------------------------------
(* The upserts.                                                             *)

LEMMA FetchKeeps ==
    ASSUME OneRowInv, NEW t \in Txns, Fetch(t)
    PROVE  OneRowInv'
<1> DEFINE s == Snapshots[latest].institutions
           todo == PlanInstitutions(s) \o PlanStreets(s)
<1>1. /\ UNCHANGED <<db, latest, nextid, own>> /\ pc[t] = "start"
      /\ pc' = [pc EXCEPT ![t] = "upsert"]
      /\ mem' = [u \in Txns |->
            IF u # t THEN [mem[u] EXCEPT !.alone = FALSE]
            ELSE [[Blank EXCEPT !.snapshot = latest, !.todo = todo]
                    EXCEPT !.alone = \A v \in Txns \ {t} : ~Running(v)]]
  BY DEF Fetch, Goto, Begin
<1>2. Shapes /\ Ids /\ latest \in 1 .. Len(Snapshots) /\ Single(t)
  BY DEF OneRowInv
<1>3. /\ PlanInstitutions(s) \in Seq(Institutions) /\ PlanStreets(s) \in Seq(Streets)
      /\ \A a \in PlanAddresses(s) : a.street \in ToSet(PlanStreets(s))
  BY <1>2, PlanMeans DEF Plans
<1>4. /\ mem'[t].snapshot = latest /\ mem'[t].todo = todo /\ DOMAIN mem'[t] = DOMAIN Blank
  BY <1>1 DEF Blank
<1>5. Others(t) /\ Shapes'
  <2>1. \A u \in Txns \ {t} : mem'[u] = [mem[u] EXCEPT !.alone = FALSE]
    BY <1>1
  <2> QED
    BY <1>1, <1>2, <1>4, <2>1 DEF Others, Shapes, Blank
<1>6. AtUpsert(t)'
  <2>1. todo \in Seq(Institutions \cup Streets)
    BY <1>3
  <2>2. \A x \in ToSet(PlanStreets(s)) : \E n \in DOMAIN todo : todo[n] = x
    <3>1. TAKE x \in ToSet(PlanStreets(s))
    <3>2. PICK m \in 1 .. Len(PlanStreets(s)) : PlanStreets(s)[m] = x
      BY <1>3, <3>1 DEF ToSet
    <3>3. todo[Len(PlanInstitutions(s)) + m] = x /\ Len(PlanInstitutions(s)) + m \in DOMAIN todo
      BY <1>3, <3>2
    <3> QED
      BY <3>3
  <2>3. Snapshot(t)' = s
    BY <1>1, <1>4 DEF Snapshot
  <2> HIDE DEF todo
  <2> QED
    BY <1>3, <1>4, <2>1, <2>2, <2>3 DEF AtUpsert
<1>7. pc'[t] = "upsert" /\ own' = own /\ db' = db
  BY <1>1, <1>2 DEF Shapes
<1>8. SameKeys(t)' /\ NewRows(t)'
  BY <1>2, <1>7 DEF Single, SameKeys, NewRows, New
<1>9. AtInsert(t)' /\ Before(t)'
  BY <1>1, <1>2, <1>4, <1>7 DEF Single, AtInsert, Before
<1>10. Ids' /\ \A u \in Txns \ {t} : Apart(t, u)' /\ Apart(u, t)'
  BY <1>1, <1>2, <1>7 DEF OneRowInv, Ids, Apart, New
<1> QED
  BY <1>1, <1>5, <1>6, <1>8, <1>9, <1>10, OthersKeep DEF Single

\* One row upserted: what is left of the list, and a street more if it was one.
LEMMA UpsertKeeps ==
    ASSUME OneRowInv, NEW t \in Txns, UpsertInstitution(t) \/ UpsertStreet(t)
    PROVE  OneRowInv'
<1> DEFINE todo == mem[t].todo
           x == Head(todo)
<1>1. /\ UNCHANGED <<db, latest, nextid, pc>> /\ pc[t] = "upsert" /\ todo # <<>>
      /\ mem' = [mem EXCEPT ![t].todo = Tail(@)] /\ Ready(t)
  BY DEF UpsertInstitution, UpsertStreet
<1>2. Shapes /\ Ids /\ Single(t) /\ Before(t) /\ AtUpsert(t)
  BY DEF OneRowInv, Single
<1>3. todo \in Seq(Institutions \cup Streets) /\ x \in Institutions \cup Streets
  BY <1>1, <1>2 DEF AtUpsert
<1>4. /\ mem'[t].todo = Tail(todo) /\ mem'[t].snapshot = mem[t].snapshot
      /\ mem'[t].ids = mem[t].ids /\ DOMAIN mem'[t] = DOMAIN Blank
      /\ \A u \in Txns \ {t} : mem'[u] = mem[u]
  BY <1>1, <1>2 DEF Shapes, Blank
<1>5. /\ DOMAIN own' = Txns /\ DOMAIN own'[t] = DOMAIN Nothing
      /\ own'[t].addresses = own[t].addresses
      /\ \A u \in Txns \ {t} : own'[u] = own[u]
      /\ own'[t].streets = own[t].streets \cup ({x} \cap Streets)
  <2>1. CASE UpsertInstitution(t)
    <3>1. x \notin Streets
      BY <2>1, RulesAssumption DEF UpsertInstitution
    <3> QED
      BY <2>1, <3>1, <1>2 DEF UpsertInstitution, Shapes, Nothing
  <2>2. CASE UpsertStreet(t)
    BY <2>2, <1>2 DEF UpsertStreet, Shapes, Nothing
  <2> QED
    BY <2>1, <2>2
<1>6. Others(t) /\ Shapes'
  BY <1>1, <1>2, <1>4, <1>5 DEF Others, Shapes
<1>7. \A u \in Txns \ {t} : {x} \cap Streets \cap own[u].streets = {}
  <2>1. x \in Streets => StreetHolders(t, x) = {}
    BY <1>1 DEF Ready, WaitsFor, Tiers
  <2> QED
    BY <2>1 DEF StreetHolders
<1>8. AtUpsert(t)'
  <2>1. Tail(todo) \in Seq(Institutions \cup Streets)
    BY <1>1, <1>3
  <2>2. \A n \in DOMAIN todo : todo[n] = x \/ \E m \in DOMAIN Tail(todo) : Tail(todo)[m] = todo[n]
    <3>1. TAKE n \in DOMAIN todo
    <3>2. CASE n = 1
      BY <3>2, <1>1, <1>3
    <3>3. CASE n # 1
      <4>1. n - 1 \in DOMAIN Tail(todo) /\ Tail(todo)[n - 1] = todo[n]
        BY <3>1, <3>3, <1>1, <1>3
      <4> QED
        BY <4>1
    <3> QED
      BY <3>2, <3>3
  <2>3. Snapshot(t)' = Snapshot(t)
    BY <1>4 DEF Snapshot
  <2>4. \A a \in PlanAddresses(Snapshot(t)) : a.street \in Streets
    <3>1. mem[t].snapshot \in 1 .. Len(Snapshots)
      BY <1>1, <1>2 DEF Before
    <3> QED
      BY <3>1, PlanMeans DEF Snapshot, Plans, PlanAddresses, Address
  <2> HIDE DEF x
  <2> QED
    BY <1>1, <1>2, <1>4, <1>5, <2>1, <2>2, <2>3, <2>4 DEF AtUpsert
<1>9. AtInsert(t)' /\ Before(t)' /\ SameKeys(t)' /\ NewRows(t)'
  BY <1>1, <1>2, <1>4, <1>5 DEF Single, AtInsert, Before, SameKeys, NewRows, New
<1>10. ASSUME NEW u \in Txns \ {t}
       PROVE  Apart(t, u)' /\ Apart(u, t)'
  <2>1. Apart(t, u) /\ Apart(u, t)
    BY DEF OneRowInv
  <2> QED
    BY <1>1, <1>5, <1>7, <2>1 DEF Apart, New
<1>11. Ids'
  BY <1>1, <1>2, <1>5 DEF Ids
<1> QED
  BY <1>1, <1>6, <1>8, <1>9, <1>10, <1>11, OthersKeep DEF Single

-----------------------------------------------------------------------------
(* The SELECT and the INSERT.                                               *)

LEMMA PrefetchKeeps ==
    ASSUME OneRowInv, NEW t \in Txns, PrefetchAddresses(t)
    PROVE  OneRowInv'
<1> DEFINE rows == View(t).addresses
           plan == PlanAddresses(Snapshot(t))
           found == {id \in DOMAIN rows : rows[id].key \in plan}
           ids == [a \in {rows[id].key : id \in found} |->
                        CHOOSE id \in found : rows[id].key = a]
<1>1. /\ UNCHANGED <<db, latest, nextid, own>> /\ pc[t] = "upsert" /\ mem[t].todo = <<>>
      /\ pc' = [pc EXCEPT ![t] = "insert"] /\ mem' = [mem EXCEPT ![t].ids = ids]
  BY DEF PrefetchAddresses, Goto
<1>2. Shapes /\ Ids /\ Single(t) /\ AtUpsert(t) /\ Before(t)
  BY DEF OneRowInv, Single
<1>3. rows = Over(own[t].addresses, db.addresses) /\ DOMAIN own[t].addresses = {}
  BY <1>1, <1>2 DEF View, Before
<1>4. DOMAIN rows = DOMAIN db.addresses /\ \A id \in DOMAIN rows : rows[id] = db.addresses[id]
  BY <1>3 DEF Over
<1>5. \A id \in DOMAIN db.addresses : db.addresses[id].key \in plan =>
            db.addresses[id].key \in DOMAIN ids
  BY <1>4
<1> HIDE DEF ids, found, rows
<1>6. /\ mem'[t].ids = ids /\ mem'[t].snapshot = mem[t].snapshot /\ DOMAIN mem'[t] = DOMAIN Blank
      /\ \A u \in Txns \ {t} : mem'[u] = mem[u]
  BY <1>1, <1>2 DEF Shapes, Blank
<1>7. Others(t) /\ Shapes'
  BY <1>1, <1>2, <1>6 DEF Others, Shapes
<1>8. pc'[t] = "insert" /\ Snapshot(t)' = Snapshot(t)
  BY <1>1, <1>2, <1>6 DEF Shapes, Snapshot
<1>9. \A a \in plan : a.street \in own[t].streets
  BY <1>1, <1>2 DEF AtUpsert
<1>10. AtInsert(t)' /\ AtUpsert(t)' /\ Before(t)'
  BY <1>1, <1>2, <1>5, <1>6, <1>8, <1>9 DEF AtInsert, AtUpsert, Before
<1>11. SameKeys(t)' /\ NewRows(t)'
  BY <1>1, <1>2 DEF Single, SameKeys, NewRows, New
<1>12. Ids' /\ \A u \in Txns \ {t} : Apart(t, u)' /\ Apart(u, t)'
  BY <1>1, <1>2 DEF OneRowInv, Ids, Apart, New
<1> QED
  BY <1>1, <1>7, <1>10, <1>11, <1>12, OthersKeep DEF Single

\* The sequence of ids gives each of finitely many rows one of its own.
LEMMA Numbering ==
    ASSUME NEW S, IsFiniteSet(S), NEW n \in Nat
    PROVE  \E f \in [S -> n .. n + Cardinality(S) - 1] : \A a, b \in S : f[a] = f[b] => a = b
<1> DEFINE c == Cardinality(S)
<1>1. c \in Nat /\ ExistsBijection(1 .. c, S)
  BY FS_CardinalityType
<1>2. PICK g \in Bijection(1 .. c, S) : TRUE
  BY <1>1 DEF ExistsBijection
<1>3. g \in [1 .. c -> S] /\ \A a \in S : \E i \in 1 .. c : g[i] = a
  BY <1>2 DEF Bijection, Surjection
<1> DEFINE place(a) == CHOOSE i \in 1 .. c : g[i] = a
           f == [a \in S |-> n + place(a) - 1]
<1>4. \A a \in S : place(a) \in 1 .. c /\ g[place(a)] = a
  BY <1>3
<1> HIDE DEF place, c
<1>5. f \in [S -> n .. n + c - 1]
  BY <1>1, <1>4
<1>6. \A a, b \in S : f[a] = f[b] => a = b
  BY <1>1, <1>4
<1> QED
  BY <1>5, <1>6 DEF c

LEMMA InsertKeeps ==
    ASSUME OneRowInv, NEW t \in Txns, InsertAddresses(t)
    PROVE  OneRowInv'
<1> DEFINE plan == PlanAddresses(Snapshot(t))
           caught(a) == {id \in DOMAIN db.addresses : db.addresses[id].key = a /\ ~HasNull(a)}
           new == {a \in FreshKeys(t) : caught(a) = {}}
           idOf == CHOOSE f \in [new -> nextid .. nextid + Cardinality(new) - 1] :
                        \A a, b \in new : f[a] = f[b] => a = b
           rows == [id \in {idOf[a] : a \in new} |->
                        [key |-> CHOOSE a \in new : idOf[a] = id,
                         district |-> NoDistrict, settled |-> FALSE]]
           ids == [a \in DOMAIN mem[t].ids \cup FreshKeys(t) |->
                        IF a \in DOMAIN mem[t].ids THEN mem[t].ids[a]
                        ELSE IF a \in new THEN idOf[a] ELSE CHOOSE id \in caught(a) : TRUE]
<1>1. /\ UNCHANGED <<db, latest>> /\ pc[t] = "insert" /\ pc' = [pc EXCEPT ![t] = "edges"]
      /\ own' = [own EXCEPT ![t].addresses = Over(rows, @)]
      /\ mem' = [mem EXCEPT ![t].ids = ids]
      /\ nextid' = nextid + Cardinality(new)
  BY DEF InsertAddresses, Goto
<1>2. Shapes /\ Ids /\ Single(t) /\ AtInsert(t) /\ Before(t)
  BY DEF OneRowInv, Single
<1>3. IsFiniteSet(new) /\ Cardinality(new) \in Nat
  <2>1. IsFiniteSet(plan)
    BY <1>1, <1>2, PlanMeans DEF Before, Snapshot, Plans
  <2>2. new \subseteq plan
    BY DEF FreshKeys
  <2> QED
    BY <2>1, <2>2, FS_Subset, FS_CardinalityType
<1>4. \A a \in new : a \in plan /\ a \notin DOMAIN mem[t].ids
  BY DEF FreshKeys
<1> HIDE DEF new, ids
<1>5. /\ idOf \in [new -> nextid .. nextid + Cardinality(new) - 1]
      /\ \A a, b \in new : idOf[a] = idOf[b] => a = b
  BY <1>2, <1>3, Numbering DEF Ids
<1>6. \A a \in new : idOf[a] \in Nat /\ nextid <= idOf[a] /\ idOf[a] < nextid'
  BY <1>1, <1>2, <1>3, <1>5 DEF Ids
<1> HIDE DEF idOf
<1>7. /\ DOMAIN rows = {idOf[a] : a \in new}
      /\ \A a \in new : rows[idOf[a]].key = a
      /\ \A id \in DOMAIN rows : "key" \in DOMAIN rows[id]
  BY <1>5
<1> HIDE DEF rows
<1>8. /\ DOMAIN own' = Txns /\ DOMAIN own'[t] = DOMAIN Nothing
      /\ own'[t].streets = own[t].streets
      /\ own'[t].addresses = Over(rows, own[t].addresses)
      /\ \A u \in Txns \ {t} : own'[u] = own[u]
  BY <1>1, <1>2 DEF Shapes, Nothing
<1>9. /\ DOMAIN own'[t].addresses = DOMAIN rows
      /\ \A id \in DOMAIN rows : own'[t].addresses[id] = rows[id]
  <2>1. DOMAIN own[t].addresses = {}
    BY <1>1, <1>2 DEF Before
  <2>2. Over(rows, own[t].addresses) =
            [x \in DOMAIN rows \cup DOMAIN own[t].addresses |->
                IF x \in DOMAIN rows THEN rows[x] ELSE own[t].addresses[x]]
    BY DEF Over
  <2> QED
    BY <1>8, <2>1, <2>2
<1>10. DOMAIN mem'[t] = DOMAIN Blank /\ \A u \in Txns \ {t} : mem'[u] = mem[u]
  BY <1>1, <1>2 DEF Shapes, Blank
<1>11. Others(t) /\ Shapes'
  BY <1>1, <1>2, <1>7, <1>8, <1>9, <1>10 DEF Others, Shapes
<1>12. Ids'
  BY <1>1, <1>2, <1>3, <1>6, <1>7, <1>8, <1>9 DEF Ids
<1>13. \A id \in DOMAIN rows :
        /\ id \notin DOMAIN db.addresses
        /\ \A u \in Txns : id \notin DOMAIN own[u].addresses
  BY <1>2, <1>6, <1>7 DEF Ids
<1>14. NewRows(t)' /\ SameKeys(t)'
  <2>1. \A a \in new : a.street \in own[t].streets
    BY <1>1, <1>2, <1>4 DEF AtInsert
  <2>2. \A a \in new : \A j \in DOMAIN db.addresses : db.addresses[j].key # a
    BY <1>1, <1>2, <1>4 DEF AtInsert
  <2> QED
    BY <1>1, <1>7, <1>8, <1>9, <1>13, <2>1, <2>2 DEF NewRows, SameKeys, New
<1>15. AtUpsert(t)' /\ AtInsert(t)' /\ Before(t)'
  BY <1>1, <1>2 DEF AtUpsert, AtInsert, Before, Shapes
<1>16. ASSUME NEW u \in Txns \ {t}
       PROVE  Apart(t, u)' /\ Apart(u, t)'
  <2>1. Apart(t, u) /\ Apart(u, t)
    BY DEF OneRowInv
  <2> QED
    BY <1>1, <1>8, <1>9, <1>13, <2>1 DEF Apart, New
<1> QED
  BY <1>1, <1>11, <1>12, <1>14, <1>15, <1>16, OthersKeep DEF Single

-----------------------------------------------------------------------------
(* The statements after the upserts.                                        *)

\* t's memory and label move on, its rows of addresses and streets do not.
LEMMA QuietKeeps ==
    ASSUME OneRowInv, NEW t \in Txns, UNCHANGED <<db, latest, nextid>>, Others(t),
           DOMAIN pc' = Txns, DOMAIN own' = Txns, DOMAIN mem' = Txns,
           DOMAIN own'[t] = DOMAIN Nothing, DOMAIN mem'[t] = DOMAIN Blank,
           \A u \in Txns \ {t} : DOMAIN mem'[u] = DOMAIN Blank,
           pc'[t] \notin {"start", "upsert", "insert"}, own'[t].streets = own[t].streets,
           own'[t].addresses = own[t].addresses
    PROVE  OneRowInv'
<1>1. Shapes'
  BY DEF OneRowInv, Shapes, Others
<1>2. /\ DOMAIN own'[t].addresses \subseteq DOMAIN View(t).addresses
      /\ \A id \in DOMAIN own'[t].addresses :
            own'[t].addresses[id].key = View(t).addresses[id].key
  BY DEF View, Over
<1> QED
  BY <1>1, <1>2, StatementKeeps

\* t stamps rows it can see, in whatever column but the key.
LEMMA StampKeeps ==
    ASSUME OneRowInv, NEW t \in Txns, UNCHANGED <<db, latest, nextid, mem>>,
           NEW label, pc' = [pc EXCEPT ![t] = label], label \notin {"start", "upsert", "insert"},
           NEW rows, DOMAIN rows \subseteq DOMAIN View(t).addresses,
           \A id \in DOMAIN rows : /\ "key" \in DOMAIN rows[id]
                                   /\ rows[id].key = View(t).addresses[id].key,
           own' = [own EXCEPT ![t].addresses = Over(rows, @)]
    PROVE  OneRowInv'
<1>1. Shapes
  BY DEF OneRowInv
<1>2. /\ DOMAIN own' = Txns /\ DOMAIN own'[t] = DOMAIN Nothing
      /\ own'[t].streets = own[t].streets
      /\ own'[t].addresses = Over(rows, own[t].addresses)
      /\ \A u \in Txns \ {t} : own'[u] = own[u]
  BY <1>1 DEF Shapes, Nothing
<1>3. /\ DOMAIN own'[t].addresses = DOMAIN rows \cup DOMAIN own[t].addresses
      /\ \A id \in DOMAIN own'[t].addresses : own'[t].addresses[id] =
            IF id \in DOMAIN rows THEN rows[id] ELSE own[t].addresses[id]
  BY <1>2 DEF Over
<1>4. /\ DOMAIN View(t).addresses = DOMAIN own[t].addresses \cup DOMAIN db.addresses
      /\ \A id \in DOMAIN own[t].addresses : View(t).addresses[id] = own[t].addresses[id]
  BY DEF View, Over
<1>5. Others(t) /\ Shapes' /\ pc'[t] = label
  BY <1>1, <1>2, <1>3 DEF Others, Shapes
<1> QED
  BY <1>2, <1>3, <1>4, <1>5, StatementKeeps

LEMMA ViewHasKeys ==
    ASSUME OneRowInv, NEW t \in Txns
    PROVE  \A id \in DOMAIN View(t).addresses : "key" \in DOMAIN View(t).addresses[id]
BY DEF OneRowInv, Shapes, View, Over

LEMMA StatementsKeep ==
    ASSUME OneRowInv, NEW t \in Txns,
           \/ InsertEdges(t) \/ BeginRestamp(t) \/ StampTier(t) \/ StampSettlements(t)
           \/ SelectCandidates(t) \/ ReadDistrict(t) \/ SetDistrict(t)
           \/ BeginReload(t) \/ ReloadGrao(t)
    PROVE  OneRowInv'
<1>1. Shapes
  BY DEF OneRowInv
<1>2. CASE InsertEdges(t) \/ SetDistrict(t)
  <2>1. /\ UNCHANGED <<db, latest, nextid, mem>>
        /\ pc' = [pc EXCEPT ![t] = "tier1"] \/ pc' = [pc EXCEPT ![t] = "institutions"]
    BY <1>2 DEF InsertEdges, SetDistrict, Goto
  <2>2. /\ DOMAIN own' = Txns /\ DOMAIN own'[t] = DOMAIN Nothing
        /\ own'[t].streets = own[t].streets /\ own'[t].addresses = own[t].addresses
        /\ \A u \in Txns \ {t} : own'[u] = own[u]
    BY <1>1, <1>2 DEF InsertEdges, SetDistrict, Shapes, Nothing
  <2> QED
    BY <1>1, <2>1, <2>2, QuietKeeps DEF Shapes, Others
<1>3. CASE BeginRestamp(t) \/ BeginReload(t)
  <2>1. /\ UNCHANGED <<db, latest, nextid, own>>
        /\ pc' = [pc EXCEPT ![t] = "tier1"] \/ pc' = [pc EXCEPT ![t] = "truncate"]
        /\ Begin(t, Blank)
    BY <1>3 DEF BeginRestamp, BeginReload, Goto
  <2>2. /\ DOMAIN mem' = Txns /\ DOMAIN mem'[t] = DOMAIN Blank
        /\ \A u \in Txns \ {t} : mem'[u] = [mem[u] EXCEPT !.alone = FALSE]
    BY <2>1 DEF Begin, Blank
  <2>3. Others(t) /\ \A u \in Txns \ {t} : DOMAIN mem'[u] = DOMAIN Blank
    BY <1>1, <2>1, <2>2 DEF Others, Shapes, Blank
  <2> QED
    BY <1>1, <2>1, <2>2, <2>3, QuietKeeps DEF Shapes
<1>4. CASE SelectCandidates(t) \/ ReadDistrict(t)
  <2>1. /\ UNCHANGED <<db, latest, nextid, own>>
        /\ \/ pc' = [pc EXCEPT ![t] = "institutions"] \/ pc' = [pc EXCEPT ![t] = "set_district"]
           \/ pc' = pc /\ pc[t] = "institutions"
        /\ \E c, d : mem' = [mem EXCEPT ![t].candidates = c, ![t].chosen = d]
    <3>1. CASE SelectCandidates(t)
      <4>1. PICK c : mem' = [mem EXCEPT ![t].candidates = c]
        BY <3>1 DEF SelectCandidates
      <4>2. mem' = [mem EXCEPT ![t].candidates = c, ![t].chosen = mem[t].chosen]
        BY <1>1, <4>1 DEF Shapes, Blank
      <4> QED
        BY <3>1, <4>2 DEF SelectCandidates, Goto
    <3>2. CASE ReadDistrict(t)
      BY <3>2 DEF ReadDistrict, Goto
    <3> QED
      BY <1>4, <3>1, <3>2
  <2>2. /\ DOMAIN mem' = Txns /\ DOMAIN mem'[t] = DOMAIN Blank
        /\ \A u \in Txns \ {t} : mem'[u] = mem[u]
    BY <1>1, <2>1 DEF Shapes, Blank
  <2> QED
    BY <1>1, <2>1, <2>2, QuietKeeps DEF Shapes, Others
<1>5. CASE ReloadGrao(t)
  <2>1. UNCHANGED <<db, latest, nextid, own, mem>> /\ pc' = [pc EXCEPT ![t] = "loaded"]
    BY <1>5 DEF ReloadGrao, Goto
  <2> QED
    BY <1>1, <2>1, QuietKeeps DEF Shapes, Others
<1>6. CASE StampTier(t)
  <2>1. PICK label \in DOMAIN Tiers :
            /\ Stamp(t, TierRows(t, Tiers[label]), Tiers[label])
            /\ Goto(t, CASE label = "tier1" -> "tier2" [] label = "tier2" -> "tier3"
                         [] label = "tier3" -> "settlements")
            /\ UNCHANGED <<db, latest, nextid, mem>>
    BY <1>6 DEF StampTier
  <2> DEFINE n == Tiers[label]
             view == View(t).addresses
             rows == [id \in TierRows(t, n) |->
                        [view[id] EXCEPT !.district = Says(n, View(t).grao, view[id].key)]]
  <2>2. own' = [own EXCEPT ![t].addresses = Over(rows, @)]
    BY <2>1 DEF Stamp
  <2>3. TierRows(t, n) \subseteq DOMAIN view
    BY DEF TierRows
  <2>4. \A id \in DOMAIN rows : "key" \in DOMAIN rows[id] /\ rows[id].key = view[id].key
    BY <2>3, ViewHasKeys
  <2>5. PICK next \in {"tier2", "tier3", "settlements"} : pc' = [pc EXCEPT ![t] = next]
    BY <2>1 DEF Goto, Tiers
  <2>6. DOMAIN rows \subseteq DOMAIN view
    BY <2>3
  <2> HIDE DEF rows
  <2> QED
    BY <2>1, <2>2, <2>4, <2>5, <2>6, StampKeeps
<1>7. CASE StampSettlements(t)
  <2> DEFINE view == View(t).addresses
             rows == [id \in SettlementRows(t) |-> [view[id] EXCEPT !.settled = TRUE]]
  <2>1. /\ own' = [own EXCEPT ![t].addresses = Over(rows, @)]
        /\ pc' = [pc EXCEPT ![t] = "candidates"] /\ UNCHANGED <<db, latest, nextid, mem>>
    BY <1>7 DEF StampSettlements, Goto
  <2>2. SettlementRows(t) \subseteq DOMAIN view
    BY DEF SettlementRows
  <2>3. \A id \in DOMAIN rows : "key" \in DOMAIN rows[id] /\ rows[id].key = view[id].key
    BY <2>2, ViewHasKeys
  <2> HIDE DEF rows
  <2> QED
    BY <2>1, <2>2, <2>3, StampKeeps DEF rows
<1> QED
  BY <1>2, <1>3, <1>4, <1>5, <1>6, <1>7

-----------------------------------------------------------------------------
(* The end of a transaction.  What a commit adds to the table is on streets *)
(* no other transaction has locked.                                         *)

LEMMA CommitKeeps ==
    ASSUME OneRowInv, NEW t \in Txns, Commit(t)
    PROVE  OneRowInv'
<1> DEFINE mine == own[t].addresses
           rows == db.addresses
<1>1. /\ db' = View(t) /\ own' = [own EXCEPT ![t] = Nothing] /\ UNCHANGED <<latest, nextid>>
      /\ mem' = [mem EXCEPT ![t] = [Blank EXCEPT !.snapshot = mem[t].snapshot]]
      /\ pc' = [pc EXCEPT ![t] = "committed"]
  BY DEF Commit, Goto
<1>2. Shapes /\ Ids /\ Single(t) /\ OneRowPerAddress
  BY DEF OneRowInv
<1>3. /\ DOMAIN db'.addresses = DOMAIN mine \cup DOMAIN rows
      /\ \A id \in DOMAIN db'.addresses :
            db'.addresses[id] = IF id \in DOMAIN mine THEN mine[id] ELSE rows[id]
      /\ DOMAIN db' = DOMAIN Nothing \cup {"grao"}
  BY <1>1 DEF View, Over, Nothing
<1>4. \A id \in DOMAIN rows : db'.addresses[id].key = rows[id].key
  BY <1>2, <1>3 DEF Single, SameKeys
<1>5. DOMAIN db'.addresses = DOMAIN rows \cup New(t)
  BY <1>3 DEF New
<1>6. \A id \in New(t) : db'.addresses[id].key = mine[id].key
  BY <1>3 DEF New
<1>7. OneRowPerAddress'
  BY <1>2, <1>4, <1>5, <1>6 DEF OneRowPerAddress, Single, NewRows, New
<1>8. /\ own'[t] = Nothing /\ pc'[t] = "committed" /\ DOMAIN mem'[t] = DOMAIN Blank
      /\ \A u \in Txns \ {t} : own'[u] = own[u] /\ pc'[u] = pc[u] /\ mem'[u] = mem[u]
  BY <1>1, <1>2 DEF Shapes, Blank
<1>9. DOMAIN Nothing.addresses = {} /\ Nothing.streets = {}
  BY DEF Nothing, Empty
<1>10. Shapes' /\ Ids'
  BY <1>1, <1>2, <1>3, <1>8, <1>9 DEF Shapes, Ids
<1>11. Single(t)'
  BY <1>8, <1>9 DEF Single, SameKeys, NewRows, New, AtUpsert, AtInsert, Before
<1>12. ASSUME NEW u \in Txns \ {t}
       PROVE  Single(u)'
  <2>1. Single(u) /\ Apart(u, t) /\ Apart(t, u)
    BY DEF OneRowInv
  <2>2. own'[u] = own[u] /\ pc'[u] = pc[u] /\ mem'[u] = mem[u]
    BY <1>8
  <2>3. New(u)' = New(u)
    BY <1>3, <2>1, <2>2 DEF New, Apart
  <2>4. SameKeys(u)'
    BY <1>4, <1>5, <2>1, <2>2 DEF Single, SameKeys, Apart
  <2>5. NewRows(u)'
    BY <1>2, <1>4, <1>5, <1>6, <2>1, <2>2, <2>3 DEF Single, NewRows, Apart
  <2>6. AtInsert(u)'
    BY <1>2, <1>4, <1>5, <1>6, <2>1, <2>2 DEF Single, AtInsert, NewRows, Apart, Snapshot
  <2>7. AtUpsert(u)' /\ Before(u)'
    BY <2>1, <2>2 DEF Single, AtUpsert, Before, Snapshot
  <2> QED
    BY <2>4, <2>5, <2>6, <2>7 DEF Single
<1>13. ASSUME NEW u \in Txns, NEW v \in Txns \ {u}
       PROVE  Apart(u, v)'
  <2>1. CASE u = t \/ v = t
    BY <2>1, <1>8, <1>9 DEF Apart, New
  <2>2. CASE u # t /\ v # t
    BY <2>2, <1>3, <1>8 DEF OneRowInv, Apart, New
  <2> QED
    BY <2>1, <2>2
<1> QED
  BY <1>1, <1>7, <1>10, <1>11, <1>12, <1>13 DEF OneRowInv

LEMMA RollbackKeeps ==
    ASSUME OneRowInv, NEW t \in Txns, Rollback(t)
    PROVE  OneRowInv'
<1>1. /\ own' = [own EXCEPT ![t] = Nothing] /\ mem' = [mem EXCEPT ![t] = Blank]
      /\ pc' = [pc EXCEPT ![t] = "failed"] /\ UNCHANGED <<db, latest, nextid>>
  BY DEF Rollback, Goto
<1>2. Shapes /\ Ids
  BY DEF OneRowInv
<1>3. /\ own'[t] = Nothing /\ pc'[t] = "failed" /\ mem'[t] = Blank
      /\ \A u \in Txns \ {t} : own'[u] = own[u] /\ pc'[u] = pc[u] /\ mem'[u] = mem[u]
  BY <1>1, <1>2 DEF Shapes
<1>4. DOMAIN Nothing.addresses = {} /\ Nothing.streets = {}
  BY DEF Nothing, Empty
<1>5. Others(t) /\ Shapes' /\ Ids'
  BY <1>1, <1>2, <1>3, <1>4 DEF Others, Shapes, Ids
<1>6. Single(t)'
  BY <1>3, <1>4 DEF Single, SameKeys, NewRows, New, AtUpsert, AtInsert, Before
<1>7. \A u \in Txns \ {t} : Apart(t, u)' /\ Apart(u, t)'
  BY <1>3, <1>4 DEF Apart, New
<1> QED
  BY <1>1, <1>5, <1>6, <1>7, OthersKeep

LEMMA OneRowInductive ==
    ASSUME OneRowInv, [Next]_vars
    PROVE  OneRowInv'
<1>1. CASE UNCHANGED <<db, nextid, pc, own, mem>> /\ latest' \in 1 .. Len(Snapshots)
  BY <1>1
  DEF OneRowInv, Shapes, Ids, OneRowPerAddress, Single, SameKeys, NewRows, New, AtUpsert, AtInsert,
      Before, Apart, Snapshot
<1>2. CASE Publish
  <2>1. latest' \in 1 .. Len(Snapshots)
    BY <1>2, TransactionsAssumption DEF Publish, OneRowInv
  <2> QED
    BY <1>1, <1>2, <2>1 DEF Publish
<1>3. ASSUME NEW t \in Txns, Step(t) \/ Fail(t) \/ EndDeadlock(t)
      PROVE  OneRowInv'
  BY <1>3, FetchKeeps, UpsertKeeps, PrefetchKeeps, InsertKeeps, StatementsKeep, CommitKeeps,
     RollbackKeeps DEF Step, Fail, EndDeadlock
<1>4. CASE UNCHANGED vars
  BY <1>1, <1>4 DEF vars, OneRowInv
<1> QED
  BY <1>2, <1>3, <1>4 DEF Next

(* addresses never holds an address twice, NULL suffixes and entrances      *)
(* included, however many ingests, restamps and reloads interleave their    *)
(* statements, fail or deadlock.                                            *)
THEOREM AlwaysOneRowPerAddress == Spec => []OneRowPerAddress
<1>1. Init => OneRowInv
  <2> SUFFICES ASSUME Init
               PROVE  OneRowInv
    OBVIOUS
  <2>1. /\ \A t \in Txns : own[t] = Nothing /\ mem[t] = Blank /\ pc[t] = "start"
        /\ DOMAIN db.addresses = {} /\ nextid = 1 /\ latest = 1
        /\ DOMAIN Nothing.addresses = {} /\ Nothing.streets = {}
    BY DEF Init, Nothing, Empty
  <2>2. Shapes /\ Ids
    BY <2>1 DEF Init, Shapes, Ids, Nothing
  <2>3. \A t \in Txns : Single(t)
    BY <2>1 DEF Single, SameKeys, NewRows, New, AtUpsert, AtInsert, Before
  <2>4. \A t, u \in Txns : Apart(t, u)
    BY <2>1 DEF Apart, New
  <2> QED
    BY <2>1, <2>2, <2>3, <2>4, TransactionsAssumption DEF OneRowInv, OneRowPerAddress
<1>2. OneRowInv /\ [Next]_vars => OneRowInv'
  BY OneRowInductive
<1>3. OneRowInv => OneRowPerAddress
  BY DEF OneRowInv
<1> QED
  BY <1>1, <1>2, <1>3, PTL DEF Spec

-----------------------------------------------------------------------------
(* The districts.                                                           *)

UpsertLabels == {"upsert", "insert", "edges"}
AfterTiers == {"settlements", "candidates", "institutions", "set_district"}
StampLabels == {"tier1", "tier2", "tier3"} \cup AfterTiers

\* What is planned fits the columns: parse_number lets nothing else through.
LEMMA PlanTyped ==
    ASSUME NEW i \in 1 .. Len(Snapshots)
    PROVE  PlanAddresses(Snapshots[i].institutions) \subseteq Address
BY PlanMeans DEF Plans, PlanAddresses

\* The tiers t has run.
Passed(t) == IF pc[t] = "tier2" THEN 1 ELSE IF pc[t] = "tier3" THEN 2
             ELSE IF pc[t] \in AfterTiers THEN 3 ELSE 0

Role(t) ==
    /\ pc[t] \in UpsertLabels => t \in Ingests
    /\ pc[t] \in StampLabels => t \in Stampers
    /\ pc[t] \in {"truncate", "loaded"} => t \in Reloads
    /\ pc[t] \in UpsertLabels \cup StampLabels
                \cup {"start", "truncate", "loaded", "committed", "failed"}
    /\ t \in Ingests /\ pc[t] \notin {"start", "failed"} => mem[t].snapshot \in 1 .. Len(Snapshots)

\* Who has truncated grao_addresses is alone with it.
Exclusive(g, t) == pc[g] = "loaded" => Passed(t) = 0 /\ pc[t] # "loaded"

\* No row belongs to two transactions.
Distinct(t, u) ==
    /\ DOMAIN own[t].addresses \cap DOMAIN own[u].addresses = {}
    /\ DOMAIN own[t].institutions \cap DOMAIN own[u].institutions = {}

\* The upserts have put the institutions of the plan into the table, the
\* SELECT and the INSERT its addresses, and InsertEdges its edges.
InstitutionsDone(t) ==
    /\ pc[t] = "upsert" =>
        /\ \A k \in ToSet(PlanInstitutions(Snapshot(t))) :
            k \in DOMAIN own[t].institutions \/ \E i \in DOMAIN mem[t].todo : mem[t].todo[i] = k
        /\ \A i \in DOMAIN mem[t].todo :
            mem[t].todo[i] \in ToSet(PlanInstitutions(Snapshot(t))) \cup Streets
    /\ t \in Ingests /\ pc[t] \in {"insert", "edges"} \cup StampLabels =>
            ToSet(PlanInstitutions(Snapshot(t))) \subseteq DOMAIN own[t].institutions

IdsFound(t) ==
    pc[t] \in {"insert", "edges"} =>
        /\ \A a \in DOMAIN mem[t].ids :
            mem[t].ids[a] \in DOMAIN View(t).addresses /\ View(t).addresses[mem[t].ids[a]].key = a
        /\ pc[t] = "edges" => PlanAddresses(Snapshot(t)) \subseteq DOMAIN mem[t].ids

EdgesDone(t) ==
    t \in Ingests /\ pc[t] \in StampLabels \cup {"committed"} =>
        \A e \in PlanEdges(Snapshot(t)) : \E id \in DOMAIN View(t).addresses :
            View(t).addresses[id].key = e[1] /\ <<id, e[2]>> \in View(t).edges

\* Edges are written by who has the institution.
EdgesOwned(t) == \A e \in own[t].edges : e[2] \in DOMAIN own[t].institutions

\* A transaction that has not begun or has ended has written nothing, and a
\* reload writes none of these tables.
Idle(t) == ~Running(t) \/ t \in Reloads => own[t] = Nothing

\* The rows of the tables and their foreign keys, apart from what others
\* have not committed.
Sound(mine, base) ==
    /\ WellTyped(mine.institutions, mine.streets, mine.addresses, mine.edges)
    /\ \A id \in DOMAIN mine.addresses :
            mine.addresses[id].key.street \in mine.streets \cup base.streets
    /\ \A e \in mine.edges : e[1] \in DOMAIN mine.addresses \cup DOMAIN base.addresses

\* What the institutions pass has in hand.
Candidate(t, c) ==
    /\ c.institution \in DOMAIN View(t).institutions \ Nurseries
    /\ c.address \in Address \cup {None}
CandidatesTyped(t) ==
    /\ pc[t] \in {"institutions", "set_district"} => \A c \in mem[t].candidates : Candidate(t, c)
    /\ pc[t] = "set_district" =>
            /\ mem[t].chosen.institution \in DOMAIN View(t).institutions \ Nurseries
            /\ mem[t].chosen.district \in Districts

Mine(t) ==
    /\ Role(t) /\ Idle(t) /\ Sound(own[t], db) /\ EdgesOwned(t)
    /\ InstitutionsDone(t) /\ IdsFound(t) /\ EdgesDone(t) /\ CandidatesTyped(t)

TablesInv ==
    /\ OneRowInv /\ 1 <= nextid
    /\ Sound(db, db) /\ db.grao \subseteq GraoRow
    /\ \A e \in db.edges : e[2] \in DOMAIN db.institutions
    /\ \A t \in Txns : Mine(t)
    /\ \A t \in Txns : \A u \in Txns \ {t} : Exclusive(t, u) /\ Distinct(t, u)

\* An address t has left without a district is one its tiers do not speak of.
Unspoken(t) ==
    \A id \in DOMAIN View(t).addresses : View(t).addresses[id].district = NoDistrict =>
        \A n \in 1 .. Passed(t) : ~Speaks(n, db.grao, View(t).addresses[id].key)

Best(n, a, d) ==
    /\ Speaks(n, db.grao, a) /\ d = Says(n, db.grao, a)
    /\ \A m \in 1 .. n - 1 : ~Speaks(m, db.grao, a)

StampedBest(t) ==
    \A id \in DOMAIN own[t].addresses :
        LET row == own[t].addresses[id] IN
        row.district # NoDistrict
        /\ (id \in DOMAIN db.addresses => row.district # db.addresses[id].district)
            => \E n \in 1 .. Passed(t) : Best(n, row.key, row.district)

Propagated(t) ==
    t \in Restamps /\ Passed(t) > 0 =>
        \A id \in DOMAIN View(t).addresses :
            LET row == View(t).addresses[id] IN
            Speaks(1, db.grao, row.key) => row.district = Says(1, db.grao, row.key)

Stamped(t) == Unspoken(t) /\ StampedBest(t) /\ Propagated(t)

StampsInv == TablesInv /\ \A t \in Txns : Stamped(t)

\* No address of k's catchment has a district.
Bare(tables, k) == \A e \in tables.edges : e[2] = k => tables.addresses[e[1]].district = NoDistrict

NoneBare == \A k \in DOMAIN db.institutions \ Nurseries :
                db.institutions[k].district = NoDistrict => Bare(db, k)

SeenBare(t) ==
    pc[t] \in {"institutions", "set_district"} =>
        \A k \in DOMAIN View(t).institutions \ Nurseries :
            View(t).institutions[k].district = NoDistrict =>
                \/ \E c \in mem[t].candidates : c.institution = k
                \/ pc[t] = "set_district" /\ mem[t].chosen.institution = k
                \/ Bare(View(t), k)

BareInv == StampsInv /\ NoneBare /\ \A t \in Txns : SeenBare(t)

\* What was stamped is neither overwritten by the upsert nor selected.
KeepsStamped(t) ==
    t \in Ingests =>
        \A k \in (DOMAIN own[t].institutions \cap DOMAIN db.institutions) \ Nurseries :
            k \in ToSet(PlanInstitutions(Snapshot(t))) /\ db.institutions[k].district # NoDistrict =>
                /\ own[t].institutions[k].district = db.institutions[k].district
                /\ pc[t] \in {"institutions", "set_district"} =>
                    \A c \in mem[t].candidates : c.institution # k
                /\ pc[t] = "set_district" => mem[t].chosen.institution # k

-----------------------------------------------------------------------------
(* The tables as a transaction sees them, row by row, before and after a    *)
(* step.                                                                    *)

LEMMA ViewIs ==
    ASSUME NEW t
    PROVE  LET V == View(t)
           IN  /\ DOMAIN V.institutions = DOMAIN own[t].institutions \cup DOMAIN db.institutions
               /\ \A k \in DOMAIN V.institutions : V.institutions[k] =
                    IF k \in DOMAIN own[t].institutions THEN own[t].institutions[k]
                    ELSE db.institutions[k]
               /\ DOMAIN V.addresses = DOMAIN own[t].addresses \cup DOMAIN db.addresses
               /\ \A id \in DOMAIN V.addresses : V.addresses[id] =
                    IF id \in DOMAIN own[t].addresses THEN own[t].addresses[id]
                    ELSE db.addresses[id]
               /\ V.streets = own[t].streets \cup db.streets
               /\ V.edges = own[t].edges \cup db.edges
               /\ V.grao = IF pc[t] = "loaded" THEN File[t] ELSE db.grao
BY DEF View, Over

LEMMA ViewIsNext ==
    ASSUME NEW t
    PROVE  LET V == View(t)'
           IN  /\ DOMAIN V.institutions = DOMAIN own'[t].institutions \cup DOMAIN db'.institutions
               /\ \A k \in DOMAIN V.institutions : V.institutions[k] =
                    IF k \in DOMAIN own'[t].institutions THEN own'[t].institutions[k]
                    ELSE db'.institutions[k]
               /\ DOMAIN V.addresses = DOMAIN own'[t].addresses \cup DOMAIN db'.addresses
               /\ \A id \in DOMAIN V.addresses : V.addresses[id] =
                    IF id \in DOMAIN own'[t].addresses THEN own'[t].addresses[id]
                    ELSE db'.addresses[id]
               /\ V.streets = own'[t].streets \cup db'.streets
               /\ V.edges = own'[t].edges \cup db'.edges
               /\ V.grao = IF pc'[t] = "loaded" THEN File[t] ELSE db'.grao
BY DEF View, Over

-----------------------------------------------------------------------------
(* What each step does to the variables of its transaction.                 *)

Still(t) ==
    /\ UNCHANGED <<db, latest>> /\ nextid' \in Nat /\ nextid <= nextid'
    /\ \A u \in Txns \ {t} :
        /\ own'[u] = own[u] /\ pc'[u] = pc[u]
        /\ mem'[u].snapshot = mem[u].snapshot /\ mem'[u].todo = mem[u].todo
        /\ mem'[u].ids = mem[u].ids /\ mem'[u].candidates = mem[u].candidates
        /\ mem'[u].chosen = mem[u].chosen

\* t's rows stay, or its memory does.
SameRows(t) == own'[t] = own[t] /\ nextid' = nextid
SameMind(t) == mem'[t] = mem[t] /\ nextid' = nextid

LEMMA FetchDoes ==
    ASSUME OneRowInv, NEW t \in Txns, Fetch(t)
    PROVE  /\ Still(t) /\ SameRows(t) /\ t \in Ingests /\ pc[t] = "start" /\ pc'[t] = "upsert"
           /\ mem'[t].snapshot = latest /\ latest \in 1 .. Len(Snapshots)
           /\ mem'[t].todo = PlanInstitutions(Snapshots[latest].institutions)
                                \o PlanStreets(Snapshots[latest].institutions)
<1>1. Shapes /\ Ids /\ latest \in 1 .. Len(Snapshots)
  BY DEF OneRowInv
<1> DEFINE s == Snapshots[latest].institutions
           todo == PlanInstitutions(s) \o PlanStreets(s)
<1>2. /\ UNCHANGED <<db, latest, nextid, own>> /\ pc[t] = "start" /\ t \in Ingests
      /\ pc' = [pc EXCEPT ![t] = "upsert"]
      /\ mem' = [u \in Txns |->
            IF u # t THEN [mem[u] EXCEPT !.alone = FALSE]
            ELSE [[Blank EXCEPT !.snapshot = latest, !.todo = todo]
                    EXCEPT !.alone = \A v \in Txns \ {t} : ~Running(v)]]
  BY DEF Fetch, Goto, Begin
<1> HIDE DEF todo
<1>3. mem'[t].snapshot = latest /\ mem'[t].todo = todo
  BY <1>2 DEF Blank
<1>4. \A u \in Txns \ {t} : mem'[u] = [mem[u] EXCEPT !.alone = FALSE]
  BY <1>2
<1>5. Still(t)
  <2>1. ASSUME NEW u \in Txns \ {t}
        PROVE  /\ mem'[u].snapshot = mem[u].snapshot /\ mem'[u].todo = mem[u].todo
               /\ mem'[u].ids = mem[u].ids /\ mem'[u].candidates = mem[u].candidates
               /\ mem'[u].chosen = mem[u].chosen
    <3>1. DOMAIN mem[u] = DOMAIN Blank
      BY <1>1 DEF Shapes
    <3> QED
      BY <1>4, <3>1 DEF Blank
  <2>2. \A u \in Txns \ {t} : own'[u] = own[u] /\ pc'[u] = pc[u]
    BY <1>1, <1>2 DEF Shapes
  <2>3. UNCHANGED <<db, latest, nextid>>
    BY DEF Fetch
  <2> QED
    BY <1>1, <2>1, <2>2, <2>3 DEF Ids, Still
<1>6. pc'[t] = "upsert"
  BY <1>1, <1>2 DEF Shapes
<1> QED
  BY <1>1, <1>2, <1>3, <1>5, <1>6 DEF SameRows, todo

LEMMA BeginDoes ==
    ASSUME OneRowInv, NEW t \in Txns, BeginRestamp(t) \/ BeginReload(t)
    PROVE  /\ Still(t) /\ SameRows(t) /\ pc[t] = "start"
           /\ \/ t \in Restamps /\ pc'[t] = "tier1"
              \/ t \in Reloads /\ pc'[t] = "truncate"
<1>1. Shapes /\ Ids
  BY DEF OneRowInv
<1> QED
  BY <1>1 DEF BeginRestamp, BeginReload, Goto, Begin, Shapes, Ids, Blank, Still, SameRows

LEMMA UpsertInstitutionDoes ==
    ASSUME OneRowInv, NEW t \in Txns, UpsertInstitution(t)
    PROVE  LET k == Head(mem[t].todo)
               row == PlanRow(Snapshot(t), k)
               old == IF k \in DOMAIN View(t).institutions
                      THEN View(t).institutions[k].district ELSE NoDistrict
           IN  /\ Still(t) /\ nextid' = nextid /\ pc[t] = "upsert" /\ pc'[t] = "upsert"
               /\ mem[t].todo # <<>> /\ k \in Institutions
               /\ mem'[t].todo = Tail(mem[t].todo) /\ mem'[t].snapshot = mem[t].snapshot
               /\ \A u \in Txns \ {t} : k \notin DOMAIN own[u].institutions
               /\ own'[t].institutions = Over([x \in {k} |->
                        [address |-> row.address,
                         district |-> IF row.district = NoDistrict THEN old ELSE row.district]],
                        own[t].institutions)
               /\ own'[t].streets = own[t].streets /\ own'[t].addresses = own[t].addresses
               /\ own'[t].edges = own[t].edges
<1>1. Shapes /\ Ids
  BY DEF OneRowInv
<1>2. InstitutionHolders(t, Head(mem[t].todo)) = {}
  BY RulesAssumption DEF UpsertInstitution, Ready, WaitsFor, Tiers
<1> QED
  BY <1>1, <1>2
  DEF UpsertInstitution, InstitutionHolders, Shapes, Ids, Blank, Nothing, Still

LEMMA UpsertStreetDoes ==
    ASSUME OneRowInv, NEW t \in Txns, UpsertStreet(t)
    PROVE  /\ Still(t) /\ nextid' = nextid /\ pc[t] = "upsert" /\ pc'[t] = "upsert"
           /\ mem[t].todo # <<>> /\ Head(mem[t].todo) \in Streets
           /\ mem'[t].todo = Tail(mem[t].todo) /\ mem'[t].snapshot = mem[t].snapshot
           /\ own'[t].institutions = own[t].institutions
           /\ own'[t].streets = own[t].streets \cup {Head(mem[t].todo)}
           /\ own'[t].addresses = own[t].addresses /\ own'[t].edges = own[t].edges
<1>1. Shapes /\ Ids
  BY DEF OneRowInv
<1> QED
  BY <1>1 DEF UpsertStreet, Shapes, Ids, Blank, Nothing, Still

LEMMA PrefetchDoes ==
    ASSUME OneRowInv, NEW t \in Txns, PrefetchAddresses(t)
    PROVE  LET rows == View(t).addresses
               found == {id \in DOMAIN rows : rows[id].key \in PlanAddresses(Snapshot(t))}
           IN  /\ Still(t) /\ SameRows(t) /\ pc[t] = "upsert" /\ pc'[t] = "insert"
               /\ mem[t].todo = <<>> /\ mem'[t].snapshot = mem[t].snapshot
               /\ mem'[t].ids = [a \in {rows[id].key : id \in found} |->
                                    CHOOSE id \in found : rows[id].key = a]
<1>1. Shapes /\ Ids
  BY DEF OneRowInv
<1> QED
  BY <1>1 DEF PrefetchAddresses, Goto, Shapes, Ids, Blank, Still, SameRows

\* The INSERT gives the addresses `new` the ids idOf and catches the rows
\* `caught` of the other fresh ones.
Inserts(t, new, idOf, caught) ==
    /\ new \subseteq FreshKeys(t)
    /\ idOf \in [new -> nextid .. nextid' - 1]
    /\ \A a, b \in new : idOf[a] = idOf[b] => a = b
    /\ \A a \in FreshKeys(t) \ new :
            caught[a] \in DOMAIN db.addresses /\ db.addresses[caught[a]].key = a
    /\ own'[t].institutions = own[t].institutions /\ own'[t].streets = own[t].streets
    /\ own'[t].edges = own[t].edges
    /\ own'[t].addresses = [id \in {idOf[a] : a \in new} |->
            [key |-> CHOOSE a \in new : idOf[a] = id, district |-> NoDistrict, settled |-> FALSE]]
    /\ mem'[t].ids = [a \in DOMAIN mem[t].ids \cup FreshKeys(t) |->
            IF a \in DOMAIN mem[t].ids THEN mem[t].ids[a]
            ELSE IF a \in new THEN idOf[a] ELSE caught[a]]

LEMMA InsertDoes ==
    ASSUME OneRowInv, NEW t \in Txns, InsertAddresses(t)
    PROVE  /\ Still(t) /\ pc[t] = "insert" /\ pc'[t] = "edges"
           /\ mem'[t].snapshot = mem[t].snapshot
           /\ \E new, idOf, caught : Inserts(t, new, idOf, caught)
<1> DEFINE plan == PlanAddresses(Snapshot(t))
           found(a) == {id \in DOMAIN db.addresses : db.addresses[id].key = a /\ ~HasNull(a)}
           new == {a \in FreshKeys(t) : found(a) = {}}
           idOf == CHOOSE f \in [new -> nextid .. nextid + Cardinality(new) - 1] :
                        \A a, b \in new : f[a] = f[b] => a = b
           caught == [a \in FreshKeys(t) |-> CHOOSE id \in found(a) : TRUE]
           rows == [id \in {idOf[a] : a \in new} |->
                        [key |-> CHOOSE a \in new : idOf[a] = id,
                         district |-> NoDistrict, settled |-> FALSE]]
           ids == [a \in DOMAIN mem[t].ids \cup FreshKeys(t) |->
                    IF a \in DOMAIN mem[t].ids THEN mem[t].ids[a]
                    ELSE IF a \in new THEN idOf[a] ELSE caught[a]]
<1>1. Shapes /\ Ids /\ Before(t)
  BY DEF OneRowInv, Single
<1>2. /\ pc[t] = "insert" /\ pc' = [pc EXCEPT ![t] = "edges"]
      /\ own' = [own EXCEPT ![t].addresses = Over(rows, @)]
      /\ nextid' = nextid + Cardinality(new) /\ UNCHANGED <<db, latest>>
  BY DEF InsertAddresses, Goto
<1>3. mem' = [mem EXCEPT ![t].ids = ids]
  <2>1. mem' = [mem EXCEPT ![t].ids = [a \in DOMAIN @ \cup FreshKeys(t) |->
                        IF a \in DOMAIN @ THEN @[a]
                        ELSE IF a \in new THEN idOf[a]
                        ELSE CHOOSE id \in found(a) : TRUE]]
    BY DEF InsertAddresses
  <2>2. ids = [a \in DOMAIN mem[t].ids \cup FreshKeys(t) |->
                    IF a \in DOMAIN mem[t].ids THEN mem[t].ids[a]
                    ELSE IF a \in new THEN idOf[a] ELSE CHOOSE id \in found(a) : TRUE]
    OBVIOUS
  <2> HIDE DEF ids, new, idOf, found, caught
  <2> QED
    BY <1>1, <2>1, <2>2 DEF Shapes, Blank
<1>4. IsFiniteSet(new) /\ Cardinality(new) \in Nat
  <2>1. IsFiniteSet(plan)
    BY <1>1, <1>2, PlanMeans DEF Before, Snapshot, Plans
  <2>2. new \subseteq plan
    BY DEF FreshKeys
  <2> QED
    BY <2>1, <2>2, FS_Subset, FS_CardinalityType
<1>5. \A a \in FreshKeys(t) \ new :
            caught[a] \in DOMAIN db.addresses /\ db.addresses[caught[a]].key = a
  OBVIOUS
<1> HIDE DEF new, ids, caught
<1>6. /\ idOf \in [new -> nextid .. nextid + Cardinality(new) - 1]
      /\ \A a, b \in new : idOf[a] = idOf[b] => a = b
  BY <1>1, <1>4, Numbering DEF Ids
<1> HIDE DEF idOf
<1>7. Still(t)
  BY <1>1, <1>2, <1>3, <1>4 DEF Shapes, Ids, Blank, Nothing, Still
<1>8. /\ pc'[t] = "edges" /\ mem'[t].snapshot = mem[t].snapshot /\ mem'[t].ids = ids
      /\ own'[t].institutions = own[t].institutions /\ own'[t].streets = own[t].streets
      /\ own'[t].edges = own[t].edges /\ own'[t].addresses = Over(rows, own[t].addresses)
  BY <1>1, <1>2, <1>3 DEF Shapes, Blank, Nothing
<1>9. own'[t].addresses = rows
  <2>1. DOMAIN own[t].addresses = {}
    BY <1>1, <1>2 DEF Before
  <2> QED
    BY <1>8, <2>1 DEF Over
<1>10. new \subseteq FreshKeys(t)
  BY DEF new
<1>11. idOf \in [new -> nextid .. nextid' - 1]
  <2>1. nextid \in Nat /\ nextid' = nextid + Cardinality(new)
    BY <1>1, <1>2 DEF Ids
  <2> QED
    BY <1>4, <1>6, <2>1
<1>12. mem'[t].ids = [a \in DOMAIN mem[t].ids \cup FreshKeys(t) |->
                    IF a \in DOMAIN mem[t].ids THEN mem[t].ids[a]
                    ELSE IF a \in new THEN idOf[a] ELSE caught[a]]
  BY <1>8 DEF ids
<1> HIDE DEF rows
<1>13. own'[t].addresses = [id \in {idOf[a] : a \in new} |->
            [key |-> CHOOSE a \in new : idOf[a] = id, district |-> NoDistrict, settled |-> FALSE]]
  BY <1>9 DEF rows
<1>14. Inserts(t, new, idOf, caught)
  BY <1>5, <1>6, <1>8, <1>10, <1>11, <1>12, <1>13 DEF Inserts
<1> QED
  BY <1>2, <1>7, <1>8, <1>14

LEMMA InsertEdgesDoes ==
    ASSUME OneRowInv, NEW t \in Txns, InsertEdges(t)
    PROVE  /\ Still(t) /\ SameMind(t) /\ pc[t] = "edges" /\ pc'[t] = "tier1"
           /\ own'[t].institutions = own[t].institutions /\ own'[t].streets = own[t].streets
           /\ own'[t].addresses = own[t].addresses
           /\ own'[t].edges = own[t].edges \cup
                {<<mem[t].ids[e[1]], e[2]>> : e \in PlanEdges(Snapshot(t))}
<1>1. Shapes /\ Ids
  BY DEF OneRowInv
<1> QED
  BY <1>1 DEF InsertEdges, Goto, Shapes, Ids, Nothing, Still, SameMind

\* t stamps, with one tier, rows nobody else has.
LEMMA StampTierDoes ==
    ASSUME OneRowInv, NEW t \in Txns, StampTier(t)
    PROVE  \E n \in 1 .. 3 :
            /\ Still(t) /\ SameMind(t)
            /\ pc[t] \in {"tier1", "tier2", "tier3"} /\ pc'[t] \in {"tier2", "tier3", "settlements"}
            /\ Passed(t) = n - 1 /\ Passed(t)' = n
            /\ \A u \in Txns \ {t} :
                    TierRows(t, n) \cap DOMAIN own[u].addresses = {} /\ u \notin GraoWriters
            /\ own'[t].institutions = own[t].institutions /\ own'[t].streets = own[t].streets
            /\ own'[t].edges = own[t].edges
            /\ own'[t].addresses = Over([id \in TierRows(t, n) |->
                    [View(t).addresses[id] EXCEPT
                        !.district = Says(n, View(t).grao, View(t).addresses[id].key)]],
                    own[t].addresses)
<1>1. Shapes /\ Ids
  BY DEF OneRowInv
<1>2. PICK label \in DOMAIN Tiers :
        /\ pc[t] = label /\ Ready(t)
        /\ Stamp(t, TierRows(t, Tiers[label]), Tiers[label])
        /\ Goto(t, CASE label = "tier1" -> "tier2" [] label = "tier2" -> "tier3"
                     [] label = "tier3" -> "settlements")
        /\ UNCHANGED <<db, latest, nextid, mem>>
  BY DEF StampTier
<1> DEFINE n == Tiers[label]
<1>3. /\ n \in 1 .. 3 /\ label \in {"tier1", "tier2", "tier3"} /\ Passed(t) = n - 1
      /\ \E next \in {"tier2", "tier3", "settlements"} :
            pc' = [pc EXCEPT ![t] = next] /\ Passed(t)' = n
  <2>1. CASE label = "tier1"
    BY <1>1, <1>2, <2>1 DEF Tiers, Goto, Passed, AfterTiers, Shapes
  <2>2. CASE label = "tier2"
    BY <1>1, <1>2, <2>2 DEF Tiers, Goto, Passed, AfterTiers, Shapes
  <2>3. CASE label = "tier3"
    BY <1>1, <1>2, <2>3 DEF Tiers, Goto, Passed, AfterTiers, Shapes
  <2> QED
    BY <2>1, <2>2, <2>3 DEF Tiers
<1>4. (GraoWriters \ {t}) \cup AddressHolders(t, TierRows(t, n)) = {}
  BY <1>2 DEF Ready, WaitsFor, Tiers
<1>5. own' = [own EXCEPT ![t].addresses = Over([id \in TierRows(t, n) |->
                    [View(t).addresses[id] EXCEPT
                        !.district = Says(n, View(t).grao, View(t).addresses[id].key)]], @)]
  BY <1>2 DEF Stamp
<1> HIDE DEF n
<1>6. Still(t) /\ SameMind(t)
  BY <1>1, <1>2, <1>3, <1>5 DEF Shapes, Ids, Still, SameMind
<1>7. \A u \in Txns \ {t} :
            TierRows(t, n) \cap DOMAIN own[u].addresses = {} /\ u \notin GraoWriters
  BY <1>4 DEF AddressHolders
<1> QED
  BY <1>1, <1>2, <1>3, <1>5, <1>6, <1>7 DEF Shapes, Nothing

LEMMA StampSettlementsDoes ==
    ASSUME OneRowInv, NEW t \in Txns, StampSettlements(t)
    PROVE  /\ Still(t) /\ SameMind(t) /\ pc[t] = "settlements" /\ pc'[t] = "candidates"
           /\ \A u \in Txns \ {t} : SettlementRows(t) \cap DOMAIN own[u].addresses = {}
           /\ own'[t].institutions = own[t].institutions /\ own'[t].streets = own[t].streets
           /\ own'[t].edges = own[t].edges
           /\ own'[t].addresses = Over([id \in SettlementRows(t) |->
                    [View(t).addresses[id] EXCEPT !.settled = TRUE]], own[t].addresses)
<1>1. Shapes /\ Ids
  BY DEF OneRowInv
<1>2. /\ pc[t] = "settlements" /\ pc' = [pc EXCEPT ![t] = "candidates"]
      /\ own' = [own EXCEPT ![t].addresses = Over([id \in SettlementRows(t) |->
                    [View(t).addresses[id] EXCEPT !.settled = TRUE]], @)]
      /\ UNCHANGED <<db, latest, nextid, mem>> /\ Ready(t)
  BY DEF StampSettlements, Goto
<1>3. AddressHolders(t, SettlementRows(t)) = {}
  BY <1>2 DEF Ready, WaitsFor, Tiers
<1>4. \A u \in Txns \ {t} : SettlementRows(t) \cap DOMAIN own[u].addresses = {}
  BY <1>3 DEF AddressHolders
<1>5. Still(t) /\ SameMind(t)
  BY <1>1, <1>2 DEF Shapes, Ids, Still, SameMind
<1> QED
  BY <1>1, <1>2, <1>4, <1>5 DEF Shapes, Nothing

LEMMA SelectCandidatesDoes ==
    ASSUME OneRowInv, NEW t \in Txns, SelectCandidates(t)
    PROVE  LET rows == View(t).institutions
           IN  /\ Still(t) /\ SameRows(t) /\ pc[t] = "candidates" /\ pc'[t] = "institutions"
               /\ mem'[t].snapshot = mem[t].snapshot
               /\ mem'[t].candidates = {[institution |-> k, address |-> rows[k].address] : k \in
                    {x \in DOMAIN rows \ Nurseries :
                        t \in Restamps \/ rows[x].district = NoDistrict}}
<1>1. Shapes /\ Ids
  BY DEF OneRowInv
<1> QED
  BY <1>1 DEF SelectCandidates, Goto, Shapes, Ids, Blank, Still, SameRows

LEMMA ReadDistrictDoes ==
    ASSUME OneRowInv, NEW t \in Txns, ReadDistrict(t)
    PROVE  \E c \in mem[t].candidates :
            LET d == DistrictOf(View(t), c)
            IN  /\ Still(t) /\ SameRows(t) /\ pc[t] = "institutions"
                /\ mem'[t].snapshot = mem[t].snapshot
                /\ pc'[t] = IF d = NoDistrict THEN "institutions" ELSE "set_district"
                /\ mem'[t].candidates = mem[t].candidates \ {c}
                /\ mem'[t].chosen = [institution |-> c.institution, district |-> d]
<1>1. Shapes /\ Ids
  BY DEF OneRowInv
<1>2. PICK c \in mem[t].candidates :
        LET d == DistrictOf(View(t), c)
        IN  /\ mem' = [mem EXCEPT ![t].candidates = @ \ {c},
                                  ![t].chosen = [institution |-> c.institution, district |-> d]]
            /\ IF d = NoDistrict THEN UNCHANGED pc ELSE pc' = [pc EXCEPT ![t] = "set_district"]
            /\ UNCHANGED <<db, latest, nextid, own>> /\ pc[t] = "institutions"
  BY DEF ReadDistrict, Goto
<1> DEFINE d == DistrictOf(View(t), c)
<1> HIDE DEF d
<1>3. /\ mem' = [mem EXCEPT ![t].candidates = @ \ {c},
                            ![t].chosen = [institution |-> c.institution, district |-> d]]
      /\ IF d = NoDistrict THEN UNCHANGED pc ELSE pc' = [pc EXCEPT ![t] = "set_district"]
      /\ UNCHANGED <<db, latest, nextid, own>> /\ pc[t] = "institutions"
  BY <1>2 DEF d
<1>4. Still(t) /\ SameRows(t)
  BY <1>1, <1>3 DEF Shapes, Ids, Blank, Still, SameRows
<1>5. /\ mem'[t].snapshot = mem[t].snapshot
      /\ pc'[t] = IF d = NoDistrict THEN "institutions" ELSE "set_district"
      /\ mem'[t].candidates = mem[t].candidates \ {c}
      /\ mem'[t].chosen = [institution |-> c.institution, district |-> d]
  BY <1>1, <1>3 DEF Shapes, Blank
<1> QED
  BY <1>3, <1>4, <1>5 DEF d

LEMMA SetDistrictDoes ==
    ASSUME OneRowInv, NEW t \in Txns, SetDistrict(t)
    PROVE  LET k == mem[t].chosen.institution
           IN  /\ Still(t) /\ SameMind(t) /\ pc[t] = "set_district" /\ pc'[t] = "institutions"
               /\ \A u \in Txns \ {t} : k \notin DOMAIN own[u].institutions
               /\ own'[t].institutions = Over([x \in {k} |->
                    [View(t).institutions[k] EXCEPT !.district = mem[t].chosen.district]],
                    own[t].institutions)
               /\ own'[t].streets = own[t].streets /\ own'[t].addresses = own[t].addresses
               /\ own'[t].edges = own[t].edges
<1>1. Shapes /\ Ids
  BY DEF OneRowInv
<1>2. InstitutionHolders(t, mem[t].chosen.institution) = {}
  BY DEF SetDistrict, Ready, WaitsFor, Tiers
<1> QED
  BY <1>1, <1>2
  DEF SetDistrict, InstitutionHolders, Goto, Shapes, Ids, Nothing, Still, SameMind

LEMMA ReloadDoes ==
    ASSUME OneRowInv, NEW t \in Txns, ReloadGrao(t)
    PROVE  /\ Still(t) /\ SameRows(t) /\ SameMind(t) /\ pc[t] = "truncate" /\ pc'[t] = "loaded"
           /\ \A u \in Txns \ {t} : u \notin GraoReaders \cup GraoWriters
<1>1. Shapes /\ Ids
  BY DEF OneRowInv
<1>2. (GraoReaders \cup GraoWriters) \ {t} = {}
  BY DEF ReloadGrao, Ready, WaitsFor, Tiers
<1> QED
  BY <1>1, <1>2 DEF ReloadGrao, Goto, Shapes, Ids, Still, SameRows, SameMind

LEMMA RollbackDoes ==
    ASSUME OneRowInv, NEW t \in Txns, Rollback(t)
    PROVE  /\ Still(t) /\ nextid' = nextid /\ own'[t] = Nothing /\ pc'[t] = "failed"
<1>1. Shapes /\ Ids
  BY DEF OneRowInv
<1> QED
  BY <1>1 DEF Rollback, Goto, Shapes, Ids, Still

LEMMA CommitDoes ==
    ASSUME OneRowInv, NEW t \in Txns, Commit(t)
    PROVE  /\ pc[t] = "loaded" \/ (pc[t] = "institutions" /\ mem[t].candidates = {})
           /\ db' = View(t) /\ latest' = latest /\ nextid' = nextid
           /\ own'[t] = Nothing /\ pc'[t] = "committed" /\ mem'[t].snapshot = mem[t].snapshot
           /\ \A u \in Txns \ {t} : own'[u] = own[u] /\ pc'[u] = pc[u] /\ mem'[u] = mem[u]
<1>1. Shapes
  BY DEF OneRowInv
<1> QED
  BY <1>1 DEF Commit, Goto, Shapes, Blank

-----------------------------------------------------------------------------
(* Types, foreign keys and the catchment.                                   *)

LEMMA ViewSound ==
    ASSUME TablesInv, NEW t \in Txns
    PROVE  LET V == View(t)
           IN  /\ nextid \in Nat
               /\ \A id \in DOMAIN V.addresses :
                    /\ id \in 1 .. nextid - 1 /\ V.addresses[id] \in AddressRow
                    /\ V.addresses[id].key.street \in V.streets
               /\ \A k \in DOMAIN V.institutions :
                    k \in Institutions /\ V.institutions[k] \in InstitutionRow
               /\ V.streets \subseteq Streets
               /\ \A e \in V.edges :
                    /\ e \in (1 .. nextid - 1) \X Institutions
                    /\ e[1] \in DOMAIN V.addresses /\ e[2] \in DOMAIN V.institutions
<1>1. Sound(own[t], db) /\ Sound(db, db) /\ EdgesOwned(t)
      /\ \A e \in db.edges : e[2] \in DOMAIN db.institutions
  BY DEF TablesInv, Mine
<1>2. nextid \in Nat
  BY DEF TablesInv, OneRowInv, Ids
<1> QED
  BY <1>1, <1>2, ViewIs DEF Sound, WellTyped, EdgesOwned

LEMMA MoreIds ==
    ASSUME TablesInv, NEW t \in Txns, Still(t)
    PROVE  1 .. nextid - 1 \subseteq 1 .. nextid' - 1
<1>1. nextid \in Nat /\ nextid' \in Nat /\ nextid <= nextid'
  BY DEF Still, TablesInv, OneRowInv, Ids
<1>2. \A n, m \in Nat : n <= m => 1 .. n - 1 \subseteq 1 .. m - 1
  OBVIOUS
<1> QED
  BY <1>1, <1>2

\* Another transaction finds everything as it was.
LEMMA OthersMine ==
    ASSUME TablesInv, NEW t \in Txns, Still(t), NEW u \in Txns \ {t}
    PROVE  Mine(u)'
<1>1. /\ own'[u] = own[u] /\ pc'[u] = pc[u]
      /\ mem'[u].snapshot = mem[u].snapshot /\ mem'[u].todo = mem[u].todo
      /\ mem'[u].ids = mem[u].ids /\ mem'[u].candidates = mem[u].candidates
      /\ mem'[u].chosen = mem[u].chosen
      /\ db' = db /\ nextid \in Nat /\ nextid' \in Nat /\ nextid <= nextid'
  BY DEF Still, TablesInv, OneRowInv, Ids
<1>2. View(u)' = View(u) /\ Snapshot(u)' = Snapshot(u)
  BY <1>1 DEF View, Snapshot
<1>3. Mine(u)
  BY DEF TablesInv
<1>4. Role(u)' /\ Idle(u)' /\ EdgesOwned(u)' /\ InstitutionsDone(u)'
  BY <1>1, <1>2, <1>3 DEF Mine, Role, Idle, Running, EdgesOwned, InstitutionsDone
<1>5. IdsFound(u)' /\ EdgesDone(u)'
  BY <1>1, <1>2, <1>3 DEF Mine, IdsFound, EdgesDone
<1>6. CandidatesTyped(u)'
  BY <1>1, <1>2, <1>3 DEF Mine, CandidatesTyped, Candidate
<1>7. Sound(own[u], db)'
  <2> DEFINE ids == 1 .. nextid - 1
             ids1 == 1 .. nextid' - 1
  <2>1. ids \subseteq ids1
    BY MoreIds
  <2>2. Sound(own[u], db) /\ own'[u] = own[u] /\ db' = db
    BY <1>1, <1>3 DEF Mine
  <2>3. /\ DOMAIN own[u].addresses \subseteq ids /\ own[u].edges \subseteq ids \X Institutions
    BY <2>2 DEF Sound, WellTyped
  <2> HIDE DEF ids, ids1
  <2>4. DOMAIN own[u].addresses \subseteq ids1 /\ own[u].edges \subseteq ids1 \X Institutions
    BY <2>1, <2>3
  <2> QED
    BY <2>2, <2>4 DEF Sound, WellTyped, ids1
<1> QED
  BY <1>4, <1>5, <1>6, <1>7 DEF Mine

\* So a step is left with what it does to its own transaction.
LEMMA StillKeeps ==
    ASSUME TablesInv, OneRowInv', NEW t \in Txns, Still(t), Mine(t)',
           \A u \in Txns \ {t} : Exclusive(t, u)' /\ Exclusive(u, t)' /\ Distinct(t, u)'
    PROVE  TablesInv'
<1>1. \A u \in Txns : Mine(u)'
  BY OthersMine
<1>2. ASSUME NEW u \in Txns, NEW v \in Txns \ {u}
      PROVE  Exclusive(u, v)' /\ Distinct(u, v)'
  <2>1. CASE u = t \/ v = t
    BY <2>1 DEF Distinct
  <2>2. CASE u # t /\ v # t
    <3>1. own'[u] = own[u] /\ own'[v] = own[v] /\ pc'[u] = pc[u] /\ pc'[v] = pc[v]
      BY <2>2 DEF Still
    <3>2. Exclusive(u, v) /\ Distinct(u, v)
      BY DEF TablesInv
    <3> QED
      BY <3>1, <3>2 DEF Exclusive, Distinct, Passed
  <2> QED
    BY <2>1, <2>2
<1>3. /\ 1 <= nextid' /\ db.grao' \subseteq GraoRow
      /\ \A e \in db'.edges : e[2] \in DOMAIN db'.institutions
  BY DEF Still, TablesInv, OneRowInv, Ids
<1>4. Sound(db, db)'
  <2> DEFINE ids == 1 .. nextid - 1
             ids1 == 1 .. nextid' - 1
  <2>1. ids \subseteq ids1
    BY MoreIds
  <2>2. Sound(db, db) /\ db' = db
    BY DEF Still, TablesInv
  <2>3. /\ DOMAIN db.addresses \subseteq ids /\ db.edges \subseteq ids \X Institutions
    BY <2>2 DEF Sound, WellTyped
  <2> HIDE DEF ids, ids1
  <2>4. DOMAIN db.addresses \subseteq ids1 /\ db.edges \subseteq ids1 \X Institutions
    BY <2>1, <2>3
  <2> QED
    BY <2>2, <2>4 DEF Sound, WellTyped, ids1
<1> QED
  BY <1>1, <1>2, <1>3, <1>4 DEF TablesInv

\* A label that neither enters the tiers nor loads the classifier.
LEMMA LabelKeeps ==
    ASSUME TablesInv, NEW t \in Txns, Still(t), pc'[t] # "loaded",
           Passed(t)' = 0 \/ Passed(t) > 0
    PROVE  \A u \in Txns \ {t} : Exclusive(t, u)' /\ Exclusive(u, t)'
<1> TAKE u \in Txns \ {t}
<1>1. pc'[u] = pc[u] /\ Exclusive(u, t)
  BY DEF Still, TablesInv
<1> QED
  BY <1>1 DEF Exclusive

\* No row more.
LEMMA RowsKeep ==
    ASSUME TablesInv, NEW t \in Txns, Still(t),
           DOMAIN own'[t].addresses = DOMAIN own[t].addresses,
           DOMAIN own'[t].institutions = DOMAIN own[t].institutions
    PROVE  \A u \in Txns \ {t} : Distinct(t, u)'
BY DEF TablesInv, Still, Distinct

LEMMA TailIs ==
    ASSUME NEW S, NEW s \in Seq(S), s # <<>>
    PROVE  /\ \A i \in DOMAIN s : s[i] = Head(s) \/ \E j \in DOMAIN Tail(s) : Tail(s)[j] = s[i]
           /\ \A j \in DOMAIN Tail(s) : \E i \in DOMAIN s : Tail(s)[j] = s[i]
           /\ \E i \in DOMAIN s : s[i] = Head(s)
<1>1. ASSUME NEW i \in DOMAIN s, i # 1
      PROVE  \E j \in DOMAIN Tail(s) : Tail(s)[j] = s[i]
  <2>1. i - 1 \in DOMAIN Tail(s) /\ Tail(s)[i - 1] = s[i]
    BY <1>1
  <2> QED
    BY <2>1
<1>2. ASSUME NEW j \in DOMAIN Tail(s)
      PROVE  \E i \in DOMAIN s : Tail(s)[j] = s[i]
  <2>1. j + 1 \in DOMAIN s /\ Tail(s)[j] = s[j + 1]
    OBVIOUS
  <2> QED
    BY <2>1
<1>3. 1 \in DOMAIN s /\ s[1] = Head(s)
  OBVIOUS
<1> QED
  BY <1>1, <1>2, <1>3

LEMMA FetchSound ==
    ASSUME TablesInv, NEW t \in Txns, Fetch(t), OneRowInv'
    PROVE  TablesInv'
<1> DEFINE s == Snapshots[latest].institutions
           todo == PlanInstitutions(s) \o PlanStreets(s)
<1>1. /\ Still(t) /\ SameRows(t) /\ t \in Ingests /\ pc[t] = "start" /\ pc'[t] = "upsert"
      /\ mem'[t].snapshot = latest /\ latest \in 1 .. Len(Snapshots) /\ mem'[t].todo = todo
  BY FetchDoes DEF TablesInv
<1>2. Mine(t)
  BY DEF TablesInv
<1>3. Snapshot(t)' = s
  BY <1>1 DEF Snapshot
<1>4. InstitutionsDone(t)'
  <2>1. PlanInstitutions(s) \in Seq(Institutions) /\ PlanStreets(s) \in Seq(Streets)
    BY <1>1, PlanMeans
  <2>2. ASSUME NEW k \in ToSet(PlanInstitutions(s))
        PROVE  \E i \in DOMAIN todo : todo[i] = k
    <3>1. PICK i \in DOMAIN PlanInstitutions(s) : PlanInstitutions(s)[i] = k
      BY DEF ToSet
    <3>2. i \in DOMAIN todo /\ todo[i] = k
      BY <2>1, <3>1
    <3> QED
      BY <3>2
  <2>3. ASSUME NEW i \in DOMAIN todo
        PROVE  todo[i] \in ToSet(PlanInstitutions(s)) \cup Streets
    <3>1. CASE i <= Len(PlanInstitutions(s))
      BY <2>1, <3>1 DEF ToSet
    <3>2. CASE i > Len(PlanInstitutions(s))
      BY <2>1, <3>2
    <3> QED
      BY <2>1, <3>1, <3>2
  <2> HIDE DEF todo
  <2> QED
    BY <1>1, <1>3, <2>2, <2>3 DEF InstitutionsDone, StampLabels, AfterTiers
<1>5. Sound(own[t], db)' /\ EdgesOwned(t)'
  BY <1>1, <1>2 DEF Mine, Sound, WellTyped, EdgesOwned, Still, SameRows
<1>6. Role(t)' /\ Idle(t)'
  BY <1>1, <1>2 DEF Mine, Role, Idle, Running, SameRows, UpsertLabels, StampLabels, AfterTiers
<1>7. IdsFound(t)' /\ EdgesDone(t)' /\ CandidatesTyped(t)'
  BY <1>1 DEF IdsFound, EdgesDone, CandidatesTyped, StampLabels, AfterTiers
<1>8. \A u \in Txns \ {t} : Exclusive(t, u)' /\ Exclusive(u, t)'
  BY <1>1, LabelKeeps DEF Passed, AfterTiers
<1>9. \A u \in Txns \ {t} : Distinct(t, u)'
  BY <1>1, RowsKeep DEF SameRows
<1> QED
  BY <1>1, <1>4, <1>5, <1>6, <1>7, <1>8, <1>9, StillKeeps DEF Mine

LEMMA BeginSound ==
    ASSUME TablesInv, NEW t \in Txns, BeginRestamp(t) \/ BeginReload(t), OneRowInv'
    PROVE  TablesInv'
<1>1. /\ Still(t) /\ SameRows(t) /\ pc[t] = "start"
      /\ \/ t \in Restamps /\ pc'[t] = "tier1"
         \/ t \in Reloads /\ pc'[t] = "truncate"
  BY BeginDoes DEF TablesInv
<1>2. Mine(t) /\ t \notin Ingests
  BY <1>1, TransactionsAssumption DEF TablesInv, Stampers
<1>3. Role(t)' /\ Idle(t)'
  BY <1>1, <1>2
  DEF Mine, Role, Idle, Running, SameRows, UpsertLabels, StampLabels, AfterTiers, Stampers
<1>4. Sound(own[t], db)' /\ EdgesOwned(t)'
  BY <1>1, <1>2 DEF Mine, Sound, WellTyped, EdgesOwned, Still, SameRows
<1>5. InstitutionsDone(t)' /\ IdsFound(t)' /\ EdgesDone(t)' /\ CandidatesTyped(t)'
  BY <1>1, <1>2 DEF InstitutionsDone, IdsFound, EdgesDone, CandidatesTyped, StampLabels, AfterTiers
<1>6. \A u \in Txns \ {t} : Exclusive(t, u)' /\ Exclusive(u, t)'
  BY <1>1, LabelKeeps DEF Passed, AfterTiers
<1>7. \A u \in Txns \ {t} : Distinct(t, u)'
  BY <1>1, RowsKeep DEF SameRows
<1> QED
  BY <1>1, <1>3, <1>4, <1>5, <1>6, <1>7, StillKeeps DEF Mine

LEMMA UpsertInstitutionSound ==
    ASSUME TablesInv, NEW t \in Txns, UpsertInstitution(t), OneRowInv'
    PROVE  TablesInv'
<1> DEFINE k == Head(mem[t].todo)
           told == PlanRow(Snapshot(t), k)
           old == IF k \in DOMAIN View(t).institutions
                  THEN View(t).institutions[k].district ELSE NoDistrict
           row == [address |-> told.address,
                   district |-> IF told.district = NoDistrict THEN old ELSE told.district]
           mine == own[t].institutions
<1>1. /\ Still(t) /\ nextid' = nextid /\ pc[t] = "upsert" /\ pc'[t] = "upsert"
      /\ mem[t].todo # <<>> /\ k \in Institutions
      /\ mem'[t].todo = Tail(mem[t].todo) /\ mem'[t].snapshot = mem[t].snapshot
      /\ \A u \in Txns \ {t} : k \notin DOMAIN own[u].institutions
      /\ own'[t].institutions = Over([x \in {k} |-> row], mine)
      /\ own'[t].streets = own[t].streets /\ own'[t].addresses = own[t].addresses
      /\ own'[t].edges = own[t].edges
  BY UpsertInstitutionDoes DEF TablesInv
<1>2. Mine(t)
  BY DEF TablesInv
<1>3. t \in Ingests /\ t \notin Reloads /\ mem[t].snapshot \in 1 .. Len(Snapshots)
      /\ mem[t].todo \in Seq(Institutions \cup Streets)
  <2>1. AtUpsert(t)
    BY DEF TablesInv, OneRowInv, Single
  <2> QED
    BY <1>1, <1>2, <2>1, TransactionsAssumption DEF Mine, Role, AtUpsert, UpsertLabels, Stampers
<1>4. Snapshot(t)' = Snapshot(t)
  BY <1>1 DEF Snapshot
<1>5. row \in InstitutionRow
  <2>1. k \in ToSet(PlanInstitutions(Snapshot(t)))
    <3>1. PICK i \in DOMAIN mem[t].todo : mem[t].todo[i] = k
      BY <1>1, <1>3, TailIs
    <3> QED
      BY <1>1, <1>2, <3>1, RulesAssumption DEF Mine, InstitutionsDone
  <2>2. /\ told.address \in Address \cup {None} /\ told.district \in Districts \cup {NoDistrict}
    BY <1>3, <2>1, PlanMeans DEF Snapshot, Plans
  <2>3. old \in Districts \cup {NoDistrict}
    BY ViewSound DEF InstitutionRow
  <2> HIDE DEF told, old, k
  <2> QED
    BY <2>2, <2>3 DEF InstitutionRow
<1> HIDE DEF row, told, old
<1>6. /\ DOMAIN own'[t].institutions = DOMAIN mine \cup {k}
      /\ own'[t].institutions[k] = row
      /\ \A x \in DOMAIN mine \ {k} : own'[t].institutions[x] = mine[x]
  BY <1>1 DEF Over
<1>7. Sound(own[t], db)' /\ EdgesOwned(t)'
  <2>1. Sound(own[t], db) /\ EdgesOwned(t) /\ db' = db
    BY <1>1, <1>2 DEF Mine, Still
  <2> HIDE DEF k, mine
  <2> QED
    BY <1>1, <1>5, <1>6, <2>1 DEF Sound, WellTyped, EdgesOwned, k, mine
<1>8. InstitutionsDone(t)'
  <2>1. InstitutionsDone(t)
    BY <1>2 DEF Mine
  <2>2. /\ \A i \in DOMAIN mem[t].todo : mem[t].todo[i] = k
            \/ \E j \in DOMAIN Tail(mem[t].todo) : Tail(mem[t].todo)[j] = mem[t].todo[i]
        /\ \A j \in DOMAIN Tail(mem[t].todo) :
            \E i \in DOMAIN mem[t].todo : Tail(mem[t].todo)[j] = mem[t].todo[i]
    BY <1>1, <1>3, TailIs
  <2> DEFINE ks == ToSet(PlanInstitutions(Snapshot(t)))
             todo == mem[t].todo
  <2>3. /\ \A x \in ks : x \in DOMAIN mine \/ \E i \in DOMAIN todo : todo[i] = x
        /\ \A i \in DOMAIN todo : todo[i] \in ks \cup Streets
    BY <1>1, <2>1 DEF InstitutionsDone
  <2>4. /\ ToSet(PlanInstitutions(Snapshot(t)))' = ks /\ mem'[t].todo = Tail(todo)
        /\ pc'[t] \notin {"insert", "edges"} \cup StampLabels
    BY <1>1, <1>4 DEF StampLabels, AfterTiers
  <2> HIDE DEF k, ks, todo, mine
  <2>5. \A x \in ks : x \in DOMAIN own'[t].institutions
                       \/ \E j \in DOMAIN Tail(todo) : Tail(todo)[j] = x
    BY <1>6, <2>2, <2>3 DEF todo
  <2>6. \A j \in DOMAIN Tail(todo) : Tail(todo)[j] \in ks \cup Streets
    BY <2>2, <2>3 DEF todo
  <2> QED
    BY <2>4, <2>5, <2>6 DEF InstitutionsDone
<1>9. Role(t)' /\ Idle(t)'
  BY <1>1, <1>2, <1>3 DEF Mine, Role, Idle, Running, UpsertLabels, StampLabels, AfterTiers
<1>10. IdsFound(t)' /\ EdgesDone(t)' /\ CandidatesTyped(t)'
  BY <1>1 DEF IdsFound, EdgesDone, CandidatesTyped, StampLabels, AfterTiers
<1>11. \A u \in Txns \ {t} : Exclusive(t, u)' /\ Exclusive(u, t)'
  BY <1>1, LabelKeeps DEF Passed, AfterTiers
<1>12. ASSUME NEW u \in Txns \ {t}
       PROVE  Distinct(t, u)'
  <2>1. Distinct(t, u) /\ own'[u] = own[u]
    BY <1>1 DEF TablesInv, Still
  <2> HIDE DEF k
  <2> QED
    BY <1>1, <1>6, <2>1 DEF Distinct
<1> QED
  BY <1>1, <1>7, <1>8, <1>9, <1>10, <1>11, <1>12, StillKeeps DEF Mine

LEMMA UpsertStreetSound ==
    ASSUME TablesInv, NEW t \in Txns, UpsertStreet(t), OneRowInv'
    PROVE  TablesInv'
<1> DEFINE k == Head(mem[t].todo)
<1>1. /\ Still(t) /\ nextid' = nextid /\ pc[t] = "upsert" /\ pc'[t] = "upsert"
      /\ mem[t].todo # <<>> /\ k \in Streets
      /\ mem'[t].todo = Tail(mem[t].todo) /\ mem'[t].snapshot = mem[t].snapshot
      /\ own'[t].institutions = own[t].institutions
      /\ own'[t].streets = own[t].streets \cup {k}
      /\ own'[t].addresses = own[t].addresses /\ own'[t].edges = own[t].edges
  BY UpsertStreetDoes DEF TablesInv
<1>2. Mine(t)
  BY DEF TablesInv
<1>3. t \in Ingests /\ t \notin Reloads /\ mem[t].snapshot \in 1 .. Len(Snapshots)
      /\ mem[t].todo \in Seq(Institutions \cup Streets)
  <2>1. AtUpsert(t)
    BY DEF TablesInv, OneRowInv, Single
  <2> QED
    BY <1>1, <1>2, <2>1, TransactionsAssumption DEF Mine, Role, AtUpsert, UpsertLabels, Stampers
<1>4. PlanInstitutions(Snapshot(t)) \in Seq(Institutions)
  BY <1>3, PlanMeans DEF Snapshot
<1>5. Snapshot(t)' = Snapshot(t)
  BY <1>1 DEF Snapshot
<1>6. InstitutionsDone(t)'
  <2>1. InstitutionsDone(t)
    BY <1>2 DEF Mine
  <2>2. /\ \A i \in DOMAIN mem[t].todo : mem[t].todo[i] = k
            \/ \E j \in DOMAIN Tail(mem[t].todo) : Tail(mem[t].todo)[j] = mem[t].todo[i]
        /\ \A j \in DOMAIN Tail(mem[t].todo) :
            \E i \in DOMAIN mem[t].todo : Tail(mem[t].todo)[j] = mem[t].todo[i]
    BY <1>1, <1>3, TailIs
  <2>3. k \notin ToSet(PlanInstitutions(Snapshot(t)))
    BY <1>1, <1>4, RulesAssumption DEF ToSet
  <2> HIDE DEF k
  <2> QED
    BY <1>1, <1>5, <2>1, <2>2, <2>3 DEF InstitutionsDone, StampLabels, AfterTiers
<1>7. Sound(own[t], db)' /\ EdgesOwned(t)'
  <2>1. Sound(own[t], db) /\ EdgesOwned(t) /\ db' = db
    BY <1>1, <1>2 DEF Mine, Still
  <2> HIDE DEF k
  <2> QED
    BY <1>1, <2>1 DEF Sound, WellTyped, EdgesOwned
<1>8. Role(t)' /\ Idle(t)'
  BY <1>1, <1>2, <1>3 DEF Mine, Role, Idle, Running, UpsertLabels, StampLabels, AfterTiers
<1>9. IdsFound(t)' /\ EdgesDone(t)' /\ CandidatesTyped(t)'
  BY <1>1 DEF IdsFound, EdgesDone, CandidatesTyped, StampLabels, AfterTiers
<1>10. \A u \in Txns \ {t} : Exclusive(t, u)' /\ Exclusive(u, t)'
  BY <1>1, LabelKeeps DEF Passed, AfterTiers
<1>11. \A u \in Txns \ {t} : Distinct(t, u)'
  BY <1>1, RowsKeep
<1> QED
  BY <1>1, <1>6, <1>7, <1>8, <1>9, <1>10, <1>11, StillKeeps DEF Mine

LEMMA PrefetchSound ==
    ASSUME TablesInv, NEW t \in Txns, PrefetchAddresses(t), OneRowInv'
    PROVE  TablesInv'
<1> DEFINE rows == View(t).addresses
           found == {id \in DOMAIN rows : rows[id].key \in PlanAddresses(Snapshot(t))}
<1>1. /\ Still(t) /\ SameRows(t) /\ pc[t] = "upsert" /\ pc'[t] = "insert"
      /\ mem[t].todo = <<>> /\ mem'[t].snapshot = mem[t].snapshot
      /\ mem'[t].ids = [a \in {rows[id].key : id \in found} |->
                            CHOOSE id \in found : rows[id].key = a]
  BY PrefetchDoes DEF TablesInv
<1>2. Mine(t) /\ t \in Ingests /\ t \notin Reloads
  BY <1>1, TransactionsAssumption DEF TablesInv, Mine, Role, UpsertLabels, Stampers
<1>3. Snapshot(t)' = Snapshot(t) /\ View(t)'.addresses = rows
  BY <1>1 DEF Snapshot, View, Still, SameRows
<1>4. \A a \in DOMAIN mem'[t].ids : mem'[t].ids[a] \in DOMAIN rows /\ rows[mem'[t].ids[a]].key = a
  BY <1>1
<1> HIDE DEF rows, found
<1>5. IdsFound(t)'
  BY <1>1, <1>3, <1>4 DEF IdsFound
<1>6. InstitutionsDone(t)'
  BY <1>1, <1>2, <1>3 DEF Mine, InstitutionsDone, SameRows
<1>7. Sound(own[t], db)' /\ EdgesOwned(t)'
  BY <1>1, <1>2 DEF Mine, Sound, WellTyped, EdgesOwned, Still, SameRows
<1>8. Role(t)' /\ Idle(t)'
  BY <1>1, <1>2 DEF Mine, Role, Idle, Running, UpsertLabels, StampLabels, AfterTiers
<1>9. EdgesDone(t)' /\ CandidatesTyped(t)'
  BY <1>1 DEF EdgesDone, CandidatesTyped, StampLabels, AfterTiers
<1>10. \A u \in Txns \ {t} : Exclusive(t, u)' /\ Exclusive(u, t)'
  BY <1>1, LabelKeeps DEF Passed, AfterTiers
<1>11. \A u \in Txns \ {t} : Distinct(t, u)'
  BY <1>1, RowsKeep DEF SameRows
<1> QED
  BY <1>1, <1>5, <1>6, <1>7, <1>8, <1>9, <1>10, <1>11, StillKeeps DEF Mine

LEMMA InsertSound ==
    ASSUME TablesInv, NEW t \in Txns, InsertAddresses(t), OneRowInv'
    PROVE  TablesInv'
<1>1. PICK new, idOf, caught :
        /\ Still(t) /\ pc[t] = "insert" /\ pc'[t] = "edges"
        /\ mem'[t].snapshot = mem[t].snapshot /\ Inserts(t, new, idOf, caught)
  BY InsertDoes DEF TablesInv
<1> DEFINE plan == PlanAddresses(Snapshot(t))
           rows == own'[t].addresses
<1>2. Mine(t) /\ t \in Ingests /\ t \notin Reloads /\ mem[t].snapshot \in 1 .. Len(Snapshots)
  BY <1>1, TransactionsAssumption DEF TablesInv, Mine, Role, UpsertLabels, Stampers
<1>3. /\ AtInsert(t) /\ DOMAIN own[t].addresses = {} /\ Ids
      /\ 1 <= nextid /\ nextid \in Nat /\ nextid' \in Nat /\ db' = db
  BY <1>1 DEF TablesInv, OneRowInv, Single, Before, Ids, Still
<1>4. /\ FreshKeys(t) = plan \ DOMAIN mem[t].ids /\ new \subseteq plan
      /\ \A a \in plan : a \in Address /\ a.street \in own[t].streets
  <2>1. plan \subseteq Address
    BY <1>2, PlanTyped DEF Snapshot, PlanAddresses
  <2> QED
    BY <1>1, <1>3, <2>1 DEF FreshKeys, Inserts, AtInsert
<1>5. \A a \in new : idOf[a] \in Nat /\ nextid <= idOf[a] /\ idOf[a] <= nextid' - 1
  BY <1>1, <1>3 DEF Inserts
<1>6. /\ DOMAIN rows = {idOf[a] : a \in new}
      /\ \A a \in new : /\ rows[idOf[a]].key = a /\ rows[idOf[a]].district = NoDistrict
                         /\ rows[idOf[a]] = [key |-> a, district |-> NoDistrict, settled |-> FALSE]
  <2>1. \A a \in new : a = CHOOSE b \in new : idOf[b] = idOf[a]
    BY <1>1 DEF Inserts
  <2>2. rows = [id \in {idOf[a] : a \in new} |->
            [key |-> CHOOSE a \in new : idOf[a] = id, district |-> NoDistrict, settled |-> FALSE]]
    BY <1>1 DEF Inserts
  <2> HIDE DEF rows
  <2> QED
    BY <2>1, <2>2
<1> HIDE DEF rows, plan
<1>7. \A id \in DOMAIN rows : id \notin DOMAIN db.addresses
                            /\ \A u \in Txns : id \notin DOMAIN own[u].addresses
  <2>1. \A id \in DOMAIN rows : id \in Nat /\ ~(id < nextid)
    BY <1>3, <1>5, <1>6
  <2> QED
    BY <1>3, <2>1 DEF Ids
<1>8. /\ DOMAIN View(t)'.addresses = DOMAIN rows \cup DOMAIN db.addresses
      /\ \A id \in DOMAIN rows : View(t)'.addresses[id] = rows[id]
      /\ \A id \in DOMAIN db.addresses : View(t)'.addresses[id] = db.addresses[id]
  BY <1>3, <1>7, ViewIsNext DEF rows
<1>9. /\ DOMAIN View(t).addresses = DOMAIN db.addresses
      /\ \A id \in DOMAIN db.addresses : View(t).addresses[id] = db.addresses[id]
  BY <1>3 DEF View, Over
<1>10. IdsFound(t)'
  <2>1. /\ DOMAIN mem'[t].ids = DOMAIN mem[t].ids \cup FreshKeys(t)
        /\ \A a \in DOMAIN mem[t].ids : mem'[t].ids[a] = mem[t].ids[a]
        /\ \A a \in new : a \notin DOMAIN mem[t].ids /\ mem'[t].ids[a] = idOf[a]
        /\ \A a \in FreshKeys(t) \ new : mem'[t].ids[a] = caught[a]
    BY <1>1, <1>4 DEF Inserts
  <2>2. \A a \in DOMAIN mem[t].ids :
            mem[t].ids[a] \in DOMAIN db.addresses /\ db.addresses[mem[t].ids[a]].key = a
    BY <1>1, <1>2, <1>9 DEF Mine, IdsFound
  <2>3. \A a \in FreshKeys(t) \ new :
            caught[a] \in DOMAIN db.addresses /\ db.addresses[caught[a]].key = a
    BY <1>1 DEF Inserts
  <2>4. Snapshot(t)' = Snapshot(t)
    BY <1>1 DEF Snapshot
  <2>5. plan \subseteq DOMAIN mem'[t].ids
    BY <1>4, <2>1
  <2>6. \A a \in DOMAIN mem'[t].ids : /\ mem'[t].ids[a] \in DOMAIN View(t)'.addresses
                                      /\ View(t)'.addresses[mem'[t].ids[a]].key = a
    <3> TAKE a \in DOMAIN mem'[t].ids
    <3>1. CASE a \in DOMAIN mem[t].ids
      BY <1>8, <2>1, <2>2, <3>1
    <3>2. CASE a \in new
      <4>1. idOf[a] \in DOMAIN rows /\ rows[idOf[a]].key = a /\ mem'[t].ids[a] = idOf[a]
        BY <1>6, <2>1, <3>2
      <4> QED
        BY <1>8, <4>1
    <3>3. CASE a \in FreshKeys(t) \ new
      BY <1>8, <2>1, <2>3, <3>3
    <3> QED
      BY <2>1, <3>1, <3>2, <3>3
  <2> QED
    BY <2>4, <2>5, <2>6 DEF IdsFound, plan
<1>11. Sound(own[t], db)' /\ EdgesOwned(t)'
  <2>1. /\ Sound(own[t], db) /\ EdgesOwned(t) /\ own'[t].institutions = own[t].institutions
        /\ own'[t].streets = own[t].streets /\ own'[t].edges = own[t].edges
    BY <1>1, <1>2 DEF Mine, Inserts
  <2>2. DOMAIN rows \subseteq 1 .. nextid' - 1
    BY <1>3, <1>5, <1>6
  <2>3. 1 .. nextid - 1 \subseteq 1 .. nextid' - 1
    BY <1>1, MoreIds
  <2>4. \A id \in DOMAIN rows : rows[id] \in AddressRow /\ rows[id].key.street \in own[t].streets
    <3>1. \A a \in new : /\ a.street \in own[t].streets
                         /\ [key |-> a, district |-> NoDistrict, settled |-> FALSE] \in AddressRow
      <4> TAKE a \in new
      <4>1. a \in Address /\ a.street \in own[t].streets
        BY <1>4
      <4> QED
        BY <4>1 DEF AddressRow
    <3>2. ASSUME NEW id \in DOMAIN rows
          PROVE  rows[id] \in AddressRow /\ rows[id].key.street \in own[t].streets
      <4>1. PICK a \in new : id = idOf[a]
        BY <1>6
      <4>2. rows[id] = [key |-> a, district |-> NoDistrict, settled |-> FALSE] /\ rows[id].key = a
        BY <1>6, <4>1
      <4> QED
        BY <3>1, <4>2
    <3> QED
      BY <3>2
  <2>5. own[t].edges \subseteq (1 .. nextid' - 1) \X Institutions
    <3>1. own[t].edges \subseteq (1 .. nextid - 1) \X Institutions
      BY <2>1 DEF Sound, WellTyped
    <3> QED
      BY <2>3, <3>1
  <2> QED
    BY <1>3, <2>1, <2>2, <2>4, <2>5 DEF Sound, WellTyped, EdgesOwned, rows
<1>12. InstitutionsDone(t)'
  BY <1>1, <1>2 DEF Mine, InstitutionsDone, Inserts, Snapshot
<1>13. Role(t)' /\ Idle(t)'
  BY <1>1, <1>2 DEF Mine, Role, Idle, Running, UpsertLabels, StampLabels, AfterTiers
<1>14. EdgesDone(t)' /\ CandidatesTyped(t)'
  BY <1>1 DEF EdgesDone, CandidatesTyped, StampLabels, AfterTiers
<1>15. \A u \in Txns \ {t} : Exclusive(t, u)' /\ Exclusive(u, t)'
  BY <1>1, LabelKeeps DEF Passed, AfterTiers
<1>16. ASSUME NEW u \in Txns \ {t}
       PROVE  Distinct(t, u)'
  <2>1. Distinct(t, u) /\ own'[u] = own[u] /\ own'[t].institutions = own[t].institutions
    BY <1>1 DEF TablesInv, Still, Inserts
  <2> QED
    BY <1>7, <2>1 DEF Distinct, rows
<1> QED
  BY <1>1, <1>10, <1>11, <1>12, <1>13, <1>14, <1>15, <1>16, StillKeeps DEF Mine

LEMMA InsertEdgesSound ==
    ASSUME TablesInv, NEW t \in Txns, InsertEdges(t), OneRowInv'
    PROVE  TablesInv'
<1> DEFINE plan == PlanEdges(Snapshot(t))
           edges == {<<mem[t].ids[e[1]], e[2]>> : e \in plan}
<1>1. /\ Still(t) /\ SameMind(t) /\ pc[t] = "edges" /\ pc'[t] = "tier1"
      /\ own'[t].institutions = own[t].institutions /\ own'[t].streets = own[t].streets
      /\ own'[t].addresses = own[t].addresses /\ own'[t].edges = own[t].edges \cup edges
  BY InsertEdgesDoes DEF TablesInv
<1>2. Mine(t) /\ t \in Ingests /\ t \notin Reloads /\ mem[t].snapshot \in 1 .. Len(Snapshots)
  BY <1>1, TransactionsAssumption DEF TablesInv, Mine, Role, UpsertLabels, Stampers
<1>3. Snapshot(t)' = Snapshot(t) /\ View(t)'.addresses = View(t).addresses /\ db' = db
  BY <1>1 DEF Snapshot, View, Still, SameMind
<1>4. \A e \in plan : /\ mem[t].ids[e[1]] \in DOMAIN View(t).addresses
                      /\ View(t).addresses[mem[t].ids[e[1]]].key = e[1]
                      /\ e[2] \in DOMAIN own[t].institutions
  <2>1. \A e \in plan : e[1] \in PlanAddresses(Snapshot(t))
    BY DEF PlanAddresses
  <2>2. \A e \in plan : e[2] \in ToSet(PlanInstitutions(Snapshot(t)))
    BY <1>2, PlanMeans DEF Snapshot, Plans
  <2> HIDE DEF plan
  <2> QED
    BY <1>1, <1>2, <2>1, <2>2 DEF Mine, IdsFound, InstitutionsDone
<1> HIDE DEF plan
<1>5. Sound(own[t], db)' /\ EdgesOwned(t)'
  <2>1. Sound(own[t], db) /\ EdgesOwned(t)
    BY <1>2 DEF Mine
  <2>2. \A e \in edges : /\ e \in (1 .. nextid - 1) \X Institutions
                         /\ e[1] \in DOMAIN own[t].addresses \cup DOMAIN db.addresses
                         /\ e[2] \in DOMAIN own[t].institutions
    BY <1>4, <2>1, ViewSound, ViewIs DEF Sound, WellTyped
  <2> HIDE DEF edges
  <2>3. own'[t].edges \subseteq (1 .. nextid - 1) \X Institutions
    BY <1>1, <2>1, <2>2 DEF Sound, WellTyped
  <2> QED
    BY <1>1, <1>3, <2>1, <2>2, <2>3 DEF Sound, WellTyped, EdgesOwned, SameMind
<1>6. EdgesDone(t)'
  <2>1. \A e \in plan : <<mem[t].ids[e[1]], e[2]>> \in View(t)'.edges
    BY <1>1, ViewIsNext
  <2> QED
    BY <1>3, <1>4, <2>1 DEF EdgesDone, plan
<1>7. InstitutionsDone(t)'
  BY <1>1, <1>2, <1>3 DEF Mine, InstitutionsDone
<1>8. Role(t)' /\ Idle(t)'
  BY <1>1, <1>2 DEF Mine, Role, Idle, Running, UpsertLabels, StampLabels, AfterTiers, Stampers, SameMind
<1>9. IdsFound(t)' /\ CandidatesTyped(t)'
  BY <1>1 DEF IdsFound, CandidatesTyped
<1>10. \A u \in Txns \ {t} : Exclusive(t, u)' /\ Exclusive(u, t)'
  BY <1>1, LabelKeeps DEF Passed, AfterTiers
<1>11. \A u \in Txns \ {t} : Distinct(t, u)'
  BY <1>1, RowsKeep
<1> QED
  BY <1>1, <1>5, <1>6, <1>7, <1>8, <1>9, <1>10, <1>11, StillKeeps DEF Mine

\* What a stamp of address rows keeps of the rest.
LEMMA StampSound ==
    ASSUME TablesInv, NEW t \in Txns, Still(t), SameMind(t), OneRowInv',
           pc[t] \in StampLabels, pc'[t] \in StampLabels \ {"institutions", "set_district"},
           Passed(t)' = 0 \/ Passed(t) > 0 \/ \A u \in Txns \ {t} : pc[u] # "loaded",
           NEW rows, own'[t].addresses = Over(rows, own[t].addresses),
           own'[t].institutions = own[t].institutions, own'[t].streets = own[t].streets,
           own'[t].edges = own[t].edges, DOMAIN rows \subseteq DOMAIN View(t).addresses,
           \A id \in DOMAIN rows : /\ rows[id] \in AddressRow
                                   /\ rows[id].key = View(t).addresses[id].key,
           \A u \in Txns \ {t} : DOMAIN rows \cap DOMAIN own[u].addresses = {}
    PROVE  TablesInv'
<1>1. Mine(t) /\ t \in Stampers /\ t \notin Reloads
  BY TransactionsAssumption DEF TablesInv, Mine, Role
<1>2. Snapshot(t)' = Snapshot(t) /\ db' = db /\ nextid' = nextid
  BY DEF Snapshot, Still, SameMind
<1>3. /\ DOMAIN own'[t].addresses = DOMAIN rows \cup DOMAIN own[t].addresses
      /\ \A id \in DOMAIN own'[t].addresses : own'[t].addresses[id] =
            IF id \in DOMAIN rows THEN rows[id] ELSE own[t].addresses[id]
  BY DEF Over
<1>4. Sound(own[t], db)' /\ EdgesOwned(t)'
  <2>1. Sound(own[t], db) /\ EdgesOwned(t)
    BY <1>1 DEF Mine
  <2>2. \A id \in DOMAIN rows :
            /\ id \in 1 .. nextid - 1 /\ rows[id].key.street \in own[t].streets \cup db.streets
    BY ViewSound, ViewIs
  <2> QED
    BY <1>2, <1>3, <2>1, <2>2 DEF Sound, WellTyped, EdgesOwned
<1>5. EdgesDone(t)'
  <2>1. /\ DOMAIN View(t)'.addresses = DOMAIN View(t).addresses
        /\ \A id \in DOMAIN View(t).addresses :
                View(t)'.addresses[id].key = View(t).addresses[id].key
    <3>1. /\ DOMAIN View(t).addresses = DOMAIN own[t].addresses \cup DOMAIN db.addresses
          /\ \A id \in DOMAIN View(t).addresses : View(t).addresses[id] =
                IF id \in DOMAIN own[t].addresses THEN own[t].addresses[id] ELSE db.addresses[id]
      BY ViewIs
    <3>2. /\ DOMAIN View(t)'.addresses = DOMAIN own'[t].addresses \cup DOMAIN db.addresses
          /\ \A id \in DOMAIN View(t)'.addresses : View(t)'.addresses[id] =
                IF id \in DOMAIN own'[t].addresses THEN own'[t].addresses[id]
                ELSE db.addresses[id]
      BY <1>2, ViewIsNext
    <3> QED
      BY <1>3, <3>1, <3>2
  <2>2. View(t)'.edges = View(t).edges
    BY <1>2 DEF View
  <2>3. t \in Ingests => \A e \in PlanEdges(Snapshot(t)) : \E id \in DOMAIN View(t).addresses :
            View(t).addresses[id].key = e[1] /\ <<id, e[2]>> \in View(t).edges
    BY <1>1 DEF Mine, EdgesDone
  <2> QED
    BY <1>2, <2>1, <2>2, <2>3 DEF EdgesDone
<1>6. InstitutionsDone(t)'
  BY <1>1, <1>2 DEF Mine, InstitutionsDone, StampLabels, AfterTiers
<1>7. Role(t)' /\ Idle(t)'
  BY <1>1
  DEF Mine, Role, Idle, Running, UpsertLabels, StampLabels, AfterTiers, SameMind
<1>8. IdsFound(t)' /\ CandidatesTyped(t)'
  BY DEF IdsFound, CandidatesTyped, StampLabels, AfterTiers
<1>9. ASSUME NEW u \in Txns \ {t}
      PROVE  Exclusive(t, u)' /\ Exclusive(u, t)' /\ Distinct(t, u)'
  <2>1. Exclusive(u, t) /\ Distinct(t, u) /\ pc'[u] = pc[u] /\ own'[u] = own[u]
    BY DEF TablesInv, Still
  <2>2. pc'[t] # "loaded"
    BY DEF StampLabels, AfterTiers
  <2> QED
    BY <1>3, <2>1, <2>2 DEF Exclusive, Distinct
<1> QED
  BY <1>4, <1>5, <1>6, <1>7, <1>8, <1>9, StillKeeps DEF Mine

LEMMA TiersSound ==
    ASSUME TablesInv, NEW t \in Txns, StampTier(t) \/ StampSettlements(t), OneRowInv'
    PROVE  TablesInv'
<1> DEFINE view == View(t).addresses
<1>1. \A id \in DOMAIN view : view[id] \in AddressRow
  BY ViewSound
<1>2. CASE StampTier(t)
  <2>1. PICK n \in 1 .. 3 :
            /\ Still(t) /\ SameMind(t)
            /\ pc[t] \in {"tier1", "tier2", "tier3"} /\ pc'[t] \in {"tier2", "tier3", "settlements"}
            /\ Passed(t) = n - 1 /\ Passed(t)' = n
            /\ \A u \in Txns \ {t} :
                    TierRows(t, n) \cap DOMAIN own[u].addresses = {} /\ u \notin GraoWriters
            /\ own'[t].institutions = own[t].institutions /\ own'[t].streets = own[t].streets
            /\ own'[t].edges = own[t].edges
            /\ own'[t].addresses = Over([id \in TierRows(t, n) |->
                    [View(t).addresses[id] EXCEPT
                        !.district = Says(n, View(t).grao, View(t).addresses[id].key)]],
                    own[t].addresses)
    BY <1>2, StampTierDoes DEF TablesInv
  <2> DEFINE rows == [id \in TierRows(t, n) |->
                        [view[id] EXCEPT !.district = Says(n, View(t).grao, view[id].key)]]
  <2>2. ASSUME NEW id \in TierRows(t, n)
        PROVE  /\ id \in DOMAIN view /\ rows[id] \in AddressRow /\ rows[id].key = view[id].key
    <3>1. id \in DOMAIN view /\ Speaks(n, View(t).grao, view[id].key)
      BY DEF TierRows
    <3>2. Says(n, View(t).grao, view[id].key) \in Districts /\ view[id] \in AddressRow
      BY <1>1, <3>1, SaysADistrict
    <3> QED
      BY <3>1, <3>2 DEF AddressRow
  <2>3. pc[t] \in StampLabels /\ pc'[t] \in StampLabels \ {"institutions", "set_district"}
    BY <2>1 DEF StampLabels, AfterTiers
  <2>4. \A u \in Txns \ {t} : pc[u] # "loaded"
    <3>1. \A u \in Txns : pc[u] = "loaded" => u \in Reloads
      BY DEF TablesInv, Mine, Role
    <3> QED
      BY <2>1, <3>1 DEF GraoWriters
  <2>5. DOMAIN rows = TierRows(t, n) /\ own'[t].addresses = Over(rows, own[t].addresses)
    BY <2>1
  <2> HIDE DEF rows, view
  <2>6. /\ DOMAIN rows \subseteq DOMAIN View(t).addresses
        /\ \A id \in DOMAIN rows : /\ rows[id] \in AddressRow
                                    /\ rows[id].key = View(t).addresses[id].key
        /\ \A u \in Txns \ {t} : DOMAIN rows \cap DOMAIN own[u].addresses = {}
    BY <2>1, <2>2, <2>5 DEF view
  <2> QED
    BY <2>1, <2>3, <2>4, <2>5, <2>6, StampSound
<1>3. CASE StampSettlements(t)
  <2> DEFINE rows == [id \in SettlementRows(t) |-> [view[id] EXCEPT !.settled = TRUE]]
  <2>1. /\ Still(t) /\ SameMind(t) /\ pc[t] = "settlements" /\ pc'[t] = "candidates"
        /\ \A u \in Txns \ {t} : SettlementRows(t) \cap DOMAIN own[u].addresses = {}
        /\ own'[t].institutions = own[t].institutions /\ own'[t].streets = own[t].streets
        /\ own'[t].edges = own[t].edges
        /\ own'[t].addresses = Over(rows, own[t].addresses)
    BY <1>3, StampSettlementsDoes DEF TablesInv
  <2>2. ASSUME NEW id \in SettlementRows(t)
        PROVE  /\ id \in DOMAIN view /\ rows[id] \in AddressRow /\ rows[id].key = view[id].key
    <3>1. id \in DOMAIN view
      BY DEF SettlementRows
    <3>2. view[id] \in AddressRow
      BY <1>1, <3>1
    <3> QED
      BY <3>1, <3>2 DEF AddressRow
  <2>3. /\ pc[t] \in StampLabels /\ pc'[t] \in StampLabels \ {"institutions", "set_district"}
        /\ Passed(t) > 0
    BY <2>1 DEF StampLabels, AfterTiers, Passed
  <2>4. DOMAIN rows = SettlementRows(t)
    OBVIOUS
  <2> HIDE DEF rows, view
  <2>5. /\ DOMAIN rows \subseteq DOMAIN View(t).addresses
        /\ \A id \in DOMAIN rows : /\ rows[id] \in AddressRow
                                    /\ rows[id].key = View(t).addresses[id].key
        /\ \A u \in Txns \ {t} : DOMAIN rows \cap DOMAIN own[u].addresses = {}
    BY <2>1, <2>2, <2>4 DEF view
  <2> QED
    BY <2>1, <2>3, <2>5, StampSound
<1> QED
  BY <1>2, <1>3

LEMMA CatchmentIs ==
    ASSUME NEW tables, NEW k, NEW n \in Nat,
           \A e \in tables.edges : /\ e[1] \in 1 .. n
                /\ tables.addresses[e[1]].district \in Districts \cup {NoDistrict}
    PROVE  /\ Majority(Catchment(tables, k)) \in Districts \cup {NoDistrict}
           /\ Majority(Catchment(tables, k)) = NoDistrict <=> Bare(tables, k)
<1> DEFINE rows == Catchment(tables, k)
<1>1. /\ DOMAIN rows = {e[1] : e \in {x \in tables.edges : x[2] = k}}
      /\ \A id \in DOMAIN rows : rows[id] = tables.addresses[id].district
  BY DEF Catchment
<1> HIDE DEF rows
<1>2. DOMAIN rows \subseteq 1 .. n /\ \A id \in DOMAIN rows : rows[id] \in Districts \cup {NoDistrict}
  BY <1>1
<1>3. IsFiniteSet(DOMAIN rows)
  <2>1. IsFiniteSet(1 .. n)
    <3>1. 1 \in Int /\ n \in Int
      OBVIOUS
    <3> QED
      BY <3>1, FS_Interval
  <2> QED
    BY <1>2, <2>1, FS_Subset
<1>4. (\A id \in DOMAIN rows : rows[id] = NoDistrict) <=> Bare(tables, k)
  BY <1>1 DEF Bare
<1> QED
  BY <1>2, <1>3, <1>4, MajorityIs DEF rows

LEMMA ViewCatchment ==
    ASSUME TablesInv, NEW t \in Txns, NEW k
    PROVE  /\ Majority(Catchment(View(t), k)) \in Districts \cup {NoDistrict}
           /\ Majority(Catchment(View(t), k)) = NoDistrict <=> Bare(View(t), k)
<1>1. nextid \in Nat /\ 1 <= nextid
  BY DEF TablesInv, OneRowInv, Ids
<1>2. nextid - 1 \in Nat
  BY <1>1
<1>3. \A e \in View(t).edges : /\ e[1] \in 1 .. nextid - 1
            /\ View(t).addresses[e[1]].district \in Districts \cup {NoDistrict}
  <2> TAKE e \in View(t).edges
  <2>1. e[1] \in DOMAIN View(t).addresses
    BY ViewSound
  <2>2. e[1] \in 1 .. nextid - 1 /\ View(t).addresses[e[1]] \in AddressRow
    BY <2>1, ViewSound
  <2> QED
    BY <2>2 DEF AddressRow
<1> QED
  BY <1>2, <1>3, CatchmentIs

LEMMA SelectSound ==
    ASSUME TablesInv, NEW t \in Txns, SelectCandidates(t), OneRowInv'
    PROVE  TablesInv'
<1> DEFINE rows == View(t).institutions
<1>1. /\ Still(t) /\ SameRows(t) /\ pc[t] = "candidates" /\ pc'[t] = "institutions"
      /\ mem'[t].snapshot = mem[t].snapshot
      /\ mem'[t].candidates = {[institution |-> k, address |-> rows[k].address] : k \in
            {x \in DOMAIN rows \ Nurseries : t \in Restamps \/ rows[x].district = NoDistrict}}
  BY SelectCandidatesDoes DEF TablesInv
<1>2. Mine(t) /\ t \in Stampers /\ t \notin Reloads
  BY <1>1, TransactionsAssumption DEF TablesInv, Mine, Role, StampLabels, AfterTiers
<1>3. /\ Snapshot(t)' = Snapshot(t) /\ View(t)'.institutions = rows
      /\ View(t)'.addresses = View(t).addresses /\ View(t)'.edges = View(t).edges
  BY <1>1 DEF Snapshot, View, Still, SameRows
<1>4. \A k \in DOMAIN rows : rows[k].address \in Address \cup {None}
  BY ViewSound DEF InstitutionRow
<1> HIDE DEF rows
<1>5. CandidatesTyped(t)'
  BY <1>1, <1>3, <1>4 DEF CandidatesTyped, Candidate
<1>6. Sound(own[t], db)' /\ EdgesOwned(t)'
  BY <1>1, <1>2 DEF Mine, Sound, WellTyped, EdgesOwned, Still, SameRows
<1>7. Role(t)' /\ Idle(t)'
  BY <1>1, <1>2 DEF Mine, Role, Idle, Running, UpsertLabels, StampLabels, AfterTiers
<1>8. InstitutionsDone(t)' /\ EdgesDone(t)' /\ IdsFound(t)'
  BY <1>1, <1>2, <1>3
  DEF Mine, InstitutionsDone, EdgesDone, IdsFound, StampLabels, AfterTiers, SameRows
<1>9. \A u \in Txns \ {t} : Exclusive(t, u)' /\ Exclusive(u, t)'
  BY <1>1, LabelKeeps DEF Passed, AfterTiers
<1>10. \A u \in Txns \ {t} : Distinct(t, u)'
  BY <1>1, RowsKeep DEF SameRows
<1> QED
  BY <1>1, <1>5, <1>6, <1>7, <1>8, <1>9, <1>10, StillKeeps DEF Mine

LEMMA ReadSound ==
    ASSUME TablesInv, NEW t \in Txns, ReadDistrict(t), OneRowInv'
    PROVE  TablesInv'
<1>1. PICK c \in mem[t].candidates :
        LET d == DistrictOf(View(t), c)
        IN  /\ Still(t) /\ SameRows(t) /\ pc[t] = "institutions"
            /\ mem'[t].snapshot = mem[t].snapshot
            /\ pc'[t] = IF d = NoDistrict THEN "institutions" ELSE "set_district"
            /\ mem'[t].candidates = mem[t].candidates \ {c}
            /\ mem'[t].chosen = [institution |-> c.institution, district |-> d]
  BY ReadDistrictDoes DEF TablesInv
<1> DEFINE d == DistrictOf(View(t), c)
<1>2. Mine(t) /\ t \in Stampers /\ t \notin Reloads
  BY <1>1, TransactionsAssumption DEF TablesInv, Mine, Role, StampLabels, AfterTiers
<1>3. /\ Snapshot(t)' = Snapshot(t) /\ View(t)'.institutions = View(t).institutions
      /\ View(t)'.addresses = View(t).addresses /\ View(t)'.edges = View(t).edges
  <2>1. db' = db /\ own'[t] = own[t] /\ mem'[t].snapshot = mem[t].snapshot
    BY <1>1 DEF Still, SameRows
  <2> QED
    BY <2>1 DEF Snapshot, View
<1>4. d \in Districts \cup {NoDistrict}
  <2>1. Majority(Catchment(View(t), c.institution)) \in Districts \cup {NoDistrict}
    BY ViewCatchment
  <2>2. Lookup(View(t).grao, c.address) \in Districts \cup {NoDistrict}
    BY LookupIs
  <2> QED
    BY <2>1, <2>2 DEF DistrictOf
<1>5. CandidatesTyped(t)'
  <2>1. Candidate(t, c) /\ \A x \in mem[t].candidates : Candidate(t, x)
    BY <1>1, <1>2 DEF Mine, CandidatesTyped
  <2>2. /\ pc'[t] = "set_district" => d # NoDistrict
        /\ mem'[t].candidates = mem[t].candidates \ {c}
        /\ mem'[t].chosen.institution = c.institution /\ mem'[t].chosen.district = d
    BY <1>1
  <2> HIDE DEF d
  <2> QED
    BY <1>3, <1>4, <2>1, <2>2 DEF CandidatesTyped, Candidate
<1>6. Still(t) /\ SameRows(t) /\ pc[t] = "institutions" /\ mem'[t].snapshot = mem[t].snapshot
      /\ pc'[t] \in {"institutions", "set_district"}
  BY <1>1
<1>7. Sound(own[t], db)' /\ EdgesOwned(t)'
  BY <1>2, <1>6 DEF Mine, Sound, WellTyped, EdgesOwned, Still, SameRows
<1>8. Role(t)' /\ Idle(t)'
  BY <1>2, <1>6 DEF Mine, Role, Idle, Running, UpsertLabels, StampLabels, AfterTiers
<1>9. InstitutionsDone(t)' /\ EdgesDone(t)' /\ IdsFound(t)'
  BY <1>2, <1>3, <1>6
  DEF Mine, InstitutionsDone, EdgesDone, IdsFound, StampLabels, AfterTiers, SameRows
<1>10. \A u \in Txns \ {t} : Exclusive(t, u)' /\ Exclusive(u, t)'
  BY <1>6, LabelKeeps DEF Passed, AfterTiers
<1>11. \A u \in Txns \ {t} : Distinct(t, u)'
  BY <1>6, RowsKeep DEF SameRows
<1> QED
  BY <1>5, <1>6, <1>7, <1>8, <1>9, <1>10, <1>11, StillKeeps DEF Mine

LEMMA SetDistrictSound ==
    ASSUME TablesInv, NEW t \in Txns, SetDistrict(t), OneRowInv'
    PROVE  TablesInv'
<1> DEFINE k == mem[t].chosen.institution
           mine == own[t].institutions
           row == [View(t).institutions[k] EXCEPT !.district = mem[t].chosen.district]
<1>1. /\ Still(t) /\ SameMind(t) /\ pc[t] = "set_district" /\ pc'[t] = "institutions"
      /\ \A u \in Txns \ {t} : k \notin DOMAIN own[u].institutions
      /\ own'[t].institutions = Over([x \in {k} |-> row], mine)
      /\ own'[t].streets = own[t].streets /\ own'[t].addresses = own[t].addresses
      /\ own'[t].edges = own[t].edges
  BY SetDistrictDoes DEF TablesInv
<1>2. Mine(t) /\ t \in Stampers /\ t \notin Reloads
  BY <1>1, TransactionsAssumption DEF TablesInv, Mine, Role, StampLabels, AfterTiers
<1>3. k \in DOMAIN View(t).institutions /\ k \in Institutions /\ row \in InstitutionRow
  <2>1. k \in DOMAIN View(t).institutions /\ mem[t].chosen.district \in Districts
    BY <1>1, <1>2 DEF Mine, CandidatesTyped
  <2>2. View(t).institutions[k] \in InstitutionRow /\ k \in Institutions
    BY <2>1, ViewSound
  <2> HIDE DEF k
  <2> QED
    BY <2>1, <2>2 DEF InstitutionRow
<1>4. /\ DOMAIN View(t).institutions = DOMAIN mine \cup DOMAIN db.institutions
      /\ View(t)'.addresses = View(t).addresses /\ View(t)'.edges = View(t).edges
      /\ DOMAIN View(t)'.institutions = DOMAIN own'[t].institutions \cup DOMAIN db.institutions
      /\ Snapshot(t)' = Snapshot(t) /\ db' = db
  BY <1>1 DEF View, Over, Still, SameMind, Snapshot
<1> HIDE DEF row
<1>5. /\ DOMAIN own'[t].institutions = DOMAIN mine \cup {k} /\ own'[t].institutions[k] = row
      /\ \A x \in DOMAIN mine \ {k} : own'[t].institutions[x] = mine[x]
  BY <1>1 DEF Over
<1>6. Sound(own[t], db)' /\ EdgesOwned(t)'
  <2>1. Sound(own[t], db) /\ EdgesOwned(t) /\ nextid' = nextid
    BY <1>1, <1>2 DEF Mine, SameMind
  <2> HIDE DEF k, mine
  <2> QED
    BY <1>1, <1>3, <1>4, <1>5, <2>1 DEF Sound, WellTyped, EdgesOwned, mine
<1>7. CandidatesTyped(t)'
  <2>1. \A c \in mem[t].candidates : Candidate(t, c)
    BY <1>1, <1>2 DEF Mine, CandidatesTyped
  <2>2. DOMAIN View(t).institutions \subseteq DOMAIN View(t)'.institutions
    BY <1>4, <1>5
  <2>3. mem'[t].candidates = mem[t].candidates
    BY <1>1 DEF SameMind
  <2> QED
    BY <1>1, <2>1, <2>2, <2>3 DEF CandidatesTyped, Candidate
<1>8. InstitutionsDone(t)'
  BY <1>1, <1>2, <1>4, <1>5 DEF Mine, InstitutionsDone, StampLabels, AfterTiers
<1>9. Role(t)' /\ Idle(t)'
  BY <1>1, <1>2 DEF Mine, Role, Idle, Running, UpsertLabels, StampLabels, AfterTiers, SameMind
<1>10. EdgesDone(t)' /\ IdsFound(t)'
  BY <1>1, <1>2, <1>4 DEF Mine, EdgesDone, IdsFound, StampLabels, AfterTiers
<1>11. \A u \in Txns \ {t} : Exclusive(t, u)' /\ Exclusive(u, t)'
  BY <1>1, LabelKeeps DEF Passed, AfterTiers
<1>12. ASSUME NEW u \in Txns \ {t}
       PROVE  Distinct(t, u)'
  <2>1. Distinct(t, u) /\ own'[u] = own[u]
    BY <1>1 DEF TablesInv, Still
  <2> HIDE DEF k
  <2> QED
    BY <1>1, <1>5, <2>1 DEF Distinct
<1> QED
  BY <1>1, <1>6, <1>7, <1>8, <1>9, <1>10, <1>11, <1>12, StillKeeps DEF Mine

LEMMA ReloadSound ==
    ASSUME TablesInv, NEW t \in Txns, ReloadGrao(t), OneRowInv'
    PROVE  TablesInv'
<1>1. /\ Still(t) /\ SameRows(t) /\ SameMind(t) /\ pc[t] = "truncate" /\ pc'[t] = "loaded"
      /\ \A u \in Txns \ {t} : u \notin GraoReaders \cup GraoWriters
  BY ReloadDoes DEF TablesInv
<1>2. Mine(t) /\ t \in Reloads /\ t \notin Stampers
  BY <1>1, TransactionsAssumption DEF TablesInv, Mine, Role
<1>3. Sound(own[t], db)' /\ EdgesOwned(t)'
  BY <1>1, <1>2 DEF Mine, Sound, WellTyped, EdgesOwned, Still, SameRows
<1>4. Role(t)' /\ Idle(t)'
  BY <1>1, <1>2
  DEF Mine, Role, Idle, Running, UpsertLabels, StampLabels, AfterTiers, SameRows, Stampers
<1>5. InstitutionsDone(t)' /\ EdgesDone(t)' /\ IdsFound(t)' /\ CandidatesTyped(t)'
  BY <1>1 DEF InstitutionsDone, EdgesDone, IdsFound, CandidatesTyped, StampLabels, AfterTiers
<1>6. ASSUME NEW u \in Txns \ {t}
      PROVE  Exclusive(t, u)' /\ Exclusive(u, t)'
  <2>1. Role(u) /\ pc'[u] = pc[u]
    BY <1>1 DEF TablesInv, Mine, Still
  <2>2. pc[u] # "loaded"
    BY <1>1, <2>1 DEF Role, GraoWriters
  <2>3. Passed(u) = 0
    BY <1>1, <2>1 DEF Role, GraoReaders, Passed, StampLabels, AfterTiers
  <2> QED
    BY <2>1, <2>2, <2>3 DEF Exclusive, Passed
<1>7. \A u \in Txns \ {t} : Distinct(t, u)'
  BY <1>1, RowsKeep DEF SameRows
<1> QED
  BY <1>1, <1>3, <1>4, <1>5, <1>6, <1>7, StillKeeps DEF Mine

LEMMA NothingIs ==
    /\ DOMAIN Nothing.institutions = {} /\ Nothing.streets = {}
    /\ DOMAIN Nothing.addresses = {} /\ Nothing.edges = {}
BY DEF Nothing, Empty

LEMMA RollbackSound ==
    ASSUME TablesInv, NEW t \in Txns, Rollback(t), OneRowInv'
    PROVE  TablesInv'
<1>1. Still(t) /\ nextid' = nextid /\ own'[t] = Nothing /\ pc'[t] = "failed"
  BY RollbackDoes DEF TablesInv
<1>2. Sound(own[t], db)' /\ EdgesOwned(t)'
  BY <1>1, NothingIs DEF Sound, WellTyped, EdgesOwned
<1>3. Role(t)' /\ Idle(t)'
  BY <1>1 DEF Role, Idle, UpsertLabels, StampLabels, AfterTiers
<1>4. InstitutionsDone(t)' /\ EdgesDone(t)' /\ IdsFound(t)' /\ CandidatesTyped(t)'
  BY <1>1 DEF InstitutionsDone, EdgesDone, IdsFound, CandidatesTyped, StampLabels, AfterTiers
<1>5. \A u \in Txns \ {t} : Exclusive(t, u)' /\ Exclusive(u, t)'
  BY <1>1, LabelKeeps DEF Passed, AfterTiers
<1>6. \A u \in Txns \ {t} : Distinct(t, u)'
  BY <1>1, NothingIs DEF Distinct
<1> QED
  BY <1>1, <1>2, <1>3, <1>4, <1>5, <1>6, StillKeeps DEF Mine

\* A commit adds the rows of t to the tables and leaves the others their own.
LEMMA CommitOthers ==
    ASSUME TablesInv, NEW t \in Txns, Commit(t), NEW u \in Txns \ {t}
    PROVE  /\ Distinct(t, u) /\ Distinct(u, t) /\ SameKeys(t) /\ SameKeys(u)
           /\ own'[u] = own[u] /\ pc'[u] = pc[u] /\ mem'[u] = mem[u] /\ Snapshot(u)' = Snapshot(u)
           /\ DOMAIN View(u)'.addresses = DOMAIN View(u).addresses \cup DOMAIN own[t].addresses
           /\ \A id \in DOMAIN View(u).addresses :
                /\ View(u)'.addresses[id].key = View(u).addresses[id].key
                /\ id \notin DOMAIN own[t].addresses =>
                        View(u)'.addresses[id] = View(u).addresses[id]
           /\ \A id \in DOMAIN own[t].addresses : /\ id \notin DOMAIN own[u].addresses
                                                 /\ View(u)'.addresses[id] = own[t].addresses[id]
           /\ DOMAIN View(u)'.institutions =
                DOMAIN View(u).institutions \cup DOMAIN own[t].institutions
           /\ \A k \in DOMAIN View(u).institutions \ DOMAIN own[t].institutions :
                View(u)'.institutions[k] = View(u).institutions[k]
           /\ \A k \in DOMAIN own[t].institutions : /\ k \notin DOMAIN own[u].institutions
                                                  /\ View(u)'.institutions[k] = own[t].institutions[k]
           /\ View(u)'.edges = View(u).edges \cup own[t].edges
<1>1. /\ db' = View(t)
      /\ own'[u] = own[u] /\ pc'[u] = pc[u] /\ mem'[u] = mem[u]
  BY CommitDoes DEF TablesInv
<1>2. Distinct(t, u) /\ Distinct(u, t) /\ SameKeys(t) /\ SameKeys(u)
  BY DEF TablesInv, OneRowInv, Single, Distinct
<1>3. /\ DOMAIN db'.addresses = DOMAIN own[t].addresses \cup DOMAIN db.addresses
      /\ \A id \in DOMAIN db'.addresses : db'.addresses[id] =
            IF id \in DOMAIN own[t].addresses THEN own[t].addresses[id] ELSE db.addresses[id]
      /\ DOMAIN db'.institutions = DOMAIN own[t].institutions \cup DOMAIN db.institutions
      /\ \A k \in DOMAIN db'.institutions : db'.institutions[k] =
            IF k \in DOMAIN own[t].institutions THEN own[t].institutions[k] ELSE db.institutions[k]
      /\ db'.edges = own[t].edges \cup db.edges
  BY <1>1, ViewIs
<1>4. /\ DOMAIN View(u).addresses = DOMAIN own[u].addresses \cup DOMAIN db.addresses
      /\ \A id \in DOMAIN View(u).addresses : View(u).addresses[id] =
            IF id \in DOMAIN own[u].addresses THEN own[u].addresses[id] ELSE db.addresses[id]
      /\ DOMAIN View(u).institutions = DOMAIN own[u].institutions \cup DOMAIN db.institutions
      /\ \A k \in DOMAIN View(u).institutions : View(u).institutions[k] =
            IF k \in DOMAIN own[u].institutions THEN own[u].institutions[k] ELSE db.institutions[k]
      /\ View(u).edges = own[u].edges \cup db.edges
  BY ViewIs
<1>5. /\ DOMAIN View(u)'.addresses = DOMAIN own[u].addresses \cup DOMAIN db'.addresses
      /\ \A id \in DOMAIN View(u)'.addresses : View(u)'.addresses[id] =
            IF id \in DOMAIN own[u].addresses THEN own[u].addresses[id] ELSE db'.addresses[id]
      /\ DOMAIN View(u)'.institutions = DOMAIN own[u].institutions \cup DOMAIN db'.institutions
      /\ \A k \in DOMAIN View(u)'.institutions : View(u)'.institutions[k] =
            IF k \in DOMAIN own[u].institutions THEN own[u].institutions[k] ELSE db'.institutions[k]
      /\ View(u)'.edges = own[u].edges \cup db'.edges
  BY <1>1, ViewIsNext
<1>6. Snapshot(u)' = Snapshot(u)
  BY <1>1 DEF Snapshot
<1>7. \A id \in DOMAIN View(u).addresses : View(u)'.addresses[id].key = View(u).addresses[id].key
  BY <1>2, <1>3, <1>4, <1>5 DEF Distinct, SameKeys
<1>8. \A id \in DOMAIN View(u).addresses \ DOMAIN own[t].addresses :
        View(u)'.addresses[id] = View(u).addresses[id]
  BY <1>3, <1>4, <1>5
<1>9. \A id \in DOMAIN own[t].addresses : /\ id \notin DOMAIN own[u].addresses
                                        /\ View(u)'.addresses[id] = own[t].addresses[id]
  BY <1>2, <1>3, <1>5 DEF Distinct
<1>10. \A k \in DOMAIN View(u).institutions \ DOMAIN own[t].institutions :
        View(u)'.institutions[k] = View(u).institutions[k]
  BY <1>3, <1>4, <1>5
<1>11. \A k \in DOMAIN own[t].institutions : /\ k \notin DOMAIN own[u].institutions
                                           /\ View(u)'.institutions[k] = own[t].institutions[k]
  BY <1>2, <1>3, <1>5 DEF Distinct
<1>12. /\ DOMAIN View(u)'.addresses = DOMAIN View(u).addresses \cup DOMAIN own[t].addresses
       /\ DOMAIN View(u)'.institutions =
                DOMAIN View(u).institutions \cup DOMAIN own[t].institutions
       /\ View(u)'.edges = View(u).edges \cup own[t].edges
  BY <1>3, <1>4, <1>5
<1> QED
  BY <1>1, <1>2, <1>6, <1>7, <1>8, <1>9, <1>10, <1>11, <1>12

LEMMA CommitSound ==
    ASSUME TablesInv, NEW t \in Txns, Commit(t), OneRowInv'
    PROVE  TablesInv'
<1>1. /\ pc[t] = "loaded" \/ (pc[t] = "institutions" /\ mem[t].candidates = {})
      /\ db' = View(t) /\ latest' = latest /\ nextid' = nextid
      /\ own'[t] = Nothing /\ pc'[t] = "committed" /\ mem'[t].snapshot = mem[t].snapshot
      /\ \A u \in Txns \ {t} : own'[u] = own[u] /\ pc'[u] = pc[u] /\ mem'[u] = mem[u]
  BY CommitDoes DEF TablesInv
<1>2. Mine(t) /\ Sound(db, db) /\ \A e \in db.edges : e[2] \in DOMAIN db.institutions
  BY DEF TablesInv
<1>3. /\ DOMAIN db'.addresses = DOMAIN own[t].addresses \cup DOMAIN db.addresses
      /\ \A id \in DOMAIN db'.addresses : db'.addresses[id] =
            IF id \in DOMAIN own[t].addresses THEN own[t].addresses[id] ELSE db.addresses[id]
      /\ DOMAIN db'.institutions = DOMAIN own[t].institutions \cup DOMAIN db.institutions
      /\ \A k \in DOMAIN db'.institutions : db'.institutions[k] =
            IF k \in DOMAIN own[t].institutions THEN own[t].institutions[k] ELSE db.institutions[k]
      /\ db'.streets = own[t].streets \cup db.streets
      /\ db'.edges = own[t].edges \cup db.edges
      /\ db'.grao = IF pc[t] = "loaded" THEN File[t] ELSE db.grao
  BY <1>1, ViewIs
<1>4. Sound(db, db)' /\ \A e \in db'.edges : e[2] \in DOMAIN db'.institutions
  <2>1. Sound(own[t], db) /\ EdgesOwned(t)
    BY <1>2 DEF Mine
  <2> QED
    BY <1>1, <1>2, <1>3, <2>1 DEF Sound, WellTyped, EdgesOwned
<1>5. db'.grao \subseteq GraoRow
  BY <1>2, <1>3, TransactionsAssumption DEF TablesInv, Mine, Role
<1>6. Mine(t)'
  <2>1. Sound(own[t], db)' /\ EdgesOwned(t)' /\ Idle(t)'
    BY <1>1, NothingIs DEF Sound, WellTyped, EdgesOwned, Idle
  <2>2. Role(t)'
    BY <1>1, <1>2 DEF Mine, Role, UpsertLabels, StampLabels, AfterTiers
  <2>3. InstitutionsDone(t)' /\ IdsFound(t)' /\ CandidatesTyped(t)'
    BY <1>1 DEF InstitutionsDone, IdsFound, CandidatesTyped, StampLabels, AfterTiers
  <2>4. EdgesDone(t)'
    <3>1. /\ DOMAIN View(t)'.addresses = DOMAIN View(t).addresses
          /\ \A id \in DOMAIN View(t).addresses : View(t)'.addresses[id] = View(t).addresses[id]
          /\ View(t)'.edges = View(t).edges
      <4>1. own'[t] = Nothing /\ db' = View(t)
        BY <1>1
      <4>2. /\ DOMAIN View(t)'.addresses = DOMAIN own'[t].addresses \cup DOMAIN db'.addresses
            /\ \A id \in DOMAIN View(t)'.addresses : View(t)'.addresses[id] =
                IF id \in DOMAIN own'[t].addresses THEN own'[t].addresses[id] ELSE db'.addresses[id]
            /\ View(t)'.edges = own'[t].edges \cup db'.edges
        BY ViewIsNext
      <4> QED
        BY <4>1, <4>2, NothingIs
    <3>2. t \in Ingests => pc[t] \in StampLabels
      BY <1>1, <1>2, TransactionsAssumption DEF Mine, Role, StampLabels, AfterTiers, Stampers
    <3>3. Snapshot(t)' = Snapshot(t)
      BY <1>1 DEF Snapshot
    <3> QED
      BY <1>2, <3>1, <3>2, <3>3 DEF Mine, EdgesDone
  <2> QED
    BY <2>1, <2>2, <2>3, <2>4 DEF Mine
<1>7. ASSUME NEW u \in Txns \ {t}
      PROVE  Mine(u)'
  <2>1. Mine(u)
    BY DEF TablesInv
  <2>2. own'[u] = own[u] /\ pc'[u] = pc[u] /\ mem'[u] = mem[u] /\ Snapshot(u)' = Snapshot(u)
    BY CommitOthers
  <2>3. Role(u)' /\ Idle(u)' /\ EdgesOwned(u)' /\ InstitutionsDone(u)'
    BY <2>1, <2>2 DEF Mine, Role, Idle, Running, EdgesOwned, InstitutionsDone
  <2>4. Sound(own[u], db)'
    <3>1. Sound(own[u], db)
      BY <2>1 DEF Mine
    <3> QED
      BY <1>1, <1>3, <2>2, <3>1 DEF Sound, WellTyped
  <2>5. /\ DOMAIN View(u).addresses \subseteq DOMAIN View(u)'.addresses
        /\ \A id \in DOMAIN View(u).addresses :
                View(u)'.addresses[id].key = View(u).addresses[id].key
        /\ DOMAIN View(u).institutions \subseteq DOMAIN View(u)'.institutions
        /\ View(u).edges \subseteq View(u)'.edges
    BY CommitOthers
  <2>6. IdsFound(u)' /\ EdgesDone(u)'
    BY <2>1, <2>2, <2>5 DEF Mine, IdsFound, EdgesDone
  <2>7. CandidatesTyped(u)'
    BY <2>1, <2>2, <2>5 DEF Mine, CandidatesTyped, Candidate
  <2> QED
    BY <2>3, <2>4, <2>6, <2>7 DEF Mine
<1>8. ASSUME NEW u \in Txns, NEW v \in Txns \ {u}
      PROVE  Exclusive(u, v)' /\ Distinct(u, v)'
  <2>1. Exclusive(u, v) /\ Distinct(u, v)
    BY DEF TablesInv
  <2>2. CASE u = t
    BY <1>1, <2>2, NothingIs DEF Exclusive, Distinct
  <2>3. CASE v = t
    BY <1>1, <2>3, NothingIs DEF Exclusive, Distinct, Passed, AfterTiers
  <2>4. CASE u # t /\ v # t
    BY <1>1, <2>1, <2>4 DEF Exclusive, Distinct, Passed
  <2> QED
    BY <2>2, <2>3, <2>4
<1>9. 1 <= nextid'
  BY <1>1 DEF TablesInv
<1> QED
  BY <1>4, <1>5, <1>6, <1>7, <1>8, <1>9 DEF TablesInv

LEMMA StepSound ==
    ASSUME TablesInv, OneRowInv', NEW t \in Txns, Step(t) \/ Fail(t) \/ EndDeadlock(t)
    PROVE  TablesInv'
BY FetchSound, BeginSound, UpsertInstitutionSound, UpsertStreetSound, PrefetchSound, InsertSound,
   InsertEdgesSound, TiersSound, SelectSound, ReadSound, SetDistrictSound, ReloadSound,
   CommitSound, RollbackSound DEF Step, Fail, EndDeadlock

LEMMA TablesUnmoved ==
    ASSUME TablesInv, OneRowInv', UNCHANGED <<db, nextid, pc, own, mem>>
    PROVE  TablesInv'
<1>1. ASSUME NEW t \in Txns
      PROVE  Mine(t)'
  <2>1. Mine(t)
    BY DEF TablesInv
  <2>2. View(t)' = View(t) /\ Snapshot(t)' = Snapshot(t)
    BY DEF View, Snapshot
  <2>3. Role(t)' /\ Idle(t)' /\ Sound(own[t], db)' /\ EdgesOwned(t)'
    BY <2>1 DEF Mine, Role, Idle, Running, Sound, WellTyped, EdgesOwned
  <2>4. InstitutionsDone(t)' /\ IdsFound(t)' /\ EdgesDone(t)' /\ CandidatesTyped(t)'
    BY <2>1, <2>2 DEF Mine, InstitutionsDone, IdsFound, EdgesDone, CandidatesTyped, Candidate
  <2> QED
    BY <2>3, <2>4 DEF Mine
<1>2. \A t \in Txns : \A u \in Txns \ {t} : Exclusive(t, u)' /\ Distinct(t, u)'
  BY DEF TablesInv, Exclusive, Distinct, Passed
<1>3. /\ 1 <= nextid' /\ Sound(db, db)' /\ db'.grao \subseteq GraoRow
      /\ \A e \in db'.edges : e[2] \in DOMAIN db'.institutions
  BY DEF TablesInv, Sound, WellTyped
<1> QED
  BY <1>1, <1>2, <1>3 DEF TablesInv

LEMMA TablesInductive ==
    ASSUME TablesInv, [Next]_vars
    PROVE  TablesInv'
<1>1. OneRowInv'
  BY OneRowInductive DEF TablesInv
<1>2. CASE Publish \/ UNCHANGED vars
  BY <1>1, <1>2, TablesUnmoved DEF Publish, vars
<1>3. ASSUME NEW t \in Txns, Step(t) \/ Fail(t) \/ EndDeadlock(t)
      PROVE  TablesInv'
  BY <1>1, <1>3, StepSound
<1> QED
  BY <1>2, <1>3 DEF Next

LEMMA TablesInit ==
    ASSUME Init
    PROVE  TablesInv
<1>1. /\ \A t \in Txns : own[t] = Nothing /\ mem[t] = Blank /\ pc[t] = "start"
      /\ DOMAIN db.addresses = {} /\ DOMAIN db.institutions = {} /\ db.streets = {}
      /\ db.edges = {} /\ nextid = 1 /\ latest = 1
  BY DEF Init, Empty
<1>2. OneRowInv
  <2>1. Shapes /\ Ids
    BY <1>1, NothingIs DEF Init, Shapes, Ids, Nothing
  <2>2. \A t \in Txns : Single(t)
    BY <1>1, NothingIs DEF Single, SameKeys, NewRows, New, AtUpsert, AtInsert, Before
  <2>3. \A t, u \in Txns : Apart(t, u)
    BY <1>1, NothingIs DEF Apart, New
  <2> QED
    BY <1>1, <2>1, <2>2, <2>3, TransactionsAssumption DEF OneRowInv, OneRowPerAddress
<1>3. Sound(db, db) /\ db.grao \subseteq GraoRow
  BY <1>1, TransactionsAssumption DEF Init, Sound, WellTyped
<1>4. ASSUME NEW t \in Txns
      PROVE  Mine(t)
  <2>1. Sound(own[t], db) /\ EdgesOwned(t) /\ Idle(t)
    BY <1>1, NothingIs DEF Sound, WellTyped, EdgesOwned, Idle
  <2>2. Role(t) /\ InstitutionsDone(t) /\ IdsFound(t) /\ EdgesDone(t) /\ CandidatesTyped(t)
    BY <1>1
    DEF Role, InstitutionsDone, IdsFound, EdgesDone, CandidatesTyped, UpsertLabels, StampLabels,
        AfterTiers
  <2> QED
    BY <2>1, <2>2 DEF Mine
<1>5. \A t \in Txns : \A u \in Txns \ {t} : Exclusive(t, u) /\ Distinct(t, u)
  BY <1>1, NothingIs DEF Exclusive, Distinct
<1> QED
  BY <1>1, <1>2, <1>3, <1>4, <1>5 DEF TablesInv

LEMMA TablesMean ==
    ASSUME TablesInv
    PROVE  TypeOK /\ CatchmentComplete
<1>1. TypeOK
  <2>1. /\ WellTyped(db.institutions, db.streets, db.addresses, db.edges)
        /\ db.grao \subseteq GraoRow /\ latest \in 1 .. Len(Snapshots)
    BY DEF TablesInv, OneRowInv, Sound
  <2>2. ASSUME NEW t \in Txns
        PROVE  /\ WellTyped(own[t].institutions, own[t].streets, own[t].addresses, own[t].edges)
               /\ \A id \in DOMAIN View(t).addresses :
                    View(t).addresses[id].key.street \in View(t).streets
               /\ \A e \in View(t).edges :
                    e[1] \in DOMAIN View(t).addresses /\ e[2] \in DOMAIN View(t).institutions
    BY ViewSound DEF TablesInv, Mine, Sound
  <2> QED
    BY <2>1, <2>2 DEF TypeOK
<1>2. ASSUME NEW t \in Ingests, pc[t] = "committed", NEW e \in PlanEdges(Snapshot(t))
      PROVE  \E id \in DOMAIN db.addresses : db.addresses[id].key = e[1] /\ <<id, e[2]>> \in db.edges
  <2>1. Idle(t) /\ EdgesDone(t)
    BY DEF TablesInv, Mine, Txns, Stampers
  <2>2. own[t] = Nothing
    BY <1>2, <2>1 DEF Idle, Running
  <2>3. /\ DOMAIN View(t).addresses = DOMAIN db.addresses
        /\ \A id \in DOMAIN db.addresses : View(t).addresses[id] = db.addresses[id]
        /\ View(t).edges = db.edges
    <3>1. /\ DOMAIN View(t).addresses = DOMAIN own[t].addresses \cup DOMAIN db.addresses
          /\ \A id \in DOMAIN View(t).addresses : View(t).addresses[id] =
                IF id \in DOMAIN own[t].addresses THEN own[t].addresses[id] ELSE db.addresses[id]
          /\ View(t).edges = own[t].edges \cup db.edges
      BY ViewIs
    <3> QED
      BY <2>2, <3>1, NothingIs
  <2> QED
    BY <1>2, <2>1, <2>3 DEF EdgesDone
<1> QED
  BY <1>1, <1>2 DEF CatchmentComplete

(* Whatever is written, and by however many transactions at once, the       *)
(* tables hold rows of their types, and every row refers to rows its        *)
(* transaction can see: no statement ever breaks a foreign key.             *)
THEOREM AlwaysWellTyped == Spec => []TypeOK
BY TablesInit, TablesInductive, TablesMean, PTL DEF Spec

(* When an ingest has committed, each address its snapshot gives an         *)
(* institution is an address of the table, joined to that institution.      *)
THEOREM AlwaysCatchmentComplete == Spec => []CatchmentComplete
BY TablesInit, TablesInductive, TablesMean, PTL DEF Spec

-----------------------------------------------------------------------------
(* What the tiers stamp.                                                    *)

\* Unspoken, StampedBest and Propagated look at the classifier and at the
\* keys and districts of the rows.
LEMMA AddressesKeep ==
    ASSUME NEW t \in Txns, Stamped(t), db' = db, own'[t].addresses = own[t].addresses,
           Passed(t)' = Passed(t)
    PROVE  Stamped(t)'
<1>1. View(t)'.addresses = View(t).addresses
  BY DEF View
<1> QED
  BY <1>1 DEF Stamped, Unspoken, StampedBest, Propagated, Best

LEMMA OthersStamped ==
    ASSUME StampsInv, NEW t \in Txns, Still(t), Stamped(t)'
    PROVE  \A u \in Txns : Stamped(u)'
<1> TAKE u \in Txns
<1>1. CASE u # t
  BY <1>1, AddressesKeep DEF StampsInv, Still, Passed
<1> QED
  BY <1>1

LEMMA InsertStamped ==
    ASSUME StampsInv, NEW t \in Txns, InsertAddresses(t)
    PROVE  Stamped(t)'
<1>1. PICK new, idOf, caught :
        Still(t) /\ pc[t] = "insert" /\ pc'[t] = "edges" /\ Inserts(t, new, idOf, caught)
  BY InsertDoes DEF StampsInv, TablesInv
<1>2. Passed(t)' = 0
  BY <1>1 DEF Passed, AfterTiers
<1>3. Unspoken(t)' /\ Propagated(t)'
  BY <1>2 DEF Unspoken, Propagated
<1>4. \A id \in DOMAIN own'[t].addresses : own'[t].addresses[id].district = NoDistrict
  BY <1>1 DEF Inserts
<1> QED
  BY <1>3, <1>4 DEF Stamped, StampedBest

LEMMA SettlementsStamped ==
    ASSUME StampsInv, NEW t \in Txns, StampSettlements(t)
    PROVE  Stamped(t)'
<1> DEFINE view == View(t).addresses
           rows == [id \in SettlementRows(t) |-> [view[id] EXCEPT !.settled = TRUE]]
<1>1. /\ Still(t) /\ pc[t] = "settlements" /\ pc'[t] = "candidates"
      /\ own'[t].addresses = Over(rows, own[t].addresses)
  BY StampSettlementsDoes DEF StampsInv, TablesInv
<1>2. Passed(t) = 3 /\ Passed(t)' = 3 /\ db' = db /\ Stamped(t)
  BY <1>1 DEF Passed, AfterTiers, Still, StampsInv
<1>3. /\ DOMAIN view = DOMAIN own[t].addresses \cup DOMAIN db.addresses
      /\ \A id \in DOMAIN view : view[id] =
            IF id \in DOMAIN own[t].addresses THEN own[t].addresses[id] ELSE db.addresses[id]
  BY ViewIs
<1>4. /\ DOMAIN rows \subseteq DOMAIN view
      /\ \A id \in DOMAIN rows :
            rows[id].key = view[id].key /\ rows[id].district = view[id].district
  <2>1. SettlementRows(t) \subseteq DOMAIN view
    BY DEF SettlementRows
  <2>2. ASSUME NEW id \in SettlementRows(t)
        PROVE  rows[id].key = view[id].key /\ rows[id].district = view[id].district
    <3>1. view[id] \in AddressRow
      BY <2>1, ViewSound DEF StampsInv
    <3> QED
      BY <3>1 DEF AddressRow
  <2> QED
    BY <2>1, <2>2
<1> HIDE DEF rows, view
<1>5. /\ DOMAIN own'[t].addresses = DOMAIN rows \cup DOMAIN own[t].addresses
      /\ \A id \in DOMAIN own'[t].addresses : own'[t].addresses[id] =
            IF id \in DOMAIN rows THEN rows[id] ELSE own[t].addresses[id]
  BY <1>1 DEF Over
<1>6. /\ DOMAIN View(t)'.addresses = DOMAIN own'[t].addresses \cup DOMAIN db.addresses
      /\ \A id \in DOMAIN View(t)'.addresses : View(t)'.addresses[id] =
            IF id \in DOMAIN own'[t].addresses THEN own'[t].addresses[id] ELSE db.addresses[id]
  BY <1>2, ViewIsNext
<1>7. /\ DOMAIN View(t)'.addresses = DOMAIN view
      /\ \A id \in DOMAIN view : /\ View(t)'.addresses[id].key = view[id].key
                                /\ View(t)'.addresses[id].district = view[id].district
  BY <1>3, <1>4, <1>5, <1>6
<1>8. Unspoken(t)' /\ Propagated(t)'
  BY <1>2, <1>7 DEF Stamped, Unspoken, Propagated, view
<1>9. StampedBest(t)'
  <2>1. \A id \in DOMAIN own'[t].addresses : /\ own'[t].addresses[id].key = view[id].key
                                           /\ own'[t].addresses[id].district = view[id].district
    BY <1>3, <1>4, <1>5
  <2>2. \A id \in DOMAIN own'[t].addresses \ DOMAIN own[t].addresses :
            id \in DOMAIN db.addresses /\ view[id] = db.addresses[id]
    BY <1>3, <1>4, <1>5
  <2>3. \A id \in DOMAIN own[t].addresses : view[id] = own[t].addresses[id]
    BY <1>3
  <2> QED
    BY <1>2, <2>1, <2>2, <2>3 DEF Stamped, StampedBest, Best
<1> QED
  BY <1>8, <1>9 DEF Stamped

\* A tier stamps what no tier before it speaks of, but for the first of a
\* restamp, which has none before it.
LEMMA TierStamped ==
    ASSUME StampsInv, NEW t \in Txns, StampTier(t)
    PROVE  Stamped(t)'
<1> DEFINE view == View(t).addresses
           says(n, id) == Says(n, db.grao, view[id].key)
<1>1. PICK n \in 1 .. 3 :
            /\ Still(t) /\ Passed(t) = n - 1 /\ Passed(t)' = n /\ pc[t] # "loaded"
            /\ own'[t].addresses = Over([id \in TierRows(t, n) |->
                    [view[id] EXCEPT !.district = Says(n, View(t).grao, view[id].key)]],
                    own[t].addresses)
  BY StampTierDoes DEF StampsInv, TablesInv
<1>2. View(t).grao = db.grao /\ db' = db /\ Stamped(t)
  BY <1>1, ViewIs DEF Still, StampsInv
<1> DEFINE rows == [id \in TierRows(t, n) |-> [view[id] EXCEPT !.district = says(n, id)]]
<1>3. /\ DOMAIN view = DOMAIN own[t].addresses \cup DOMAIN db.addresses
      /\ \A id \in DOMAIN view : view[id] =
            IF id \in DOMAIN own[t].addresses THEN own[t].addresses[id] ELSE db.addresses[id]
  BY ViewIs
<1>4. /\ DOMAIN rows \subseteq DOMAIN view
      /\ \A id \in DOMAIN view : id \in DOMAIN rows <=>
            /\ Speaks(n, db.grao, view[id].key)
            /\ (t \in Restamps /\ n = 1) \/ view[id].district = NoDistrict
  BY <1>2 DEF TierRows
<1>5. \A id \in DOMAIN rows : /\ rows[id].key = view[id].key /\ rows[id].district = says(n, id)
                             /\ says(n, id) # NoDistrict
  <2> TAKE id \in DOMAIN rows
  <2>1. view[id] \in AddressRow
    BY <1>4, ViewSound DEF StampsInv
  <2>2. Speaks(n, db.grao, view[id].key)
    BY <1>4
  <2>3. says(n, id) \in Districts /\ 0 \notin Districts
    BY <2>2, SaysADistrict, RulesAssumption
  <2>4. rows[id] = [view[id] EXCEPT !.district = says(n, id)]
    OBVIOUS
  <2> HIDE DEF rows, view, says
  <2> QED
    BY <2>1, <2>3, <2>4 DEF AddressRow, NoDistrict
<1>6. own'[t].addresses = Over(rows, own[t].addresses)
  BY <1>1, <1>2
<1> HIDE DEF rows
<1>7. /\ DOMAIN own'[t].addresses = DOMAIN rows \cup DOMAIN own[t].addresses
      /\ \A id \in DOMAIN own'[t].addresses : own'[t].addresses[id] =
            IF id \in DOMAIN rows THEN rows[id] ELSE own[t].addresses[id]
  BY <1>6 DEF Over
<1>8. /\ DOMAIN View(t)'.addresses = DOMAIN own'[t].addresses \cup DOMAIN db.addresses
      /\ \A id \in DOMAIN View(t)'.addresses : View(t)'.addresses[id] =
            IF id \in DOMAIN own'[t].addresses THEN own'[t].addresses[id] ELSE db.addresses[id]
  BY <1>2, ViewIsNext
<1> HIDE DEF view, says
<1>9. /\ DOMAIN View(t)'.addresses = DOMAIN view
      /\ \A id \in DOMAIN view : View(t)'.addresses[id] =
            IF id \in DOMAIN rows THEN rows[id] ELSE view[id]
  BY <1>3, <1>4, <1>7, <1>8
<1>10. ASSUME NEW id \in DOMAIN view, view[id].district = NoDistrict, NEW m \in 1 .. n - 1
       PROVE  ~Speaks(m, db.grao, view[id].key)
  BY <1>1, <1>2, <1>10 DEF Stamped, Unspoken, view
<1>11. Unspoken(t)'
  <2>1. ASSUME NEW id \in DOMAIN view, View(t)'.addresses[id].district = NoDistrict,
               NEW m \in 1 .. n
        PROVE  ~Speaks(m, db.grao, View(t)'.addresses[id].key)
    <3>1. id \notin DOMAIN rows
      BY <1>5, <1>9, <2>1
    <3>2. View(t)'.addresses[id] = view[id] /\ view[id].district = NoDistrict
      BY <1>9, <2>1, <3>1
    <3>3. CASE m = n
      BY <1>4, <3>1, <3>2, <3>3
    <3>4. CASE m # n
      <4>1. m \in 1 .. n - 1
        BY <3>4
      <4> QED
        BY <1>10, <3>2, <4>1
    <3> QED
      BY <3>3, <3>4
  <2> QED
    BY <1>1, <1>2, <1>9, <2>1 DEF Unspoken
<1>12. StampedBest(t)'
  <2>1. ASSUME NEW id \in DOMAIN own'[t].addresses,
               own'[t].addresses[id].district # NoDistrict,
               id \in DOMAIN db.addresses =>
                    own'[t].addresses[id].district # db.addresses[id].district
        PROVE  \E m \in 1 .. n : Best(m, own'[t].addresses[id].key, own'[t].addresses[id].district)
    <3>1. CASE id \in DOMAIN rows
      <4>1. /\ id \in DOMAIN view /\ Speaks(n, db.grao, view[id].key)
            /\ n = 1 \/ view[id].district = NoDistrict
        BY <1>4, <3>1
      <4>2. \A m \in 1 .. n - 1 : ~Speaks(m, db.grao, view[id].key)
        BY <1>10, <4>1
      <4>3. own'[t].addresses[id].key = view[id].key /\ own'[t].addresses[id].district = says(n, id)
        BY <1>5, <1>7, <3>1
      <4>4. Best(n, own'[t].addresses[id].key, own'[t].addresses[id].district)
        BY <4>1, <4>2, <4>3 DEF Best, says
      <4> QED
        BY <4>4
    <3>2. CASE id \notin DOMAIN rows
      <4>1. id \in DOMAIN own[t].addresses /\ own'[t].addresses[id] = own[t].addresses[id]
        BY <1>7, <3>2
      <4>2. \E m \in 1 .. n - 1 : Best(m, own[t].addresses[id].key, own[t].addresses[id].district)
        BY <1>1, <1>2, <2>1, <4>1 DEF Stamped, StampedBest
      <4> QED
        BY <4>1, <4>2
    <3> QED
      BY <3>1, <3>2
  <2> QED
    BY <1>1, <1>2, <2>1 DEF StampedBest, Best
<1>13. Propagated(t)'
  <2>1. ASSUME t \in Restamps, NEW id \in DOMAIN view, Speaks(1, db.grao, View(t)'.addresses[id].key)
        PROVE  View(t)'.addresses[id].district = Says(1, db.grao, View(t)'.addresses[id].key)
    <3>1. CASE id \in DOMAIN rows
      <4>1. View(t)'.addresses[id].key = view[id].key /\ View(t)'.addresses[id].district = says(n, id)
        BY <1>5, <1>9, <3>1
      <4>2. n = 1
        <5>1. n # 1 => view[id].district = NoDistrict /\ 1 \in 1 .. n - 1
          BY <1>4, <3>1
        <5> QED
          BY <1>10, <2>1, <4>1, <5>1
      <4> QED
        BY <4>1, <4>2 DEF says
    <3>2. CASE id \notin DOMAIN rows
      <4>1. View(t)'.addresses[id] = view[id]
        BY <1>9, <3>2
      <4>2. n # 1
        BY <1>4, <2>1, <3>2, <4>1
      <4>3. Passed(t) > 0
        BY <1>1, <4>2
      <4> QED
        BY <1>2, <2>1, <4>1, <4>3 DEF Stamped, Propagated, view
    <3> QED
      BY <3>1, <3>2
  <2> QED
    BY <1>1, <1>2, <1>9, <2>1 DEF Propagated
<1> QED
  BY <1>11, <1>12, <1>13 DEF Stamped

\* What t commits is stamped by the classifier u has used or will use.
LEMMA CommitStamped ==
    ASSUME StampsInv, NEW t \in Txns, Commit(t), NEW u \in Txns
    PROVE  Stamped(u)'
<1>1. /\ pc[t] = "loaded" \/ (pc[t] = "institutions" /\ mem[t].candidates = {})
      /\ db' = View(t) /\ own'[t] = Nothing /\ pc'[t] = "committed"
      /\ \A v \in Txns \ {t} : own'[v] = own[v] /\ pc'[v] = pc[v]
  BY CommitDoes DEF StampsInv, TablesInv
<1>2. Stamped(t) /\ Stamped(u) /\ Mine(t)
  BY DEF StampsInv, TablesInv
<1>3. CASE u = t
  <2>1. Passed(t)' = 0 /\ DOMAIN own'[t].addresses = {}
    BY <1>1, NothingIs DEF Passed, AfterTiers
  <2> QED
    BY <1>3, <2>1 DEF Stamped, Unspoken, StampedBest, Propagated
<1> SUFFICES ASSUME u # t
             PROVE  Stamped(u)'
  BY <1>3
<1>4. Passed(u)' = Passed(u) /\ own'[u] = own[u]
  BY <1>1 DEF Passed
<1>5. /\ DOMAIN View(u)'.addresses = DOMAIN View(u).addresses \cup DOMAIN own[t].addresses
      /\ \A id \in DOMAIN View(u).addresses \ DOMAIN own[t].addresses :
                View(u)'.addresses[id] = View(u).addresses[id]
      /\ \A id \in DOMAIN own[t].addresses : /\ id \notin DOMAIN own[u].addresses
                                            /\ View(u)'.addresses[id] = own[t].addresses[id]
  BY CommitOthers DEF StampsInv
<1>6. /\ DOMAIN db'.addresses = DOMAIN own[t].addresses \cup DOMAIN db.addresses
      /\ \A id \in DOMAIN db'.addresses : db'.addresses[id] =
            IF id \in DOMAIN own[t].addresses THEN own[t].addresses[id] ELSE db.addresses[id]
      /\ db'.grao = IF pc[t] = "loaded" THEN File[t] ELSE db.grao
  BY <1>1, ViewIs
<1>7. \A id \in DOMAIN own[u].addresses :
            /\ id \in DOMAIN db'.addresses <=> id \in DOMAIN db.addresses
            /\ id \in DOMAIN db.addresses => db'.addresses[id] = db.addresses[id]
  BY <1>5, <1>6
<1>8. CASE pc[t] = "loaded"
  <2>1. Passed(u) = 0
    BY <1>8 DEF StampsInv, TablesInv, Exclusive
  <2> QED
    BY <1>2, <1>4, <1>7, <2>1 DEF Stamped, Unspoken, StampedBest, Propagated
<1>9. CASE pc[t] = "institutions"
  <2>1. Passed(t) = 3 /\ db'.grao = db.grao /\ Passed(u) \in 0 .. 3
    BY <1>6, <1>9 DEF Passed, AfterTiers
  <2>2. /\ DOMAIN own[t].addresses \subseteq DOMAIN View(t).addresses
        /\ \A id \in DOMAIN own[t].addresses : View(t).addresses[id] = own[t].addresses[id]
    BY ViewIs
  <2>3. Unspoken(u)'
    <3> SUFFICES ASSUME NEW id \in DOMAIN View(u)'.addresses,
                        View(u)'.addresses[id].district = NoDistrict, NEW n \in 1 .. Passed(u)
                 PROVE  ~Speaks(n, db.grao, View(u)'.addresses[id].key)
      BY <1>4, <2>1 DEF Unspoken
    <3>1. CASE id \in DOMAIN own[t].addresses
      <4>1. View(u)'.addresses[id] = View(t).addresses[id] /\ id \in DOMAIN View(t).addresses
        BY <1>5, <2>2, <3>1
      <4>2. n \in 1 .. Passed(t)
        BY <2>1
      <4> QED
        BY <1>2, <4>1, <4>2 DEF Stamped, Unspoken
    <3>2. CASE id \notin DOMAIN own[t].addresses
      BY <1>2, <1>5, <3>2 DEF Stamped, Unspoken
    <3> QED
      BY <3>1, <3>2
  <2>4. StampedBest(u)'
    BY <1>2, <1>4, <1>7, <2>1 DEF Stamped, StampedBest, Best
  <2>5. Propagated(u)'
    <3> SUFFICES ASSUME u \in Restamps, Passed(u) > 0, NEW id \in DOMAIN View(u)'.addresses,
                        Speaks(1, db.grao, View(u)'.addresses[id].key)
                 PROVE  View(u)'.addresses[id].district =
                            Says(1, db.grao, View(u)'.addresses[id].key)
      BY <1>4, <2>1 DEF Propagated
    <3> DEFINE row == own[t].addresses[id]
    <3>1. CASE id \notin DOMAIN own[t].addresses
      BY <1>2, <1>5, <3>1 DEF Stamped, Propagated
    <3>2. CASE id \in DOMAIN own[t].addresses
      <4>1. View(u)'.addresses[id] = row /\ View(t).addresses[id] = row
            /\ id \in DOMAIN View(t).addresses
        BY <1>5, <2>2, <3>2
      <4> SUFFICES row.district = Says(1, db.grao, row.key)
        BY <4>1
      <4>2. Speaks(1, db.grao, row.key) /\ 1 \in 1 .. Passed(t)
        BY <2>1, <4>1
      <4>3. row.district # NoDistrict
        BY <1>2, <4>1, <4>2 DEF Stamped, Unspoken
      <4>4. CASE id \in DOMAIN db.addresses /\ row.district = db.addresses[id].district
        <5>1. row.key = db.addresses[id].key
          BY <3>2, <4>4, CommitOthers DEF SameKeys, StampsInv
        <5>2. View(u).addresses[id] = db.addresses[id] /\ id \in DOMAIN View(u).addresses
          BY <1>5, <3>2, <4>4, ViewIs
        <5> QED
          BY <1>2, <4>2, <4>4, <5>1, <5>2 DEF Stamped, Propagated
      <4>5. CASE id \in DOMAIN db.addresses => row.district # db.addresses[id].district
        <5>1. PICK n \in 1 .. Passed(t) : Best(n, row.key, row.district)
          BY <1>2, <3>2, <4>3, <4>5 DEF Stamped, StampedBest
        <5>2. n = 1
          <6>1. n # 1 => 1 \in 1 .. n - 1
            BY <2>1, <5>1
          <6> QED
            BY <4>2, <5>1, <6>1 DEF Best
        <5> QED
          BY <5>1, <5>2 DEF Best
      <4> QED
        BY <4>4, <4>5
    <3> QED
      BY <3>1, <3>2
  <2> QED
    BY <2>3, <2>4, <2>5 DEF Stamped
<1> QED
  BY <1>1, <1>8, <1>9

LEMMA StampsInductive ==
    ASSUME StampsInv, [Next]_vars
    PROVE  StampsInv'
<1>1. TablesInv' /\ OneRowInv
  BY TablesInductive DEF StampsInv, TablesInv
<1>2. CASE Publish \/ UNCHANGED vars
  <2>1. \A t \in Txns : Stamped(t)'
    BY <1>2, AddressesKeep DEF StampsInv, Publish, vars, Passed
  <2> QED
    BY <1>1, <2>1 DEF StampsInv
<1>3. ASSUME NEW t \in Txns, Step(t) \/ Fail(t) \/ EndDeadlock(t)
      PROVE  \A u \in Txns : Stamped(u)'
  <2>1. Stamped(t)
    BY DEF StampsInv
  <2>2. ASSUME Still(t), own'[t].addresses = own[t].addresses, Passed(t)' = Passed(t)
        PROVE  \A u \in Txns : Stamped(u)'
    BY <2>1, <2>2, AddressesKeep, OthersStamped DEF Still
  <2>3. ASSUME Fetch(t) \/ BeginRestamp(t) \/ BeginReload(t) \/ PrefetchAddresses(t)
                \/ SelectCandidates(t) \/ ReadDistrict(t) \/ ReloadGrao(t)
        PROVE  \A u \in Txns : Stamped(u)'
    <3>1. /\ Still(t) /\ own'[t] = own[t]
          /\ \/ pc[t] \in {"candidates", "institutions"} /\ pc'[t] \in {"institutions", "set_district"}
             \/ /\ pc[t] \in {"start", "upsert", "truncate"}
                /\ pc'[t] \in {"upsert", "tier1", "truncate", "insert", "loaded"}
      <4>1. CASE Fetch(t)
        BY <1>1, <4>1, FetchDoes DEF SameRows
      <4>2. CASE BeginRestamp(t) \/ BeginReload(t)
        BY <1>1, <4>2, BeginDoes DEF SameRows
      <4>3. CASE PrefetchAddresses(t)
        BY <1>1, <4>3, PrefetchDoes DEF SameRows
      <4>4. CASE SelectCandidates(t) \/ ReloadGrao(t)
        BY <1>1, <4>4, SelectCandidatesDoes, ReloadDoes DEF SameRows
      <4>5. CASE ReadDistrict(t)
        <5>1. Still(t) /\ SameRows(t) /\ pc[t] = "institutions"
              /\ pc'[t] \in {"institutions", "set_district"}
          BY <1>1, <4>5, ReadDistrictDoes
        <5> QED
          BY <5>1 DEF SameRows
      <4> QED
        BY <2>3, <4>1, <4>2, <4>3, <4>4, <4>5
    <3>2. Passed(t)' = Passed(t)
      <4>1. CASE pc[t] \in {"candidates", "institutions"}
        BY <3>1, <4>1 DEF Passed, AfterTiers
      <4>2. CASE pc[t] \notin {"candidates", "institutions"}
        BY <3>1, <4>2 DEF Passed, AfterTiers
      <4> QED
        BY <4>1, <4>2
    <3>3. own'[t].addresses = own[t].addresses
      BY <3>1
    <3> QED
      BY <2>2, <3>1, <3>2, <3>3
  <2>4. ASSUME UpsertInstitution(t) \/ UpsertStreet(t) \/ InsertEdges(t) \/ SetDistrict(t)
        PROVE  \A u \in Txns : Stamped(u)'
    <3>1. /\ Still(t) /\ own'[t].addresses = own[t].addresses
          /\ \/ pc[t] = "set_district" /\ pc'[t] = "institutions"
             \/ pc[t] \in {"upsert", "edges"} /\ pc'[t] \in {"upsert", "tier1"}
      BY <1>1, <2>4, UpsertInstitutionDoes, UpsertStreetDoes, InsertEdgesDoes, SetDistrictDoes
    <3> QED
      BY <2>2, <3>1 DEF Passed, AfterTiers
  <2>5. CASE InsertAddresses(t)
    BY <1>1, <2>5, InsertDoes, InsertStamped, OthersStamped
  <2>6. CASE StampTier(t)
    BY <1>1, <2>6, StampTierDoes, TierStamped, OthersStamped
  <2>7. CASE StampSettlements(t)
    BY <1>1, <2>7, StampSettlementsDoes, SettlementsStamped, OthersStamped
  <2>8. CASE Commit(t)
    BY <2>8, CommitStamped
  <2>9. CASE Rollback(t)
    <3>1. Still(t) /\ own'[t] = Nothing /\ pc'[t] = "failed"
      BY <1>1, <2>9, RollbackDoes
    <3>2. Passed(t)' = 0 /\ DOMAIN own'[t].addresses = {}
      BY <3>1, NothingIs DEF Passed, AfterTiers
    <3>3. Stamped(t)'
      BY <3>2 DEF Stamped, Unspoken, StampedBest, Propagated
    <3> QED
      BY <3>1, <3>3, OthersStamped
  <2> QED
    BY <1>3, <2>3, <2>4, <2>5, <2>6, <2>7, <2>8, <2>9 DEF Step, Fail, EndDeadlock
<1> QED
  BY <1>1, <1>2, <1>3 DEF Next, StampsInv

LEMMA StampsInit ==
    ASSUME Init
    PROVE  StampsInv
<1>1. \A t \in Txns : own[t] = Nothing /\ pc[t] = "start"
  BY DEF Init
<1>2. \A t \in Txns : Passed(t) = 0 /\ DOMAIN own[t].addresses = {}
  BY <1>1, NothingIs DEF Passed, AfterTiers
<1>3. \A t \in Txns : Stamped(t)
  BY <1>2 DEF Stamped, Unspoken, StampedBest, Propagated
<1> QED
  BY <1>3, TablesInit DEF StampsInv

LEMMA StampsMean ==
    ASSUME StampsInv
    PROVE  StampsAreBestTier /\ RestampPropagates
<1>1. ASSUME NEW t \in Stampers,
             pc[t] \in {"settlements", "candidates", "institutions", "set_district"}
      PROVE  Passed(t) = 3 /\ Stamped(t)
  BY <1>1 DEF Passed, AfterTiers, StampsInv, Txns
<1>2. StampsAreBestTier
  <2> SUFFICES ASSUME NEW t \in Stampers,
                      pc[t] \in {"settlements", "candidates", "institutions", "set_district"},
                      NEW id \in DOMAIN own[t].addresses,
                      own[t].addresses[id].district # NoDistrict,
                      id \in DOMAIN db.addresses =>
                            own[t].addresses[id].district # db.addresses[id].district
               PROVE  own[t].addresses[id].district = Lookup(db.grao, own[t].addresses[id].key)
    BY DEF StampsAreBestTier
  <2>1. Passed(t) = 3 /\ StampedBest(t)
    BY <1>1 DEF Stamped
  <2>2. PICK n \in 1 .. 3 : Best(n, own[t].addresses[id].key, own[t].addresses[id].district)
    BY <2>1 DEF StampedBest
  <2> QED
    BY <2>2, LookupIs DEF Best
<1>3. RestampPropagates
  BY <1>1 DEF RestampPropagates, Stamped, Propagated, Stampers
<1> QED
  BY <1>2, <1>3

(* _stamp_addresses: whoever else runs, a district a transaction stamps is  *)
(* that of the most exact tier that speaks, all three tiers reading the     *)
(* same classifier.                                                         *)
THEOREM AlwaysBestTier == Spec => []StampsAreBestTier
BY StampsInit, StampsInductive, StampsMean, PTL DEF Spec

(* From its tiers to its end, a restamp sees no address that ГРАО lists     *)
(* exactly with another district, though ingests commit meanwhile.          *)
THEOREM AlwaysPropagated == Spec => []RestampPropagates
BY StampsInit, StampsInductive, StampsMean, PTL DEF Spec

-----------------------------------------------------------------------------
(* What the institutions pass leaves.                                       *)

\* The rows and edges t sees are those it saw.
LEMMA SeenKeeps ==
    ASSUME NEW t \in Txns, SeenBare(t), db' = db, own'[t] = own[t], pc'[t] = pc[t],
           mem'[t].candidates = mem[t].candidates, mem'[t].chosen = mem[t].chosen
    PROVE  SeenBare(t)'
<1>1. View(t)' = View(t)
  BY DEF View
<1> QED
  BY <1>1 DEF SeenBare, Bare

LEMMA OthersSeen ==
    ASSUME BareInv, NEW t \in Txns, Still(t), SeenBare(t)'
    PROVE  NoneBare' /\ \A u \in Txns : SeenBare(u)'
<1>1. NoneBare'
  BY DEF BareInv, Still, NoneBare, Bare
<1>2. ASSUME NEW u \in Txns \ {t}
      PROVE  SeenBare(u)'
  <2>1. /\ SeenBare(u) /\ db' = db /\ own'[u] = own[u] /\ pc'[u] = pc[u]
        /\ mem'[u].candidates = mem[u].candidates /\ mem'[u].chosen = mem[u].chosen
    BY DEF BareInv, Still
  <2> QED
    BY <2>1, SeenKeeps
<1> QED
  BY <1>1, <1>2

LEMMA SelectSeen ==
    ASSUME BareInv, NEW t \in Txns, SelectCandidates(t)
    PROVE  SeenBare(t)'
<1> DEFINE rows == View(t).institutions
<1>1. /\ Still(t) /\ own'[t] = own[t]
      /\ mem'[t].candidates = {[institution |-> k, address |-> rows[k].address] : k \in
            {x \in DOMAIN rows \ Nurseries :
                t \in Restamps \/ rows[x].district = NoDistrict}}
  BY SelectCandidatesDoes DEF BareInv, StampsInv, TablesInv, SameRows
<1>2. View(t)'.institutions = rows
  BY <1>1 DEF View, Still
<1> HIDE DEF rows
<1>3. ASSUME NEW k \in DOMAIN rows \ Nurseries, rows[k].district = NoDistrict
      PROVE  \E c \in mem'[t].candidates : c.institution = k
  <2>1. [institution |-> k, address |-> rows[k].address] \in mem'[t].candidates
    BY <1>1, <1>3
  <2> QED
    BY <2>1
<1> QED
  BY <1>2, <1>3 DEF SeenBare

LEMMA ReadSeen ==
    ASSUME BareInv, NEW t \in Txns, ReadDistrict(t)
    PROVE  SeenBare(t)'
<1>1. PICK c \in mem[t].candidates :
        LET d == DistrictOf(View(t), c)
        IN  /\ Still(t) /\ SameRows(t) /\ pc[t] = "institutions"
            /\ pc'[t] = IF d = NoDistrict THEN "institutions" ELSE "set_district"
            /\ mem'[t].candidates = mem[t].candidates \ {c}
            /\ mem'[t].chosen = [institution |-> c.institution, district |-> d]
  BY ReadDistrictDoes DEF BareInv, StampsInv, TablesInv
<1> DEFINE d == DistrictOf(View(t), c)
<1>2. d = NoDistrict => Bare(View(t), c.institution)
  <2>1. d = NoDistrict => Majority(Catchment(View(t), c.institution)) = NoDistrict
    BY DEF DistrictOf
  <2> QED
    BY <2>1, ViewCatchment DEF BareInv, StampsInv
<1> HIDE DEF d
<1>3. /\ pc[t] = "institutions" /\ mem'[t].candidates = mem[t].candidates \ {c}
      /\ mem'[t].chosen.institution = c.institution
      /\ d # NoDistrict => pc'[t] = "set_district"
  BY <1>1 DEF d
<1>4. View(t)'.institutions = View(t).institutions /\ View(t)'.addresses = View(t).addresses
      /\ View(t)'.edges = View(t).edges
  BY <1>1 DEF View, Still, SameRows
<1>5. SeenBare(t)
  BY DEF BareInv
<1>6. \A k : Bare(View(t), k) => Bare(View(t), k)'
  BY <1>4 DEF Bare
<1>7. ASSUME NEW k \in DOMAIN View(t).institutions \ Nurseries,
             View(t).institutions[k].district = NoDistrict
      PROVE  \/ \E x \in mem'[t].candidates : x.institution = k
             \/ pc'[t] = "set_district" /\ mem'[t].chosen.institution = k
             \/ Bare(View(t), k)
  <2>1. CASE c.institution = k
    BY <1>2, <1>3, <2>1
  <2>2. CASE c.institution # k
    BY <1>3, <1>5, <1>7, <2>2 DEF SeenBare
  <2> QED
    BY <2>1, <2>2
<1> QED
  BY <1>4, <1>6, <1>7 DEF SeenBare

LEMMA SetDistrictSeen ==
    ASSUME BareInv, NEW t \in Txns, SetDistrict(t)
    PROVE  SeenBare(t)'
<1> DEFINE k0 == mem[t].chosen.institution
           row == [View(t).institutions[k0] EXCEPT !.district = mem[t].chosen.district]
<1>1. /\ Still(t) /\ SameMind(t) /\ pc[t] = "set_district" /\ pc'[t] = "institutions"
      /\ own'[t].institutions = Over([x \in {k0} |-> row], own[t].institutions)
      /\ own'[t].addresses = own[t].addresses /\ own'[t].edges = own[t].edges
  BY SetDistrictDoes DEF BareInv, StampsInv, TablesInv
<1>2. k0 \in DOMAIN View(t).institutions /\ mem[t].chosen.district \in Districts /\ SeenBare(t)
  BY <1>1 DEF BareInv, StampsInv, TablesInv, Mine, CandidatesTyped
<1>3. row.district # NoDistrict
  <2>1. View(t).institutions[k0] \in InstitutionRow
    BY <1>2, ViewSound DEF BareInv, StampsInv
  <2> QED
    BY <1>2, <2>1, RulesAssumption DEF InstitutionRow, NoDistrict
<1> HIDE DEF row
<1>4. /\ DOMAIN own'[t].institutions = {k0} \cup DOMAIN own[t].institutions
      /\ own'[t].institutions[k0] = row
      /\ \A k \in DOMAIN own[t].institutions \ {k0} :
            own'[t].institutions[k] = own[t].institutions[k]
  BY <1>1 DEF Over
<1>5. /\ DOMAIN View(t).institutions = DOMAIN own[t].institutions \cup DOMAIN db.institutions
      /\ \A k \in DOMAIN View(t).institutions : View(t).institutions[k] =
            IF k \in DOMAIN own[t].institutions THEN own[t].institutions[k] ELSE db.institutions[k]
  BY ViewIs
<1>6. /\ DOMAIN View(t)'.institutions = DOMAIN own'[t].institutions \cup DOMAIN db.institutions
      /\ \A k \in DOMAIN View(t)'.institutions : View(t)'.institutions[k] =
            IF k \in DOMAIN own'[t].institutions THEN own'[t].institutions[k] ELSE db.institutions[k]
  BY <1>1, ViewIsNext DEF Still
<1>7. /\ DOMAIN View(t)'.institutions = DOMAIN View(t).institutions
      /\ View(t)'.institutions[k0] = row
      /\ \A k \in DOMAIN View(t).institutions \ {k0} :
            View(t)'.institutions[k] = View(t).institutions[k]
  BY <1>2, <1>4, <1>5, <1>6
<1>8. \A k : Bare(View(t), k) => Bare(View(t), k)'
  <2>1. View(t)'.addresses = View(t).addresses /\ View(t)'.edges = View(t).edges
    BY <1>1 DEF View, Still
  <2> QED
    BY <2>1 DEF Bare
<1>9. mem'[t].candidates = mem[t].candidates
  BY <1>1 DEF SameMind
<1>10. ASSUME NEW k \in DOMAIN View(t)'.institutions \ Nurseries,
              View(t)'.institutions[k].district = NoDistrict
       PROVE  (\E c \in mem'[t].candidates : c.institution = k) \/ Bare(View(t), k)'
  <2>1. k # k0
    BY <1>3, <1>7, <1>10
  <2>2. k \in DOMAIN View(t).institutions /\ View(t).institutions[k].district = NoDistrict
    BY <1>7, <1>10, <2>1
  <2> QED
    BY <1>1, <1>2, <1>8, <1>9, <1>10, <2>1, <2>2 DEF SeenBare
<1> QED
  BY <1>10 DEF SeenBare

\* Of two transactions past their tiers, neither has stamped an address the
\* other has found without a district.
LEMMA NoneStampsMore ==
    ASSUME StampsInv, NEW t \in Txns, NEW u \in Txns \ {t}, Passed(t) = 3, Passed(u) = 3,
           NEW id \in DOMAIN own[t].addresses \cap DOMAIN db.addresses,
           id \in DOMAIN own[u].addresses \/ View(u).addresses[id].district = NoDistrict,
           db.addresses[id].district = NoDistrict
    PROVE  own[t].addresses[id].district = NoDistrict
<1>1. id \notin DOMAIN own[u].addresses
  BY DEF StampsInv, TablesInv, Distinct
<1>2. own[t].addresses[id].key = db.addresses[id].key
  BY DEF StampsInv, TablesInv, OneRowInv, Single, SameKeys
<1>3. View(u).addresses[id] = db.addresses[id] /\ id \in DOMAIN View(u).addresses
  BY <1>1, ViewIs
<1>4. \A n \in 1 .. 3 : ~Speaks(n, db.grao, db.addresses[id].key)
  BY <1>3 DEF StampsInv, Stamped, Unspoken
<1>5. ASSUME own[t].addresses[id].district # NoDistrict
      PROVE  \E n \in 1 .. 3 : Best(n, own[t].addresses[id].key, own[t].addresses[id].district)
  BY <1>5 DEF StampsInv, Stamped, StampedBest
<1> QED
  BY <1>2, <1>4, <1>5 DEF Best

LEMMA CommitSeen ==
    ASSUME BareInv, NEW t \in Txns, Commit(t), NEW u \in Txns
    PROVE  SeenBare(u)'
<1>1. /\ pc[t] = "loaded" \/ (pc[t] = "institutions" /\ mem[t].candidates = {})
      /\ pc'[t] = "committed"
  BY CommitDoes DEF BareInv, StampsInv, TablesInv
<1>2. CASE u = t
  BY <1>1, <1>2 DEF SeenBare
<1> SUFFICES ASSUME u # t
             PROVE  SeenBare(u)'
  BY <1>2
<1>3. /\ Distinct(t, u) /\ pc'[u] = pc[u] /\ mem'[u] = mem[u]
      /\ DOMAIN View(u)'.addresses = DOMAIN View(u).addresses \cup DOMAIN own[t].addresses
      /\ \A id \in DOMAIN View(u).addresses : id \notin DOMAIN own[t].addresses =>
                View(u)'.addresses[id] = View(u).addresses[id]
      /\ \A id \in DOMAIN own[t].addresses : /\ id \notin DOMAIN own[u].addresses
                                            /\ View(u)'.addresses[id] = own[t].addresses[id]
      /\ DOMAIN View(u)'.institutions =
            DOMAIN View(u).institutions \cup DOMAIN own[t].institutions
      /\ \A k \in DOMAIN View(u).institutions \ DOMAIN own[t].institutions :
            View(u)'.institutions[k] = View(u).institutions[k]
      /\ \A k \in DOMAIN own[t].institutions : View(u)'.institutions[k] = own[t].institutions[k]
      /\ View(u)'.edges = View(u).edges \cup own[t].edges
  BY CommitOthers DEF BareInv, StampsInv
<1> SUFFICES ASSUME pc[u] \in {"institutions", "set_district"},
                    NEW k \in DOMAIN View(u)'.institutions \ Nurseries,
                    View(u)'.institutions[k].district = NoDistrict
             PROVE  \/ \E c \in mem[u].candidates : c.institution = k
                    \/ pc[u] = "set_district" /\ mem[u].chosen.institution = k
                    \/ Bare(View(u), k)'
  BY <1>3 DEF SeenBare
<1>4. Passed(u) = 3 /\ SeenBare(u) /\ SeenBare(t)
  BY DEF Passed, AfterTiers, BareInv
<1>5. pc[t] = "institutions" /\ mem[t].candidates = {} /\ Passed(t) = 3
  BY <1>1, <1>4 DEF BareInv, StampsInv, TablesInv, Exclusive, Passed, AfterTiers
<1>6. EdgesOwned(t) /\ EdgesOwned(u)
  BY DEF BareInv, StampsInv, TablesInv, Mine
<1>7. /\ DOMAIN View(u).addresses = DOMAIN own[u].addresses \cup DOMAIN db.addresses
      /\ \A id \in DOMAIN View(u).addresses : View(u).addresses[id] =
            IF id \in DOMAIN own[u].addresses THEN own[u].addresses[id] ELSE db.addresses[id]
      /\ View(u).edges = own[u].edges \cup db.edges
  BY ViewIs
<1>8. /\ DOMAIN View(t).addresses = DOMAIN own[t].addresses \cup DOMAIN db.addresses
      /\ \A id \in DOMAIN View(t).addresses : View(t).addresses[id] =
            IF id \in DOMAIN own[t].addresses THEN own[t].addresses[id] ELSE db.addresses[id]
      /\ View(t).edges = own[t].edges \cup db.edges
      /\ DOMAIN View(t).institutions = DOMAIN own[t].institutions \cup DOMAIN db.institutions
      /\ \A x \in DOMAIN own[t].institutions : View(t).institutions[x] = own[t].institutions[x]
  BY ViewIs
<1>9. /\ \A e \in View(t).edges : e[1] \in DOMAIN View(t).addresses
      /\ \A e \in View(u).edges : e[1] \in DOMAIN View(u).addresses
  BY ViewSound DEF BareInv, StampsInv
<1>10. CASE k \in DOMAIN own[t].institutions
  <2>1. Bare(View(t), k)
    <3>1. View(t).institutions[k].district = NoDistrict /\ k \in DOMAIN View(t).institutions
      BY <1>3, <1>8, <1>10
    <3> QED
      BY <1>4, <1>5, <3>1 DEF SeenBare
  <2> SUFFICES ASSUME NEW e \in View(u)'.edges, e[2] = k
               PROVE  View(u)'.addresses[e[1]].district = NoDistrict
    BY DEF Bare
  <2>2. e \in View(t).edges
    BY <1>3, <1>6, <1>7, <1>8, <1>10 DEF EdgesOwned, Distinct
  <2>3. e[1] \in DOMAIN View(t).addresses /\ View(t).addresses[e[1]].district = NoDistrict
    BY <1>9, <2>1, <2>2 DEF Bare
  <2>4. CASE e[1] \in DOMAIN own[t].addresses
    BY <1>3, <1>8, <2>3, <2>4
  <2>5. CASE e[1] \notin DOMAIN own[t].addresses
    <3>1. e[1] \in DOMAIN db.addresses /\ View(t).addresses[e[1]] = db.addresses[e[1]]
      BY <1>8, <2>3, <2>5
    <3>2. e[1] \in DOMAIN own[u].addresses => own[u].addresses[e[1]].district = NoDistrict
      BY <1>4, <1>5, <2>3, <3>1, NoneStampsMore DEF BareInv
    <3>3. View(u)'.addresses[e[1]] = View(u).addresses[e[1]] /\ e[1] \in DOMAIN View(u).addresses
      BY <1>3, <1>7, <2>5, <3>1
    <3> QED
      BY <1>7, <2>3, <3>1, <3>2, <3>3
  <2> QED
    BY <2>4, <2>5
<1>11. CASE k \notin DOMAIN own[t].institutions
  <2>1. k \in DOMAIN View(u).institutions /\ View(u).institutions[k].district = NoDistrict
    BY <1>3, <1>11
  <2> SUFFICES ASSUME Bare(View(u), k)
               PROVE  Bare(View(u), k)'
    BY <1>4, <2>1 DEF SeenBare
  <2> SUFFICES ASSUME NEW e \in View(u)'.edges, e[2] = k
               PROVE  View(u)'.addresses[e[1]].district = NoDistrict
    BY DEF Bare
  <2>2. e \in View(u).edges
    BY <1>3, <1>6, <1>11 DEF EdgesOwned
  <2>3. e[1] \in DOMAIN View(u).addresses /\ View(u).addresses[e[1]].district = NoDistrict
    BY <1>9, <2>2 DEF Bare
  <2>4. CASE e[1] \notin DOMAIN own[t].addresses
    BY <1>3, <2>3, <2>4
  <2>5. CASE e[1] \in DOMAIN own[t].addresses
    <3>1. e[1] \in DOMAIN db.addresses /\ View(u).addresses[e[1]] = db.addresses[e[1]]
      BY <1>3, <1>7, <2>3, <2>5
    <3>2. own[t].addresses[e[1]].district = NoDistrict
      BY <1>4, <1>5, <2>3, <2>5, <3>1, NoneStampsMore DEF BareInv
    <3> QED
      BY <1>3, <2>5, <3>2
  <2> QED
    BY <2>4, <2>5
<1> QED
  BY <1>10, <1>11

LEMMA CommitBare ==
    ASSUME BareInv, NEW t \in Txns, Commit(t)
    PROVE  NoneBare'
<1>1. /\ pc[t] = "loaded" \/ (pc[t] = "institutions" /\ mem[t].candidates = {})
      /\ db' = View(t)
  BY CommitDoes DEF BareInv, StampsInv, TablesInv
<1>2. CASE pc[t] = "institutions"
  BY <1>1, <1>2 DEF BareInv, SeenBare, NoneBare, Bare
<1>3. CASE pc[t] = "loaded"
  <2>1. own[t] = Nothing
    <3>1. Role(t) /\ Idle(t)
      BY DEF BareInv, StampsInv, TablesInv, Mine
    <3> QED
      BY <1>3, <3>1 DEF Role, Idle
  <2>2. /\ DOMAIN db'.institutions = DOMAIN db.institutions
        /\ \A k \in DOMAIN db.institutions : db'.institutions[k] = db.institutions[k]
        /\ \A id \in DOMAIN db.addresses : db'.addresses[id] = db.addresses[id]
        /\ db'.edges = db.edges
    <3>1. /\ DOMAIN View(t).institutions = DOMAIN own[t].institutions \cup DOMAIN db.institutions
          /\ \A k \in DOMAIN View(t).institutions : View(t).institutions[k] =
                IF k \in DOMAIN own[t].institutions THEN own[t].institutions[k]
                ELSE db.institutions[k]
          /\ DOMAIN View(t).addresses = DOMAIN own[t].addresses \cup DOMAIN db.addresses
          /\ \A id \in DOMAIN View(t).addresses : View(t).addresses[id] =
                IF id \in DOMAIN own[t].addresses THEN own[t].addresses[id] ELSE db.addresses[id]
          /\ View(t).edges = own[t].edges \cup db.edges
      BY ViewIs
    <3> QED
      BY <1>1, <2>1, <3>1, NothingIs
  <2>3. \A e \in db.edges : e[1] \in DOMAIN db.addresses
    BY DEF BareInv, StampsInv, TablesInv, Sound
  <2> QED
    BY <2>2, <2>3 DEF BareInv, NoneBare, Bare
<1> QED
  BY <1>1, <1>2, <1>3

LEMMA BareInductive ==
    ASSUME BareInv, [Next]_vars
    PROVE  BareInv'
<1>1. StampsInv' /\ TablesInv
  BY StampsInductive DEF BareInv, StampsInv
<1>2. OneRowInv
  BY <1>1 DEF TablesInv
<1>3. CASE Publish \/ UNCHANGED vars
  <2>1. \A t \in Txns : SeenBare(t)'
    BY <1>3, SeenKeeps DEF BareInv, Publish, vars
  <2>2. NoneBare'
    BY <1>3 DEF BareInv, NoneBare, Bare, Publish, vars
  <2> QED
    BY <1>1, <2>1, <2>2 DEF BareInv
<1>4. ASSUME NEW t \in Txns, Step(t) \/ Fail(t) \/ EndDeadlock(t)
      PROVE  NoneBare' /\ \A u \in Txns : SeenBare(u)'
  <2>1. ASSUME Still(t), pc'[t] \notin {"institutions", "set_district"}
        PROVE  NoneBare' /\ \A u \in Txns : SeenBare(u)'
    <3>1. SeenBare(t)'
      BY <2>1 DEF SeenBare
    <3> QED
      BY <2>1, <3>1, OthersSeen
  <2>2. CASE Fetch(t) \/ BeginRestamp(t) \/ BeginReload(t) \/ UpsertInstitution(t)
                \/ UpsertStreet(t)
    BY <1>2, <2>1, <2>2, FetchDoes, BeginDoes, UpsertInstitutionDoes, UpsertStreetDoes
  <2>3. CASE PrefetchAddresses(t) \/ InsertAddresses(t) \/ InsertEdges(t)
    BY <1>2, <2>1, <2>3, PrefetchDoes, InsertDoes, InsertEdgesDoes
  <2>4. CASE StampTier(t) \/ StampSettlements(t)
    BY <1>2, <2>1, <2>4, StampTierDoes, StampSettlementsDoes
  <2>5. CASE ReloadGrao(t) \/ Rollback(t)
    BY <1>2, <2>1, <2>5, ReloadDoes, RollbackDoes
  <2>6. CASE SelectCandidates(t)
    BY <1>2, <2>6, SelectCandidatesDoes, SelectSeen, OthersSeen
  <2>7. CASE ReadDistrict(t)
    <3>1. Still(t)
      BY <1>2, <2>7, ReadDistrictDoes
    <3> QED
      BY <2>7, <3>1, ReadSeen, OthersSeen
  <2>8. CASE SetDistrict(t)
    BY <1>2, <2>8, SetDistrictDoes, SetDistrictSeen, OthersSeen
  <2>9. CASE Commit(t)
    BY <2>9, CommitBare, CommitSeen
  <2> QED
    BY <1>4, <2>2, <2>3, <2>4, <2>5, <2>6, <2>7, <2>8, <2>9 DEF Step, Fail, EndDeadlock
<1> QED
  BY <1>1, <1>3, <1>4 DEF BareInv, Next

LEMMA BareInit ==
    ASSUME Init
    PROVE  BareInv
<1>1. DOMAIN db.institutions = {} /\ \A t \in Txns : pc[t] = "start"
  BY DEF Init, Empty
<1> QED
  BY <1>1, StampsInit DEF BareInv, NoneBare, SeenBare

LEMMA BareMeans ==
    ASSUME BareInv
    PROVE  NoneStranded
<1>1. nextid \in Nat /\ 1 <= nextid
  BY DEF BareInv, StampsInv, TablesInv, OneRowInv, Ids
<1>2. \A e \in db.edges : e[1] \in DOMAIN db.addresses
  BY DEF BareInv, StampsInv, TablesInv, Sound
<1>3. \A id \in DOMAIN db.addresses : id \in 1 .. nextid - 1 /\ db.addresses[id] \in AddressRow
  BY DEF BareInv, StampsInv, TablesInv, Sound, WellTyped
<1>4. nextid - 1 \in Nat
  BY <1>1
<1>5. \A e \in db.edges : /\ e[1] \in 1 .. nextid - 1
                          /\ db.addresses[e[1]].district \in Districts \cup {NoDistrict}
  BY <1>2, <1>3 DEF AddressRow
<1>6. \A k : Bare(db, k) => Majority(Catchment(db, k)) = NoDistrict
  BY <1>4, <1>5, CatchmentIs
<1> QED
  BY <1>6 DEF BareInv, NoneBare, NoneStranded

(* "Order matters: addresses first": whatever runs at once, no kindergarten *)
(* or preschool is committed without a district that an address of its      *)
(* catchment has, also when two ingests have upserted it and the addresses  *)
(* in turns.                                                                *)
THEOREM NeverStranded == Spec => []NoneStranded
BY BareInit, BareInductive, BareMeans, PTL DEF Spec

-----------------------------------------------------------------------------
(* What an ingest leaves alone.  "Snapshot NULL means backend-derived for   *)
(* KG/PG": a snapshot tells the districts of nurseries only.                *)

OnlyNurseriesTold ==
    \A i \in 1 .. Len(Snapshots) :
        LET s == Snapshots[i].institutions
        IN  \A k \in ToSet(PlanInstitutions(s)) \ Nurseries : PlanRow(s, k).district = NoDistrict

KeepsInv == TablesInv /\ \A t \in Txns : KeepsStamped(t)

LEMMA KeepsKeeps ==
    ASSUME NEW t \in Txns, KeepsStamped(t), own'[t].institutions = own[t].institutions,
           Snapshot(t)' = Snapshot(t),
           \A k \in DOMAIN own[t].institutions :
                /\ k \in DOMAIN db'.institutions <=> k \in DOMAIN db.institutions
                /\ k \in DOMAIN db.institutions => db'.institutions[k] = db.institutions[k],
           \/ pc'[t] \notin {"institutions", "set_district"}
           \/ /\ pc'[t] = pc[t] /\ mem'[t].candidates = mem[t].candidates
              /\ mem'[t].chosen = mem[t].chosen
    PROVE  KeepsStamped(t)'
BY DEF KeepsStamped

LEMMA OthersKept ==
    ASSUME KeepsInv, NEW t \in Txns, Still(t), KeepsStamped(t)'
    PROVE  \A u \in Txns : KeepsStamped(u)'
<1> TAKE u \in Txns
<1>1. CASE u # t
  <2>1. /\ KeepsStamped(u) /\ db' = db /\ own'[u] = own[u] /\ pc'[u] = pc[u]
        /\ mem'[u].candidates = mem[u].candidates /\ mem'[u].chosen = mem[u].chosen
        /\ Snapshot(u)' = Snapshot(u)
    BY <1>1 DEF KeepsInv, Still, Snapshot
  <2> QED
    BY <2>1, KeepsKeeps
<1> QED
  BY <1>1

\* The COALESCE of the upsert keeps what the row has.
LEMMA UpsertKeepsStamp ==
    ASSUME OnlyNurseriesTold, KeepsInv, NEW t \in Txns, UpsertInstitution(t)
    PROVE  KeepsStamped(t)'
<1> DEFINE k0 == Head(mem[t].todo)
           plan == PlanRow(Snapshot(t), k0)
           old == IF k0 \in DOMAIN View(t).institutions
                  THEN View(t).institutions[k0].district ELSE NoDistrict
           row == [address |-> plan.address,
                   district |-> IF plan.district = NoDistrict THEN old ELSE plan.district]
<1>1. /\ Still(t) /\ pc[t] = "upsert" /\ pc'[t] = "upsert" /\ mem'[t].snapshot = mem[t].snapshot
      /\ own'[t].institutions = Over([x \in {k0} |-> row], own[t].institutions)
  BY UpsertInstitutionDoes DEF KeepsInv, TablesInv
<1>2. /\ DOMAIN own'[t].institutions = {k0} \cup DOMAIN own[t].institutions
      /\ own'[t].institutions[k0] = row
      /\ \A k \in DOMAIN own[t].institutions \ {k0} :
            own'[t].institutions[k] = own[t].institutions[k]
  BY <1>1 DEF Over
<1>3. Snapshot(t)' = Snapshot(t) /\ db' = db /\ KeepsStamped(t)
  BY <1>1 DEF Snapshot, Still, KeepsInv
<1>4. mem[t].snapshot \in 1 .. Len(Snapshots)
  BY <1>1 DEF KeepsInv, TablesInv, OneRowInv, Single, Before
<1>5. ASSUME NEW k \in (DOMAIN own'[t].institutions \cap DOMAIN db.institutions) \ Nurseries,
             k \in ToSet(PlanInstitutions(Snapshot(t))), db.institutions[k].district # NoDistrict,
             t \in Ingests
      PROVE  own'[t].institutions[k].district = db.institutions[k].district
  <2>1. CASE k # k0
    BY <1>2, <1>3, <1>5, <2>1 DEF KeepsStamped
  <2>2. CASE k = k0
    <3>1. plan.district = NoDistrict
      BY <1>4, <1>5, <2>2 DEF OnlyNurseriesTold, Snapshot
    <3>2. old = db.institutions[k].district
      <4>1. View(t).institutions[k] = IF k \in DOMAIN own[t].institutions
                THEN own[t].institutions[k] ELSE db.institutions[k]
        BY <1>5, ViewIs
      <4>2. k \in DOMAIN View(t).institutions
        BY <1>5, ViewIs
      <4>3. k \in DOMAIN own[t].institutions =>
                own[t].institutions[k].district = db.institutions[k].district
        BY <1>3, <1>5 DEF KeepsStamped
      <4> QED
        BY <2>2, <4>1, <4>2, <4>3
    <3>3. row.district = old
      BY <3>1
    <3> QED
      BY <1>2, <2>2, <3>2, <3>3
  <2> QED
    BY <2>1, <2>2
<1> QED
  BY <1>1, <1>3, <1>5 DEF KeepsStamped

LEMMA SelectKeepsStamp ==
    ASSUME KeepsInv, NEW t \in Txns, SelectCandidates(t)
    PROVE  KeepsStamped(t)'
<1> DEFINE rows == View(t).institutions
<1>1. /\ Still(t) /\ own'[t] = own[t] /\ pc'[t] = "institutions"
      /\ mem'[t].snapshot = mem[t].snapshot
      /\ mem'[t].candidates = {[institution |-> k, address |-> rows[k].address] : k \in
            {x \in DOMAIN rows \ Nurseries :
                t \in Restamps \/ rows[x].district = NoDistrict}}
  BY SelectCandidatesDoes DEF KeepsInv, TablesInv, SameRows
<1>2. Snapshot(t)' = Snapshot(t) /\ db' = db /\ KeepsStamped(t)
  BY <1>1 DEF Snapshot, Still, KeepsInv
<1>3. ASSUME NEW k \in DOMAIN own[t].institutions
      PROVE  rows[k] = own[t].institutions[k]
  BY ViewIs
<1> HIDE DEF rows
<1>4. t \in Ingests => \A c \in mem'[t].candidates : rows[c.institution].district = NoDistrict
  BY <1>1, TransactionsAssumption
<1>5. ASSUME NEW k \in (DOMAIN own[t].institutions \cap DOMAIN db.institutions) \ Nurseries,
             k \in ToSet(PlanInstitutions(Snapshot(t))), db.institutions[k].district # NoDistrict,
             t \in Ingests
      PROVE  /\ own[t].institutions[k].district = db.institutions[k].district
             /\ \A c \in mem'[t].candidates : c.institution # k
  <2>1. own[t].institutions[k].district = db.institutions[k].district
    BY <1>2, <1>5 DEF KeepsStamped
  <2> QED
    BY <1>3, <1>4, <1>5, <2>1
<1> QED
  BY <1>1, <1>2, <1>5 DEF KeepsStamped

LEMMA ReadKeepsStamp ==
    ASSUME KeepsInv, NEW t \in Txns, ReadDistrict(t)
    PROVE  KeepsStamped(t)'
<1>1. PICK c \in mem[t].candidates :
            /\ Still(t) /\ own'[t] = own[t] /\ pc[t] = "institutions"
            /\ mem'[t].snapshot = mem[t].snapshot
            /\ mem'[t].candidates \subseteq mem[t].candidates
            /\ mem'[t].chosen.institution = c.institution
  <2>1. PICK c \in mem[t].candidates :
        LET d == DistrictOf(View(t), c)
        IN  /\ Still(t) /\ SameRows(t) /\ pc[t] = "institutions"
            /\ mem'[t].snapshot = mem[t].snapshot
            /\ mem'[t].candidates = mem[t].candidates \ {c}
            /\ mem'[t].chosen = [institution |-> c.institution, district |-> d]
    BY ReadDistrictDoes DEF KeepsInv, TablesInv
  <2> QED
    BY <2>1 DEF SameRows
<1>2. Snapshot(t)' = Snapshot(t) /\ db' = db /\ KeepsStamped(t)
  BY <1>1 DEF Snapshot, Still, KeepsInv
<1> QED
  BY <1>1, <1>2 DEF KeepsStamped

\* The institution in hand is not one of those.
LEMMA SetDistrictKeepsStamp ==
    ASSUME KeepsInv, NEW t \in Txns, SetDistrict(t)
    PROVE  KeepsStamped(t)'
<1> DEFINE k0 == mem[t].chosen.institution
           row == [View(t).institutions[k0] EXCEPT !.district = mem[t].chosen.district]
<1>1. /\ Still(t) /\ mem'[t] = mem[t] /\ pc[t] = "set_district" /\ pc'[t] = "institutions"
      /\ own'[t].institutions = Over([x \in {k0} |-> row], own[t].institutions)
  BY SetDistrictDoes DEF KeepsInv, TablesInv, SameMind
<1>2. /\ DOMAIN own'[t].institutions = {k0} \cup DOMAIN own[t].institutions
      /\ \A k \in DOMAIN own[t].institutions \ {k0} :
            own'[t].institutions[k] = own[t].institutions[k]
  BY <1>1 DEF Over
<1>3. Snapshot(t)' = Snapshot(t) /\ db' = db /\ KeepsStamped(t)
  BY <1>1 DEF Snapshot, Still, KeepsInv
<1>4. t \in Ingests => ToSet(PlanInstitutions(Snapshot(t))) \subseteq DOMAIN own[t].institutions
  <2>1. InstitutionsDone(t) /\ pc[t] \in StampLabels
    BY <1>1 DEF KeepsInv, TablesInv, Mine, StampLabels, AfterTiers
  <2> QED
    BY <2>1 DEF InstitutionsDone
<1>5. ASSUME NEW k \in (DOMAIN own'[t].institutions \cap DOMAIN db.institutions) \ Nurseries,
             k \in ToSet(PlanInstitutions(Snapshot(t))), db.institutions[k].district # NoDistrict,
             t \in Ingests
      PROVE  /\ own'[t].institutions[k].district = db.institutions[k].district
             /\ \A c \in mem[t].candidates : c.institution # k
  <2>1. k \in DOMAIN own[t].institutions
    BY <1>4, <1>5
  <2>2. /\ own[t].institutions[k].district = db.institutions[k].district /\ k # k0
        /\ \A c \in mem[t].candidates : c.institution # k
    BY <1>1, <1>3, <1>5, <2>1 DEF KeepsStamped
  <2> QED
    BY <1>2, <2>1, <2>2
<1> QED
  BY <1>1, <1>3, <1>5 DEF KeepsStamped

LEMMA CommitKept ==
    ASSUME KeepsInv, NEW t \in Txns, Commit(t), NEW u \in Txns
    PROVE  KeepsStamped(u)'
<1>1. own'[t] = Nothing /\ db' = View(t)
  BY CommitDoes DEF KeepsInv, TablesInv
<1>2. CASE u = t
  BY <1>1, <1>2, NothingIs DEF KeepsStamped
<1>3. CASE u # t
  <2>1. /\ Distinct(t, u) /\ own'[u] = own[u] /\ pc'[u] = pc[u] /\ mem'[u] = mem[u]
        /\ Snapshot(u)' = Snapshot(u)
    BY <1>3, CommitOthers DEF KeepsInv
  <2>2. /\ DOMAIN db'.institutions = DOMAIN own[t].institutions \cup DOMAIN db.institutions
        /\ \A k \in DOMAIN db'.institutions : db'.institutions[k] =
            IF k \in DOMAIN own[t].institutions THEN own[t].institutions[k] ELSE db.institutions[k]
    BY <1>1, ViewIs
  <2>3. \A k \in DOMAIN own[u].institutions :
            /\ k \in DOMAIN db'.institutions <=> k \in DOMAIN db.institutions
            /\ k \in DOMAIN db.institutions => db'.institutions[k] = db.institutions[k]
    BY <2>1, <2>2 DEF Distinct
  <2> QED
    BY <2>1, <2>3, KeepsKeeps DEF KeepsInv
<1> QED
  BY <1>2, <1>3

LEMMA KeepsInductive ==
    ASSUME OnlyNurseriesTold, KeepsInv, [Next]_vars
    PROVE  KeepsInv'
<1>1. TablesInv' /\ OneRowInv
  BY TablesInductive DEF KeepsInv, TablesInv
<1>2. CASE Publish \/ UNCHANGED vars
  <2>1. \A t \in Txns : KeepsStamped(t)'
    BY <1>2 DEF KeepsInv, KeepsStamped, Snapshot, Publish, vars
  <2> QED
    BY <1>1, <2>1 DEF KeepsInv
<1>3. ASSUME NEW t \in Txns, Step(t) \/ Fail(t) \/ EndDeadlock(t)
      PROVE  \A u \in Txns : KeepsStamped(u)'
  <2>1. ASSUME Still(t), pc'[t] \notin {"institutions", "set_district"},
               own'[t].institutions = own[t].institutions, mem'[t].snapshot = mem[t].snapshot
        PROVE  \A u \in Txns : KeepsStamped(u)'
    <3>1. KeepsStamped(t) /\ Snapshot(t)' = Snapshot(t) /\ db' = db
      BY <2>1 DEF KeepsInv, Still, Snapshot
    <3>2. KeepsStamped(t)'
      BY <2>1, <3>1, KeepsKeeps
    <3> QED
      BY <2>1, <3>2, OthersKept
  <2>2. ASSUME Still(t), own'[t] = Nothing
        PROVE  \A u \in Txns : KeepsStamped(u)'
    <3>1. KeepsStamped(t)'
      BY <2>2, NothingIs DEF KeepsStamped
    <3> QED
      BY <2>2, <3>1, OthersKept
  <2>3. CASE Fetch(t) \/ BeginRestamp(t) \/ BeginReload(t)
    <3>1. Still(t) /\ own'[t] = own[t] /\ pc[t] = "start"
      BY <1>1, <2>3, FetchDoes, BeginDoes DEF SameRows
    <3>2. own[t] = Nothing
      BY <3>1 DEF KeepsInv, TablesInv, Mine, Idle, Running
    <3> QED
      BY <2>2, <3>1, <3>2
  <2>4. CASE UpsertStreet(t) \/ PrefetchAddresses(t)
    BY <1>1, <2>1, <2>4, UpsertStreetDoes, PrefetchDoes DEF SameRows
  <2>5. CASE InsertAddresses(t)
    BY <1>1, <2>1, <2>5, InsertDoes DEF Inserts
  <2>6. CASE InsertEdges(t) \/ StampTier(t) \/ StampSettlements(t) \/ ReloadGrao(t)
    BY <1>1, <2>1, <2>6, InsertEdgesDoes, StampTierDoes, StampSettlementsDoes, ReloadDoes
    DEF SameMind, SameRows
  <2>7. CASE Rollback(t)
    BY <1>1, <2>2, <2>7, RollbackDoes
  <2>8. CASE UpsertInstitution(t)
    BY <1>1, <2>8, UpsertInstitutionDoes, UpsertKeepsStamp, OthersKept
  <2>9. CASE SelectCandidates(t)
    BY <1>1, <2>9, SelectCandidatesDoes, SelectKeepsStamp, OthersKept
  <2>10. CASE ReadDistrict(t)
    <3>1. Still(t)
      BY <1>1, <2>10, ReadDistrictDoes
    <3> QED
      BY <2>10, <3>1, ReadKeepsStamp, OthersKept
  <2>11. CASE SetDistrict(t)
    BY <1>1, <2>11, SetDistrictDoes, SetDistrictKeepsStamp, OthersKept
  <2>12. CASE Commit(t)
    BY <2>12, CommitKept
  <2> QED
    BY <1>3, <2>3, <2>4, <2>5, <2>6, <2>7, <2>8, <2>9, <2>10, <2>11, <2>12
    DEF Step, Fail, EndDeadlock
<1> QED
  BY <1>1, <1>2, <1>3 DEF KeepsInv, Next

LEMMA KeepsInit ==
    ASSUME Init
    PROVE  KeepsInv
<1>1. DOMAIN db.institutions = {}
  BY DEF Init, Empty
<1> QED
  BY <1>1, TablesInit DEF KeepsInv, KeepsStamped

LEMMA KeepsMeans ==
    ASSUME KeepsInv, NEW t \in Ingests, Commit(t),
           NEW k \in ToSet(PlanInstitutions(Snapshot(t))) \ Nurseries,
           k \in DOMAIN db.institutions, db.institutions[k].district # NoDistrict
    PROVE  db'.institutions[k].district = db.institutions[k].district
<1>1. t \in Txns
  BY DEF Txns, Stampers
<1>2. /\ pc[t] = "loaded" \/ pc[t] = "institutions"
      /\ db' = View(t)
  BY <1>1, CommitDoes DEF KeepsInv, TablesInv
<1>3. Mine(t) /\ KeepsStamped(t)
  BY <1>1 DEF KeepsInv, TablesInv
<1>4. pc[t] \in StampLabels
  BY <1>2, <1>3, TransactionsAssumption DEF Mine, Role, StampLabels, AfterTiers, Stampers
<1>5. k \in DOMAIN own[t].institutions
  BY <1>3, <1>4 DEF Mine, InstitutionsDone
<1>6. db'.institutions[k] = own[t].institutions[k]
  BY <1>2, <1>5, ViewIs
<1> QED
  BY <1>3, <1>5, <1>6 DEF KeepsStamped

(* "Preserve an existing district stamp so weekly ingest stays idempotent": *)
(* as long as snapshots tell the districts of nurseries only, an ingest     *)
(* commits every kindergarten and preschool of its snapshot with the        *)
(* district it had, whatever was read before and committed since.           *)
THEOREM StampsAreKept ==
    ASSUME OnlyNurseriesTold
    PROVE  Spec => IngestKeepsStamps
<1>1. Init => KeepsInv
  BY KeepsInit
<1>2. KeepsInv /\ [Next]_vars => KeepsInv'
  BY OnlyNurseriesTold, KeepsInductive
<1>3. KeepsInv => [\A t \in Ingests : Commit(t) =>
        \A k \in ToSet(PlanInstitutions(Snapshot(t))) \ Nurseries :
            k \in DOMAIN db.institutions /\ db.institutions[k].district # NoDistrict =>
                db'.institutions[k].district = db.institutions[k].district]_vars
  BY KeepsMeans
<1> QED
  BY <1>1, <1>2, <1>3, PTL DEF Spec, IngestKeepsStamps
=============================================================================
