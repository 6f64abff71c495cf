--------------------------- MODULE CatchmentRules ---------------------------
(***************************************************************************)
(* The pure rules of the weekly ingest: what a snapshot is turned into     *)
(* before the database is touched, and which district (район) an address   *)
(* or an institution gets from the ГРАО classifier.                        *)
(*                                                                         *)
(* An address is its natural key.  A district is its two-digit code as a   *)
(* number, 0 being NULL.  The text forms a street or a number can have are *)
(* left out: an entry of a snapshot is the address it parses to, whose     *)
(* number may be too large for the table, or Unparsable.                   *)
(***************************************************************************)
EXTENDS Integers, FiniteSets, Sequences, SequencesExt

CONSTANTS
    Institutions,   \* (external_id, kind) pairs
    Nurseries,      \* those of kind nursery
    Streets,        \* raw street names
    SearchNorm,     \* the transliterated form of each, which ГРАО rows carry
    SmallIntMax,    \* the largest number_int
    Numbers,        \* number_int
    Letters,        \* number_suffix, with None
    Entrances,      \* entrance, with None
    None,           \* NULL; the empty string in a ГРАО row
    Unparsable,     \* an entry parse_street or parse_number rejects
    Districts       \* codes of the districts

ASSUME RulesAssumption ==
    /\ Nurseries \subseteq Institutions
    /\ Institutions \cap Streets = {}
    /\ SmallIntMax \in Nat /\ Numbers \subseteq 0 .. SmallIntMax
    /\ None \in Letters \cap Entrances
    /\ Districts \subseteq Nat \ {0}

NoDistrict == 0

Address == [street : Streets, number : Numbers, suffix : Letters, entrance : Entrances]

ASSUME UnparsableAssumption == Unparsable \notin Address

\* Postgres never finds two rows equal in a unique key with a NULL in it.
HasNull(a) == a.suffix = None \/ a.entrance = None

GraoRow == [norm : {SearchNorm[s] : s \in Streets}, number : Numbers, suffix : Letters,
            entrance : Entrances, district : Districts]

\* latest.json.  An entry that parses is an address, or its number is more
\* than the SMALLINT column holds; a nursery comes with its district.
Oversized == {e \in [street : Streets, number : Nat, suffix : Letters, entrance : Entrances] :
                e.number > SmallIntMax}
SnapshotRow == {row \in [institution : Institutions, address : Address \cup {None},
                         district : Districts \cup {NoDistrict},
                         entries : Seq(Address \cup Oversized \cup {Unparsable})] :
                  row.institution \in Nurseries => row.district # NoDistrict}
SnapshotFile == Seq(SnapshotRow)

-----------------------------------------------------------------------------
(* _build_plan.  A snapshot is a sequence of institutions, each with its    *)
(* fields and a sequence of entries; a dict keeps the place of a key's      *)
(* first occurrence and the value of its last.                              *)
Firsts(s) ==
    FoldLeft(LAMBDA seen, x : IF Contains(seen, x) THEN seen ELSE Append(seen, x), <<>>, s)

\* parse_number rejects what the SMALLINT column cannot hold.
ParsesAnySize(e) == e # Unparsable
Parses(e) == e # Unparsable /\ e.number <= SmallIntMax

PlanInstitutions(snapshot) ==
    Firsts([i \in DOMAIN snapshot |-> snapshot[i].institution])

PlanRow(snapshot, k) ==
    snapshot[SelectLastInSeq(snapshot, LAMBDA row : row.institution = k)]

PlanStreets(snapshot) ==
    LET entries == FlattenSeq([i \in DOMAIN snapshot |-> SelectSeq(snapshot[i].entries, Parses)])
    IN  Firsts([i \in DOMAIN entries |-> entries[i].street])

PlanEdges(snapshot) ==
    UNION {{e \in ToSet(row.entries) : Parses(e)} \X {row.institution} : row \in ToSet(snapshot)}

PlanAddresses(snapshot) == {e[1] : e \in PlanEdges(snapshot)}

\* What collecting gives: said of the snapshots a module is about, because a
\* proof cannot unfold the fold.
Collected(snapshot) ==
    /\ PlanInstitutions(snapshot) \in Seq(Institutions)
    /\ ToSet(PlanInstitutions(snapshot)) = {row.institution : row \in ToSet(snapshot)}
    /\ PlanStreets(snapshot) \in Seq(Streets)
    /\ ToSet(PlanStreets(snapshot)) = {a.street : a \in PlanAddresses(snapshot)}

-----------------------------------------------------------------------------
(* The three tiers: rows of the same street, number, suffix and entrance;   *)
(* whatever the entrance; of the same street.  A tier speaks only if its    *)
(* rows agree.                                                              *)
Matches(n, grao, a) ==
    {r \in grao :
        /\ r.norm = SearchNorm[a.street]
        /\ n <= 2 => r.number = a.number /\ r.suffix = a.suffix
        /\ n = 1 => r.entrance = a.entrance}

Speaks(n, grao, a) == \E d \in Districts : {r.district : r \in Matches(n, grao, a)} = {d}

Says(n, grao, a) == CHOOSE d \in Districts : {r.district : r \in Matches(n, grao, a)} = {d}

\* _lookup_grao_district: the first tier that speaks.
Lookup(grao, a) ==
    IF \A n \in 1 .. 3 : ~Speaks(n, grao, a) THEN NoDistrict
    ELSE Says(CHOOSE n \in 1 .. 3 : Speaks(n, grao, a) /\ \A m \in 1 .. n - 1 : ~Speaks(m, grao, a),
              grao, a)

(* The district most of a catchment is in, the smallest code of a tie.      *)
(* `rows` maps the ids of the catchment to the districts stamped on them.   *)
Majority(rows) ==
    LET count(d) == Cardinality({id \in DOMAIN rows : rows[id] = d})
        stamped == {d \in Districts : count(d) > 0}
    IN  IF stamped = {} THEN NoDistrict
        ELSE CHOOSE d \in stamped :
                \A e \in stamped : count(e) < count(d) \/ (count(e) = count(d) /\ d <= e)
=============================================================================
