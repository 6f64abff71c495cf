-------------------------- MODULE LocationEntries --------------------------
(***************************************************************************)
(* The data the location curation script works on, and the pure functions  *)
(* of scripts/institution_locations_state.py and of the seed script that   *)
(* map one form of it to another.                                          *)
(*                                                                         *)
(* A building is keyed by its institution (`kind` and `external_id`: one   *)
(* member of Pairs), its role and its address; a branch's label is folded  *)
(* into its address.  A file's contents stand for its bytes: the renderers *)
(* sort, so equal contents are equal bytes, and sha256 is taken to be      *)
(* injective.  A dict is a function whose DOMAIN is the set of its keys.   *)
(***************************************************************************)
EXTENDS Integers, FiniteSets

CONSTANTS
    Pairs,            \* institutions: a (kind, external_id) each
    Addresses,        \* address texts, stripped
    NormalForm,       \* normalise_address, as a function on Addresses
    BranchAddresses,  \* the addresses branches have
    Coords,           \* the coordinates gathering can find
    Typo,             \* a coordinate only a slip of a person's hand produces
    NoCoord,          \* the empty cells of a `no_pin` row
    NoRecord,         \* provenance None
    MaxDay            \* the last day the model counts

ASSUME EntriesAssumption ==
    /\ NormalForm \in [Addresses -> Addresses]
    /\ BranchAddresses \subseteq Addresses
    /\ {Typo, NoCoord} \cap Coords = {} /\ Typo # NoCoord
    /\ MaxDay \in Nat \ {0}

HUMAN == {"accepted", "pinned", "no_pin"}
DECIDED == {"auto"} \cup HUMAN
STATUSES == DECIDED \cup {"pending"}

MainKeys == [pair : Pairs, role : {"main"}, address : Addresses]
BranchKeys == [pair : Pairs, role : {"branch"}, address : BranchAddresses]
Keys == MainKeys \cup BranchKeys
MainKey(p, a) == [pair |-> p, role |-> "main", address |-> a]

Point == Coords \cup {Typo}
Day == 1 .. MaxDay
Record == [at : Point, seeded : Day]        \* one provenance entry
Row == [verification : {"auto"}, source : {"osm_poi"}, at : Point, on : Day]
       \cup [verification : {"human"}, source : {"osm_poi", "manual"},
             at : Point \cup {NoCoord}, on : Day]
Decision == [status : STATUSES, at : Point \cup {NoCoord}, on : Day \cup {0},
             record : Record \cup {NoRecord}]
Entry == [decision : Decision, changed : BOOLEAN]

Dicts(K, V) == UNION {[S -> V] : S \in SUBSET K}
IsDict(f, K, V) == DOMAIN f \subseteq K /\ f \in [DOMAIN f -> V]  \* f \in Dicts(K, V)
NoEntries == [k \in {} |-> NoRecord]
Without(f, S) == [x \in DOMAIN f \ S |-> f[x]]
With(f, x, v) == [y \in DOMAIN f \cup {x} |-> IF y = x THEN v ELSE f[y]]

-----------------------------------------------------------------------------
Pending == [status |-> "pending", at |-> NoCoord, on |-> 0, record |-> NoRecord]
AutoDecision(c, d) ==
    [status |-> "auto", at |-> c, on |-> d, record |-> [at |-> c, seeded |-> d]]
PendingEntry(flag) == [decision |-> Pending, changed |-> flag]

IsHuman(e) == e.decision.status \in HUMAN
IsDecided(e) == e.decision.status \in DECIDED

(* render_csv_rows: one row per decided entry, one provenance entry per     *)
(* institution with an auto row.                                            *)
RowOf(d) ==
    [verification |-> IF d.status = "auto" THEN "auto" ELSE "human",
     source |-> IF d.status \in {"auto", "accepted"} THEN "osm_poi" ELSE "manual",
     at |-> IF d.status = "no_pin" THEN NoCoord ELSE d.at,
     on |-> d.on]

RenderRows(entries) ==
    [k \in {j \in DOMAIN entries : IsDecided(entries[j])} |-> RowOf(entries[k].decision)]

AutoKeys(entries) == {k \in DOMAIN entries : entries[k].decision.status = "auto"}

RenderProvenance(entries) ==
    [p \in {k.pair : k \in AutoKeys(entries)} |->
        entries[CHOOSE k \in AutoKeys(entries) : k.pair = p].decision.record]

(* parse_rows: the checks that relate two rows, or a row and the provenance *)
(* file.  The checks of a single cell are left to the Typo coordinate.      *)
AutoRows(rows) == {k \in DOMAIN rows : rows[k].verification = "auto"}

OneMainEach(rows) ==
    \A j, k \in DOMAIN rows :
        j.role = "main" /\ k.role = "main" /\ j.pair = k.pair => j = k

Parses(rows, prov) ==
    /\ OneMainEach(rows)
    /\ \A k \in AutoRows(rows) :
        /\ k.role = "main"
        /\ k.pair \in DOMAIN prov
        /\ prov[k.pair].at = rows[k].at
    /\ DOMAIN prov \subseteq {k.pair : k \in AutoRows(rows)}

(* decisions_from_files: the decision a committed row stands for.           *)
DecisionOf(k, row, prov) ==
    [status |-> IF row.verification = "auto" THEN "auto"
                ELSE IF row.source = "osm_poi" THEN "accepted"
                ELSE IF row.at = NoCoord THEN "no_pin" ELSE "pinned",
     at |-> row.at,
     on |-> row.on,
     record |-> IF row.verification = "auto" /\ k.pair \in DOMAIN prov
                THEN prov[k.pair] ELSE NoRecord]

(* reconcile, when the committed files win: every committed row is a        *)
(* decision, local entries lend their flags and are otherwise pending.      *)
Rebuild(local, rows, prov) ==
    [k \in DOMAIN rows \cup DOMAIN local |->
        [decision |-> IF k \in DOMAIN rows THEN DecisionOf(k, rows[k], prov) ELSE Pending,
         changed |-> k \in DOMAIN local /\ local[k].changed]]

-----------------------------------------------------------------------------
(* plan_refresh and the additions main() makes to its result.  `inst` maps  *)
(* the institutions the database has to their addresses.                    *)
StaleByText(k, inst) == k.role = "main" /\ k.address # inst[k.pair]
Stale(k, inst) ==
    k.role = "main" /\ NormalForm[k.address] # NormalForm[inst[k.pair]]

Live(entries, inst) == {k \in DOMAIN entries : k.pair \in DOMAIN inst}
CurrentOrHuman(entries, inst) ==
    {k \in Live(entries, inst) : IsHuman(entries[k]) \/ ~Stale(k, inst)}
Current(entries, inst) == {k \in Live(entries, inst) : ~Stale(k, inst)}

KeptKeys(entries, inst) == {k \in Current(entries, inst) : IsHuman(entries[k])}

\* The keys of the entries that replace those of a moved institution.
MovedKeys(entries, inst) ==
    {MainKey(k.pair, inst[k.pair]) : k \in Live(entries, inst) \ Current(entries, inst)}
        \ KeptKeys(entries, inst)

PlanRefreshByVisit(entries, inst) ==
    [k \in (Current(entries, inst) \ KeptKeys(entries, inst)) \cup MovedKeys(entries, inst) |->
        [decision |-> Pending,
         changed |-> IF k \in DOMAIN entries THEN entries[k].changed ELSE TRUE]]
PlanRefresh(entries, inst) ==
    [k \in (Current(entries, inst) \ KeptKeys(entries, inst)) \cup MovedKeys(entries, inst) |->
        [decision |-> Pending,
         changed |-> \/ k \in MovedKeys(entries, inst)
                     \/ k \in DOMAIN entries /\ entries[k].changed]]

\* Every institution has a main entry under its present address text.
MissingMains(known, inst) ==
    {MainKey(p, inst[p]) : p \in DOMAIN inst} \ known

(* Everything one run will gather, given the free-places inventory of       *)
(* branches and whether it is long enough to retire the branches it omits.  *)
ToGather(entries, inst, inventory, full) ==
    LET plan == PlanRefresh(entries, inst)
        retired == IF full THEN BranchKeys \ inventory ELSE {}
        held == Without(plan, retired)
        new == MissingMains(DOMAIN plan \cup KeptKeys(entries, inst), inst)
               \cup {k \in inventory : /\ k.pair \in DOMAIN inst
                                       /\ k \notin DOMAIN plan \cup KeptKeys(entries, inst)}
    IN  [k \in DOMAIN held \cup new |->
            IF k \in DOMAIN held THEN held[k] ELSE PendingEntry(FALSE)]

\* gather accepts a building without a person only if no flag is raised:
\* never a branch, never a moved institution.
Acceptable(gathering) ==
    {k \in DOMAIN gathering : k.role = "main" /\ ~gathering[k].changed}

(* The entries a run saves: the kept ones, and the gathered ones with what  *)
(* the network had to say (NoCoord: some rule did not hold).                *)
GatheredUnchosen(entries, inst, inventory, full, gathering, found, today) ==
    LET kept == KeptKeys(entries, inst) \ (IF full THEN BranchKeys \ inventory ELSE {})
    IN  [k \in kept \cup DOMAIN gathering |->
            IF k \in kept THEN entries[k]
            ELSE IF k \in Acceptable(gathering)
            THEN [gathering[k] EXCEPT !.decision = AutoDecision(found[k], today)]
            ELSE gathering[k]]
Gathered(entries, inst, inventory, full, gathering, found, today) ==
    LET kept == KeptKeys(entries, inst) \ (IF full THEN BranchKeys \ inventory ELSE {})
    IN  [k \in kept \cup DOMAIN gathering |->
            IF k \in kept THEN entries[k]
            ELSE IF k \in Acceptable(gathering) /\ found[k] # NoCoord
            THEN [gathering[k] EXCEPT !.decision = AutoDecision(found[k], today)]
            ELSE gathering[k]]
=============================================================================
