------------------------ MODULE SeedLocationsProofs ------------------------
(***************************************************************************)
(* What SeedLocations keeps for every set of institutions, addresses,      *)
(* coordinates and days.  First the pure functions of LocationEntries:     *)
(* what type they return, and that what one run gathers passes the checks  *)
(* of parse_rows as long as no two address texts normalise to the same     *)
(* form.  Then type correctness; that the writer accepts what it saves;    *)
(* that a crash at any step leaves files the next run can load; and that   *)
(* it never writes over files that people corrupted.  Then the three files *)
(* together: a clean candidates file says what the committed pair says; a  *)
(* person's decision is what the next run starts from, wherever the last   *)
(* ones died; a moved institution gets no row nobody looked at; and all of *)
(* it is a register that is saved and published, LocationRegister.         *)
(***************************************************************************)
EXTENDS SeedLocations, TLAPS

(* The decisions the script makes and reads back: a decided one has a date, *)
(* an `auto` one also a coordinate and the record that vouches for it.      *)
SoundDecision ==
    {d \in Decision : /\ d.status \in DECIDED => d.on \in Day
                      /\ d.status = "auto" => d.at \in Point /\ d.record \in Record}
SoundEntry == {e \in Entry : e.decision \in SoundDecision}
PendingEntries == {e \in Entry : e.decision = Pending}

\* No two address texts are one address.
TextsAreAddresses ==
    \A a, b \in Addresses : NormalForm[a] = NormalForm[b] => a = b

-----------------------------------------------------------------------------
(* Dicts: how to make one, what one gives, and the two updates of it.       *)
LEMMA DictIntro ==
    ASSUME NEW K, NEW V, NEW S \in SUBSET K, NEW f \in [S -> V]
    PROVE  f \in Dicts(K, V)
BY DEF Dicts

LEMMA DictElim ==
    ASSUME NEW K, NEW V, NEW f \in Dicts(K, V)
    PROVE  /\ DOMAIN f \subseteq K
           /\ f \in [DOMAIN f -> V]
           /\ \A x \in DOMAIN f : f[x] \in V
BY DEF Dicts

LEMMA IsDictIff ==
    ASSUME NEW K, NEW V, NEW f \in Dicts(K, V)
    PROVE  IsDict(f, K, V)
BY DictElim DEF IsDict

LEMMA NoEntriesDict ==
    ASSUME NEW K, NEW V
    PROVE  NoEntries \in Dicts(K, V)
<1>1. NoEntries \in [{} -> V]
  BY DEF NoEntries
<1> QED
  BY <1>1, DictIntro

LEMMA WithoutDict ==
    ASSUME NEW K, NEW V, NEW f \in Dicts(K, V), NEW S
    PROVE  Without(f, S) \in Dicts(K, V)
<1>1. DOMAIN f \ S \subseteq K /\ \A x \in DOMAIN f : f[x] \in V
  BY DictElim
<1>2. Without(f, S) \in [DOMAIN f \ S -> V]
  BY <1>1 DEF Without
<1> QED
  BY <1>1, <1>2, DictIntro

LEMMA WithDict ==
    ASSUME NEW K, NEW V, NEW f \in Dicts(K, V), NEW x \in K, NEW v \in V
    PROVE  With(f, x, v) \in Dicts(K, V)
<1>1. DOMAIN f \cup {x} \subseteq K /\ \A y \in DOMAIN f : f[y] \in V
  BY DictElim
<1>2. With(f, x, v) \in [DOMAIN f \cup {x} -> V]
  BY <1>1 DEF With
<1> QED
  BY <1>1, <1>2, DictIntro

-----------------------------------------------------------------------------
(* The renderers and their inverse.                                         *)
LEMMA RowOfTyped ==
    ASSUME NEW d \in SoundDecision, d.status \in DECIDED
    PROVE  RowOf(d) \in Row
<1>1. d.at \in Point \cup {NoCoord} /\ d.on \in Day
  BY DEF SoundDecision, Decision
<1>2. CASE d.status = "auto"
  <2>1. d.at \in Point
    BY <1>2 DEF SoundDecision
  <2> QED
    BY <1>1, <1>2, <2>1 DEF RowOf, Row
<1>3. CASE d.status # "auto"
  BY <1>1, <1>3 DEF RowOf, Row
<1> QED
  BY <1>2, <1>3

LEMMA RenderRowsTyped ==
    ASSUME NEW E \in Dicts(Keys, SoundEntry)
    PROVE  RenderRows(E) \in Dicts(Keys, Row)
<1> DEFINE S == {j \in DOMAIN E : IsDecided(E[j])}
<1>1. S \subseteq Keys
  BY DictElim
<1>2. ASSUME NEW k \in S PROVE RowOf(E[k].decision) \in Row
  <2>1. E[k] \in SoundEntry
    BY DictElim
  <2> QED
    BY <2>1, RowOfTyped DEF SoundEntry, IsDecided
<1>3. RenderRows(E) \in [S -> Row]
  BY <1>2 DEF RenderRows
<1> QED
  BY <1>1, <1>3, DictIntro

LEMMA RenderProvenanceTyped ==
    ASSUME NEW E \in Dicts(Keys, SoundEntry)
    PROVE  RenderProvenance(E) \in Dicts(Pairs, Record)
<1> DEFINE S == {k.pair : k \in AutoKeys(E)}
<1> DEFINE R(p) == E[CHOOSE k \in AutoKeys(E) : k.pair = p].decision.record
<1>1. \A k \in AutoKeys(E) : k \in Keys /\ E[k] \in SoundEntry /\ E[k].decision.status = "auto"
  BY DictElim DEF AutoKeys
<1>2. S \subseteq Pairs
  BY <1>1 DEF Keys, MainKeys, BranchKeys
<1>3. ASSUME NEW p \in S PROVE R(p) \in Record
  <2>1. PICK k \in AutoKeys(E) : k.pair = p
    OBVIOUS
  <2>2. (CHOOSE j \in AutoKeys(E) : j.pair = p) \in AutoKeys(E)
    BY <2>1
  <2> QED
    BY <1>1, <2>2 DEF SoundEntry, SoundDecision
<1>4. RenderProvenance(E) \in [S -> Record]
  BY <1>3 DEF RenderProvenance
<1> QED
  BY <1>2, <1>4, DictIntro

LEMMA DecisionOfTyped ==
    ASSUME NEW k, NEW row \in Row, NEW provenance \in Dicts(Pairs, Record),
           row.verification = "auto" => k.pair \in DOMAIN provenance
    PROVE  DecisionOf(k, row, provenance) \in SoundDecision
<1>1. /\ row.at \in Point \cup {NoCoord}
      /\ row.on \in Day
      /\ row.verification = "auto" => row.at \in Point
  BY DEF Row
<1>2. k.pair \in DOMAIN provenance => provenance[k.pair] \in Record
  BY DictElim
<1>3. DecisionOf(k, row, provenance) \in Decision
  BY <1>1, <1>2 DEF DecisionOf, Decision, STATUSES, DECIDED, HUMAN
<1> QED
  BY <1>1, <1>2, <1>3 DEF DecisionOf, SoundDecision

LEMMA PendingSound == Pending \in SoundDecision
BY DEF Pending, SoundDecision, Decision, STATUSES, DECIDED, HUMAN

LEMMA PendingEntrySound == PendingEntries \subseteq SoundEntry
BY PendingSound DEF PendingEntries, SoundEntry

(* reconcile rebuilds sound entries when every auto row has its record.     *)
LEMMA RebuildTyped ==
    ASSUME NEW local \in Dicts(Keys, SoundEntry), NEW rows \in Dicts(Keys, Row),
           NEW provenance \in Dicts(Pairs, Record),
           \A k \in AutoRows(rows) : k.pair \in DOMAIN provenance
    PROVE  Rebuild(local, rows, provenance) \in Dicts(Keys, SoundEntry)
<1> DEFINE D(k) == IF k \in DOMAIN rows THEN DecisionOf(k, rows[k], provenance) ELSE Pending
<1> DEFINE C(k) == k \in DOMAIN local /\ local[k].changed
<1>1. DOMAIN rows \cup DOMAIN local \subseteq Keys
  BY DictElim
<1>2. ASSUME NEW k \in DOMAIN rows \cup DOMAIN local
      PROVE  [decision |-> D(k), changed |-> C(k)] \in SoundEntry
  <2>1. D(k) \in SoundDecision
    <3>1. CASE k \in DOMAIN rows
      <4>1. rows[k] \in Row
        BY <3>1, DictElim
      <4>2. rows[k].verification = "auto" => k.pair \in DOMAIN provenance
        BY <3>1 DEF AutoRows
      <4>3. DecisionOf(k, rows[k], provenance) \in SoundDecision
        BY <4>1, <4>2, DecisionOfTyped
      <4> QED
        BY <3>1, <4>3
    <3>2. CASE k \notin DOMAIN rows
      BY <3>2, PendingSound
    <3> QED
      BY <3>1, <3>2
  <2>2. C(k) \in BOOLEAN
    <3>1. CASE k \in DOMAIN local
      <4>1. local[k] \in Entry
        BY <3>1, DictElim DEF SoundEntry
      <4> QED
        BY <4>1 DEF Entry
    <3>2. CASE k \notin DOMAIN local
      BY <3>2
    <3> QED
      BY <3>1, <3>2
  <2> HIDE DEF D, C
  <2> QED
    BY <2>1, <2>2 DEF SoundEntry, SoundDecision, Entry
<1>3. Rebuild(local, rows, provenance) \in [DOMAIN rows \cup DOMAIN local -> SoundEntry]
  BY <1>2 DEF Rebuild
<1> QED
  BY <1>1, <1>3, DictIntro

-----------------------------------------------------------------------------
(* One run: what it plans, adds and gathers.  `AtHome` says a key is of an  *)
(* institution the database has, and of the building it is in now.          *)
AtHome(k, addressing) ==
    /\ k.pair \in DOMAIN addressing
    /\ k.role = "main" => NormalForm[k.address] = NormalForm[addressing[k.pair]]

LEMMA KeyFields ==
    /\ \A k \in Keys : k.pair \in Pairs /\ k.role \in {"main", "branch"} /\ k.address \in Addresses
    /\ \A j, k \in Keys : /\ j.pair = k.pair
                          /\ j.role = k.role
                          /\ j.address = k.address
                          => j = k
    /\ \A p \in Pairs, a \in Addresses : /\ MainKey(p, a) \in Keys
                                         /\ MainKey(p, a).pair = p
                                         /\ MainKey(p, a).role = "main"
                                         /\ MainKey(p, a).address = a
    /\ \A k \in BranchKeys : k \in Keys /\ k.role = "branch"
BY EntriesAssumption DEF Keys, MainKeys, BranchKeys, MainKey

LEMMA PendingEntryTyped ==
    ASSUME NEW flag \in BOOLEAN
    PROVE  PendingEntry(flag) \in PendingEntries
BY PendingSound DEF PendingEntry, PendingEntries, Entry, SoundDecision

LEMMA KeptAtHome ==
    ASSUME NEW E \in Dicts(Keys, SoundEntry), NEW addressing \in Dicts(Pairs, Addresses)
    PROVE  \A k \in Current(E, addressing) : k \in DOMAIN E /\ k \in Keys /\ AtHome(k, addressing)
BY DictElim DEF Current, Live, Stale, AtHome

LEMMA PlanRefreshTyped ==
    ASSUME NEW E \in Dicts(Keys, SoundEntry), NEW addressing \in Dicts(Pairs, Addresses)
    PROVE  /\ PlanRefresh(E, addressing) \in Dicts(Keys, PendingEntries)
           /\ \A k \in DOMAIN PlanRefresh(E, addressing) : AtHome(k, addressing)
<1> DEFINE S == (Current(E, addressing) \ KeptKeys(E, addressing)) \cup MovedKeys(E, addressing)
<1> DEFINE C(k) == k \in MovedKeys(E, addressing) \/ (k \in DOMAIN E /\ E[k].changed)
<1>1. \A k \in MovedKeys(E, addressing) : k \in Keys /\ AtHome(k, addressing)
  <2> SUFFICES ASSUME NEW k \in MovedKeys(E, addressing)
               PROVE  k \in Keys /\ AtHome(k, addressing)
    OBVIOUS
  <2>1. PICK j \in Live(E, addressing) : k = MainKey(j.pair, addressing[j.pair])
    BY DEF MovedKeys
  <2>2. j.pair \in DOMAIN addressing /\ j.pair \in Pairs /\ addressing[j.pair] \in Addresses
    BY DictElim DEF Live
  <2> QED
    BY <2>1, <2>2, KeyFields DEF AtHome
<1>2. \A k \in S : k \in Keys /\ AtHome(k, addressing)
  BY <1>1, KeptAtHome
<1>3. \A k \in S : C(k) \in BOOLEAN
  BY DictElim DEF SoundEntry, Entry
<1>4. PlanRefresh(E, addressing) = [k \in S |-> [decision |-> Pending, changed |-> C(k)]]
  BY DEF PlanRefresh
<1> HIDE DEF C, S
<1>5. \A k \in S : [decision |-> Pending, changed |-> C(k)] \in PendingEntries
  BY <1>3, PendingSound DEF PendingEntries, Entry, SoundDecision
<1>6. PlanRefresh(E, addressing) \in [S -> PendingEntries]
  BY <1>4, <1>5
<1>7. S \subseteq Keys
  BY <1>2
<1> QED
  BY <1>2, <1>4, <1>6, <1>7, DictIntro

LEMMA ToGatherTyped ==
    ASSUME NEW E \in Dicts(Keys, SoundEntry), NEW addressing \in Dicts(Pairs, Addresses),
           NEW inventory \in SUBSET BranchKeys, NEW full \in BOOLEAN
    PROVE  /\ ToGather(E, addressing, inventory, full) \in Dicts(Keys, PendingEntries)
           /\ \A k \in DOMAIN ToGather(E, addressing, inventory, full) : AtHome(k, addressing)
<1> DEFINE plan == PlanRefresh(E, addressing)
           retired == IF full THEN BranchKeys \ inventory ELSE {}
           held == Without(plan, retired)
           new == MissingMains(DOMAIN plan \cup KeptKeys(E, addressing), addressing)
                  \cup {k \in inventory : /\ k.pair \in DOMAIN addressing
                                          /\ k \notin DOMAIN plan \cup KeptKeys(E, addressing)}
           G == ToGather(E, addressing, inventory, full)
<1>1. G = [k \in DOMAIN held \cup new |-> IF k \in DOMAIN held THEN held[k] ELSE PendingEntry(FALSE)]
  BY DEF ToGather
<1>2. /\ held \in Dicts(Keys, PendingEntries)
      /\ \A k \in DOMAIN held : AtHome(k, addressing)
  <2>1. DOMAIN held \subseteq DOMAIN plan
    BY DEF Without
  <2> QED
    BY <2>1, PlanRefreshTyped, WithoutDict
<1>3. \A k \in MissingMains(DOMAIN plan \cup KeptKeys(E, addressing), addressing) :
        k \in Keys /\ AtHome(k, addressing)
  <2> SUFFICES ASSUME NEW p \in DOMAIN addressing
               PROVE  MainKey(p, addressing[p]) \in Keys /\ AtHome(MainKey(p, addressing[p]), addressing)
    BY DEF MissingMains
  <2>1. p \in Pairs /\ addressing[p] \in Addresses
    BY DictElim
  <2> QED
    BY <2>1, KeyFields DEF AtHome
<1>4. \A k \in new : k \in Keys /\ AtHome(k, addressing)
  <2>1. \A k \in inventory : k \in Keys /\ k.role = "branch"
    BY KeyFields
  <2> QED
    BY <1>3, <2>1 DEF AtHome
<1> HIDE DEF held, new
<1>5. DOMAIN held \subseteq Keys /\ \A k \in DOMAIN held : held[k] \in PendingEntries
  BY <1>2, DictElim
<1>6. G \in [DOMAIN held \cup new -> PendingEntries]
  BY <1>1, <1>5, PendingEntryTyped
<1> QED
  BY <1>1, <1>2, <1>4, <1>5, <1>6, DictIntro

(* gather turns some pending entries into `auto` ones: only main buildings, *)
(* each with the record of the coordinate it took.                          *)
Gatherings(E) ==
    \A k \in AutoKeys(E) : k.role = "main" /\ E[k].decision.record.at = E[k].decision.at

LEMMA GatheredTyped ==
    ASSUME NEW E \in Dicts(Keys, SoundEntry), NEW addressing \in Dicts(Pairs, Addresses),
           NEW inventory \in SUBSET BranchKeys, NEW full \in BOOLEAN, NEW day \in Day,
           NEW found \in [Acceptable(ToGather(E, addressing, inventory, full)) -> Coords \cup {NoCoord}]
    PROVE  LET G == Gathered(E, addressing, inventory, full,
                             ToGather(E, addressing, inventory, full), found, day)
           IN  /\ G \in Dicts(Keys, SoundEntry)
               /\ \A k \in DOMAIN G : AtHome(k, addressing)
               /\ Gatherings(G)
<1> DEFINE gathering == ToGather(E, addressing, inventory, full)
           kept == KeptKeys(E, addressing) \ (IF full THEN BranchKeys \ inventory ELSE {})
           G == Gathered(E, addressing, inventory, full, gathering, found, day)
           Chosen(k) == k \in Acceptable(gathering) /\ found[k] # NoCoord
           auto(k) == [gathering[k] EXCEPT !.decision = AutoDecision(found[k], day)]
           value(k) == IF k \in kept THEN E[k] ELSE IF Chosen(k) THEN auto(k) ELSE gathering[k]
<1>1. G = [k \in kept \cup DOMAIN gathering |-> value(k)]
  BY DEF Gathered
<1>2. \A k \in kept : /\ k \in Keys /\ AtHome(k, addressing) /\ E[k] \in SoundEntry
                     /\ E[k].decision.status # "auto"
  BY KeptAtHome, DictElim DEF KeptKeys, IsHuman, HUMAN
<1>3. \A k \in DOMAIN gathering : /\ k \in Keys /\ AtHome(k, addressing)
                                 /\ gathering[k] \in PendingEntries
  BY ToGatherTyped, DictElim
<1>4. ASSUME NEW k \in DOMAIN gathering, Chosen(k)
      PROVE  /\ auto(k) \in SoundEntry
             /\ k.role = "main"
             /\ auto(k).decision.record.at = auto(k).decision.at
  <2>1. found[k] \in Coords /\ k.role = "main"
    BY <1>4 DEF Acceptable
  <2>2. AutoDecision(found[k], day) \in SoundDecision
    BY <2>1 DEF AutoDecision, SoundDecision, Decision, STATUSES, DECIDED, HUMAN, Point, Record
  <2>3. gathering[k] \in Entry
    BY <1>3 DEF PendingEntries
  <2>4. auto(k).decision = AutoDecision(found[k], day) /\ auto(k) \in Entry
    BY <2>2, <2>3 DEF Entry, SoundDecision
  <2> HIDE DEF auto
  <2>5. auto(k) \in SoundEntry
    BY <2>2, <2>4 DEF SoundEntry
  <2>6. auto(k).decision.record.at = auto(k).decision.at
    BY <2>4 DEF AutoDecision
  <2> QED
    BY <2>1, <2>5, <2>6
<1>5. \A k \in DOMAIN gathering : gathering[k] \in SoundEntry /\ gathering[k].decision.status # "auto"
  BY <1>3, PendingEntrySound DEF PendingEntries, Pending
<1> HIDE DEF kept, gathering, Chosen, auto
<1>6. \A k \in kept \cup DOMAIN gathering : value(k) \in SoundEntry /\ k \in Keys /\ AtHome(k, addressing)
  BY <1>2, <1>3, <1>4, <1>5
<1>7. G \in [kept \cup DOMAIN gathering -> SoundEntry]
  BY <1>1, <1>6
<1>8. G \in Dicts(Keys, SoundEntry)
  BY <1>6, <1>7, DictIntro
<1>9. Gatherings(G)
  <2> SUFFICES ASSUME NEW k \in DOMAIN G, G[k].decision.status = "auto"
               PROVE  k.role = "main" /\ G[k].decision.record.at = G[k].decision.at
    BY DEF Gatherings, AutoKeys
  <2>1. k \in kept \cup DOMAIN gathering /\ G[k] = value(k)
    BY <1>1
  <2>2. k \notin kept /\ Chosen(k) /\ k \in DOMAIN gathering
    BY <2>1, <1>2, <1>5
  <2> QED
    BY <2>1, <2>2, <1>4
<1> QED
  BY <1>1, <1>6, <1>8, <1>9 DEF gathering

(* Where no two texts are one address, a run has one main building for an   *)
(* institution, so parse_rows accepts what it renders.                      *)
LEMMA GatheredParses ==
    ASSUME NEW E \in Dicts(Keys, SoundEntry), NEW addressing \in Dicts(Pairs, Addresses),
           TextsAreAddresses, Gatherings(E), \A k \in DOMAIN E : AtHome(k, addressing)
    PROVE  Parses(RenderRows(E), RenderProvenance(E))
<1> DEFINE rows == RenderRows(E)
           provenance == RenderProvenance(E)
           A == AutoKeys(E)
           owner(p) == CHOOSE k \in A : k.pair = p
<1>1. \A k \in DOMAIN E : k \in Keys
  BY DictElim
<1>2. \A j, k \in DOMAIN E : j.role = "main" /\ k.role = "main" /\ j.pair = k.pair => j = k
  <2> SUFFICES ASSUME NEW j \in DOMAIN E, NEW k \in DOMAIN E,
                      j.role = "main", k.role = "main", j.pair = k.pair
               PROVE  j = k
    OBVIOUS
  <2>1. j.address \in Addresses /\ k.address \in Addresses
    BY <1>1, KeyFields
  <2>2. NormalForm[j.address] = NormalForm[k.address]
    BY DEF AtHome
  <2>3. j.address = k.address
    BY <2>1, <2>2 DEF TextsAreAddresses
  <2> QED
    BY <1>1, <2>3, KeyFields
<1>3. DOMAIN rows = {k \in DOMAIN E : IsDecided(E[k])}
      /\ \A k \in DOMAIN rows : rows[k] = RowOf(E[k].decision)
  BY DEF RenderRows
<1>4. AutoRows(rows) = A
  <2>1. \A k \in DOMAIN rows : rows[k].verification = "auto" <=> E[k].decision.status = "auto"
    BY <1>3 DEF RowOf
  <2>2. \A k \in A : k \in DOMAIN rows
    BY <1>3 DEF AutoKeys, IsDecided, DECIDED
  <2> HIDE DEF rows
  <2> QED
    BY <1>3, <2>1, <2>2 DEF AutoRows, AutoKeys
<1>5. \A k \in A : k \in DOMAIN E /\ k.role = "main" /\ rows[k].at = E[k].decision.record.at
  <2>1. \A k \in A : k \in DOMAIN rows /\ E[k].decision.status = "auto"
    BY <1>3 DEF AutoKeys, IsDecided, DECIDED
  <2> QED
    BY <1>3, <2>1 DEF Gatherings, AutoKeys, RowOf
<1>6. \A k \in A : owner(k.pair) = k
  <2> SUFFICES ASSUME NEW k \in A PROVE owner(k.pair) = k
    OBVIOUS
  <2>1. owner(k.pair) \in A /\ owner(k.pair).pair = k.pair
    OBVIOUS
  <2> QED
    BY <1>2, <1>5, <2>1
<1>7. /\ DOMAIN provenance = {k.pair : k \in A}
      /\ \A k \in A : provenance[k.pair] = E[owner(k.pair)].decision.record
  BY DEF RenderProvenance
<1>8. OneMainEach(rows)
  BY <1>2, <1>3 DEF OneMainEach
<1> HIDE DEF rows, provenance, A, owner
<1>9. \A k \in A : k.role = "main" /\ k.pair \in DOMAIN provenance /\ provenance[k.pair].at = rows[k].at
  BY <1>5, <1>6, <1>7
<1>10. Parses(rows, provenance)
  BY <1>4, <1>7, <1>8, <1>9 DEF Parses
<1> QED
  BY <1>10 DEF rows, provenance

-----------------------------------------------------------------------------
(* The journal: types, and files the next run can load.                     *)

(* TypeOK with the files as members of sets and, so that it is inductive,   *)
(* with sound decisions in the candidates file and in memory.               *)
Types ==
    /\ inst \in Addressings
    /\ today \in Day
    /\ csv \in CsvFile \cup {NoFile}
    /\ prov \in ProvenanceFile \cup {NoFile}
    /\ doc \in Document \cup {NoFile}
    /\ doc # NoFile => doc.entries \in Dicts(Keys, SoundEntry)
    /\ pc \in {"idle", "gathered", "journalled", "csv_renamed", "both_renamed"}
    /\ entries \in Dicts(Keys, SoundEntry)
    /\ torn \in BOOLEAN
    /\ corrupt \in BOOLEAN
    /\ moved \in Addressings
    /\ decided \in Dicts(Keys, Decision)

LEMMA SoundAreEntries == Dicts(Keys, SoundEntry) \subseteq Entries
BY DEF Dicts, Entries, SoundEntry

LEMMA TypesImplyTypeOK ==
    ASSUME Types
    PROVE  TypeOK
<1>1. entries \in Entries
  BY SoundAreEntries DEF Types
<1>2. ASSUME doc # NoFile
      PROVE  /\ DOMAIN doc = {"hash", "entries", "pending"}
             /\ doc.hash = NoFile \/ IsDict(doc.hash[1], Keys, Row)
             /\ IsDict(doc.entries, Keys, Entry)
             /\ \/ doc.pending = NoJournal
                \/ /\ IsDict(doc.pending.csv, Keys, Row)
                   /\ IsDict(doc.pending.provenance, Pairs, Record)
  <2>1. doc \in Document
    BY <1>2 DEF Types
  <2>2. /\ DOMAIN doc = {"hash", "entries", "pending"}
        /\ doc.hash \in (CsvFile \X (ProvenanceFile \cup {NoFile})) \cup {NoFile}
        /\ doc.entries \in Entries
        /\ doc.pending \in Journal \cup {NoJournal}
    BY <2>1 DEF Document
  <2>3. doc.hash = NoFile \/ doc.hash[1] \in Dicts(Keys, Row)
    BY <2>2 DEF CsvFile
  <2>4. \/ doc.pending = NoJournal
        \/ /\ doc.pending.csv \in Dicts(Keys, Row)
           /\ doc.pending.provenance \in Dicts(Pairs, Record)
    BY <2>2 DEF Journal, CsvFile, ProvenanceFile
  <2> QED
    BY <2>2, <2>3, <2>4, IsDictIff DEF Entries
<1> QED
  BY <1>1, <1>2, IsDictIff
     DEF Types, TypeOK, Addressings, CsvFile, ProvenanceFile, Entries

-----------------------------------------------------------------------------
LEMMA CommittedTyped ==
    ASSUME Types
    PROVE  CommittedRows \in CsvFile /\ CommittedProvenance \in ProvenanceFile
BY NoEntriesDict DEF Types, CommittedRows, CommittedProvenance, CsvFile, ProvenanceFile

LEMMA HashTyped ==
    ASSUME Types
    PROVE  CommittedHash \in (CsvFile \X (ProvenanceFile \cup {NoFile})) \cup {NoFile}
BY DEF Types, CommittedHash

LEMMA ReconciledTyped ==
    ASSUME Types, Loadable
    PROVE  Reconciled \in Dicts(Keys, SoundEntry)
<1>1. LocalEntries \in Dicts(Keys, SoundEntry)
  BY NoEntriesDict DEF Types, LocalEntries
<1>2. CASE LocalStands
  BY <1>1, <1>2 DEF Reconciled
<1>3. CASE ~LocalStands /\ Torn
  <2>1. \A k \in AutoRows(NoEntries) : k.pair \in DOMAIN NoEntries
    BY DEF AutoRows, NoEntries
  <2>2. NoEntries \in Dicts(Keys, Row) /\ NoEntries \in Dicts(Pairs, Record)
    BY NoEntriesDict
  <2> QED
    BY <1>1, <1>3, <2>1, <2>2, RebuildTyped DEF Reconciled
<1>4. CASE ~LocalStands /\ ~Torn
  <2>1. \A k \in AutoRows(CommittedRows) : k.pair \in DOMAIN CommittedProvenance
    <3>1. CASE csv = NoFile
      BY <3>1 DEF CommittedRows, AutoRows, NoEntries
    <3>2. CASE csv # NoFile
      BY <1>4, <3>2 DEF Loadable, Torn, PairParses, Parses
    <3> QED
      BY <3>1, <3>2
  <2> QED
    BY <1>1, <1>4, <2>1, CommittedTyped, RebuildTyped DEF Reconciled, CsvFile, ProvenanceFile
<1> QED
  BY <1>2, <1>3, <1>4

(* What StartRun leaves in memory.                                          *)
LEMMA StartRunGathers ==
    ASSUME Types, StartRun
    PROVE  /\ entries' \in Dicts(Keys, SoundEntry)
           /\ Gatherings(entries')
           /\ \A k \in DOMAIN entries' : AtHome(k, inst)
           /\ decided' \in Dicts(Keys, Decision)
<1> PICK inventory \in SUBSET BranchKeys, full \in BOOLEAN :
        \E found \in [Acceptable(ToGather(Reconciled, inst, inventory, full))
                          -> Coords \cup {NoCoord}] :
            /\ entries' = Gathered(Reconciled, inst, inventory, full,
                                   ToGather(Reconciled, inst, inventory, full), found, today)
            /\ decided' = IF full THEN Without(decided, BranchKeys \ inventory) ELSE decided
  BY DEF StartRun
<1> PICK found \in [Acceptable(ToGather(Reconciled, inst, inventory, full))
                          -> Coords \cup {NoCoord}] :
            /\ entries' = Gathered(Reconciled, inst, inventory, full,
                                   ToGather(Reconciled, inst, inventory, full), found, today)
            /\ decided' = IF full THEN Without(decided, BranchKeys \ inventory) ELSE decided
  OBVIOUS
<1>1. /\ Reconciled \in Dicts(Keys, SoundEntry)
      /\ inst \in Dicts(Pairs, Addresses)
      /\ today \in Day
  BY ReconciledTyped DEF StartRun, Types, Addressings
<1>2. decided' \in Dicts(Keys, Decision)
  BY WithoutDict DEF Types
<1>3. /\ entries' \in Dicts(Keys, SoundEntry)
      /\ Gatherings(entries')
      /\ \A k \in DOMAIN entries' : AtHome(k, inst)
  BY <1>1, GatheredTyped
<1> QED
  BY <1>2, <1>3

LEMMA NewFilesTyped ==
    ASSUME Types
    PROVE  NewRows \in CsvFile /\ NewProvenance \in ProvenanceFile
BY RenderRowsTyped, RenderProvenanceTyped
   DEF Types, NewRows, NewProvenance, CsvFile, ProvenanceFile

(* The candidates file of the first and of the last write of persist.       *)
LEMMA DocTyped ==
    ASSUME Types,
           NEW journal \in Journal \cup {NoJournal},
           NEW d, d = [hash |-> CommittedHash, entries |-> entries, pending |-> journal]
    PROVE  d \in Document /\ d # NoFile /\ d.entries \in Dicts(Keys, SoundEntry)
<1>1. d.entries \in Dicts(Keys, SoundEntry) /\ entries \in Entries
  BY SoundAreEntries DEF Types
<1>2. d \in Document
  BY <1>1, HashTyped DEF Document
<1> QED
  BY <1>1, <1>2, AbsenceAssumption

LEMMA JournalTyped ==
    ASSUME Types
    PROVE  [csv |-> NewRows, provenance |-> NewProvenance, previous |-> prov] \in Journal
BY NewFilesTyped DEF Types, Journal

LEMMA HandWriteTyped ==
    ASSUME Types, NEW k \in Keys, NEW s \in HandStatuses, NEW c \in Coords, HandWrite(k, s, c)
    PROVE  /\ csv' \in CsvFile
           /\ prov' \in ProvenanceFile \cup {NoFile}
           /\ decided' \in Dicts(Keys, Decision)
           /\ moved' \in Addressings
<1> DEFINE d == [status |-> s, on |-> today, record |-> NoRecord,
                 at |-> IF s = "no_pin" THEN NoCoord ELSE c]
<1>1. s \in HUMAN
  BY SwitchAssumption
<1>2. d \in SoundDecision
  BY <1>1 DEF Types, SoundDecision, Decision, STATUSES, DECIDED, HUMAN, Point
<1>3. RowOf(d) \in Row
  <2>1. d.status \in DECIDED
    BY <1>1 DEF DECIDED
  <2> QED
    BY <1>2, <2>1, RowOfTyped
<1>4. PICK S, T :
        /\ csv' = With(Without(CommittedRows, S), k, RowOf(d))
        /\ prov' = ProvenanceFor(csv')
        /\ decided' = With(Without(decided, T), k, d)
        /\ moved' = IF k.role = "main" THEN Without(moved, {k.pair}) ELSE moved
  BY DEF HandWrite, EditPair
<1> HIDE DEF d
<1>5. csv' \in CsvFile
  BY <1>3, <1>4, CommittedTyped, WithoutDict, WithDict DEF CsvFile
<1>6. prov' \in ProvenanceFile \cup {NoFile}
  BY <1>4, WithoutDict DEF Types, ProvenanceFor, ProvenanceFile
<1>7. d \in Decision
  BY <1>2 DEF SoundDecision
<1>8. Without(decided, T) \in Dicts(Keys, Decision)
  BY WithoutDict DEF Types
<1>9. moved' \in Addressings
  BY <1>4, WithoutDict DEF Types, Addressings
<1> QED
  BY <1>4, <1>5, <1>6, <1>7, <1>8, <1>9, WithDict

LEMMA HandRemoveTyped ==
    ASSUME Types, NEW k \in Keys, HandRemove(k)
    PROVE  /\ csv' \in CsvFile
           /\ prov' \in ProvenanceFile \cup {NoFile}
           /\ decided' \in Dicts(Keys, Decision)
           /\ moved' \in Addressings
<1>1. /\ csv' = Without(CommittedRows, {k})
      /\ prov' = ProvenanceFor(csv')
      /\ decided' = Without(decided, {k})
      /\ moved' = IF k.role = "main" THEN Without(moved, {k.pair}) ELSE moved
  BY DEF HandRemove, EditPair
<1>2. csv' \in CsvFile
  BY <1>1, CommittedTyped, WithoutDict DEF CsvFile
<1>3. prov' \in ProvenanceFile \cup {NoFile}
  BY <1>1, WithoutDict DEF Types, ProvenanceFor, ProvenanceFile
<1> QED
  BY <1>1, <1>2, <1>3, WithoutDict DEF Types, Addressings

LEMMA HandMistakeTyped ==
    ASSUME Types, NEW k \in Keys, HandMistake(k)
    PROVE  /\ csv' \in CsvFile
           /\ prov' \in ProvenanceFile \cup {NoFile}
           /\ UNCHANGED <<moved, decided>>
<1>1. csv # NoFile /\ k \in DOMAIN csv /\ csv[k].verification = "auto"
  BY DEF HandMistake, AutoRows, CommittedRows, NoEntries
<1>2. csv \in Dicts(Keys, Row)
  BY <1>1 DEF Types, CsvFile
<1>3. DOMAIN csv \subseteq Keys /\ csv \in [DOMAIN csv -> Row] /\ csv[k] \in Row
  BY <1>1, <1>2, DictElim
<1>4. CASE csv' = [csv EXCEPT ![k].at = Typo] /\ prov' = prov
  <2>1. [csv[k] EXCEPT !.at = Typo] \in Row
    BY <1>1, <1>3 DEF Row, Point
  <2>2. csv' \in [DOMAIN csv -> Row]
    BY <1>3, <1>4, <2>1
  <2> QED
    BY <1>3, <1>4, <2>2, DictIntro DEF CsvFile, HandMistake, Types
<1>5. CASE /\ k.pair \in DOMAIN CommittedProvenance
           /\ csv' = csv /\ prov' = [prov EXCEPT ![k.pair].at = Typo]
  <2>1. prov # NoFile /\ k.pair \in DOMAIN prov
    BY <1>5 DEF CommittedProvenance, NoEntries
  <2>2. prov \in Dicts(Pairs, Record)
    BY <2>1 DEF Types, ProvenanceFile
  <2>3. DOMAIN prov \subseteq Pairs /\ prov \in [DOMAIN prov -> Record] /\ prov[k.pair] \in Record
    BY <2>1, <2>2, DictElim
  <2>4. [prov[k.pair] EXCEPT !.at = Typo] \in Record
    BY <2>3 DEF Record, Point
  <2>5. prov' \in [DOMAIN prov -> Record]
    BY <1>5, <2>3, <2>4
  <2> QED
    BY <1>2, <1>5, <2>3, <2>5, DictIntro DEF CsvFile, ProvenanceFile, HandMistake, Types
<1> QED
  BY <1>4, <1>5 DEF HandMistake, EditPair

LEMMA SetAddressTyped ==
    ASSUME Types, NEW p \in Pairs, NEW a \in Addresses, SetAddress(p, a)
    PROVE  /\ inst' \in Addressings
           /\ moved' \in Addressings
           /\ decided' \in Dicts(Keys, Decision)
<1>1. inst' = With(inst, p, a)
  BY DEF SetAddress
<1>2. inst' \in Addressings
  BY <1>1, WithDict DEF Types, Addressings
<1>3. decided' \in Dicts(Keys, Decision)
  BY WithoutDict DEF SetAddress, Types
<1>4. \/ moved' = moved
      \/ moved' = Without(moved, {p})
      \/ /\ MainsOf(p) # {}
         /\ moved' = With(moved, p, NormalForm[(CHOOSE k \in MainsOf(p) : TRUE).address])
  BY DEF SetAddress
<1>5. ASSUME MainsOf(p) # {}
      PROVE  NormalForm[(CHOOSE k \in MainsOf(p) : TRUE).address] \in Addresses
  <2>1. (CHOOSE k \in MainsOf(p) : TRUE) \in DOMAIN CommittedRows
    BY <1>5 DEF MainsOf
  <2>2. (CHOOSE k \in MainsOf(p) : TRUE) \in Keys
    BY <2>1, CommittedTyped, DictElim DEF CsvFile
  <2> QED
    BY <2>2, KeyFields, EntriesAssumption
<1>6. moved' \in Addressings
  BY <1>4, <1>5, WithoutDict, WithDict DEF Types, Addressings
<1> QED
  BY <1>2, <1>3, <1>6

LEMMA EditPairRest ==
    ASSUME NEW rows, NEW p, EditPair(rows, p)
    PROVE  /\ UNCHANGED <<inst, today, doc, pc, entries, torn>>
           /\ corrupt' \in BOOLEAN
BY DEF EditPair, run, LeftByCrash

LEMMA TypesInit == Init => Types
<1> SUFFICES ASSUME Init PROVE Types
  OBVIOUS
<1>1. /\ entries \in Dicts(Keys, SoundEntry)
      /\ decided \in Dicts(Keys, Decision)
      /\ moved \in Addressings
  BY NoEntriesDict DEF Init, Addressings
<1>2. today \in Day
  BY EntriesAssumption DEF Init, Day
<1> QED
  BY <1>1, <1>2 DEF Init, Types

(* One step per action; what is not named there is unchanged.               *)
LEMMA TypesNext ==
    ASSUME Types, [Next]_vars
    PROVE  Types'
<1> USE DEF files, run, people
<1>1. CASE StartRun
  BY <1>1, StartRunGathers DEF StartRun, Types, Torn, PairParses, TornByJournal
<1>2. CASE SaveCandidates
  BY <1>2, DocTyped, JournalTyped DEF SaveCandidates, Types
<1>3. CASE RejectWrite
  BY <1>3, NoEntriesDict DEF RejectWrite, Idle, Types
<1>4. CASE RenameCsv
  BY <1>4, NewFilesTyped DEF RenameCsv, Types
<1>5. CASE RenameProvenance
  BY <1>5, NewFilesTyped DEF RenameProvenance, Types
<1>6. CASE ClearJournal
  BY <1>6, DocTyped, NoEntriesDict DEF ClearJournal, Idle, Types
<1>7. CASE Crash
  BY <1>7, NoEntriesDict DEF Crash, Idle, Types
<1>8. ASSUME NEW k \in Keys, NEW s \in HandStatuses, NEW c \in Coords, HandWrite(k, s, c)
      PROVE  Types'
  <2>1. PICK rows, p : EditPair(rows, p)
    BY <1>8 DEF HandWrite
  <2> QED
    BY <1>8, <2>1, EditPairRest, HandWriteTyped DEF Types
<1>9. ASSUME NEW k \in Keys, HandRemove(k)
      PROVE  Types'
  <2>1. PICK rows, p : EditPair(rows, p)
    BY <1>9 DEF HandRemove
  <2> QED
    BY <1>9, <2>1, EditPairRest, HandRemoveTyped DEF Types
<1>10. ASSUME NEW k \in Keys, HandMistake(k)
       PROVE  Types'
  <2>1. PICK rows, p : EditPair(rows, p)
    BY <1>10 DEF HandMistake
  <2> QED
    BY <1>10, <2>1, EditPairRest, HandMistakeTyped DEF Types
<1>11. CASE LoseCandidates
  BY <1>11 DEF LoseCandidates, Types
<1>12. CASE NextDay
  BY <1>12, EntriesAssumption DEF NextDay, Types, Day
<1>13. ASSUME NEW p \in Pairs, DropInstitution(p)
       PROVE  Types'
  BY <1>13, WithoutDict DEF DropInstitution, Types, Addressings
<1>14. ASSUME NEW p \in Pairs, NEW a \in Addresses, SetAddress(p, a)
       PROVE  Types'
  BY <1>14, SetAddressTyped DEF SetAddress, Types
<1>15. CASE UNCHANGED vars
  BY <1>15 DEF vars, Types
<1> QED
  BY <1>1, <1>2, <1>3, <1>4, <1>5, <1>6, <1>7, <1>8, <1>9, <1>10, <1>11, <1>12, <1>13, <1>14,
     <1>15 DEF Next, Program, People, World

LEMMA TypesInvariant == Spec => []Types
<1>1. Types /\ [Next]_vars => Types'
  BY TypesNext
<1> QED
  BY TypesInit, <1>1, PTL DEF Spec

(* Every reachable state of the files, of the run in progress and of the    *)
(* observers has its type, whatever crashes and edits happen.               *)
THEOREM TypeCorrect == Spec => []TypeOK
BY TypesInvariant, TypesImplyTypeOK, PTL

-----------------------------------------------------------------------------
\* What people do is an edit of the pair, or the loss of the candidates file.
LEMMA PeopleEdit ==
    ASSUME Types, People
    PROVE  \/ LoseCandidates
           \/ csv' \in CsvFile /\ \E rows, p : EditPair(rows, p)
<1>1. ASSUME NEW k \in Keys, NEW s \in HandStatuses, NEW c \in Coords, HandWrite(k, s, c)
      PROVE  csv' \in CsvFile /\ \E rows, p : EditPair(rows, p)
  BY <1>1, HandWriteTyped DEF HandWrite
<1>2. ASSUME NEW k \in Keys, HandRemove(k)
      PROVE  csv' \in CsvFile /\ \E rows, p : EditPair(rows, p)
  BY <1>2, HandRemoveTyped DEF HandRemove
<1>3. ASSUME NEW k \in Keys, HandMistake(k)
      PROVE  csv' \in CsvFile /\ \E rows, p : EditPair(rows, p)
  BY <1>3, HandMistakeTyped DEF HandMistake
<1> QED
  BY <1>1, <1>2, <1>3 DEF People

LEMMA WorldKeepsFiles ==
    ASSUME World \/ UNCHANGED vars
    PROVE  UNCHANGED <<csv, prov, doc, pc, entries, torn, corrupt>>
BY DEF World, NextDay, DropInstitution, SetAddress, vars, files, run, people

-----------------------------------------------------------------------------
(* The entries a run holds render to files the parser accepts.              *)
WriterInv == pc # "idle" => Parses(NewRows, NewProvenance)

LEMMA WriterInvNext ==
    ASSUME TextsAreAddresses, Types, WriterInv, [Next]_vars
    PROVE  WriterInv'
<1>1. CASE StartRun
  <2>1. inst \in Dicts(Pairs, Addresses)
    BY DEF Types, Addressings
  <2>2. Parses(RenderRows(entries'), RenderProvenance(entries'))
    BY <1>1, <2>1, StartRunGathers, GatheredParses
  <2> QED
    BY <2>2 DEF WriterInv, NewRows, NewProvenance
<1>2. CASE UNCHANGED <<entries, pc>>
  BY <1>2 DEF WriterInv, NewRows, NewProvenance
<1>3. CASE pc # "idle" /\ UNCHANGED entries
  BY <1>3 DEF WriterInv, NewRows, NewProvenance
<1>4. CASE pc' = "idle"
  BY <1>4 DEF WriterInv
<1>5. CASE Program \/ Crash
  BY <1>1, <1>3, <1>4, <1>5
     DEF Program, SaveCandidates, RejectWrite, RenameCsv, RenameProvenance, ClearJournal,
         Crash, Idle
<1>6. CASE People
  BY <1>2, <1>6, PeopleEdit DEF LoseCandidates, EditPair, run
<1>7. CASE World \/ UNCHANGED vars
  BY <1>2, <1>7, WorldKeepsFiles
<1> QED
  BY <1>5, <1>6, <1>7 DEF Next

(* The writer never rejects what persist has just saved to the candidates   *)
(* file, as long as no address is ever respelled: with two spellings of one *)
(* address the run two_mains is a counterexample.                           *)
THEOREM WriterAccepts ==
    ASSUME TextsAreAddresses
    PROVE  Spec => []WriterAcceptsWhatIsSaved
<1>1. Init => WriterInv
  BY DEF Init, WriterInv
<1>2. Types /\ WriterInv /\ [Next]_vars => WriterInv'
  BY WriterInvNext
<1>3. WriterInv => WriterAcceptsWhatIsSaved
  BY DEF WriterInv, WriterAcceptsWhatIsSaved
<1> QED
  BY <1>1, <1>2, <1>3, TypesInvariant, PTL DEF Spec

-----------------------------------------------------------------------------
(* A pair that people corrupted cannot be loaded, so no run is in progress. *)
CorruptInv == corrupt => pc = "idle" /\ ~Loadable

LEMMA SameFiles ==
    ASSUME UNCHANGED <<csv, prov, doc>>
    PROVE  /\ PairParses' = PairParses
           /\ TornByJournal' = TornByJournal
           /\ Loadable' = Loadable
           /\ Torn' = Torn
BY DEF PairParses, CommittedRows, CommittedProvenance, TornByJournal, Loadable, Torn

(* After a person's edit the pair can be loaded unless the edit corrupts it.*)
LEMMA EditCorruptsOrLoads ==
    ASSUME NEW rows, NEW p, EditPair(rows, p), csv' \in CsvFile
    PROVE  corrupt' <=> ~Loadable'
<1>1. /\ csv' = rows /\ prov' = p /\ UNCHANGED doc
      /\ corrupt' = (~Parses(rows, IF p = NoFile THEN NoEntries ELSE p) /\ ~LeftByCrash(rows, p))
  BY DEF EditPair
<1>2. csv' # NoFile
  BY AbsenceAssumption
<1>3. PairParses' <=> Parses(rows, IF p = NoFile THEN NoEntries ELSE p)
  BY <1>1, <1>2 DEF PairParses, CommittedRows, CommittedProvenance
<1>4. TornByJournal' <=> LeftByCrash(rows, p)
  BY <1>1 DEF TornByJournal, LeftByCrash
<1> QED
  BY <1>1, <1>3, <1>4 DEF Loadable

LEMMA CorruptInvNext ==
    ASSUME ~EditsDuringRun, Types, CorruptInv, [Next]_vars
    PROVE  CorruptInv'
<1>1. CASE Program \/ Crash
  <2>1. ~corrupt
    BY <1>1 DEF CorruptInv, Program, StartRun, SaveCandidates, RejectWrite, RenameCsv,
                RenameProvenance, ClearJournal, Crash
  <2>2. UNCHANGED corrupt
    BY <1>1 DEF Program, StartRun, SaveCandidates, RejectWrite, RenameCsv,
                RenameProvenance, ClearJournal, Crash, people
  <2> QED
    BY <2>1, <2>2 DEF CorruptInv
<1>2. CASE LoseCandidates
  <2>1. PairParses' = PairParses /\ ~TornByJournal' /\ UNCHANGED <<corrupt, pc>>
    BY <1>2 DEF LoseCandidates, PairParses, CommittedRows, CommittedProvenance,
                TornByJournal, run, people
  <2> QED
    BY <2>1 DEF CorruptInv, Loadable
<1>3. ASSUME NEW rows, NEW p, EditPair(rows, p), csv' \in CsvFile
      PROVE  CorruptInv'
  <2>1. pc' = "idle"
    BY <1>3 DEF EditPair, PeopleMayEdit, run
  <2> QED
    BY <1>3, <2>1, EditCorruptsOrLoads DEF CorruptInv
<1>4. CASE World \/ UNCHANGED vars
  BY <1>4, WorldKeepsFiles, SameFiles DEF CorruptInv
<1> QED
  BY <1>1, <1>2, <1>3, <1>4, PeopleEdit DEF Next

(* The script never writes over a pair that people corrupted, whatever      *)
(* crashed before and whatever the candidates file says, if people leave    *)
(* the files alone while it runs.                                           *)
THEOREM CorruptIsKept ==
    ASSUME ~EditsDuringRun
    PROVE  Spec => CorruptKept
<1>1. Init => CorruptInv
  BY DEF Init, CorruptInv
<1>2. Types /\ CorruptInv /\ [Next]_vars => CorruptInv'
  BY CorruptInvNext
<1>3. ASSUME Types, CorruptInv, [Next]_vars
      PROVE  [corrupt /\ pc' # pc => UNCHANGED <<csv, prov>>]_vars
  <2>1. CASE ~corrupt
    BY <2>1
  <2>2. CASE corrupt /\ (Program \/ Crash)
    BY <1>3, <2>2 DEF CorruptInv, Program, StartRun, SaveCandidates, RejectWrite, RenameCsv,
                      RenameProvenance, ClearJournal, Crash
  <2>3. CASE People
    BY <2>3, PeopleEdit, <1>3 DEF LoseCandidates, EditPair, run
  <2>4. CASE World \/ UNCHANGED vars
    BY <2>4, WorldKeepsFiles
  <2> QED
    BY <1>3, <2>1, <2>2, <2>3, <2>4 DEF Next
<1> QED
  BY <1>1, <1>2, <1>3, TypesInvariant, PTL DEF Spec, CorruptKept

-----------------------------------------------------------------------------
(* Why a run may die anywhere.  Before the first rename the pair is the one *)
(* the run loaded; between the renames the journal describes the pair;      *)
(* after them the pair parses.  A torn pair that the run was to repair is   *)
(* the exception: its journal is gone once the run has saved its own.       *)
LoadableInv ==
    /\ pc = "idle" => corrupt \/ Loadable
    /\ pc = "gathered" => Loadable /\ (torn <=> Torn)
    /\ pc = "journalled" => /\ torn \/ PairParses
                            /\ doc # NoFile /\ doc.pending # NoJournal
                            /\ doc.pending.csv = NewRows /\ doc.pending.previous = prov
    /\ pc = "csv_renamed" => TornByJournal /\ csv = NewRows
    /\ pc = "both_renamed" => PairParses

LEMMA SameRun ==
    ASSUME LoadableInv, UNCHANGED <<csv, prov, doc, pc, entries, torn, corrupt>>
    PROVE  LoadableInv'
BY SameFiles DEF LoadableInv, NewRows

LEMMA LoadableInvProgram ==
    ASSUME Types, WriterInv, LoadableInv, Program
    PROVE  LoadableInv'
<1>1. CASE StartRun
  <2>1. UNCHANGED <<csv, prov, doc>> /\ pc' = "gathered" /\ torn' = Torn /\ Loadable
    BY <1>1 DEF StartRun, files
  <2> QED
    BY <2>1, SameFiles DEF LoadableInv
<1>2. CASE SaveCandidates
  <2>1. /\ doc' = [hash |-> CommittedHash, entries |-> entries,
                   pending |-> [csv |-> NewRows, provenance |-> NewProvenance, previous |-> prov]]
        /\ pc' = "journalled" /\ UNCHANGED <<csv, prov, entries, torn>>
    BY <1>2 DEF SaveCandidates
  <2>2. doc' # NoFile /\ doc'.pending # NoJournal
    BY <2>1, DocTyped, JournalTyped, AbsenceAssumption
  <2>3. torn \/ PairParses
    BY <1>2 DEF SaveCandidates, LoadableInv, Loadable, Torn
  <2>4. PairParses' = PairParses
    BY <2>1 DEF PairParses, CommittedRows, CommittedProvenance
  <2> QED
    BY <2>1, <2>2, <2>3, <2>4 DEF LoadableInv, NewRows
<1>3. CASE RejectWrite
  BY <1>3 DEF RejectWrite, WriterInv
<1>4. CASE RenameCsv
  BY <1>4 DEF RenameCsv, LoadableInv, TornByJournal, NewRows
<1>5. CASE RenameProvenance
  <2>1. csv = NewRows /\ prov' = NewProvenance /\ pc' = "both_renamed" /\ UNCHANGED csv
    BY <1>5 DEF RenameProvenance, LoadableInv
  <2>2. csv # NoFile /\ prov' # NoFile
    BY <2>1, NewFilesTyped, AbsenceAssumption
  <2>3. Parses(csv, prov')
    BY <1>5, <2>1 DEF RenameProvenance, WriterInv
  <2>4. PairParses'
    BY <2>1, <2>2, <2>3 DEF PairParses, CommittedRows, CommittedProvenance
  <2> QED
    BY <2>1, <2>4 DEF LoadableInv
<1>6. CASE ClearJournal
  <2>1. PairParses /\ UNCHANGED <<csv, prov>> /\ pc' = "idle"
    BY <1>6 DEF ClearJournal, LoadableInv, Idle
  <2>2. PairParses'
    BY <2>1 DEF PairParses, CommittedRows, CommittedProvenance
  <2> QED
    BY <2>1, <2>2 DEF LoadableInv, Loadable
<1> QED
  BY <1>1, <1>2, <1>3, <1>4, <1>5, <1>6 DEF Program

LEMMA LoadableInvCrash ==
    ASSUME ~RecoveryMayCrash, Types, LoadableInv, Crash
    PROVE  LoadableInv'
<1>1. pc' = "idle" /\ UNCHANGED <<csv, prov, doc>>
  BY DEF Crash, Idle, files
<1>2. Loadable
  BY DEF Crash, LoadableInv, Loadable, Types
<1> QED
  BY <1>1, <1>2, SameFiles DEF LoadableInv

LEMMA LoadableInvEdit ==
    ASSUME ~EditsDuringRun, LoadableInv, NEW rows, NEW p, EditPair(rows, p), csv' \in CsvFile
    PROVE  LoadableInv'
<1>1. pc' = "idle"
  BY DEF EditPair, PeopleMayEdit, run
<1> QED
  BY <1>1, EditCorruptsOrLoads DEF LoadableInv

(* Whatever step a run dies at, the files it leaves can be loaded by the    *)
(* next one, unless people corrupted them: persist's "nothing is lost in    *)
(* any of the three".  The four premises are those under which it is true.  *)
(* double_crash shows the first is needed; two_mains shows the save whose   *)
(* rejection, in a run that repairs a torn pair, loses it without the last. *)
THEOREM CrashesAreLoadable ==
    ASSUME ~RecoveryMayCrash, ~EditsDuringRun, ~MayLoseCandidates, TextsAreAddresses
    PROVE  Spec => []AlwaysLoadable
<1>1. Init => LoadableInv /\ WriterInv
  BY DEF Init, LoadableInv, Loadable, PairParses, WriterInv
<1>2. ASSUME Types, WriterInv, LoadableInv, [Next]_vars
      PROVE  LoadableInv'
  <2>1. CASE People
    BY <1>2, <2>1, PeopleEdit, LoadableInvEdit DEF LoseCandidates
  <2>2. CASE World \/ UNCHANGED vars
    BY <1>2, <2>2, WorldKeepsFiles, SameRun
  <2> QED
    BY <1>2, <2>1, <2>2, LoadableInvProgram, LoadableInvCrash DEF Next
<1>3. Types /\ WriterInv /\ [Next]_vars => WriterInv'
  BY WriterInvNext
<1>4. LoadableInv => AlwaysLoadable
  BY DEF LoadableInv, AlwaysLoadable
<1> QED
  BY <1>1, <1>2, <1>3, <1>4, TypesInvariant, PTL DEF Spec

-----------------------------------------------------------------------------
(* The three files together.                                                *)

(* Without a journal the candidates file carries the hash of what it        *)
(* renders to: it is written so at the end of persist only, and nobody can  *)
(* touch the pair between the renames and that write.                       *)
SyncInv ==
    /\ pc \in {"csv_renamed", "both_renamed"} => csv = NewRows
    /\ pc = "both_renamed" => prov = NewProvenance
    /\ doc # NoFile /\ doc.pending = NoJournal =>
        /\ doc.hash = <<RenderRows(doc.entries), RenderProvenance(doc.entries)>>
        /\ doc.hash \in CsvFile \X ProvenanceFile

LEMMA SyncInvNext ==
    ASSUME Types, SyncInv, [Next]_vars
    PROVE  SyncInv'
<1> USE DEF files, run, people
<1>1. CASE StartRun \/ RejectWrite \/ Crash
  BY <1>1 DEF StartRun, RejectWrite, Crash, Idle, SyncInv
<1>2. CASE SaveCandidates
  <2>1. doc' # NoFile /\ doc'.pending # NoJournal
    BY <1>2, DocTyped, JournalTyped, AbsenceAssumption DEF SaveCandidates
  <2> QED
    BY <1>2, <2>1 DEF SaveCandidates, SyncInv
<1>3. CASE RenameCsv \/ RenameProvenance
  BY <1>3 DEF RenameCsv, RenameProvenance, SyncInv, NewRows, NewProvenance
<1>4. CASE ClearJournal
  <2>1. csv = RenderRows(entries) /\ prov = RenderProvenance(entries)
    BY <1>4 DEF ClearJournal, SyncInv, NewRows, NewProvenance
  <2>2. csv \in CsvFile /\ prov \in ProvenanceFile /\ csv # NoFile
    BY <2>1, NewFilesTyped, AbsenceAssumption DEF NewRows, NewProvenance
  <2> QED
    BY <1>4, <2>1, <2>2 DEF ClearJournal, Idle, SyncInv, CommittedHash
<1>5. CASE People
  <2>1. CASE LoseCandidates
    BY <2>1 DEF LoseCandidates, SyncInv
  <2>2. ASSUME NEW rows, NEW p, EditPair(rows, p)
        PROVE  SyncInv'
    BY <2>2 DEF EditPair, PeopleMayEdit, SyncInv
  <2> QED
    BY <1>5, <2>1, <2>2, PeopleEdit
<1>6. CASE World \/ UNCHANGED vars
  BY <1>6, WorldKeepsFiles DEF SyncInv, NewRows, NewProvenance
<1> QED
  BY <1>1, <1>2, <1>3, <1>4, <1>5, <1>6 DEF Next, Program

(* A candidates file with no journal and the hash of the pair renders to    *)
(* the pair, with no premise: also when people edit while a run gathers, or *)
(* bring back old bytes, and whichever files are lost.                      *)
THEOREM CleanIsInSync == Spec => []CleanMeansInSync
<1>1. Init => SyncInv
  BY DEF Init, SyncInv
<1>2. Types /\ SyncInv /\ [Next]_vars => SyncInv'
  BY SyncInvNext
<1>3. SyncInv => CleanMeansInSync
  BY AbsenceAssumption DEF SyncInv, CleanMeansInSync, CommittedHash
<1> QED
  BY <1>1, <1>2, <1>3, TypesInvariant, PTL DEF Spec

-----------------------------------------------------------------------------
(* Reading a human decision back from the row it was rendered to.           *)

Faithful(d) ==
    d.status \in HUMAN =>
        /\ d.record = NoRecord
        /\ d.status = "no_pin" => d.at = NoCoord
        /\ d.status = "pinned" => d.at # NoCoord

LEMMA ReadBack ==
    ASSUME NEW d \in Decision, d.status \in HUMAN, Faithful(d), NEW k, NEW files_prov
    PROVE  RowOf(d).verification = "human" /\ DecisionOf(k, RowOf(d), files_prov) = d
BY DEF Decision, HUMAN, Faithful, RowOf, DecisionOf

LEMMA ReadIsFaithful ==
    ASSUME NEW row \in Row, NEW k, NEW files_prov
    PROVE  Faithful(DecisionOf(k, row, files_prov))
BY DEF Row, HUMAN, Faithful, DecisionOf

\* The decisions D are among the entries E; they are among the rows.
InEntries(D, E) == \A k \in DOMAIN D : k \in DOMAIN E /\ E[k].decision = D[k]
InRows(D, rows) ==
    \A k \in DOMAIN D :
        /\ k \in DOMAIN rows /\ rows[k].verification = "human"
        /\ DecisionOf(k, rows[k], NoEntries) = D[k]

HumanDecisions(D) ==
    D \in Dicts(Keys, Decision) /\ \A k \in DOMAIN D : D[k].status \in HUMAN /\ Faithful(D[k])

AllFaithful(E) == \A k \in DOMAIN E : Faithful(E[k].decision)

LEMMA EntriesToRows ==
    ASSUME NEW D, HumanDecisions(D), NEW E, InEntries(D, E)
    PROVE  InRows(D, RenderRows(E))
<1> SUFFICES ASSUME NEW k \in DOMAIN D
             PROVE  /\ k \in DOMAIN RenderRows(E) /\ RenderRows(E)[k].verification = "human"
                    /\ DecisionOf(k, RenderRows(E)[k], NoEntries) = D[k]
  BY DEF InRows
<1>1. D[k] \in Decision /\ D[k].status \in HUMAN /\ Faithful(D[k])
  BY DictElim DEF HumanDecisions
<1>2. k \in DOMAIN E /\ E[k].decision = D[k] /\ IsDecided(E[k])
  BY <1>1 DEF InEntries, IsDecided, DECIDED
<1>3. k \in DOMAIN RenderRows(E) /\ RenderRows(E)[k] = RowOf(D[k])
  BY <1>2 DEF RenderRows
<1> QED
  BY <1>1, <1>3, ReadBack

LEMMA RowsToEntries ==
    ASSUME NEW D, NEW E \in Dicts(Keys, SoundEntry), AllFaithful(E), InRows(D, RenderRows(E))
    PROVE  InEntries(D, E)
<1> SUFFICES ASSUME NEW k \in DOMAIN D
             PROVE  k \in DOMAIN E /\ E[k].decision = D[k]
  BY DEF InEntries
<1>1. /\ k \in DOMAIN E /\ IsDecided(E[k])
      /\ RenderRows(E)[k] = RowOf(E[k].decision)
      /\ RowOf(E[k].decision).verification = "human"
      /\ DecisionOf(k, RowOf(E[k].decision), NoEntries) = D[k]
  BY DEF InRows, RenderRows
<1>2. E[k].decision \in Decision /\ Faithful(E[k].decision)
  BY <1>1, DictElim DEF SoundEntry, SoundDecision, AllFaithful
<1>3. E[k].decision.status \in HUMAN
  BY <1>1 DEF RowOf, IsDecided, DECIDED
<1> QED
  BY <1>1, <1>2, <1>3, ReadBack

LEMMA RowsToRebuilt ==
    ASSUME NEW D, NEW local, NEW rows, NEW files_prov, InRows(D, rows)
    PROVE  InEntries(D, Rebuild(local, rows, files_prov))
<1>1. \A k \in DOMAIN D : DecisionOf(k, rows[k], files_prov) = DecisionOf(k, rows[k], NoEntries)
  BY DEF InRows, DecisionOf
<1> QED
  BY <1>1 DEF InRows, InEntries, Rebuild

LEMMA RebuiltFaithful ==
    ASSUME NEW local, NEW rows \in Dicts(Keys, Row), NEW files_prov
    PROVE  AllFaithful(Rebuild(local, rows, files_prov))
<1>1. \A k \in DOMAIN rows : rows[k] \in Row
  BY DictElim
<1>2. Faithful(Pending)
  BY DEF Faithful, Pending, HUMAN
<1> QED
  BY <1>1, <1>2, ReadIsFaithful DEF AllFaithful, Rebuild

-----------------------------------------------------------------------------
(* What keeps a decision: it is in the committed rows at any time, in the   *)
(* memory of a run while there is one, and in the candidates file whenever  *)
(* that is what the next run would start from.                              *)

DecidedInv ==
    /\ HumanDecisions(decided)
    /\ \A k \in DOMAIN decided : AtHome(k, inst)
    /\ AllFaithful(entries)
    /\ doc # NoFile => AllFaithful(doc.entries)
    /\ InRows(decided, CommittedRows)
    /\ pc # "idle" => InEntries(decided, entries)
    /\ pc \in {"journalled", "csv_renamed", "both_renamed"} => doc # NoFile /\ doc.entries = entries
    /\ doc # NoFile /\ doc.pending # NoJournal => doc.pending.csv = RenderRows(doc.entries)
    /\ doc # NoFile /\ doc.hash = CommittedHash => InEntries(decided, doc.entries)

LEMMA FewerDecisions ==
    ASSUME NEW D, NEW S
    PROVE  /\ HumanDecisions(D) => HumanDecisions(Without(D, S))
           /\ \A E : InEntries(D, E) => InEntries(Without(D, S), E)
           /\ \A rows : InRows(D, rows) => InRows(Without(D, S), rows)
<1>1. HumanDecisions(D) => Without(D, S) \in Dicts(Keys, Decision)
  BY WithoutDict DEF HumanDecisions
<1>2. DOMAIN Without(D, S) \subseteq DOMAIN D /\ \A k \in DOMAIN Without(D, S) : Without(D, S)[k] = D[k]
  BY DEF Without
<1> HIDE DEF Without
<1> QED
  BY <1>1, <1>2 DEF HumanDecisions, InEntries, InRows

\* The entries the next run starts from hold the decisions.
LEMMA ReconciledHasDecisions ==
    ASSUME Types, DecidedInv, Loadable
    PROVE  InEntries(decided, Reconciled)
<1>1. CASE LocalStands /\ doc.hash = CommittedHash
  BY <1>1 DEF DecidedInv, Reconciled, LocalStands, LocalEntries
<1>2. CASE LocalStands /\ Torn
  <2>1. doc # NoFile /\ doc.pending # NoJournal /\ csv = doc.pending.csv
    BY <1>2 DEF Torn, TornByJournal
  <2>2. csv \in CsvFile
    BY <2>1 DEF Types, Document, Journal
  <2>3. CommittedRows = RenderRows(doc.entries)
    BY <2>1, <2>2, AbsenceAssumption DEF CommittedRows, DecidedInv
  <2>4. doc.entries \in Dicts(Keys, SoundEntry) /\ AllFaithful(doc.entries)
    BY <2>1 DEF Types, DecidedInv
  <2>5. InEntries(decided, doc.entries)
    BY <2>3, <2>4, RowsToEntries DEF DecidedInv
  <2> QED
    BY <1>2, <2>1, <2>5 DEF Reconciled, LocalEntries
<1>3. CASE ~LocalStands
  <2>1. ~Torn
    BY <1>3 DEF LocalStands, Torn, TornByJournal
  <2> QED
    BY <1>3, <2>1, RowsToRebuilt DEF Reconciled, DecidedInv
<1> QED
  BY <1>1, <1>2, <1>3 DEF LocalStands

LEMMA ReconciledFaithful ==
    ASSUME Types, doc # NoFile => AllFaithful(doc.entries)
    PROVE  AllFaithful(Reconciled)
<1>1. CASE LocalStands
  BY <1>1 DEF Reconciled, LocalStands, LocalEntries
<1>2. CASE ~LocalStands
  <2>1. NoEntries \in Dicts(Keys, Row) /\ CommittedRows \in Dicts(Keys, Row)
    BY NoEntriesDict, CommittedTyped DEF CsvFile
  <2> QED
    BY <1>2, <2>1, RebuiltFaithful DEF Reconciled
<1> QED
  BY <1>1, <1>2

\* One run keeps those at home, but for the branches it retires.
LEMMA GatheredHasDecisions ==
    ASSUME NEW E \in Dicts(Keys, SoundEntry), NEW addresses \in Dicts(Pairs, Addresses),
           NEW inventory \in SUBSET BranchKeys, NEW full \in BOOLEAN, NEW day,
           NEW found, AllFaithful(E),
           NEW D, HumanDecisions(D), InEntries(D, E), \A k \in DOMAIN D : AtHome(k, addresses)
    PROVE  LET G == Gathered(E, addresses, inventory, full,
                             ToGather(E, addresses, inventory, full), found, day)
               rest == IF full THEN Without(D, BranchKeys \ inventory) ELSE D
           IN  AllFaithful(G) /\ InEntries(rest, G)
<1> DEFINE gathering == ToGather(E, addresses, inventory, full)
           retired == IF full THEN BranchKeys \ inventory ELSE {}
           kept == KeptKeys(E, addresses) \ retired
           G == Gathered(E, addresses, inventory, full, gathering, found, day)
           rest == IF full THEN Without(D, BranchKeys \ inventory) ELSE D
<1>1. gathering \in Dicts(Keys, PendingEntries)
  BY ToGatherTyped
<1>2. \A k \in DOMAIN gathering : gathering[k] \in Entry /\ gathering[k].decision = Pending
  BY <1>1, DictElim DEF PendingEntries
<1> HIDE DEF gathering
<1>3. /\ DOMAIN G = kept \cup DOMAIN gathering
      /\ \A k \in kept : G[k] = E[k]
      /\ \A k \in DOMAIN G \ kept :
            G[k] = gathering[k] \/ G[k] = [gathering[k] EXCEPT !.decision = AutoDecision(found[k], day)]
  BY DEF Gathered
<1>4. \A k \in kept : k \in DOMAIN E
  BY DEF KeptKeys, Current, Live
<1>5. Faithful(Pending) /\ \A c : Faithful(AutoDecision(c, day))
  BY DEF Faithful, Pending, AutoDecision, HUMAN
<1>6. AllFaithful(G)
  <2> SUFFICES ASSUME NEW k \in DOMAIN G
               PROVE  Faithful(G[k].decision)
    BY DEF AllFaithful
  <2>1. CASE k \in kept
    BY <2>1, <1>3, <1>4 DEF AllFaithful
  <2>2. CASE k \notin kept
    <3>1. k \in DOMAIN gathering
      BY <2>2, <1>3
    <3>2. G[k].decision \in {Pending, AutoDecision(found[k], day)}
      BY <2>2, <3>1, <1>2, <1>3 DEF Entry
    <3> QED
      BY <3>2, <1>5
  <2> QED
    BY <2>1, <2>2
<1>7. \A k \in DOMAIN rest : k \in DOMAIN D /\ k \notin retired /\ rest[k] = D[k]
  BY DEF Without
<1>8. \A k \in DOMAIN D : k \in KeptKeys(E, addresses)
  <2> SUFFICES ASSUME NEW k \in DOMAIN D
               PROVE  k \in KeptKeys(E, addresses)
    OBVIOUS
  <2>1. k \in DOMAIN E /\ IsHuman(E[k]) /\ AtHome(k, addresses)
    BY DEF InEntries, HumanDecisions, IsHuman
  <2> QED
    BY <2>1 DEF KeptKeys, Current, Live, Stale, AtHome
<1>9. InEntries(rest, G)
  BY <1>3, <1>7, <1>8 DEF InEntries
<1> QED
  BY <1>6, <1>9 DEF gathering

-----------------------------------------------------------------------------
(* The steps.                                                               *)

LEMMA StartRunKeepsDecisions ==
    ASSUME Types, DecidedInv, StartRun
    PROVE  DecidedInv'
<1>1. PICK inventory \in SUBSET BranchKeys, full \in BOOLEAN :
        \E found :
            /\ entries' = Gathered(Reconciled, inst, inventory, full,
                                   ToGather(Reconciled, inst, inventory, full), found, today)
            /\ decided' = IF full THEN Without(decided, BranchKeys \ inventory) ELSE decided
  BY DEF StartRun
<1>2. PICK found :
        /\ entries' = Gathered(Reconciled, inst, inventory, full,
                               ToGather(Reconciled, inst, inventory, full), found, today)
        /\ decided' = IF full THEN Without(decided, BranchKeys \ inventory) ELSE decided
  BY <1>1
<1>3. /\ UNCHANGED <<inst, csv, prov, doc>> /\ pc' = "gathered" /\ Loadable
  BY DEF StartRun, files
<1>4. Reconciled \in Dicts(Keys, SoundEntry) /\ inst \in Dicts(Pairs, Addresses)
  BY <1>3, ReconciledTyped DEF Types, Addressings
<1>5. AllFaithful(entries') /\ InEntries(decided', entries')
  BY <1>2, <1>3, <1>4, ReconciledFaithful, ReconciledHasDecisions, GatheredHasDecisions
  DEF DecidedInv
<1>6. \E S : decided' = Without(decided, S)
  <2>1. CASE full
    BY <2>1, <1>2
  <2>2. CASE ~full
    <3>1. decided = Without(decided, {})
      BY DictElim DEF Without, DecidedInv, HumanDecisions
    <3> QED
      BY <2>2, <1>2, <3>1
  <2> QED
    BY <2>1, <2>2
<1>7. /\ HumanDecisions(decided') /\ InRows(decided', CommittedRows)
      /\ \A E : InEntries(decided, E) => InEntries(decided', E)
      /\ \A k \in DOMAIN decided' : k \in DOMAIN decided
  <2>1. PICK S : decided' = Without(decided, S)
    BY <1>6
  <2>2. HumanDecisions(decided') /\ InRows(decided', CommittedRows)
    BY <2>1, FewerDecisions DEF DecidedInv
  <2>3. \A E : InEntries(decided, E) => InEntries(decided', E)
    BY <2>1, FewerDecisions
  <2>4. \A k \in DOMAIN decided' : k \in DOMAIN decided
    BY <2>1 DEF Without
  <2> QED
    BY <2>2, <2>3, <2>4
<1> QED
  BY <1>3, <1>5, <1>7 DEF DecidedInv, CommittedRows, CommittedHash

LEMMA PersistKeepsDecisions ==
    ASSUME Types, DecidedInv,
           \/ SaveCandidates \/ RejectWrite \/ RenameCsv \/ RenameProvenance \/ ClearJournal \/ Crash
    PROVE  DecidedInv'
<1> USE DEF files, people
<1>1. CASE SaveCandidates
  <2>1. doc' = [hash |-> CommittedHash, entries |-> entries,
                pending |-> [csv |-> NewRows, provenance |-> NewProvenance, previous |-> prov]]
    BY <1>1 DEF SaveCandidates
  <2>2. doc' # NoFile
    BY <2>1, DocTyped, JournalTyped
  <2> QED
    BY <1>1, <2>1, <2>2 DEF SaveCandidates, DecidedInv, NewRows, CommittedRows, CommittedHash
<1>2. CASE RejectWrite \/ Crash
  BY <1>2 DEF RejectWrite, Crash, Idle, DecidedInv, CommittedRows, CommittedHash, AllFaithful,
              NoEntries
<1>3. CASE RenameCsv
  <2>1. csv' = NewRows /\ CommittedRows' = NewRows
    BY <1>3, NewFilesTyped, AbsenceAssumption DEF RenameCsv, CommittedRows
  <2>2. InRows(decided, NewRows)
    BY <1>3, EntriesToRows DEF RenameCsv, DecidedInv, NewRows
  <2> QED
    BY <1>3, <2>1, <2>2 DEF RenameCsv, DecidedInv
<1>4. CASE RenameProvenance
  BY <1>4 DEF RenameProvenance, DecidedInv, CommittedRows
<1>5. CASE ClearJournal
  <2>1. doc' = [hash |-> CommittedHash, entries |-> entries, pending |-> NoJournal]
    BY <1>5 DEF ClearJournal
  <2> QED
    BY <1>5, <2>1 DEF ClearJournal, Idle, DecidedInv, CommittedRows, CommittedHash, AllFaithful,
                      NoEntries
<1> QED
  BY <1>1, <1>2, <1>3, <1>4, <1>5

\* An edit never brings back the pair the candidates file was stamped with.
LEMMA EditKeepsDecisions ==
    ASSUME ~EditsDuringRun, ~EditsMayRestore, DecidedInv,
           NEW rows, NEW p, EditPair(rows, p), csv' # NoFile,
           HumanDecisions(decided'), \A k \in DOMAIN decided' : AtHome(k, inst),
           InRows(decided', rows)
    PROVE  DecidedInv'
<1>1. /\ UNCHANGED <<inst, doc, pc, entries>> /\ csv' = rows /\ prov' = p /\ pc = "idle"
      /\ ~Restores(rows, p)
  BY DEF EditPair, PeopleMayEdit, run
<1>2. CommittedRows' = rows /\ CommittedHash' = <<rows, p>>
  BY <1>1 DEF CommittedRows, CommittedHash
<1>3. doc # NoFile => doc.hash # CommittedHash'
  BY <1>1, <1>2 DEF Restores
<1> QED
  BY <1>1, <1>2, <1>3 DEF DecidedInv

LEMMA HandWriteKeepsDecisions ==
    ASSUME ~EditsDuringRun, ~EditsMayRestore, Types, DecidedInv,
           NEW k \in Keys, NEW s \in HandStatuses, NEW c \in Coords, HandWrite(k, s, c)
    PROVE  DecidedInv'
<1> DEFINE d == [status |-> s, on |-> today, record |-> NoRecord,
                 at |-> IF s = "no_pin" THEN NoCoord ELSE c]
           replaced == IF k.role = "main" THEN MainsOf(k.pair) ELSE {}
           superseded == {j \in DOMAIN decided : j.role = "main" /\ j.pair = k.pair}
           gone == IF k.role = "main" THEN superseded ELSE {}
           rows == With(Without(CommittedRows, replaced), k, RowOf(d))
<1>1. /\ EditPair(rows, ProvenanceFor(rows)) /\ k.pair \in DOMAIN inst
      /\ k.role = "main" => inst[k.pair] = k.address
      /\ decided' = With(Without(decided, gone), k, d)
  BY DEF HandWrite
<1>2. d \in Decision /\ s \in HUMAN /\ Faithful(d)
  <2>1. s \in HUMAN
    BY SwitchAssumption
  <2>2. c # NoCoord
    BY EntriesAssumption
  <2> QED
    BY <2>1, <2>2 DEF Types, Decision, STATUSES, DECIDED, HUMAN, Point, Faithful
<1>3. /\ HumanDecisions(Without(decided, gone)) /\ DOMAIN decided \subseteq Keys
      /\ DOMAIN Without(decided, gone) = DOMAIN decided \ gone
      /\ \A j \in DOMAIN decided \ gone : Without(decided, gone)[j] = decided[j]
  BY FewerDecisions, DictElim DEF DecidedInv, HumanDecisions, Without
<1>4. /\ DOMAIN decided' = (DOMAIN decided \ gone) \cup {k} /\ decided'[k] = d
      /\ \A j \in DOMAIN decided \ (gone \cup {k}) : decided'[j] = decided[j]
  BY <1>1, <1>3 DEF With
<1>5. HumanDecisions(decided')
  <2>1. decided' \in Dicts(Keys, Decision)
    BY <1>1, <1>2, <1>3, WithDict DEF HumanDecisions
  <2> QED
    BY <1>2, <1>4, <2>1 DEF HumanDecisions, DecidedInv
<1>6. \A j \in DOMAIN decided' : AtHome(j, inst)
  BY <1>1, <1>4 DEF DecidedInv, AtHome
<1>7. InRows(decided', rows)
  <2>1. k \in DOMAIN rows /\ rows[k] = RowOf(d)
    BY DEF With
  <2>2. \A j \in DOMAIN decided \ (gone \cup {k}) : j \in DOMAIN rows /\ rows[j] = CommittedRows[j]
    BY DEF With, Without, MainsOf, DecidedInv, InRows
  <2>3. RowOf(d).verification = "human" /\ DecisionOf(k, RowOf(d), NoEntries) = d
    BY <1>2, ReadBack
  <2> HIDE DEF d, rows, gone
  <2> QED
    BY <1>4, <2>1, <2>2, <2>3 DEF InRows, DecidedInv
<1>8. csv' # NoFile
  BY HandWriteTyped, AbsenceAssumption
<1> HIDE DEF rows
<1> QED
  BY <1>1, <1>5, <1>6, <1>7, <1>8, EditKeepsDecisions

LEMMA HandRemoveKeepsDecisions ==
    ASSUME ~EditsDuringRun, ~EditsMayRestore, Types, DecidedInv, NEW k \in Keys, HandRemove(k)
    PROVE  DecidedInv'
<1>1. /\ EditPair(Without(CommittedRows, {k}), ProvenanceFor(Without(CommittedRows, {k})))
      /\ decided' = Without(decided, {k})
  BY DEF HandRemove
<1>2. HumanDecisions(decided') /\ \A j \in DOMAIN decided' : AtHome(j, inst)
  BY <1>1, FewerDecisions DEF DecidedInv, Without
<1>3. InRows(decided', Without(CommittedRows, {k}))
  BY <1>1 DEF DecidedInv, InRows, Without
<1>4. csv' # NoFile
  BY HandRemoveTyped, AbsenceAssumption
<1> QED
  BY <1>1, <1>2, <1>3, <1>4, EditKeepsDecisions

LEMMA HandMistakeKeepsDecisions ==
    ASSUME ~EditsDuringRun, ~EditsMayRestore, Types, DecidedInv, NEW k \in Keys, HandMistake(k)
    PROVE  DecidedInv'
<1>1. /\ UNCHANGED decided /\ k \in DOMAIN CommittedRows /\ CommittedRows[k].verification = "auto"
      /\ csv # NoFile /\ CommittedRows = csv
  BY HandMistakeTyped DEF HandMistake, AutoRows, CommittedRows, NoEntries
<1>2. PICK rows, p : EditPair(rows, p) /\ (rows = csv \/ rows = [csv EXCEPT ![k].at = Typo])
  BY DEF HandMistake
<1>3. k \notin DOMAIN decided
  BY <1>1 DEF DecidedInv, InRows
<1>4. InRows(decided, rows)
  BY <1>1, <1>2, <1>3 DEF DecidedInv, InRows
<1>5. csv' # NoFile
  BY HandMistakeTyped, AbsenceAssumption
<1> QED
  BY <1>1, <1>2, <1>4, <1>5, EditKeepsDecisions DEF DecidedInv

\* What happens to the database can only retire decisions.
LEMMA WorldKeepsDecisions ==
    ASSUME Types, DecidedInv, World
    PROVE  DecidedInv'
<1>1. UNCHANGED <<csv, prov, doc, pc, entries>>
  BY WorldKeepsFiles
<1>2. \E S : decided' = Without(decided, S) /\ \A k \in DOMAIN decided \ S : AtHome(k, inst')
  <2>1. CASE NextDay
    <3>1. decided = Without(decided, {})
      BY DictElim DEF Without, DecidedInv, HumanDecisions
    <3> QED
      BY <2>1, <3>1 DEF NextDay, people, DecidedInv
  <2>2. ASSUME NEW p \in Pairs, DropInstitution(p)
        PROVE  \E S : decided' = Without(decided, S) /\ \A k \in DOMAIN decided \ S : AtHome(k, inst')
    <3> DEFINE S == {k \in DOMAIN decided : k.pair = p}
    <3>1. decided' = Without(decided, S) /\ inst' = Without(inst, {p})
      BY <2>2 DEF DropInstitution
    <3>2. \A k \in DOMAIN decided \ S : AtHome(k, inst')
      BY <3>1 DEF DecidedInv, AtHome, Without
    <3> QED
      BY <3>1, <3>2
  <2>3. ASSUME NEW p \in Pairs, NEW a \in Addresses, SetAddress(p, a)
        PROVE  \E S : decided' = Without(decided, S) /\ \A k \in DOMAIN decided \ S : AtHome(k, inst')
    <3> DEFINE S == {k \in DOMAIN decided : k.pair = p /\ Elsewhere(k, With(inst, p, a))}
    <3>1. decided' = Without(decided, S) /\ inst' = With(inst, p, a)
      BY <2>3 DEF SetAddress
    <3>2. \A k \in DOMAIN decided \ S : AtHome(k, inst')
      BY <3>1 DEF DecidedInv, AtHome, With, Elsewhere
    <3> QED
      BY <3>1, <3>2
  <2> QED
    BY <2>1, <2>2, <2>3 DEF World
<1>3. PICK S : decided' = Without(decided, S) /\ \A k \in DOMAIN decided \ S : AtHome(k, inst')
  BY <1>2
<1>4. /\ HumanDecisions(decided') /\ InRows(decided', CommittedRows)
      /\ \A E : InEntries(decided, E) => InEntries(decided', E)
  BY <1>3, FewerDecisions DEF DecidedInv
<1>5. \A k \in DOMAIN decided' : AtHome(k, inst')
  BY <1>3 DEF Without
<1> QED
  BY <1>1, <1>4, <1>5 DEF DecidedInv, CommittedRows, CommittedHash

LEMMA DecidedInvNext ==
    ASSUME ~EditsDuringRun, ~EditsMayRestore, Types, DecidedInv, [Next]_vars
    PROVE  DecidedInv'
<1>1. CASE Program \/ Crash
  BY <1>1, StartRunKeepsDecisions, PersistKeepsDecisions DEF Program
<1>2. CASE LoseCandidates
  BY <1>2 DEF LoseCandidates, DecidedInv, CommittedRows, run, people
<1>3. CASE People /\ ~LoseCandidates
  BY <1>3, HandWriteKeepsDecisions, HandRemoveKeepsDecisions, HandMistakeKeepsDecisions DEF People
<1>4. CASE World
  BY <1>4, WorldKeepsDecisions
<1>5. CASE UNCHANGED vars
  BY <1>5 DEF vars, files, run, people, DecidedInv, CommittedRows, CommittedHash
<1> QED
  BY <1>1, <1>2, <1>3, <1>4, <1>5 DEF Next

(* A row a person wrote is what the next run starts from, whatever crashes, *)
(* repairs, moves of others and lost candidates files come between, if      *)
(* people leave the pair alone while a run gathers (edit_during shows what  *)
(* happens otherwise) and no edit brings back the exact bytes a run that    *)
(* died was to replace.                                                     *)
THEOREM HumanDecisionsSurvive ==
    ASSUME ~EditsDuringRun, ~EditsMayRestore
    PROVE  Spec => []HumanDecisionSurvives
<1>1. Init => DecidedInv
  <2> SUFFICES ASSUME Init
               PROVE  DecidedInv
    OBVIOUS
  <2>1. NoEntries \in Dicts(Keys, Decision) /\ DOMAIN NoEntries = {}
    BY NoEntriesDict DEF NoEntries
  <2> QED
    BY <2>1 DEF Init, DecidedInv, HumanDecisions, AllFaithful, InRows
<1>2. Types /\ DecidedInv /\ [Next]_vars => DecidedInv'
  BY DecidedInvNext
<1>3. Types /\ DecidedInv => HumanDecisionSurvives
  BY ReconciledHasDecisions DEF HumanDecisionSurvives, InEntries
<1> QED
  BY <1>1, <1>2, <1>3, TypesInvariant, PTL DEF Spec

-----------------------------------------------------------------------------
(* A moved institution waits for a person: the flag, or what makes plan     *)
(* raise it, is kept in the rows or in the candidates file at any time, and *)
(* in the memory of a run while there is one.                               *)

Mains(dict, p) == {k \in DOMAIN dict : k.role = "main" /\ k.pair = p}

(* The entries E are no less careful than the rows they were made from: a   *)
(* main row is in them as it is, or its institution has a flagged or a      *)
(* human entry; and no human entry of a main building is without its row.   *)
Accounts(E, rows) ==
    /\ \A k \in DOMAIN rows : k.role = "main" =>
        \E j \in Mains(E, k.pair) :
            \/ E[j].changed
            \/ IsHuman(E[j])
            \/ j = k /\ rows[k].verification = "auto"
    /\ \A j \in DOMAIN E : j.role = "main" /\ IsHuman(E[j]) => j \in DOMAIN rows

Known(keys) == \A k \in keys : k.role = "main" => k.pair \in DOMAIN inst
HashedRows == IF doc.hash = NoFile THEN NoEntries ELSE doc.hash[1]

AutoAreMains(rows) == \A k \in AutoRows(rows) : k.role = "main"
RowsInv ==
    /\ OneMainEach(CommittedRows)
    /\ AutoAreMains(CommittedRows)
    /\ Known(DOMAIN CommittedRows)

DocInv ==
    doc # NoFile =>
        /\ Accounts(doc.entries, HashedRows)
        /\ doc.pending # NoJournal => doc.pending.csv = RenderRows(doc.entries)

RunInv ==
    pc # "idle" =>
        /\ Accounts(entries, CommittedRows)
        /\ OneMainEach(entries)
        /\ Known(DOMAIN entries)
        /\ \A k \in AutoKeys(entries) : ~entries[k].changed
        /\ pc # "gathered" => doc # NoFile /\ doc.entries = entries

\* The building is the one the institution moved away from.
Was(k, p) == NormalForm[k.address] = moved[p]

FlagInFiles(p) ==
    /\ \A k \in Mains(CommittedRows, p) : CommittedRows[k].verification = "human" \/ Was(k, p)
    /\ Mains(CommittedRows, p) = {} =>
        /\ doc # NoFile
        /\ \E j \in Mains(doc.entries, p) : doc.entries[j].changed \/ Was(j, p)

FlagInMemory(p) ==
    pc # "idle" =>
        \E j \in Mains(entries, p) : entries[j].changed \/ IsHuman(entries[j]) \/ Was(j, p)

FlagHeld(p) ==
    /\ p \in DOMAIN inst /\ NormalForm[inst[p]] # moved[p]
    /\ FlagInFiles(p)
    /\ FlagInMemory(p)

ReviewInv == RowsInv /\ DocInv /\ RunInv /\ \A p \in DOMAIN moved : FlagHeld(p)

LEMMA RenderAccounts ==
    ASSUME NEW E
    PROVE  Accounts(E, RenderRows(E))
<1>1. DOMAIN RenderRows(E) = {k \in DOMAIN E : IsDecided(E[k])}
      /\ \A k \in DOMAIN RenderRows(E) : RenderRows(E)[k] = RowOf(E[k].decision)
  BY DEF RenderRows
<1>2. \A k \in DOMAIN E : IsHuman(E[k]) => IsDecided(E[k])
  BY DEF IsHuman, IsDecided, DECIDED
<1>3. \A k \in DOMAIN E : IsDecided(E[k]) =>
          IsHuman(E[k]) \/ RowOf(E[k].decision).verification = "auto"
  BY DEF IsHuman, IsDecided, DECIDED, RowOf
<1> QED
  BY <1>1, <1>2, <1>3 DEF Accounts, Mains

LEMMA RebuildAccounts ==
    ASSUME NEW local, NEW rows \in Dicts(Keys, Row), NEW files_prov
    PROVE  Accounts(Rebuild(local, rows, files_prov), rows)
<1> DEFINE E == Rebuild(local, rows, files_prov)
<1>1. /\ DOMAIN E = DOMAIN rows \cup DOMAIN local
      /\ \A k \in DOMAIN rows : E[k].decision = DecisionOf(k, rows[k], files_prov)
      /\ \A k \in DOMAIN E \ DOMAIN rows : E[k].decision = Pending
  BY DEF Rebuild
<1>2. \A k \in DOMAIN rows : rows[k].verification = "auto" \/ IsHuman(E[k])
  <2> SUFFICES ASSUME NEW k \in DOMAIN rows, rows[k].verification # "auto"
               PROVE  IsHuman(E[k])
    OBVIOUS
  <2>1. DecisionOf(k, rows[k], files_prov).status \in HUMAN
    BY DEF DecisionOf, HUMAN
  <2> HIDE DEF E
  <2> QED
    BY <1>1, <2>1 DEF IsHuman
<1>3. \A k \in DOMAIN E \ DOMAIN rows : ~IsHuman(E[k])
  BY <1>1 DEF IsHuman, Pending, HUMAN
<1> HIDE DEF E
<1>4. Accounts(E, rows)
  BY <1>1, <1>2, <1>3 DEF Accounts, Mains
<1> QED
  BY <1>4 DEF E

\* What the next run starts from accounts for the committed rows.
LEMMA ReconciledAccounts ==
    ASSUME Types, DocInv
    PROVE  Accounts(Reconciled, CommittedRows)
<1>1. CASE LocalStands /\ doc.hash = CommittedHash
  <2>1. HashedRows = CommittedRows
    BY <1>1, AbsenceAssumption DEF HashedRows, CommittedHash, CommittedRows, Types
  <2> QED
    BY <1>1, <2>1 DEF DocInv, Reconciled, LocalStands, LocalEntries
<1>2. CASE LocalStands /\ Torn
  <2>1. doc # NoFile /\ doc.pending # NoJournal /\ csv = doc.pending.csv
    BY <1>2 DEF Torn, TornByJournal
  <2>2. csv \in CsvFile
    BY <2>1 DEF Types, Document, Journal
  <2>3. CommittedRows = RenderRows(doc.entries)
    BY <2>1, <2>2, AbsenceAssumption DEF CommittedRows, DocInv
  <2> QED
    BY <1>2, <2>1, <2>3, RenderAccounts DEF Reconciled, LocalEntries
<1>3. CASE ~LocalStands
  <2>1. ~Torn
    BY <1>3 DEF LocalStands, Torn, TornByJournal
  <2>2. CommittedRows \in Dicts(Keys, Row)
    BY CommittedTyped DEF CsvFile
  <2> QED
    BY <1>3, <2>1, <2>2, RebuildAccounts DEF Reconciled
<1> QED
  BY <1>1, <1>2, <1>3 DEF LocalStands

(* What one run makes of a main building: a flag, a move or a person's      *)
(* decision is never lost, and only what has none of them becomes `auto`.   *)
Careful(E, addresses, G) ==
    /\ \A k \in AutoKeys(G) : ~G[k].changed
    /\ \A k \in DOMAIN G : IsHuman(G[k]) => k \in DOMAIN E /\ IsHuman(E[k])
    /\ \A k \in DOMAIN E :
        k.role = "main" /\ k.pair \in DOMAIN addresses =>
            /\ Stale(k, addresses) \/ E[k].changed \/ IsHuman(E[k]) =>
                \E j \in Mains(G, k.pair) : G[j].changed \/ IsHuman(G[j])
            /\ ~Stale(k, addresses) => k \in DOMAIN G

\* What a run decides goes back to what it started from, or is an `auto`
\* row of a main building.
Continues(E, start) ==
    \A k \in DOMAIN E : IsDecided(E[k]) =>
        \/ IsHuman(E[k]) /\ k \in DOMAIN start /\ start[k].decision = E[k].decision
        \/ E[k].decision.status = "auto" /\ k.role = "main"

LEMMA GatheredIsCareful ==
    ASSUME NEW E \in Dicts(Keys, SoundEntry), NEW addresses \in Dicts(Pairs, Addresses),
           NEW inventory \in SUBSET BranchKeys, NEW full \in BOOLEAN, NEW day,
           NEW found
    PROVE  LET G == Gathered(E, addresses, inventory, full,
                             ToGather(E, addresses, inventory, full), found, day)
           IN  Careful(E, addresses, G) /\ Continues(G, E)
<1> DEFINE plan == PlanRefresh(E, addresses)
           gathering == ToGather(E, addresses, inventory, full)
           retired == IF full THEN BranchKeys \ inventory ELSE {}
           kept == KeptKeys(E, addresses) \ retired
           G == Gathered(E, addresses, inventory, full, gathering, found, day)
<1>1. gathering \in Dicts(Keys, PendingEntries)
  BY ToGatherTyped
<1>2. \A k \in DOMAIN gathering : gathering[k] \in Entry /\ gathering[k].decision = Pending
  BY <1>1, DictElim DEF PendingEntries
<1>3. \A k \in retired : k.role # "main"
  BY KeyFields
<1>4. \A k \in DOMAIN plan : k.role = "main" => k \in DOMAIN gathering /\ gathering[k] = plan[k]
  BY <1>3 DEF ToGather, Without
<1>5. /\ DOMAIN plan = (Current(E, addresses) \ KeptKeys(E, addresses)) \cup MovedKeys(E, addresses)
      /\ \A k \in DOMAIN plan :
            plan[k].changed = (k \in MovedKeys(E, addresses) \/ (k \in DOMAIN E /\ E[k].changed))
  BY DEF PlanRefresh
<1>6. /\ DOMAIN G = kept \cup DOMAIN gathering
      /\ \A k \in kept : G[k] = E[k]
      /\ \A k \in DOMAIN G \ kept :
            \/ G[k] = gathering[k]
            \/ /\ k \in Acceptable(gathering)
               /\ G[k] = [gathering[k] EXCEPT !.decision = AutoDecision(found[k], day)]
      /\ \A k \in DOMAIN G \ kept : k \notin Acceptable(gathering) => G[k] = gathering[k]
  BY DEF Gathered
<1>7. \A k \in kept : k \in DOMAIN E /\ IsHuman(E[k]) /\ E[k].decision.status # "auto"
  BY DEF KeptKeys, Current, Live, IsHuman, HUMAN
<1> HIDE DEF gathering, plan, kept, G, retired
<1>8. \A k \in DOMAIN G \ kept : ~IsHuman(G[k]) /\ G[k].changed = gathering[k].changed
  <2> SUFFICES ASSUME NEW k \in DOMAIN G \ kept
               PROVE  ~IsHuman(G[k]) /\ G[k].changed = gathering[k].changed
    OBVIOUS
  <2>1. k \in DOMAIN gathering
    BY <1>6
  <2>2. /\ G[k].decision \in {Pending, AutoDecision(found[k], day)}
        /\ G[k].changed = gathering[k].changed
    BY <2>1, <1>2, <1>6 DEF Entry
  <2> QED
    BY <2>2 DEF IsHuman, Pending, AutoDecision, HUMAN
<1>9. ASSUME NEW k \in AutoKeys(G)
      PROVE  ~G[k].changed
  <2>1. k \in DOMAIN G /\ G[k].decision.status = "auto"
    BY DEF AutoKeys
  <2>2. k \notin kept
    BY <2>1, <1>6, <1>7
  <2>3. k \in DOMAIN gathering /\ gathering[k].decision.status # "auto"
    BY <2>1, <2>2, <1>2, <1>6 DEF Pending
  <2>4. k \in Acceptable(gathering)
    BY <2>1, <2>2, <2>3, <1>6
  <2> QED
    BY <2>1, <2>2, <2>4, <1>8 DEF Acceptable
<1>10. ASSUME NEW k \in DOMAIN G, IsHuman(G[k])
       PROVE  k \in DOMAIN E /\ IsHuman(E[k])
  BY <1>10, <1>6, <1>7, <1>8
<1>11. \A k \in KeptKeys(E, addresses) : k.role = "main" => k \in DOMAIN G /\ IsHuman(G[k])
  BY <1>3, <1>6, <1>7 DEF kept
<1>12. \A k \in DOMAIN plan \ KeptKeys(E, addresses) :
           k.role = "main" => k \in DOMAIN G /\ (plan[k].changed => G[k].changed)
  BY <1>4, <1>6, <1>8 DEF kept
<1>13. ASSUME NEW k \in DOMAIN E, k.role = "main", k.pair \in DOMAIN addresses,
              Stale(k, addresses) \/ E[k].changed \/ IsHuman(E[k])
       PROVE  \E j \in Mains(G, k.pair) : G[j].changed \/ IsHuman(G[j])
  <2>1. CASE Stale(k, addresses)
    <3> DEFINE h == MainKey(k.pair, addresses[k.pair])
    <3>1. h.role = "main" /\ h.pair = k.pair
      BY DEF MainKey
    <3>2. k \in Live(E, addresses) \ Current(E, addresses)
      BY <1>13, <2>1 DEF Live, Current
    <3>3. h \in KeptKeys(E, addresses) \/ h \in MovedKeys(E, addresses) \ KeptKeys(E, addresses)
      BY <3>2 DEF MovedKeys
    <3> HIDE DEF h
    <3> QED
      BY <3>1, <3>3, <1>5, <1>11, <1>12 DEF Mains
  <2>2. CASE ~Stale(k, addresses)
    <3>1. k \in Current(E, addresses)
      BY <1>13, <2>2 DEF Live, Current
    <3>2. CASE IsHuman(E[k])
      <4>1. k \in KeptKeys(E, addresses)
        BY <3>1, <3>2 DEF KeptKeys
      <4> QED
        BY <4>1, <1>11, <1>13 DEF Mains
    <3>3. CASE ~IsHuman(E[k])
      <4>1. k \notin KeptKeys(E, addresses)
        BY <3>3 DEF KeptKeys
      <4>2. k \in DOMAIN plan /\ plan[k].changed
        BY <3>1, <3>3, <4>1, <1>5, <1>13, <2>2
      <4> QED
        BY <4>1, <4>2, <1>12, <1>13 DEF Mains
    <3> QED
      BY <3>2, <3>3
  <2> QED
    BY <2>1, <2>2
<1>14. ASSUME NEW k \in DOMAIN E, k.role = "main", k.pair \in DOMAIN addresses,
              ~Stale(k, addresses)
       PROVE  k \in DOMAIN G
  <2>1. k \in Current(E, addresses)
    BY <1>14 DEF Live, Current
  <2> QED
    BY <2>1, <1>5, <1>11, <1>12, <1>14
<1>15. Careful(E, addresses, G)
  BY <1>9, <1>10, <1>13, <1>14 DEF Careful
<1>16. ASSUME NEW k \in DOMAIN G, IsDecided(G[k])
       PROVE  \/ IsHuman(G[k]) /\ k \in DOMAIN E /\ E[k].decision = G[k].decision
              \/ G[k].decision.status = "auto" /\ k.role = "main"
  <2>1. CASE k \in kept
    BY <2>1, <1>6, <1>7
  <2>2. CASE k \notin kept
    <3>1. k \in DOMAIN gathering /\ ~IsDecided(gathering[k])
      BY <2>2, <1>2, <1>6 DEF IsDecided, Pending, DECIDED, HUMAN
    <3>2. k \in Acceptable(gathering)
      BY <2>2, <3>1, <1>6, <1>16
    <3>3. G[k].decision.status = "auto"
      BY <2>2, <1>8, <1>16 DEF IsDecided, IsHuman, DECIDED
    <3> QED
      BY <3>2, <3>3 DEF Acceptable
  <2> QED
    BY <2>1, <2>2
<1>17. Continues(G, E)
  BY <1>16 DEF Continues
<1> QED
  BY <1>15, <1>17 DEF G, gathering

\* An institution with a held flag has one in what the next run starts from.
LEMMA ReconciledHoldsFlag ==
    ASSUME Types, DocInv, NEW p, FlagInFiles(p)
    PROVE  \E j \in Mains(Reconciled, p) :
               Reconciled[j].changed \/ IsHuman(Reconciled[j]) \/ Was(j, p)
<1>1. CASE Mains(CommittedRows, p) # {}
  <2>1. PICK k \in Mains(CommittedRows, p) : TRUE
    BY <1>1
  <2>2. k \in DOMAIN CommittedRows /\ k.role = "main" /\ k.pair = p
    BY DEF Mains
  <2>3. CommittedRows[k].verification = "human" \/ Was(k, p)
    BY DEF FlagInFiles
  <2>4. PICK j \in Mains(Reconciled, p) :
            \/ Reconciled[j].changed
            \/ IsHuman(Reconciled[j])
            \/ j = k /\ CommittedRows[k].verification = "auto"
    BY <2>2, ReconciledAccounts DEF Accounts
  <2> QED
    BY <2>3, <2>4
<1>2. CASE Mains(CommittedRows, p) = {}
  <2>1. PICK j \in Mains(doc.entries, p) : doc.entries[j].changed \/ Was(j, p)
    BY <1>2 DEF FlagInFiles
  <2>2. doc # NoFile /\ LocalEntries = doc.entries
    BY <1>2 DEF FlagInFiles, LocalEntries
  <2>3. CASE LocalStands
    BY <2>1, <2>2, <2>3 DEF Reconciled
  <2>4. CASE ~LocalStands
    <3>1. ~Torn
      BY <2>4 DEF LocalStands, Torn, TornByJournal
    <3>2. Reconciled = Rebuild(doc.entries, CommittedRows, CommittedProvenance)
      BY <2>2, <2>4, <3>1 DEF Reconciled
    <3>3. /\ DOMAIN doc.entries \subseteq DOMAIN Reconciled
          /\ \A k \in DOMAIN doc.entries :
                doc.entries[k].changed => Reconciled[k].changed
      BY <3>2 DEF Rebuild
    <3> QED
      BY <2>1, <3>3 DEF Mains
  <2> QED
    BY <2>3, <2>4
<1> QED
  BY <1>1, <1>2

LEMMA StartRunReviews ==
    ASSUME TextsAreAddresses, Types, ReviewInv, StartRun
    PROVE  ReviewInv'
<1>1. /\ UNCHANGED <<inst, csv, prov, doc, moved>> /\ pc' = "gathered" /\ Loadable
      /\ UNCHANGED <<CommittedRows, CommittedHash>>
  BY DEF StartRun, files, CommittedRows, CommittedHash
<1>2. /\ Reconciled \in Dicts(Keys, SoundEntry) /\ inst \in Dicts(Pairs, Addresses)
      /\ Accounts(Reconciled, CommittedRows)
  BY <1>1, ReconciledTyped, ReconciledAccounts DEF Types, Addressings, ReviewInv
<1>3. Careful(Reconciled, inst, entries')
  <2>1. PICK inventory \in SUBSET BranchKeys, full \in BOOLEAN :
          \E found :
              entries' = Gathered(Reconciled, inst, inventory, full,
                                  ToGather(Reconciled, inst, inventory, full), found, today)
    BY DEF StartRun
  <2>2. PICK found :
          entries' = Gathered(Reconciled, inst, inventory, full,
                              ToGather(Reconciled, inst, inventory, full), found, today)
    BY <2>1
  <2> QED
    BY <1>2, <2>2, GatheredIsCareful
<1>4. entries' \in Dicts(Keys, SoundEntry) /\ \A k \in DOMAIN entries' : AtHome(k, inst)
  BY StartRunGathers
<1>5. OneMainEach(entries') /\ \A k \in DOMAIN entries' : k.pair \in DOMAIN inst
  <2>1. \A k \in DOMAIN entries' : k \in Keys /\ AtHome(k, inst)
    BY <1>4, DictElim
  <2> HIDE DEF TextsAreAddresses
  <2>2. \A j, k \in DOMAIN entries' :
            j.role = "main" /\ k.role = "main" /\ j.pair = k.pair => j = k
    <3> SUFFICES ASSUME NEW j \in DOMAIN entries', NEW k \in DOMAIN entries',
                        j.role = "main", k.role = "main", j.pair = k.pair
                 PROVE  j = k
      OBVIOUS
    <3>1. j \in Keys /\ k \in Keys /\ NormalForm[j.address] = NormalForm[k.address]
      BY <2>1 DEF AtHome
    <3>2. j.address = k.address
      BY <3>1, KeyFields DEF TextsAreAddresses
    <3> QED
      BY <3>1, <3>2, KeyFields
  <2> QED
    BY <2>1, <2>2 DEF OneMainEach, AtHome
<1>6. Accounts(entries', CommittedRows)
  <2>1. ASSUME NEW k \in DOMAIN CommittedRows, k.role = "main"
        PROVE  \E j \in Mains(entries', k.pair) :
                   \/ entries'[j].changed
                   \/ IsHuman(entries'[j])
                   \/ j = k /\ CommittedRows[k].verification = "auto"
    <3>1. k.pair \in DOMAIN inst
      BY <2>1 DEF ReviewInv, RowsInv, Known
    <3>2. PICK j \in Mains(Reconciled, k.pair) :
              \/ Reconciled[j].changed
              \/ IsHuman(Reconciled[j])
              \/ j = k /\ CommittedRows[k].verification = "auto"
      BY <1>2, <2>1 DEF Accounts
    <3>3. j \in DOMAIN Reconciled /\ j.role = "main" /\ j.pair = k.pair
      BY DEF Mains
    <3>4. CASE Stale(j, inst) \/ Reconciled[j].changed \/ IsHuman(Reconciled[j])
      <4>1. \E i \in Mains(entries', j.pair) : entries'[i].changed \/ IsHuman(entries'[i])
        BY <1>3, <3>1, <3>3, <3>4 DEF Careful
      <4> QED
        BY <4>1, <3>3
    <3>5. CASE ~(Stale(j, inst) \/ Reconciled[j].changed \/ IsHuman(Reconciled[j]))
      BY <1>3, <2>1, <3>1, <3>2, <3>3, <3>5 DEF Careful, Mains
    <3> QED
      BY <3>4, <3>5
  <2>2. \A j \in DOMAIN entries' : j.role = "main" /\ IsHuman(entries'[j]) =>
            j \in DOMAIN CommittedRows
    BY <1>2, <1>3 DEF Careful, Accounts
  <2> QED
    BY <2>1, <2>2 DEF Accounts
<1>7. ASSUME NEW p \in DOMAIN moved
      PROVE  \E j \in Mains(entries', p) : entries'[j].changed \/ IsHuman(entries'[j])
  <2>1. FlagInFiles(p) /\ p \in DOMAIN inst /\ NormalForm[inst[p]] # moved[p]
    BY DEF ReviewInv, FlagHeld
  <2>2. PICK j \in Mains(Reconciled, p) :
            Reconciled[j].changed \/ IsHuman(Reconciled[j]) \/ Was(j, p)
    BY <2>1, ReconciledHoldsFlag DEF ReviewInv
  <2>3. j \in DOMAIN Reconciled /\ j.role = "main" /\ j.pair = p
    BY DEF Mains
  <2>4. Was(j, p) => Stale(j, inst)
    BY <2>1, <2>3 DEF Was, Stale
  <2> QED
    BY <1>3, <2>1, <2>2, <2>3, <2>4 DEF Careful
<1>8. RunInv'
  BY <1>1, <1>3, <1>5, <1>6 DEF Careful, RunInv, Known
<1>9. \A p \in DOMAIN moved : FlagHeld(p)'
  BY <1>1, <1>7 DEF ReviewInv, FlagHeld, FlagInFiles, FlagInMemory, Was
<1>10. RowsInv' /\ DocInv'
  BY <1>1 DEF ReviewInv, RowsInv, DocInv, Known, HashedRows
<1> QED
  BY <1>1, <1>8, <1>9, <1>10 DEF ReviewInv

LEMMA PersistReviews ==
    ASSUME Types, ReviewInv,
           \/ SaveCandidates \/ RejectWrite \/ RenameCsv \/ RenameProvenance \/ ClearJournal \/ Crash
    PROVE  ReviewInv'
<1> USE DEF files, people
<1>1. CASE SaveCandidates
  <2>1. doc' = [hash |-> CommittedHash, entries |-> entries,
                pending |-> [csv |-> NewRows, provenance |-> NewProvenance, previous |-> prov]]
    BY <1>1 DEF SaveCandidates
  <2>2. /\ doc' # NoFile /\ doc'.entries = entries /\ doc'.pending.csv = RenderRows(entries)
        /\ UNCHANGED <<inst, csv, prov, entries, moved>> /\ CommittedRows' = CommittedRows
        /\ pc = "gathered" /\ pc' = "journalled"
    BY <1>1, <2>1, DocTyped, JournalTyped DEF SaveCandidates, NewRows, CommittedRows
  <2>3. HashedRows' = CommittedRows
    BY <2>1, AbsenceAssumption DEF HashedRows, CommittedHash, CommittedRows, Types
  <2>4. Accounts(entries, CommittedRows)
    BY <2>2 DEF ReviewInv, RunInv
  <2>5. DocInv'
    BY <2>2, <2>3, <2>4 DEF DocInv
  <2>6. RunInv' /\ RowsInv'
    BY <2>2 DEF ReviewInv, RunInv, RowsInv, Known
  <2>7. ASSUME NEW p \in DOMAIN moved
        PROVE  FlagHeld(p)'
    <3>1. FlagHeld(p) /\ \E j \in Mains(entries, p) :
              entries[j].changed \/ IsHuman(entries[j]) \/ Was(j, p)
      BY <2>2 DEF ReviewInv, FlagHeld, FlagInMemory
    <3>2. Mains(CommittedRows, p) = {} =>
              \A j \in Mains(entries, p) : ~IsHuman(entries[j])
      BY <2>4 DEF Accounts, Mains
    <3> QED
      BY <2>2, <3>1, <3>2 DEF FlagHeld, FlagInFiles, FlagInMemory, Was
  <2> QED
    BY <2>2, <2>5, <2>6, <2>7 DEF ReviewInv
<1>2. CASE RejectWrite \/ Crash
  <2>1. pc' = "idle" /\ UNCHANGED <<inst, csv, prov, doc, moved>>
    BY <1>2 DEF RejectWrite, Crash, Idle
  <2>2. CommittedRows' = CommittedRows
    BY <2>1 DEF CommittedRows
  <2> QED
    BY <2>1, <2>2 DEF ReviewInv, RowsInv, DocInv, RunInv, Known, HashedRows, FlagHeld, FlagInFiles,
                      FlagInMemory, Was
<1>3. CASE RenameCsv
  <2>1. /\ CommittedRows' = NewRows /\ Parses(NewRows, NewProvenance)
        /\ UNCHANGED <<inst, prov, doc, entries, moved>>
        /\ pc = "journalled" /\ pc' = "csv_renamed"
    BY <1>3, NewFilesTyped, AbsenceAssumption DEF RenameCsv, CommittedRows
  <2>2. /\ DOMAIN NewRows = {k \in DOMAIN entries : IsDecided(entries[k])}
        /\ \A k \in DOMAIN NewRows : NewRows[k] = RowOf(entries[k].decision)
    BY DEF NewRows, RenderRows
  <2>3. Accounts(entries, NewRows)
    BY RenderAccounts DEF NewRows
  <2>4. /\ OneMainEach(entries) /\ Known(DOMAIN entries)
        /\ \A k \in AutoKeys(entries) : ~entries[k].changed
        /\ doc # NoFile /\ doc.entries = entries
    BY <2>1 DEF ReviewInv, RunInv
  <2>5. RowsInv'
    BY <2>1, <2>2, <2>4 DEF RowsInv, Known, Parses, AutoAreMains
  <2>6. RunInv' /\ DocInv'
    BY <2>1, <2>3 DEF ReviewInv, RunInv, DocInv, HashedRows, Known
  <2>7. ASSUME NEW p \in DOMAIN moved
        PROVE  FlagHeld(p)'
    <3>1. /\ p \in DOMAIN inst /\ NormalForm[inst[p]] # moved[p]
          /\ FlagInMemory(p)
      BY DEF ReviewInv, FlagHeld
    <3>2. PICK j \in Mains(entries, p) :
              entries[j].changed \/ IsHuman(entries[j]) \/ Was(j, p)
      BY <2>1, <3>1 DEF FlagInMemory
    <3>3. Mains(entries, p) = {j}
      BY <2>4 DEF Mains, OneMainEach
    <3>4. \A k \in Mains(NewRows, p) : k = j /\ k \in DOMAIN NewRows
      BY <2>2, <3>3 DEF Mains
    <3>5. ASSUME j \in DOMAIN NewRows
          PROVE  NewRows[j].verification = "human" \/ Was(j, p)
      <4>1. j \in DOMAIN entries /\ NewRows[j] = RowOf(entries[j].decision)
        BY <2>2, <3>5
      <4>2. CASE entries[j].decision.status = "auto"
        <5>1. ~entries[j].changed /\ ~IsHuman(entries[j])
          BY <2>4, <4>1, <4>2 DEF AutoKeys, IsHuman, HUMAN
        <5> QED
          BY <3>2, <5>1
      <4>3. CASE entries[j].decision.status # "auto"
        BY <4>1, <4>3 DEF RowOf
      <4> QED
        BY <4>2, <4>3
    <3>6. ASSUME j \notin DOMAIN NewRows
          PROVE  ~IsHuman(entries[j])
      BY <2>2, <3>6 DEF Mains, IsHuman, IsDecided, DECIDED
    <3>7. Mains(NewRows, p) = {} => j \notin DOMAIN NewRows
      BY DEF Mains
    <3>8. FlagInFiles(p)'
      BY <2>1, <2>4, <3>2, <3>4, <3>5, <3>6, <3>7 DEF FlagInFiles, Was
    <3>9. FlagInMemory(p)'
      BY <2>1, <3>2 DEF FlagInMemory, Was
    <3> QED
      BY <2>1, <3>1, <3>8, <3>9 DEF FlagHeld
  <2> QED
    BY <2>1, <2>5, <2>6, <2>7 DEF ReviewInv
<1>4. CASE RenameProvenance
  <2>1. /\ UNCHANGED <<inst, csv, doc, entries, moved, CommittedRows>>
        /\ pc = "csv_renamed" /\ pc' = "both_renamed"
    BY <1>4 DEF RenameProvenance, CommittedRows
  <2> QED
    BY <2>1 DEF ReviewInv, RowsInv, DocInv, RunInv, Known, HashedRows, FlagHeld, FlagInFiles,
                FlagInMemory, Was
<1>5. CASE ClearJournal
  <2>1. doc' = [hash |-> CommittedHash, entries |-> entries, pending |-> NoJournal]
    BY <1>5 DEF ClearJournal
  <2>2. /\ doc' # NoFile /\ doc'.entries = entries /\ doc'.pending = NoJournal
        /\ UNCHANGED <<inst, csv, prov, moved, CommittedRows>>
        /\ pc = "both_renamed" /\ pc' = "idle" /\ doc # NoFile /\ doc.entries = entries
    BY <1>5, <2>1, DocTyped DEF ClearJournal, Idle, CommittedRows, ReviewInv, RunInv
  <2>3. HashedRows' = CommittedRows
    BY <2>1, AbsenceAssumption DEF HashedRows, CommittedHash, CommittedRows, Types
  <2>4. Accounts(entries, CommittedRows)
    BY <2>2 DEF ReviewInv, RunInv
  <2>5. DocInv' /\ RunInv' /\ RowsInv'
    BY <2>2, <2>3, <2>4 DEF ReviewInv, DocInv, RunInv, RowsInv, Known
  <2>6. \A p \in DOMAIN moved : FlagHeld(p)'
    BY <2>2 DEF ReviewInv, FlagHeld, FlagInFiles, FlagInMemory, Was
  <2> QED
    BY <2>2, <2>5, <2>6 DEF ReviewInv
<1> QED
  BY <1>1, <1>2, <1>3, <1>4, <1>5

(* An edit between runs that leaves the main rows of every institution      *)
(* still in `moved` as they are.                                            *)
LEMMA EditReviews ==
    ASSUME ~EditsDuringRun, ReviewInv, NEW rows, NEW p, EditPair(rows, p), csv' # NoFile,
           OneMainEach(rows), AutoAreMains(rows), Known(DOMAIN rows),
           DOMAIN moved' \subseteq DOMAIN moved,
           \A q \in DOMAIN moved' :
               /\ moved'[q] = moved[q]
               /\ Mains(rows, q) = Mains(CommittedRows, q)
               /\ \A k \in Mains(rows, q) : rows[k].verification = CommittedRows[k].verification
    PROVE  ReviewInv'
<1>1. /\ UNCHANGED <<inst, doc, pc, entries>> /\ csv' = rows /\ pc = "idle"
  BY DEF EditPair, PeopleMayEdit, run
<1>2. CommittedRows' = rows
  BY <1>1 DEF CommittedRows
<1>3. RowsInv' /\ DocInv' /\ RunInv'
  BY <1>1, <1>2 DEF ReviewInv, RowsInv, DocInv, RunInv, Known, HashedRows
<1>4. ASSUME NEW q \in DOMAIN moved'
      PROVE  FlagHeld(q)'
  <2>1. FlagHeld(q) /\ moved'[q] = moved[q]
    BY DEF ReviewInv
  <2> QED
    BY <1>1, <1>2, <2>1 DEF FlagHeld, FlagInFiles, FlagInMemory, Was
<1> QED
  BY <1>3, <1>4 DEF ReviewInv

LEMMA HandWriteReviews ==
    ASSUME ~EditsDuringRun, Types, ReviewInv,
           NEW k \in Keys, NEW s \in HandStatuses, NEW c \in Coords, HandWrite(k, s, c)
    PROVE  ReviewInv'
<1> DEFINE row == RowOf([status |-> s, on |-> today, record |-> NoRecord,
                         at |-> IF s = "no_pin" THEN NoCoord ELSE c])
           replaced == IF k.role = "main" THEN MainsOf(k.pair) ELSE {}
           rows == With(Without(CommittedRows, replaced), k, row)
<1>1. /\ EditPair(rows, ProvenanceFor(rows)) /\ k.pair \in DOMAIN inst
      /\ moved' = IF k.role = "main" THEN Without(moved, {k.pair}) ELSE moved
  BY DEF HandWrite
<1>2. /\ DOMAIN rows = (DOMAIN CommittedRows \ replaced) \cup {k}
      /\ \A j \in DOMAIN rows \ {k} : rows[j] = CommittedRows[j]
      /\ rows[k].verification = "human"
  <2>1. row.verification = "human"
    BY SwitchAssumption DEF HUMAN, RowOf
  <2> HIDE DEF row
  <2> QED
    BY <2>1 DEF With, Without
<1>3. k.role # "main" \/ \A j \in DOMAIN CommittedRows \ replaced : j.role = "main" => j.pair # k.pair
  BY DEF MainsOf
<1>4. csv' # NoFile
  BY HandWriteTyped, AbsenceAssumption
<1> HIDE DEF rows
<1>5. OneMainEach(rows) /\ AutoAreMains(rows) /\ Known(DOMAIN rows)
  BY <1>1, <1>2, <1>3 DEF ReviewInv, RowsInv, OneMainEach, AutoAreMains, AutoRows, Known
<1>6. DOMAIN moved' \subseteq DOMAIN moved /\ \A q \in DOMAIN moved' : moved'[q] = moved[q]
  BY <1>1 DEF Without
<1>7. ASSUME NEW q \in DOMAIN moved'
      PROVE  /\ Mains(rows, q) = Mains(CommittedRows, q)
             /\ \A j \in Mains(rows, q) : rows[j].verification = CommittedRows[j].verification
  <2>1. k.role # "main" \/ q # k.pair
    BY <1>1 DEF Without
  <2> QED
    BY <1>2, <2>1 DEF Mains, MainsOf
<1> QED
  BY <1>1, <1>4, <1>5, <1>6, <1>7, EditReviews

LEMMA HandRemoveReviews ==
    ASSUME ~EditsDuringRun, Types, ReviewInv, NEW k \in Keys, HandRemove(k)
    PROVE  ReviewInv'
<1> DEFINE rows == Without(CommittedRows, {k})
<1>1. /\ EditPair(rows, ProvenanceFor(rows))
      /\ k \in DOMAIN CommittedRows
      /\ moved' = IF k.role = "main" THEN Without(moved, {k.pair}) ELSE moved
  BY DEF HandRemove
<1>2. /\ DOMAIN rows = DOMAIN CommittedRows \ {k}
      /\ \A j \in DOMAIN rows : rows[j] = CommittedRows[j]
  BY DEF Without
<1>3. csv' # NoFile
  BY HandRemoveTyped, AbsenceAssumption
<1> HIDE DEF rows
<1>4. OneMainEach(rows) /\ AutoAreMains(rows) /\ Known(DOMAIN rows)
  BY <1>2 DEF ReviewInv, RowsInv, OneMainEach, AutoAreMains, AutoRows, Known
<1>5. DOMAIN moved' \subseteq DOMAIN moved /\ \A q \in DOMAIN moved' : moved'[q] = moved[q]
  BY <1>1 DEF Without
<1>6. ASSUME NEW q \in DOMAIN moved'
      PROVE  /\ Mains(rows, q) = Mains(CommittedRows, q)
             /\ \A j \in Mains(rows, q) : rows[j].verification = CommittedRows[j].verification
  <2>1. k.role # "main" \/ q # k.pair
    BY <1>1 DEF Without
  <2> QED
    BY <1>2, <2>1 DEF Mains
<1> QED
  BY <1>1, <1>3, <1>4, <1>5, <1>6, EditReviews

LEMMA HandMistakeReviews ==
    ASSUME ~EditsDuringRun, Types, ReviewInv, NEW k \in Keys, HandMistake(k)
    PROVE  ReviewInv'
<1>1. UNCHANGED moved /\ csv # NoFile /\ CommittedRows = csv
  BY HandMistakeTyped DEF HandMistake, AutoRows, CommittedRows, NoEntries
<1>2. PICK rows, p : EditPair(rows, p) /\ (rows = csv \/ rows = [csv EXCEPT ![k].at = Typo])
  BY DEF HandMistake
<1>3. \A j \in DOMAIN csv : csv[j] \in Row
  BY <1>1, DictElim DEF Types, CsvFile
<1>4. DOMAIN rows = DOMAIN csv /\ \A j \in DOMAIN rows : rows[j].verification = csv[j].verification
  BY <1>2, <1>3 DEF Row
<1>5. OneMainEach(rows) /\ AutoAreMains(rows) /\ Known(DOMAIN rows)
  BY <1>1, <1>4 DEF ReviewInv, RowsInv, OneMainEach, AutoAreMains, AutoRows, Known
<1>6. \A q \in DOMAIN moved' :
          /\ moved'[q] = moved[q]
          /\ Mains(rows, q) = Mains(CommittedRows, q)
          /\ \A j \in Mains(rows, q) : rows[j].verification = CommittedRows[j].verification
  BY <1>1, <1>4 DEF Mains
<1>7. csv' # NoFile
  BY HandMistakeTyped, AbsenceAssumption
<1> QED
  BY <1>1, <1>2, <1>5, <1>6, <1>7, EditReviews

LEMMA SetAddressReviews ==
    ASSUME Types, ReviewInv, NEW p \in Pairs, NEW a \in Addresses, SetAddress(p, a)
    PROVE  ReviewInv'
<1>1. /\ inst' = With(inst, p, a)
      /\ UNCHANGED <<csv, prov, doc, pc, entries, CommittedRows>>
      /\ moved' = IF p \in DOMAIN moved
                  THEN IF moved[p] = NormalForm[a] THEN Without(moved, {p}) ELSE moved
                  ELSE IF \E k \in MainsOf(p) : Elsewhere(k, With(inst, p, a))
                  THEN With(moved, p, NormalForm[(CHOOSE k \in MainsOf(p) : TRUE).address])
                  ELSE moved
  BY DEF SetAddress, files, run, CommittedRows
<1>2. /\ DOMAIN inst' = DOMAIN inst \cup {p} /\ inst'[p] = a
      /\ \A q \in DOMAIN inst \ {p} : inst'[q] = inst[q]
  BY <1>1 DEF With
<1>3. RowsInv' /\ DocInv' /\ RunInv'
  BY <1>1, <1>2 DEF ReviewInv, RowsInv, DocInv, RunInv, Known, HashedRows
<1>4. /\ DOMAIN moved' \subseteq DOMAIN moved \cup {p}
      /\ \A q \in DOMAIN moved' \ {p} : q \in DOMAIN moved /\ moved'[q] = moved[q]
  BY <1>1 DEF With, Without
<1>5. ASSUME NEW q \in DOMAIN moved' \ {p}
      PROVE  FlagHeld(q)'
  <2>1. FlagHeld(q) /\ moved'[q] = moved[q]
    BY <1>4 DEF ReviewInv
  <2> QED
    BY <1>1, <1>2, <2>1 DEF FlagHeld, FlagInFiles, FlagInMemory, Was
<1>6. ASSUME p \in DOMAIN moved'
      PROVE  FlagHeld(p)'
  <2>1. CASE p \in DOMAIN moved
    <3>1. moved' = moved /\ moved[p] # NormalForm[a]
      BY <1>1, <1>6, <2>1 DEF Without
    <3>2. FlagHeld(p)
      BY <2>1 DEF ReviewInv
    <3> QED
      BY <1>1, <1>2, <3>1, <3>2 DEF FlagHeld, FlagInFiles, FlagInMemory, Was
  <2>2. CASE p \notin DOMAIN moved
    <3>1. PICK k \in MainsOf(p) : Elsewhere(k, inst')
      BY <1>1, <1>6, <2>2
    <3>2. MainsOf(p) = {k} /\ Mains(CommittedRows, p) = {k}
      BY DEF MainsOf, Mains, ReviewInv, RowsInv, OneMainEach
    <3>3. k \in DOMAIN CommittedRows /\ k.role = "main" /\ k.pair = p
      BY DEF MainsOf
    <3>4. moved' = With(moved, p, NormalForm[k.address])
      BY <1>1, <2>2, <3>1, <3>2
    <3>5. moved'[p] = NormalForm[k.address] /\ NormalForm[inst'[p]] # moved'[p]
      BY <3>1, <3>3, <3>4 DEF With, Elsewhere
    <3>6. FlagInFiles(p)'
      BY <1>1, <3>2, <3>5 DEF FlagInFiles, Was
    <3>7. FlagInMemory(p)'
      <4> SUFFICES ASSUME pc # "idle"
                   PROVE  \E j \in Mains(entries, p) :
                              \/ entries[j].changed
                              \/ IsHuman(entries[j])
                              \/ NormalForm[j.address] = moved'[p]
        BY <1>1 DEF FlagInMemory, Was
      <4>1. Accounts(entries, CommittedRows)
        BY DEF ReviewInv, RunInv
      <4> QED
        BY <3>3, <3>5, <4>1 DEF Accounts
    <3> QED
      BY <1>2, <3>5, <3>6, <3>7 DEF FlagHeld
  <2> QED
    BY <2>1, <2>2
<1> QED
  BY <1>3, <1>5, <1>6 DEF ReviewInv

LEMMA ReviewInvNext ==
    ASSUME ~EditsDuringRun, ~MayDrop, ~MayLoseCandidates, TextsAreAddresses,
           Types, ReviewInv, [Next]_vars
    PROVE  ReviewInv'
<1>1. CASE Program \/ Crash
  BY <1>1, StartRunReviews, PersistReviews DEF Program
<1>2. CASE People
  BY <1>2, HandWriteReviews, HandRemoveReviews, HandMistakeReviews DEF People, LoseCandidates
<1>3. CASE World
  <2>1. CASE NextDay
    BY <2>1 DEF NextDay, files, run, people, ReviewInv, RowsInv, DocInv, RunInv, Known, HashedRows,
                FlagHeld, FlagInFiles, FlagInMemory, Was, CommittedRows
  <2> QED
    BY <1>3, <2>1, SetAddressReviews DEF World, DropInstitution
<1>4. CASE UNCHANGED vars
  BY <1>4 DEF vars, files, run, people, ReviewInv, RowsInv, DocInv, RunInv, Known, HashedRows,
              FlagHeld, FlagInFiles, FlagInMemory, Was, CommittedRows
<1> QED
  BY <1>1, <1>2, <1>3, <1>4 DEF Next

(* An institution that moved away from its row gets no auto row at the new  *)
(* address before a person looked: wherever runs die, also while they       *)
(* repair, whichever old bytes people bring back or break.  The flag lives  *)
(* in the candidates file alone, so that file must not be lost; and a       *)
(* second spelling of one address would get an entry without the flag.      *)
THEOREM MovesNeedReview ==
    ASSUME ~EditsDuringRun, ~MayDrop, ~MayLoseCandidates, TextsAreAddresses
    PROVE  Spec => []MovedNeedsReview
<1>1. Init => ReviewInv
  BY DEF Init, ReviewInv, RowsInv, DocInv, RunInv, OneMainEach, AutoAreMains, AutoRows, Known,
              CommittedRows, NoEntries
<1>2. Types /\ ReviewInv /\ [Next]_vars => ReviewInv'
  BY ReviewInvNext
<1>3. ReviewInv => MovedNeedsReview
  <2> SUFFICES ASSUME ReviewInv, NEW k \in AutoRows(CommittedRows), k.pair \in DOMAIN moved
               PROVE  Elsewhere(k, inst)
    BY DEF MovedNeedsReview
  <2>1. k \in DOMAIN CommittedRows /\ CommittedRows[k].verification = "auto"
    BY DEF AutoRows
  <2>2. FlagHeld(k.pair)
    BY DEF ReviewInv
  <2>3. k.role = "main"
    BY DEF ReviewInv, RowsInv, AutoAreMains
  <2> QED
    BY <2>1, <2>2, <2>3 DEF FlagHeld, FlagInFiles, Mains, Was, Elsewhere
<1> QED
  BY <1>1, <1>2, <1>3, TypesInvariant, PTL DEF Spec

-----------------------------------------------------------------------------
(* The refinement of LocationRegister, step by step.                        *)

Working == DecisionsIn(Reconciled)
Saved == DecisionsIn(LocalEntries)
Published == DecisionsInRows(CommittedRows)

RegisterInv ==
    /\ AllFaithful(entries)
    /\ doc # NoFile => AllFaithful(doc.entries)
    /\ pc = "gathered" => Continues(entries, Reconciled)
    /\ pc \in {"journalled", "csv_renamed", "both_renamed"} => doc # NoFile /\ doc.entries = entries
    /\ pc = "journalled" => doc.hash = CommittedHash
    /\ pc \in {"csv_renamed", "both_renamed"} => csv = RenderRows(entries)

\* The files alone say what the next run starts from.
LEMMA FilesAreTheRegister ==
    ASSUME UNCHANGED <<csv, prov, doc>>
    PROVE  /\ UNCHANGED <<Working, Saved, Published>>
           /\ UNCHANGED <<Reconciled, CommittedHash>>
BY DEF Working, Saved, Published, Reconciled, LocalStands, LocalEntries, Torn, TornByJournal, PairParses,
       CommittedRows, CommittedProvenance, CommittedHash

LEMMA PlainReadBack ==
    ASSUME NEW d \in Decision, d.status \in DECIDED, Faithful(d), NEW k, NEW files_prov
    PROVE  Plain(DecisionOf(k, RowOf(d), files_prov)) = Plain(d)
<1>1. CASE d.status \in HUMAN
  BY <1>1, ReadBack
<1>2. CASE d.status = "auto"
  BY <1>2 DEF Plain, DecisionOf, RowOf
<1> QED
  BY <1>1, <1>2 DEF DECIDED

LEMMA RowsRead ==
    ASSUME NEW E \in Dicts(Keys, SoundEntry), AllFaithful(E)
    PROVE  DecisionsInRows(RenderRows(E)) = DecisionsIn(E)
<1> DEFINE rows == RenderRows(E)
           S == {k \in DOMAIN E : IsDecided(E[k])}
<1>1. DOMAIN rows = S /\ \A k \in S : rows[k] = RowOf(E[k].decision)
  BY DEF RenderRows
<1> HIDE DEF rows
<1>2. \A k \in S : Plain(DecisionOf(k, rows[k], NoEntries)) = Plain(E[k].decision)
  <2> SUFFICES ASSUME NEW k \in S
               PROVE  Plain(DecisionOf(k, rows[k], NoEntries)) = Plain(E[k].decision)
    OBVIOUS
  <2>1. E[k].decision \in Decision /\ E[k].decision.status \in DECIDED /\ Faithful(E[k].decision)
    BY DictElim DEF SoundEntry, SoundDecision, AllFaithful, IsDecided
  <2> QED
    BY <1>1, <2>1, PlainReadBack
<1>3. DecisionsInRows(rows) = DecisionsIn(E)
  BY <1>1, <1>2 DEF DecisionsInRows, DecisionsIn
<1> QED
  BY <1>3 DEF rows

LEMMA RebuildReads ==
    ASSUME NEW local, NEW rows \in Dicts(Keys, Row), NEW files_prov
    PROVE  DecisionsIn(Rebuild(local, rows, files_prov)) = DecisionsInRows(rows)
<1> DEFINE E == Rebuild(local, rows, files_prov)
<1>1. /\ DOMAIN E = DOMAIN rows \cup DOMAIN local
      /\ \A k \in DOMAIN rows : E[k].decision = DecisionOf(k, rows[k], files_prov)
      /\ \A k \in DOMAIN E \ DOMAIN rows : E[k].decision = Pending
  BY DEF Rebuild
<1>2. \A k \in DOMAIN rows :
          /\ DecisionOf(k, rows[k], files_prov).status \in DECIDED
          /\ Plain(DecisionOf(k, rows[k], files_prov)) = Plain(DecisionOf(k, rows[k], NoEntries))
  BY DEF DecisionOf, Plain, DECIDED, HUMAN
<1>3. Pending.status \notin DECIDED
  BY DEF Pending, DECIDED, HUMAN
<1> HIDE DEF E
<1>4. {k \in DOMAIN E : IsDecided(E[k])} = DOMAIN rows
  BY <1>1, <1>2, <1>3 DEF IsDecided
<1>5. DecisionsIn(E) = DecisionsInRows(rows)
  BY <1>1, <1>2, <1>4 DEF DecisionsIn, DecisionsInRows
<1> QED
  BY <1>5 DEF E

\* reconcile: the last save, or what is committed.
LEMMA WorkingIs ==
    ASSUME Types
    PROVE  Working = IF LocalStands THEN Saved ELSE Published
<1>1. CASE LocalStands
  BY <1>1 DEF Working, Saved, Reconciled
<1>2. CASE ~LocalStands
  <2>1. ~Torn
    BY <1>2 DEF LocalStands, Torn, TornByJournal
  <2>2. CommittedRows \in Dicts(Keys, Row)
    BY CommittedTyped DEF CsvFile
  <2> QED
    BY <1>2, <2>1, <2>2, RebuildReads DEF Working, Published, Reconciled
<1> QED
  BY <1>1, <1>2

\* Once the rows of the last save are in place, all three agree.
LEMMA RenderedAgree ==
    ASSUME Types, doc # NoFile, AllFaithful(doc.entries), csv = RenderRows(doc.entries)
    PROVE  Working = DecisionsIn(doc.entries) /\ Published = DecisionsIn(doc.entries)
           /\ Saved = DecisionsIn(doc.entries)
<1>1. doc.entries \in Dicts(Keys, SoundEntry)
  BY DEF Types
<1>2. CommittedRows = RenderRows(doc.entries)
  BY <1>1, RenderRowsTyped, AbsenceAssumption DEF CommittedRows, CsvFile
<1>3. Published = DecisionsIn(doc.entries)
  BY <1>1, <1>2, RowsRead DEF Published
<1>4. Saved = DecisionsIn(doc.entries)
  BY DEF Saved, LocalEntries
<1> QED
  BY <1>3, <1>4, WorkingIs

\* The same of the next state.
LEMMA NextRegister ==
    /\ Types' => Working' = IF LocalStands' THEN Saved' ELSE Published'
    /\ /\ Types' /\ doc' # NoFile /\ AllFaithful(doc'.entries)
       /\ csv' = RenderRows(doc'.entries)
       => /\ Working' = DecisionsIn(doc'.entries) /\ Published' = DecisionsIn(doc'.entries)
          /\ Saved' = DecisionsIn(doc'.entries)
<1>1. Types => Working = IF LocalStands THEN Saved ELSE Published
  BY WorkingIs
<1>2. Types /\ doc # NoFile /\ AllFaithful(doc.entries) /\ csv = RenderRows(doc.entries)
      => /\ Working = DecisionsIn(doc.entries) /\ Published = DecisionsIn(doc.entries)
         /\ Saved = DecisionsIn(doc.entries)
  BY RenderedAgree
<1>3. /\ (Types => Working = IF LocalStands THEN Saved ELSE Published)'
      /\ (Types /\ doc # NoFile /\ AllFaithful(doc.entries) /\ csv = RenderRows(doc.entries)
          => /\ Working = DecisionsIn(doc.entries) /\ Published = DecisionsIn(doc.entries)
             /\ Saved = DecisionsIn(doc.entries))'
  BY <1>1, <1>2, PTL
<1> QED
  BY <1>3

LEMMA StartRunStutters ==
    ASSUME Types, RegisterInv, StartRun
    PROVE  RegisterInv' /\ UNCHANGED <<Working, Saved, Published>>
<1>1. /\ UNCHANGED <<csv, prov, doc>> /\ pc' = "gathered" /\ Loadable
      /\ UNCHANGED <<Working, Saved, Published, Reconciled>>
  BY FilesAreTheRegister DEF StartRun, files
<1>2. /\ Reconciled \in Dicts(Keys, SoundEntry) /\ inst \in Dicts(Pairs, Addresses)
      /\ AllFaithful(Reconciled)
  BY <1>1, ReconciledTyped, ReconciledFaithful DEF Types, Addressings, RegisterInv
<1>3. PICK inventory \in SUBSET BranchKeys, full \in BOOLEAN :
        \E found :
            entries' = Gathered(Reconciled, inst, inventory, full,
                                ToGather(Reconciled, inst, inventory, full), found, today)
  BY DEF StartRun
<1>4. PICK found :
        entries' = Gathered(Reconciled, inst, inventory, full,
                            ToGather(Reconciled, inst, inventory, full), found, today)
  BY <1>3
<1>5. HumanDecisions(NoEntries) /\ DOMAIN NoEntries = {}
  <2>1. NoEntries \in Dicts(Keys, Decision) /\ DOMAIN NoEntries = {}
    BY NoEntriesDict DEF NoEntries
  <2> QED
    BY <2>1 DEF HumanDecisions
<1>6. AllFaithful(entries')
  BY <1>2, <1>4, <1>5, GatheredHasDecisions DEF InEntries
<1>7. Continues(entries', Reconciled)
  BY <1>2, <1>4, GatheredIsCareful
<1> QED
  BY <1>1, <1>6, <1>7 DEF RegisterInv

\* The first write of persist is the whole save.
LEMMA SaveCandidatesSaves ==
    ASSUME Types, Types', RegisterInv, SaveCandidates
    PROVE  /\ RegisterInv'
           /\ Working' = DecisionsIn(entries) /\ Saved' = DecisionsIn(entries)
           /\ Published' = Published
           /\ Continues(entries, Reconciled)
<1>1. doc' = [hash |-> CommittedHash, entries |-> entries,
              pending |-> [csv |-> NewRows, provenance |-> NewProvenance, previous |-> prov]]
  BY DEF SaveCandidates
<1>2. /\ doc' # NoFile /\ doc'.entries = entries /\ doc'.hash = CommittedHash
      /\ UNCHANGED <<csv, prov, entries>> /\ pc = "gathered" /\ pc' = "journalled"
      /\ CommittedHash' = CommittedHash /\ CommittedRows' = CommittedRows
  BY <1>1, DocTyped, JournalTyped DEF SaveCandidates, CommittedHash, CommittedRows
<1>3. Saved' = DecisionsIn(entries) /\ Published' = Published /\ LocalStands'
  BY <1>2 DEF Saved, Published, LocalEntries, LocalStands
<1>4. Working' = Saved'
  BY <1>3, NextRegister
<1> QED
  BY <1>2, <1>3, <1>4 DEF RegisterInv

\* The rename of the CSV is what publishes it.
LEMMA RenameCsvPublishes ==
    ASSUME Types, Types', RegisterInv, RenameCsv
    PROVE  /\ RegisterInv'
           /\ Published' = Working /\ Working' = Working /\ Saved' = Saved
<1>1. /\ csv' = RenderRows(entries) /\ UNCHANGED <<prov, doc, entries>>
      /\ pc = "journalled" /\ pc' = "csv_renamed"
      /\ doc # NoFile /\ doc.entries = entries /\ doc.hash = CommittedHash
  BY DEF RenameCsv, RegisterInv, NewRows
<1>2. Working = DecisionsIn(entries)
  BY <1>1, WorkingIs DEF LocalStands, Saved, LocalEntries
<1>3. /\ Working' = DecisionsIn(entries) /\ Published' = DecisionsIn(entries)
      /\ Saved' = DecisionsIn(entries)
  <2>1. /\ doc' # NoFile /\ AllFaithful(doc'.entries) /\ csv' = RenderRows(doc'.entries)
        /\ doc'.entries = entries
    BY <1>1 DEF RegisterInv, AllFaithful
  <2> QED
    BY <2>1, NextRegister
<1>4. Saved = DecisionsIn(entries)
  BY <1>1 DEF Saved, LocalEntries
<1> QED
  BY <1>1, <1>2, <1>3, <1>4 DEF RegisterInv

LEMMA PersistStutters ==
    ASSUME Types, Types', RegisterInv,
           RejectWrite \/ RenameProvenance \/ ClearJournal \/ Crash
    PROVE  RegisterInv' /\ UNCHANGED <<Working, Saved, Published>>
<1> USE DEF files, people
<1>1. CASE RejectWrite \/ Crash
  <2>1. pc' = "idle" /\ UNCHANGED <<csv, prov, doc>> /\ entries' = NoEntries
    BY <1>1 DEF RejectWrite, Crash, Idle
  <2> QED
    BY <2>1, FilesAreTheRegister DEF RegisterInv, AllFaithful, NoEntries
<1>2. CASE RenameProvenance \/ ClearJournal
  <2>1. doc # NoFile /\ doc.entries = entries /\ csv = RenderRows(entries) /\ AllFaithful(entries)
    BY <1>2 DEF RegisterInv, RenameProvenance, ClearJournal
  <2>2. /\ doc' # NoFile /\ doc'.entries = entries /\ csv' = csv
        /\ \/ pc' = "both_renamed" /\ entries' = entries
           \/ pc' = "idle" /\ entries' = NoEntries
    BY <1>2, <2>1, DocTyped DEF RenameProvenance, ClearJournal, Idle
  <2>3. AllFaithful(entries)'
    BY <2>1, <2>2 DEF AllFaithful, NoEntries
  <2>4. RegisterInv'
    BY <2>1, <2>2, <2>3 DEF RegisterInv
  <2>5. /\ Working = DecisionsIn(entries) /\ Published = DecisionsIn(entries)
        /\ Saved = DecisionsIn(entries)
    BY <2>1, RenderedAgree
  <2>6. /\ Working' = DecisionsIn(entries) /\ Published' = DecisionsIn(entries)
        /\ Saved' = DecisionsIn(entries)
    <3>1. doc' # NoFile /\ AllFaithful(doc'.entries) /\ csv' = RenderRows(doc'.entries)
      BY <2>1, <2>2
    <3> QED
      BY <2>2, <3>1, NextRegister
  <2> QED
    BY <2>4, <2>5, <2>6
<1> QED
  BY <1>1, <1>2

LEMMA EditRegister ==
    ASSUME ~EditsDuringRun, Types', RegisterInv, NEW rows, NEW p, EditPair(rows, p), csv' # NoFile
    PROVE  /\ RegisterInv'
           /\ Saved' = Saved /\ Published' = DecisionsInRows(rows)
           /\ Working' \in {Published', Saved}
<1>1. UNCHANGED <<doc, pc, entries>> /\ csv' = rows /\ pc = "idle"
  BY DEF EditPair, PeopleMayEdit, run
<1>2. Saved' = Saved /\ Published' = DecisionsInRows(rows)
  BY <1>1 DEF Saved, LocalEntries, Published, CommittedRows
<1>3. Working' \in {Published', Saved}
  BY <1>2, NextRegister
<1> QED
  BY <1>1, <1>2, <1>3 DEF RegisterInv

LEMMA HandWriteEdits ==
    ASSUME ~EditsDuringRun, Types, Types', RegisterInv,
           NEW k \in Keys, NEW s \in HandStatuses, NEW c \in Coords, HandWrite(k, s, c)
    PROVE  RegisterInv' /\ Register!Edit(k)
<1> DEFINE d == [status |-> s, on |-> today, record |-> NoRecord,
                 at |-> IF s = "no_pin" THEN NoCoord ELSE c]
           replaced == IF k.role = "main" THEN MainsOf(k.pair) ELSE {}
           rows == With(Without(CommittedRows, replaced), k, RowOf(d))
<1>1. EditPair(rows, ProvenanceFor(rows))
  BY DEF HandWrite
<1>2. csv' # NoFile
  BY HandWriteTyped, AbsenceAssumption
<1>3. /\ DOMAIN rows = (DOMAIN CommittedRows \ replaced) \cup {k} /\ rows[k] = RowOf(d)
      /\ \A j \in DOMAIN rows \ {k} : rows[j] = CommittedRows[j]
      /\ \A j \in replaced : j.pair = k.pair /\ k.role = "main"
  BY DEF With, Without, MainsOf
<1>4. Plain(DecisionOf(k, RowOf(d), NoEntries)).status \in HUMAN
  <2>1. d.status \in HUMAN
    BY SwitchAssumption
  <2> HIDE DEF d
  <2> QED
    BY <2>1 DEF Plain, DecisionOf, RowOf, HUMAN
<1> HIDE DEF rows, d, replaced
<1>5. /\ RegisterInv' /\ Saved' = Saved /\ Working' \in {Published', Saved}
      /\ Published' = DecisionsInRows(rows)
  BY <1>1, <1>2, EditRegister
<1>6. /\ DOMAIN Published' = DOMAIN rows /\ DOMAIN Published = DOMAIN CommittedRows
      /\ \A j \in DOMAIN rows : Published'[j] = Plain(DecisionOf(j, rows[j], NoEntries))
      /\ \A j \in DOMAIN CommittedRows :
            Published[j] = Plain(DecisionOf(j, CommittedRows[j], NoEntries))
  BY <1>5 DEF Published, DecisionsInRows
<1>7. Published'[k].status \in HUMAN
  BY <1>3, <1>4, <1>6
<1>8. \A j \in (DOMAIN Published \cup DOMAIN Published') \ {k} :
          \/ j \in DOMAIN Published' /\ j \in DOMAIN Published /\ Published'[j] = Published[j]
          \/ j \notin DOMAIN Published' /\ j.pair = k.pair /\ k.role = "main"
  BY <1>3, <1>6
<1> QED
  BY <1>5, <1>7, <1>8
  DEF Register!Edit, Register!ByPerson, Register!Agree, Register!HUMAN, HUMAN,
      Working, Saved, Published

LEMMA HandRemoveEdits ==
    ASSUME ~EditsDuringRun, Types, Types', RegisterInv, NEW k \in Keys, HandRemove(k)
    PROVE  RegisterInv' /\ Register!Edit(k)
<1> DEFINE rows == Without(CommittedRows, {k})
<1>1. EditPair(rows, ProvenanceFor(rows))
  BY DEF HandRemove
<1>2. csv' # NoFile
  BY HandRemoveTyped, AbsenceAssumption
<1>3. /\ DOMAIN rows = DOMAIN CommittedRows \ {k}
      /\ \A j \in DOMAIN rows : rows[j] = CommittedRows[j]
  BY DEF Without
<1> HIDE DEF rows
<1>4. /\ RegisterInv' /\ Saved' = Saved /\ Working' \in {Published', Saved}
      /\ Published' = DecisionsInRows(rows)
  BY <1>1, <1>2, EditRegister
<1>5. /\ DOMAIN Published' = DOMAIN rows /\ DOMAIN Published = DOMAIN CommittedRows
      /\ \A j \in DOMAIN rows : Published'[j] = Plain(DecisionOf(j, rows[j], NoEntries))
      /\ \A j \in DOMAIN CommittedRows :
            Published[j] = Plain(DecisionOf(j, CommittedRows[j], NoEntries))
  BY <1>4 DEF Published, DecisionsInRows
<1>6. /\ k \notin DOMAIN Published'
      /\ \A j \in (DOMAIN Published \cup DOMAIN Published') \ {k} :
            j \in DOMAIN Published' /\ j \in DOMAIN Published /\ Published'[j] = Published[j]
  BY <1>3, <1>5
<1> QED
  BY <1>4, <1>6 DEF Register!Edit, Register!Agree, Working, Saved, Published

LEMMA LoseCandidatesForgets ==
    ASSUME Types, Types', RegisterInv, LoseCandidates
    PROVE  /\ RegisterInv'
           /\ Working' = Published /\ Published' = Published /\ Saved' = NoEntries
<1>1. doc' = NoFile /\ UNCHANGED <<csv, pc, entries>> /\ pc = "idle"
  BY DEF LoseCandidates, run
<1>2. ~LocalStands' /\ Published' = Published
  BY <1>1 DEF LocalStands, Published, CommittedRows
<1>3. Saved' = NoEntries
  BY <1>1 DEF Saved, LocalEntries, DecisionsIn, NoEntries
<1> QED
  BY <1>1, <1>2, <1>3, NextRegister DEF RegisterInv

LEMMA RegisterStep ==
    ASSUME ~EditsDuringRun, ~MayCorrupt, Types, Types', RegisterInv, [Next]_vars
    PROVE  RegisterInv' /\ [Register!Next]_(Register!rvars)
<1> DEFINE Stutter == UNCHANGED <<Working, Saved, Published>>
<1>1. Stutter => [Register!Next]_(Register!rvars)
  BY DEF Register!rvars, Working, Saved, Published
<1>2. CASE StartRun
  BY <1>1, <1>2, StartRunStutters
<1>3. CASE SaveCandidates
  <2>1. /\ RegisterInv' /\ Continues(entries, Reconciled)
        /\ Working' = DecisionsIn(entries) /\ Saved' = DecisionsIn(entries)
        /\ Published' = Published
    BY <1>3, SaveCandidatesSaves
  <2>2. ASSUME NEW k \in DOMAIN Working'
        PROVE  \/ /\ Working'[k].status \in HUMAN
                  /\ k \in DOMAIN Working /\ Working'[k] = Working[k]
               \/ Working'[k].status = "auto" /\ k.role = "main"
    <3>1. k \in DOMAIN entries /\ IsDecided(entries[k]) /\ Working'[k] = Plain(entries[k].decision)
      BY <2>1 DEF DecisionsIn
    <3>2. CASE entries[k].decision.status = "auto" /\ k.role = "main"
      BY <3>1, <3>2 DEF Plain
    <3>3. CASE /\ IsHuman(entries[k]) /\ k \in DOMAIN Reconciled
               /\ Reconciled[k].decision = entries[k].decision
      <4>1. IsDecided(Reconciled[k])
        BY <3>1, <3>3 DEF IsDecided
      <4>2. k \in DOMAIN Working /\ Working[k] = Plain(entries[k].decision)
        BY <3>3, <4>1 DEF Working, DecisionsIn
      <4> QED
        BY <3>1, <3>3, <4>2 DEF IsHuman, Plain
    <3> QED
      BY <2>1, <3>1, <3>2, <3>3 DEF Continues
  <2>3. Register!Save
    BY <2>1, <2>2
    DEF Register!Save, Register!ByPerson, Register!Agree, Register!HUMAN, HUMAN,
        Working, Saved, Published
  <2> QED
    BY <2>1, <2>3 DEF Register!Next
<1>4. CASE RenameCsv
  <2>1. RegisterInv' /\ Published' = Working /\ Working' = Working /\ Saved' = Saved
    BY <1>4, RenameCsvPublishes
  <2>2. Register!Publish
    BY <2>1 DEF Register!Publish, Working, Saved, Published
  <2> QED
    BY <2>1, <2>2 DEF Register!Next
<1>5. CASE RejectWrite \/ RenameProvenance \/ ClearJournal \/ Crash
  BY <1>1, <1>5, PersistStutters
<1>6. CASE People
  <2>1. ASSUME NEW k \in Keys, RegisterInv' /\ Register!Edit(k)
        PROVE  RegisterInv' /\ [Register!Next]_(Register!rvars)
    <3>1. k \in Register!Keys
      BY DEF Register!Keys, Keys, Register!MainKeys, MainKeys, Register!BranchKeys, BranchKeys
    <3> QED
      BY <2>1, <3>1 DEF Register!Next
  <2>2. CASE LoseCandidates
    <3>1. /\ RegisterInv' /\ Working' = Published /\ Published' = Published
          /\ Saved' = NoEntries
      BY <2>2, LoseCandidatesForgets
    <3>2. Register!Forget
      BY <3>1 DEF Register!Forget, Register!NoEntries, NoEntries, Working, Saved, Published
    <3> QED
      BY <3>1, <3>2 DEF Register!Next
  <2>3. ASSUME NEW k \in Keys, HandMistake(k)
        PROVE  FALSE
    BY <2>3 DEF HandMistake
  <2> QED
    BY <1>6, <2>1, <2>2, <2>3, HandWriteEdits, HandRemoveEdits DEF People
<1>7. CASE World \/ UNCHANGED vars
  <2>1. UNCHANGED <<csv, prov, doc, pc, entries>>
    BY <1>7, WorldKeepsFiles
  <2> QED
    BY <1>1, <2>1, FilesAreTheRegister DEF RegisterInv, AllFaithful
<1> QED
  BY <1>2, <1>3, <1>4, <1>5, <1>6, <1>7 DEF Next, Program

(* Three files, two renames and a local copy behave like two registers, for *)
(* every set of institutions and spellings, wherever runs die and whatever  *)
(* is lost or restored: a save happens at once, at its first write; the     *)
(* rename of the CSV publishes it; a crash is no step at all.  People leave *)
(* the pair alone while a run gathers and write rows that parse.            *)
THEOREM ImplementsTheRegister ==
    ASSUME ~EditsDuringRun, ~MayCorrupt
    PROVE  Spec => ImplementsRegister
<1>1. Init => RegisterInv
  BY DEF Init, RegisterInv, AllFaithful, NoEntries
<1>2. Init => Register!Init
  <2> SUFFICES ASSUME Init
               PROVE  Working = NoEntries /\ Saved = NoEntries /\ Published = NoEntries
    BY DEF Register!Init, Register!NoEntries, NoEntries, Working, Saved, Published
  <2>1. /\ ~LocalStands /\ ~Torn
        /\ CommittedRows = NoEntries /\ LocalEntries = NoEntries
    BY DEF Init, LocalStands, Torn, TornByJournal, CommittedRows, LocalEntries
  <2>2. DOMAIN Reconciled = {}
    BY <2>1 DEF Reconciled, Rebuild, NoEntries
  <2> QED
    BY <2>1, <2>2 DEF Working, Saved, Published, DecisionsIn, DecisionsInRows, NoEntries
<1>3. Types /\ Types' /\ RegisterInv /\ [Next]_vars
      => RegisterInv' /\ [Register!Next]_(Register!rvars)
  BY RegisterStep
<1> QED
  BY <1>1, <1>2, <1>3, TypesInvariant, PTL DEF Spec, ImplementsRegister, Register!Spec
=============================================================================
