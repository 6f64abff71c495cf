# Formal model of yasli-backend

TLA+ specifications of the parts of yasli-backend whose correctness depends on
the order of things: what may crash between two writes, what runs at the same
time, what is decided by a person and must outlive the program. They are
checked by TLC on small instances; the properties that matter most are also
proved with TLAPS for every value of the constants.

Contents: [the system](#the-system), [the modules](#the-modules),
[the runs](#the-runs), [fairness](#fairness), [the proofs](#the-proofs),
[where code and documents disagree](#where-code-and-documents-disagree),
[what is left out](#what-is-left-out), [plan](#plan).

## The system

The backend answers one question: which kindergartens, preschools and
nurseries of Varna an address belongs to, and where they are.

| Part | Code | State it keeps | Operations |
| --- | --- | --- | --- |
| Location seeding | `scripts/seed_institution_locations.py`, `scripts/institution_locations_state.py` | three files: `institution_locations.csv`, its provenance JSON (both committed), a gitignored candidates file with a hash and a journal | a run: read, reconcile, plan, gather for minutes, save in four writes; people edit the committed pair by hand |
| Location parser and writer | `ingest/institution_locations_loader.py` | none | `parse_rows`, `write_file` |
| Location loader | same file, `load_rows` | table `institution_locations` | guards on `institutions`, then `TRUNCATE` + `INSERT`; dry run; `--allow-incomplete` |
| Weekly ingest | `ingest/pipeline.py` | tables `institutions`, `streets`, `addresses`, `address_institutions` | fetch, validate, plan; upserts, junction, stamping, one transaction |
| District stamping | `ingest/district_stamp.py` | `district_code`, `settlement_code` columns | three tiers over addresses, settlement pass, institutions pass; gated (ingest) and not (restamp) |
| ГРАО loader | `ingest/grao_loader.py` | table `grao_addresses`; while parsing, the last header and the last street | a state machine over the lines of a printed report; `TRUNCATE` + `INSERT` |
| Parsers | `ingest/normalise.py`, `ingest/parser.py` | none | a street or number string to its parts, or a rejection |
| Seed runner, verify, freeze | `seed/` | artifacts in the repository, a local database that is never emptied | five steps in order, stopping at the first failure; ten checks, each with a remedy; replacing the frozen snapshot |
| Matching | `services/matching.py`, `routes/match.py` | none | address and kind to offerings, up to five `SELECT`s |
| Catalogue routes | `routes/` | none; a browser keeps a body and its ETag | lists in one `SELECT`, a detail page in three; If-None-Match |
| Validation report | `ingest/match_data_validation.py` | none | read-only predicates over the tables |

How they interact. The scraper (outside this repository) replaces
`latest.json`; the ingest turns it into rows. The ГРАО loader fills the
classifier that stamping reads. The location seeding reads `institutions` and
writes files that a person reviews and commits; the location loader reads those
files and `institutions`. Cron, "Run now" in the deployment and an operator's
shell can start any of the commands at any time: nothing but Postgres locks
keeps them apart. The routes only read.

What is hard: the seeding has no transaction, only renames, and promises that a
crash loses nothing and that a person's decision is never overwritten; the
ingest, the restamp and the reload interleave statement by statement at READ
COMMITTED; the unique key of `addresses` does not see NULLs; the loop of
`plan_refresh` changes what it iterates towards; the report of addresses is
read through what its printer happens to print; a seed runs on whatever an
earlier one left; an answer of the API is put together from several statements.

What must hold, by part:

- seeding: whatever step a run dies at, the next one can load what it left;
  human decisions survive; a moved institution is reviewed; hand-made mistakes
  are not overwritten; the writer never rejects what was already saved;
  re-running ends with the files in step; the order of entries is irrelevant;
- ingest and stamping: one row per address; a committed ingest has every edge
  of its snapshot; a stamp comes from the best tier of one classifier; no
  institution stays without a district its catchment has; an ingest changes no
  existing stamp; a restamp propagates; every run ends, and one that runs alone
  does what its description says in one step;
- ГРАО parser: a house gets the district it is printed under; nothing that can
  be placed is lost;
- location loader: the table is one file, and refers to institutions there are;
- matching and routes: an ingest between two statements takes nothing out of an
  answer; what a browser revalidates is the current page;
- seed: a seed that got through has put everything there, whatever was there
  before; verification passes only the database the artifacts describe;
  following its remedies ends.

## The modules

| Module | Models |
| --- | --- |
| `LocationEntries` | pure: keys, rows, decisions, `parse_rows`, `render_csv_rows`, `decisions_from_files`, `reconcile`'s rebuild, `plan_refresh` as sets, gathering |
| `SeedLocations` | state machine: the files, one run of the script step by step, crashes, people, the world |
| `LocationRegister` | abstract: two registers, the saved and the published decisions; `SeedLocations` implements it |
| `PlanRefreshLoop` | the loop of `plan_refresh`, one entry a step in any order, against `PlanRefresh` of `LocationEntries` |
| `CatchmentRules` | pure: `_build_plan`, the three tiers, `_lookup_grao_district`, the catchment majority |
| `IngestTransactions` | state machine: ingests, restamps and reloads as interleaved Postgres transactions |
| `KadsReport` | state machine: the printer of the ГРАО report and `parse_lines`, line by line |
| `CatalogueTables` | the tables keyed naturally: each writer as one function of them, each `SELECT` as another, the loader's guards |
| `CatalogueReads` | state machine over `CatalogueTables`: matches and conditional GETs statement by statement, beside commits and loads of locations |
| `SeedRunner` | state machine over `CatalogueTables`: seeds, failures, verify, remedies, changing artifacts |
| `SeedLocationsProofs`, `PlanRefreshLoopProofs`, `KadsReportProofs`, `IngestTransactionsProofs`, `CatalogueReadsProofs`, `SeedRunnerProofs` | theorems about the state machines and their proofs |
| `CatchmentRulesProofs`, `CatalogueTablesProofs` | lemmas about what a plan, a lookup and a majority are, and about what each one-step writer keeps; cited by the three above |
| `MC*` | constants of the instances |

### SeedLocations and the code

`csv`, `prov`, `doc` are the three files; `NoFile` is a missing one. `doc.hash`
is `source_hash`, `doc.pending` the `pending_write` journal. `inst` is the
`institutions` table as `read_institutions` sees it. `entries`, `torn`, `pc`
are a run's memory. A step each:

| Action | Code |
| --- | --- |
| `StartRun` | `main` up to `persist`: `load_committed`, `reconcile`, `plan_refresh`, missing mains, branches, `gather` |
| `SaveCandidates` | `persist`: first `save_candidates`, with the journal |
| `RejectWrite` | `write_file` raises from its validation |
| `RenameCsv`, `RenameProvenance` | the two `os.replace` of `write_file` |
| `ClearJournal` | `persist`: second `save_candidates` |
| `Crash` | the process ends between two of these: each write is a rename, so there is nothing in between |
| `HandWrite`, `HandRemove`, `HandMistake`, `LoseCandidates` | people, following `docs/OPERATIONS.md` 285-361 |
| `SetAddress`, `DropInstitution`, `NextDay` | the database and the calendar |

`StartRun` is one step because nothing is written before it ends; that the
committed files may change *during* it is the switch `EditsDuringRun`, which
lets people edit while `pc` is `"gathered"`.

`corrupt`, `decided` and `moved` are observers: whether people left a pair that
does not parse (judged without the journal, unless they went back to what a
crash had left), the decisions they made which still apply, the institutions
that moved away from a committed row and that nobody has looked at since.

The data is abstracted to what these properties see. A text is a member of
`Addresses`, `NormalForm` is `normalise_address`, and a branch's label is
folded into its address. A coordinate is a member of `Coords`; `Typo` is one
that no gathering returns. What Overpass and Nominatim answer is a choice:
`Acceptable` names the entries whose answers *could* pass `decide` (mains
without an `address_changed` flag), and `found` whether they do. `accepted`
rows from `osm_poi` and from `nominatim` are one. A hash is the contents it is
taken of. The checks of a single cell in `_parse_row` are represented by the
provenance cross-check, the one that relates the two files.

Switches, all CONSTANTS: `RecoveryMayCrash`, `EditsDuringRun`,
`EditsMayRestore`, `MayLoseCandidates`, `MayDrop`, `MayCorrupt`. Each names
something that does happen; the properties hold or fail depending on them, and
each run says which it allows. That is the result: they are the operating
conditions under which the script keeps its promises.

How they compose. `CatalogueTables` is the abstract specification of the
writers: what an ingest, a restamp or a reload does to the tables, at once.
`IngestTransactions` shows the statements to implement it (`AloneIsAtomic`, an
action property through `INSTANCE CatalogueTables` and `ByKey`, which forgets
surrogate ids) and looks at what several of them do to each other.
`CatalogueReads` and `SeedRunner` are built on the one-step writers: readers see
only what is committed, and a seed's steps run one after another.

### IngestTransactions and the code

`db` is the committed database, `own[t]` what transaction `t` has written,
`mem[t]` the program's variables. A statement sees `View(t)`: its own writes
over the tables as committed now, which is READ COMMITTED. A row of `own[t]` is
a row lock; `WaitsFor` says whom the next statement waits for. The upserts,
which lock in the order of the plan, take one step a row; the other statements
one step each. `EndDeadlock` is Postgres ending one of a cycle. `Fail` is
anything else that ends a transaction.

| Action | Code |
| --- | --- |
| `Fetch` | `_fetch_snapshot_bytes`, `_validate_snapshot`, `_build_plan` |
| `UpsertInstitution`, `UpsertStreet` | `_upsert_institutions`, `_upsert_streets` |
| `PrefetchAddresses`, `InsertAddresses` | the `SELECT` and the `INSERT` of `_pg_upsert` for addresses |
| `InsertEdges` | `_insert_address_institutions` |
| `StampTier`, `StampSettlements` | `_stamp_addresses`, `_stamp_settlements` |
| `SelectCandidates`, `ReadDistrict`, `SetDistrict` | `_stamp_institutions` |
| `BeginRestamp` | `yasli.ingest restamp-districts` |
| `BeginReload`, `ReloadGrao` | `grao_loader.load_rows` |
| `Commit`, `Rollback` | `session.begin()` |

Abstractions: a snapshot entry is the address it parses to, or `Unparsable`;
columns no property looks at (names, contacts, `last_seen_at`) and the
operator's counts are left out; every street classifies into a settlement;
statements split into chunks of 5,000 rows are one; foreign key locks are
compatible with each other and left out; an `UPDATE` of many rows waits before
its first row, not in the middle. A number above `SmallIntMax` is what
`parse_number` skips because the column cannot hold it.

### KadsReport and the code

`printer` is the report's author, `state` is `_State`; `printed` and `rows` are
what each has put out. A line is printed and read in one step. `ReadHeader`,
`ReadStreet` and `ReadContinuation` are the three branches of `parse_lines` that
change anything, with `_emit_rows`. Blank lines, separators, column heads,
titles and dates are skipped before these branches are tried and left out.

Page counters are not: their skip (`grao_loader.py:325-326`) comes after the
branch for continuation lines (314-323), which takes any list of numbers
indented by 38 columns or more. `PrintCounter` is such a bare integer at the
right edge, and the parser does with it what it does with a continuation line:
nothing when no street is remembered, else one more house of that street. A
counter indented less changes nothing and is left out; so is one on the title
line. `Counters` is empty for a report that prints them there.

The printer is external, and what it may do was read off the committed archive
(`data/grao/kads-03-06.zip`): every section is
printed once, under a header; a street's numbers fill a line and go on in
continuation lines; a page break inside a section prints either nothing or the
header of the section that *follows* (`Ahead`; seven times in the archive, always
one of the same district and settlement, which the model does not assume); a line
with a garbled number has no continuation lines. The archive has its 206 page
counters on the title lines, and its 50 bare integers at column 38 are house
numbers, two of them at the top of a page; `Counters` is what the code's comment
(line 324) expects instead.

The section a house belongs to and the one whose header was printed last above
it (`printer.under`, `p.under`) can differ. `DistrictsAsPrinted` holds the parser
to the second, which is all the report tells it, and to the first whenever no
page break of that section prints another place's header (`StaysInPlace`).

`lost` is what the parser cannot place: lines with a number
`parse_number_token` rejects, and continuation lines at the top of a page that
starts with a header, which made the parser forget the street.

### CatalogueReads and the code

`db` is the committed database. A request is one session: `at` is its next
statement, `req` its parameters, `got` its variables, `cache` the body the
browser keeps. `seen` observes, for the properties: which offerings every state
since the request began would give, and who committed.

| Action | Code |
| --- | --- |
| `Ingest`, `Restamp`, `Reload` | a commit of `pipeline.run`, `restamp-districts`, `grao_loader` |
| `CheckFile`, `Truncate`, `InsertLocations`, `FailLoad` | `load_rows` and the transaction of `main` around it |
| `BeginMatch` … `ReadPreschoolsByDistrict` | `find_matches`, a `SELECT` each, and `build_offerings` |
| `BeginGet`, `ReadList` | the three list routes |
| `ReadInstitution`, `ReadLocations`, `ReadCoverage` | `_institution_row`, `_locations_for`, `_coverage_for` |
| `Respond` | `_etag`, `_not_modified_response`, `_json_response` |
| `CloseSession` | `get_db` |

`TRUNCATE` needs the table to itself: it waits for every session that has read
`institution_locations` and is still open, and the next waits for it. That is
why a detail page read before a load and finished after it keeps its pins.
`last_seen_at` and contacts are left out of bodies; every ingest changes the
former, which makes a 304 rarer than in the model, never wronger. One request
at a time: requests share only the tables.

### SeedRunner and the code

`artifacts` are the committed files; `at` is the step of the seed in progress;
`report` the remedies the last verify printed. Each `_step_*` is one action,
since each is a transaction (the migration of an up-to-date database does
nothing). `Check*` are the functions of `verify.py` of the same name; each gives
the remedies it would print, shortened to what a person would run: `seed`,
`reset` (`just db-reset && just be-seed`) or `validate-match-data`. `Freeze` and
`Checkout` change the artifacts at any moment, also between two steps, because
each step opens its file when its turn comes.

## The runs

All instances are small because the interesting cases are: one institution has
one row, two names for its address, and a run that dies; two transactions
already interleave in every way a pair can.

| Run | Shows | Instance |
| --- | --- | --- |
| `crash` | `TypeOK`, `AlwaysLoadable`, `HumanDecisionSurvives`, `CleanMeansInSync`, `WriterAcceptsWhatIsSaved`, `CorruptKept` | one institution, two addresses, two coordinates, two days; it may drop out of the database; people may break the pair |
| `moves` | `MovedNeedsReview`, `ImplementsRegister`, `RecoversInSync` (liveness) | three addresses: moving on, moving back; nobody leaves the database |
| `quotes` | `HumanDecisionSurvives`, `ImplementsRegister` | two spellings of one address, a branch, the candidates file may be lost |
| `refresh_loop` | `OrderIndependent`, `MovedIsFlagged` | one institution, three addresses, two of them one building, with a branch; every set of sampled entries, every order |
| `concurrent` | `TypeOK`, `OneRowPerAddress`, `CatchmentComplete`, `StampsAreBestTier`, `NoneStranded`, `RestampPropagates`, `IngestKeepsStamps`, `AloneIsAtomic`, `RunsEnd` (liveness) | two ingests, one of which may fail at any statement, a restamp, a reload; two snapshots; three addresses with and without NULLs, a number too large |
| `kads` | `DistrictsAsPrinted`, `NothingElseIsLost` | three sections in two districts, two streets, three numbers, one garbled and one a page counter; page breaks without a header, with one of the same place and with one of another |
| `catalogue` | `TypeOK`, `LocationsAreOneFile`, `IngestNeverHidesAMatch`, `RevalidatedIsCurrent` | a kindergarten with an infant group, a nursery, two preschools, two addresses; two snapshots, two classifiers, two loads |
| `seed` | `TypeOK`, `SeededMeans`, `VerifiedIsTheSnapshot`, `RemediesEnd` (liveness) | two releases that differ in every file, a third snapshot on R2, two changes, two failures |
| `double_crash`, `two_mains`, `edit_during`, `villages` | a property violated, see [below](#where-code-and-documents-disagree) | |

What the less obvious ones say:

- `IngestNeverHidesAMatch`: a match reads the address and the institutions in
  different statements. If nothing but ingests, reloads and loads commits in
  between, whatever every state in that time offers is in the answer, because an
  ingest neither deletes nor moves a stamp. It fails when a restamp commits
  (it moves an address and its preschool at once, and the match sees one of
  them), which is why the property excludes that; a match can then miss a
  preschool that is offered before and after.
- `IngestKeepsStamps` is about the institutions of the ingest's own snapshot:
  their rows it has locked since its upserts. Another one's stamp it can
  overwrite, see [below](#where-code-and-documents-disagree).
- `RevalidatedIsCurrent`: a detail page assembled across a commit is a page of no
  single state, and the browser keeps it; its ETag is of those bytes, so asking
  again gives the current page, where a version number of the row would say 304.
- `SeededMeans`: equality with a seed of an empty database would be too much:
  edges and institutions of another release stay. What the last step promises is
  inclusion, and the current classifier wherever it lists an address exactly.
- `RemediesEnd`: whenever from some time on a clean seed from the artifacts
  would pass, a person who does what the reports say ends with a database that
  passes. It would fail if a check asked for a re-seed that cannot help, which is
  what `CheckEdgesReseeding`, its mutant, does.

Bounds. `MaxDay` = 2 lets a file carry an older and a newer date; a third day
adds nothing a difference of dates could show. Two coordinates tell a kept pin
from a new one. Two addresses suffice for a move and a move back; `moves` has a
third, a move that goes on. One institution: entries of two never meet, except
in the file as a whole, where one run already saves, keeps and drops rows at
once; the proofs do not bound it. Two ingests, since the locks that keep them
apart are between pairs; a third transaction kind each for restamp and reload,
so that the classifier changes between two statements. Each transaction runs
once: a retry is the other ingest. In `kads` a page
break of the first section prints the header of the second, one of the second
that of the third, in another district; the third has only its header, since
streets of its own would be read as the others' are; every set of numbers is a
line, and a counter may be the number of a printed house or not.
In `catalogue` any number of ingests, restamps and reloads may commit, in any
order; snapshots advance once; two loads are the pair that can collide. In
`seed`, `MaxChanges` = 2 lets the artifacts change and change back, also within
one seed, and `MaxFailures` = 2 lets the re-run of a failed seed fail.
`IngestTransactions`, `KadsReport` and `PlanRefreshLoop` end when everything has
run or been printed, hence `CHECK_DEADLOCK FALSE`; in the others deadlock is
checked: the seeding, a request and a seed can always go on.

`ImplementsRegister` reads `Reconciled` as the value of a register: what a run
starting now would start from. The refinement says a save happens at once, at
its first write; a crash anywhere is no step at all; and an edit of the pair
moves the working decisions to what was published.

`OrderIndependent` compares the loop at its end with `PlanRefresh`, the set
definition `SeedLocations` uses: it also justifies that use.

## Fairness

`SeedLocations!FairSpec`: weak fairness of `StartRun`, the operator re-runs the
seed as `docs/OPERATIONS.md` tells him to; strong fairness of each write, a
crash is an accident: a run that is started again and again is not killed at
the same write every time. Nothing is assumed of people or the world.

`IngestTransactions!FairSpec`: weak fairness of one action, *some*
transaction takes a step or a deadlock is ended: Postgres runs what can run and
looks for deadlocks after `deadlock_timeout`. Nothing is assumed of a single
transaction, nor of `Fail` and `Publish`. That is enough for `RunsEnd` because
no transaction waits except for one that can end.

`SeedRunner!FairSpec`: weak fairness of the seed's own steps and of the verify
that closes it, a started process goes on. `RemediesEnd` is about a person
following instructions, so it assumes one who does: weak fairness of re-seeding
when the report says so or there is none yet, strong fairness of the reset,
since `seed` and `reset` may be printed in turns. Failures are bounded, changes
of the artifacts as well; the property starts when they leave a seedable state.

## The proofs

| Theorem | Statement | Premises |
| --- | --- | --- |
| `SeedLocationsProofs!TypeCorrect` | `Spec => []TypeOK` | none |
| `SeedLocationsProofs!WriterAccepts` | `Spec => []WriterAcceptsWhatIsSaved` | `TextsAreAddresses`: no two texts are one address |
| `SeedLocationsProofs!CorruptIsKept` | `Spec => CorruptKept` | people edit only between runs |
| `SeedLocationsProofs!CrashesAreLoadable` | `Spec => []AlwaysLoadable` | `TextsAreAddresses`, people edit only between runs, a repairing run does not die before its first rename, the candidates file is not lost |
| `SeedLocationsProofs!CleanIsInSync` | `Spec => []CleanMeansInSync` | none |
| `SeedLocationsProofs!HumanDecisionsSurvive` | `Spec => []HumanDecisionSurvives` | people edit only between runs, and no edit brings back the bytes of an earlier hash |
| `SeedLocationsProofs!MovesNeedReview` | `Spec => []MovedNeedsReview` | people edit only between runs, `TextsAreAddresses`, institutions stay in the database, the candidates file is not lost |
| `SeedLocationsProofs!ImplementsTheRegister` | `Spec => ImplementsRegister` | people edit only between runs, and what they leave parses |
| `PlanRefreshLoopProofs!EveryOrderIsThePlan` | `Spec => []OrderIndependent` | none |
| `PlanRefreshLoopProofs!EveryMoveIsFlagged` | `Spec => []MovedIsFlagged` | none |
| `KadsReportProofs!DistrictsRead` | `Spec => []DistrictsAsPrinted` | `EveryHeaderHasDistrict` |
| `KadsReportProofs!HousesRead` | `Spec => []NothingElseIsLost` | `EveryHeaderHasDistrict` |
| `IngestTransactionsProofs!AlwaysOneRowPerAddress` | `Spec => []OneRowPerAddress` | none |
| `IngestTransactionsProofs!AlwaysWellTyped` | `Spec => []TypeOK` | none |
| `IngestTransactionsProofs!AlwaysCatchmentComplete` | `Spec => []CatchmentComplete` | none |
| `IngestTransactionsProofs!AlwaysBestTier` | `Spec => []StampsAreBestTier` | none |
| `IngestTransactionsProofs!AlwaysPropagated` | `Spec => []RestampPropagates` | none |
| `IngestTransactionsProofs!NeverStranded` | `Spec => []NoneStranded` | none |
| `IngestTransactionsProofs!StampsAreKept` | `Spec => IngestKeepsStamps` | `OnlyNurseriesTold`: no snapshot tells the district of a kindergarten or preschool |
| `CatalogueReadsProofs!ReadsWellTyped` | `Spec => []TypeOK` | none |
| `CatalogueReadsProofs!LocationsAlwaysOneFile` | `Spec => []LocationsAreOneFile` | none |
| `CatalogueReadsProofs!RevalidatedAlwaysCurrent` | `Spec => []RevalidatedIsCurrent` | none |
| `CatalogueReadsProofs!IngestAlwaysLeavesTheMatch` | `Spec => []IngestNeverHidesAMatch` | `NoPreschoolTold`: no snapshot tells the district of a preschool |
| `SeedRunnerProofs!AlwaysWellTyped` | `Spec => []TypeOK` | none |
| `SeedRunnerProofs!AlwaysSeeded` | `Spec => []SeededMeans` | none |
| `SeedRunnerProofs!VerifiedAlwaysMeans` | `Spec => []VerifiedIsTheSnapshot` | none |

They hold for any number of institutions, addresses, coordinates, days, entries,
snapshots, loads and transactions. The premises are not conveniences. Those
about people's edits, crashes of repairs and spellings are the conditions the
violation runs break, and there the statements are false; a lost candidates
file, a second spelling and old bytes brought back defeat `MovesNeedReview` and
`HumanDecisionsSurvive`, see the end of the next section. An institution that
leaves the database takes its entries with it, so that when it comes back there
is nothing left to have moved away from. A pair that does not parse is no value
of a register: `Reconciled` of it is what no run can start from. `NoPreschoolTold`
and `OnlyNurseriesTold` are what the pipeline says of its input ("Snapshot NULL
means "backend-derived" for KG/PG", `pipeline.py:480`); the snapshots of
`catalogue` and `concurrent` satisfy them.

The modules state what they need of their constants as assumptions, and TLC
evaluates them in every run. What a snapshot is, `SnapshotFile`, is said with the
rules: the fields pydantic has let through, and entries that the parsers reject,
or that are addresses, or whose number is more than the column holds; that the
plan leaves the last ones out is proved. Two kinds of assumption are more than
typing. `PlanAssumption`, in the three modules that read snapshots, says that
each of theirs is `Collected`: the plan's institutions are those of the rows, and
its streets those of the entries that parse. That is what two loops of
`_build_plan` give, which the model writes as folds the prover cannot unfold;
the rest of the plan (rows, edges, addresses, that they are finite) is unfolded
and proved (`SnapshotPlans`). `FilesAssumption` of `CatalogueReads` and
`LocationsAssumption` of `SeedRunner` say that no location file has two main rows
of an institution: `parse_rows` rejects one that has
(`institution_locations_loader.py:388-396`). `RulesAssumption` and the like give
the constants their kinds.

Types. `TypeOK` is not inductive, since `RenderRows` needs a decided entry to
carry a coordinate where its status asks for one. `Types` adds `SoundEntry`:
every decision in memory and in the candidates file could be rendered. That
gathering, reconciling and hand edits keep it is proved operator by operator in
the first half of `SeedLocationsProofs`, and cited.

Writer. `WriterInv`: from the end of gathering on, the rows and provenance to
be written parse. Its one interesting step is `StartRun`, lemma
`GatheredParses`: after `plan_refresh` every main entry is at home, at the
address the database has, so with one text per address there is one main a
pair; and the provenance of a gathering has exactly its auto rows.

Corrupt. `CorruptInv`: while `corrupt`, no run is in progress and none can
start, so no step of the program changes the pair.

Loadable. `LoadableInv` says why a run may die anywhere: before the first
rename the pair is the one the run could load; between the renames the
journal describes it; after them it parses. A pair that was already torn when
the run started is the exception, its journal is replaced by the first write:
hence the premise about repairing runs.

In sync. `SyncInv`: a candidates file without a journal carries the hash of
what it renders to, since it is written so only at the end of `persist`, when
the pair on disk is what the run wrote. `DecidedInv`, for the decisions of
people: they can be read back from the committed rows at every moment, because
a rename replaces rows by rows that contain them; and they are in the memory of
a run and, when its hash is the pair's, in the candidates file, so both ways
`load_committed` and `reconcile` can go start from them.

Loop. `LoopInv`: at every point the two dicts are the set definition applied to
the entries visited so far, whichever they are. One lemma a step for the three
branches of the loop body. At the end all are visited, and in the set
definition a stale main entry leaves a flagged entry or meets a kept one, and an
unflagged entry that is already there is flagged too.

Review. `ReviewInv` follows the flag of a moved institution to wherever it is
(`FlagHeld`). In the files: either the committed main row is still at the old
address, so that the next run sees the move itself, or the candidates file that
the next run will use has a flagged or a human entry of the institution. In the
memory of a run: the same. What makes this inductive is `Accounts`: every
committed main row is in the candidates file, as it is or as a flag or a
person's decision, so it does not matter whether `load_committed` takes the
files, the journal or a rebuild; and `Careful`: one run, `plan_refresh` and
gathering together, loses no flag and auto-accepts nothing flagged. A crash
anywhere, a repair that crashes again, a broken pair and a restored one need no
exception.

Register. A save is one at its first write, `SaveCandidates`; the rename of the
CSV publishes; the rename of the provenance, the last write, a crash, a refusal
of the writer and a run that starts are no step; an edit of the pair makes the
published decisions the working ones, or the saved ones again if it comes back
to what they were made from; the loss of the candidates file leaves the published
ones. Each is a lemma of its own, from `RegisterInv`: from the first write on, the
candidates file holds what the run has in memory, and after the rename of the CSV
so does the CSV. Hence `Reconciled` says the same whether a run that starts then
takes the pair, the journal or the candidates file: rows read back are the
decisions they were rendered from. `Continues` is what the abstract save asks for:
no decision of a person is made up or altered.

Report. The invariant ties the parser to the printer: its section is the one
whose header was printed last, and its last street is the printed one, or none
after a header that cut it off. The street it remembers may be an earlier one,
after a garbled line; it was printed under that same header (`InStep`), and this
is what a counter needs: wherever it is printed, the row made of it is on a street
of the right place. `AllInPlace` carries the section's own place along, for
sections whose page breaks stay in it. Nothing is assumed of page breaks or of
counters; with a header the parser does not recognise the first half fails, as
`villages` shows, hence the premise.

One row. `OneRowInv`: from before its `SELECT` of `addresses` to its end, an
ingest holds the lock on the row of every street it plans addresses for, so of
two transactions at most one knows, and adds, the addresses of a street
(`Apart`); within one, what it inserts is what its `SELECT` did not find. The
unique constraint cannot do this: in it, NULLs are distinct.

Tables. `TablesInv`: a row belongs to at most one running
transaction (`Distinct`), what a transaction has written is sound over the
committed tables as they are and as they may become, since nothing is ever
deleted (`Sound`), and what it has upserted of its plan is there (`Mine`). Types,
foreign keys and the whole catchment of a committed ingest follow.

Stamps. A transaction that has run a tier holds `grao_addresses` against reloads
until it ends (`Exclusive`), so all three of its tiers read one classifier. After
its tier n, an address it sees without a district is one the classifier does not
speak of up to tier n (`Unspoken`: also one that another ingest has committed
meanwhile, because that ran its tiers under the same classifier), and its own
stamps are those of the best tier (`StampedBest`); for a restamp, every exact
address it sees has the district of the exact tier (`Propagated`).

Stranded. `NoneBare` is `NoneStranded` said without counting: an institution
committed without a district has only addresses without one. The step that could
break it is a commit whose addresses gain districts while the institution they
serve was found bare by another. `NoneStampsMore` excludes it: two transactions
past their tiers have used the same classifier and found the same addresses
`Unspoken`. That the majority of districts is one of them, and none only if there
is none, is lemma `MajorityIs`.

Kept. `KeepsInv`: an ingest's row of an institution of its snapshot has the
committed district when there is one: the upsert's COALESCE takes it from
there, nobody else can write the row it has locked, and its institutions pass
selects rows that are NULL.

Locations. At most one load is between its `TRUNCATE` and its end, and what it
has removed is what everybody else still sees (`OwnedByOne`); its commit replaces
that whole, its failure leaves it.

Pages. `PageInv`: if no commit has come between, what a request has read is
what the database says now; the answer is compared by the bytes of the body.

Match. `MatchInv` says where each offering owed will come from: a kind whose
statement has run is answered; one whose statement is to come has its row, since
commits other than a restamp keep edges, institutions and stamps (`Kept`), and
the district a match has read is still the address's. What is owed is what
*every* state since the start offers, so a later commit only makes it less.

Readers' types. `ReadsTypes` adds two things to `TypeOK`. The tables are `Sane`:
finitely many addresses, so that a majority exists, and only the fields there
are. And a load past its guards still passes them, whatever has committed since:
institutions are never deleted (`Grown`), so the file it is about to insert
refers to institutions there are. Each writer's half is a lemma of
`CatalogueTablesProofs`.

Seed. `SeedInv`: while the artifacts stay, one fact a step, the classifier is
loaded, the snapshot ingested, the locations loaded, the exact stamps the
classifier's; each step keeps the facts of those before it (`IngestAdds`,
`RestampKeeps`), and a step that fails ends the seed. `TypesInv` underneath: the
artifacts on disk are those of releases, with a snapshot of a release or of R2.

Verified. `VerifyInv`: a report without remedies stands only while no seed runs
and the artifacts stay, so what the checks compared is still so. They compare
institutions and edges; that the addresses are the snapshot's too follows
because no writer adds an address without an edge, for as long as the database
exists.

Left to TLC: the liveness properties (`RecoversInSync`, `RunsEnd`,
`RemediesEnd`: fairness and `ENABLED` are out of the prover's reach); and
`AloneIsAtomic`, whose one-step tables are compared after renaming every
surrogate id, statement by statement.

## Where code and documents disagree

- `double_crash`: `persist` says of a crash in any of its windows "Nothing is
  lost in any of the three" (`institution_locations_state.py:472`). A run that
  repairs a torn pair overwrites the journal that made it recognisable
  (line 483); if it dies before the CSV rename, every later run raises.
- `two_mains`: "The one address comparison every consumer uses"
  (`institution_locations_loader.py:162`); `main` compares raw keys
  (`seed_institution_locations.py:760`). A re-spelled address of a
  human-decided main gets a second entry; if its candidates are accepted the
  writer rejects the batch, after the candidates file was saved.
- `edit_during`: a row committed while a run gathers is overwritten by it, with
  a matching hash; `docs/OPERATIONS.md:286-288` and
  `institution_locations_state.py:29-30` say it survives.
- `villages`: `_COMBINED_HEADER_RE` (`grao_loader.py:91-98`) asks for `район
  NN_`; the headers of village sections have none. In the committed archive 11
  headers are skipped and 3,627 of 47,579 rows are stored under the last city
  section, as streets of ГР.ВАРНА in район 05. `grao_loader.py:33-34` says rows
  inherit "the current section's район/section codes"; `verify.py:42-43` and
  `district_stamp.py:233-235` count on villages having none. A city address can
  be stamped by such a row when its street is called like a village's.

Found on the way, without a run of their own:

- "Page-counter ('1', '2', …) lines at the right edge — bare integers"
  (`grao_loader.py:324`) are to be skipped, but the test for a continuation line
  comes first (314-323) and takes them: while a street is remembered, a counter
  indented by 38 columns or more is stored as a house of that street. Without
  `r.cell \in Counters`, `DistrictsAsPrinted` fails in `kads` at the fourth
  state: a header, a street's line, a counter. The committed archive is not affected,
  its counters stand on the title lines; no test has such a line.
- `address_changed` is only in the candidates file. After a save has dropped the
  old row, losing that file (`OPERATIONS.md:360-362`: "Nothing decided is lost")
  lets the next run accept the new building unseen (`OPERATIONS.md:299-300`);
  `MovedNeedsReview` is violated with `MayLoseCandidates`.
- Nor does it survive a second spelling: a human decision on a re-spelled address
  makes `main` add an unflagged entry under the raw key (`two_mains`), and
  `MovedNeedsReview` fails on the instance of `quotes`.
- The institutions pass is a "Gated pass — touches only KG/PG rows where
  ``district_code IS NULL``" (`district_stamp.py:473`), but only its `SELECT` is:
  the `UPDATE` goes by id (line 287). An ingest whose snapshot lacks an
  institution selects it as NULL; another ingest upserts it at a new address,
  stamps it and commits; the first then overwrites that stamp with the district
  of the catchment it has read. Hence the restriction of `IngestKeepsStamps`.
- "Run the non-gated restamp to propagate" (`OPERATIONS.md:132-135`): the
  fallback tiers stay gated (`district_stamp.py:218-230`), so an address no
  exact row lists keeps the district of an earlier classifier.
  `RestampPropagates` is therefore about exactly listed ones. Consequently a
  re-seeded database passes `verify` while an address is in another район than
  a clean seed puts it in, against "a dirty database must not pass verification"
  (`verify.py:5-8`); and a known address that only a fallback stamps would be
  asked to be re-seeded for ever (those of `verify.py` are listed exactly).
- With `EditsMayRestore` an edit back to the bytes of an interrupted save's hash
  is outvoted by the local decisions; and a pair left by a crash between the
  renames that happens to parse is taken for an edit, since the journal is only
  consulted after a parse failure.
- `verify` compares keys and edges, not columns: after a snapshot that only moves
  a nursery to another district it passes an un-reseeded database.
  `check_institution_set` names only the re-seed when institutions are both
  missing and left over (`verify.py:169`); the reset is printed by the next
  verify.
- A snapshot frozen without an institution that `institution_locations.csv`
  still has makes a clean seed fail at its fourth step; `RemediesEnd` excludes
  such artifacts (`Seedable`).
- A restamp that commits between two statements of a match can hide a preschool
  that is offered before and after; a detail page read across a commit is of no
  single state, where `institutions.py:12-13` speaks of "deterministic snapshot
  views".
- A load of locations without `--allow-incomplete` can miss an institution an
  ingest commits after the guards have read (`institution_locations_loader.py:585`).
- `institutions.py:426` says `institutions.id` is "reassigned on every
  re-ingest"; `_upsert_institutions` keeps it.
- `docs/ARCHITECTURE.md:104` gives another order of the upserts than
  `pipeline.py:711-718`.

## What is left out

Not modelled: float geometry (municipality polygon, distances), HTTP and R2
clients, configuration, how pydantic validates a field of a snapshot, log lines and
summaries, the migrations (each runs once, alone), the `.sail` tooling; the
regular expressions that split a street, a number or a line of the report, which
are covered by what they return. Modelled as a choice: what third parties
answer. Modelled from use, marked external: Postgres locking and visibility,
the scraper, the printer of the ГРАО report, the people.

Hazards no property covers, with reasons in `PROJECT.json`: an older snapshot
that commits after a newer one (contacts and `last_seen_at` go back; nothing in
the code prevents it), the parameter limit of an unchunked `SELECT`, a garbled
line with a continuation, the snapshot that verify reads twice, and an edit that
brings back the bytes of an interrupted save (`EditsMayRestore`, with which no
passing run is made).

## Plan

Done: the seeding with its abstract specification and loop; the ingest, stamping
and reload transactions and the one-step tables they implement; the ГРАО report;
loader, matching and routes; the seed. Proved: every safety property of a passing
run but one.

Next: `AloneIsAtomic`, that a transaction running alone is one step of
`CatalogueTables`. Its invariant would say after each statement how far the
one-step writer has got, by key; `Distinct` and `Sound` of `TablesInv` give the
renaming of ids.
