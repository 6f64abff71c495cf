--------------------------- MODULE SeedLocations ---------------------------
(***************************************************************************)
(* scripts/seed_institution_locations.py and its save path: three files    *)
(* (the CSV, the provenance file, the local candidates file) that no       *)
(* single rename can change together, one program that saves them in four  *)
(* steps and may die between any two, and people who edit the committed    *)
(* pair by hand.                                                           *)
(*                                                                         *)
(* `csv` and `prov` are the committed pair, `doc` the candidates file.     *)
(* `entries`, `torn` and `pc` are the memory of the run in progress; they  *)
(* are reset when it ends.  `corrupt` and `decided` only observe: whether  *)
(* people left the pair unparsable, and which human decisions on main      *)
(* buildings and branches they have made that still apply.                 *)
(***************************************************************************)
EXTENDS LocationEntries

CONSTANTS
    NoFile,             \* a file that does not exist; also the hash of none
    NoJournal,          \* pending_write is null
    RecoveryMayCrash,   \* may a run that repairs a torn pair die before its first rename
    EditsDuringRun,     \* may people edit the pair while a run gathers
    EditsMayRestore,    \* may an edit bring back the very bytes the last save started from
    MayLoseCandidates,  \* may the gitignored candidates file disappear
    MayDrop,            \* may an institution leave the database
    MayCorrupt,         \* may people leave a pair that does not parse
    HandStatuses        \* the human decisions people write

ASSUME SwitchAssumption ==
    /\ {RecoveryMayCrash, EditsDuringRun, EditsMayRestore,
      MayLoseCandidates, MayDrop, MayCorrupt} \subseteq BOOLEAN
    /\ HandStatuses \subseteq HUMAN

Entries == Dicts(Keys, Entry)
CsvFile == Dicts(Keys, Row)
ProvenanceFile == Dicts(Pairs, Record)
Journal == [csv : CsvFile, provenance : ProvenanceFile,
            previous : ProvenanceFile \cup {NoFile}]
Document == [hash : (CsvFile \X (ProvenanceFile \cup {NoFile})) \cup {NoFile},
             entries : Entries,
             pending : Journal \cup {NoJournal}]

ASSUME AbsenceAssumption ==
    /\ NoFile \notin CsvFile /\ NoFile \notin ProvenanceFile /\ NoFile \notin Document
    /\ NoFile \notin CsvFile \X (ProvenanceFile \cup {NoFile})
    /\ NoJournal \notin Journal

VARIABLES inst, today, csv, prov, doc, pc, entries, torn, corrupt, moved, decided

files == <<csv, prov, doc>>
run == <<pc, entries, torn>>
people == <<corrupt, moved, decided>>
vars == <<inst, today, files, run, people>>

-----------------------------------------------------------------------------
(* committed_hash: None without a CSV, the contents of both files with one. *)
CommittedHash == IF csv = NoFile THEN NoFile ELSE <<csv, prov>>

CommittedRows == IF csv = NoFile THEN NoEntries ELSE csv
CommittedProvenance == IF prov = NoFile THEN NoEntries ELSE prov

\* The pair parses: a missing CSV is an empty dataset whatever the
\* provenance file holds.
PairParses == csv = NoFile \/ Parses(CommittedRows, CommittedProvenance)

(* _torn_by_journal                                                         *)
TornByLocalState == doc # NoFile /\ csv = RenderRows(doc.entries)
TornByJournal ==
    /\ doc # NoFile
    /\ doc.pending # NoJournal
    /\ csv = doc.pending.csv
    /\ prov = doc.pending.previous

Torn == ~PairParses /\ TornByJournal

\* load_committed returns instead of raising.
Loadable == PairParses \/ TornByJournal

(* reconcile: the entries a run that started now would start from.          *)
LocalAlwaysStands == doc # NoFile
LocalStandsByHash == doc # NoFile /\ doc.hash = CommittedHash
LocalStands == doc # NoFile /\ (Torn \/ doc.hash = CommittedHash)
LocalEntries == IF doc = NoFile THEN NoEntries ELSE doc.entries
Reconciled ==
    IF LocalStands THEN LocalEntries
    ELSE IF Torn THEN Rebuild(LocalEntries, NoEntries, NoEntries)
    ELSE Rebuild(LocalEntries, CommittedRows, CommittedProvenance)

-----------------------------------------------------------------------------
Addressings == Dicts(Pairs, Addresses)

Init ==
    /\ inst \in Addressings
    /\ today = 1
    /\ csv = NoFile /\ prov = NoFile /\ doc = NoFile
    /\ pc = "idle" /\ entries = NoEntries /\ torn = FALSE
    /\ corrupt = FALSE /\ moved = NoEntries /\ decided = NoEntries

Idle == pc' = "idle" /\ entries' = NoEntries /\ torn' = FALSE

(* main() up to persist: read the database and the files, reconcile, plan,  *)
(* gather.  Gathering takes minutes; nothing is written before it ends.     *)
StartRun ==
    /\ pc = "idle"
    /\ Loadable
    /\ \E inventory \in SUBSET BranchKeys, full \in BOOLEAN :
        LET gathering == ToGather(Reconciled, inst, inventory, full) IN
        \E found \in [Acceptable(gathering) -> Coords \cup {NoCoord}] :
            /\ entries' = Gathered(Reconciled, inst, inventory, full,
                                   gathering, found, today)
            /\ decided' = IF full THEN Without(decided, BranchKeys \ inventory) ELSE decided
    /\ pc' = "gathered"
    /\ torn' = Torn
    /\ UNCHANGED <<inst, today, files, corrupt, moved>>

NewRows == RenderRows(entries)
NewProvenance == RenderProvenance(entries)

(* persist, first write: the candidates file, stamped with the hash of the  *)
(* pair on disk now and with the journal of the two renames to come.        *)
SaveCandidatesNoJournal ==
    /\ pc = "gathered"
    /\ doc' = [hash |-> CommittedHash, entries |-> entries, pending |-> NoJournal]
    /\ pc' = "journalled"
    /\ UNCHANGED <<inst, today, csv, prov, entries, torn, people>>
SaveCandidatesLateJournal ==
    /\ pc = "gathered"
    /\ doc' = [hash |-> CommittedHash, entries |-> entries,
               pending |-> [csv |-> NewRows, provenance |-> NewProvenance,
                            previous |-> NewProvenance]]
    /\ pc' = "journalled"
    /\ UNCHANGED <<inst, today, csv, prov, entries, torn, people>>
SaveCandidates ==
    /\ pc = "gathered"
    /\ doc' = [hash |-> CommittedHash, entries |-> entries,
               pending |-> [csv |-> NewRows, provenance |-> NewProvenance,
                            previous |-> prov]]
    /\ pc' = "journalled"
    /\ UNCHANGED <<inst, today, csv, prov, entries, torn, people>>

(* write_file refuses what parse_rows would refuse, before it touches       *)
(* either file.                                                             *)
RejectWrite ==
    /\ pc = "journalled"
    /\ ~Parses(NewRows, NewProvenance)
    /\ Idle
    /\ UNCHANGED <<inst, today, files, people>>

RenameCsv ==
    /\ pc = "journalled"
    /\ Parses(NewRows, NewProvenance)
    /\ csv' = NewRows
    /\ pc' = "csv_renamed"
    /\ UNCHANGED <<inst, today, prov, doc, entries, torn, people>>

RenameProvenance ==
    /\ pc = "csv_renamed"
    /\ prov' = NewProvenance
    /\ pc' = "both_renamed"
    /\ UNCHANGED <<inst, today, csv, doc, entries, torn, people>>

(* persist, last write: the new hash, and no journal.                       *)
ClearJournal ==
    /\ pc = "both_renamed"
    /\ doc' = [hash |-> CommittedHash, entries |-> entries, pending |-> NoJournal]
    /\ Idle
    /\ UNCHANGED <<inst, today, csv, prov, people>>

(* The run ends without its next step: a kill, a power cut, an OSError from *)
(* a write or a rename, a third-party service that fails while gathering.   *)
Crash ==
    /\ pc # "idle"
    /\ RecoveryMayCrash \/ ~(torn /\ pc = "journalled")
    /\ Idle
    /\ UNCHANGED <<inst, today, files, people>>

-----------------------------------------------------------------------------
(* The world around the script.                                             *)

NextDay ==
    /\ today < MaxDay
    /\ today' = today + 1
    /\ UNCHANGED <<inst, files, run, people>>

MainsOf(p) == {k \in DOMAIN CommittedRows : k.role = "main" /\ k.pair = p}

\* The row is about a building the institution is not in: what a person
\* sees, whatever plan_refresh makes of it.
Elsewhere(k, addresses) ==
    k.role = "main" /\ NormalForm[addresses[k.pair]] # NormalForm[k.address]

(* The weekly ingest adds an institution or overwrites its address.  A      *)
(* person's decision on the old building no longer applies.  Where there is *)
(* a row to be wrong about this is a move, until a person looks at it or    *)
(* the institution returns to where it had that row.                        *)
SetAddress(p, a) ==
    LET new == With(inst, p, a) IN
    /\ inst # new
    /\ inst' = new
    /\ decided' = Without(decided, {k \in DOMAIN decided : k.pair = p /\ Elsewhere(k, new)})
    /\ moved' = IF p \in DOMAIN moved
                THEN IF moved[p] = NormalForm[a] THEN Without(moved, {p}) ELSE moved
                ELSE IF \E k \in MainsOf(p) : Elsewhere(k, new)
                THEN With(moved, p, NormalForm[(CHOOSE k \in MainsOf(p) : TRUE).address])
                ELSE moved
    /\ UNCHANGED <<today, files, run, corrupt>>

\* An institution leaves the database: a migration or a fresh database.
DropInstitution(p) ==
    /\ MayDrop
    /\ p \in DOMAIN inst
    /\ inst' = Without(inst, {p})
    /\ decided' = Without(decided, {k \in DOMAIN decided : k.pair = p})
    /\ moved' = Without(moved, {p})
    /\ UNCHANGED <<today, files, run, corrupt>>

\* People touch the pair between runs, and only where it matters during one.
PeopleMayEdit == pc = "idle" \/ (EditsDuringRun /\ pc = "gathered")

\* The edit brings back the bytes the candidates file was stamped with.
Restores(rows, p) == IF doc = NoFile THEN FALSE ELSE doc.hash = <<rows, p>>

\* The edit goes back to the bytes a crash between the renames left.
LeftByCrash(rows, p) ==
    IF doc = NoFile THEN FALSE
    ELSE IF doc.pending = NoJournal THEN FALSE
    ELSE rows = doc.pending.csv /\ p = doc.pending.previous

EditPair(rows, p) ==
    /\ PeopleMayEdit
    /\ <<rows, p>> # <<csv, prov>>
    /\ ~Restores(rows, p) \/ EditsMayRestore
    /\ csv' = rows
    /\ prov' = p
    /\ corrupt' = (~Parses(rows, IF p = NoFile THEN NoEntries ELSE p) /\ ~LeftByCrash(rows, p))
    /\ MayCorrupt \/ ~corrupt'
    /\ UNCHANGED <<inst, today, doc, run>>

\* The provenance entry goes with the auto row it vouches for.
ProvenanceFor(rows) ==
    IF prov = NoFile THEN NoFile
    ELSE Without(prov, DOMAIN prov \ {k.pair : k \in AutoRows(rows)})

(* A person resolves or corrects a building by writing its row.             *)
HandWrite(k, status, c) ==
    LET decision == [status |-> status, on |-> today, record |-> NoRecord,
                     at |-> IF status = "no_pin" THEN NoCoord ELSE c]
        replaced == IF k.role = "main" THEN MainsOf(k.pair) ELSE {}
        rows == With(Without(CommittedRows, replaced), k, RowOf(decision))
        superseded == {j \in DOMAIN decided : j.role = "main" /\ j.pair = k.pair}
    IN  /\ k.pair \in DOMAIN inst
        /\ k.role = "main" => inst[k.pair] = k.address
        /\ EditPair(rows, ProvenanceFor(rows))
        /\ decided' = With(Without(decided, IF k.role = "main" THEN superseded ELSE {}),
                           k, decision)
        /\ moved' = IF k.role = "main" THEN Without(moved, {k.pair}) ELSE moved

(* A person takes a row out again.                                          *)
HandRemove(k) ==
    LET rows == Without(CommittedRows, {k}) IN
    /\ k \in DOMAIN CommittedRows
    /\ EditPair(rows, ProvenanceFor(rows))
    /\ decided' = Without(decided, {k})
    /\ moved' = IF k.role = "main" THEN Without(moved, {k.pair}) ELSE moved

(* A slip of the hand: the coordinate of an auto row, or of its provenance. *)
(* One slip at a time: a second one could only make up for the first.       *)
HandMistake(k) ==
    /\ MayCorrupt
    /\ PairParses
    /\ k \in AutoRows(CommittedRows)
    /\ \/ EditPair([csv EXCEPT ![k].at = Typo], prov)
       \/ /\ k.pair \in DOMAIN CommittedProvenance
          /\ EditPair(csv, [prov EXCEPT ![k.pair].at = Typo])
    /\ UNCHANGED <<moved, decided>>

LoseCandidates ==
    /\ MayLoseCandidates
    /\ pc = "idle"
    /\ doc # NoFile
    /\ doc' = NoFile
    /\ UNCHANGED <<inst, today, csv, prov, run, people>>

Program == StartRun \/ SaveCandidates \/ RejectWrite \/ RenameCsv
           \/ RenameProvenance \/ ClearJournal

People ==
    \/ \E k \in Keys, s \in HandStatuses, c \in Coords : HandWrite(k, s, c)
    \/ \E k \in Keys : HandRemove(k) \/ HandMistake(k)
    \/ LoseCandidates

World == NextDay \/ \E p \in Pairs : DropInstitution(p) \/ \E a \in Addresses : SetAddress(p, a)

Next == Program \/ Crash \/ People \/ World

Spec == Init /\ [][Next]_vars

(* The operator re-runs the seed, and a crash is an accident: a step that   *)
(* runs reach again and again is taken once in the end.                     *)
Fairness ==
    /\ WF_vars(StartRun)
    /\ SF_vars(SaveCandidates)
    /\ SF_vars(RejectWrite \/ RenameCsv)
    /\ SF_vars(RenameProvenance)
    /\ SF_vars(ClearJournal)

FairSpec == Spec /\ Fairness

-----------------------------------------------------------------------------
(* Every variable holds what the code can put there: the three files, the   *)
(* memory of the run, and the observers of this model.                      *)
TypeOK ==
    /\ IsDict(inst, Pairs, Addresses)
    /\ today \in Day
    /\ csv = NoFile \/ IsDict(csv, Keys, Row)
    /\ prov = NoFile \/ IsDict(prov, Pairs, Record)
    /\ \/ doc = NoFile
       \/ /\ DOMAIN doc = {"hash", "entries", "pending"}
          /\ doc.hash = NoFile \/ IsDict(doc.hash[1], Keys, Row)
          /\ IsDict(doc.entries, Keys, Entry)
          /\ \/ doc.pending = NoJournal
             \/ /\ IsDict(doc.pending.csv, Keys, Row)
                /\ IsDict(doc.pending.provenance, Pairs, Record)
    /\ pc \in {"idle", "gathered", "journalled", "csv_renamed", "both_renamed"}
    /\ IsDict(entries, Keys, Entry)
    /\ torn \in BOOLEAN
    /\ corrupt \in BOOLEAN
    /\ IsDict(moved, Pairs, Addresses)
    /\ IsDict(decided, Keys, Decision)

(* persist: "Nothing is lost in any of the three."  Whatever step a run     *)
(* dies at, the next one can load what it left, unless people broke it.     *)
AlwaysLoadable == pc = "idle" => corrupt \/ Loadable

(* A row a person wrote is the decision every later run starts from, and    *)
(* stays it across crashes and re-runs, until the institution moves, the    *)
(* inventory retires the branch, or a person changes it.                    *)
HumanDecisionSurvives ==
    pc = "idle" /\ Loadable /\ ~corrupt =>
        \A k \in DOMAIN decided :
            /\ k \in DOMAIN Reconciled
            /\ Reconciled[k].decision = decided[k]

(* An institution that moved away from a row it had gets no auto row at its *)
(* new address before a person decides: address_changed outlives crashes,   *)
(* rebuilds and every later run.                                            *)
MovedNeedsReview ==
    \A k \in AutoRows(CommittedRows) :
        k.pair \in DOMAIN moved => Elsewhere(k, inst)

(* A candidates file with no journal whose hash matches holds exactly what  *)
(* the committed pair says: rendering it again changes no byte.             *)
CleanMeansInSync ==
    doc # NoFile /\ doc.pending = NoJournal /\ doc.hash = CommittedHash =>
            csv = RenderRows(doc.entries) /\ prov = RenderProvenance(doc.entries)

(* The script never saves entries its own validating writer then rejects.   *)
WriterAcceptsWhatIsSaved ==
    pc = "journalled" => Parses(NewRows, NewProvenance)

(* load_committed: "a hand-corrupted committed file is never silently       *)
(* overwritten" by a step of the program.                                   *)
CorruptKept == [][corrupt /\ pc' # pc => UNCHANGED <<csv, prov>>]_vars

(* However a run died, re-running ends in a pair that parses and a          *)
(* candidates file in step with it.                                         *)
InSync ==
    /\ PairParses
    /\ doc # NoFile
    /\ doc.hash = CommittedHash
    /\ doc.pending = NoJournal
RecoversInSync == (doc # NoFile /\ ~InSync) ~> InSync
-----------------------------------------------------------------------------
(* The decisions alone, without flags, dates of gathering and provenance:   *)
(* what LocationRegister speaks of.                                         *)
Plain(d) == [status |-> d.status, at |-> d.at, on |-> d.on]
DecisionsIn(e) == [k \in {j \in DOMAIN e : IsDecided(e[j])} |-> Plain(e[k].decision)]
DecisionsInRows(rows) == [k \in DOMAIN rows |-> Plain(DecisionOf(k, rows[k], NoEntries))]

(* Three files and two renames behave like two registers: a save happens at *)
(* once, at its first write, and a crash anywhere is no step at all.        *)
Register == INSTANCE LocationRegister WITH
    working <- DecisionsIn(Reconciled),
    saved <- DecisionsIn(LocalEntries),
    published <- DecisionsInRows(CommittedRows)

ImplementsRegister == Register!Spec
=============================================================================
