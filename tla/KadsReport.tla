----------------------------- MODULE KadsReport -----------------------------
(***************************************************************************)
(* The ГРАО address classifier as its printer prints it and as             *)
(* grao_loader.parse_lines reads it, line by line.  A line is printed and  *)
(* read in one step: the report is a file, and the parser sees nothing but *)
(* the lines, in their order.                                              *)
(*                                                                         *)
(* The printer prints one electoral section after another: a header, then  *)
(* for each street a line with its house numbers and, when they do not fit *)
(* one line, continuation lines without the street.  A page break within a *)
(* section prints, over the rest of the section, either no header or the   *)
(* header of a section that follows, and it may print a page counter on a  *)
(* line of its own.  The parser remembers the last header it recognised    *)
(* and the last street under it.  Page titles, dates, column heads and     *)
(* blank lines are skipped by the first tests of parse_lines and left out. *)
(***************************************************************************)
EXTENDS FiniteSets

CONSTANTS
    Sections,   \* electoral sections
    Place,      \* the district (район) and the settlement a section is in
    Ahead,      \* <<s, n>>: a page break within s may print the header of n
    Streets,
    StreetsOf,  \* the streets of each section
    Cells,      \* house numbers, with their letter and entrance
    Garbled,    \* those that parse_number_token rejects
    Counters,   \* page counters on a line of their own at the right edge, as the
                \* house numbers they read as; {}: they stand on the title line
    None        \* no section, no street; no district: the header has no район

ASSUME ReportAssumption ==
    /\ None \notin Sections \cup Streets
    /\ \A s \in Sections : {"district", "settlement"} \subseteq DOMAIN Place[s]
    /\ StreetsOf \in [Sections -> SUBSET Streets]
    /\ Garbled \subseteq Cells
    /\ Counters \subseteq Cells \ Garbled
    /\ Ahead \subseteq Sections \X Sections

VARIABLES
    printer,    \* the section and the street being printed, and whose header
                \* was printed last; spilled: that one has cut off the street
    state,      \* the parser's section and last street
    rows,       \* what it has yielded
    printed,    \* what the report says so far
    lost        \* what it says on lines the parser cannot place

vars == <<printer, state, rows, printed, lost>>

Lines == (SUBSET Cells) \ {{}}

Entries(section, street, cells) ==
    {[section |-> section, street |-> street, cell |-> c] : c \in cells}

-----------------------------------------------------------------------------
(* The parser.                                                              *)

\* _COMBINED_HEADER_RE asks for "район NN_": a header without one is skipped.
ReadFirstHeader(s) ==
    state' = IF Place[s].district = None \/ state.section # None THEN state
             ELSE [section |-> s, street |-> None]
ReadHeader(s) ==
    state' = IF Place[s].district = None THEN state
             ELSE [section |-> s, street |-> None]

\* _emit_rows yields nothing before the first header.
Emit(street, cells) ==
    rows' = rows \cup
        (IF state.section = None THEN {} ELSE Entries(state.section, street, cells))

Recognised(cells) == cells \cap Garbled = {}

\* A line with a number that does not parse is no data line; the last street
\* stays what it was.
ReadStreetOnly(street, cells) ==
    IF Recognised(cells)
    THEN Emit(street, cells) /\ state' = [state EXCEPT !.street = None]
    ELSE UNCHANGED <<state, rows>>
ReadStreet(street, cells) ==
    IF Recognised(cells)
    THEN Emit(street, cells) /\ state' = [state EXCEPT !.street = street]
    ELSE UNCHANGED <<state, rows>>

\* Also of a page counter: this test comes before the skip of bare integers.
ReadContinuation(cells) ==
    /\ IF Recognised(cells) /\ state.street # None
       THEN Emit(state.street, cells) ELSE UNCHANGED rows
    /\ UNCHANGED state

-----------------------------------------------------------------------------
Init ==
    /\ printer = [section |-> None, under |-> None, street |-> None, spilled |-> FALSE]
    /\ state = [section |-> None, street |-> None]
    /\ rows = {}
    /\ printed = {}
    /\ lost = {}

\* Every section is printed once, every street of it and every house of that.
BeginSection(s) ==
    /\ \A p \in printed : p.section # s
    /\ printer' = [section |-> s, under |-> s, street |-> None, spilled |-> FALSE]
    /\ ReadHeader(s)
    /\ UNCHANGED <<rows, printed, lost>>

PrintLine(street, cells, placed) ==
    LET entries == {[section |-> printer.section, under |-> printer.under,
                     street |-> street, cell |-> c] : c \in cells}
    IN  /\ printed' = printed \cup entries
        /\ lost' = IF placed THEN lost ELSE lost \cup entries

(* A street whose line is garbled has no continuation lines.                *)
PrintStreet(street, cells) ==
    /\ printer.section # None
    /\ street \in StreetsOf[printer.section]
    /\ ~\E p \in printed : p.section = printer.section /\ p.street = street
    /\ printer' = [printer EXCEPT !.street = IF Recognised(cells) THEN street ELSE None,
                                  !.spilled = FALSE]
    /\ PrintLine(street, cells, Recognised(cells))
    /\ ReadStreet(street, cells)

PrintContinuation(cells) ==
    /\ printer.street # None
    /\ ~\E p \in printed :
          p.section = printer.section /\ p.street = printer.street /\ p.cell \in cells
    /\ PrintLine(printer.street, cells, Recognised(cells) /\ ~printer.spilled)
    /\ ReadContinuation(cells)
    /\ UNCHANGED printer

BreakPage(n) ==
    /\ <<printer.section, n>> \in Ahead
    /\ printer' = [printer EXCEPT !.under = n, !.spilled = TRUE]
    /\ ReadHeader(n)
    /\ UNCHANGED <<rows, printed, lost>>

\* At a page break, which may fall anywhere and need not print a header.
PrintCounter(c) ==
    /\ ReadContinuation({c})
    /\ UNCHANGED <<printer, printed, lost>>

Next ==
    \/ \E s \in Sections : BeginSection(s) \/ BreakPage(s)
    \/ \E c \in Counters : PrintCounter(c)
    \/ \E cells \in Lines :
        PrintContinuation(cells) \/ \E street \in Streets : PrintStreet(street, cells)

Spec == Init /\ [][Next]_vars

-----------------------------------------------------------------------------
Entry == [section : Sections, street : Streets, cell : Cells]
House == [section : Sections, under : Sections, street : Streets, cell : Cells]

TypeOK ==
    /\ printer \in [section : Sections \cup {None}, under : Sections \cup {None},
                    street : Streets \cup {None}, spilled : BOOLEAN]
    /\ state \in [section : Sections \cup {None}, street : Streets \cup {None}]
    /\ rows \subseteq Entry
    /\ printed \subseteq House
    /\ lost \subseteq printed

\* No page break within s prints the header of another place.
StaysInPlace(s) == \A x \in Ahead : x[1] = s => Place[x[2]] = Place[s]

\* The section number of a row is not used by anything; its district and
\* settlement are.
OnStreet(r, p) == Place[r.section] = Place[p.under] /\ r.street = p.street
RowOf(r, p) == OnStreet(r, p) /\ r.cell = p.cell

(* "Data lines and indented continuation lines emit one row per (street,    *)
(* number, entrance) tuple inheriting the current section's района codes"   *)
(* (grao_loader): a row is a house, on a street printed under a header of   *)
(* its district and settlement, and these are its own section's too, unless *)
(* a page break put another place's header above it.  Its number may also   *)
(* be a page counter: against the comment at line 324 the code reads one as *)
(* a house, but never into another street or place.                         *)
DistrictsAsPrinted ==
    \A r \in rows : \E p \in printed :
        /\ OnStreet(r, p) /\ (r.cell = p.cell \/ r.cell \in Counters)
        /\ StaysInPlace(p.section) => Place[r.section] = Place[p.section]

(* Every house the report lists becomes a row, except for those on a line   *)
(* with a garbled number and on a continuation line at the top of a page    *)
(* that starts with a header: the header made parse_lines forget the street.*)
NothingElseIsLost == \A p \in printed \ lost : \E r \in rows : RowOf(r, p)
=============================================================================
