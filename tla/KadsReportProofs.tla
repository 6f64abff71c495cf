-------------------------- MODULE KadsReportProofs --------------------------
(***************************************************************************)
(* A report in which every header names its район is read into rows with   *)
(* the right districts, and nothing but the houses in `lost` is missing,   *)
(* for every set of sections, streets and numbers, every choice of headers *)
(* that page breaks print and of page counters on lines of their own.  A   *)
(* header without a район is the one thing that breaks it (run villages).  *)
(***************************************************************************)
EXTENDS KadsReport, TLAPS

\* What the docstring of grao_loader takes for granted.
EveryHeaderHasDistrict == \A s \in Sections : Place[s].district # None

(* The parser is under the header printed last, and on the street being     *)
(* printed unless that header has cut it off.  The street it remembers, if  *)
(* any, has been printed under the same header: a counter that is taken for *)
(* a house goes to such a street.                                           *)
InStep ==
    /\ (printer.section = None) <=> (printer.under = None)
    /\ state.section = printer.under
    /\ printer.street # None =>
        /\ printer.section # None
        /\ state.street = IF printer.spilled THEN None ELSE printer.street
    /\ state.street # None =>
        \E p \in printed : p.street = state.street /\ p.under = state.section

\* The header above a line is of the line's own place, or a page break of its
\* section printed another's.
InPlace(section, under) == StaysInPlace(section) => Place[under] = Place[section]
AllInPlace ==
    /\ printer.section # None => InPlace(printer.section, printer.under)
    /\ \A p \in printed : InPlace(p.section, p.under)

IInv == TypeOK /\ InStep /\ AllInPlace /\ DistrictsAsPrinted /\ NothingElseIsLost

\* What the street and the place of a row are judged by, and its number.
ReadFrom(r, p) ==
    /\ OnStreet(r, p) /\ (r.cell = p.cell \/ r.cell \in Counters)
    /\ InPlace(p.section, r.section)

LEMMA InitIInv == Init => IInv
  <1> SUFFICES ASSUME Init PROVE IInv
    OBVIOUS
  <1> QED
    BY DEF Init, IInv, TypeOK, InStep, AllInPlace, DistrictsAsPrinted, NothingElseIsLost

\* The three promises about what is printed and what is read.
Promises == AllInPlace /\ DistrictsAsPrinted /\ NothingElseIsLost

\* A line that is printed and yields its rows keeps them.
LEMMA EmittedLine ==
    ASSUME IInv, NEW street \in Streets, NEW cells \in Lines,
           printer.section # None,
           PrintLine(street, cells, TRUE), Emit(street, cells),
           UNCHANGED <<printer.section, printer.under>>
    PROVE  /\ rows' \subseteq Entry /\ printed' \subseteq House /\ lost' \subseteq printed'
           /\ printed \subseteq printed'
           /\ \E p \in printed' : p.street = street /\ p.under = printer.under
           /\ Promises'
  <1> DEFINE H(c) == [section |-> printer.section, under |-> printer.under,
                      street |-> street, cell |-> c]
             R(c) == [section |-> printer.under, street |-> street, cell |-> c]
  <1>1. /\ printer.section \in Sections /\ printer.under \in Sections
        /\ state.section = printer.under /\ state.section # None
    BY DEF IInv, TypeOK, InStep
  <1>2. /\ printed' = printed \cup {H(c) : c \in cells} /\ lost' = lost
        /\ rows' = rows \cup {R(c) : c \in cells}
    BY <1>1 DEF PrintLine, Emit, Entries
  <1>3. cells \subseteq Cells /\ cells # {}
    BY DEF Lines
  <1>4. rows' \subseteq Entry /\ printed' \subseteq House /\ lost' \subseteq printed'
        /\ printed \subseteq printed'
    <2>1. rows \subseteq Entry /\ printed \subseteq House /\ lost \subseteq printed
      BY DEF IInv, TypeOK
    <2>2. \A c \in cells : H(c) \in House /\ R(c) \in Entry
      BY <1>1, <1>3 DEF Entry, House
    <2> QED
      BY <2>1, <2>2, <1>2
  <1>5. \E p \in printed' : p.street = street /\ p.under = printer.under
    <2>1. PICK c \in cells : TRUE
      BY <1>3
    <2>2. H(c) \in printed' /\ H(c).street = street /\ H(c).under = printer.under
      BY <1>2
    <2> QED
      BY <2>2
  <1>6. \A c \in cells : /\ RowOf(R(c), H(c)) /\ ReadFrom(R(c), H(c))
                         /\ InPlace(H(c).section, H(c).under)
    BY <1>1 DEF IInv, AllInPlace, RowOf, OnStreet, ReadFrom, InPlace
  <1>7. AllInPlace'
    BY <1>2, <1>6 DEF IInv, AllInPlace, InPlace, StaysInPlace
  <1>8. DistrictsAsPrinted'
    <2> SUFFICES ASSUME NEW r \in rows' PROVE \E p \in printed' : ReadFrom(r, p)
      BY DEF DistrictsAsPrinted, ReadFrom, InPlace, OnStreet, StaysInPlace
    <2>1. CASE r \in rows
      BY <2>1, <1>2 DEF IInv, DistrictsAsPrinted, ReadFrom, InPlace
    <2>2. CASE r \in {R(c) : c \in cells}
      BY <2>2, <1>2, <1>6
    <2> QED
      BY <2>1, <2>2, <1>2
  <1>9. NothingElseIsLost'
    <2> SUFFICES ASSUME NEW p \in printed' \ lost' PROVE \E r \in rows' : RowOf(r, p)
      BY DEF NothingElseIsLost, RowOf, OnStreet
    <2>1. CASE p \in printed
      BY <2>1, <1>2 DEF IInv, NothingElseIsLost
    <2>2. CASE p \in {H(c) : c \in cells}
      BY <2>2, <1>2, <1>6
    <2> QED
      BY <2>1, <2>2, <1>2
  <1> QED
    BY <1>4, <1>5, <1>7, <1>8, <1>9 DEF Promises

\* So does a line that is printed and yields none.
LEMMA UnreadLine ==
    ASSUME IInv, NEW street \in Streets, NEW cells \in Lines,
           printer.section # None,
           PrintLine(street, cells, FALSE), UNCHANGED rows,
           UNCHANGED <<printer.section, printer.under>>
    PROVE  /\ rows' \subseteq Entry /\ printed' \subseteq House /\ lost' \subseteq printed'
           /\ printed \subseteq printed'
           /\ Promises'
  <1> DEFINE new == {[section |-> printer.section, under |-> printer.under,
                      street |-> street, cell |-> c] : c \in cells}
  <1>1. printed' = printed \cup new /\ lost' = lost \cup new /\ rows' = rows
    BY DEF PrintLine
  <1>2. new \subseteq House
    BY DEF IInv, TypeOK, InStep, House, Lines
  <1>3. printed' \ lost' \subseteq printed \ lost
    BY <1>1
  <1>4. AllInPlace'
    BY <1>1 DEF IInv, AllInPlace, InPlace, StaysInPlace
  <1>5. DistrictsAsPrinted'
    BY <1>1 DEF IInv, DistrictsAsPrinted, OnStreet, StaysInPlace
  <1>6. NothingElseIsLost'
    BY <1>1, <1>3 DEF IInv, NothingElseIsLost, RowOf, OnStreet
  <1> QED
    BY <1>1, <1>2, <1>4, <1>5, <1>6 DEF IInv, TypeOK, Promises

\* A counter that is taken for a house keeps the street and the place.
LEMMA CounterRead ==
    ASSUME IInv, NEW c \in Counters, PrintCounter(c)
    PROVE  IInv'
  <1>1. UNCHANGED <<printer, state, printed, lost>>
    BY DEF PrintCounter, ReadContinuation
  <1>2. CASE rows' = rows
    BY <1>1, <1>2 DEF IInv, TypeOK, InStep, AllInPlace, InPlace, DistrictsAsPrinted,
                      NothingElseIsLost, OnStreet, RowOf, StaysInPlace
  <1>3. CASE rows' # rows
    <2> DEFINE n == [section |-> state.section, street |-> state.street, cell |-> c]
    <2>1. /\ state.street # None /\ state.section # None
          /\ rows' = rows \cup {n}
      BY <1>3 DEF PrintCounter, ReadContinuation, Emit, Entries
    <2>2. n \in Entry /\ c \in Cells
      BY <2>1, ReportAssumption DEF IInv, TypeOK, Entry
    <2>3. PICK p \in printed : p.street = state.street /\ p.under = state.section
      BY <2>1 DEF IInv, InStep
    <2>4. OnStreet(n, p) /\ n.cell \in Counters /\ InPlace(p.section, n.section)
      BY <2>3 DEF OnStreet, IInv, AllInPlace
    <2>5. DistrictsAsPrinted'
      <3> SUFFICES ASSUME NEW r \in rows' PROVE \E q \in printed : ReadFrom(r, q)
        BY <1>1 DEF DistrictsAsPrinted, ReadFrom, InPlace, OnStreet, StaysInPlace
      <3>1. CASE r \in rows
        BY <3>1 DEF IInv, DistrictsAsPrinted, ReadFrom, InPlace
      <3>2. CASE r = n
        BY <3>2, <2>4 DEF ReadFrom
      <3> QED
        BY <3>1, <3>2, <2>1
    <2>6. NothingElseIsLost'
      BY <1>1, <2>1 DEF IInv, NothingElseIsLost, RowOf, OnStreet
    <2> QED
      BY <1>1, <2>1, <2>2, <2>5, <2>6
      DEF IInv, TypeOK, InStep, AllInPlace, InPlace, StaysInPlace
  <1> QED
    BY <1>2, <1>3

LEMMA NextIInv ==
    ASSUME EveryHeaderHasDistrict, IInv, [Next]_vars PROVE IInv'
  <1>1. ASSUME NEW s \in Sections, BeginSection(s) PROVE IInv'
    <2>1. /\ printer' = [section |-> s, under |-> s, street |-> None, spilled |-> FALSE]
          /\ state' = [section |-> s, street |-> None]
          /\ UNCHANGED <<rows, printed, lost>>
      BY <1>1 DEF BeginSection, ReadHeader, EveryHeaderHasDistrict
    <2>2. TypeOK' /\ InStep'
      BY <2>1, ReportAssumption DEF IInv, TypeOK, InStep
    <2>3. AllInPlace'
      BY <2>1 DEF IInv, AllInPlace, InPlace, StaysInPlace
    <2> QED
      BY <2>1, <2>2, <2>3 DEF IInv, DistrictsAsPrinted, NothingElseIsLost, OnStreet,
                              RowOf, StaysInPlace
  <1>2. ASSUME NEW n \in Sections, BreakPage(n) PROVE IInv'
    <2>1. /\ printer' = [printer EXCEPT !.under = n, !.spilled = TRUE]
          /\ state' = [section |-> n, street |-> None]
          /\ UNCHANGED <<rows, printed, lost>>
      BY <1>2 DEF BreakPage, ReadHeader, EveryHeaderHasDistrict
    <2>2. printer.section \in Sections /\ <<printer.section, n>> \in Ahead
      BY <1>2, ReportAssumption DEF BreakPage
    <2>3. TypeOK' /\ InStep'
      BY <2>1, <2>2, ReportAssumption DEF IInv, TypeOK, InStep
    <2>4. InPlace(printer.section, n)
      BY <2>2 DEF InPlace, StaysInPlace
    <2>5. AllInPlace'
      BY <2>1, <2>2, <2>4 DEF IInv, TypeOK, AllInPlace, InPlace, StaysInPlace
    <2> QED
      BY <2>1, <2>3, <2>5 DEF IInv, DistrictsAsPrinted, NothingElseIsLost, OnStreet,
                              RowOf, StaysInPlace
  <1>3. ASSUME NEW cells \in Lines, NEW street \in Streets, PrintStreet(street, cells)
        PROVE  IInv'
    <2>1. CASE Recognised(cells)
      <3>1. /\ printer.section # None
            /\ printer' = [printer EXCEPT !.street = street, !.spilled = FALSE]
            /\ state' = [state EXCEPT !.street = street]
            /\ PrintLine(street, cells, TRUE)
            /\ Emit(street, cells)
        BY <1>3, <2>1 DEF PrintStreet, ReadStreet, PrintLine
      <3>2. UNCHANGED <<printer.section, printer.under>>
        BY <3>1 DEF IInv, TypeOK
      <3>3. /\ rows' \subseteq Entry /\ printed' \subseteq House /\ lost' \subseteq printed'
            /\ printed \subseteq printed'
            /\ \E p \in printed' : p.street = street /\ p.under = printer.under
            /\ Promises'
        BY <3>1, <3>2, EmittedLine
      <3>4. TypeOK' /\ InStep'
        BY <3>1, <3>3 DEF IInv, TypeOK, InStep
      <3> QED
        BY <3>3, <3>4 DEF IInv, Promises
    <2>2. CASE ~Recognised(cells)
      <3>1. /\ printer.section # None
            /\ printer' = [printer EXCEPT !.street = None, !.spilled = FALSE]
            /\ UNCHANGED <<state, rows>>
            /\ PrintLine(street, cells, FALSE)
        BY <1>3, <2>2 DEF PrintStreet, ReadStreet, PrintLine
      <3>2. UNCHANGED <<printer.section, printer.under>>
        BY <3>1 DEF IInv, TypeOK
      <3>3. /\ rows' \subseteq Entry /\ printed' \subseteq House /\ lost' \subseteq printed'
            /\ printed \subseteq printed' /\ Promises'
        BY <3>1, <3>2, UnreadLine
      <3>4. TypeOK' /\ InStep'
        BY <3>1, <3>3 DEF IInv, TypeOK, InStep
      <3> QED
        BY <3>3, <3>4 DEF IInv, Promises
    <2> QED
      BY <2>1, <2>2
  <1>4. ASSUME NEW cells \in Lines, PrintContinuation(cells) PROVE IInv'
    <2>1. /\ printer.street \in Streets /\ printer.section # None
          /\ UNCHANGED <<printer, state>>
      BY <1>4 DEF PrintContinuation, ReadContinuation, IInv, TypeOK, InStep
    <2>2. CASE Recognised(cells) /\ ~printer.spilled
      <3>1. state.street = printer.street /\ state.street # None
        BY <2>1, <2>2, ReportAssumption DEF IInv, InStep
      <3>2. PrintLine(printer.street, cells, TRUE) /\ Emit(printer.street, cells)
        BY <1>4, <2>2, <3>1 DEF PrintContinuation, ReadContinuation, PrintLine
      <3>3. /\ rows' \subseteq Entry /\ printed' \subseteq House /\ lost' \subseteq printed'
            /\ printed \subseteq printed' /\ Promises'
        BY <2>1, <3>2, EmittedLine
      <3> QED
        BY <2>1, <3>3 DEF IInv, TypeOK, InStep, Promises
    <2>3. CASE ~(Recognised(cells) /\ ~printer.spilled)
      <3>1. printer.spilled => state.street = None
        BY <2>1, ReportAssumption DEF IInv, InStep
      <3>2. PrintLine(printer.street, cells, FALSE) /\ UNCHANGED rows
        BY <1>4, <2>3, <3>1 DEF PrintContinuation, ReadContinuation, PrintLine
      <3>3. /\ rows' \subseteq Entry /\ printed' \subseteq House /\ lost' \subseteq printed'
            /\ printed \subseteq printed' /\ Promises'
        BY <2>1, <3>2, UnreadLine
      <3> QED
        BY <2>1, <3>3 DEF IInv, TypeOK, InStep, Promises
    <2> QED
      BY <2>2, <2>3
  <1>5. ASSUME NEW c \in Counters, PrintCounter(c) PROVE IInv'
    BY <1>5, CounterRead
  <1>6. CASE UNCHANGED vars
    BY <1>6 DEF vars, IInv, TypeOK, InStep, AllInPlace, InPlace, DistrictsAsPrinted,
                NothingElseIsLost, OnStreet, RowOf, StaysInPlace
  <1> QED
    BY <1>1, <1>2, <1>3, <1>4, <1>5, <1>6 DEF Next

(* If every header names its район, every row is of a street printed under  *)
(* a header of its district and settlement, its own section's unless a page *)
(* break put another's above it: wherever pages break, whatever numbers do  *)
(* not parse, also when page counters are taken for houses.                 *)
THEOREM DistrictsRead == EveryHeaderHasDistrict /\ Spec => []DistrictsAsPrinted
  <1> SUFFICES ASSUME EveryHeaderHasDistrict PROVE Spec => []DistrictsAsPrinted
    OBVIOUS
  <1>1. IInv /\ [Next]_vars => IInv'
    BY NextIInv
  <1>2. IInv => DistrictsAsPrinted
    BY DEF IInv
  <1> QED
    BY <1>1, <1>2, InitIInv, PTL DEF Spec

(* It drops no house but those on a garbled line and those on a             *)
(* continuation line that a page header cuts off from its street.           *)
THEOREM HousesRead == EveryHeaderHasDistrict /\ Spec => []NothingElseIsLost
  <1> SUFFICES ASSUME EveryHeaderHasDistrict PROVE Spec => []NothingElseIsLost
    OBVIOUS
  <1>1. IInv /\ [Next]_vars => IInv'
    BY NextIInv
  <1>2. IInv => NothingElseIsLost
    BY DEF IInv
  <1> QED
    BY <1>1, <1>2, InitIInv, PTL DEF Spec
=============================================================================
