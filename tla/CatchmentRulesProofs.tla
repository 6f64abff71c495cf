------------------------ MODULE CatchmentRulesProofs ------------------------
(***************************************************************************)
(* What the rules of CatchmentRules give: the majority of a catchment is a *)
(* district of it, a lookup says what the most exact tier says, and the    *)
(* plan of a snapshot is made of what is in the snapshot.                  *)
(***************************************************************************)
EXTENDS CatchmentRules, FiniteSetTheorems, WellFoundedInduction, TLAPS

LEMMA SmallestOf ==
    ASSUME NEW T, T \subseteq Nat, T # {}
    PROVE  \E x \in T : \A y \in T : x <= y
<1>1. IsWellFoundedOn(OpToRel(<, Nat), Nat)
  BY NatLessThanWellFounded
<1>2. PICK x \in T : \A y \in T : <<y, x>> \notin OpToRel(<, Nat)
  BY <1>1, WFMin
<1>3. \A y \in T : ~(y < x)
  BY <1>2 DEF OpToRel
<1> QED
  BY <1>3

LEMMA LargestOf ==
    ASSUME NEW T, T \subseteq Nat, T # {}, NEW n \in Nat, \A x \in T : x <= n
    PROVE  \E x \in T : \A y \in T : y <= x
<1> DEFINE U == {n - x : x \in T}
<1>1. U \subseteq Nat /\ U # {}
  <2>1. \A x \in T : n - x \in Nat
    OBVIOUS
  <2> QED
    BY <2>1
<1> HIDE DEF U
<1>2. PICK u \in U : \A v \in U : u <= v
  BY <1>1, SmallestOf
<1>3. PICK x \in T : u = n - x
  BY <1>2 DEF U
<1>4. \A y \in T : n - y \in U
  BY DEF U
<1> QED
  BY <1>2, <1>3, <1>4

\* A majority there is as soon as a row has a district.
LEMMA MajorityIs ==
    ASSUME NEW rows, IsFiniteSet(DOMAIN rows),
           \A id \in DOMAIN rows : rows[id] \in Districts \cup {NoDistrict}
    PROVE  /\ Majority(rows) \in Districts \cup {NoDistrict}
           /\ Majority(rows) = NoDistrict <=> \A id \in DOMAIN rows : rows[id] = NoDistrict
<1> DEFINE in(d) == {id \in DOMAIN rows : rows[id] = d}
           count(d) == Cardinality(in(d))
           stamped == {d \in Districts : count(d) > 0}
           best(d) == \A e \in stamped : count(e) < count(d) \/ (count(e) = count(d) /\ d <= e)
<1>1. \A d : /\ IsFiniteSet(in(d)) /\ count(d) \in Nat /\ count(d) <= Cardinality(DOMAIN rows)
             /\ count(d) = 0 <=> in(d) = {}
  <2> TAKE d
  <2>1. in(d) \subseteq DOMAIN rows
    OBVIOUS
  <2> HIDE DEF in
  <2> QED
    BY <2>1, FS_Subset, FS_CardinalityType, FS_EmptySet
<1>2. Cardinality(DOMAIN rows) \in Nat
  BY FS_CardinalityType
<1>3. \A d \in Districts : d \in stamped <=> \E id \in DOMAIN rows : rows[id] = d
  <2>1. \A d \in Districts : d \in stamped <=> in(d) # {}
    <3> HIDE DEF in
    <3> QED
      BY <1>1
  <2> QED
    BY <2>1
<1>4. stamped \subseteq Districts /\ Districts \subseteq Nat \ {0}
  BY RulesAssumption
<1> HIDE DEF in
<1>5. ASSUME stamped # {}
      PROVE  \E d \in stamped : best(d)
  <2> DEFINE C == {count(d) : d \in stamped}
  <2>1. C \subseteq Nat /\ C # {} /\ \A c \in C : c <= Cardinality(DOMAIN rows)
    BY <1>1, <1>5
  <2> HIDE DEF C
  <2>2. PICK c \in C : \A x \in C : x <= c
    BY <1>2, <2>1, LargestOf
  <2> DEFINE D == {d \in stamped : count(d) = c}
  <2>3. D \subseteq Nat /\ D # {}
    BY <1>4, <2>2 DEF C
  <2> HIDE DEF D
  <2>4. PICK d \in D : \A e \in D : d <= e
    BY <2>3, SmallestOf
  <2> HIDE DEF count
  <2>5. d \in stamped /\ count(d) = c
    BY <2>4 DEF D
  <2>6. ASSUME NEW e \in stamped
        PROVE  count(e) < count(d) \/ (count(e) = count(d) /\ d <= e)
    <3>1. count(e) \in C
      BY DEF C
    <3>2. count(e) <= c /\ count(e) \in Nat /\ c \in Nat
      BY <2>1, <2>2, <3>1
    <3>3. count(e) = c => e \in D
      BY DEF D
    <3> QED
      BY <2>4, <2>5, <3>2, <3>3
  <2> QED
    BY <2>5, <2>6
<1>6. Majority(rows) = IF stamped = {} THEN NoDistrict ELSE CHOOSE d \in stamped : best(d)
  BY DEF Majority, in
<1> HIDE DEF stamped, best
<1>7. Majority(rows) = NoDistrict <=> stamped = {}
  BY <1>4, <1>5, <1>6 DEF NoDistrict
<1>8. stamped = {} <=> \A id \in DOMAIN rows : rows[id] = NoDistrict
  BY <1>3, <1>4 DEF NoDistrict
<1> QED
  BY <1>4, <1>5, <1>6, <1>7, <1>8

LEMMA SaysADistrict ==
    ASSUME NEW n, NEW grao, NEW a, Speaks(n, grao, a)
    PROVE  Says(n, grao, a) \in Districts
BY DEF Speaks, Says

\* The most exact tier that speaks decides.
LEMMA LookupIs ==
    ASSUME NEW grao, NEW a
    PROVE  /\ Lookup(grao, a) \in Districts \cup {NoDistrict}
           /\ \A n \in 1 .. 3 :
                Speaks(n, grao, a) /\ (\A m \in 1 .. n - 1 : ~Speaks(m, grao, a)) =>
                    Lookup(grao, a) = Says(n, grao, a)
<1> DEFINE first(n) == Speaks(n, grao, a) /\ \A m \in 1 .. n - 1 : ~Speaks(m, grao, a)
<1>1. ASSUME NEW n \in 1 .. 3, first(n)
      PROVE  Lookup(grao, a) = Says(n, grao, a)
  <2>1. \A m \in 1 .. 3 : first(m) => m = n
    BY <1>1
  <2>2. n = CHOOSE m \in 1 .. 3 : first(m)
    BY <1>1, <2>1
  <2> QED
    BY <1>1, <2>2 DEF Lookup
<1>2. (\E n \in 1 .. 3 : Speaks(n, grao, a)) => \E n \in 1 .. 3 : first(n)
  <2>1. first(1) <=> Speaks(1, grao, a)
    OBVIOUS
  <2>2. first(2) <=> Speaks(2, grao, a) /\ ~Speaks(1, grao, a)
    BY \A m : m \in 1 .. 2 - 1 <=> m = 1
  <2>3. first(3) <=> Speaks(3, grao, a) /\ ~Speaks(1, grao, a) /\ ~Speaks(2, grao, a)
    BY \A m : m \in 1 .. 3 - 1 <=> m = 1 \/ m = 2
  <2> HIDE DEF first
  <2> QED
    BY <2>1, <2>2, <2>3, \A n \in 1 .. 3 : n = 1 \/ n = 2 \/ n = 3
<1>3. (\A n \in 1 .. 3 : ~Speaks(n, grao, a)) => Lookup(grao, a) = NoDistrict
  BY DEF Lookup
<1> QED
  BY <1>1, <1>2, <1>3, SaysADistrict

-----------------------------------------------------------------------------
(* The plan.                                                                *)

LEMMA LastIs ==
    ASSUME NEW V, NEW s \in Seq(V), NEW k, NEW row \in ToSet(s), row.institution = k
    PROVE  PlanRow(s, k) \in ToSet(s) /\ PlanRow(s, k).institution = k
<1> DEFINE I == {i \in 1 .. Len(s) : s[i].institution = k}
<1>1. I \subseteq Nat /\ I # {} /\ Len(s) \in Nat /\ \A i \in I : i <= Len(s)
  BY DEF ToSet
<1>2. \E i \in I : \A j \in I : j <= i
  <2> HIDE DEF I
  <2> QED
    BY <1>1, LargestOf
<1>3. Max(I) \in I
  BY <1>1, <1>2 DEF Max
<1>4. PlanRow(s, k) = s[Max(I)]
  BY <1>1 DEF PlanRow, SelectLastInSeq
<1>5. PICK i \in I : i = Max(I)
  BY <1>3
<1>6. i \in DOMAIN s /\ s[i].institution = k
  BY <1>5
<1> QED
  BY <1>4, <1>5, <1>6 DEF ToSet

LEMMA ImageIsFinite ==
    ASSUME NEW f, IsFiniteSet(DOMAIN f), f = [x \in DOMAIN f |-> f[x]]
    PROVE  IsFiniteSet({f[x] : x \in DOMAIN f})
<1> DEFINE T == {f[x] : x \in DOMAIN f}
<1>1. f \in Surjection(DOMAIN f, T)
  BY DEF Surjection
<1> QED
  BY <1>1, FS_Surjection

LEMMA SequenceIsFinite ==
    ASSUME NEW V, NEW s \in Seq(V)
    PROVE  IsFiniteSet(ToSet(s))
<1>1. DOMAIN s = 1 .. Len(s) /\ Len(s) \in Int
  OBVIOUS
<1>2. IsFiniteSet(DOMAIN s)
  BY <1>1, FS_Interval
<1>3. s = [x \in DOMAIN s |-> s[x]]
  OBVIOUS
<1> QED
  BY <1>2, <1>3, ImageIsFinite DEF ToSet

\* Finitely many institutions of finitely many entries have as many addresses.
LEMMA PlanIsFinite ==
    ASSUME NEW V, NEW s \in Seq(V), NEW W, \A row \in ToSet(s) : row.entries \in Seq(W)
    PROVE  IsFiniteSet(PlanAddresses(s))
<1> DEFINE f == [row \in ToSet(s) |-> {e \in ToSet(row.entries) : Parses(e)}]
           S == {f[row] : row \in ToSet(s)}
<1>1. IsFiniteSet(S)
  <2>1. IsFiniteSet(DOMAIN f)
    BY SequenceIsFinite
  <2> QED
    BY <2>1, ImageIsFinite
<1>2. \A T \in S : IsFiniteSet(T)
  <2> TAKE T \in S
  <2>1. PICK row \in ToSet(s) : T = {e \in ToSet(row.entries) : Parses(e)}
    OBVIOUS
  <2>2. IsFiniteSet(ToSet(row.entries))
    BY SequenceIsFinite
  <2> QED
    BY <2>1, <2>2, FS_Subset
<1>3. PlanAddresses(s) \subseteq UNION S
  BY DEF PlanAddresses, PlanEdges
<1>4. IsFiniteSet(UNION S)
  BY <1>1, <1>2, FS_UNION
<1> QED
  BY <1>3, <1>4, FS_Subset

LEMMA OversizedIs ==
    ASSUME NEW e \in Oversized
    PROVE  ~(e.number <= SmallIntMax)
BY RulesAssumption DEF Oversized

\* What the plan of a snapshot can be.
Plans(s) ==
    LET ks == ToSet(PlanInstitutions(s))
    IN  /\ ks \subseteq Institutions
        /\ \A k \in ks : /\ PlanRow(s, k).address \in Address \cup {None}
                         /\ PlanRow(s, k).district \in Districts \cup {NoDistrict}
        /\ PlanEdges(s) \subseteq Address \X ks
        /\ \A a \in PlanAddresses(s) : a.street \in ToSet(PlanStreets(s))
        /\ IsFiniteSet(PlanAddresses(s))

LEMMA SnapshotPlans ==
    ASSUME NEW s \in SnapshotFile, Collected(s)
    PROVE  Plans(s)
<1> DEFINE Read == Address \cup Oversized \cup {Unparsable}
           ks == ToSet(PlanInstitutions(s))
<1>1. s \in Seq(SnapshotRow)
  BY DEF SnapshotFile
<1>2. ToSet(s) \subseteq SnapshotRow
  <2>1. \A i \in DOMAIN s : s[i] \in SnapshotRow
    BY <1>1
  <2> QED
    BY <2>1 DEF ToSet
<1>3. \A row \in ToSet(s) : row.institution \in Institutions /\ row.address \in Address \cup {None}
                          /\ row.district \in Districts \cup {NoDistrict}
                          /\ row.entries \in Seq(Read)
  BY <1>2 DEF SnapshotRow
<1>4. /\ \A row \in ToSet(s) : row.institution \in ks
      /\ \A k \in ks : \E row \in ToSet(s) : row.institution = k
      /\ \A a \in PlanAddresses(s) : a.street \in ToSet(PlanStreets(s))
  BY DEF Collected
<1> HIDE DEF ks, Read
<1>5. \A k \in ks : PlanRow(s, k) \in ToSet(s)
  <2> TAKE k \in ks
  <2>1. PICK row \in ToSet(s) : row.institution = k
    BY <1>4
  <2> QED
    BY <1>1, <2>1, LastIs
<1>6. IsFiniteSet(PlanAddresses(s))
  BY <1>1, <1>3, PlanIsFinite
<1>7. ASSUME NEW row \in ToSet(s)
      PROVE  {e \in ToSet(row.entries) : Parses(e)} \subseteq Address
  <2>1. ToSet(row.entries) \subseteq Read
    <3>1. row.entries \in Seq(Read)
      BY <1>3
    <3> QED
      BY <3>1 DEF ToSet
  <2>2. ASSUME NEW e \in Read, Parses(e)
        PROVE  e \in Address
    BY <2>2, OversizedIs DEF Read, Parses
  <2> QED
    BY <2>1, <2>2
<1>8. PlanEdges(s) \subseteq Address \X ks
  <2>1. ASSUME NEW e \in PlanEdges(s)
        PROVE  e \in Address \X ks
    <3>1. PICK row \in ToSet(s) : e \in {x \in ToSet(row.entries) : Parses(x)} \X {row.institution}
      BY DEF PlanEdges
    <3> QED
      BY <1>4, <1>7, <3>1
  <2> QED
    BY <2>1
<1>9. ks \subseteq Institutions
  BY <1>3, <1>4
<1> QED
  BY <1>3, <1>4, <1>5, <1>6, <1>8, <1>9 DEF Plans, ks
=============================================================================
