----------------------- MODULE PlanRefreshLoopProofs -----------------------
(***************************************************************************)
(* The loop of plan_refresh computes the set definition in every order, of *)
(* any number of entries.                                                  *)
(***************************************************************************)
EXTENDS PlanRefreshLoop, TLAPS

(* At every point of the loop it has the result for what it visited.        *)
LoopInv ==
    /\ todo \subseteq DOMAIN existing
    /\ to_gather = Planned
    /\ kept = KeptKeys(Visited, institutions)

\* The set definition, one part at a time.
PlanKeys(E, inst) == (Current(E, inst) \ KeptKeys(E, inst)) \cup MovedKeys(E, inst)
Flag(E, inst, k) == k \in MovedKeys(E, inst) \/ (k \in DOMAIN E /\ E[k].changed)

LEMMA PlannedIs == Planned = [k \in PlanKeys(Visited, institutions) |->
                                  Flag(Visited, institutions, k)]
BY DEF Planned, PlanRefresh, PlanKeys, Flag

\* An entry that takes a moved one's place is where the institution is now.
LEMMA MovedKeysAreHome ==
    ASSUME NEW E, NEW inst, NEW k \in MovedKeys(E, inst)
    PROVE  k.pair \in DOMAIN inst /\ ~Stale(k, inst)
BY DEF MovedKeys, Live, MainKey, Stale

LEMMA VisitedGrows ==
    ASSUME NEW k \in todo, todo \subseteq DOMAIN existing, Visit(k)
    PROVE  /\ DOMAIN Visited' = DOMAIN Visited \cup {k}
           /\ k \notin DOMAIN Visited
           /\ Visited'[k] = existing[k]
           /\ \A j \in DOMAIN Visited : Visited'[j] = Visited[j]
           /\ UNCHANGED institutions
BY DEF Visit, Visited, Without

LEMMA LoopStep ==
    ASSUME LoopInv, NEW k \in todo, Visit(k)
    PROVE  LoopInv'
<1> DEFINE I == institutions
           V == Visited
           W == Visited'
<1>1. /\ DOMAIN W = DOMAIN V \cup {k} /\ k \notin DOMAIN V
      /\ W[k] = existing[k] /\ \A j \in DOMAIN V : W[j] = V[j]
      /\ institutions' = I
  BY VisitedGrows DEF LoopInv
<1>2. todo' \subseteq DOMAIN existing'
  BY DEF LoopInv, Visit
<1>3. /\ Live(W, I) = IF k.pair \in DOMAIN I THEN Live(V, I) \cup {k} ELSE Live(V, I)
      /\ Current(W, I) = IF k.pair \in DOMAIN I /\ ~Stale(k, I)
                         THEN Current(V, I) \cup {k} ELSE Current(V, I)
      /\ k \notin Current(V, I) /\ k \notin Live(V, I)
  BY <1>1 DEF Live, Current
<1>4. KeptKeys(W, I) = IF k \in Current(W, I) /\ IsHuman(existing[k])
                       THEN KeptKeys(V, I) \cup {k} ELSE KeptKeys(V, I)
  <2>1. \A j \in Current(V, I) : W[j] = V[j] /\ j # k
    BY <1>1, <1>3 DEF Current, Live
  <2> HIDE DEF V, W, I
  <2> QED
    BY <1>1, <1>3, <2>1 DEF KeptKeys
<1>5. to_gather = [j \in PlanKeys(V, I) |-> Flag(V, I, j)] /\ kept = KeptKeys(V, I)
  BY PlannedIs DEF LoopInv
<1>6. SUFFICES /\ to_gather' = [j \in PlanKeys(W, I) |-> Flag(W, I, j)]
               /\ kept' = KeptKeys(W, I)
  <2>1. Planned' = [j \in PlanKeys(W, I) |-> Flag(W, I, j)]
    BY <1>1 DEF Planned, PlanRefresh, PlanKeys, Flag
  <2> QED
    BY <1>1, <1>2, <1>6, <2>1 DEF LoopInv
<1>7. \A j \in PlanKeys(V, I) : j.pair \in DOMAIN I /\ ~Stale(j, I)
  BY MovedKeysAreHome DEF PlanKeys, Current, Live
<1>8. CASE VisitGone(k)
  <2>1. MovedKeys(W, I) = MovedKeys(V, I) /\ PlanKeys(W, I) = PlanKeys(V, I)
    BY <1>3, <1>4, <1>8 DEF MovedKeys, PlanKeys, VisitGone
  <2>2. \A j \in PlanKeys(V, I) : Flag(W, I, j) = Flag(V, I, j)
    BY <1>1, <1>7, <1>8, <2>1 DEF Flag, VisitGone
  <2>3. KeptKeys(W, I) = KeptKeys(V, I) /\ UNCHANGED <<to_gather, kept>>
    BY <1>3, <1>4, <1>8 DEF VisitGone, Current, Live
  <2> HIDE DEF V, W, I
  <2> QED
    BY <1>5, <2>1, <2>2, <2>3
<1>9. CASE VisitMoved(k)
  <2> DEFINE n == NewKey(k)
  <2>1. /\ k.pair \in DOMAIN I /\ Stale(k, I)
        /\ Current(W, I) = Current(V, I)
        /\ KeptKeys(W, I) = KeptKeys(V, I)
        /\ Live(W, I) \ Current(W, I) = (Live(V, I) \ Current(V, I)) \cup {k}
        /\ UNCHANGED kept
    BY <1>3, <1>4, <1>9 DEF VisitMoved
  <2>2. MovedKeys(W, I) = (MovedKeys(V, I) \cup {n}) \ KeptKeys(V, I)
    BY <2>1 DEF MovedKeys, NewKey
  <2>3. MovedKeys(V, I) \cap KeptKeys(V, I) = {}
    BY DEF MovedKeys
  <2>4. k \notin PlanKeys(V, I)
    BY <1>7, <2>1
  <2>5. \A j \in PlanKeys(V, I) \ {n} : Flag(W, I, j) = Flag(V, I, j)
    BY <1>1, <2>2, <2>3, <2>4 DEF Flag, PlanKeys
  <2>6. CASE n \in KeptKeys(V, I)
    <3>1. PlanKeys(W, I) = PlanKeys(V, I) /\ n \notin PlanKeys(V, I)
      BY <2>1, <2>2, <2>3, <2>6 DEF PlanKeys
    <3>2. UNCHANGED to_gather
      BY <1>5, <1>9, <2>6 DEF VisitMoved
    <3> HIDE DEF V, W, I, n
    <3> QED
      BY <1>5, <2>1, <2>5, <3>1, <3>2
  <2>7. CASE n \notin KeptKeys(V, I)
    <3>1. PlanKeys(W, I) = PlanKeys(V, I) \cup {n} /\ Flag(W, I, n) = TRUE
      BY <2>1, <2>2, <2>3, <2>7 DEF PlanKeys, Flag
    <3>2. to_gather' = With(to_gather, n, TRUE)
      BY <1>5, <1>9, <2>7 DEF VisitMoved
    <3> HIDE DEF V, W, I, n
    <3>3. to_gather' = [j \in PlanKeys(W, I) |-> Flag(W, I, j)]
      BY <1>5, <2>5, <3>1, <3>2 DEF With
    <3> QED
      BY <1>5, <2>1, <3>3
  <2> QED
    BY <2>6, <2>7
<1>10. CASE VisitCurrent(k)
  <2>1. /\ k.pair \in DOMAIN I /\ ~Stale(k, I)
        /\ Current(W, I) = Current(V, I) \cup {k}
        /\ Live(W, I) \ Current(W, I) = Live(V, I) \ Current(V, I)
        /\ k \notin Current(V, I)
    BY <1>3, <1>10 DEF VisitCurrent
  <2>2. CASE IsHuman(existing[k])
    <3>1. KeptKeys(W, I) = KeptKeys(V, I) \cup {k}
      BY <1>4, <2>1, <2>2
    <3>2. MovedKeys(W, I) = MovedKeys(V, I) \ {k}
      BY <2>1, <3>1 DEF MovedKeys
    <3>3. PlanKeys(W, I) = PlanKeys(V, I) \ {k}
      BY <2>1, <3>1, <3>2 DEF PlanKeys
    <3>4. \A j \in PlanKeys(W, I) : Flag(W, I, j) = Flag(V, I, j)
      BY <1>1, <3>2, <3>3 DEF Flag
    <3>5. kept' = kept \cup {k} /\ to_gather' = Without(to_gather, {k})
      BY <1>10, <2>2 DEF VisitCurrent
    <3> HIDE DEF V, W, I
    <3>6. to_gather' = [j \in PlanKeys(W, I) |-> Flag(W, I, j)]
      BY <1>5, <3>3, <3>4, <3>5 DEF Without
    <3> QED
      BY <1>5, <3>1, <3>5, <3>6
  <2>3. CASE ~IsHuman(existing[k])
    <3>1. KeptKeys(W, I) = KeptKeys(V, I)
      BY <1>4, <2>3
    <3>2. MovedKeys(W, I) = MovedKeys(V, I)
      BY <2>1, <3>1 DEF MovedKeys
    <3>3. PlanKeys(W, I) = PlanKeys(V, I) \cup {k}
      <4>1. k \notin KeptKeys(V, I)
        BY <2>1 DEF KeptKeys
      <4> QED
        BY <2>1, <3>1, <3>2, <4>1 DEF PlanKeys
    <3>4. \A j \in PlanKeys(V, I) \ {k} : Flag(W, I, j) = Flag(V, I, j)
      BY <1>1, <3>2 DEF Flag
    <3>5. Flag(W, I, k) = (k \in DOMAIN to_gather \/ existing[k].changed)
      <4>1. k \in DOMAIN to_gather <=> k \in MovedKeys(V, I)
        BY <1>5, <2>1 DEF PlanKeys
      <4>2. k \in DOMAIN W /\ W[k] = existing[k]
        BY <1>1
      <4> HIDE DEF V, W, I
      <4> QED
        BY <3>2, <4>1, <4>2 DEF Flag
    <3>6. UNCHANGED kept /\ to_gather' = With(to_gather, k, Flag(W, I, k))
      BY <1>10, <2>3, <3>5 DEF VisitCurrent
    <3> HIDE DEF V, W, I
    <3>7. to_gather' = [j \in PlanKeys(W, I) |-> Flag(W, I, j)]
      BY <1>5, <3>3, <3>4, <3>6 DEF With
    <3> QED
      BY <1>5, <3>1, <3>6, <3>7
  <2> QED
    BY <2>2, <2>3
<1> QED
  BY <1>8, <1>9, <1>10 DEF Visit

LEMMA LoopStart == Init => LoopInv
<1> SUFFICES ASSUME Init PROVE LoopInv
  OBVIOUS
<1>1. DOMAIN Visited = {} /\ to_gather = NoEntries /\ kept = {} /\ todo = DOMAIN existing
  BY DEF Init, Visited, Without
<1>2. Live(Visited, institutions) = {}
  BY <1>1 DEF Live
<1>3. PlanKeys(Visited, institutions) = {} /\ KeptKeys(Visited, institutions) = {}
  BY <1>2 DEF PlanKeys, KeptKeys, Current, MovedKeys
<1>4. to_gather = [j \in PlanKeys(Visited, institutions) |-> Flag(Visited, institutions, j)]
  BY <1>1, <1>3 DEF NoEntries
<1> QED
  BY <1>1, <1>3, <1>4, PlannedIs DEF LoopInv

(* It has that result at every step.                                        *)
LEMMA LoopInvariant == Spec => []LoopInv
<1>1. LoopInv /\ [Next]_vars => LoopInv'
  <2>1. ASSUME LoopInv, UNCHANGED vars
        PROVE  LoopInv'
    BY <2>1 DEF LoopInv, vars, Planned, Visited
  <2> QED
    BY <2>1, LoopStep DEF Next
<1> QED
  BY LoopStart, <1>1, PTL DEF Spec

LEMMA AllVisited ==
    ASSUME todo = {}
    PROVE  DOMAIN Visited = DOMAIN existing /\ \A k \in DOMAIN existing : Visited[k] = existing[k]
BY DEF Visited, Without

(* plan_refresh: in whatever order the entries are visited, the loop ends   *)
(* with the same keys to gather, flags and keys to keep.                    *)
THEOREM EveryOrderIsThePlan == Spec => []OrderIndependent
<1>1. ASSUME LoopInv
      PROVE  OrderIndependent
  <2>1. todo = {} => KeptKeys(Visited, institutions) = KeptKeys(existing, institutions)
    BY AllVisited DEF KeptKeys, Current, Live
  <2> QED
    BY <1>1, <2>1 DEF OrderIndependent, LoopInv
<1> QED
  BY <1>1, LoopInvariant, PTL

(* plan_refresh: whichever of its entries comes first, a moved building is  *)
(* flagged at its new address, or a person decided that address.            *)
THEOREM EveryMoveIsFlagged == Spec => []MovedIsFlagged
<1>1. ASSUME LoopInv
      PROVE  MovedIsFlagged
  <2> SUFFICES ASSUME todo = {}, NEW k \in DOMAIN existing,
                      k.pair \in DOMAIN institutions, k.role = "main",
                      NormalForm[k.address] # NormalForm[institutions[k.pair]]
               PROVE  \/ NewKey(k) \in kept
                      \/ NewKey(k) \in DOMAIN to_gather /\ to_gather[NewKey(k)]
    BY DEF MovedIsFlagged
  <2>1. k \in Live(Visited, institutions) \ Current(Visited, institutions)
    BY AllVisited DEF Live, Current, Stale
  <2>2. NewKey(k) \in MovedKeys(Visited, institutions) \cup KeptKeys(Visited, institutions)
    BY <2>1 DEF NewKey, MovedKeys
  <2>3. /\ to_gather = [j \in PlanKeys(Visited, institutions) |-> Flag(Visited, institutions, j)]
        /\ kept = KeptKeys(Visited, institutions)
    BY <1>1, PlannedIs DEF LoopInv
  <2> QED
    BY <2>2, <2>3 DEF PlanKeys, Flag
<1> QED
  BY <1>1, LoopInvariant, PTL
=============================================================================
