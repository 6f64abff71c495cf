-------------------------- MODULE PlanRefreshLoop --------------------------
(***************************************************************************)
(* plan_refresh of scripts/seed_institution_locations.py as the loop it    *)
(* is: the existing entries are visited one at a time, in the order the    *)
(* dict happens to have, and each visit reads what earlier ones put into   *)
(* `to_gather` and `kept`.  LocationEntries gives its result as sets; here *)
(* every order is shown to end in those sets.                              *)
(*                                                                         *)
(* Of an entry to gather only the address_changed flag is kept: gather     *)
(* overwrites its candidates and its decision.                             *)
(***************************************************************************)
EXTENDS LocationEntries

CONSTANT Samples    \* the entries the loop may be given

ASSUME SamplesAssumption == Samples \subseteq Entry

VARIABLES existing, institutions, todo, to_gather, kept

vars == <<existing, institutions, todo, to_gather, kept>>

Init ==
    /\ existing \in Dicts(Keys, Samples)
    /\ institutions \in Dicts(Pairs, Addresses)
    /\ todo = DOMAIN existing
    /\ to_gather = NoEntries
    /\ kept = {}

\* The key of the institution's main building at its present address.
NewKey(k) == MainKey(k.pair, institutions[k.pair])

VisitGone(k) ==
    /\ k.pair \notin DOMAIN institutions
    /\ UNCHANGED <<to_gather, kept>>

(* The entry of a moved institution: its place at the new address is        *)
(* flagged, unless a person already decided the new address.                *)
VisitMovedOnce(k) ==
    /\ k.pair \in DOMAIN institutions
    /\ Stale(k, institutions)
    /\ to_gather' = IF NewKey(k) \in kept \cup DOMAIN to_gather THEN to_gather
                    ELSE With(to_gather, NewKey(k), TRUE)
    /\ UNCHANGED kept
VisitMoved(k) ==
    /\ k.pair \in DOMAIN institutions
    /\ Stale(k, institutions)
    /\ to_gather' = IF NewKey(k) \in kept THEN to_gather
                    ELSE With(to_gather, NewKey(k), TRUE)
    /\ UNCHANGED kept

(* An entry that is where it was.  A flagged place for it may be there      *)
(* already: the entry under the old address was visited first.              *)
VisitCurrentUnpopped(k) ==
    /\ k.pair \in DOMAIN institutions
    /\ ~Stale(k, institutions)
    /\ IF IsHuman(existing[k])
       THEN /\ kept' = kept \cup {k}
            /\ to_gather' = Without(to_gather, {k})
       ELSE /\ to_gather' = With(to_gather, k, existing[k].changed)
            /\ UNCHANGED kept
VisitCurrent(k) ==
    /\ k.pair \in DOMAIN institutions
    /\ ~Stale(k, institutions)
    /\ IF IsHuman(existing[k])
       THEN /\ kept' = kept \cup {k}
            /\ to_gather' = Without(to_gather, {k})
       ELSE /\ to_gather' = With(to_gather, k,
                                 \/ k \in DOMAIN to_gather
                                 \/ existing[k].changed)
            /\ UNCHANGED kept

Visit(k) ==
    /\ VisitGone(k) \/ VisitMoved(k) \/ VisitCurrent(k)
    /\ todo' = todo \ {k}
    /\ UNCHANGED <<existing, institutions>>

Next == \E k \in todo : Visit(k)

Spec == Init /\ [][Next]_vars

-----------------------------------------------------------------------------
\* What plan_refresh would return for the entries visited so far.
Visited == Without(existing, todo)
Planned ==
    LET plan == PlanRefresh(Visited, institutions)
    IN  [k \in DOMAIN plan |-> plan[k].changed]

(* plan_refresh: "The outcome must not depend on which is visited first."   *)
(* After the last entry the loop has the keys to gather, their flags and    *)
(* the keys to keep that the set definition gives, in whatever order the    *)
(* entries came.                                                            *)
OrderIndependent ==
    todo = {} => /\ to_gather = Planned
                 /\ kept = KeptKeys(existing, institutions)

(* "The new-address entry always carries address_changed while it is        *)
(* pending": once the loop is over, every moved building has a flagged      *)
(* entry at the new address or a person's decision on it.                   *)
MovedIsFlagged ==
    todo = {} =>
        \A k \in DOMAIN existing :
            /\ k.pair \in DOMAIN institutions
            /\ k.role = "main"
            /\ NormalForm[k.address] # NormalForm[institutions[k.pair]]
            => \/ NewKey(k) \in kept
               \/ NewKey(k) \in DOMAIN to_gather /\ to_gather[NewKey(k)]
=============================================================================
