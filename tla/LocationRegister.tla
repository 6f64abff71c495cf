-------------------------- MODULE LocationRegister --------------------------
(***************************************************************************)
(* What the save path of scripts/institution_locations_state.py promises,  *)
(* with no file in sight: a register of decisions about buildings.         *)
(*                                                                         *)
(*   working    the decisions the next seed run starts from                *)
(*   saved      the decisions of the last save                             *)
(*   published  the decisions the committed files show                     *)
(*                                                                         *)
(* A save takes effect at once.  It may retire a person's decision (the    *)
(* institution moved, the branch is gone) but never makes one up or alters *)
(* one.  People change the published decisions, one building at a time,    *)
(* and what they publish is what the next run starts from: a save that was *)
(* not published yet stands only if their edit comes back to what it was   *)
(* made from.                                                              *)
(***************************************************************************)
EXTENDS LocationEntries

VARIABLES working, saved, published

rvars == <<working, saved, published>>

Init == working = NoEntries /\ saved = NoEntries /\ published = NoEntries

ByPerson(d) == d.status \in HUMAN
Agree(f, g, k) == k \in DOMAIN g /\ f[k] = g[k]

Save ==
    /\ \A k \in DOMAIN working' :
        \/ ByPerson(working'[k]) /\ Agree(working', working, k)
        \/ working'[k].status = "auto" /\ k.role = "main"
    /\ saved' = working'
    /\ UNCHANGED published

Publish ==
    /\ published' = working
    /\ UNCHANGED <<working, saved>>

(* A main building's row replaces the row of the same institution.          *)
Edit(k) ==
    /\ k \in DOMAIN published' => ByPerson(published'[k])
    /\ \A j \in (DOMAIN published \cup DOMAIN published') \ {k} :
        \/ j \in DOMAIN published' /\ Agree(published', published, j)
        \/ j \notin DOMAIN published' /\ j.pair = k.pair /\ k.role = "main"
    /\ working' \in {published', saved}
    /\ UNCHANGED saved

\* The local copy of the last save is gone; what is published stands.
Forget ==
    /\ working' = published
    /\ saved' = NoEntries
    /\ UNCHANGED published

Next == Save \/ Publish \/ Forget \/ \E k \in Keys : Edit(k)

Spec == Init /\ [][Next]_rvars
=============================================================================
