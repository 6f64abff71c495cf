-------------------------- MODULE MCSeedLocations --------------------------
(* Small instances of SeedLocations for TLC.                                *)
EXTENDS SeedLocations

CONSTANTS a1, a1q, a2, a3

\* a1q is a1 in another quote style.
Normal == [a \in Addresses |-> IF a = a1q THEN a1 ELSE a]
=============================================================================
