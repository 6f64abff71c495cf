---------------------------- MODULE MCSeedRunner ----------------------------
(* Two releases: the second has a ГРАО file that moves every address to the *)
(* other district and a snapshot that replaces a preschool, takes an        *)
(* address from the kindergarten and moves the nursery.  ГРАО lists two of  *)
(* the three addresses exactly.  The snapshot on R2 is the first without an *)
(* address of the kindergarten.                                             *)
EXTENDS SeedRunner

CONSTANTS k1, n1, p1, p2, street1

Norm == [x \in Streets |-> x]

At(n) == [street |-> street1, number |-> n, suffix |-> None, entrance |-> None]

Row(k, district, entries) ==
    [institution |-> k, address |-> None, district |-> district, entries |-> entries]

Listed(d) == {[norm |-> street1, number |-> n, suffix |-> None, entrance |-> None,
               district |-> d] : n \in {1, 2}}

Pin(k, role) == [institution |-> k, role |-> role, address |-> None]
Pins(ks) == {Pin(k, "main") : k \in ks} \cup {Pin(k1, "branch")}

First == [grao |-> Listed(1), known |-> 1, locations |-> Pins({k1, n1, p1}),
          snapshot |-> <<Row(k1, NoDistrict, <<At(1), At(2), At(3)>>),
                         Row(p1, NoDistrict, <<At(1)>>), Row(n1, 1, <<>>)>>]
Second == [grao |-> Listed(2), known |-> 2, locations |-> Pins({k1, n1, p2}),
           snapshot |-> <<Row(k1, NoDistrict, <<At(1), At(3)>>),
                          Row(p2, NoDistrict, <<At(2)>>), Row(n1, 2, <<>>)>>]
TwoReleases == {First, Second}
OnR2 == <<Row(k1, NoDistrict, <<At(1), At(3)>>), First.snapshot[2], First.snapshot[3]>>
Case == At(1)
=============================================================================
