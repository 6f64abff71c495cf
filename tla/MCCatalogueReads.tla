-------------------------- MODULE MCCatalogueReads --------------------------
(* A kindergarten, a nursery and two preschools over two addresses of one   *)
(* street.  The second snapshot moves the nursery to the other district,    *)
(* drops a preschool and gives its address to the kindergarten; the second  *)
(* ГРАО file moves both addresses.  The locations files disagree on which   *)
(* institutions have a row.                                                 *)
EXTENDS CatalogueReads

CONSTANTS l1, l2, k1, n1, p1, p2, street1

Norm == [x \in Streets |-> x]

At(n) == [street |-> street1, number |-> n, suffix |-> None, entrance |-> None]

Kept(k, address, entries) ==
    [institution |-> k, address |-> address, district |-> NoDistrict, entries |-> entries]
Nursery(district) ==
    [institution |-> n1, address |-> None, district |-> district, entries |-> <<>>]

TwoSnapshots == <<
    <<Kept(k1, None, <<At(1)>>), Kept(p1, None, <<At(2)>>), Nursery(1)>>,
    <<Kept(k1, None, <<At(2)>>), Kept(p2, At(1), <<>>), Nursery(2)>> >>

Listed(d) == {[norm |-> street1, number |-> n, suffix |-> None, entrance |-> None,
               district |-> d] : n \in Numbers}
TwoArchives == {Listed(1), Listed(2)}

Pin(k, role) == [institution |-> k, role |-> role, address |-> None]
TwoFiles == l1 :> {Pin(k1, "main"), Pin(k1, "branch")} @@ l2 :> {Pin(p1, "main"), Pin(p2, "main")}
=============================================================================
