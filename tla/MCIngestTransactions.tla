------------------------ MODULE MCIngestTransactions ------------------------
(* Two kindergartens, a nursery, one street with three addresses, a         *)
(* classifier that lists two of them and moves the street from one district *)
(* to another, and two snapshots: the second drops a kindergarten, gives    *)
(* one of its addresses to the other, and adds the nursery.                 *)
EXTENDS IngestTransactions

CONSTANTS i1, i2, r1, g1, k1, k2, n1, street1, A

Norm == [x \in Streets |-> x]

At(n, l, e) == [street |-> street1, number |-> n, suffix |-> l, entrance |-> e]
Plain == At(1, None, None)
Full == At(1, A, A)
New == At(2, None, None)
TooLarge == At(SmallIntMax + 1, None, None)

Kindergarten(k, address, entries) ==
    [institution |-> k, address |-> address, district |-> NoDistrict, entries |-> entries]
Nursery(district) ==
    [institution |-> n1, address |-> None, district |-> district, entries |-> <<>>]

TwoSnapshots == <<
    [institutions |-> <<Kindergarten(k1, Plain, <<Plain, Full>>),
                        Kindergarten(k2, None, <<New, Unparsable, TooLarge>>)>>],
    [institutions |-> <<Kindergarten(k1, Plain, <<Full, New, Full>>), Nursery(2)>>] >>

Listed(a, d) == [norm |-> a.street, number |-> a.number, suffix |-> a.suffix,
                 entrance |-> a.entrance, district |-> d]

OldArchive == {Listed(Plain, 1), Listed(Full, 2)}
NewArchive == {Listed(Plain, 2), Listed(Full, 2)}
Archives == [g \in Reloads |-> NewArchive]
LoadedBefore == {OldArchive}
=============================================================================
