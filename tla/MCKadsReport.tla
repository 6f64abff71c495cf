---------------------------- MODULE MCKadsReport ----------------------------
(* Three sections: two of a city district, one of another.  A page break in *)
(* the first prints the second's header, one in the second the third's, of  *)
(* which nothing else is printed.                                           *)
(* v1 is a section of a village, whose header has no район.                 *)
EXTENDS KadsReport, TLC

CONSTANTS s1, s2, s3, city, village, odesos, mladost, street1, street2

Places ==
    [s \in Sections |->
        CASE s \in {s1, s2} -> [district |-> odesos, settlement |-> city]
          [] s = s3 -> [district |-> mladost, settlement |-> city]
          [] OTHER -> [district |-> None, settlement |-> village]]

EachStreets ==
    [s \in Sections |-> CASE s = s2 -> {street2} [] s = s3 -> {} [] OTHER -> Streets]

Following == {<<s1, s2>>, <<s2, s3>>}
Nowhere == {}

=============================================================================
