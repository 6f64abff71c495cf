------------------------- MODULE MCPlanRefreshLoop -------------------------
(* Every dict of up to five keys of one institution: its main building at   *)
(* three texts of two addresses, and a branch.                              *)
EXTENDS PlanRefreshLoop

CONSTANTS a1, a1q, a2, c

Normal == [a \in Addresses |-> IF a = a1q THEN a1 ELSE a]

Accepted == [status |-> "accepted", at |-> c, on |-> 1, record |-> NoRecord]
SomeEntries == [decision : {Pending, AutoDecision(c, 1), Accepted}, changed : BOOLEAN]
=============================================================================
