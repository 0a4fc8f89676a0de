---------------------------- MODULE MCPaxosClient ----------------------------
(***************************************************************************)
(* Instances of PaxosClient for TLC: two clusters of two nodes, requests   *)
(* alternating between them, in two sets with a failure row.               *)
(***************************************************************************)
EXTENDS PaxosClient

Homes == [r \in Request |-> IF r = "r2" THEN 2 ELSE 1]

\* Two requests in flight at once, a failure row, and a second set with a
\* request, a failure row and the wait after the last row.
TwoSets == <<"r1", "r2", FailRow, NewSet, "r3", FailRow>>
=============================================================================
