--------------------------- MODULE MCStableLeader ---------------------------
(***************************************************************************)
(* The inductive invariants of FirstViewProofs on an instance of TLC.      *)
(***************************************************************************)
EXTENDS MCPaxosCluster, FirstViewProofs
=============================================================================
