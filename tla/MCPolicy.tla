------------------------------ MODULE MCPolicy ------------------------------
(***************************************************************************)
(* Every list of up to MaxScanners results, under every policy.            *)
(***************************************************************************)
EXTENDS PolicyDecision
=============================================================================
