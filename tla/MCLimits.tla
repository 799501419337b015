------------------------------ MODULE MCLimits ------------------------------
(***************************************************************************)
(* An instance of Limits for TLC: two API processes, a window of two ticks *)
(* and a clock that runs for two windows.                                  *)
(***************************************************************************)
EXTENDS Limits, TLC

CONSTANTS p1, p2

(* The processes are alike: nothing names one of them. *)
ProcessSymmetry == Permutations(Processes)
=============================================================================
