--------------------------- MODULE MCScanPipeline ---------------------------
(***************************************************************************)
(* Instances of ScanPipeline for TLC.  The lists a scan playbook may       *)
(* return are one scanner's three reports and an unknown status, and for   *)
(* the runs about aggregation the pairs in which the policies disagree.    *)
(***************************************************************************)
EXTENDS ScanPipeline, TLC

CONSTANTS fetched, locked, w1, w2

OneScanner == {<<"CLEAN">>, <<"INFECTED">>, <<"OTHER">>}
(* Workers are alike: no step and no invariant tells them apart. *)
WorkerSymmetry == Permutations(Workers)

TwoScanners == {<<"CLEAN", "CLEAN">>, <<"ERROR", "CLEAN">>, <<"CLEAN", "INFECTED">>,
                <<"CLEAN", "OTHER">>}
=============================================================================
