--------------------------- MODULE PolicyDecision ---------------------------
(***************************************************************************)
(* One scan's results as the scan playbook collects them, scanner after    *)
(* scanner in the order of the profile, and what process_scan would decide *)
(* of the list so far.  `Reported' is the set of statuses the scanners'    *)
(* result.json files hold.                                                 *)
(***************************************************************************)
EXTENDS Policy

CONSTANTS Reported, MaxScanners

ASSUME ReportedAssumption == Reported \subseteq Status
ASSUME MaxScannersAssumption == MaxScanners \in Nat

VARIABLES policy, outcomes

vars == <<policy, outcomes>>

Init == policy \in AggregationPolicies /\ outcomes = <<>>

(* run_one_scanner.yml appends the scanner's entry to scan_results *)
RunOneScanner ==
  /\ Len(outcomes) < MaxScanners
  /\ \E status \in Reported : outcomes' = Append(outcomes, status)
  /\ UNCHANGED policy

Next == RunOneScanner

Spec == Init /\ [][Next]_vars

-----------------------------------------------------------------------------
TypeOK == policy \in AggregationPolicies /\ outcomes \in Seq(Reported)

Decision(p) == AggregateScanResults(outcomes, p)

(* policy.py: "the ONLY way this function returns allowed=True is an       *)
(* explicit CLEAN determination backed by at least one real scanner        *)
(* result".  No empty list, no outage and no other status is an approval.  *)
AllowedIsExplicitlyClean ==
  Decision(policy).allowed =>
    Reports(outcomes, "CLEAN") /\ Decision(policy).status = "CLEAN"

(* The four policies are ordered: what ALL_MUST_PASS (or FIRST_DETECTION)  *)
(* accepts ANY_DETECTION accepts, and what that accepts FIRST_SUCCESS      *)
(* accepts, so an administrator who moves a profile up only gets stricter. *)
StricterPoliciesAllowLess ==
  /\ Decision("FIRST_DETECTION") = Decision("ALL_MUST_PASS")
  /\ Decision("ALL_MUST_PASS").allowed => Decision("ANY_DETECTION").allowed
  /\ Decision("ANY_DETECTION").allowed => Decision("FIRST_SUCCESS").allowed

(* Only FIRST_SUCCESS depends on the order of the profile's scanners.      *)
OrderIsIrrelevant ==
  policy # "FIRST_SUCCESS" =>
    \A i, j \in DOMAIN outcomes :
      LET swapped == [outcomes EXCEPT ![i] = outcomes[j], ![j] = outcomes[i]]
      IN  AggregateScanResults(swapped, policy) = Decision(policy)

(* A detection is not outvoted: once a scanner reported INFECTED, no       *)
(* further scanner gets the file accepted - unless the policy is           *)
(* FIRST_SUCCESS, and there too if nothing completed before it.            *)
DetectionSticks ==
  [][ Decision(policy).status = "INFECTED" => ~Decision(policy)'.allowed ]_vars
=============================================================================
