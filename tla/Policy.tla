------------------------------- MODULE Policy -------------------------------
(***************************************************************************)
(* The verdict rules of api/policy.py as pure operators: how the outcomes  *)
(* of a profile's scanners become one verdict, and how an encrypted file   *)
(* is decided without scanning it.  An outcome is the status string a      *)
(* scanner reported; nothing between the scanner's result.json and this    *)
(* code restricts it to the three statuses the code expects, so `Status'   *)
(* has a fourth member for every other string.  Names of scanners and      *)
(* threats and the wording of reasons are left out.                        *)
(***************************************************************************)
EXTENDS Naturals, Sequences, FiniteSets

ReportedStatus == {"CLEAN", "INFECTED", "ERROR"}
Status == ReportedStatus \cup {"OTHER"}

AggregationPolicies ==
  {"ALL_MUST_PASS", "ANY_DETECTION", "FIRST_DETECTION", "FIRST_SUCCESS"}
EncryptedPolicies == {"ALLOW", "DENY", "QUARANTINE", "MARK_FOR_REVIEW"}

(* results[i].status = status for some scanner i                           *)
Reports(results, status) == \E i \in DOMAIN results : results[i] = status

Verdict(status) == [status |-> status, allowed |-> status = "CLEAN"]

(* Mutation: outages are forgotten. *)
NoDetectionWhateverOutage(results) ==
  IF Reports(results, "INFECTED") THEN "INFECTED" ELSE "CLEAN"

(* ALL_MUST_PASS and FIRST_DETECTION differ only in the reason they give:  *)
(* a detection denies, then an outage denies, and what is left is CLEAN.   *)
NoDetectionAndNoOutage(results) ==
  CASE Reports(results, "INFECTED") -> "INFECTED"
    [] ~Reports(results, "INFECTED") /\ Reports(results, "ERROR") -> "ERROR"
    [] OTHER -> "CLEAN"

(* Mutation: a clean scanner is looked for before a detection. *)
CleanBeforeDetection(results) ==
  CASE Reports(results, "CLEAN") -> "CLEAN"
    [] ~Reports(results, "CLEAN") /\ Reports(results, "INFECTED") -> "INFECTED"
    [] OTHER -> "ERROR"

(* Mutation: the last scanner's outcome counts. *)
LastOutcome(results) == results[Len(results)]

(* ANY_DETECTION: a detection denies, one clean scanner outweighs outages. *)
NoDetection(results) ==
  CASE Reports(results, "INFECTED") -> "INFECTED"
    [] ~Reports(results, "INFECTED") /\ Reports(results, "CLEAN") -> "CLEAN"
    [] OTHER -> "ERROR"

(* FIRST_SUCCESS: the first scanner in profile order that completed.       *)
Completed(results) ==
  {i \in DOMAIN results : results[i] \in {"CLEAN", "INFECTED"}}

(* Mutation: with no completed scanner there is nothing against the file. *)
FirstCompletedOrClean(results) ==
  IF Completed(results) = {}
  THEN "CLEAN"
  ELSE results[CHOOSE i \in Completed(results) :
                 \A j \in Completed(results) : i <= j]

FirstCompleted(results) ==
  IF Completed(results) = {}
  THEN "ERROR"
  ELSE results[CHOOSE i \in Completed(results) :
                 \A j \in Completed(results) : i <= j]

AggregateScanResults(results, policy) ==
  Verdict(CASE results = <<>> -> "ERROR"
            [] results # <<>> /\ policy \in {"ALL_MUST_PASS", "FIRST_DETECTION"} ->
                 NoDetectionAndNoOutage(results)
            [] results # <<>> /\ policy = "ANY_DETECTION" -> NoDetection(results)
            [] results # <<>> /\ policy = "FIRST_SUCCESS" -> FirstCompleted(results)
            [] OTHER -> "ERROR")

ApplyEncryptedPolicy(policy) ==
  [status     |-> "ENCRYPTED",
   allowed    |-> policy = "ALLOW",
   review     |-> policy = "MARK_FOR_REVIEW",
   quarantine |-> policy \in {"QUARANTINE", "MARK_FOR_REVIEW"}]
=============================================================================
