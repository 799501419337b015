------------------------ MODULE PolicyDecisionProofs ------------------------
(***************************************************************************)
(* The properties of PolicyDecision for profiles of any size.              *)
(***************************************************************************)
EXTENDS PolicyDecision, PolicyLemmas

(* Collecting one more status keeps the type.                              *)
LEMMA TypeStep == TypeOK /\ [Next]_vars => TypeOK'
BY DEF TypeOK, Next, RunOneScanner, vars

(* The collected outcomes are a list of reported statuses.                 *)
THEOREM TypeCorrect == Spec => []TypeOK
<1>1. Init => TypeOK
  BY DEF Init, TypeOK
<1> QED
  BY <1>1, TypeStep, PTL DEF Spec

(* With scanners that report only the three statuses, nothing is accepted  *)
(* without a scanner that said CLEAN, whatever the policy and the number   *)
(* of scanners.                                                            *)
THEOREM FailClosed ==
  ASSUME Reported \subseteq ReportedStatus
  PROVE  Spec => []AllowedIsExplicitlyClean
<1>1. TypeOK => AllowedIsExplicitlyClean
  <2> SUFFICES ASSUME TypeOK, Decision(policy).allowed
               PROVE  Reports(outcomes, "CLEAN") /\ Decision(policy).status = "CLEAN"
    BY DEF AllowedIsExplicitlyClean
  <2>1. outcomes \in Seq(ReportedStatus) /\ outcomes \in Seq(Status)
    BY DEF TypeOK, Status
  <2> QED
    BY <2>1, ApprovalIsReported, VerdictType DEF Decision
<1> QED
  BY <1>1, TypeCorrect, PTL

(* Moving a profile from FIRST_SUCCESS to ANY_DETECTION to ALL_MUST_PASS   *)
(* never accepts a file that was refused before.                           *)
THEOREM PoliciesAreOrdered ==
  ASSUME Reported \subseteq ReportedStatus
  PROVE  Spec => []StricterPoliciesAllowLess
<1>1. TypeOK => StricterPoliciesAllowLess
  <2> SUFFICES ASSUME TypeOK PROVE StricterPoliciesAllowLess
    OBVIOUS
  <2>1. outcomes \in Seq(ReportedStatus) /\ outcomes \in Seq(Status)
    BY DEF TypeOK, Status
  <2>2. Decision("FIRST_DETECTION") = Decision("ALL_MUST_PASS")
    BY DEF Decision, AggregateScanResults
  <2>3. ASSUME Decision("ALL_MUST_PASS").allowed PROVE Decision("ANY_DETECTION").allowed
    <3>1. Reports(outcomes, "CLEAN")
      BY <2>1, <2>3, ApprovalIsReported DEF Decision
    <3>2. outcomes # <<>> /\ ~Reports(outcomes, "INFECTED")
      BY <2>3 DEF Decision, AggregateScanResults, Verdict, NoDetectionAndNoOutage
    <3> QED
      BY <3>1, <3>2 DEF Decision, AggregateScanResults, Verdict, NoDetection
  <2>4. ASSUME Decision("ANY_DETECTION").allowed PROVE Decision("FIRST_SUCCESS").allowed
    <3>1. outcomes # <<>> /\ ~Reports(outcomes, "INFECTED") /\ Reports(outcomes, "CLEAN")
      BY <2>4 DEF Decision, AggregateScanResults, Verdict, NoDetection
    <3>2. Completed(outcomes) # {}
      BY <3>1 DEF Completed, Reports
    <3>3. FirstCompleted(outcomes) = "CLEAN"
      BY <2>1, <3>1, <3>2, FirstCompletedIsFirst DEF Completed, Reports
    <3> QED
      BY <3>1, <3>3 DEF Decision, AggregateScanResults, Verdict
  <2> QED
    BY <2>2, <2>3, <2>4 DEF StricterPoliciesAllowLess
<1> QED
  BY <1>1, TypeCorrect, PTL

(* A list that is INFECTED stays so when one more status is appended.      *)
LEMMA AppendKeepsDetection ==
  ASSUME NEW list \in Seq(Status), NEW status \in Status, NEW p,
         AggregateScanResults(list, p).status = "INFECTED"
  PROVE  AggregateScanResults(Append(list, status), p).status = "INFECTED"
<1> DEFINE longer == Append(list, status)
<1>1. /\ longer \in Seq(Status) /\ longer # <<>> /\ list # <<>>
      /\ \A i \in DOMAIN list : i \in DOMAIN longer /\ longer[i] = list[i]
      /\ \A i \in DOMAIN longer \ DOMAIN list : i = Len(list) + 1
  BY DEF AggregateScanResults, Verdict
<1>2. Reports(longer, "INFECTED")
  BY <1>1, InfectedIsReported DEF Reports
<1>3. CASE p # "FIRST_SUCCESS"
  <2>1. p \in {"ALL_MUST_PASS", "FIRST_DETECTION", "ANY_DETECTION"}
    BY <1>1, <1>3 DEF AggregateScanResults, Verdict
  <2> QED
    BY <1>1, <1>2, <2>1
       DEF AggregateScanResults, Verdict, NoDetectionAndNoOutage, NoDetection
<1>4. CASE p = "FIRST_SUCCESS"
  <2>1. FirstCompleted(list) = "INFECTED"
    BY <1>1, <1>4 DEF AggregateScanResults, Verdict
  <2>2. Completed(list) # {}
    BY <2>1 DEF FirstCompleted
  <2>3. PICK i \in Completed(list) :
          list[i] = "INFECTED" /\ \A j \in Completed(list) : i <= j
    BY <2>1, <2>2, FirstCompletedIsFirst
  <2>4. i \in Completed(longer) /\ longer[i] = "INFECTED"
    BY <1>1, <2>3 DEF Completed
  <2>5. PICK m \in Completed(longer) :
          FirstCompleted(longer) = longer[m] /\ \A j \in Completed(longer) : m <= j
    BY <1>1, <2>4, FirstCompletedIsFirst
  <2>6. m \in DOMAIN list
    BY <1>1, <2>3, <2>4, <2>5 DEF Completed
  <2>7. m \in Completed(list)
    BY <1>1, <2>5, <2>6 DEF Completed
  <2>8. m = i
    BY <2>3, <2>4, <2>5, <2>7 DEF Completed
  <2> QED
    BY <1>1, <1>4, <2>4, <2>5, <2>8 DEF AggregateScanResults, Verdict
<1> QED
  BY <1>3, <1>4

(* No further scanner turns a detection into an approval, under any policy *)
(* and whatever strings the scanners report.                               *)
THEOREM DetectionIsKept == Spec => DetectionSticks
<1>1. TypeOK /\ [Next]_vars =>
        (Decision(policy).status = "INFECTED" => ~Decision(policy)'.allowed)
  <2> SUFFICES ASSUME TypeOK, [Next]_vars, Decision(policy).status = "INFECTED"
               PROVE  ~Decision(policy)'.allowed
    OBVIOUS
  <2>1. outcomes \in Seq(Status)
    BY ReportedAssumption DEF TypeOK
  <2>2. CASE UNCHANGED vars
    BY <2>1, <2>2, VerdictType DEF Decision, vars
  <2>3. CASE RunOneScanner
    <3> PICK status \in Reported : outcomes' = Append(outcomes, status) /\ policy' = policy
      BY <2>3 DEF RunOneScanner
    <3>1. status \in Status
      BY ReportedAssumption
    <3>2. Decision(policy)'.status = "INFECTED"
      BY <2>1, <3>1, AppendKeepsDetection DEF Decision
    <3>3. outcomes' \in Seq(Status)
      BY <2>1, <3>1
    <3> QED
      BY <3>2, <3>3, VerdictType DEF Decision
  <2> QED
    BY <2>2, <2>3 DEF Next
<1>2. TypeOK /\ [Next]_vars =>
        [Decision(policy).status = "INFECTED" => ~Decision(policy)'.allowed]_vars
  BY <1>1
<1> QED
  BY <1>2, TypeCorrect, PTL DEF Spec, DetectionSticks

(* Under every policy but FIRST_SUCCESS it only matters which statuses     *)
(* were reported: not by which scanner, in which order or how often.       *)
LEMMA OnlyReportsCount ==
  ASSUME NEW list \in Seq(Status), NEW other \in Seq(Status), NEW p,
         p # "FIRST_SUCCESS",
         \A status \in Status : Reports(list, status) <=> Reports(other, status)
  PROVE  AggregateScanResults(list, p) = AggregateScanResults(other, p)
<1>1. ASSUME NEW l \in Seq(Status)
      PROVE  l = <<>> <=> ~\E status \in Status : Reports(l, status)
  <2>1. l # <<>> => 1 \in DOMAIN l /\ l[1] \in Status
    OBVIOUS
  <2> QED
    BY <2>1 DEF Reports
<1>2. list = <<>> <=> other = <<>>
  BY <1>1
<1>3. {"INFECTED", "CLEAN", "ERROR"} \subseteq Status
  BY DEF Status, ReportedStatus
<1>4. NoDetectionAndNoOutage(list) = NoDetectionAndNoOutage(other)
  BY <1>3 DEF NoDetectionAndNoOutage
<1>5. NoDetection(list) = NoDetection(other)
  BY <1>3 DEF NoDetection
<1> QED
  BY <1>2, <1>4, <1>5 DEF AggregateScanResults

(* Exchanging two scanners of a profile changes no verdict, except under   *)
(* FIRST_SUCCESS: for profiles of any size, whatever strings are reported. *)
THEOREM OrderDoesNotMatter == Spec => []OrderIsIrrelevant
<1>1. TypeOK => OrderIsIrrelevant
  <2> SUFFICES ASSUME TypeOK, policy # "FIRST_SUCCESS",
                      NEW i \in DOMAIN outcomes, NEW j \in DOMAIN outcomes
               PROVE  AggregateScanResults(
                        [outcomes EXCEPT ![i] = outcomes[j], ![j] = outcomes[i]],
                        policy) = Decision(policy)
    BY DEF OrderIsIrrelevant
  <2> DEFINE swapped == [outcomes EXCEPT ![i] = outcomes[j], ![j] = outcomes[i]]
  <2>1. outcomes \in Seq(Status)
    BY ReportedAssumption DEF TypeOK
  <2>2. /\ DOMAIN swapped = DOMAIN outcomes
        /\ swapped[j] = outcomes[i]
        /\ i # j => swapped[i] = outcomes[j]
        /\ \A k \in DOMAIN outcomes \ {i, j} : swapped[k] = outcomes[k]
    BY <2>1
  <2>3. swapped \in Seq(Status)
    BY <2>1
  <2> HIDE DEF swapped
  <2>4. \A status \in Status : Reports(swapped, status) <=> Reports(outcomes, status)
    BY <2>2 DEF Reports
  <2>5. AggregateScanResults(swapped, policy) = AggregateScanResults(outcomes, policy)
    BY <2>1, <2>3, <2>4, OnlyReportsCount
  <2> QED
    BY <2>5 DEF swapped, Decision
<1> QED
  BY <1>1, TypeCorrect, PTL
=============================================================================
