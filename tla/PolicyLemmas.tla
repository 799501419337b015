---------------------------- MODULE PolicyLemmas ----------------------------
(***************************************************************************)
(* Facts about the verdict rules, for lists of results of any length, that *)
(* the proofs about the scan pipeline and the policy decision rest on.     *)
(***************************************************************************)
EXTENDS Policy, WellFoundedInduction, TLAPS

(* A non-empty set of naturals has a least element.                        *)
LEMMA LeastNumber ==
  ASSUME NEW T \in SUBSET Nat, T # {}
  PROVE  \E i \in T : \A j \in T : i <= j
<1>1. \E i \in T : \A j \in T : ~(<<j, i>> \in OpToRel(<, Nat))
  BY NatLessThanWellFounded, WFMin
<1>2. \E i \in T : \A j \in T : ~(j < i)
  BY <1>1 DEF OpToRel
<1> QED
  BY <1>2

(* FIRST_SUCCESS answers with a scanner that completed, the first one.     *)
LEMMA FirstCompletedIsFirst ==
  ASSUME NEW list \in Seq(Status), Completed(list) # {}
  PROVE  \E i \in Completed(list) :
           /\ FirstCompleted(list) = list[i]
           /\ \A j \in Completed(list) : i <= j
<1>1. Completed(list) \subseteq Nat
  BY DEF Completed
<1>2. \E i \in Completed(list) : \A j \in Completed(list) : i <= j
  BY <1>1, LeastNumber
<1> DEFINE first == CHOOSE i \in Completed(list) : \A j \in Completed(list) : i <= j
<1>3. first \in Completed(list) /\ \A j \in Completed(list) : first <= j
  BY <1>2
<1>4. FirstCompleted(list) = list[first]
  BY DEF FirstCompleted
<1> QED
  BY <1>3, <1>4

(* What FIRST_SUCCESS answers with is reported, unless it is ERROR.        *)
LEMMA FirstCompletedReports ==
  ASSUME NEW list \in Seq(Status)
  PROVE  \/ FirstCompleted(list) = "ERROR"
         \/ /\ FirstCompleted(list) \in {"CLEAN", "INFECTED"}
            /\ Reports(list, FirstCompleted(list))
<1>1. CASE Completed(list) = {}
  BY <1>1 DEF FirstCompleted
<1>2. CASE Completed(list) # {}
  BY <1>2, FirstCompletedIsFirst DEF Completed, Reports
<1> QED
  BY <1>1, <1>2

(* Whatever was reported, the verdict is one of the three statuses and it  *)
(* is an approval exactly if it is CLEAN.                                  *)
LEMMA VerdictType ==
  ASSUME NEW list \in Seq(Status), NEW policy
  PROVE  /\ AggregateScanResults(list, policy).status \in ReportedStatus
         /\ AggregateScanResults(list, policy).allowed \in BOOLEAN
         /\ AggregateScanResults(list, policy).allowed
              <=> AggregateScanResults(list, policy).status = "CLEAN"
BY FirstCompletedReports
   DEF AggregateScanResults, Verdict, NoDetectionAndNoOutage, NoDetection, ReportedStatus

(* A verdict INFECTED goes back to a scanner that reported INFECTED.       *)
LEMMA InfectedIsReported ==
  ASSUME NEW list \in Seq(Status), NEW policy,
         AggregateScanResults(list, policy).status = "INFECTED"
  PROVE  Reports(list, "INFECTED")
BY FirstCompletedReports
   DEF AggregateScanResults, Verdict, NoDetectionAndNoOutage, NoDetection

(* An approval goes back to a scanner that reported CLEAN, if no scanner   *)
(* reported anything but the three statuses.                               *)
LEMMA ApprovalIsReported ==
  ASSUME NEW list \in Seq(ReportedStatus), NEW policy,
         AggregateScanResults(list, policy).allowed
  PROVE  Reports(list, "CLEAN")
<1>1. list \in Seq(Status)
  BY DEF Status
<1>2. CASE list # <<>> /\ policy \in {"ALL_MUST_PASS", "FIRST_DETECTION"}
  <2>1. ~Reports(list, "INFECTED") /\ ~Reports(list, "ERROR")
    BY <1>2 DEF AggregateScanResults, Verdict, NoDetectionAndNoOutage
  <2>2. 1 \in DOMAIN list /\ list[1] \in ReportedStatus
    BY <1>2
  <2> QED
    BY <2>1, <2>2 DEF Reports, ReportedStatus
<1>3. CASE ~(list # <<>> /\ policy \in {"ALL_MUST_PASS", "FIRST_DETECTION"})
  BY <1>1, <1>3, FirstCompletedReports DEF AggregateScanResults, Verdict, NoDetection
<1> QED
  BY <1>2, <1>3
=============================================================================
