------------------------- MODULE ScanPipelineProofs -------------------------
(***************************************************************************)
(* Type correctness of ScanPipeline, and the safety of its verdicts: one   *)
(* runner per scan, no approval without evidence, no deletion without a    *)
(* detection; for any number of scans, workers and faults, any results,    *)
(* and also when the stale-job sweep fails a job that is still running.    *)
(*                                                                         *)
(* None of the three is inductive.  The argument is that a scan's results, *)
(* its approval and its deletion are each written once, in this order, by  *)
(* the one thread that runs it: VerdictInv says that a scan nobody claimed *)
(* and a scan whose thread has not reached its verdict are untouched, and  *)
(* that a thread about to write the verdict holds the stored results.      *)
(***************************************************************************)
EXTENDS ScanPipeline, PolicyLemmas

-----------------------------------------------------------------------------
(* What one step of a thread does to the type of each variable             *)

(* Moving a thread to a step of its kind keeps the type of pc.             *)
LEMMA GotoType ==
  ASSUME TypeOK, NEW k \in Kinds, NEW w \in Workers, NEW s \in Scans,
         NEW from, NEW to \in JobSteps, k = "sweep" => to \in SweepSteps,
         Goto(k, w, s, from, to)
  PROVE  /\ pc' \in [Kinds -> [Workers -> [Scans -> JobSteps]]]
         /\ \A v \in Workers, x \in Scans : pc'["sweep"][v][x] \in SweepSteps
         /\ upload' = upload /\ expired' = expired
BY DEF TypeOK, Goto, Kinds

(* A step that writes nothing keeps the types.                             *)
LEMMA PassType ==
  ASSUME TypeOK, NEW k \in Kinds, NEW w \in Workers, NEW s \in Scans,
         NEW from, NEW to \in JobSteps, k = "sweep" => to \in SweepSteps,
         Pass(k, w, s, from, to)
  PROVE  TypeOK'
<1>1. /\ pc' \in [Kinds -> [Workers -> [Scans -> JobSteps]]]
      /\ \A v \in Workers, x \in Scans : pc'["sweep"][v][x] \in SweepSteps
      /\ upload' = upload /\ expired' = expired
  BY GotoType DEF Pass
<1> QED
  BY <1>1 DEF Pass, TypeOK

(* So does an update_scan that writes a legal row.                         *)
LEMMA UpdateType ==
  ASSUME TypeOK, NEW k \in Kinds, NEW w \in Workers, NEW s \in Scans,
         NEW from, NEW to \in JobSteps, k = "sweep" => to \in SweepSteps,
         NEW new \in Rows, Update(k, w, s, from, to, new)
  PROVE  TypeOK'
<1>1. /\ pc' \in [Kinds -> [Workers -> [Scans -> JobSteps]]]
      /\ \A v \in Workers, x \in Scans : pc'["sweep"][v][x] \in SweepSteps
      /\ upload' = upload /\ expired' = expired
  BY GotoType DEF Update
<1>2. row' \in [Scans -> Rows]
  BY DEF Update, TypeOK
<1> QED
  BY <1>1, <1>2 DEF Update, TypeOK

(* So does a step that leaves a legal staging directory.                   *)
LEMMA TouchType ==
  ASSUME TypeOK, NEW k \in Kinds, NEW w \in Workers, NEW s \in Scans,
         NEW from, NEW to \in JobSteps, k = "sweep" => to \in SweepSteps,
         NEW found \in {"absent", "dir", "file"}, Touch(k, w, s, from, to, found)
  PROVE  TypeOK'
<1>1. /\ pc' \in [Kinds -> [Workers -> [Scans -> JobSteps]]]
      /\ \A v \in Workers, x \in Scans : pc'["sweep"][v][x] \in SweepSteps
      /\ upload' = upload /\ expired' = expired
  BY GotoType DEF Touch
<1>2. staging' \in [Scans -> {"absent", "dir", "file"}]
  BY DEF Touch, TypeOK
<1> QED
  BY <1>1, <1>2 DEF Touch, TypeOK

(* Values the steps write belong to their columns.                         *)
LEMMA ColumnValues ==
  /\ {"RECEIVED", "VALIDATING", "TRANSFERRING", "SCANNING", "CLEAN", "INFECTED",
      "ERROR", "ENCRYPTED", "CLEANUP_FAILED"} \subseteq Statuses
  /\ {"yes", "no", "null"} \subseteq Flags
  /\ {"PENDING", "OK", "FAILED"} \subseteq Transfers
  /\ {"PENDING", "OK", "FAILED", "SKIPPED"} \subseteq Details
  /\ {"PENDING", "OK", "FAILED"} \subseteq Cleanups
  /\ {"null", "staging", "quarantine"} \subseteq Paths
BY DEF Statuses, InProgress, Terminal, Overlayable, Flags, Transfers, Details,
       Cleanups, Paths

(* _fail writes legal values.                                              *)
LEMMA FailedType == ASSUME NEW r \in Rows PROVE Failed(r) \in Rows
BY ColumnValues DEF Failed, Rows

(* The names of the steps belong to their sets.                            *)
LEMMA StepNames ==
  /\ {"job", "sweep"} \subseteq Kinds
  /\ SweepSteps \subseteq JobSteps
  /\ {"resolve", "refuse", "begin", "fetch", "fetch_failed", "fetch_mismatch",
      "transferred", "detect", "inspect", "plain", "encrypted", "decide", "scanning",
      "scan", "containers", "scan_failed", "scanned", "results", "verdict", "delete",
      "delete_failed", "quarantine", "move", "moved", "raised"} \subseteq JobSteps
  /\ {"idle", "fail", "cleanup", "remove", "removed", "remove_failed",
      "overlay", "overlay_write"} \subseteq SweepSteps
BY DEF Kinds, SweepSteps, JobSteps

-----------------------------------------------------------------------------
(* Every action keeps the types                                            *)

(* The endpoints, the passing of time and the death of the API.            *)
LEMMA SubmissionType ==
  ASSUME TypeOK, NEW s \in Scans, SubmitStep(s) \/ Expire(s) \/ ApiCrash
  PROVE  TypeOK'
<1>0. row[s] \in Rows
  BY DEF TypeOK
<1>1. ASSUME NEW mode \in Modes, CreateScan(s, mode) PROVE row' \in [Scans -> Rows]
  <2>1. [row[s] EXCEPT !.status = "RECEIVED", !.mode = mode] \in Rows
    BY <1>0, ColumnValues DEF Rows, ModeColumn
  <2> QED
    BY <1>1, <2>1 DEF CreateScan, TypeOK
<1>2. CASE InsertRowOnly(s)
  BY <1>1, <1>2 DEF InsertRowOnly, TypeOK, disk
<1>3. CASE UploadInsert(s)
  BY <1>1, <1>3 DEF UploadInsert, UploadStep, TypeOK
<1>4. CASE UploadMakeDir(s)
  BY <1>4 DEF UploadMakeDir, UploadStep, TypeOK
<1>5. CASE UploadPlaceFile(s)
  <2>1. staging' \in [Scans -> {"absent", "dir", "file"}]
    BY <1>5 DEF UploadPlaceFile, TypeOK
  <2>2. upload' \in [Scans -> {"idle", "inserted", "made", "placed", "done", "failed"}]
    BY <1>5 DEF UploadPlaceFile, UploadStep, TypeOK
  <2>3. UNCHANGED <<row, results, quarantined, deleted, pc, raw, expired, faults>>
    BY <1>5 DEF UploadPlaceFile, UploadStep
  <2> QED
    BY <2>1, <2>2, <2>3 DEF TypeOK
<1>6. CASE UploadRecordPath(s)
  <2>1. [row[s] EXCEPT !.path = "staging"] \in Rows
    BY <1>0, ColumnValues DEF Rows
  <2> QED
    BY <1>6, <2>1 DEF UploadRecordPath, UploadStep, TypeOK
<1>7. CASE UploadRecordPathFails(s)
  BY <1>7, BoundAssumption DEF UploadRecordPathFails, UploadStep, TypeOK
<1>8. CASE Expire(s)
  BY <1>8 DEF Expire, TypeOK, disk
<1>9. CASE ApiCrash
  BY <1>9, BoundAssumption DEF ApiCrash, TypeOK, disk
<1> QED
  BY <1>2, <1>3, <1>4, <1>5, <1>6, <1>7, <1>8, <1>9 DEF SubmitStep

(* Claims, sweeps and the death of a worker.                               *)
LEMMA MainLoopType ==
  ASSUME TypeOK, NEW w \in Workers,
         \/ Sweep(w) \/ WorkerCrash(w)
         \/ \E s \in Scans : Claim(w, s) \/ ClaimLost(w, s)
  PROVE  TypeOK'
<1> USE StepNames
<1>1. CASE Sweep(w)
  <2> PICK stale \in SUBSET Scans :
        pc' = [pc EXCEPT !["sweep"][w] =
                 [s \in Scans |-> IF s \in stale THEN "fail" ELSE "idle"]]
    BY <1>1 DEF Sweep
  <2>1. pc' \in [Kinds -> [Workers -> [Scans -> JobSteps]]]
    BY DEF TypeOK
  <2>2. \A v \in Workers, x \in Scans : pc'["sweep"][v][x] \in SweepSteps
    BY DEF TypeOK
  <2> QED
    BY <1>1, <2>1, <2>2 DEF Sweep, TypeOK, disk
<1>2. CASE WorkerCrash(w)
  <2>1. pc' \in [Kinds -> [Workers -> [Scans -> JobSteps]]]
    BY <1>2 DEF WorkerCrash, TypeOK
  <2>2. \A v \in Workers, x \in Scans : pc'["sweep"][v][x] \in SweepSteps
    BY <1>2 DEF WorkerCrash, TypeOK
  <2>3. raw' \in [Workers -> [Scans -> Outcomes \cup {<<>>}]]
    BY <1>2 DEF WorkerCrash, TypeOK
  <2> QED
    BY <1>2, <2>1, <2>2, <2>3, BoundAssumption DEF WorkerCrash, TypeOK, disk
<1>3. ASSUME NEW s \in Scans, Claim(w, s) PROVE TypeOK'
  <2> row[s] \in Rows
    BY DEF TypeOK
  <2>0. [row[s] EXCEPT !.status = "VALIDATING"] \in Rows
    BY ColumnValues DEF Rows
  <2>1. row' \in [Scans -> Rows]
    BY <1>3, <2>0 DEF Claim, TypeOK
  <2>2. pc' \in [Kinds -> [Workers -> [Scans -> JobSteps]]]
    BY <1>3 DEF Claim, TypeOK
  <2>3. \A v \in Workers, x \in Scans : pc'["sweep"][v][x] \in SweepSteps
    BY <1>3 DEF Claim, TypeOK
  <2> QED
    BY <1>3, <2>1, <2>2, <2>3 DEF Claim, TypeOK, disk
<1>4. ASSUME NEW s \in Scans, ClaimLost(w, s) PROVE TypeOK'
  <2> row[s] \in Rows
    BY DEF TypeOK
  <2>0. [row[s] EXCEPT !.status = "VALIDATING"] \in Rows
    BY ColumnValues DEF Rows
  <2>1. row' \in [Scans -> Rows]
    BY <1>4, <2>0 DEF ClaimLost, TypeOK
  <2> QED
    BY <1>4, <2>1, BoundAssumption DEF ClaimLost, TypeOK, disk
<1> QED
  BY <1>1, <1>2, <1>3, <1>4

(* The steps of _fail and _cleanup_staging, in a job or a sweep.           *)
LEMMA CleanupType ==
  ASSUME TypeOK, NEW k \in Kinds, NEW w \in Workers, NEW s \in Scans,
         CleanupStep(k, w, s)
  PROVE  TypeOK'
<1> USE StepNames
<1>1. row[s] \in Rows /\ staging[s] \in {"absent", "dir", "file"}
  BY DEF TypeOK
<1>2. CASE Fail(k, w, s)
  BY <1>1, <1>2, FailedType, UpdateType DEF Fail
<1>3. CASE Cleanup(k, w, s)
  BY <1>3, PassType DEF Cleanup
<1>4. CASE Remove(k, w, s)
  BY <1>1, <1>4, TouchType DEF Remove
<1>5. CASE Removed(k, w, s)
  <2>1. [row[s] EXCEPT !.cleanup = "OK"] \in Rows
    BY <1>1, ColumnValues DEF Rows
  <2> QED
    BY <1>5, <2>1, UpdateType DEF Removed
<1>6. CASE RemoveFailed(k, w, s)
  <2>1. [row[s] EXCEPT !.cleanup = "FAILED"] \in Rows
    BY <1>1, ColumnValues DEF Rows
  <2> QED
    BY <1>6, <2>1, UpdateType DEF RemoveFailed
<1>7. CASE Overlay(k, w, s)
  BY <1>7, PassType DEF Overlay
<1>8. CASE OverlayWrite(k, w, s)
  <2>1. [row[s] EXCEPT !.status = "CLEANUP_FAILED"] \in Rows
    BY <1>1, ColumnValues DEF Rows
  <2> QED
    BY <1>8, <2>1, UpdateType DEF OverlayWrite
<1> QED
  BY <1>2, <1>3, <1>4, <1>5, <1>6, <1>7, <1>8 DEF CleanupStep

(* What a job holds, and what is stored, are lists of statuses.            *)
LEMMA RawType ==
  ASSUME TypeOK, NEW w \in Workers, NEW s \in Scans
  PROVE  raw[w][s] \in Seq(Status) /\ results[s] \in Seq(Status)
<1>0. <<>> \in Seq(Status)
  OBVIOUS
<1>1. Outcomes \cup {<<>>} \subseteq Seq(Status)
  BY <1>0, OutcomesAssumption, Zenon
<1>2. raw[w][s] \in Outcomes \cup {<<>>} /\ results[s] \in Outcomes \cup {<<>>}
  BY DEF TypeOK
<1> QED
  BY <1>1, <1>2

(* The steps of process_scan.                                              *)
LEMMA JobType ==
  ASSUME TypeOK, NEW w \in Workers, NEW s \in Scans, JobStep(w, s)
  PROVE  TypeOK'
<1> USE StepNames
<1>0. row[s] \in Rows /\ staging[s] \in {"absent", "dir", "file"}
  BY DEF TypeOK
<1>1. CASE ResolveProfile(w, s)
  BY <1>1, PassType DEF ResolveProfile
<1>2. CASE Refuse(w, s)
  BY <1>0, <1>2, FailedType, UpdateType DEF Refuse
<1>3. CASE Begin(w, s)
  <2>1. [row[s] EXCEPT !.status = "TRANSFERRING", !.path = "staging",
                       !.transfer = "PENDING"] \in Rows
    BY <1>0, ColumnValues DEF Rows
  <2> QED
    BY <1>3, <2>1, UpdateType DEF Begin
<1>4. CASE Fetch(w, s)
  BY <1>0, <1>4, TouchType DEF Fetch
<1>5. CASE FetchFailed(w, s)
  <2>1. /\ [row[s] EXCEPT !.transfer = "FAILED", !.detail = "SKIPPED"] \in Rows
        /\ [row[s] EXCEPT !.transfer = "OK", !.detail = "SKIPPED"] \in Rows
    BY <1>0, ColumnValues DEF Rows
  <2> QED
    BY <1>5, <2>1, UpdateType DEF FetchFailed
<1>6. CASE Transferred(w, s)
  <2>1. [row[s] EXCEPT !.transfer = "OK"] \in Rows
    BY <1>0, ColumnValues DEF Rows
  <2> QED
    BY <1>6, <2>1, UpdateType DEF Transferred
<1>7. CASE Detect(w, s)
  BY <1>7, PassType DEF Detect
<1>8. CASE Inspect(w, s)
  BY <1>8, PassType DEF Inspect
<1>9. CASE RecordPlain(w, s)
  <2>1. [row[s] EXCEPT !.encrypted = "no"] \in Rows
    BY <1>0, ColumnValues DEF Rows
  <2> QED
    BY <1>9, <2>1, UpdateType DEF RecordPlain
<1>10. CASE RecordEncrypted(w, s)
  <2>1. \A value \in {"yes", "null"} : [row[s] EXCEPT !.encrypted = value] \in Rows
    BY <1>0, ColumnValues DEF Rows
  <2> QED
    BY <1>10, <2>1, UpdateType DEF RecordEncrypted
<1>11. CASE DecideEncrypted(w, s)
  <2> PICK p \in EncryptedPolicies :
        Update("job", w, s, "decide",
               IF ApplyEncryptedPolicy(p).quarantine THEN "quarantine" ELSE "cleanup",
               [row[s] EXCEPT !.status = ApplyEncryptedPolicy(p).status,
                              !.allowed = Answer(ApplyEncryptedPolicy(p).allowed),
                              !.applied = p])
    BY <1>11 DEF DecideEncrypted
  <2>1. /\ ApplyEncryptedPolicy(p).status \in Statuses
        /\ Answer(ApplyEncryptedPolicy(p).allowed) \in Flags
        /\ p \in Applied
    BY ColumnValues DEF ApplyEncryptedPolicy, Answer, Applied
  <2>2. [row[s] EXCEPT !.status = ApplyEncryptedPolicy(p).status,
                       !.allowed = Answer(ApplyEncryptedPolicy(p).allowed),
                       !.applied = p] \in Rows
    BY <1>0, <2>1 DEF Rows
  <2> QED
    BY <2>2, UpdateType
<1>12. CASE StartScanning(w, s)
  <2>1. [row[s] EXCEPT !.status = "SCANNING"] \in Rows
    BY <1>0, ColumnValues DEF Rows
  <2> QED
    BY <1>12, <2>1, UpdateType DEF StartScanning
<1>13. CASE FindStagedFile(w, s)
  BY <1>13, PassType DEF FindStagedFile
<1>14. CASE RunScanners(w, s)
  <2>1. ASSUME NEW found \in {staging[s], IF staging[s] = "absent" THEN "dir" ELSE staging[s]},
               Touch("job", w, s, "containers", "scan_failed", found)
        PROVE  TypeOK'
    BY <1>0, <2>1, TouchType
  <2>2. ASSUME NEW r \in Outcomes, raw' = [raw EXCEPT ![w][s] = r],
               Goto("job", w, s, "containers", "scanned"),
               UNCHANGED <<row, results, staging, quarantined, deleted, faults>>
        PROVE  TypeOK'
    <3>1. raw' \in [Workers -> [Scans -> Outcomes \cup {<<>>}]]
      BY <2>2 DEF TypeOK
    <3>2. /\ pc' \in [Kinds -> [Workers -> [Scans -> JobSteps]]]
          /\ \A v \in Workers, x \in Scans : pc'["sweep"][v][x] \in SweepSteps
          /\ upload' = upload /\ expired' = expired
      BY <2>2, GotoType
    <3> QED
      BY <2>2, <3>1, <3>2 DEF TypeOK
  <2> QED
    BY <1>14, <2>1, <2>2 DEF RunScanners
<1>15. CASE ScanFailed(w, s)
  <2>1. [row[s] EXCEPT !.detail = "FAILED"] \in Rows
    BY <1>0, ColumnValues DEF Rows
  <2> QED
    BY <1>15, <2>1, UpdateType DEF ScanFailed
<1>16. CASE Scanned(w, s)
  <2>1. [row[s] EXCEPT !.detail = "OK"] \in Rows
    BY <1>0, ColumnValues DEF Rows
  <2> QED
    BY <1>16, <2>1, UpdateType DEF Scanned
<1>17. CASE InsertResults(w, s)
  <2>1. CASE Pass("job", w, s, "results", "raised")
    BY <2>1, PassType
  <2>2. ASSUME Goto("job", w, s, "results", "verdict"),
               results' = [results EXCEPT ![s] = raw[w][s]],
               UNCHANGED <<row, staging, quarantined, deleted, raw, faults>>
        PROVE  TypeOK'
    <3>1. results' \in [Scans -> Outcomes \cup {<<>>}]
      BY <2>2 DEF TypeOK
    <3>2. /\ pc' \in [Kinds -> [Workers -> [Scans -> JobSteps]]]
          /\ \A v \in Workers, x \in Scans : pc'["sweep"][v][x] \in SweepSteps
          /\ upload' = upload /\ expired' = expired
      BY <2>2, GotoType
    <3> QED
      BY <2>2, <3>1, <3>2 DEF TypeOK
  <2> QED
    BY <1>17, <2>1, <2>2 DEF InsertResults
<1>18. CASE RecordVerdict(w, s)
  <2> PICK p \in Aggregations, to \in JobSteps :
        Update("job", w, s, "verdict", to,
               [row[s] EXCEPT
                  !.status = AggregateScanResults(raw[w][s], p).status,
                  !.allowed = Answer(AggregateScanResults(raw[w][s], p).allowed)])
    BY <1>18 DEF RecordVerdict, DisposeInfected
  <2>0. raw[w][s] \in Seq(Status)
    BY RawType
  <2>1. /\ AggregateScanResults(raw[w][s], p).status \in Statuses
        /\ Answer(AggregateScanResults(raw[w][s], p).allowed) \in Flags
    BY <2>0, VerdictType, ColumnValues DEF Answer, ReportedStatus
  <2>2. [row[s] EXCEPT
           !.status = AggregateScanResults(raw[w][s], p).status,
           !.allowed = Answer(AggregateScanResults(raw[w][s], p).allowed)] \in Rows
    BY <1>0, <2>1 DEF Rows
  <2> QED
    BY <2>2, UpdateType
<1>19. CASE DeleteSource(w, s)
  <2> PICK gone \in BOOLEAN, to \in {DisposeInfected, "delete_failed"} :
        /\ Goto("job", w, s, "delete", to)
        /\ deleted' = [deleted EXCEPT ![s] = gone]
        /\ UNCHANGED <<row, results, staging, quarantined, raw, faults>>
    <3>1. deleted[s] \in BOOLEAN
      BY DEF TypeOK
    <3> QED
      BY <1>19, <3>1 DEF DeleteSource
  <2>1. deleted' \in [Scans -> BOOLEAN]
    BY DEF TypeOK
  <2>2. /\ pc' \in [Kinds -> [Workers -> [Scans -> JobSteps]]]
        /\ \A v \in Workers, x \in Scans : pc'["sweep"][v][x] \in SweepSteps
        /\ upload' = upload /\ expired' = expired
    BY GotoType DEF DisposeInfected
  <2> QED
    BY <2>1, <2>2 DEF TypeOK
<1>20. CASE DeleteFailed(w, s)
  BY <1>0, <1>20, UpdateType DEF DeleteFailed, DisposeInfected
<1>21. CASE Quarantine(w, s)
  BY <1>21, PassType DEF Quarantine
<1>22. CASE MoveToQuarantine(w, s)
  <2> PICK to \in {"moved", "remove_failed"} : Goto("job", w, s, "move", to)
    BY <1>22 DEF MoveToQuarantine
  <2>1. /\ pc' \in [Kinds -> [Workers -> [Scans -> JobSteps]]]
        /\ \A v \in Workers, x \in Scans : pc'["sweep"][v][x] \in SweepSteps
        /\ upload' = upload /\ expired' = expired
    BY GotoType
  <2>2. staging' \in [Scans -> {"absent", "dir", "file"}] /\ quarantined' \in [Scans -> BOOLEAN]
    BY <1>22 DEF MoveToQuarantine, TypeOK
  <2> QED
    BY <1>22, <2>1, <2>2 DEF MoveToQuarantine, TypeOK
<1>23. CASE Moved(w, s)
  <2>1. [row[s] EXCEPT !.cleanup = "OK", !.path = "quarantine"] \in Rows
    BY <1>0, ColumnValues DEF Rows
  <2> QED
    BY <1>23, <2>1, UpdateType DEF Moved
<1>24. CASE CleanupStep("job", w, s)
  BY <1>24, CleanupType
<1>25. CASE RecordRaised(w, s)
  BY <1>0, <1>25, FailedType, UpdateType DEF RecordRaised
<1> QED
  BY <1>1, <1>2, <1>3, <1>4, <1>5, <1>6, <1>7, <1>8, <1>9, <1>10, <1>11, <1>12,
     <1>13, <1>14, <1>15, <1>16, <1>17, <1>18, <1>19, <1>20, <1>21, <1>22, <1>23,
     <1>24, <1>25 DEF JobStep

(* A failing database call, in a job or a sweep.                           *)
LEMMA RaiseType ==
  ASSUME TypeOK, NEW k \in Kinds, NEW w \in Workers, NEW s \in Scans, Raise(k, w, s)
  PROVE  TypeOK'
<1> USE StepNames
<1>1. /\ pc' \in [Kinds -> [Workers -> [Scans -> JobSteps]]]
      /\ \A v \in Workers, x \in Scans : pc'["sweep"][v][x] \in SweepSteps
      /\ upload' = upload /\ expired' = expired
  BY GotoType DEF Raise, Kinds
<1> QED
  BY <1>1, BoundAssumption DEF Raise, TypeOK

(* No rows, no files, no threads.                                          *)
LEMMA TypeInit == Init => TypeOK
<1> SUFFICES ASSUME Init PROVE TypeOK
  OBVIOUS
<1>1. NoRow \in Rows
  BY DEF NoRow, Rows, Statuses, ModeColumn, Flags, Transfers, Details, Applied,
         Cleanups, Paths
<1> QED
  BY <1>1, StepNames, BoundAssumption DEF Init, TypeOK

(* Every step of the system keeps the types.                               *)
LEMMA TypeStep == TypeOK /\ [Next]_vars => TypeOK'
<1> SUFFICES ASSUME TypeOK, [Next]_vars PROVE TypeOK'
  OBVIOUS
<1>1. CASE Next
  <2>1. ASSUME NEW s \in Scans, SubmitStep(s) \/ Expire(s) PROVE TypeOK'
    BY <2>1, SubmissionType
  <2>2. CASE ApiCrash
    <3> PICK s \in Scans : TRUE
      BY <2>2 DEF ApiCrash
    <3> QED
      BY <2>2, SubmissionType
  <2>3. ASSUME NEW w \in Workers, Sweep(w) \/ WorkerCrash(w) PROVE TypeOK'
    BY <2>3, MainLoopType
  <2>4. ASSUME NEW w \in Workers, NEW s \in Scans, Claim(w, s) \/ ClaimLost(w, s)
        PROVE  TypeOK'
    BY <2>4, MainLoopType
  <2>5. ASSUME NEW w \in Workers, NEW s \in Scans,
               JobStep(w, s) \/ CleanupStep("sweep", w, s)
        PROVE  TypeOK'
    BY <2>5, JobType, CleanupType, StepNames
  <2>6. ASSUME NEW w \in Workers, NEW s \in Scans, NEW k \in Kinds, Raise(k, w, s)
        PROVE  TypeOK'
    BY <2>6, RaiseType
  <2> QED
    BY <1>1, <2>1, <2>2, <2>3, <2>4, <2>5, <2>6 DEF Next
<1>2. CASE UNCHANGED vars
  BY <1>2 DEF vars, TypeOK
<1> QED
  BY <1>1, <1>2

(* Every behaviour of the pipeline keeps its rows, files, threads and      *)
(* counters in their types.                                                *)
THEOREM TypeCorrect == Spec => []TypeOK
BY TypeInit, TypeStep, PTL DEF Spec

-----------------------------------------------------------------------------
(* The verdict                                                             *)

BeforeVerdict ==
  {"resolve", "refuse", "begin", "fetch", "fetch_failed", "fetch_mismatch",
   "transferred", "detect", "inspect", "plain", "encrypted", "decide", "scanning",
   "scan", "containers", "scan_failed", "scanned", "results", "verdict"}

UnclaimedIsUntouched ==
  \A s \in Scans :
    /\ upload[s] = "idle" => row[s].status = "NONE"
    /\ row[s].status \in {"NONE", "RECEIVED"} =>
         /\ row[s].allowed = "null" /\ ~deleted[s]
         /\ \A k \in Kinds, w \in Workers : pc[k][w][s] = "idle"

UndecidedIsUntouched ==
  \A w \in Workers, s \in Scans :
    pc["job"][w][s] \in BeforeVerdict => row[s].allowed # "yes" /\ ~deleted[s]

VerdictFromStored ==
  \A w \in Workers, s \in Scans :
    /\ pc["job"][w][s] = "verdict" => results[s] = raw[w][s] /\ Storable(results[s])
    /\ pc["job"][w][s] = "delete" => Reports(results[s], "INFECTED")

VerdictInv ==
  /\ OneRunnerPerScan /\ UnclaimedIsUntouched /\ UndecidedIsUntouched
  /\ VerdictFromStored /\ AllowedNeedsEvidence /\ DeletedNeedsDetection

-----------------------------------------------------------------------------
(* Steps that decide nothing: they do not bring the thread nearer to a     *)
(* verdict and write the row, if at all, without approving.                *)

Undecisive(k, from, to) ==
  /\ from # "idle"
  /\ k = "job" => /\ to \notin {"verdict", "delete"}
                  /\ to \in BeforeVerdict => from \in BeforeVerdict

Unapproving(old, new) ==
  /\ new.applied = old.applied
  /\ \/ new.status = old.status /\ new.allowed = old.allowed
     \/ new.status \notin {"NONE", "RECEIVED"} /\ new.allowed \in {old.allowed, "no"}

(* A step that decides nothing keeps the invariant.                        *)
LEMMA GotoKeeps ==
  ASSUME TypeOK, VerdictInv, NEW k \in Kinds, NEW w \in Workers, NEW s \in Scans,
         NEW from, NEW to, Undecisive(k, from, to), Goto(k, w, s, from, to),
         NEW new \in Rows, row' = [row EXCEPT ![s] = new], Unapproving(row[s], new),
         UNCHANGED <<results, raw, deleted>>
  PROVE  VerdictInv'
<1>1. \A v \in Workers, x \in Scans :
        pc'["job"][v][x] = IF k = "job" /\ v = w /\ x = s THEN to ELSE pc["job"][v][x]
  BY DEF Goto, TypeOK, Kinds
<1>2. \A v \in Workers, x \in Scans : Running(v, x)' => Running(v, x)
  BY <1>1 DEF Running, Goto, Undecisive
<1>3. \A x \in Scans :
        /\ row'[x].applied = row[x].applied
        /\ \/ row'[x].status = row[x].status /\ row'[x].allowed = row[x].allowed
           \/ /\ row'[x].status \notin {"NONE", "RECEIVED"}
              /\ row'[x].allowed \in {row[x].allowed, "no"}
  BY DEF TypeOK, Unapproving
<1>4. OneRunnerPerScan'
  BY <1>2 DEF VerdictInv, OneRunnerPerScan
<1>5. UnclaimedIsUntouched'
  <2>1. row[s].status \notin {"NONE", "RECEIVED"}
    BY DEF VerdictInv, UnclaimedIsUntouched, Goto, Undecisive
  <2>2. \A x \in Scans :
          row'[x].status \in {"NONE", "RECEIVED"} => x # s /\ row'[x] = row[x]
    BY <2>1 DEF Unapproving, TypeOK
  <2>3. \A x \in Scans : x # s =>
          /\ row'[x] = row[x]
          /\ \A j \in Kinds, v \in Workers : pc'[j][v][x] = pc[j][v][x]
    BY DEF Goto, TypeOK
  <2>4. upload' = upload /\ upload[s] # "idle"
    BY <2>1 DEF VerdictInv, UnclaimedIsUntouched, Goto
  <2> QED
    BY <2>2, <2>3, <2>4 DEF VerdictInv, UnclaimedIsUntouched
<1>6. UndecidedIsUntouched'
  BY <1>1, <1>3 DEF VerdictInv, UndecidedIsUntouched, Undecisive, Goto
<1>7. VerdictFromStored'
  BY <1>1 DEF VerdictInv, VerdictFromStored, Undecisive
<1>8. AllowedNeedsEvidence'
  BY <1>3 DEF VerdictInv, AllowedNeedsEvidence
<1>9. DeletedNeedsDetection'
  BY DEF VerdictInv, DeletedNeedsDetection
<1> QED
  BY <1>4, <1>5, <1>6, <1>7, <1>8, <1>9 DEF VerdictInv

(* In particular an update_scan that decides nothing,                      *)
LEMMA UpdateKeeps ==
  ASSUME TypeOK, VerdictInv, NEW k \in Kinds, NEW w \in Workers, NEW s \in Scans,
         NEW from, NEW to, Undecisive(k, from, to), NEW new \in Rows,
         Unapproving(row[s], new), Update(k, w, s, from, to, new)
  PROVE  VerdictInv'
BY GotoKeeps DEF Update

(* and a step that leaves the row alone.                                   *)
LEMMA PassKeeps ==
  ASSUME TypeOK, VerdictInv, NEW k \in Kinds, NEW w \in Workers, NEW s \in Scans,
         NEW from, NEW to, Undecisive(k, from, to), Goto(k, w, s, from, to),
         UNCHANGED <<row, results, raw, deleted>>
  PROVE  VerdictInv'
<1>1. row[s] \in Rows /\ row' = [row EXCEPT ![s] = row[s]] /\ Unapproving(row[s], row[s])
  BY DEF TypeOK, Unapproving
<1> QED
  BY <1>1, GotoKeeps

(* Failing a scan and removing its staged copy decide nothing.             *)
LEMMA CleanupKeeps ==
  ASSUME TypeOK, VerdictInv, NEW k \in Kinds, NEW w \in Workers, NEW s \in Scans,
         CleanupStep(k, w, s)
  PROVE  VerdictInv'
<1> USE DEF Undecisive, BeforeVerdict
<1>0. row[s] \in Rows
  BY DEF TypeOK
<1>1. CASE Fail(k, w, s)
  <2>1. Failed(row[s]) \in Rows /\ Unapproving(row[s], Failed(row[s]))
    BY <1>0, FailedType DEF Failed, Unapproving, Rows
  <2> QED
    BY <1>1, <2>1, UpdateKeeps DEF Fail
<1>2. CASE Cleanup(k, w, s)
  BY <1>2, PassKeeps DEF Cleanup, Pass
<1>3. CASE Remove(k, w, s)
  BY <1>3, PassKeeps DEF Remove, Touch
<1>4. CASE Removed(k, w, s)
  <2> DEFINE new == [row[s] EXCEPT !.cleanup = "OK"]
  <2>1. new \in Rows /\ Unapproving(row[s], new)
    BY <1>0, ColumnValues DEF Rows, Unapproving
  <2> QED
    BY <1>4, <2>1, UpdateKeeps DEF Removed
<1>5. CASE RemoveFailed(k, w, s)
  <2> DEFINE new == [row[s] EXCEPT !.cleanup = "FAILED"]
  <2>1. new \in Rows /\ Unapproving(row[s], new)
    BY <1>0, ColumnValues DEF Rows, Unapproving
  <2> QED
    BY <1>5, <2>1, UpdateKeeps DEF RemoveFailed
<1>6. CASE Overlay(k, w, s)
  BY <1>6, PassKeeps DEF Overlay, Pass
<1>7. CASE OverlayWrite(k, w, s)
  <2> DEFINE new == [row[s] EXCEPT !.status = "CLEANUP_FAILED"]
  <2>1. new \in Rows /\ Unapproving(row[s], new)
    BY <1>0, ColumnValues DEF Rows, Unapproving
  <2> QED
    BY <1>7, <2>1, UpdateKeeps DEF OverlayWrite
<1> QED
  BY <1>1, <1>2, <1>3, <1>4, <1>5, <1>6, <1>7 DEF CleanupStep

-----------------------------------------------------------------------------
(* Submission and the main loop                                            *)

(* A new row is untouched; nothing else the endpoints do matters.          *)
LEMMA SubmissionKeeps ==
  ASSUME TypeOK, VerdictInv, NEW s \in Scans, SubmitStep(s) \/ Expire(s) \/ ApiCrash
  PROVE  VerdictInv'
<1>1. ASSUME NEW mode \in Modes, upload[s] = "idle", upload'[s] # "idle",
             \A x \in Scans \ {s} : upload'[x] = upload[x],
             CreateScan(s, mode), UNCHANGED <<results, deleted, pc, raw>>
      PROVE  VerdictInv'
  <2>1. /\ row[s].status = "NONE" /\ row'[s].allowed = row[s].allowed
        /\ row'[s].applied = row[s].applied
        /\ \A x \in Scans \ {s} : row'[x] = row[x]
    BY <1>1 DEF CreateScan, TypeOK, Rows, VerdictInv, UnclaimedIsUntouched
  <2>2. UnclaimedIsUntouched'
    BY <1>1, <2>1 DEF VerdictInv, UnclaimedIsUntouched
  <2>3. OneRunnerPerScan' /\ UndecidedIsUntouched' /\ VerdictFromStored'
    BY <1>1, <2>1
       DEF VerdictInv, OneRunnerPerScan, Running, UndecidedIsUntouched, VerdictFromStored
  <2>4. AllowedNeedsEvidence' /\ DeletedNeedsDetection'
    BY <1>1, <2>1 DEF VerdictInv, AllowedNeedsEvidence, DeletedNeedsDetection
  <2> QED
    BY <2>2, <2>3, <2>4 DEF VerdictInv
<1>2. ASSUME \A x \in Scans : /\ upload'[x] = "idle" => upload[x] = "idle"
                              /\ row'[x].status = row[x].status
                              /\ row'[x].allowed = row[x].allowed
                              /\ row'[x].applied = row[x].applied,
             UNCHANGED <<results, deleted, pc, raw>>
      PROVE  VerdictInv'
  BY <1>2 DEF VerdictInv, UnclaimedIsUntouched, OneRunnerPerScan, Running,
              UndecidedIsUntouched, VerdictFromStored, AllowedNeedsEvidence,
              DeletedNeedsDetection
<1>3. CASE InsertRowOnly(s)
  BY <1>1, <1>3 DEF InsertRowOnly, disk, TypeOK
<1>4. CASE UploadInsert(s)
  <2>1. "direct_upload" \in Modes
    BY <1>4 DEF UploadInsert
  <2> QED
    BY <1>1, <1>4, <2>1 DEF UploadInsert, UploadStep, TypeOK
<1>5. CASE UploadMakeDir(s) \/ UploadPlaceFile(s) \/ UploadRecordPathFails(s)
  BY <1>2, <1>5
     DEF UploadMakeDir, UploadPlaceFile, UploadRecordPathFails, UploadStep, TypeOK
<1>6. CASE UploadRecordPath(s)
  BY <1>2, <1>6 DEF UploadRecordPath, UploadStep, TypeOK, Rows
<1>7. CASE Expire(s)
  BY <1>2, <1>7 DEF Expire, disk
<1>8. CASE ApiCrash
  BY <1>2, <1>8 DEF ApiCrash, disk, TypeOK
<1> QED
  BY <1>3, <1>4, <1>5, <1>6, <1>7, <1>8 DEF SubmitStep

(* A claim finds an untouched row; sweeps and crashes decide nothing.      *)
LEMMA MainLoopKeeps ==
  ASSUME TypeOK, VerdictInv, NEW w \in Workers,
         \/ Sweep(w) \/ WorkerCrash(w)
         \/ \E s \in Scans : Claim(w, s) \/ ClaimLost(w, s)
  PROVE  VerdictInv'
<1>1. CASE Sweep(w)
  <2> DEFINE stale == {s \in Scans : row[s].status \in InProgress /\ expired[s]}
  <2>1. /\ pc' = [pc EXCEPT !["sweep"][w] =
                    [s \in Scans |-> IF s \in stale THEN "fail" ELSE "idle"]]
        /\ UNCHANGED <<row, results, deleted, raw, upload>>
    BY <1>1 DEF Sweep, disk
  <2>2. \A v \in Workers, x \in Scans : pc'["job"][v][x] = pc["job"][v][x]
    BY <2>1 DEF TypeOK, Kinds
  <2>3. \A v \in Workers, x \in Scans :
          pc'["sweep"][v][x] # "idle" => pc["sweep"][v][x] # "idle" \/ x \in stale
    BY <2>1 DEF TypeOK, Kinds
  <2>4. UnclaimedIsUntouched'
    BY <2>1, <2>2, <2>3 DEF VerdictInv, UnclaimedIsUntouched, Kinds, InProgress
  <2>5. OneRunnerPerScan' /\ UndecidedIsUntouched' /\ VerdictFromStored'
    BY <2>1, <2>2
       DEF VerdictInv, OneRunnerPerScan, Running, UndecidedIsUntouched, VerdictFromStored
  <2>6. AllowedNeedsEvidence' /\ DeletedNeedsDetection'
    BY <2>1 DEF VerdictInv, AllowedNeedsEvidence, DeletedNeedsDetection
  <2> QED
    BY <2>4, <2>5, <2>6 DEF VerdictInv
<1>2. CASE WorkerCrash(w)
  <2>1. \A k \in Kinds, v \in Workers, x \in Scans :
          /\ pc'[k][v][x] \in {"idle", pc[k][v][x]}
          /\ v # w => raw'[v][x] = raw[v][x]
          /\ v = w => pc'[k][v][x] = "idle"
    BY <1>2 DEF WorkerCrash, TypeOK
  <2>2. UNCHANGED <<row, results, deleted, upload>>
    BY <1>2 DEF WorkerCrash, disk
  <2>3. UnclaimedIsUntouched'
    BY <2>1, <2>2 DEF VerdictInv, UnclaimedIsUntouched
  <2>4. OneRunnerPerScan'
    BY <2>1 DEF VerdictInv, OneRunnerPerScan, Running, Kinds
  <2>5. UndecidedIsUntouched'
    BY <2>1, <2>2 DEF VerdictInv, UndecidedIsUntouched, Kinds, BeforeVerdict
  <2>6. VerdictFromStored'
    BY <2>1, <2>2 DEF VerdictInv, VerdictFromStored, Kinds
  <2>7. AllowedNeedsEvidence' /\ DeletedNeedsDetection'
    BY <2>2 DEF VerdictInv, AllowedNeedsEvidence, DeletedNeedsDetection
  <2> QED
    BY <2>3, <2>4, <2>5, <2>6, <2>7 DEF VerdictInv
<1>3. ASSUME NEW s \in Scans, row[s].status = "RECEIVED",
             row' = [row EXCEPT ![s].status = "VALIDATING"],
             \/ pc' = [pc EXCEPT !["job"][w][s] = "resolve"]
             \/ pc' = pc,
             UNCHANGED <<results, deleted, raw, upload>>
      PROVE  VerdictInv'
  <2>1. /\ row'[s].status = "VALIDATING" /\ row'[s].allowed = "null"
        /\ row'[s].applied = row[s].applied /\ ~deleted[s] /\ upload[s] # "idle"
        /\ \A x \in Scans \ {s} : row'[x] = row[x]
        /\ \A v \in Workers : pc["job"][v][s] = "idle"
    BY <1>3 DEF VerdictInv, UnclaimedIsUntouched, TypeOK, Rows, Kinds
  <2>2. \A k \in Kinds, v \in Workers, x \in Scans :
          pc'[k][v][x] # pc[k][v][x] => v = w /\ x = s /\ pc'[k][v][x] = "resolve"
    BY <1>3 DEF TypeOK, Kinds
  <2>3. UnclaimedIsUntouched'
    BY <1>3, <2>1, <2>2 DEF VerdictInv, UnclaimedIsUntouched
  <2>4. OneRunnerPerScan'
    BY <2>1, <2>2 DEF VerdictInv, OneRunnerPerScan, Running, Kinds
  <2>5. UndecidedIsUntouched'
    BY <1>3, <2>1, <2>2 DEF VerdictInv, UndecidedIsUntouched, Kinds
  <2>6. VerdictFromStored'
    BY <1>3, <2>2 DEF VerdictInv, VerdictFromStored, Kinds
  <2>7. AllowedNeedsEvidence' /\ DeletedNeedsDetection'
    BY <1>3, <2>1 DEF VerdictInv, AllowedNeedsEvidence, DeletedNeedsDetection
  <2> QED
    BY <2>3, <2>4, <2>5, <2>6, <2>7 DEF VerdictInv
<1> QED
  BY <1>1, <1>2, <1>3 DEF Claim, ClaimLost, disk

-----------------------------------------------------------------------------
(* Steps of process_scan                                                   *)

UndecisiveStep(w, s) ==
  \/ ResolveProfile(w, s) \/ Refuse(w, s) \/ Begin(w, s) \/ Fetch(w, s)
  \/ FetchFailed(w, s) \/ Transferred(w, s) \/ Detect(w, s) \/ Inspect(w, s)
  \/ RecordPlain(w, s) \/ RecordEncrypted(w, s) \/ StartScanning(w, s)
  \/ FindStagedFile(w, s) \/ ScanFailed(w, s) \/ DeleteFailed(w, s)
  \/ Quarantine(w, s) \/ MoveToQuarantine(w, s) \/ Moved(w, s) \/ RecordRaised(w, s)
  \/ Scanned(w, s)

(* Nor do most steps of process_scan.                                      *)
LEMMA UndecisiveKeeps ==
  ASSUME TypeOK, VerdictInv, NEW w \in Workers, NEW s \in Scans, UndecisiveStep(w, s)
  PROVE  VerdictInv'
<1> USE StepNames DEF Undecisive, BeforeVerdict
<1>0. row[s] \in Rows
  BY DEF TypeOK
<1>1. CASE ResolveProfile(w, s)
  BY <1>1, PassKeeps DEF ResolveProfile, Pass
<1>2. CASE Refuse(w, s)
  <2>1. Failed(row[s]) \in Rows /\ Unapproving(row[s], Failed(row[s]))
    BY <1>0, FailedType DEF Failed, Unapproving, Rows
  <2> QED
    BY <1>2, <2>1, UpdateKeeps DEF Refuse
<1>3. CASE Begin(w, s)
  <2> DEFINE new == [row[s] EXCEPT !.status = "TRANSFERRING", !.path = "staging",
                                !.transfer = "PENDING"]
  <2>1. new \in Rows /\ Unapproving(row[s], new)
    BY <1>0, ColumnValues DEF Rows, Unapproving
  <2> QED
    BY <1>3, <2>1, UpdateKeeps DEF Begin
<1>4. CASE Fetch(w, s)
  BY <1>4, PassKeeps DEF Fetch, Touch
<1>5. CASE FetchFailed(w, s)
  <2> DEFINE failed == [row[s] EXCEPT !.transfer = "FAILED", !.detail = "SKIPPED"]
             wrong == [row[s] EXCEPT !.transfer = "OK", !.detail = "SKIPPED"]
  <2>1. /\ failed \in Rows /\ Unapproving(row[s], failed)
        /\ wrong \in Rows /\ Unapproving(row[s], wrong)
    BY <1>0, ColumnValues DEF Rows, Unapproving
  <2> QED
    BY <1>5, <2>1, UpdateKeeps DEF FetchFailed
<1>6. CASE Transferred(w, s)
  <2> DEFINE new == [row[s] EXCEPT !.transfer = "OK"]
  <2>1. new \in Rows /\ Unapproving(row[s], new)
    BY <1>0, ColumnValues DEF Rows, Unapproving
  <2> QED
    BY <1>6, <2>1, UpdateKeeps DEF Transferred
<1>7. CASE Detect(w, s)
  BY <1>7, PassKeeps DEF Detect, Pass
<1>8. CASE Inspect(w, s)
  BY <1>8, PassKeeps DEF Inspect, Pass
<1>9. CASE RecordPlain(w, s)
  <2> DEFINE new == [row[s] EXCEPT !.encrypted = "no"]
  <2>1. new \in Rows /\ Unapproving(row[s], new)
    BY <1>0, ColumnValues DEF Rows, Unapproving
  <2> QED
    BY <1>9, <2>1, UpdateKeeps DEF RecordPlain
<1>10. CASE RecordEncrypted(w, s)
  <2>1. \A value \in {"yes", "null"} :
          /\ [row[s] EXCEPT !.encrypted = value] \in Rows
          /\ Unapproving(row[s], [row[s] EXCEPT !.encrypted = value])
    BY <1>0, ColumnValues DEF Rows, Unapproving
  <2> QED
    BY <1>10, <2>1, UpdateKeeps DEF RecordEncrypted
<1>11. CASE StartScanning(w, s)
  <2> DEFINE new == [row[s] EXCEPT !.status = "SCANNING"]
  <2>1. new \in Rows /\ Unapproving(row[s], new)
    BY <1>0, ColumnValues DEF Rows, Unapproving
  <2> QED
    BY <1>11, <2>1, UpdateKeeps DEF StartScanning
<1>12. CASE FindStagedFile(w, s)
  BY <1>12, PassKeeps DEF FindStagedFile, Pass
<1>13. CASE ScanFailed(w, s)
  <2> DEFINE new == [row[s] EXCEPT !.detail = "FAILED"]
  <2>1. new \in Rows /\ Unapproving(row[s], new)
    BY <1>0, ColumnValues DEF Rows, Unapproving
  <2> QED
    BY <1>13, <2>1, UpdateKeeps DEF ScanFailed
<1>14. CASE DeleteFailed(w, s)
  <2>1. Unapproving(row[s], row[s])
    BY DEF Unapproving
  <2> QED
    BY <1>0, <1>14, <2>1, UpdateKeeps DEF DeleteFailed, DisposeInfected
<1>15. CASE Quarantine(w, s)
  BY <1>15, PassKeeps DEF Quarantine, Pass
<1>16. CASE MoveToQuarantine(w, s)
  BY <1>16, PassKeeps DEF MoveToQuarantine
<1>17. CASE Moved(w, s)
  <2> DEFINE new == [row[s] EXCEPT !.cleanup = "OK", !.path = "quarantine"]
  <2>1. new \in Rows /\ Unapproving(row[s], new)
    BY <1>0, ColumnValues DEF Rows, Unapproving
  <2> QED
    BY <1>17, <2>1, UpdateKeeps DEF Moved
<1>18. CASE RecordRaised(w, s)
  <2>1. Failed(row[s]) \in Rows /\ Unapproving(row[s], Failed(row[s]))
    BY <1>0, FailedType DEF Failed, Unapproving, Rows
  <2> QED
    BY <1>18, <2>1, UpdateKeeps DEF RecordRaised
<1>19. CASE Scanned(w, s)
  <2> DEFINE new == [row[s] EXCEPT !.detail = "OK"]
  <2>1. new \in Rows /\ Unapproving(row[s], new)
    BY <1>0, ColumnValues DEF Rows, Unapproving
  <2> QED
    BY <1>19, <2>1, UpdateKeeps DEF Scanned
<1> QED
  BY <1>1, <1>2, <1>3, <1>4, <1>5, <1>6, <1>7, <1>8, <1>9, <1>10, <1>11, <1>12,
     <1>13, <1>14, <1>15, <1>16, <1>17, <1>18, <1>19 DEF UndecisiveStep

(* The thread of s is at a step of its own and no other thread runs s.     *)
LEMMA SoleRunner ==
  ASSUME TypeOK, VerdictInv, NEW w \in Workers, NEW s \in Scans, NEW from, NEW to,
         from # "idle", Goto("job", w, s, from, to)
  PROVE  /\ pc["job"][w][s] = from /\ pc'["job"][w][s] = to
         /\ \A v \in Workers \ {w} : pc["job"][v][s] = "idle" /\ pc'["job"][v][s] = "idle"
         /\ \A v \in Workers, x \in Scans \ {s} : pc'["job"][v][x] = pc["job"][v][x]
         /\ \A v \in Workers : pc'["sweep"][v] = pc["sweep"][v]
         /\ row[s].status \notin {"NONE", "RECEIVED"} /\ upload' = upload
         /\ upload[s] # "idle"
<1>1. /\ pc["job"][w][s] = from /\ pc'["job"][w][s] = to /\ upload' = upload
      /\ \A v \in Workers \ {w} : pc'["job"][v][s] = pc["job"][v][s]
      /\ \A v \in Workers, x \in Scans \ {s} : pc'["job"][v][x] = pc["job"][v][x]
      /\ \A v \in Workers : pc'["sweep"][v] = pc["sweep"][v]
  BY DEF Goto, TypeOK, Kinds
<1>2. \A v \in Workers \ {w} : pc["job"][v][s] = "idle"
  BY <1>1 DEF VerdictInv, OneRunnerPerScan, Running
<1>3. row[s].status \notin {"NONE", "RECEIVED"} /\ upload[s] # "idle"
  BY <1>1 DEF VerdictInv, UnclaimedIsUntouched, Kinds
<1> QED
  BY <1>1, <1>2, <1>3

(* New results in the hands of the job: nothing rests on the old ones.     *)
LEMMA RunScannersKeeps ==
  ASSUME TypeOK, VerdictInv, NEW w \in Workers, NEW s \in Scans, RunScanners(w, s)
  PROVE  VerdictInv'
<1>1. CASE \E found \in {staging[s], IF staging[s] = "absent" THEN "dir" ELSE staging[s]} :
             Touch("job", w, s, "containers", "scan_failed", found)
  BY <1>1, PassKeeps, StepNames DEF Touch, Undecisive, BeforeVerdict
<1>2. ASSUME NEW r \in Outcomes, raw' = [raw EXCEPT ![w][s] = r],
             Goto("job", w, s, "containers", "scanned"),
             UNCHANGED <<row, results, deleted>>
      PROVE  VerdictInv'
  <2>1. /\ pc["job"][w][s] = "containers" /\ pc'["job"][w][s] = "scanned"
        /\ \A v \in Workers \ {w} : pc["job"][v][s] = "idle" /\ pc'["job"][v][s] = "idle"
        /\ \A v \in Workers, x \in Scans \ {s} : pc'["job"][v][x] = pc["job"][v][x]
        /\ \A v \in Workers : pc'["sweep"][v] = pc["sweep"][v]
        /\ row[s].status \notin {"NONE", "RECEIVED"} /\ upload' = upload
    BY <1>2, SoleRunner
  <2>2. \A v \in Workers, x \in Scans : v # w \/ x # s => raw'[v][x] = raw[v][x]
    BY <1>2 DEF TypeOK
  <2>3. OneRunnerPerScan'
    BY <2>1 DEF VerdictInv, OneRunnerPerScan, Running
  <2>4. UnclaimedIsUntouched'
    BY <1>2, <2>1 DEF VerdictInv, UnclaimedIsUntouched, Kinds
  <2>5. UndecidedIsUntouched'
    BY <1>2, <2>1 DEF VerdictInv, UndecidedIsUntouched, BeforeVerdict
  <2>6. VerdictFromStored'
    BY <1>2, <2>1, <2>2 DEF VerdictInv, VerdictFromStored
  <2>7. AllowedNeedsEvidence' /\ DeletedNeedsDetection'
    BY <1>2 DEF VerdictInv, AllowedNeedsEvidence, DeletedNeedsDetection
  <2> QED
    BY <2>3, <2>4, <2>5, <2>6, <2>7 DEF VerdictInv
<1> QED
  BY <1>1, <1>2 DEF RunScanners

(* What is stored is what the job holds, and it is storable.               *)
LEMMA InsertResultsKeeps ==
  ASSUME TypeOK, VerdictInv, NEW w \in Workers, NEW s \in Scans, InsertResults(w, s)
  PROVE  VerdictInv'
<1>1. CASE Pass("job", w, s, "results", "raised")
  BY <1>1, PassKeeps, StepNames DEF Pass, Undecisive, BeforeVerdict
<1>2. ASSUME Storable(raw[w][s]), Goto("job", w, s, "results", "verdict"),
             results' = [results EXCEPT ![s] = raw[w][s]],
             UNCHANGED <<row, deleted, raw>>
      PROVE  VerdictInv'
  <2>1. /\ pc["job"][w][s] = "results" /\ pc'["job"][w][s] = "verdict"
        /\ \A v \in Workers \ {w} : pc["job"][v][s] = "idle" /\ pc'["job"][v][s] = "idle"
        /\ \A v \in Workers, x \in Scans \ {s} : pc'["job"][v][x] = pc["job"][v][x]
        /\ \A v \in Workers : pc'["sweep"][v] = pc["sweep"][v]
        /\ row[s].status \notin {"NONE", "RECEIVED"} /\ upload' = upload
    BY <1>2, SoleRunner
  <2>2. /\ results'[s] = raw[w][s]
        /\ \A x \in Scans \ {s} : results'[x] = results[x]
    BY <1>2 DEF TypeOK
  <2>3. row[s].allowed # "yes" /\ ~deleted[s]
    BY <2>1 DEF VerdictInv, UndecidedIsUntouched, BeforeVerdict
  <2>4. OneRunnerPerScan'
    BY <2>1 DEF VerdictInv, OneRunnerPerScan, Running
  <2>5. UnclaimedIsUntouched'
    BY <1>2, <2>1 DEF VerdictInv, UnclaimedIsUntouched, Kinds
  <2>6. UndecidedIsUntouched'
    BY <1>2, <2>1, <2>3 DEF VerdictInv, UndecidedIsUntouched
  <2>7. VerdictFromStored'
    BY <1>2, <2>1, <2>2 DEF VerdictInv, VerdictFromStored
  <2>8. AllowedNeedsEvidence' /\ DeletedNeedsDetection'
    BY <1>2, <2>2, <2>3 DEF VerdictInv, AllowedNeedsEvidence, DeletedNeedsDetection
  <2> QED
    BY <2>4, <2>5, <2>6, <2>7, <2>8 DEF VerdictInv
<1> QED
  BY <1>1, <1>2 DEF InsertResults

(* A decision that has evidence when it approves keeps the invariant.      *)
LEMMA DecisionKeeps ==
  ASSUME TypeOK, VerdictInv, NEW w \in Workers, NEW s \in Scans, NEW from, NEW to,
         from # "idle", to \notin BeforeVerdict,
         NEW new \in Rows, Update("job", w, s, from, to, new),
         new.status \notin {"NONE", "RECEIVED"},
         new.allowed = "yes" =>
           \/ Reports(results[s], "CLEAN") /\ Storable(results[s])
           \/ new.applied = "ALLOW",
         to = "delete" => Reports(results[s], "INFECTED")
  PROVE  VerdictInv'
<1>1. /\ pc["job"][w][s] = from /\ pc'["job"][w][s] = to
      /\ \A v \in Workers \ {w} : pc["job"][v][s] = "idle" /\ pc'["job"][v][s] = "idle"
      /\ \A v \in Workers, x \in Scans \ {s} : pc'["job"][v][x] = pc["job"][v][x]
      /\ \A v \in Workers : pc'["sweep"][v] = pc["sweep"][v]
      /\ row[s].status \notin {"NONE", "RECEIVED"} /\ upload' = upload
      /\ upload[s] # "idle"
  BY SoleRunner DEF Update
<1>2. /\ row'[s] = new /\ \A x \in Scans \ {s} : row'[x] = row[x]
      /\ UNCHANGED <<results, deleted, raw>>
  BY DEF Update, TypeOK
<1>3. OneRunnerPerScan'
  BY <1>1 DEF VerdictInv, OneRunnerPerScan, Running
<1>4. UnclaimedIsUntouched'
  BY <1>1, <1>2 DEF VerdictInv, UnclaimedIsUntouched, Kinds
<1>5. UndecidedIsUntouched'
  BY <1>1, <1>2 DEF VerdictInv, UndecidedIsUntouched, BeforeVerdict
<1>6. VerdictFromStored'
  BY <1>1, <1>2 DEF VerdictInv, VerdictFromStored, BeforeVerdict
<1>7. AllowedNeedsEvidence' /\ DeletedNeedsDetection'
  BY <1>2 DEF VerdictInv, AllowedNeedsEvidence, DeletedNeedsDetection
<1> QED
  BY <1>3, <1>4, <1>5, <1>6, <1>7 DEF VerdictInv

(* The encrypted-file policy approves only as ALLOW, which is recorded.    *)
LEMMA DecideEncryptedKeeps ==
  ASSUME TypeOK, VerdictInv, NEW w \in Workers, NEW s \in Scans, DecideEncrypted(w, s)
  PROVE  VerdictInv'
<1> PICK p \in EncryptedPolicies :
      Update("job", w, s, "decide",
             IF ApplyEncryptedPolicy(p).quarantine THEN "quarantine" ELSE "cleanup",
             [row[s] EXCEPT !.status = ApplyEncryptedPolicy(p).status,
                            !.allowed = Answer(ApplyEncryptedPolicy(p).allowed),
                            !.applied = p])
  BY DEF DecideEncrypted
<1> DEFINE new == [row[s] EXCEPT !.status = ApplyEncryptedPolicy(p).status,
                                 !.allowed = Answer(ApplyEncryptedPolicy(p).allowed),
                                 !.applied = p]
           to == IF ApplyEncryptedPolicy(p).quarantine THEN "quarantine" ELSE "cleanup"
<1>1. /\ ApplyEncryptedPolicy(p).status = "ENCRYPTED"
      /\ Answer(ApplyEncryptedPolicy(p).allowed) \in Flags
      /\ Answer(ApplyEncryptedPolicy(p).allowed) = "yes" => p = "ALLOW"
      /\ p \in Applied
  BY ColumnValues DEF ApplyEncryptedPolicy, Answer, Applied
<1>2. "ENCRYPTED" \in Statuses /\ row[s] \in Rows
  BY ColumnValues DEF TypeOK
<1>3. /\ new \in Rows /\ new.status = "ENCRYPTED" /\ new.applied = p
      /\ new.allowed = Answer(ApplyEncryptedPolicy(p).allowed)
  BY <1>1, <1>2 DEF Rows
<1>4. to \notin BeforeVerdict /\ to # "delete"
  BY DEF BeforeVerdict
<1>5. Update("job", w, s, "decide", to, new)
  OBVIOUS
<1> HIDE DEF new, to
<1> QED
  BY <1>1, <1>3, <1>4, <1>5, DecisionKeeps

(* The verdict on the stored results rests on one of them.                 *)
LEMMA RecordVerdictKeeps ==
  ASSUME TypeOK, VerdictInv, NEW w \in Workers, NEW s \in Scans, RecordVerdict(w, s)
  PROVE  VerdictInv'
<1> PICK p \in Aggregations, to \in {"delete", "quarantine", "cleanup"} :
      /\ to = "delete" => AggregateScanResults(raw[w][s], p).status = "INFECTED"
      /\ Update("job", w, s, "verdict", to,
                [row[s] EXCEPT
                   !.status = AggregateScanResults(raw[w][s], p).status,
                   !.allowed = Answer(AggregateScanResults(raw[w][s], p).allowed)])
  BY DEF RecordVerdict, DisposeInfected
<1> DEFINE verdict == AggregateScanResults(raw[w][s], p)
           new == [row[s] EXCEPT !.status = verdict.status,
                                 !.allowed = Answer(verdict.allowed)]
<1>1. raw[w][s] \in Seq(Status) /\ results[s] = raw[w][s] /\ Storable(results[s])
  BY RawType DEF Update, Goto, VerdictInv, VerdictFromStored
<1>2. raw[w][s] \in Seq(ReportedStatus)
  BY <1>1 DEF Storable
<1>3. verdict.status \in ReportedStatus /\ Answer(verdict.allowed) \in Flags
  BY <1>1, VerdictType, ColumnValues DEF Answer
<1>4. verdict.allowed => Reports(results[s], "CLEAN")
  BY <1>1, <1>2, ApprovalIsReported
<1>5. verdict.status = "INFECTED" => Reports(results[s], "INFECTED")
  BY <1>1, InfectedIsReported
<1>6. /\ new \in Rows /\ new.status = verdict.status
      /\ new.allowed = Answer(verdict.allowed)
  <2>1. row[s] \in Rows /\ verdict.status \in Statuses
    BY <1>3, ColumnValues DEF TypeOK, ReportedStatus
  <2> HIDE DEF verdict
  <2> QED
    BY <1>3, <2>1 DEF Rows
<1>7. new.status \notin {"NONE", "RECEIVED"} /\ (new.allowed = "yes" => verdict.allowed)
  BY <1>3, <1>6 DEF ReportedStatus, Answer
<1>8. to \notin BeforeVerdict
  BY DEF BeforeVerdict
<1>9. /\ new.allowed = "yes" =>
           \/ Reports(results[s], "CLEAN") /\ Storable(results[s])
           \/ new.applied = "ALLOW"
      /\ to = "delete" => Reports(results[s], "INFECTED")
  BY <1>1, <1>4, <1>5, <1>7
<1> HIDE DEF new, verdict
<1> QED
  BY <1>6, <1>7, <1>8, <1>9, DecisionKeeps DEF new, verdict

(* The deletion follows a stored INFECTED result.                          *)
LEMMA DeleteSourceKeeps ==
  ASSUME TypeOK, VerdictInv, NEW w \in Workers, NEW s \in Scans, DeleteSource(w, s)
  PROVE  VerdictInv'
<1> PICK to \in {DisposeInfected, "delete_failed"} :
      /\ Goto("job", w, s, "delete", to)
      /\ UNCHANGED <<row, results, raw>>
      /\ \A x \in Scans \ {s} : deleted'[x] = deleted[x]
  BY DEF DeleteSource, TypeOK
<1>1. to \notin BeforeVerdict /\ to # "delete"
  BY DEF BeforeVerdict, DisposeInfected
<1>2. /\ pc["job"][w][s] = "delete" /\ pc'["job"][w][s] = to
      /\ \A v \in Workers \ {w} : pc["job"][v][s] = "idle" /\ pc'["job"][v][s] = "idle"
      /\ \A v \in Workers, x \in Scans \ {s} : pc'["job"][v][x] = pc["job"][v][x]
      /\ \A v \in Workers : pc'["sweep"][v] = pc["sweep"][v]
      /\ row[s].status \notin {"NONE", "RECEIVED"} /\ upload' = upload
      /\ upload[s] # "idle"
  BY SoleRunner
<1>3. Reports(results[s], "INFECTED")
  BY <1>2 DEF VerdictInv, VerdictFromStored
<1>4. OneRunnerPerScan'
  BY <1>2 DEF VerdictInv, OneRunnerPerScan, Running
<1>5. UnclaimedIsUntouched'
  BY <1>2 DEF VerdictInv, UnclaimedIsUntouched, Kinds
<1>6. UndecidedIsUntouched'
  BY <1>1, <1>2 DEF VerdictInv, UndecidedIsUntouched, BeforeVerdict
<1>7. VerdictFromStored'
  BY <1>1, <1>2 DEF VerdictInv, VerdictFromStored, BeforeVerdict
<1>8. AllowedNeedsEvidence' /\ DeletedNeedsDetection'
  BY <1>3 DEF VerdictInv, AllowedNeedsEvidence, DeletedNeedsDetection
<1> QED
  BY <1>4, <1>5, <1>6, <1>7, <1>8 DEF VerdictInv

(* A failing database call decides nothing.                                *)
LEMMA RaiseKeeps ==
  ASSUME TypeOK, VerdictInv, NEW k \in Kinds, NEW w \in Workers, NEW s \in Scans,
         Raise(k, w, s)
  PROVE  VerdictInv'
<1> DEFINE to == IF k = "job" /\ pc[k][w][s] # "raised" THEN "raised" ELSE "idle"
<1>1. Undecisive(k, pc[k][w][s], to)
  BY DEF Raise, NeverRaises, Undecisive, BeforeVerdict
<1>2. Goto(k, w, s, pc[k][w][s], to) /\ UNCHANGED <<row, results, raw, deleted>>
  BY DEF Raise
<1> QED
  BY <1>1, <1>2, PassKeeps

-----------------------------------------------------------------------------
(* Nothing is approved, deleted or running at first.                       *)
LEMMA VerdictInit == Init => VerdictInv
BY DEF Init, NoRow, VerdictInv, OneRunnerPerScan, Running, UnclaimedIsUntouched,
       UndecidedIsUntouched, BeforeVerdict, VerdictFromStored, AllowedNeedsEvidence,
       DeletedNeedsDetection, Kinds

(* Every step of the system keeps the invariant.                           *)
LEMMA VerdictStep == TypeOK /\ VerdictInv /\ [Next]_vars => VerdictInv'
<1> SUFFICES ASSUME TypeOK, VerdictInv, [Next]_vars PROVE VerdictInv'
  OBVIOUS
<1>1. CASE Next
  <2>1. ASSUME NEW s \in Scans, SubmitStep(s) \/ Expire(s) PROVE VerdictInv'
    BY <2>1, SubmissionKeeps
  <2>2. CASE ApiCrash
    <3> PICK s \in Scans : TRUE
      BY <2>2 DEF ApiCrash
    <3> QED
      BY <2>2, SubmissionKeeps
  <2>3. ASSUME NEW w \in Workers, Sweep(w) \/ WorkerCrash(w) PROVE VerdictInv'
    BY <2>3, MainLoopKeeps
  <2>4. ASSUME NEW w \in Workers, NEW s \in Scans, Claim(w, s) \/ ClaimLost(w, s)
        PROVE  VerdictInv'
    BY <2>4, MainLoopKeeps
  <2>5. ASSUME NEW w \in Workers, NEW s \in Scans, JobStep(w, s) PROVE VerdictInv'
    BY <2>5, UndecisiveKeeps, DecideEncryptedKeeps, RunScannersKeeps,
       InsertResultsKeeps, RecordVerdictKeeps, DeleteSourceKeeps, CleanupKeeps,
       StepNames DEF JobStep, UndecisiveStep
  <2>6. ASSUME NEW w \in Workers, NEW s \in Scans, CleanupStep("sweep", w, s)
        PROVE  VerdictInv'
    BY <2>6, CleanupKeeps, StepNames
  <2>7. ASSUME NEW w \in Workers, NEW s \in Scans, NEW k \in Kinds, Raise(k, w, s)
        PROVE  VerdictInv'
    BY <2>7, RaiseKeeps
  <2> QED
    BY <1>1, <2>1, <2>2, <2>3, <2>4, <2>5, <2>6, <2>7 DEF Next
<1>2. CASE UNCHANGED vars
  BY <1>2 DEF vars, VerdictInv, OneRunnerPerScan, Running, UnclaimedIsUntouched,
              UndecidedIsUntouched, VerdictFromStored, AllowedNeedsEvidence,
              DeletedNeedsDetection
<1> QED
  BY <1>1, <1>2

(* The invariant holds in every reachable state.                           *)
LEMMA VerdictInvariant == Spec => []VerdictInv
BY VerdictInit, VerdictStep, TypeCorrect, PTL DEF Spec

(* No two worker processes run the same scan, however many there are.      *)
THEOREM ScanHasOneRunner == Spec => []OneRunnerPerScan
<1>1. VerdictInv => OneRunnerPerScan
  BY DEF VerdictInv
<1> QED
  BY <1>1, VerdictInvariant, PTL

(* An approval always rests on stored results of which one is CLEAN or on  *)
(* an explicit ALLOW policy, whatever raises, crashes or is swept.         *)
THEOREM ApprovalHasEvidence == Spec => []AllowedNeedsEvidence
<1>1. VerdictInv => AllowedNeedsEvidence
  BY DEF VerdictInv
<1> QED
  BY <1>1, VerdictInvariant, PTL

(* The source of a file is deleted only with an INFECTED result stored.    *)
THEOREM DeletionHasDetection == Spec => []DeletedNeedsDetection
<1>1. VerdictInv => DeletedNeedsDetection
  BY DEF VerdictInv
<1> QED
  BY <1>1, VerdictInvariant, PTL
=============================================================================
