---------------------------- MODULE ScanPipeline ----------------------------
(***************************************************************************)
(* The life of a scan from its row in PostgreSQL to its verdict and the    *)
(* disposal of its staged copy: the upload endpoint that writes the row    *)
(* and the file, the worker processes that claim rows and run              *)
(* process_scan in a thread pool, and the stale-job sweep of each worker's *)
(* main thread.  Every database call is a transaction of its own and every *)
(* filesystem call and playbook run a step of its own, so all the          *)
(* interleavings of uploads, jobs, sweeps and crashes are behaviours.      *)
(*                                                                         *)
(* pc["job"][w][s] is where worker w's pool thread for scan s is in        *)
(* process_scan, pc["sweep"][w][s] where w's main thread is in             *)
(* force_fail_stale for s; "idle" is neither.                              *)
(***************************************************************************)
EXTENDS Policy

CONSTANTS
  Scans,               \* scan ids
  Locked,              \* the ones whose file detect_encryption does not call plain
  Modes,               \* transfer modes in use: ansible_fetch, direct_upload
  Workers,             \* worker processes
  Concurrency,         \* settings.worker_concurrency
  RetainInfected,      \* settings.retain_infected_copy
  Aggregations,        \* aggregation policies a profile may have
  Outcomes,            \* scan_results lists the scan playbook may return
  LifetimeCoversJobs,  \* no live job is older than staging_max_lifetime_seconds
  MaxFaults            \* bound: process crashes and failing database calls

ASSUME ScansAssumption ==
  Locked \subseteq Scans /\ Modes \subseteq {"ansible_fetch", "direct_upload"}
ASSUME OutcomesAssumption ==
  Outcomes \subseteq Seq(Status) /\ <<>> \notin Outcomes
ASSUME SettingsAssumption ==
  /\ Concurrency \in Nat \ {0}
  /\ {RetainInfected, LifetimeCoversJobs} \subseteq BOOLEAN
  /\ Aggregations \subseteq AggregationPolicies
ASSUME BoundAssumption == MaxFaults \in Nat

VARIABLES
  row,          \* the scans table
  results,      \* the scan_results rows of a scan, in profile order
  staging,      \* STAGING_BASE/<scan_id>: absent, a directory, holding the input file
  quarantined,  \* QUARANTINE_BASE/<scan_id> exists
  deleted,      \* the delete playbook removed the Nextcloud source
  upload,       \* where the request that submits the scan is
  pc,           \* where the worker threads are
  raw,          \* the job's local scan_results list
  expired,      \* started_at is older than staging_max_lifetime_seconds
  faults        \* crashes and failed database calls so far

vars == <<row, results, staging, quarantined, deleted, upload, pc, raw, expired,
          faults>>
disk == <<staging, quarantined, deleted>>

InProgress == {"VALIDATING", "TRANSFERRING", "SCANNING"}
Overlayable == {"CLEAN", "INFECTED", "ERROR", "ENCRYPTED"}
Terminal == Overlayable \cup {"CLEANUP_FAILED"}
Kinds == {"job", "sweep"}

NoRow == [status |-> "NONE", mode |-> "null", allowed |-> "null",
          transfer |-> "PENDING", detail |-> "PENDING", encrypted |-> "null",
          applied |-> "null", cleanup |-> "PENDING", path |-> "null"]

Init ==
  /\ row = [s \in Scans |-> NoRow]
  /\ results = [s \in Scans |-> <<>>]
  /\ staging = [s \in Scans |-> "absent"]
  /\ quarantined = [s \in Scans |-> FALSE]
  /\ deleted = [s \in Scans |-> FALSE]
  /\ upload = [s \in Scans |-> "idle"]
  /\ pc = [k \in Kinds |-> [w \in Workers |-> [s \in Scans |-> "idle"]]]
  /\ raw = [w \in Workers |-> [s \in Scans |-> <<>>]]
  /\ expired = [s \in Scans |-> FALSE]
  /\ faults = 0

Running(w, s) == pc["job"][w][s] # "idle"
MainThreadFree(w) == \A s \in Scans : pc["sweep"][w][s] = "idle"
Fetched(s) == row[s].mode = "ansible_fetch"

-----------------------------------------------------------------------------
(* Submission: api/main.py, api/routes_upload.py, api/panel                *)

(* create_scan: the columns it sets, the others have their defaults *)
CreateScan(s, mode) ==
  row' = [row EXCEPT ![s].status = "RECEIVED", ![s].mode = mode]

(* submit_scan, and the panel's rescan of an older scan, whose mode it     *)
(* copies: both only insert a row.  A re-scanned direct upload has no file. *)
InsertRowOnly(s) ==
  /\ upload[s] = "idle"
  /\ \E mode \in Modes : CreateScan(s, mode)
  /\ upload' = [upload EXCEPT ![s] = "done"]
  /\ UNCHANGED <<results, disk, pc, raw, expired, faults>>

UploadStep(s, from, to) ==
  /\ upload[s] = from
  /\ upload' = [upload EXCEPT ![s] = to]
  /\ UNCHANGED <<results, quarantined, deleted, pc, raw, expired>>

(* stream_upload_to_staging has written the upload to a directory of its   *)
(* own and its type is acceptable.  From here on a worker can see the row. *)
UploadInsert(s) ==
  /\ "direct_upload" \in Modes
  /\ UploadStep(s, "idle", "inserted")
  /\ CreateScan(s, "direct_upload")
  /\ UNCHANGED <<staging, faults>>

(* finalize_staged_upload: mkdir, replace and update_scan *)
UploadMakeDir(s) ==
  /\ UploadStep(s, "inserted", "made")
  /\ staging' = [staging EXCEPT ![s] = IF @ = "absent" THEN "dir" ELSE @]
  /\ UNCHANGED <<row, faults>>

UploadPlaceFile(s) ==
  /\ \/ /\ staging[s] # "absent"
        /\ UploadStep(s, "made", "placed")
        /\ staging' = [staging EXCEPT ![s] = "file"]
     \/ /\ UploadStep(s, "made", "failed")       \* input/ may be gone again
        /\ UNCHANGED staging
  /\ UNCHANGED <<row, faults>>

UploadRecordPath(s) ==
  /\ UploadStep(s, "placed", "done")
  /\ row' = [row EXCEPT ![s].path = "staging"]
  /\ UNCHANGED <<staging, faults>>

UploadRecordPathFails(s) ==
  /\ faults < MaxFaults
  /\ UploadStep(s, "placed", "failed")
  /\ faults' = faults + 1
  /\ UNCHANGED <<row, staging>>

ApiCrash ==
  /\ faults < MaxFaults
  /\ \E s \in Scans : upload[s] \notin {"idle", "done", "failed"}
  /\ upload' = [s \in Scans |->
                  IF upload[s] \in {"idle", "done"} THEN upload[s] ELSE "failed"]
  /\ faults' = faults + 1
  /\ UNCHANGED <<row, results, disk, pc, raw, expired>>

-----------------------------------------------------------------------------
(* A worker's main loop                                                    *)

(* Mutation: the claim does not mark the row it returns. *)
ClaimWithoutMark(w, s) ==
  /\ MainThreadFree(w)
  /\ Cardinality({x \in Scans : Running(w, x)}) < Concurrency
  /\ row[s].status = "RECEIVED" /\ ~Running(w, s)
  /\ pc' = [pc EXCEPT !["job"][w][s] = "resolve"]
  /\ UNCHANGED <<row, results, disk, upload, raw, expired, faults>>

(* Mutation: failed scans are claimed again, as a retry. *)
ClaimAlsoFailed(w, s) ==
  /\ MainThreadFree(w)
  /\ Cardinality({x \in Scans : Running(w, x)}) < Concurrency
  /\ row[s].status \in {"RECEIVED", "ERROR"} /\ ~Running(w, s)
  /\ row' = [row EXCEPT ![s].status = "VALIDATING"]
  /\ pc' = [pc EXCEPT !["job"][w][s] = "resolve"]
  /\ UNCHANGED <<results, disk, upload, raw, expired, faults>>

(* claim_next_scan; which RECEIVED row is oldest, and which rows another   *)
(* worker has locked, is left open                                         *)
Claim(w, s) ==
  /\ MainThreadFree(w)
  /\ Cardinality({x \in Scans : Running(w, x)}) < Concurrency
  /\ row[s].status = "RECEIVED"
  /\ row' = [row EXCEPT ![s].status = "VALIDATING"]
  /\ pc' = [pc EXCEPT !["job"][w][s] = "resolve"]
  /\ UNCHANGED <<results, disk, upload, raw, expired, faults>>

(* the claim commits but the connection breaks before the row is returned *)
ClaimLost(w, s) ==
  /\ MainThreadFree(w)
  /\ Cardinality({x \in Scans : Running(w, x)}) < Concurrency
  /\ row[s].status = "RECEIVED"
  /\ faults < MaxFaults
  /\ row' = [row EXCEPT ![s].status = "VALIDATING"]
  /\ faults' = faults + 1
  /\ UNCHANGED <<results, disk, upload, pc, raw, expired>>

(* Mutation: the query forgets the age of the job. *)
SweepAnyAge(w) ==
  LET stale == {s \in Scans : row[s].status \in InProgress}
  IN  /\ MainThreadFree(w)
      /\ stale # {}
      /\ pc' = [pc EXCEPT !["sweep"][w] =
                  [s \in Scans |-> IF s \in stale THEN "fail" ELSE "idle"]]
      /\ UNCHANGED <<row, results, disk, upload, raw, expired, faults>>

(* Mutation: the query forgets one of the in-progress states. *)
SweepNotValidating(w) ==
  LET stale == {s \in Scans : /\ row[s].status \in InProgress \ {"VALIDATING"}
                              /\ expired[s]}
  IN  /\ MainThreadFree(w)
      /\ stale # {}
      /\ pc' = [pc EXCEPT !["sweep"][w] =
                  [s \in Scans |-> IF s \in stale THEN "fail" ELSE "idle"]]
      /\ UNCHANGED <<row, results, disk, upload, raw, expired, faults>>

(* _sweep_stale works through the rows one query returned, in that order *)
Sweep(w) ==
  LET stale == {s \in Scans : row[s].status \in InProgress /\ expired[s]}
  IN  /\ MainThreadFree(w)
      /\ stale # {}
      /\ pc' = [pc EXCEPT !["sweep"][w] =
                  [s \in Scans |-> IF s \in stale THEN "fail" ELSE "idle"]]
      /\ UNCHANGED <<row, results, disk, upload, raw, expired, faults>>

Expire(s) ==
  /\ row[s].status \in InProgress /\ ~expired[s]
  /\ LifetimeCoversJobs => \A w \in Workers : ~Running(w, s)
  /\ expired' = [expired EXCEPT ![s] = TRUE]
  /\ UNCHANGED <<row, results, disk, upload, pc, raw, faults>>

WorkerCrash(w) ==
  /\ faults < MaxFaults
  /\ \E s \in Scans : Running(w, s) \/ pc["sweep"][w][s] # "idle"
  /\ pc' = [k \in Kinds |-> [pc[k] EXCEPT ![w] = [s \in Scans |-> "idle"]]]
  /\ raw' = [raw EXCEPT ![w] = [s \in Scans |-> <<>>]]
  /\ faults' = faults + 1
  /\ UNCHANGED <<row, results, disk, upload, expired>>

-----------------------------------------------------------------------------
(* Steps of process_scan and force_fail_stale                              *)

Goto(k, w, s, from, to) ==
  /\ pc[k][w][s] = from
  /\ pc' = [pc EXCEPT ![k][w][s] = to]
  /\ UNCHANGED <<upload, expired>>

(* a step that reads the database or nothing *)
Pass(k, w, s, from, to) ==
  /\ Goto(k, w, s, from, to)
  /\ UNCHANGED <<row, results, staging, quarantined, deleted, raw, faults>>

(* a step that is one update_scan *)
Update(k, w, s, from, to, new) ==
  /\ Goto(k, w, s, from, to)
  /\ row' = [row EXCEPT ![s] = new]
  /\ UNCHANGED <<results, staging, quarantined, deleted, raw, faults>>

(* a step that leaves the staging directory as `found' *)
Touch(k, w, s, from, to, found) ==
  /\ Goto(k, w, s, from, to)
  /\ staging' = [staging EXCEPT ![s] = found]
  /\ UNCHANGED <<row, results, quarantined, deleted, raw, faults>>

(* no profile, or a profile without enabled scanners: _fail and return *)
ResolveProfile(w, s) ==
  \/ Pass("job", w, s, "resolve", "refuse")
  \/ Pass("job", w, s, "resolve", "begin")

Failed(r) == [r EXCEPT !.status = "ERROR", !.allowed = "no"]

Refuse(w, s) == Update("job", w, s, "refuse", "idle", Failed(row[s]))

Begin(w, s) ==
  Update("job", w, s, "begin", IF Fetched(s) THEN "fetch" ELSE "transferred",
         [row[s] EXCEPT !.status = "TRANSFERRING", !.path = "staging",
                        !.transfer = "PENDING"])

(* _run_fetch_stage: the playbook may stop, or be stopped, at any point *)
Fetch(w, s) ==
  \/ \E found \in {staging[s], "dir", "file"}, to \in {"fetch_failed", "fetch_mismatch"} :
       Touch("job", w, s, "fetch", to, found)
  \/ Touch("job", w, s, "fetch", "transferred", "file")

(* Mutation: a transfer status the column does not have. *)
FetchFailedUnknown(w, s) ==
  Update("job", w, s, IF pc["job"][w][s] = "fetch_failed" THEN "fetch_failed"
                      ELSE "fetch_mismatch", "fail",
         [row[s] EXCEPT !.transfer = "MISMATCH", !.detail = "SKIPPED"])

FetchFailed(w, s) ==
  \/ Update("job", w, s, "fetch_failed", "fail",
            [row[s] EXCEPT !.transfer = "FAILED", !.detail = "SKIPPED"])
  \/ Update("job", w, s, "fetch_mismatch", "fail",
            [row[s] EXCEPT !.transfer = "OK", !.detail = "SKIPPED"])

Transferred(w, s) ==
  Update("job", w, s, "transferred", "detect", [row[s] EXCEPT !.transfer = "OK"])

(* Mutation: `if detection.encrypted' instead of `is not False'. *)
InspectOnlyConfirmed(w, s) ==
  \/ Pass("job", w, s, "inspect", "plain")
  \/ s \in Locked /\ Pass("job", w, s, "inspect", "encrypted")

(* staged_path.exists(), then detect_encryption opens the file *)
Detect(w, s) ==
  Pass("job", w, s, "detect", IF staging[s] = "file" THEN "inspect" ELSE "scanning")

(* it may raise, on a damaged archive or when the file vanishes half way *)
Inspect(w, s) ==
  \/ Pass("job", w, s, "inspect",
          IF staging[s] = "file" /\ s \notin Locked THEN "plain" ELSE "encrypted")
  \/ Pass("job", w, s, "inspect", "raised")

RecordPlain(w, s) ==
  Update("job", w, s, "plain", "scanning", [row[s] EXCEPT !.encrypted = "no"])

RecordEncrypted(w, s) ==
  \E value \in {"yes", "null"} :
    Update("job", w, s, "encrypted", "decide", [row[s] EXCEPT !.encrypted = value])

Answer(allowed) == IF allowed THEN "yes" ELSE "no"

DecideEncrypted(w, s) ==
  \E p \in EncryptedPolicies :
    LET d == ApplyEncryptedPolicy(p)
    IN  Update("job", w, s, "decide", IF d.quarantine THEN "quarantine" ELSE "cleanup",
               [row[s] EXCEPT !.status = d.status, !.allowed = Answer(d.allowed),
                              !.applied = p])

StartScanning(w, s) ==
  Update("job", w, s, "scanning", "scan", [row[s] EXCEPT !.status = "SCANNING"])

(* _run_scan_stage: scan_uploaded_file.yml looks for the staged file,      *)
(* makes the output directory, fixes the file's owner and runs the         *)
(* scanners, whose own failures are results like any other                 *)
FindStagedFile(w, s) ==
  \/ staging[s] = "file" /\ Pass("job", w, s, "scan", "containers")
  \/ Pass("job", w, s, "scan", "scan_failed")

RunScanners(w, s) ==
  \/ \E found \in {staging[s], IF staging[s] = "absent" THEN "dir" ELSE staging[s]} :
       Touch("job", w, s, "containers", "scan_failed", found)
  \/ /\ \E r \in Outcomes : raw' = [raw EXCEPT ![w][s] = r]
     /\ Goto("job", w, s, "containers", "scanned")
     /\ UNCHANGED <<row, results, staging, quarantined, deleted, faults>>

(* the run failed, or its hash is not the expected one *)
ScanFailed(w, s) ==
  Update("job", w, s, "scan_failed", "fail", [row[s] EXCEPT !.detail = "FAILED"])

Scanned(w, s) ==
  Update("job", w, s, "scanned", "results", [row[s] EXCEPT !.detail = "OK"])

(* the CHECK constraint of scan_results.status *)
Storable(list) == \A i \in DOMAIN list : list[i] \in ReportedStatus

(* Mutation: scan_results takes whatever status a scanner reports. *)
InsertResultsUnchecked(w, s) ==
  /\ Goto("job", w, s, "results", "verdict")
  /\ results' = [results EXCEPT ![s] = raw[w][s]]
  /\ UNCHANGED <<row, staging, quarantined, deleted, raw, faults>>

(* Mutation: the results are not stored before the verdict. *)
InsertResultsLater(w, s) == Pass("job", w, s, "results", "verdict")

(* create_scan_results: one transaction, which a single status that is not *)
(* storable makes raise                                                    *)
InsertResults(w, s) ==
  IF Storable(raw[w][s])
  THEN /\ Goto("job", w, s, "results", "verdict")
       /\ results' = [results EXCEPT ![s] = raw[w][s]]
       /\ UNCHANGED <<row, staging, quarantined, deleted, raw, faults>>
  ELSE Pass("job", w, s, "results", "raised")

(* Mutation: retain_infected_copy is ignored. *)
NeverRetain == "cleanup"

(* _cleanup_or_quarantine_infected_staging *)
DisposeInfected == IF RetainInfected THEN "quarantine" ELSE "cleanup"

(* Mutation: the source is deleted before the verdict is stored. *)
DeleteBeforeVerdict(w, s) ==
  \E p \in Aggregations :
    LET d == AggregateScanResults(raw[w][s], p)
        new == [row[s] EXCEPT !.status = d.status, !.allowed = Answer(d.allowed)]
    IN  IF d.status = "INFECTED" /\ Fetched(s)
        THEN Pass("job", w, s, "verdict", "delete")
        ELSE Update("job", w, s, "verdict", "cleanup", new)

RecordVerdict(w, s) ==
  \E p \in Aggregations :
    LET d == AggregateScanResults(raw[w][s], p)
        to == CASE d.status = "INFECTED" /\ Fetched(s) -> "delete"
                [] d.status = "INFECTED" /\ ~Fetched(s) -> DisposeInfected
                [] OTHER -> "cleanup"
    IN  Update("job", w, s, "verdict", to,
               [row[s] EXCEPT !.status = d.status, !.allowed = Answer(d.allowed)])

(* _delete_infected_source; a run that is cut off may have deleted the file *)
DeleteSource(w, s) ==
  \E gone \in {deleted[s], TRUE}, to \in {DisposeInfected, "delete_failed"} :
    /\ Goto("job", w, s, "delete", to)
    /\ deleted' = [deleted EXCEPT ![s] = gone]
    /\ UNCHANGED <<row, results, staging, quarantined, raw, faults>>

DeleteFailed(w, s) ==
  Update("job", w, s, "delete_failed", DisposeInfected, row[s])

(* _quarantine_staging *)
Quarantine(w, s) ==
  Pass("job", w, s, "quarantine", IF staging[s] = "absent" THEN "removed" ELSE "move")

(* Mutation: a failed move takes the directory away all the same. *)
MoveOrLose(w, s) ==
  /\ \/ /\ staging[s] # "absent"
        /\ Goto("job", w, s, "move", "moved")
        /\ quarantined' = [quarantined EXCEPT ![s] = TRUE]
     \/ Goto("job", w, s, "move", "remove_failed") /\ UNCHANGED quarantined
  /\ staging' = [staging EXCEPT ![s] = "absent"]
  /\ UNCHANGED <<row, results, deleted, raw, faults>>

MoveToQuarantine(w, s) ==
  /\ \/ /\ staging[s] # "absent"
        /\ \E to \in {"moved", "remove_failed"} : Goto("job", w, s, "move", to)
        /\ staging' = [staging EXCEPT ![s] = "absent"]
        /\ quarantined' = [quarantined EXCEPT ![s] = TRUE]
     \/ /\ Goto("job", w, s, "move", "remove_failed")
        /\ UNCHANGED <<staging, quarantined>>
  /\ UNCHANGED <<row, results, deleted, raw, faults>>

(* Mutation: the new place of the directory is not recorded. *)
MovedUnrecorded(w, s) ==
  Update("job", w, s, "moved", "idle", [row[s] EXCEPT !.cleanup = "OK"])

Moved(w, s) ==
  Update("job", w, s, "moved", "idle",
         [row[s] EXCEPT !.cleanup = "OK", !.path = "quarantine"])

(* Mutation: the sweep forgets the staging directory. *)
FailOnly(k, w, s) ==
  Update(k, w, s, "fail", IF k = "sweep" THEN "idle" ELSE "cleanup", Failed(row[s]))

(* _fail, first step of force_fail_stale and last of the failing stages.   *)
(* A sweep takes its rows one after the other.                             *)
Fail(k, w, s) ==
  /\ k = "sweep" => \A x \in Scans \ {s} : pc[k][w][x] \in {"idle", "fail"}
  /\ Update(k, w, s, "fail", "cleanup", Failed(row[s]))

(* _cleanup_staging *)
Cleanup(k, w, s) ==
  Pass(k, w, s, "cleanup", IF staging[s] = "absent" THEN "removed" ELSE "remove")

(* Mutation: rmtree(..., ignore_errors=True). *)
RemoveIgnoringErrors(k, w, s) ==
  \E found \in {"absent", staging[s]} : Touch(k, w, s, "remove", "removed", found)

Remove(k, w, s) ==
  \/ staging[s] # "absent" /\ Touch(k, w, s, "remove", "removed", "absent")
  \/ \E found \in {staging[s], IF staging[s] = "file" THEN "dir" ELSE staging[s]} :
       Touch(k, w, s, "remove", "remove_failed", found)

Removed(k, w, s) ==
  Update(k, w, s, "removed", "idle", [row[s] EXCEPT !.cleanup = "OK"])

RemoveFailed(k, w, s) ==
  Update(k, w, s, "remove_failed", "overlay", [row[s] EXCEPT !.cleanup = "FAILED"])

(* _mark_cleanup_failed_if_terminal reads the row, then writes it *)
Overlay(k, w, s) ==
  Pass(k, w, s, "overlay",
       IF row[s].status \in Overlayable THEN "overlay_write" ELSE "idle")

OverlayWrite(k, w, s) ==
  Update(k, w, s, "overlay_write", "idle", [row[s] EXCEPT !.status = "CLEANUP_FAILED"])

(* A database call fails, or run_playbook cannot write its run directory:  *)
(* _process_one catches the exception of a job and records it, _sweep_stale *)
(* goes on to its next row.                                                *)
NeverRaises ==
  {"idle", "detect", "inspect", "containers", "quarantine", "move", "cleanup", "remove"}

Raise(k, w, s) ==
  /\ faults < MaxFaults
  /\ pc[k][w][s] \notin NeverRaises
  /\ Goto(k, w, s, pc[k][w][s],
          IF k = "job" /\ pc[k][w][s] # "raised" THEN "raised" ELSE "idle")
  /\ faults' = faults + 1
  /\ UNCHANGED <<row, results, staging, quarantined, deleted, raw>>

RecordRaised(w, s) == Update("job", w, s, "raised", "idle", Failed(row[s]))

-----------------------------------------------------------------------------
CleanupStep(k, w, s) ==
  \/ Fail(k, w, s) \/ Cleanup(k, w, s) \/ Remove(k, w, s) \/ Removed(k, w, s)
  \/ RemoveFailed(k, w, s) \/ Overlay(k, w, s) \/ OverlayWrite(k, w, s)

JobStep(w, s) ==
  \/ ResolveProfile(w, s) \/ Refuse(w, s) \/ Begin(w, s)
  \/ Fetch(w, s) \/ FetchFailed(w, s) \/ Transferred(w, s)
  \/ Detect(w, s) \/ Inspect(w, s) \/ RecordPlain(w, s)
  \/ RecordEncrypted(w, s) \/ DecideEncrypted(w, s) \/ StartScanning(w, s)
  \/ FindStagedFile(w, s) \/ RunScanners(w, s) \/ ScanFailed(w, s)
  \/ Scanned(w, s) \/ InsertResults(w, s) \/ RecordVerdict(w, s)
  \/ DeleteSource(w, s) \/ DeleteFailed(w, s)
  \/ Quarantine(w, s) \/ MoveToQuarantine(w, s) \/ Moved(w, s)
  \/ CleanupStep("job", w, s) \/ RecordRaised(w, s)

SubmitStep(s) ==
  \/ InsertRowOnly(s) \/ UploadInsert(s) \/ UploadMakeDir(s)
  \/ UploadPlaceFile(s) \/ UploadRecordPath(s) \/ UploadRecordPathFails(s)

Next ==
  \/ ApiCrash
  \/ \E s \in Scans : SubmitStep(s) \/ Expire(s)
  \/ \E w \in Workers : Sweep(w) \/ WorkerCrash(w)
  \/ \E w \in Workers, s \in Scans :
       \/ Claim(w, s) \/ ClaimLost(w, s)
       \/ JobStep(w, s) \/ CleanupStep("sweep", w, s)
       \/ \E k \in Kinds : Raise(k, w, s)

Spec == Init /\ [][Next]_vars

(***************************************************************************)
(* Properties                                                              *)
(***************************************************************************)

Statuses == {"NONE", "RECEIVED"} \cup InProgress \cup Terminal
SweepSteps == {"idle", "fail", "cleanup", "remove", "removed", "remove_failed",
               "overlay", "overlay_write"}
JobSteps == SweepSteps \cup
  {"resolve", "refuse", "begin", "fetch", "fetch_failed", "fetch_mismatch",
   "transferred", "detect", "inspect", "plain", "encrypted", "decide", "scanning",
   "scan", "containers", "scan_failed", "scanned", "results", "verdict", "delete",
   "delete_failed", "quarantine", "move", "moved", "raised"}
Flags == {"null", "yes", "no"}                  \* a nullable boolean column
Transfers == {"PENDING", "OK", "FAILED"}
Details == {"PENDING", "OK", "FAILED", "SKIPPED"}
Cleanups == {"PENDING", "OK", "FAILED"}
Paths == {"null", "staging", "quarantine"}
Applied == {"null"} \cup EncryptedPolicies
ModeColumn == {"null"} \cup Modes
Rows == [status : Statuses, mode : ModeColumn, allowed : Flags, transfer : Transfers,
         detail : Details, encrypted : Flags, applied : Applied, cleanup : Cleanups,
         path : Paths]

(* Every column, file, thread and counter has its type. *)
TypeOK ==
  /\ row \in [Scans -> Rows]
  /\ results \in [Scans -> Outcomes \cup {<<>>}]
  /\ staging \in [Scans -> {"absent", "dir", "file"}]
  /\ {quarantined, deleted, expired} \subseteq [Scans -> BOOLEAN]
  /\ upload \in [Scans -> {"idle", "inserted", "made", "placed", "done", "failed"}]
  /\ pc \in [Kinds -> [Workers -> [Scans -> JobSteps]]]
  /\ \A w \in Workers, s \in Scans : pc["sweep"][w][s] \in SweepSteps
  /\ raw \in [Workers -> [Scans -> Outcomes \cup {<<>>}]]
  /\ faults \in 0 .. MaxFaults

(* FOR UPDATE SKIP LOCKED and the RECEIVED -> VALIDATING update let no two *)
(* worker processes run the same scan (claim_next_scan's docstring).       *)
OneRunnerPerScan ==
  \A s \in Scans : \A v, w \in Workers :
    Running(v, s) /\ Running(w, s) => v = w

(* The row says the file may be used only if rows of scan_results, all     *)
(* with a legal status and one of them CLEAN, were committed before, or    *)
(* the administrator's ALLOW policy for encrypted files was recorded.  A   *)
(* scanner that reports an unknown status must not get a file accepted,    *)
(* and no exception, crash or sweep may leave such an answer behind.       *)
AllowedNeedsEvidence ==
  \A s \in Scans : row[s].allowed = "yes" =>
    \/ Reports(results[s], "CLEAN") /\ Storable(results[s])
    \/ row[s].applied = "ALLOW"

(* The user's file on the Nextcloud host is gone only if a scanner's       *)
(* INFECTED result for it is in scan_results, whatever became of the job.  *)
DeletedNeedsDetection ==
  \A s \in Scans : deleted[s] => Reports(results[s], "INFECTED")

(* README "Deletion happens only after the INFECTED verdict + its hash are *)
(* durably in PostgreSQL": at the moment of the deletion the row says so.  *)
SourceDeletedOnVerdict ==
  [][\A s \in Scans : deleted'[s] /\ ~deleted[s] =>
       row[s].status = "INFECTED" /\ row[s].allowed = "no"]_vars

(* A denial is not reconsidered: a client that polled a refusal never sees *)
(* the same scan accepted later, and a job that was reported aborted does  *)
(* not go on to accept the file.                                           *)
DenialIsFinal ==
  [][\A s \in Scans : row[s].allowed = "no" => row'[s].allowed # "yes"]_vars

(* apply_encrypted_policy: "encrypted files skip scanner execution         *)
(* entirely", the policy is the whole verdict.                             *)
EncryptedSkipsScanners ==
  \A s \in Locked :
    results[s] = <<>> /\ row[s].status \notin {"CLEAN", "INFECTED"}

(* cleanup_status OK is a statement about the disk: the staging directory  *)
(* is gone, and stays gone.                                                *)
CleanupOkMeansGone ==
  \A s \in Scans : row[s].cleanup = "OK" => staging[s] = "absent"

(* A staged file that policy wants kept - quarantined or marked for review *)
(* when encrypted, retained when infected - leaves staging only by moving  *)
(* to the quarantine.                                                      *)
MustKeep(s) ==
  \/ row[s].applied \in {"QUARANTINE", "MARK_FOR_REVIEW"}
  \/ RetainInfected /\ row[s].status = "INFECTED"

EvidenceKept ==
  [][\A s \in Scans : MustKeep(s) /\ staging[s] = "file" =>
       staging'[s] = "file" \/ quarantined'[s]]_vars

(* The administrator finds the evidence: whatever failed, crashed or was   *)
(* overlaid on the way, a scan whose row calls for its file to be kept has *)
(* the file, still in staging or in the quarantine...                      *)
EvidenceExists ==
  \A s \in Scans : MustKeep(s) => staging[s] = "file" \/ quarantined[s]

(* ...and when the row says that cleanup is done (cleanup_status OK), its  *)
(* staging_path is where the file is, in the quarantine.                   *)
EvidenceIsShown ==
  \A s \in Scans : MustKeep(s) /\ row[s].cleanup = "OK" =>
    row[s].path = "quarantine" /\ quarantined[s]

(* The pipeline implements AdmissionGate: what a row answers.              *)
PhaseOf(r) ==
  CASE r.status = "NONE" -> "absent"
    [] r.status = "RECEIVED" -> "queued"
    [] r.status \in InProgress -> "working"
    [] r.status \in Terminal /\ r.allowed = "yes" -> "allowed"
    [] OTHER -> "denied"

phase == [s \in Scans |-> PhaseOf(row[s])]

Gate == INSTANCE AdmissionGate WITH phase <- phase
ImplementsGate == Gate!Spec

(* Liveness.  A pool thread's steps end because every playbook run has a   *)
(* timeout; the main loop polls and sweeps for ever and docker-compose     *)
(* restarts a crashed worker; time passes.  Nothing is asked of uploads.   *)
Fairness ==
  /\ \A s \in Scans : WF_vars(Expire(s))
  /\ \A w \in Workers : WF_vars(Sweep(w))
  /\ \A w \in Workers, s \in Scans :
       /\ WF_vars(Claim(w, s))
       /\ WF_vars(JobStep(w, s))
       /\ WF_vars(CleanupStep("sweep", w, s))

FairSpec == Spec /\ Fairness

(* Every scan a worker can see is answered, also when the worker that took *)
(* it crashes or cannot write its failure: the sweep answers for it.       *)
EveryScanIsAnswered ==
  \A s \in Scans : row[s].status \in {"RECEIVED"} \cup InProgress ~> row[s].status \in Terminal

(* The sweep "forces any job stuck in an in-progress state (e.g. from a    *)
(* crashed worker process) to ERROR and reclaims its staging directory":   *)
(* a scan in progress that no thread works on any more loses its staged    *)
(* copy, or the failure to remove it is recorded, unless one more crash or *)
(* failed database call comes in between.                                  *)
Orphaned(s) == row[s].status \in InProgress /\ \A w \in Workers : ~Running(w, s)
Reclaimed(s) == staging[s] = "absent" \/ row[s].cleanup = "FAILED"

OrphanReclaimed ==
  \A s \in Scans : \A n \in 0 .. MaxFaults :
    Orphaned(s) /\ faults = n ~> Reclaimed(s) \/ faults > n

(* "Never left to grow unbounded" (find_stale_processing_scans): every     *)
(* staged copy is removed in the end, or its removal was tried and is      *)
(* recorded as failed for the administrator to see.                        *)
StagingReclaimed == \A s \in Scans : staging[s] # "absent" ~> Reclaimed(s)
=============================================================================
