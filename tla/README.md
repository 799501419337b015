# Safe Cloud: TLA+ models, model checking and proofs

Safe Cloud receives files (from a Nextcloud upload hook, from programs through an
upload API, from an administrator's browser), has them examined by one or more
virus scanners in containers, and answers whether each file may be used.  This
directory holds TLA+ modules of the code that decides that answer, the TLC
configurations that check them, and theorems checked by TLAPS.

Paths below are relative to `src/`.

## 1. The system

    hooks, API clients, panel                 worker process(es)
            |                                 main thread      pool threads
            v                                 claim, sweep     process_scan
    api/main.py                                     |               |
    api/routes_upload.py  --- scans row --->  PostgreSQL  <---------+
    api/panel/upload.py   --- staged file ->  staging volume <------+
                                                                    |
                              playbooks: fetch, scan (scanner containers), delete

The API processes (`uvicorn --workers 2`) and one or more worker processes share nothing
but the database and the staging volume.  There is no queue, no lock beyond `FOR UPDATE SKIP LOCKED`
in the claim, and no transaction that spans two calls of `api/db.py`.

| Component | State it keeps | Operations | What makes it correct |
|---|---|---|---|
| Submission: `api/main.py`, `api/routes_upload.py`, `api/panel/upload.py`, rescan in `api/panel/routes.py` | the new `scans` row, `upload-tmp-*`, `STAGING_BASE/<scan_id>/input` | `submit_scan`, `upload_file`, `finalize_staged_upload`, `rescan` | a worker never judges an upload it does not see |
| Worker: `api/worker.py` | futures in flight, time of the last sweep | `main`, `_process_one`, `_sweep_stale` | one runner per scan; every scan is answered; no orphan stays |
| Pipeline: `api/scanner.py` | `scans` columns, `scan_results`, staging and quarantine directories, the Nextcloud source | `process_scan` and its stages, `force_fail_stale`, cleanup and quarantine | fail closed: no acceptance without stored evidence, no deletion without a detection, evidence kept |
| Policies: `api/policy.py` | none | `aggregate_scan_results`, `apply_encrypted_policy`, `resolve_encrypted_policy` | only an explicit CLEAN accepts; the policies are ordered |
| Encryption detection: `api/encryption_detect.py` | none | `detect_encryption`, `detect_mime_type` | unknown is not "plain" |
| Database: `api/db.py`, `db/migrations` | all tables | one transaction per function | claims are exclusive; constraints hold |
| Ansible: `api/ansible_runner.py`, `ansible/` | run directories, result files | `run_playbook`, four playbooks | a run ends within its timeout; failures are reported |
| Clients: `scripts/*.sh` | none | submit, poll, act | deny unless told otherwise |
| Administration: `api/panel/admin_*.py`, `api/scanners.py` | profiles, scanners, encrypted-file policies, API clients, settings | create, edit, delete, rotate, revoke | pinning and the default profile survive edits |
| Access: `api/auth_apikey.py`, `api/panel/auth.py`, `api/panel/csrf.py`, `api/security.py`, `RateLimiter` in `api/main.py` | in-process counters, sessions | authenticate, rate limit, lock out, validate | windows count right at their edges |
| `api/config.py`, logging, templates, images | settings read at start | - | not modelled |

Hard behaviours: row and file of an upload appear in two steps; several workers
poll the same table; the sweep and a live job write the same row and directory
without looking at each other; every database call, filesystem call and
playbook can fail or be the last thing a process does; a playbook can time out
after it did its work; scanners report strings nobody checks until PostgreSQL
does; administrators edit the tables a request or a job has already read half of;
a form is saved in several transactions; a user saves the file between the steps of
the playbook that hashes, copies or deletes it; a script gives up, loses an answer or
asks again while its scan goes on; limits are counted in the memory of each API process.  `PROJECT.json` lists these as hazards, each at its line, with the
properties that cover it.

## 2. Modules

| Module | What it is |
|---|---|
| `Policy` | `api/policy.py` as pure operators on sequences of statuses |
| `PolicyDecision` | one scan's results as `run_one_scanner.yml` appends them, with the decision at every length |
| `AdmissionGate` | abstract specification: queued once, taken once, answered; a denial is for ever |
| `ScanPipeline` | submission, workers, `process_scan`, `force_fail_stale`; extends `Policy`, implements `AdmissionGate` |
| `Administration` | the configuration tables and the panel handlers that edit them, transaction by transaction |
| `UploadAdmission` | API and panel uploads and rescans, from the key to the scanners that judge them; extends `Administration`, implements `AdmissionGate` |
| `FileFlow` | one file between the user, a client script, the endpoints, the job and the playbooks; implements `AdmissionGate` |
| `Limits` | the request limit, the upload limit and the login lockout |
| `MCPolicy`, `MCScanPipeline`, `MCUploadAdmission`, `MCFileFlow`, `MCLimits` | instances for TLC |
| `PolicyLemmas`, `PolicyDecisionProofs` | lemmas about `Policy`; the theorems of `PolicyDecision` |
| `ScanPipelineProofs` | type correctness of `ScanPipeline`, the verdict invariant and what follows from it |
| `ScanGateProofs`, `ScanStagingProofs` | each on top of the one before: the refinement of `AdmissionGate`, and what rows say of the staging directories |
| `UploadAdmissionProofs` | type correctness, the invariant of the tables and of the requests, what follows from it, and the refinement of `AdmissionGate` |
| `FileFlowProofs` | type correctness, the invariant of a scan and its script, and the refinement of `AdmissionGate` |
| `LimitsProofs` | type correctness of the windows, the invariant of what a process remembers, and the bounds that follow from it |

`ScanPipeline` has the whole of `process_scan` and nothing of the tables it reads;
`UploadAdmission` and `FileFlow` each have a reduced job, in which the table reads, or the
reads and writes of the file, are the steps that matter.  All three implement `AdmissionGate`, which is what ties
their jobs together.

### ScanPipeline and the code

| Variable | In the code |
|---|---|
| `row[s]` | the `scans` row: `status`, `transfer_mode` (`mode`), `allowed`, `transfer_status` (`transfer`), `scan_status_detail` (`detail`), `encrypted`, `encrypted_policy_applied` (`applied`), `cleanup_status` (`cleanup`), `staging_path` (`path`); status `"NONE"` is no row |
| `results[s]` | the committed `scan_results` rows, as their statuses in profile order |
| `staging[s]` | `STAGING_BASE/<scan_id>`: absent, a directory without the input file, with it |
| `quarantined[s]`, `deleted[s]` | the quarantine directory exists; the source on the Nextcloud host was removed by the delete playbook |
| `upload[s]` | the request that submits the scan, between the calls it makes |
| `pc["job"][w][s]`, `pc["sweep"][w][s]` | where worker `w`'s pool thread, or its main thread, is with scan `s` |
| `raw[w][s]` | the job's local list of scanner results |
| `expired[s]` | `started_at` is older than `staging_max_lifetime_seconds` |
| `faults` | crashes and failed database calls so far |

A step is one call that others can observe: one database transaction, one
filesystem operation, one playbook run (two for the scan playbook: finding the
file, running the containers).  A label of `pc` names the call that is
next, so `"verdict"` is "about to write the verdict".  `Update`, `Touch` and
`Pass` are the three shapes of a step: an `update_scan`, a change of the staging
directory, and a read.

- `Claim` is the claim query: a RECEIVED row, the concurrency limit, a free main
  thread.  Which row is oldest, and which rows another transaction has locked,
  is left open, so every order of claims is a behaviour.
- `Sweep` is the stale query of `_sweep_stale`.  The main thread is busy until it
  has been through all rows it got; it re-reads none of them.
- `Fetch`, `RunScanners` and `DeleteSource` have failing alternatives that leave any
  of the partial effects the playbook can have reached, also when it was cut off
  by its timeout.  Scanner failures are not playbook failures: the rescue
  block of `run_one_scanner.yml` makes them ERROR results.
- `Raise` is an exception in a database call, or while `run_playbook` writes
  its run directory.  A job goes to `_process_one`'s handler (`RecordRaised`),
  a sweep to its next row.  `Inspect` can raise without any fault: a damaged
  archive makes `_detect_zip` raise an exception it does not catch.
- `WorkerCrash` ends all threads of a worker; docker-compose starts it again with
  nothing in flight.  `ApiCrash` ends all requests in progress.
- Profiles and encrypted-file policies are read from tables an administrator can
  edit at any time: each read may return any of the values in use.  How the tables
  get these values is the subject of `Administration` and `UploadAdmission`.

Left out of the state because no property depends on it: threat names,
hashes (a mismatch is one of the failures of a stage), reasons, times other than
`expired`, audit rows, run directories, the `upload-tmp-*` directory of an
upload in progress (which `UploadAdmission` has).

### Administration, UploadAdmission and the code

| Variable | In the code |
|---|---|
| `scanner[x]`, `profile[p]` | `scanners.enabled`; `scanner_profiles` with `is_default` and its members; `"unborn"` and `"gone"` are the rows that are not there |
| `client[c]` | `api_clients`: enabled, the number of its key, the `scan.upload` permission (`may`), `scanner_profile_id` (`pin`); `contract` remembers the pin it was created with |
| `blocked` | whether `system_settings` refuses the type of the files that are uploaded |
| `retired` | history: the keys that were revoked or replaced |
| `form[a]` | the profile form panel request `a` is saving: which statement is next, and what the first of a pair of statements saw (`seen`): the members its `DELETE` took, or the defaults its `UPDATE` cleared |
| `req[r]` | the local variables of upload `r`: client, settings and profile as they were when it read them |
| `scan[r]` | the `scans` row and the local variables of its job; `kept`: its staged file was moved to the quarantine; `ofKept` (history): it is the rescan of one whose file was there when it was asked for |
| `tmp`, `input` | the requests whose `upload-tmp-*` directory exists, the scans whose staged input file exists |

- A step is one transaction, one statement of it where others can come in between, or one
  change of a directory.  Form validation, CSRF
  tokens and logins come before the first transaction and change nothing.
- `ProfileNew` and `ProfileEdit` commit the row; the members and the default follow in
  transactions of their own, and `SaveFails` may come instead of either.
  `ClearMembers` and `SaveMembers` are the `DELETE` and the `INSERT`s of
  `set_profile_scanners`: the `DELETE` takes the rows of its snapshot, so of two forms for
  one profile the second adds its members to those of the first; where they share a member the
  primary key refuses it (`ReplaceMembers`).  Rows deleted for another form
  first are not there to delete any more (`Unseen`).
  `ClearDefault` and `SaveDefault` are the two `UPDATE`s of `set_default_profile`: in READ
  COMMITTED the second process's first `UPDATE` may run before the first process commits,
  so what it clears is a snapshot; `MoveDefault` then meets the unique index.
- `RemoveAndEnd` is `_rmtree_quiet`: `rmtree(ignore_errors=True)` removes the directory, or
  leaves it without a word, and the request is answered either way.
- `Authenticate` is the only time a request reads the client row; the settings and
  the profile are read later, and compared with the file when the file is complete.
- `JobProfile` and `JobScanners` are the job's two queries.  The rest of the job is its
  verdict, which only a staged file and a scanner that ran can make CLEAN or INFECTED, and
  what becomes of the file: removed, or moved to the quarantine if it was detected and
  `RetainInfected`.  A cleanup or a move that fails is `ScanPipeline`'s.
- Deleting a profile sets the pins of clients and the profile of rows to NULL
  (`RemoveProfile`, `RowsLoseProfile`: `ON DELETE SET NULL`).

A slug stands for its profile and ids are never drawn twice.  Left out: the
encrypted-file policies (five rows saved in a transaction each; two
administrators can leave a mixture of their forms),
`audit_log`, the settings nothing reads, and read-only pages.

### FileFlow and the code

| Variable | In the code |
|---|---|
| `source` | the content of the user's file on the Nextcloud host |
| `client[c]` | one run of a script: hook or generic client, where it is, the content it hashed or sent, whether its deadline has passed, its exit code |
| `post[c]`, `reply[c]` | its POST in an API process; the response on its way |
| `row[c]`, `job[c]`, `copy[c]` | `status` and `allowed` of the scan it submitted; where the job is; the staged copy |
| `told`, `swapped`, `harmed` | history: the last `allowed` sent, whether the file was touched between its last hash and its removal, what was removed |

- A file is its content, so a sha256 is the content it is of.  What
  `detect_encryption` and the scanners say depends on the content only (`Locked`,
  `Detected`); scanners that fail are `JobFails`.
- The fetch playbook is two steps, hash and copy; the delete playbook is three: is
  the file there, does it still hash as scanned, remove.  The user may save or remove the file
  between any two.
- `PostFails` and `PollFails` are curl's timeouts, lost requests and responses, and
  responses that are not 200: the server side of the request may still happen.
  `PollTruncated` is a 200 whose body was cut off: the generic client does not look at curl's exit
  code in its poll loop, finds no status and ends with exit code 2.  The hook does look, and retries.
- `SyncAnswer` ends the wait of `_poll_until_terminal` with whatever the row says: a
  terminal row, or a deadline.
- `JobFails` is any failure of the job and the sweep's; `WorkerDies` is a death nobody cleans
  up after, which is possible once the row is terminal.  The proviso of `AdmissionGate` is part
  of the model: no live job outlasts the staging lifetime.

### Limits and the code

One key of one of the three windows: `hits[p]` is the set of calls process `p` remembers of it,
`passed` (history) the calls that were let through.  A call is its time, the
window that let it through and its number among those of the same time, so that equal times
in a deque are different calls.  A window is the memory of a process from one emptying
to the next (`fresh` counts them): a restart empties every window, the right password that of the
login.  `limit` is a setting for uploads and
constant otherwise.  `Counts` has the comparison of each window: a request that is
exactly 60 s old still counts, a failed login that is exactly `_LOCKOUT_SECONDS`
old does not.  No handler awaits between the look at the window and the
entry in it, so a call is one step.

## 3. What TLC checks

Every property has a mutant: a plausible bug in a mapped definition, written
next to it in the module, with which TLC finds the property violated under the same
configuration.

| Run | Instance | Shows |
|---|---|---|
| `pipeline_hostile` | 1 scan in either mode, 2 workers, one fault, a sweep may overtake a live job | `TypeOK`, `OneRunnerPerScan`, `AllowedNeedsEvidence`, `DeletedNeedsDetection` hold with nothing assumed about timing |
| `pipeline_covered` | 2 fetched scans, one encrypted, 1 worker with two pool threads, two policies, one fault; no live job is older than the lifetime | `EncryptedSkipsScanners`, `CleanupOkMeansGone`, `SourceDeletedOnVerdict`, `DenialIsFinal`, `EvidenceKept`, `EvidenceExists`, `EvidenceIsShown`, and `ImplementsGate` |
| `pipeline_live` | 1 scan in either mode, 2 workers, two faults, fairness | `EveryScanIsAnswered`, `OrphanReclaimed` |
| `policy_reported` | all lists of up to 5 legal statuses, all policies | `AllowedIsExplicitlyClean`, `StricterPoliciesAllowLess`, `OrderIsIrrelevant`, `DetectionSticks` |
| `upload_admission` | 2 profiles, 1 scanner, 1 client, 1 upload, 1 rescan, 2 panel requests in 2 API processes | `TypeOK`, `OneDefault`, `DefaultSurvivesEdits`, `PinHolds`, `AcceptedByAScanner`, `TmpOnlyAfterFailure`, `RetiredKeysStayOut` |
| `file_flow` | 1 run of either script, 3 contents (clean, infected, locked), 3 edits by the user, fairness | `TypeOK`, `AcceptedWasJudged`, `DeletesOnlyDetected`, `AnswersOnlyHarden`, `ImplementsGate`, `EveryScriptEnds` |
| `limits` | 2 processes, limits 0 to 2, a window of 2 ticks, 4 ticks, 1 restart or login of each process | `TypeOK`, `WindowBounded`, `RefusalsAreEarned` |
| `encrypted_upload` | 1 encrypted direct upload, no fault | violation: see below |
| `staged_file_lost` | 1 fetched scan, no fault, fairness | violation |
| `swept_job_goes_on` | 1 fetched scan, no fault, a job may outlast the lifetime | violation |
| `pinned_profile_deleted` | as `upload_admission`, 1 panel request | violation |
| `rescan_of_evidence` | as `upload_admission`, no panel request, `RetainInfected` | violation |

**Bounds.**  `MaxFaults` bounds crashes and failed calls: one is
enough to interrupt every step of a job, two to interrupt also what answers for it
(the handler, the sweep).  Jobs of different scans share no state but the
concurrency limit and the main thread's sweep list, so one scan with two workers
covers the contention for a scan, two scans with one worker the sharing of a
worker.  Result lists: with one scanner CLEAN, INFECTED and a status that is
none of the three; with two the pairs on which the policies disagree and one
that has a good and an unstorable status.  Scanner order and longer lists are
covered by `policy_reported`: five scanners are more than twice the three
outcomes the policies tell apart.

`MaxChanges` bounds the panel requests.  Two are what it takes for two forms to
interleave, for a deletion to overtake a form, for a rotation to follow a revocation,
and for an edit to fall on each side of a request's read; a profile to be pinned to
and one to fall back to, or to make the default, are all the profiles a
property compares.  At the start there are the seeded default profile and at least one scanner, as the
migration leaves them.  The theorems of section 4 cover any number of each.  `MaxEdits`
bounds how often the user touches the file: three edits put a
content back after the hash and change it again before the removal.  One
script run is enough because runs share nothing but the file, and what another run's
deletion does to the file, an edit does; the theorems cover any number.
In `limits` the clock stops (`MaxTime`) after two whole windows, so every alignment of a
window with calls at both of its ends occurs, and `MaxFresh` bounds
restarts and successful logins of a process; `LimitsProofs` has neither bound's value.  Keys and counters do not influence each other.

**Deadlock** is not checked: when every scan is answered and nobody submits another
one, the system rests; and where a bound ends administrators, users or the clock, so do the
models.

**`LifetimeCoversJobs`** says that no live job is older than
`STAGING_MAX_LIFETIME_SECONDS`.  With the default settings this is so
(fetch 120 s, scan 120 s, deletion 60 s against 3600 s), but no code enforces it; the safety
invariants of `pipeline_hostile` therefore do without it.  `DenialIsFinal`,
`SourceDeletedOnVerdict`, `ImplementsGate`, `CleanupOkMeansGone` and the three evidence properties
need it.

**Fairness** (`FairSpec`): a worker's main loop polls and sweeps for ever and
is restarted when it dies, so `Claim` and `Sweep` are weakly fair; every step of a
thread ends, playbooks by their timeout, so job and sweep steps are weakly
fair; time passes, so a row in progress gets old (`Expire`).  Nothing is asked of
clients, of uploads or of faults.

In `FileFlow` the steps of a script are weakly fair, since a script runs; so are the failure
of a POST that is not answered (`curl --max-time`), that of a poll, and
the deadline of the poll loop.  Nothing is asked of the network, the API or the workers:
`EveryScriptEnds` holds although any of them may stop for ever.

### Where the code and its documentation disagree

- `encrypted_upload`: `upload_file` inserts the row before it moves the file into place. A
  worker that claims it in between sees no file, takes that for "not encrypted",
  and by the time the scanners run the file is there: an encrypted file is decided by
  scanners, against the policy's docstring.
- `staged_file_lost`: a job that raises once its file is staged is recorded as ERROR
  and its staged copy stays for ever: the sweep looks at rows in progress only.
- `swept_job_goes_on`: "was aborted" is not what happens to a job that is still
  running when the sweep fails it; it may later accept the file.  Not
  reachable with the default timeouts.
- `pinned_profile_deleted`: README.md says a pinned client "can NEVER use a different
  profile".  Deleting the profile unpins it, and uploads already
  queued fall back to the default profile as well.  `PinHolds` is what does hold.
- `rescan_of_evidence`: the rescan handler's comment calls a rescan of a direct upload
  "meaningful while evidence was retained" and says that it correctly fails otherwise.
  The rescan is a new row with a new staging directory that nobody fills; nothing reads the
  quarantine of the original, so it fails in either case.

And these, which have no run of their own:

- `README.md` section 7 calls the deletion of infected files TOCTOU-safe: "re-stat, re-hash, compare
  to the SCANNED hash, abort on any mismatch".  The playbook compares the hash and
  removes the file in two tasks, and what the user saves in between is removed unscanned.
  `DeletesOnlyDetected` exempts that window, and says that it is the only one.
- The docstring of `aggregate_scan_results` says that only an explicit CLEAN result makes it
  return `allowed=True`.  ALL_MUST_PASS and FIRST_DETECTION call a list clean also when it
  only holds statuses they do not know (`NoDetection` and `NoDetectionAndNoOutage` of `Policy`).
  The CHECK constraint on `scan_results.status` keeps such a list from becoming a verdict, which
  is why `AllowedNeedsEvidence` holds in the pipeline all the same, why one of its
  mutants is the missing constraint, and why `policy_reported` and `FailClosed` are about legal statuses.
- The docstring of `stream_upload_to_staging` says that "the temp dir is always cleaned up
  before raising".  It is tried: a failing removal is ignored, and a full disk raises without one.

Behaviour worth knowing that no document denies, and that the models show or allow:

- The fetch playbook hashes and copies in two tasks, but the hash of what was
  scanned is compared again before the verdict.
- Two profile forms saved at once can leave a profile with the scanners of both.
- `_scan_status_response` answers `allowed: null` for ENCRYPTED, which the hook takes for a
  scan in progress: it polls until its deadline and then refuses.
- `curl --max-time 30` of the generic client is shorter than the 60 s it asks the
  server to wait: a slow scan is a failed upload to the script, and goes on.
- Each of two API processes has windows of its own, and a restart empties them: what
  is let through in a window is up to the limit for each process and once more
  for each restart.
- A locked direct upload can be judged by scanners instead of by the
  encrypted-file policy (`encrypted_upload`), so `AcceptedWasJudged` promises less for locked contents.
- `finalize_staged_upload` records the staging path last.  A job that has claimed, scanned and
  quarantined the upload by then has its record of the quarantine overwritten, and the
  panel's scan page shows a directory that is gone.  `EvidenceExists` holds all the same.
- A request that raises or whose process dies leaves its `upload-tmp-*` directory, and so
  does an answered one whose removal fails: `_rmtree_quiet` ignores errors.  Nothing removes
  it later.  `TmpOnlyAfterFailure` says that there is no other way; the panel's upload has no
  handler for a failed insertion where the API's has one.
- The retention settings of the security form are stored and read by nothing; the
  `sweep_retention` a comment of the schema names does not exist.

## 4. What is proved

For every set of scans, workers, uploads, rescans, clients, profiles, scanners,
API processes, script runs and contents, every concurrency, setting and scanner behaviour, every
number of faults, panel requests and edits, and every limit and length of window, from the
assumptions named in the modules only:

| Theorem | Module | Statement |
|---|---|---|
| `TypeCorrect` | `ScanPipelineProofs` | `Spec => []TypeOK` |
| `ScanHasOneRunner` | `ScanPipelineProofs` | `Spec => []OneRunnerPerScan` |
| `ApprovalHasEvidence` | `ScanPipelineProofs` | `Spec => []AllowedNeedsEvidence` |
| `DeletionHasDetection` | `ScanPipelineProofs` | `Spec => []DeletedNeedsDetection` |
| `PipelineImplementsGate` | `ScanGateProofs` | `Spec => ImplementsGate`, if `LifetimeCoversJobs` |
| `DenialStands` | `ScanGateProofs` | `Spec => DenialIsFinal`, if `LifetimeCoversJobs` |
| `DeletionFollowsVerdict` | `ScanGateProofs` | `Spec => SourceDeletedOnVerdict`, if `LifetimeCoversJobs` |
| `EvidenceIsKept` | `ScanStagingProofs` | `Spec => []EvidenceKept`, if `LifetimeCoversJobs` |
| `EvidenceIsSomewhere` | `ScanStagingProofs` | `Spec => []EvidenceExists`, likewise |
| `FetchedEvidenceIsShown` | `ScanStagingProofs` | the next one for every scan the pipeline fetches itself, also next to direct uploads, likewise |
| `EvidenceIsWhereShown` | `ScanStagingProofs` | `Spec => []EvidenceIsShown`, if `LifetimeCoversJobs` and nothing is uploaded directly |
| `FetchedScansAreTidy` | `ScanStagingProofs` | the next two for every scan the pipeline fetches itself, also next to direct uploads, likewise |
| `RecordedCleanupsHold` | `ScanStagingProofs` | `Spec => []CleanupOkMeansGone`, if `LifetimeCoversJobs` and nothing is uploaded directly |
| `EncryptedIsNotScanned` | `ScanStagingProofs` | `Spec => []EncryptedSkipsScanners`, likewise |
| `TypeCorrect` | `PolicyDecisionProofs` | `Spec => []TypeOK` for lists of any length |
| `FailClosed` | `PolicyDecisionProofs` | `AllowedIsExplicitlyClean`, if only legal statuses are reported |
| `PoliciesAreOrdered` | `PolicyDecisionProofs` | `StricterPoliciesAllowLess`, likewise |
| `OrderDoesNotMatter` | `PolicyDecisionProofs` | `Spec => []OrderIsIrrelevant`, for any statuses |
| `DetectionIsKept` | `PolicyDecisionProofs` | `DetectionSticks`, for any statuses |
| `TypeCorrect` | `UploadAdmissionProofs` | `Spec => []TypeOK` |
| `DefaultIsOne` | `UploadAdmissionProofs` | `Spec => []OneDefault` |
| `DefaultIsKept` | `UploadAdmissionProofs` | `Spec => []DefaultSurvivesEdits` |
| `PinnedJudges` | `UploadAdmissionProofs` | `Spec => []PinHolds` |
| `VerdictsAreEarned` | `UploadAdmissionProofs` | `Spec => []AcceptedByAScanner` |
| `RequestsCleanUp` | `UploadAdmissionProofs` | `Spec => []TmpOnlyAfterFailure` |
| `RetiredKeysOut` | `UploadAdmissionProofs` | `Spec => RetiredKeysStayOut` |
| `UploadImplementsGate` | `UploadAdmissionProofs` | `Spec => ImplementsGate` |
| `TypeCorrect` | `FileFlowProofs` | `Spec => []TypeOK` |
| `AcceptanceJudged` | `FileFlowProofs` | `Spec => []AcceptedWasJudged` |
| `DeletionDetected` | `FileFlowProofs` | `Spec => []DeletesOnlyDetected` |
| `AnswersHarden` | `FileFlowProofs` | `Spec => AnswersOnlyHarden` |
| `FlowImplementsGate` | `FileFlowProofs` | `Spec => ImplementsGate` |
| `TypeCorrect` | `LimitsProofs` | `Spec => []TypeOK` |
| `StretchesAreBounded` | `LimitsProofs` | `Spec => []WindowBounded` |
| `RefusalsCountWhatPassed` | `LimitsProofs` | `Spec => []RefusalsAreEarned` |
| `EveryCallCounts` | `LimitsProofs` | every call let through adds one to the history the last two speak of |

**The verdict invariant.**  None of the three verdict properties is inductive. What makes
them so is `VerdictInv`: `OneRunnerPerScan`; `UnclaimedIsUntouched` (a row that is still
RECEIVED, or not there, has no thread of either kind, no answer and
no deletion, so that the claim starts from nothing); `UndecidedIsUntouched` (a job before its
verdict has neither approved nor deleted anything);
`VerdictFromStored` (a job about to write the verdict holds in `raw` what is
stored in `results`, all of it storable; a job about to delete the source has an
INFECTED result stored); and the two properties.  The proof has one lemma per
action.  The policies enter through `PolicyLemmas`: an accepted list of
storable statuses contains CLEAN, an INFECTED decision needs an INFECTED
result.

**The timely invariant.**  The three theorems of `ScanGateProofs` are about the
order of answers, and need `LifetimeCoversJobs`: without it a sweep fails the
row of a live job, which may then write its verdict over the failure (the run
`swept_job_goes_on` shows the behaviour).  With it, `TimelyInv` says that
a scan with a job is not expired and a scan under sweep is, so that the two never meet
(`UnclaimedIsFresh`, `JobsAreFresh`, `SweepsAreStale`), and therefore what a job
believes of its row is true when it writes: the row of a job before its
verdict is in progress, a row in progress has no answer, and the row of a job about to
delete says INFECTED and not allowed (`UndecidedInProgress`,
`InProgressUnanswered`, `DeletingIsRecorded`).  `ThreadIsOrderly` proves once, for any
thread step that is `Lawful`, that the invariant is kept and that the row's phase makes a
step of the gate; the lemma of an action shows that the action is lawful.

**The invariant of an upload.**  `UploadAdmissionProofs!Inv` has two parts.
`TablesInv` is about the tables alone: retired keys are older than the client's key
or the client is revoked (`KeysInv`), a form is about a profile that exists or existed
(`FormsInv`, without which moving the default to a profile that never existed
would lose it), a client's pin is the profile it was promised or that profile is gone
(`PinsInv`), and the two properties of the default.  Only panel
requests can disturb it.  `RequestInv(r)` is about one request: the
promise goes from the client row to the request's copy, to the row, to the
profile the job uses, each time "kept or gone" (`PromiseKept`); the directory and the
staged file are where the request is, and a request that was answered has no directory left unless its
removal failed (`FilesInv`); a job past the scanner
query, and a verdict of CLEAN or INFECTED, has scanners (`VerdictInv`).  Panel requests run between its steps, and
the only thing the proof asks of them is `Lasting`: a profile that was there is never
unborn again and one that is gone stays gone.  So the proof has one lemma for
the tables, one for each kind of step of a request, and one for a request that only
watches (`BystanderKeeps`, and `LossKeeps` when its row loses its profile).  The
refinement needs one part of it: a request that has not inserted its row has none
(`FilesInv`), so that no insertion queues an answered row again.

**The invariant of a file's way.**  `FileFlowProofs!FlowInv` says of every scan which
steps its request, job and copy can be at together (`Placed`), that the
copy past the hash check, and what a verdict was written about, is the content
the script hashed or sent (`Fetched`, `Submitted`), that every response in
flight and every `told` agrees with a row that can only harden
(`Answered`, `Hardened`), and of the file that the playbook about to remove it looks at a
detected content, or somebody touched it (`FileInv`).

**The staging invariant.**  `ScanStagingProofs!StagingInv` goes on from `TimelyInv`, and
relates the staging directory to the step of the one thread that may touch it.
A thread that removes or moves a directory has answered its row
(`DisposalIsAnswered`), a job that is about to remove one not with a verdict whose evidence
policy wants kept (`RemovalIsDue`), and a scan old enough for the sweep has no
verdict (`ExpiredHasNoVerdict`).  That is enough for `EvidenceKept`, and holds for direct uploads too.  The other two properties are
false of direct uploads (`encrypted_upload` is the counterexample of one): their request goes on
writing after a worker has claimed the row.  So `FetchedInv(s)` is about a scan whose row
says that the pipeline fetches it: what the job believes of its directory at each of its steps
is so: after the transfer the file is there, after a removal nothing is, and only a file
that `detect_encryption` can call plain gets to the scanners.  TLC checked the invariant on the instances of the `pipeline` runs, with
`RETAIN_INFECTED` on and off and with both kinds of scan side by side, before it was proved.

`EvidenceKept` is about steps: nothing removes a file that a row wants kept.  That the file
is there when the row begins to want it is another matter, and so is what the row says
afterwards.  `PlaceInv` adds both: a job from the inspection, or from the start of the scanners, up to the move
(`Holding`) has the file (`HoldersHaveTheFile`), so a decision to keep it finds it; a row
that calls for evidence has it in staging or in the quarantine (`KeptIsSomewhere`), which is
`EvidenceExists`; and once the cleanup of a fetched scan is recorded as OK, the row names the quarantine
(`KeptIsShown`).  The last is false of direct uploads: `finalize_staged_upload` may record the
staging path after the job has moved the directory and recorded the quarantine.

**The invariant of a window.**  That a process has let no more than `limit` calls through
is a fact about its memory; `WindowBounded` is about the world.  `LimitsProofs!LimitsInv`
connects them: a process remembers of its current window nothing but calls
that were let through, and all of those that still count (`Remembered`, which is where
the comparison at the edge of the window matters); no call is later than now
or of a window not yet opened (`CallsArePast`); and no window has let through more than
`highest` calls in any stretch (`BudgetKept`).  When a call is let through, what its window let
through in a stretch that includes now still counts, and there is less of it than the
limit.  The bound for all windows of all processes is the pigeonhole principle (`AtMostPerKey`: a
finite set with at most `h` elements per key has at most `h` times as many
elements as there are keys), proved by an explicit injection since induction over sets is out of the
prover's reach.  `CallsAreNumbered` makes the history honest: a new call is never one that
is already there.

**Not proved, only model-checked:** liveness (`EveryScanIsAnswered`, `OrphanReclaimed`,
`EveryScriptEnds`), which is out of the prover's reach.  Every other property of a passing run is
stated by a theorem of the table.

**Proved, and not model-checked:** `ImplementsGate` of `UploadAdmission`.  Its run would take
twice as long with it; the other two modules that implement `AdmissionGate` are checked as well.

## 5. Plan

Done: the pipeline, the policies, submission, clients and the file they are about,
administration, limits, and the theorems above.  Left, in this order:

1. The encrypted-file form as two administrators' transactions.
2. `normalize_and_validate_path` of `api/security.py` on bounded sequences of path
   segments: what it returns is below the allowed root, and normalising twice
   is normalising once.
3. Processes that outlive their playbook: the container of a scan playbook that was cut
   off, against the cleanup of its staging directory.

## 6. Not modelled

- The ClamAV wrapper (`docker/scan.sh`) and what the container module makes of its exit
  code: `ScanPipeline` takes every status a wrapper can write, and others, as an
  outcome, and any scanner failure as an ERROR result.
- `api/security.py` and `api/scanners.py`: pure checks of strings without state; to the
  models a check passes or the request is refused.
- `api/config.py`: settings read once at start, here constants.  `api/logging_config.py`,
  `api/models.py`, templates: wording and layout.
- Sessions, CSRF tokens, password hashing, TLS, virus signatures and their updater, images.
- The bytes behind `detect_encryption` and `detect_mime_type`.
- The encrypted-file form, the audit log, and the read-only lists and pages.
- A container or a remote command that outlives the playbook that started it: a
  playbook's effects end with its step.

## 7. Running

    tlc -workers 2 -config PipelineHostile.cfg MCScanPipeline
    tlc -workers 2 -config UploadAdmission.cfg MCUploadAdmission
    tlc -workers 2 -config FileFlow.cfg MCFileFlow
    tlc -workers 2 -config Limits.cfg MCLimits
    for m in *Proofs.tla PolicyLemmas.tla; do tlapm $m; done

The proof modules extend the modules they are about, and TLC evaluates the
assumptions on every run.
