--------------------------- MODULE ScanGateProofs ---------------------------
(***************************************************************************)
(* The pipeline implements AdmissionGate, a denial is final, and a source  *)
(* is deleted only once the row says INFECTED - provided that no live job  *)
(* is older than the staging lifetime, without which the sweep fails rows  *)
(* under the feet of their jobs.                                           *)
(*                                                                         *)
(* TimelyInv is what the proviso buys: a job's scan is not expired and a   *)
(* swept scan is, so the two never meet, and hence what a job believes of  *)
(* its row when it decides - in progress, not answered - is still so.      *)
(***************************************************************************)
EXTENDS ScanPipelineProofs

UnclaimedIsFresh ==
  \A s \in Scans : row[s].status \in {"NONE", "RECEIVED"} => ~expired[s]

JobsAreFresh == \A w \in Workers, s \in Scans : Running(w, s) => ~expired[s]

SweepsAreStale ==
  \A w \in Workers, s \in Scans : pc["sweep"][w][s] # "idle" => expired[s]

UndecidedInProgress ==
  \A w \in Workers, s \in Scans :
    pc["job"][w][s] \in BeforeVerdict => row[s].status \in InProgress

InProgressUnanswered ==
  \A s \in Scans : row[s].status \in InProgress => row[s].allowed = "null"

DeletingIsRecorded ==
  \A w \in Workers, s \in Scans :
    pc["job"][w][s] = "delete" => row[s].status = "INFECTED" /\ row[s].allowed = "no"

TimelyInv ==
  /\ UnclaimedIsFresh /\ JobsAreFresh /\ SweepsAreStale
  /\ UndecidedInProgress /\ InProgressUnanswered /\ DeletingIsRecorded

(* What one step may do to the answers.                                    *)
DenialsStand == \A x \in Scans : row[x].allowed = "no" => row'[x].allowed # "yes"

DeletionsRecorded ==
  \A x \in Scans : deleted'[x] /\ ~deleted[x] =>
    row[x].status = "INFECTED" /\ row[x].allowed = "no"

Orderly == [Gate!Next]_phase /\ DenialsStand /\ DeletionsRecorded

-----------------------------------------------------------------------------
(* Phases                                                                  *)

(* The phase of a row is decided by its status and answer.                 *)
LEMMA PhaseValue ==
  ASSUME NEW r \in Rows
  PROVE  /\ r.status = "NONE" <=> PhaseOf(r) = "absent"
         /\ r.status = "RECEIVED" <=> PhaseOf(r) = "queued"
         /\ r.status \in InProgress <=> PhaseOf(r) = "working"
         /\ r.status \in Terminal /\ r.allowed = "yes" <=> PhaseOf(r) = "allowed"
         /\ r.status \in Terminal /\ r.allowed # "yes" <=> PhaseOf(r) = "denied"
BY DEF PhaseOf, Rows, Statuses, InProgress, Terminal, Overlayable

Successors ==
  {<<"absent", "queued">>, <<"queued", "working">>, <<"working", "allowed">>,
   <<"working", "denied">>, <<"allowed", "denied">>}

(* A row that goes to a phase the gate allows is a step of the gate.       *)
LEMMA PhaseStep ==
  ASSUME TypeOK, NEW s \in Scans, NEW new,
         row' = [row EXCEPT ![s] = new],
         \/ PhaseOf(new) = PhaseOf(row[s])
         \/ <<PhaseOf(row[s]), PhaseOf(new)>> \in Successors
  PROVE  [Gate!Next]_phase
<1>1. phase' = [phase EXCEPT ![s] = PhaseOf(new)] /\ phase[s] = PhaseOf(row[s])
  BY DEF phase, TypeOK
<1>2. CASE PhaseOf(new) = PhaseOf(row[s])
  BY <1>1, <1>2 DEF phase
<1>3. CASE <<PhaseOf(row[s]), PhaseOf(new)>> \in Successors
  BY <1>1, <1>3 DEF Successors, Gate!Next, Gate!Submit, Gate!Take, Gate!Allow, Gate!Deny
<1> QED
  BY <1>2, <1>3

-----------------------------------------------------------------------------
(* Steps of the threads                                                    *)

(* What a thread's step must not do: come nearer to a verdict than it was, *)
(* delete before the verdict, or approve a scan that is answered.          *)
Lawful(k, from, to, old, new) ==
  /\ from # "idle"
  /\ k = "job" /\ to \in BeforeVerdict => from \in BeforeVerdict /\ new.status \in InProgress
  /\ k = "job" /\ to = "delete" => new.status = "INFECTED" /\ new.allowed = "no"
  /\ \/ new.status = old.status /\ new.allowed = old.allowed
     \/ /\ {old.status, new.status} \subseteq InProgress
        /\ new.allowed = old.allowed
     \/ /\ new.status \in Terminal
        /\ new.allowed = "yes" => old.status \in InProgress \/ old.allowed = "yes"

(* Only a job at its deletion deletes a source, and only its own.          *)
DeletesOnly(k, s, from) ==
  \A x \in Scans : deleted'[x] /\ ~deleted[x] => x = s /\ k = "job" /\ from = "delete"

(* A lawful step keeps the invariant and is a step of the gate.            *)
LEMMA ThreadIsOrderly ==
  ASSUME TypeOK, VerdictInv, TimelyInv,
         NEW k \in Kinds, NEW w \in Workers, NEW s \in Scans, NEW from, NEW to,
         NEW new \in Rows, Goto(k, w, s, from, to), row' = [row EXCEPT ![s] = new],
         Lawful(k, from, to, row[s], new),
         DeletesOnly(k, s, from)
  PROVE  TimelyInv' /\ Orderly
<1>1. /\ pc[k][w][s] = from /\ pc'[k][w][s] = to
      /\ \A j \in Kinds, v \in Workers, x \in Scans :
           j # k \/ v # w \/ x # s => pc'[j][v][x] = pc[j][v][x]
      /\ expired' = expired
  BY DEF Goto, TypeOK
<1>2. row'[s] = new /\ \A x \in Scans \ {s} : row'[x] = row[x]
  BY DEF TypeOK
<1>3. row[s] \in Rows /\ row[s].status \notin {"NONE", "RECEIVED"}
  BY <1>1 DEF TypeOK, VerdictInv, UnclaimedIsUntouched, Lawful
<1>4. new.status \notin {"NONE", "RECEIVED"}
  BY <1>3 DEF Lawful, InProgress, Terminal, Overlayable
<1>5. \A v \in Workers : k # "job" \/ v # w => pc["job"][v][s] = "idle"
  <2>1. CASE k = "job"
    BY <1>1, <2>1 DEF VerdictInv, OneRunnerPerScan, Running, Lawful
  <2>2. CASE k = "sweep"
    BY <1>1, <2>2 DEF TimelyInv, SweepsAreStale, JobsAreFresh, Running, Lawful
  <2> QED
    BY <2>1, <2>2 DEF Kinds
<1>6. \A j \in Kinds, v \in Workers, x \in Scans :
        pc'[j][v][x] # "idle" => pc[j][v][x] # "idle"
  BY <1>1 DEF Lawful
<1>7. UnclaimedIsFresh'
  BY <1>1, <1>2, <1>4 DEF TimelyInv, UnclaimedIsFresh
<1>8. JobsAreFresh' /\ SweepsAreStale'
  BY <1>1, <1>6 DEF TimelyInv, JobsAreFresh, SweepsAreStale, Running, Kinds
<1>9. UndecidedInProgress'
  <2> SUFFICES ASSUME NEW v \in Workers, NEW x \in Scans, pc'["job"][v][x] \in BeforeVerdict
               PROVE  row'[x].status \in InProgress
    BY DEF UndecidedInProgress
  <2>1. CASE x # s
    BY <1>1, <1>2, <2>1 DEF TimelyInv, UndecidedInProgress, Kinds
  <2>2. CASE x = s
    <3>1. k = "job" /\ v = w
      BY <1>1, <1>5, <2>2 DEF Kinds, BeforeVerdict
    <3> QED
      BY <1>1, <1>2, <2>2, <3>1 DEF Lawful
  <2> QED
    BY <2>1, <2>2
<1>10. InProgressUnanswered'
  BY <1>2 DEF TimelyInv, InProgressUnanswered, Lawful, InProgress, Terminal, Overlayable
<1>11. DeletingIsRecorded'
  <2> SUFFICES ASSUME NEW v \in Workers, NEW x \in Scans, pc'["job"][v][x] = "delete"
               PROVE  row'[x].status = "INFECTED" /\ row'[x].allowed = "no"
    BY DEF DeletingIsRecorded
  <2>1. CASE x # s
    BY <1>1, <1>2, <2>1 DEF TimelyInv, DeletingIsRecorded, Kinds
  <2>2. CASE x = s
    <3>1. k = "job" /\ v = w
      BY <1>1, <1>5, <2>2 DEF Kinds
    <3> QED
      BY <1>1, <1>2, <2>2, <3>1 DEF Lawful
  <2> QED
    BY <2>1, <2>2
<1>12. [Gate!Next]_phase
  <2>1. \/ PhaseOf(new) = PhaseOf(row[s])
        \/ <<PhaseOf(row[s]), PhaseOf(new)>> \in Successors
    <3>1. row[s].status \in InProgress \cup Terminal
      BY <1>3 DEF Rows, Statuses
    <3>2. row[s].status \in InProgress => row[s].status \notin Terminal /\ row[s].allowed = "null"
      BY DEF TimelyInv, InProgressUnanswered, InProgress, Terminal, Overlayable
    <3> QED
      BY <1>3, <3>1, <3>2, PhaseValue DEF Lawful, Successors
  <2> QED
    BY <2>1, PhaseStep
<1>13. DenialsStand
  BY <1>2 DEF DenialsStand, TimelyInv, InProgressUnanswered, Lawful
<1>14. DeletionsRecorded
  BY <1>1 DEF DeletesOnly, DeletionsRecorded, TimelyInv, DeletingIsRecorded
<1> QED
  BY <1>7, <1>8, <1>9, <1>10, <1>11, <1>12, <1>13, <1>14 DEF TimelyInv, Orderly

(* An update_scan that is lawful.                                          *)
LEMMA UpdateIsOrderly ==
  ASSUME TypeOK, VerdictInv, TimelyInv,
         NEW k \in Kinds, NEW w \in Workers, NEW s \in Scans, NEW from, NEW to,
         NEW new \in Rows, Update(k, w, s, from, to, new),
         Lawful(k, from, to, row[s], new)
  PROVE  TimelyInv' /\ Orderly
BY ThreadIsOrderly DEF Update, DeletesOnly

(* A step that leaves the row alone.                                       *)
LEMMA PassIsOrderly ==
  ASSUME TypeOK, VerdictInv, TimelyInv,
         NEW k \in Kinds, NEW w \in Workers, NEW s \in Scans, NEW from, NEW to,
         Goto(k, w, s, from, to), UNCHANGED row, from # "idle",
         k = "job" => /\ to # "delete"
                      /\ to \in BeforeVerdict => from \in BeforeVerdict,
         DeletesOnly(k, s, from)
  PROVE  TimelyInv' /\ Orderly
<1>1. row[s] \in Rows /\ row' = [row EXCEPT ![s] = row[s]]
  BY DEF TypeOK
<1>2. k = "job" /\ from \in BeforeVerdict => row[s].status \in InProgress
  BY DEF Goto, TimelyInv, UndecidedInProgress
<1>3. Lawful(k, from, to, row[s], row[s])
  BY <1>2 DEF Lawful
<1>4. PICK new \in Rows :
        row' = [row EXCEPT ![s] = new] /\ Lawful(k, from, to, row[s], new)
  BY <1>1, <1>3
<1> QED
  BY <1>4, ThreadIsOrderly

(* Failing a scan, cleaning up after it, moving it to the quarantine.      *)
LEMMA CleanupIsOrderly ==
  ASSUME TypeOK, VerdictInv, TimelyInv, NEW k \in Kinds, NEW w \in Workers,
         NEW s \in Scans, CleanupStep(k, w, s)
  PROVE  TimelyInv' /\ Orderly
<1> USE DEF BeforeVerdict
<1>0. row[s] \in Rows
  BY DEF TypeOK
<1>1. CASE Fail(k, w, s)
  <2>1. /\ Failed(row[s]) \in Rows
        /\ Failed(row[s]).status \in Terminal /\ Failed(row[s]).allowed = "no"
    BY <1>0, FailedType DEF Failed, Rows, Terminal, Overlayable
  <2>2. \A to \in {"idle", "cleanup"} : Lawful(k, "fail", to, row[s], Failed(row[s]))
    BY <2>1 DEF Lawful
  <2> QED
    BY <1>1, <2>1, <2>2, UpdateIsOrderly DEF Fail
<1>2. CASE Cleanup(k, w, s)
  BY <1>2, PassIsOrderly DEF Cleanup, Pass, DeletesOnly
<1>3. CASE Remove(k, w, s)
  BY <1>3, PassIsOrderly DEF Remove, Touch, DeletesOnly
<1>4. CASE Removed(k, w, s)
  <2> DEFINE new == [row[s] EXCEPT !.cleanup = "OK"]
  <2>1. new \in Rows /\ Lawful(k, "removed", "idle", row[s], new)
    BY <1>0, ColumnValues DEF Rows, Lawful
  <2> QED
    BY <1>4, <2>1, UpdateIsOrderly DEF Removed
<1>5. CASE RemoveFailed(k, w, s)
  <2> DEFINE new == [row[s] EXCEPT !.cleanup = "FAILED"]
  <2>1. new \in Rows /\ Lawful(k, "remove_failed", "overlay", row[s], new)
    BY <1>0, ColumnValues DEF Rows, Lawful
  <2> QED
    BY <1>5, <2>1, UpdateIsOrderly DEF RemoveFailed
<1>6. CASE Overlay(k, w, s)
  BY <1>6, PassIsOrderly DEF Overlay, Pass, DeletesOnly
<1>7. CASE OverlayWrite(k, w, s)
  <2> DEFINE new == [row[s] EXCEPT !.status = "CLEANUP_FAILED"]
  <2>1. new \in Rows /\ Lawful(k, "overlay_write", "idle", row[s], new)
    BY <1>0, ColumnValues DEF Rows, Lawful, Terminal
  <2> QED
    BY <1>7, <2>1, UpdateIsOrderly DEF OverlayWrite
<1> QED
  BY <1>1, <1>2, <1>3, <1>4, <1>5, <1>6, <1>7 DEF CleanupStep

(* The stages before the verdict find their row in progress and leave it   *)
(* so: here the invariant is needed.                                       *)
LEMMA StageIsLawful ==
  ASSUME TypeOK, TimelyInv, NEW w \in Workers, NEW s \in Scans,
         NEW from \in BeforeVerdict, NEW to, to # "delete", pc["job"][w][s] = from,
         NEW new \in Rows, new.allowed = row[s].allowed,
         new.status = row[s].status \/ new.status \in InProgress
  PROVE  Lawful("job", from, to, row[s], new)
<1>1. row[s].status \in InProgress
  BY DEF TimelyInv, UndecidedInProgress
<1> QED
  BY <1>1 DEF Lawful, BeforeVerdict

(* An update_scan of a stage.                                              *)
LEMMA StageIsOrderly ==
  ASSUME TypeOK, VerdictInv, TimelyInv, NEW w \in Workers, NEW s \in Scans,
         NEW from \in BeforeVerdict, NEW to, to # "delete",
         NEW new \in Rows, Update("job", w, s, from, to, new),
         new.allowed = row[s].allowed,
         new.status = row[s].status \/ new.status \in InProgress
  PROVE  TimelyInv' /\ Orderly
<1>1. Lawful("job", from, to, row[s], new)
  BY StageIsLawful DEF Update, Goto
<1> QED
  BY <1>1, StepNames, UpdateIsOrderly

(* The steps of a job that neither decide nor delete.                      *)
LEMMA UndecisiveIsOrderly ==
  ASSUME TypeOK, VerdictInv, TimelyInv, NEW w \in Workers, NEW s \in Scans,
         UndecisiveStep(w, s)
  PROVE  TimelyInv' /\ Orderly
<1> USE StepNames DEF BeforeVerdict
<1>0. row[s] \in Rows
  BY DEF TypeOK
<1>1. CASE ResolveProfile(w, s)
  BY <1>1, PassIsOrderly DEF ResolveProfile, Pass, DeletesOnly
<1>2. CASE Refuse(w, s) \/ RecordRaised(w, s)
  <2>1. /\ Failed(row[s]) \in Rows
        /\ Failed(row[s]).status \in Terminal /\ Failed(row[s]).allowed = "no"
    BY <1>0, FailedType DEF Failed, Rows, Terminal, Overlayable
  <2>2. \A from \in {"refuse", "raised"} : Lawful("job", from, "idle", row[s], Failed(row[s]))
    BY <2>1 DEF Lawful
  <2> QED
    BY <1>2, <2>1, <2>2, UpdateIsOrderly DEF Refuse, RecordRaised
<1>3. CASE Begin(w, s)
  <2> DEFINE new == [row[s] EXCEPT !.status = "TRANSFERRING", !.path = "staging",
                                !.transfer = "PENDING"]
  <2>1. new \in Rows /\ new.status \in InProgress /\ new.allowed = row[s].allowed
    BY <1>0, ColumnValues DEF Rows, InProgress
  <2> HIDE DEF new
  <2>2. Update("job", w, s, "begin", IF Fetched(s) THEN "fetch" ELSE "transferred", new)
    BY <1>3 DEF Begin, new
  <2> QED
    BY <2>1, <2>2, StageIsOrderly
<1>4. CASE Fetch(w, s)
  BY <1>4, PassIsOrderly DEF Fetch, Touch, DeletesOnly
<1>5. CASE FetchFailed(w, s)
  <2> DEFINE failed == [row[s] EXCEPT !.transfer = "FAILED", !.detail = "SKIPPED"]
             wrong == [row[s] EXCEPT !.transfer = "OK", !.detail = "SKIPPED"]
  <2>1. \A new \in {failed, wrong} :
          new \in Rows /\ new.status = row[s].status /\ new.allowed = row[s].allowed
    BY <1>0, ColumnValues DEF Rows
  <2>2. \/ Update("job", w, s, "fetch_failed", "fail", failed)
        \/ Update("job", w, s, "fetch_mismatch", "fail", wrong)
    BY <1>5 DEF FetchFailed
  <2> HIDE DEF failed, wrong
  <2> QED
    BY <2>1, <2>2, StageIsOrderly
<1>6. CASE Transferred(w, s)
  <2> DEFINE new == [row[s] EXCEPT !.transfer = "OK"]
  <2>1. /\ new \in Rows /\ new.allowed = row[s].allowed
        /\ new.status = row[s].status \/ new.status \in InProgress
    BY <1>0, ColumnValues DEF Rows, InProgress
  <2>2. Update("job", w, s, "transferred", "detect", new)
    BY <1>6 DEF Transferred
  <2> HIDE DEF new
  <2> QED
    BY <2>1, <2>2, StageIsOrderly
<1>7. CASE Detect(w, s) \/ Inspect(w, s) \/ FindStagedFile(w, s)
  BY <1>7, PassIsOrderly DEF Detect, Inspect, FindStagedFile, Pass, DeletesOnly
<1>8. CASE RecordPlain(w, s)
  <2> DEFINE new == [row[s] EXCEPT !.encrypted = "no"]
  <2>1. /\ new \in Rows /\ new.allowed = row[s].allowed
        /\ new.status = row[s].status \/ new.status \in InProgress
    BY <1>0, ColumnValues DEF Rows, InProgress
  <2>2. Update("job", w, s, "plain", "scanning", new)
    BY <1>8 DEF RecordPlain
  <2> HIDE DEF new
  <2> QED
    BY <2>1, <2>2, StageIsOrderly
<1>9. CASE RecordEncrypted(w, s)
  <2> PICK value \in {"yes", "null"} :
        Update("job", w, s, "encrypted", "decide", [row[s] EXCEPT !.encrypted = value])
    BY <1>9 DEF RecordEncrypted
  <2> DEFINE new == [row[s] EXCEPT !.encrypted = value]
  <2>1. new \in Rows /\ new.allowed = row[s].allowed /\ new.status = row[s].status
    BY <1>0, ColumnValues DEF Rows
  <2>2. Update("job", w, s, "encrypted", "decide", new)
    OBVIOUS
  <2> HIDE DEF new
  <2> QED
    BY <2>1, <2>2, StageIsOrderly
<1>10. CASE StartScanning(w, s)
  <2> DEFINE new == [row[s] EXCEPT !.status = "SCANNING"]
  <2>1. /\ new \in Rows /\ new.allowed = row[s].allowed
        /\ new.status = row[s].status \/ new.status \in InProgress
    BY <1>0, ColumnValues DEF Rows, InProgress
  <2>2. Update("job", w, s, "scanning", "scan", new)
    BY <1>10 DEF StartScanning
  <2> HIDE DEF new
  <2> QED
    BY <2>1, <2>2, StageIsOrderly
<1>11. CASE ScanFailed(w, s)
  <2> DEFINE new == [row[s] EXCEPT !.detail = "FAILED"]
  <2>1. /\ new \in Rows /\ new.allowed = row[s].allowed
        /\ new.status = row[s].status \/ new.status \in InProgress
    BY <1>0, ColumnValues DEF Rows, InProgress
  <2>2. Update("job", w, s, "scan_failed", "fail", new)
    BY <1>11 DEF ScanFailed
  <2> HIDE DEF new
  <2> QED
    BY <2>1, <2>2, StageIsOrderly
<1>12. CASE Scanned(w, s)
  <2> DEFINE new == [row[s] EXCEPT !.detail = "OK"]
  <2>1. /\ new \in Rows /\ new.allowed = row[s].allowed
        /\ new.status = row[s].status \/ new.status \in InProgress
    BY <1>0, ColumnValues DEF Rows, InProgress
  <2>2. Update("job", w, s, "scanned", "results", new)
    BY <1>12 DEF Scanned
  <2> HIDE DEF new
  <2> QED
    BY <2>1, <2>2, StageIsOrderly
<1>13. CASE DeleteFailed(w, s)
  BY <1>13, PassIsOrderly DEF DeleteFailed, Update, DisposeInfected, DeletesOnly, TypeOK
<1>14. CASE Quarantine(w, s) \/ MoveToQuarantine(w, s)
  BY <1>14, PassIsOrderly DEF Quarantine, MoveToQuarantine, Pass, DeletesOnly
<1>15. CASE Moved(w, s)
  <2> DEFINE new == [row[s] EXCEPT !.cleanup = "OK", !.path = "quarantine"]
  <2>1. new \in Rows /\ Lawful("job", "moved", "idle", row[s], new)
    BY <1>0, ColumnValues DEF Rows, Lawful
  <2> QED
    BY <1>15, <2>1, UpdateIsOrderly DEF Moved
<1> QED
  BY <1>1, <1>2, <1>3, <1>4, <1>5, <1>6, <1>7, <1>8, <1>9, <1>10, <1>11, <1>12,
     <1>13, <1>14, <1>15 DEF UndecisiveStep

(* Running the scanners and storing their results leave the row alone.     *)
LEMMA ResultsAreOrderly ==
  ASSUME TypeOK, VerdictInv, TimelyInv, NEW w \in Workers, NEW s \in Scans,
         RunScanners(w, s) \/ InsertResults(w, s)
  PROVE  TimelyInv' /\ Orderly
<1> USE StepNames DEF BeforeVerdict
<1>1. CASE RunScanners(w, s)
  BY <1>1, PassIsOrderly DEF RunScanners, Touch, DeletesOnly
<1>2. CASE InsertResults(w, s)
  BY <1>2, PassIsOrderly DEF InsertResults, Pass, DeletesOnly
<1> QED
  BY <1>1, <1>2

(* A decision answers a scan that is in progress.                          *)
LEMMA DecisionIsOrderly ==
  ASSUME TypeOK, VerdictInv, TimelyInv, NEW w \in Workers, NEW s \in Scans,
         NEW from \in BeforeVerdict, NEW to, to \notin BeforeVerdict,
         NEW new \in Rows, Update("job", w, s, from, to, new),
         new.status \in Terminal,
         to = "delete" => new.status = "INFECTED" /\ new.allowed = "no"
  PROVE  TimelyInv' /\ Orderly
<1>1. row[s].status \in InProgress
  BY DEF TimelyInv, UndecidedInProgress, Update, Goto
<1>2. Lawful("job", from, to, row[s], new)
  BY <1>1 DEF Lawful, BeforeVerdict
<1> QED
  BY <1>2, StepNames, UpdateIsOrderly

(* The encrypted-file policy answers a scan in progress.                   *)
LEMMA DecideEncryptedIsOrderly ==
  ASSUME TypeOK, VerdictInv, TimelyInv, NEW w \in Workers, NEW s \in Scans,
         DecideEncrypted(w, s)
  PROVE  TimelyInv' /\ Orderly
<1> PICK p \in EncryptedPolicies :
      Update("job", w, s, "decide",
             IF ApplyEncryptedPolicy(p).quarantine THEN "quarantine" ELSE "cleanup",
             [row[s] EXCEPT !.status = ApplyEncryptedPolicy(p).status,
                            !.allowed = Answer(ApplyEncryptedPolicy(p).allowed),
                            !.applied = p])
  BY DEF DecideEncrypted
<1> DEFINE new == [row[s] EXCEPT !.status = ApplyEncryptedPolicy(p).status,
                                 !.allowed = Answer(ApplyEncryptedPolicy(p).allowed),
                                 !.applied = p]
           to == IF ApplyEncryptedPolicy(p).quarantine THEN "quarantine" ELSE "cleanup"
<1>1. /\ ApplyEncryptedPolicy(p).status = "ENCRYPTED"
      /\ Answer(ApplyEncryptedPolicy(p).allowed) \in Flags /\ p \in Applied
  BY ColumnValues DEF ApplyEncryptedPolicy, Answer, Applied
<1>2. "ENCRYPTED" \in Statuses /\ row[s] \in Rows
  BY ColumnValues DEF TypeOK
<1>3. new \in Rows /\ new.status \in Terminal
  BY <1>1, <1>2 DEF Rows, Terminal, Overlayable
<1>4. to \notin BeforeVerdict /\ to # "delete" /\ "decide" \in BeforeVerdict
  BY DEF BeforeVerdict
<1>5. Update("job", w, s, "decide", to, new)
  OBVIOUS
<1> HIDE DEF new, to
<1> QED
  BY <1>3, <1>4, <1>5, DecisionIsOrderly

(* So does the verdict; only INFECTED leads to a deletion.                 *)
LEMMA RecordVerdictIsOrderly ==
  ASSUME TypeOK, VerdictInv, TimelyInv, NEW w \in Workers, NEW s \in Scans,
         RecordVerdict(w, s)
  PROVE  TimelyInv' /\ Orderly
<1> PICK p \in Aggregations, to \in {"delete", "quarantine", "cleanup"} :
      /\ to = "delete" => AggregateScanResults(raw[w][s], p).status = "INFECTED"
      /\ Update("job", w, s, "verdict", to,
                [row[s] EXCEPT
                   !.status = AggregateScanResults(raw[w][s], p).status,
                   !.allowed = Answer(AggregateScanResults(raw[w][s], p).allowed)])
  BY DEF RecordVerdict, DisposeInfected
<1> DEFINE verdict == AggregateScanResults(raw[w][s], p)
           new == [row[s] EXCEPT !.status = verdict.status,
                                 !.allowed = Answer(verdict.allowed)]
<1>1. raw[w][s] \in Seq(Status)
  BY RawType
<1>2. verdict.status \in ReportedStatus /\ Answer(verdict.allowed) \in Flags
  BY <1>1, VerdictType, ColumnValues DEF Answer
<1>3. /\ new \in Rows /\ new.status = verdict.status
      /\ new.allowed = Answer(verdict.allowed)
  <2>1. row[s] \in Rows /\ verdict.status \in Statuses
    BY <1>2, ColumnValues DEF TypeOK, ReportedStatus
  <2> HIDE DEF verdict
  <2> QED
    BY <1>2, <2>1 DEF Rows
<1>4. new.status \in Terminal
  BY <1>2, <1>3 DEF ReportedStatus, Terminal, Overlayable
<1>5. to = "delete" => new.status = "INFECTED" /\ new.allowed = "no"
  <2>1. verdict.status = "INFECTED" => ~verdict.allowed
    BY <1>1, VerdictType
  <2> QED
    BY <1>3, <2>1 DEF Answer
<1>6. to \notin BeforeVerdict /\ "verdict" \in BeforeVerdict
  BY DEF BeforeVerdict
<1> HIDE DEF new, verdict
<1> QED
  BY <1>3, <1>4, <1>5, <1>6, DecisionIsOrderly DEF new, verdict

(* The deletion of a source follows its recorded verdict.                  *)
LEMMA DeleteSourceIsOrderly ==
  ASSUME TypeOK, VerdictInv, TimelyInv, NEW w \in Workers, NEW s \in Scans,
         DeleteSource(w, s)
  PROVE  TimelyInv' /\ Orderly
<1> PICK to \in {DisposeInfected, "delete_failed"} :
      Goto("job", w, s, "delete", to) /\ UNCHANGED row
  BY DEF DeleteSource
<1>1. DeletesOnly("job", s, "delete")
  BY DEF DeleteSource, DeletesOnly, TypeOK
<1>2. to \notin BeforeVerdict /\ to # "delete"
  BY DEF BeforeVerdict, DisposeInfected
<1> QED
  BY <1>1, <1>2, StepNames, PassIsOrderly

(* A failing database call answers nothing.                                *)
LEMMA RaiseIsOrderly ==
  ASSUME TypeOK, VerdictInv, TimelyInv, NEW k \in Kinds, NEW w \in Workers,
         NEW s \in Scans, Raise(k, w, s)
  PROVE  TimelyInv' /\ Orderly
<1> DEFINE from == pc[k][w][s]
           to == IF k = "job" /\ from # "raised" THEN "raised" ELSE "idle"
<1>1. Goto(k, w, s, from, to) /\ UNCHANGED row /\ DeletesOnly(k, s, from)
  BY DEF Raise, DeletesOnly
<1>2. from # "idle" /\ to \notin BeforeVerdict /\ to # "delete"
  BY DEF Raise, NeverRaises, BeforeVerdict
<1> HIDE DEF from, to
<1> QED
  BY <1>1, <1>2, PassIsOrderly

-----------------------------------------------------------------------------
(* Steps outside the threads                                               *)

(* Steps that change no status and no answer.                              *)
LEMMA QuietIsOrderly ==
  ASSUME TypeOK, VerdictInv, TimelyInv,
         \A x \in Scans : /\ row'[x].status = row[x].status
                         /\ row'[x].allowed = row[x].allowed,
         \A w \in Workers, x \in Scans : pc'["job"][w][x] \in {"idle", pc["job"][w][x]},
         \A w \in Workers, x \in Scans :
           pc'["sweep"][w][x] # "idle" => pc["sweep"][w][x] # "idle" \/ expired[x],
         \A x \in Scans : expired[x] => expired'[x],
         \A x \in Scans : expired'[x] =>
           \/ expired[x]
           \/ row[x].status \in InProgress /\ \A w \in Workers : ~Running(w, x),
         UNCHANGED deleted
  PROVE  TimelyInv' /\ Orderly
<1>1. UnclaimedIsFresh'
  BY DEF TimelyInv, UnclaimedIsFresh, InProgress
<1>2. JobsAreFresh'
  BY DEF TimelyInv, JobsAreFresh, Running
<1>3. SweepsAreStale'
  BY DEF TimelyInv, SweepsAreStale
<1>4. UndecidedInProgress'
  BY DEF TimelyInv, UndecidedInProgress, BeforeVerdict
<1>5. InProgressUnanswered' /\ DeletingIsRecorded'
  BY DEF TimelyInv, InProgressUnanswered, DeletingIsRecorded
<1>6. UNCHANGED phase
  BY DEF phase, PhaseOf
<1>7. DenialsStand /\ DeletionsRecorded
  BY DEF DenialsStand, DeletionsRecorded
<1> QED
  BY <1>1, <1>2, <1>3, <1>4, <1>5, <1>6, <1>7 DEF TimelyInv, Orderly

(* A new row, from either endpoint.                                        *)
LEMMA CreateIsOrderly ==
  ASSUME TypeOK, VerdictInv, TimelyInv, NEW s \in Scans, NEW mode \in Modes,
         upload[s] = "idle", CreateScan(s, mode), UNCHANGED <<deleted, pc, expired>>
  PROVE  TimelyInv' /\ Orderly
<1>1. /\ row[s] \in Rows /\ row[s].status = "NONE"
      /\ \A w \in Workers : pc["job"][w][s] = "idle"
  BY DEF TypeOK, VerdictInv, UnclaimedIsUntouched, Kinds
<1>2. PICK new \in Rows : /\ new.status = "RECEIVED" /\ new.allowed = row[s].allowed
                         /\ row' = [row EXCEPT ![s] = new]
  <2> DEFINE new == [row[s] EXCEPT !.status = "RECEIVED", !.mode = mode]
  <2>1. new \in Rows /\ new.status = "RECEIVED" /\ new.allowed = row[s].allowed
    BY <1>1, ColumnValues DEF Rows, ModeColumn
  <2>2. row' = [row EXCEPT ![s] = new]
    BY DEF CreateScan, TypeOK
  <2> QED
    BY <2>1, <2>2
<1>3. row'[s] = new /\ \A x \in Scans \ {s} : row'[x] = row[x]
  BY <1>2 DEF TypeOK
<1>5. UnclaimedIsFresh'
  BY <1>1, <1>3 DEF TimelyInv, UnclaimedIsFresh
<1>6. JobsAreFresh' /\ SweepsAreStale'
  BY DEF TimelyInv, JobsAreFresh, SweepsAreStale, Running
<1>7. UndecidedInProgress' /\ DeletingIsRecorded'
  BY <1>1, <1>3 DEF TimelyInv, UndecidedInProgress, DeletingIsRecorded, BeforeVerdict
<1>8. InProgressUnanswered'
  BY <1>2, <1>3 DEF TimelyInv, InProgressUnanswered, InProgress
<1>9. [Gate!Next]_phase
  BY <1>1, <1>2, PhaseStep, PhaseValue DEF Successors
<1>10. DenialsStand /\ DeletionsRecorded
  BY <1>2, <1>3 DEF DenialsStand, DeletionsRecorded
<1> QED
  BY <1>5, <1>6, <1>7, <1>8, <1>9, <1>10 DEF TimelyInv, Orderly

(* The endpoints; and a row that expires has no live job: the proviso.     *)
LEMMA SubmissionIsOrderly ==
  ASSUME LifetimeCoversJobs, TypeOK, VerdictInv, TimelyInv, NEW s \in Scans,
         SubmitStep(s) \/ Expire(s) \/ ApiCrash
  PROVE  TimelyInv' /\ Orderly
<1>1. CASE InsertRowOnly(s)
  BY <1>1, CreateIsOrderly DEF InsertRowOnly, disk
<1>2. CASE UploadInsert(s)
  <2>1. "direct_upload" \in Modes
    BY <1>2 DEF UploadInsert
  <2> QED
    BY <1>2, <2>1, CreateIsOrderly DEF UploadInsert, UploadStep
<1>3. CASE UploadMakeDir(s) \/ UploadPlaceFile(s) \/ UploadRecordPathFails(s)
  BY <1>3, QuietIsOrderly
     DEF UploadMakeDir, UploadPlaceFile, UploadRecordPathFails, UploadStep
<1>4. CASE UploadRecordPath(s)
  <2>1. \A x \in Scans : row'[x].status = row[x].status /\ row'[x].allowed = row[x].allowed
    BY <1>4 DEF UploadRecordPath, TypeOK, Rows
  <2> QED
    BY <1>4, <2>1, QuietIsOrderly DEF UploadRecordPath, UploadStep
<1>5. CASE Expire(s)
  <2>1. \A x \in Scans : expired'[x] = (expired[x] \/ x = s)
    BY <1>5 DEF Expire, TypeOK
  <2> QED
    BY <1>5, <2>1, QuietIsOrderly DEF Expire, disk
<1>6. CASE ApiCrash
  BY <1>6, QuietIsOrderly DEF ApiCrash, disk
<1> QED
  BY <1>1, <1>2, <1>3, <1>4, <1>5, <1>6 DEF SubmitStep

(* A claim takes a fresh, unanswered row that no thread works on.          *)
LEMMA ClaimIsOrderly ==
  ASSUME TypeOK, VerdictInv, TimelyInv, NEW w \in Workers, NEW s \in Scans,
         Claim(w, s) \/ ClaimLost(w, s)
  PROVE  TimelyInv' /\ Orderly
<1>1. /\ row[s] \in Rows /\ row[s].status = "RECEIVED" /\ row[s].allowed = "null"
      /\ ~expired[s] /\ \A v \in Workers : pc["job"][v][s] = "idle"
  BY DEF Claim, ClaimLost, TypeOK, VerdictInv, UnclaimedIsUntouched, Kinds,
         TimelyInv, UnclaimedIsFresh
<1>2. row' = [row EXCEPT ![s].status = "VALIDATING"]
  BY DEF Claim, ClaimLost
<1>3. PICK new \in Rows : /\ new.status = "VALIDATING" /\ new.allowed = "null"
                         /\ row' = [row EXCEPT ![s] = new]
  <2> DEFINE new == [row[s] EXCEPT !.status = "VALIDATING"]
  <2>1. new \in Rows /\ new.status = "VALIDATING" /\ new.allowed = "null"
    BY <1>1, ColumnValues DEF Rows
  <2>2. row' = [row EXCEPT ![s] = new]
    BY <1>2 DEF TypeOK
  <2> QED
    BY <2>1, <2>2
<1>4. row'[s] = new /\ \A x \in Scans \ {s} : row'[x] = row[x]
  BY <1>3 DEF TypeOK
<1>5. UNCHANGED <<deleted, expired>>
  BY DEF Claim, ClaimLost, disk
<1>6. /\ \A v \in Workers, x \in Scans : pc'["sweep"][v][x] = pc["sweep"][v][x]
      /\ \A v \in Workers, x \in Scans :
           pc'["job"][v][x] # pc["job"][v][x] => x = s /\ pc'["job"][v][x] = "resolve"
  <2>1. CASE Claim(w, s)
    <3>1. pc' = [pc EXCEPT !["job"][w][s] = "resolve"]
      BY <2>1 DEF Claim
    <3>2. \A k \in Kinds, v \in Workers, x \in Scans :
            pc'[k][v][x] # pc[k][v][x] =>
              k = "job" /\ x = s /\ pc'[k][v][x] = "resolve"
      BY <3>1 DEF TypeOK
    <3> QED
      BY <3>2 DEF Kinds
  <2>2. CASE ClaimLost(w, s)
    BY <2>2 DEF ClaimLost
  <2> QED
    BY <2>1, <2>2
<1>7. UnclaimedIsFresh'
  BY <1>1, <1>4, <1>5 DEF TimelyInv, UnclaimedIsFresh
<1>8. JobsAreFresh' /\ SweepsAreStale'
  BY <1>1, <1>5, <1>6 DEF TimelyInv, JobsAreFresh, SweepsAreStale, Running
<1>9. UndecidedInProgress'
  BY <1>3, <1>4, <1>6 DEF TimelyInv, UndecidedInProgress, InProgress
<1>10. DeletingIsRecorded'
  BY <1>1, <1>4, <1>6 DEF TimelyInv, DeletingIsRecorded
<1>11. InProgressUnanswered'
  BY <1>3, <1>4 DEF TimelyInv, InProgressUnanswered
<1>12. [Gate!Next]_phase
  BY <1>1, <1>3, PhaseStep, PhaseValue DEF Successors, InProgress
<1>13. DenialsStand /\ DeletionsRecorded
  BY <1>3, <1>4, <1>5 DEF DenialsStand, DeletionsRecorded
<1> QED
  BY <1>7, <1>8, <1>9, <1>10, <1>11, <1>12, <1>13 DEF TimelyInv, Orderly

(* The sweep takes up expired rows only; a crash ends threads.             *)
LEMMA MainLoopIsOrderly ==
  ASSUME TypeOK, VerdictInv, TimelyInv, NEW w \in Workers, Sweep(w) \/ WorkerCrash(w)
  PROVE  TimelyInv' /\ Orderly
<1>1. CASE Sweep(w)
  <2>1. /\ \A v \in Workers, x \in Scans : pc'["job"][v][x] = pc["job"][v][x]
        /\ \A v \in Workers, x \in Scans :
             pc'["sweep"][v][x] # "idle" => pc["sweep"][v][x] # "idle" \/ expired[x]
    BY <1>1 DEF Sweep, TypeOK, Kinds
  <2> QED
    BY <1>1, <2>1, QuietIsOrderly DEF Sweep, disk
<1>2. CASE WorkerCrash(w)
  <2>1. \A k \in Kinds, v \in Workers, x \in Scans : pc'[k][v][x] \in {"idle", pc[k][v][x]}
    BY <1>2 DEF WorkerCrash, TypeOK
  <2> QED
    BY <1>2, <2>1, StepNames, QuietIsOrderly DEF WorkerCrash, disk
<1> QED
  BY <1>1, <1>2

-----------------------------------------------------------------------------
(* At first every phase is absent.                                         *)
LEMMA TimelyInit == Init => TimelyInv /\ Gate!Init
BY DEF Init, NoRow, TimelyInv, UnclaimedIsFresh, JobsAreFresh, SweepsAreStale,
       UndecidedInProgress, InProgressUnanswered, DeletingIsRecorded, Running, Kinds,
       InProgress, BeforeVerdict, Gate!Init, phase, PhaseOf

(* Every step of the pipeline keeps the invariant and is a step of the     *)
(* gate.                                                                   *)
LEMMA TimelyStep ==
  ASSUME LifetimeCoversJobs
  PROVE  TypeOK /\ VerdictInv /\ TimelyInv /\ [Next]_vars => TimelyInv' /\ Orderly
<1> SUFFICES ASSUME TypeOK, VerdictInv, TimelyInv, [Next]_vars
             PROVE  TimelyInv' /\ Orderly
  OBVIOUS
<1>1. CASE Next
  <2>1. ASSUME NEW s \in Scans, SubmitStep(s) \/ Expire(s)
        PROVE  TimelyInv' /\ Orderly
    BY <2>1, SubmissionIsOrderly
  <2>2. CASE ApiCrash
    <3> PICK s \in Scans : TRUE
      BY <2>2 DEF ApiCrash
    <3> QED
      BY <2>2, SubmissionIsOrderly
  <2>3. ASSUME NEW w \in Workers, Sweep(w) \/ WorkerCrash(w)
        PROVE  TimelyInv' /\ Orderly
    BY <2>3, MainLoopIsOrderly
  <2>4. ASSUME NEW w \in Workers, NEW s \in Scans, Claim(w, s) \/ ClaimLost(w, s)
        PROVE  TimelyInv' /\ Orderly
    BY <2>4, ClaimIsOrderly
  <2>5. ASSUME NEW w \in Workers, NEW s \in Scans, JobStep(w, s)
        PROVE  TimelyInv' /\ Orderly
    BY <2>5, UndecisiveIsOrderly, DecideEncryptedIsOrderly, ResultsAreOrderly,
       RecordVerdictIsOrderly, DeleteSourceIsOrderly, CleanupIsOrderly, StepNames
       DEF JobStep, UndecisiveStep
  <2>6. ASSUME NEW w \in Workers, NEW s \in Scans, CleanupStep("sweep", w, s)
        PROVE  TimelyInv' /\ Orderly
    BY <2>6, CleanupIsOrderly, StepNames
  <2>7. ASSUME NEW w \in Workers, NEW s \in Scans, NEW k \in Kinds, Raise(k, w, s)
        PROVE  TimelyInv' /\ Orderly
    BY <2>7, RaiseIsOrderly
  <2> QED
    BY <1>1, <2>1, <2>2, <2>3, <2>4, <2>5, <2>6, <2>7 DEF Next
<1>2. CASE UNCHANGED vars
  BY <1>2, QuietIsOrderly DEF vars
<1> QED
  BY <1>1, <1>2

(* Both invariants hold in every reachable state.                          *)
LEMMA TimelyInvariant ==
  ASSUME LifetimeCoversJobs
  PROVE  Spec => [](TypeOK /\ VerdictInv /\ TimelyInv)
BY TimelyInit, TimelyStep, TypeCorrect, VerdictInvariant, PTL DEF Spec

(* Provided that no live job outlasts the staging lifetime, what a client  *)
(* sees of a scan is what AdmissionGate promises: queued once, taken once, *)
(* answered, and after a denial never approved.                            *)
THEOREM PipelineImplementsGate ==
  ASSUME LifetimeCoversJobs
  PROVE  Spec => ImplementsGate
<1>1. TypeOK /\ VerdictInv /\ TimelyInv /\ [Next]_vars => [Gate!Next]_phase
  BY TimelyStep DEF Orderly
<1>2. Init => Gate!Init
  BY TimelyInit
<1> QED
  BY <1>1, <1>2, TimelyInvariant, PTL DEF Spec, ImplementsGate, Gate!Spec

(* Under the same proviso no job, sweep or handler accepts a scan that the *)
(* row has already refused.                                                *)
THEOREM DenialStands ==
  ASSUME LifetimeCoversJobs
  PROVE  Spec => DenialIsFinal
<1>1. TypeOK /\ VerdictInv /\ TimelyInv /\ [Next]_vars =>
        [\A s \in Scans : row[s].allowed = "no" => row'[s].allowed # "yes"]_vars
  BY TimelyStep DEF Orderly, DenialsStand
<1> QED
  BY <1>1, TimelyInvariant, PTL DEF Spec, DenialIsFinal

(* Under the same proviso the source of a file is deleted only while its   *)
(* row says INFECTED and not allowed.                                      *)
THEOREM DeletionFollowsVerdict ==
  ASSUME LifetimeCoversJobs
  PROVE  Spec => SourceDeletedOnVerdict
<1>1. TypeOK /\ VerdictInv /\ TimelyInv /\ [Next]_vars =>
        [\A s \in Scans : deleted'[s] /\ ~deleted[s] =>
           row[s].status = "INFECTED" /\ row[s].allowed = "no"]_vars
  BY TimelyStep DEF Orderly, DeletionsRecorded
<1> QED
  BY <1>1, TimelyInvariant, PTL DEF Spec, SourceDeletedOnVerdict
=============================================================================
