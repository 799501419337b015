-------------------------- MODULE ScanStagingProofs --------------------------
(***************************************************************************)
(* What the rows say about the staging directories, provided that no live  *)
(* job is older than the staging lifetime: evidence that policy wants kept *)
(* is not removed, and is there; and of a scan whose file the pipeline     *)
(* fetches itself, that cleanup_status OK means the directory is gone,     *)
(* that the row then names the place of the evidence, and that no scanner  *)
(* judges an encrypted file.  Of direct uploads the last three are false   *)
(* (EncryptedUpload shows one of them): the request goes on writing into   *)
(* the directory and the row that a job already handles.                   *)
(*                                                                         *)
(* StagingInv adds to TimelyInv what a thread that removes or moves a      *)
(* directory knows: its row is answered (DisposalIsAnswered), and not with *)
(* a verdict that policy wants the evidence of (RemovalIsDue).  PlaceInv   *)
(* goes on from there with the jobs that have the file and have not moved  *)
(* it yet (Holding), which is what a decision to keep it relies on.        *)
(***************************************************************************)
EXTENDS ScanGateProofs

Disposing == {"delete", "delete_failed", "quarantine", "move", "moved", "cleanup", "remove",
              "removed", "remove_failed", "overlay", "overlay_write"}

ScanningSteps == {"plain", "scanning", "scan", "containers", "scan_failed", "scanned",
                  "results", "verdict", "delete", "delete_failed"}

(* What a sweep leaves of a status *)
Swept == InProgress \cup {"ERROR", "CLEANUP_FAILED"}

(* MustKeep, of a row *)
Kept(r) ==
  r.applied \in {"QUARANTINE", "MARK_FOR_REVIEW"} \/ (RetainInfected /\ r.status = "INFECTED")

UnansweredIsBlank ==
  \A s \in Scans : row[s].status \notin Terminal =>
    row[s].applied = "null" /\ row[s].cleanup = "PENDING"

DisposalIsAnswered ==
  \A k \in Kinds, w \in Workers, s \in Scans :
    pc[k][w][s] \in Disposing => row[s].status \in Terminal

NewIsBlank ==
  \A s \in Scans :
    /\ row[s].mode = "null" => row[s].status = "NONE"
    /\ row[s].status = "NONE" => results[s] = <<>>

ExpiredHasNoVerdict ==
  \A s \in Scans : expired[s] => row[s].status \in Swept /\ row[s].applied = "null"

RemovalIsDue ==
  \A w \in Workers, s \in Scans :
    /\ pc["job"][w][s] \in {"cleanup", "remove"} => ~Kept(row[s])
    /\ pc["job"][w][s] \in {"delete", "delete_failed"} => row[s].applied = "null"

FailureComesFirst ==
  \A w \in Workers, s \in Scans :
    pc["job"][w][s] = "fail" => row[s].status \in InProgress

EvidenceInv ==
  /\ UnansweredIsBlank /\ NewIsBlank /\ DisposalIsAnswered /\ ExpiredHasNoVerdict
  /\ RemovalIsDue /\ FailureComesFirst

(* A scan whose file the pipeline fetches: no request writes into its directory *)
FetchedInv(s) ==
  /\ upload[s] = "done"
  /\ \A k \in Kinds, w \in Workers :
       pc[k][w][s] \in {"removed", "moved"} => staging[s] = "absent"
  /\ row[s].cleanup = "OK" => staging[s] = "absent"
  /\ \A w \in Workers : pc["job"][w][s] \in {"transferred", "detect"} => staging[s] = "file"
  /\ s \in Locked =>
       /\ results[s] = <<>> /\ row[s].status \notin {"CLEAN", "INFECTED"}
       /\ \A w \in Workers : pc["job"][w][s] \notin ScanningSteps

AllFetchedInv == \A s \in Scans : Fetched(s) => FetchedInv(s)

StagingInv == EvidenceInv /\ AllFetchedInv
AllInv == TypeOK /\ VerdictInv /\ TimelyInv /\ StagingInv

(* What one step may do to a staged file *)
EvidenceStays ==
  \A x \in Scans : MustKeep(x) /\ staging[x] = "file" =>
    staging'[x] = "file" \/ quarantined'[x]

-----------------------------------------------------------------------------
(* Steps of the threads                                                    *)

(* A row that was answered stays answered, one that is swept gets no       *)
(* verdict, and nothing is noted of a scan before its answer               *)
TidyRow(s, new) ==
  /\ new.status # "NONE"
  /\ new.mode = row[s].mode
  /\ new.status \notin Terminal =>
       row[s].status \notin Terminal /\ new.applied = "null" /\ new.cleanup = "PENDING"
  /\ expired[s] => new.status \in Swept /\ new.applied = "null"

(* A thread disposes of an answered scan, and of evidence only if it may *)
TidyStep(k, s, to, new, found) ==
  /\ to \in Disposing => new.status \in Terminal
  /\ k = "job" /\ to \in {"cleanup", "remove"} => ~Kept(new)
  /\ k = "job" /\ to \in {"delete", "delete_failed"} => new.applied = "null"
  /\ k = "job" /\ to = "fail" => new.status \in InProgress
  /\ found = "file" \/ staging[s] # "file" \/ ~Kept(row[s]) \/ quarantined'[s]

(* Directories come from the transfer and the scan only *)
TidyDirectory(k, s, from, to, new, found, stored) ==
  /\ to \in {"removed", "moved"} => found = "absent"
  /\ new.cleanup = "OK" => found = "absent"
  /\ found # "absent" => staging[s] # "absent" \/ (k = "job" /\ from \in {"fetch", "containers"})
  /\ k = "job" /\ to \in {"transferred", "detect"} => found = "file"
  /\ s \in Locked =>
       /\ stored = <<>> /\ new.status \notin {"CLEAN", "INFECTED"}
       /\ k = "job" => to \notin ScanningSteps

(* A thread that goes on from a step leaves `new' in the row and `found'   *)
(* in the staging directory.                                               *)
LEMMA ThreadIsTidy ==
  ASSUME AllInv, NEW k \in Kinds, NEW w \in Workers, NEW s \in Scans,
         NEW from, NEW to, from # "idle", Goto(k, w, s, from, to),
         NEW new \in Rows, row' = [row EXCEPT ![s] = new],
         NEW found, staging' = [staging EXCEPT ![s] = found],
         \A x \in Scans \ {s} : results'[x] = results[x],
         TidyRow(s, new), TidyStep(k, s, to, new, found),
         Fetched(s) => TidyDirectory(k, s, from, to, new, found, results'[s])
  PROVE  StagingInv' /\ EvidenceStays
<1>1. /\ pc[k][w][s] = from /\ pc'[k][w][s] = to
      /\ \A j \in Kinds, v \in Workers, x \in Scans :
           j # k \/ v # w \/ x # s => pc'[j][v][x] = pc[j][v][x]
      /\ expired' = expired /\ upload' = upload
  BY DEF Goto, AllInv, TypeOK
<1>2. /\ row'[s] = new /\ staging'[s] = found
      /\ \A x \in Scans \ {s} : row'[x] = row[x] /\ staging'[x] = staging[x]
  BY DEF AllInv, TypeOK
<1>3. /\ k = "job" => ~expired[s]
      /\ k = "sweep" => expired[s]
      /\ \A v \in Workers : k # "job" \/ v # w => pc["job"][v][s] = "idle"
      /\ k = "job" => \A v \in Workers : pc["sweep"][v][s] = "idle"
  BY <1>1 DEF AllInv, VerdictInv, OneRunnerPerScan, TimelyInv, SweepsAreStale, JobsAreFresh,
              Running, Kinds
<1>4. UnansweredIsBlank' /\ NewIsBlank'
  <2>1. row[s].status # "NONE" /\ new.status # "NONE"
    BY <1>1 DEF AllInv, VerdictInv, UnclaimedIsUntouched, TidyRow
  <2> QED
    BY <1>2, <2>1 DEF AllInv, StagingInv, EvidenceInv, UnansweredIsBlank, NewIsBlank, TidyRow
<1>5. DisposalIsAnswered'
  <2> SUFFICES ASSUME NEW j \in Kinds, NEW v \in Workers, NEW x \in Scans,
                      pc'[j][v][x] \in Disposing
               PROVE  row'[x].status \in Terminal
    BY DEF DisposalIsAnswered
  <2>1. CASE x # s
    BY <1>1, <1>2, <2>1 DEF AllInv, StagingInv, EvidenceInv, DisposalIsAnswered
  <2>2. CASE x = s /\ j = k /\ v = w
    BY <1>1, <1>2, <2>2 DEF TidyStep
  <2>3. CASE x = s /\ (j # k \/ v # w)
    BY <1>1, <1>2, <2>3 DEF AllInv, StagingInv, EvidenceInv, DisposalIsAnswered, TidyRow
  <2> QED
    BY <2>1, <2>2, <2>3
<1>6. ExpiredHasNoVerdict'
  BY <1>1, <1>2 DEF AllInv, StagingInv, EvidenceInv, ExpiredHasNoVerdict, TidyRow
<1>7. RemovalIsDue' /\ FailureComesFirst'
  <2> SUFFICES ASSUME NEW v \in Workers, NEW x \in Scans
               PROVE  /\ pc'["job"][v][x] \in {"cleanup", "remove"} => ~Kept(row'[x])
                      /\ pc'["job"][v][x] \in {"delete", "delete_failed"} =>
                           row'[x].applied = "null"
                      /\ pc'["job"][v][x] = "fail" => row'[x].status \in InProgress
    BY DEF RemovalIsDue, FailureComesFirst, Kept
  <2>1. CASE x # s
    BY <1>1, <1>2, <2>1 DEF AllInv, StagingInv, EvidenceInv, RemovalIsDue, FailureComesFirst, Kinds
  <2>2. CASE x = s /\ pc'["job"][v][x] # "idle"
    <3>1. k = "job" /\ v = w
      BY <1>1, <1>3, <2>2 DEF Kinds
    <3> QED
      BY <1>1, <1>2, <2>2, <3>1 DEF TidyStep
  <2> QED
    BY <2>1, <2>2
<1>8. AllFetchedInv'
  <2> SUFFICES ASSUME NEW x \in Scans, Fetched(x)' PROVE FetchedInv(x)'
    BY DEF AllFetchedInv
  <2>0. Fetched(x)
    BY <1>2 DEF Fetched, TidyRow
  <2>1. /\ FetchedInv(x)
        /\ x = s => TidyDirectory(k, s, from, to, new, found, results'[s])
    BY <2>0 DEF AllInv, StagingInv, AllFetchedInv
  <2>2. CASE x # s
    <3>1. /\ row'[x] = row[x] /\ staging'[x] = staging[x] /\ results'[x] = results[x]
          /\ upload'[x] = upload[x]
          /\ \A j \in Kinds, v \in Workers : pc'[j][v][x] = pc[j][v][x]
      BY <1>1, <1>2, <2>2
    <3> QED
      BY <2>1, <3>1 DEF FetchedInv, Fetched, Kinds
  <2>3. CASE x = s
    <3>1. upload'[s] = "done"
      BY <1>1, <2>1, <2>3 DEF FetchedInv
    <3>2. ASSUME NEW j \in Kinds, NEW v \in Workers, pc'[j][v][s] \in {"removed", "moved"}
          PROVE  staging'[s] = "absent"
      <4>1. CASE j = k /\ v = w
        BY <1>1, <1>2, <2>1, <2>3, <3>2, <4>1 DEF TidyDirectory
      <4>2. CASE ~(j = k /\ v = w)
        <5>1. pc[j][v][s] \in {"removed", "moved"} /\ staging[s] = "absent"
          BY <1>1, <2>1, <2>3, <3>2, <4>2 DEF FetchedInv
        <5>2. k # "job"
          BY <1>3, <4>2, <5>1 DEF Kinds
        <5> QED
          BY <1>2, <2>1, <2>3, <5>1, <5>2 DEF TidyDirectory
      <4> QED
        BY <4>1, <4>2
    <3>3. row'[s].cleanup = "OK" => staging'[s] = "absent"
      BY <1>2, <2>1, <2>3 DEF TidyDirectory
    <3>4. ASSUME NEW v \in Workers
          PROVE  /\ pc'["job"][v][s] \in {"transferred", "detect"} => staging'[s] = "file"
                 /\ s \in Locked => pc'["job"][v][s] \notin ScanningSteps
      <4>1. CASE k = "job" /\ v = w
        BY <1>1, <1>2, <2>1, <2>3, <4>1 DEF TidyDirectory
      <4>2. CASE ~(k = "job" /\ v = w)
        BY <1>1, <1>3, <4>2 DEF Kinds, ScanningSteps
      <4> QED
        BY <4>1, <4>2
    <3>5. s \in Locked => results'[s] = <<>> /\ row'[s].status \notin {"CLEAN", "INFECTED"}
      BY <1>2, <2>1, <2>3 DEF TidyDirectory
    <3> QED
      BY <2>3, <3>1, <3>2, <3>3, <3>4, <3>5 DEF FetchedInv
  <2> QED
    BY <2>2, <2>3
<1>9. EvidenceStays
  BY <1>2 DEF EvidenceStays, TidyStep, MustKeep, Kept
<1> QED
  BY <1>4, <1>5, <1>6, <1>7, <1>8, <1>9 DEF StagingInv, EvidenceInv

(* What a thread that has got to a step knows of its scan.                 *)
LEMMA ThreadKnows ==
  ASSUME AllInv, NEW k \in Kinds, NEW w \in Workers, NEW s \in Scans, pc[k][w][s] # "idle"
  PROVE  /\ row[s] \in Rows /\ staging[s] \in {"absent", "dir", "file"}
         /\ k = "job" => ~expired[s]
         /\ k = "sweep" => expired[s] /\ row[s].status \in Swept /\ row[s].applied = "null"
         /\ k = "job" /\ pc[k][w][s] \in BeforeVerdict \cup {"fail"} =>
              /\ row[s].status \in InProgress /\ row[s].applied = "null"
              /\ row[s].cleanup = "PENDING" /\ ~Kept(row[s])
         /\ pc[k][w][s] \in Disposing => row[s].status \in Terminal
         /\ k = "job" /\ pc[k][w][s] \in {"cleanup", "remove"} => ~Kept(row[s])
         /\ k = "job" /\ pc[k][w][s] \in {"delete", "delete_failed"} =>
              row[s].applied = "null"
         /\ Fetched(s) => FetchedInv(s)
         /\ row[s].status # "NONE"
<1>1. row[s] \in Rows /\ staging[s] \in {"absent", "dir", "file"}
  BY DEF AllInv, TypeOK
<1>2. (k = "job" => ~expired[s]) /\ (k = "sweep" => expired[s])
  BY DEF AllInv, TimelyInv, SweepsAreStale, JobsAreFresh, Running
<1>3. k = "sweep" => row[s].status \in Swept /\ row[s].applied = "null"
  BY <1>2 DEF AllInv, StagingInv, EvidenceInv, ExpiredHasNoVerdict
<1>4. k = "job" /\ pc[k][w][s] \in BeforeVerdict \cup {"fail"} => row[s].status \in InProgress
  BY DEF AllInv, TimelyInv, UndecidedInProgress, StagingInv, EvidenceInv, FailureComesFirst
<1>5. row[s].status \in InProgress =>
        row[s].applied = "null" /\ row[s].cleanup = "PENDING" /\ ~Kept(row[s])
  BY DEF AllInv, StagingInv, EvidenceInv, UnansweredIsBlank, Kept, InProgress, Terminal,
         Overlayable
<1>6. pc[k][w][s] \in Disposing => row[s].status \in Terminal
  BY DEF AllInv, StagingInv, EvidenceInv, DisposalIsAnswered
<1>7. k = "job" =>
        /\ pc[k][w][s] \in {"cleanup", "remove"} => ~Kept(row[s])
        /\ pc[k][w][s] \in {"delete", "delete_failed"} => row[s].applied = "null"
  BY DEF AllInv, StagingInv, EvidenceInv, RemovalIsDue
<1>8. row[s].status # "NONE"
  BY DEF AllInv, VerdictInv, UnclaimedIsUntouched
<1>9. Fetched(s) => FetchedInv(s)
  BY DEF AllInv, StagingInv, AllFetchedInv
<1> QED
  BY <1>1, <1>2, <1>3, <1>4, <1>5, <1>6, <1>7, <1>8, <1>9

(* A thread may leave its row as it is.                                    *)
LEMMA SameRowIsTidy ==
  ASSUME AllInv, NEW k \in Kinds, NEW w \in Workers, NEW s \in Scans, pc[k][w][s] # "idle"
  PROVE  TidyRow(s, row[s])
<1>1. row[s].status # "NONE"
  BY ThreadKnows
<1> QED
  BY <1>1 DEF TidyRow, AllInv, StagingInv, EvidenceInv, UnansweredIsBlank, ExpiredHasNoVerdict

(* An update_scan is tidy if the row it writes is.                         *)
LEMMA UpdateIsTidy ==
  ASSUME AllInv, NEW k \in Kinds, NEW w \in Workers, NEW s \in Scans,
         NEW from, NEW to, from # "idle", NEW new \in Rows, Update(k, w, s, from, to, new),
         TidyRow(s, new),
         to \in Disposing => new.status \in Terminal,
         k = "job" /\ to \in {"cleanup", "remove"} => ~Kept(new),
         k = "job" /\ to \in {"delete", "delete_failed"} => new.applied = "null",
         k = "job" /\ to = "fail" => new.status \in InProgress,
         Fetched(s) =>
           /\ to \in {"removed", "moved"} \/ new.cleanup = "OK" => staging[s] = "absent"
           /\ k = "job" /\ to \in {"transferred", "detect"} => staging[s] = "file"
           /\ s \in Locked => /\ new.status \notin {"CLEAN", "INFECTED"}
                              /\ k = "job" => to \notin ScanningSteps
  PROVE  StagingInv' /\ EvidenceStays
<1>1. pc[k][w][s] = from /\ Goto(k, w, s, from, to)
  BY DEF Update, Goto
<1>2. staging' = [staging EXCEPT ![s] = staging[s]] /\ UNCHANGED results
  BY DEF Update, AllInv, TypeOK
<1>3. Fetched(s) /\ s \in Locked => results[s] = <<>>
  BY <1>1, ThreadKnows DEF FetchedInv
<1>4. TidyStep(k, s, to, new, staging[s])
  BY DEF TidyStep
<1>5. Fetched(s) =>
        TidyDirectory(k, s, from, to, new, staging[s], results'[s])
  BY <1>2, <1>3 DEF TidyDirectory
<1>6. row' = [row EXCEPT ![s] = new] /\ \A x \in Scans \ {s} : results'[x] = results[x]
  BY <1>2 DEF Update
<1> QED
  BY <1>1, <1>2, <1>4, <1>5, <1>6, ThreadIsTidy

(* A step that leaves its row as it is updates it to itself.               *)
LEMMA PassIsUpdate ==
  ASSUME AllInv, NEW k \in Kinds, NEW w \in Workers, NEW s \in Scans, NEW from, NEW to,
         from # "idle", Pass(k, w, s, from, to)
  PROVE  /\ pc[k][w][s] = from /\ row[s] \in Rows
         /\ Update(k, w, s, from, to, row[s]) /\ TidyRow(s, row[s])
<1>1. pc[k][w][s] = from /\ row[s] \in Rows
  BY DEF Pass, Goto, AllInv, TypeOK
<1>2. Update(k, w, s, from, to, row[s])
  BY DEF Pass, Update, AllInv, TypeOK
<1>3. TidyRow(s, row[s])
  BY <1>1, SameRowIsTidy
<1> QED
  BY <1>1, <1>2, <1>3

(* The stages before the verdict note nothing but their progress.          *)
LEMMA StageIsTidy ==
  ASSUME AllInv, NEW w \in Workers, NEW s \in Scans, NEW from \in BeforeVerdict, NEW to,
         to \notin Disposing, NEW new \in Rows, Update("job", w, s, from, to, new),
         new.status = row[s].status \/ new.status \in InProgress,
         new.mode = row[s].mode, new.applied = row[s].applied, new.cleanup = row[s].cleanup,
         Fetched(s) =>
           /\ to \in {"transferred", "detect"} => staging[s] = "file"
           /\ s \in Locked /\ to \in ScanningSteps => from \in ScanningSteps
  PROVE  StagingInv' /\ EvidenceStays
<1>1. pc["job"][w][s] = from /\ from # "idle"
  BY DEF Update, Goto, BeforeVerdict
<1>2. /\ row[s].status \in InProgress /\ row[s].applied = "null" /\ row[s].cleanup = "PENDING"
      /\ ~expired[s] /\ (Fetched(s) => FetchedInv(s))
  BY <1>1, StepNames, ThreadKnows
<1>3. new.status \in InProgress /\ new.status \notin Terminal
  BY <1>2 DEF InProgress, Terminal, Overlayable
<1>4. TidyRow(s, new)
  BY <1>2, <1>3 DEF TidyRow, InProgress, Terminal, Overlayable
<1>5. to \notin {"cleanup", "remove", "removed", "moved", "delete", "delete_failed"}
  BY DEF Disposing
<1>6. Fetched(s) /\ s \in Locked =>
        new.status \notin {"CLEAN", "INFECTED"} /\ to \notin ScanningSteps
  BY <1>1, <1>2, <1>3 DEF FetchedInv, Terminal, Overlayable
<1> QED
  BY <1>1, <1>2, <1>3, <1>4, <1>5, <1>6, StepNames, UpdateIsTidy

(* Failing a scan and cleaning up after it.                                *)
LEMMA CleanupIsTidy ==
  ASSUME AllInv, NEW k \in Kinds, NEW w \in Workers, NEW s \in Scans, CleanupStep(k, w, s)
  PROVE  StagingInv' /\ EvidenceStays
<1> USE DEF Disposing
<1>0. row[s] \in Rows /\ \A x \in Scans \ {s} : UNCHANGED results => results'[x] = results[x]
  BY DEF AllInv, TypeOK
<1>1. CASE Fail(k, w, s)
  <2> DEFINE new == Failed(row[s])
  <2>1. pc[k][w][s] = "fail" /\ Update(k, w, s, "fail", "cleanup", new)
    BY <1>1 DEF Fail, Update, Goto
  <2>2. /\ new \in Rows /\ new.status = "ERROR" /\ new.mode = row[s].mode
        /\ new.applied = row[s].applied /\ new.cleanup = row[s].cleanup
    BY <1>0, FailedType DEF Failed, Rows
  <2> HIDE DEF new
  <2>3. TidyRow(s, new)
    BY <2>1, <2>2, ThreadKnows DEF TidyRow, Swept, Terminal, Overlayable, Kinds
  <2>4. k = "job" => ~Kept(new)
    BY <2>1, <2>2, ThreadKnows DEF Kept
  <2>5. new.status \in Terminal /\ new.status \notin {"CLEAN", "INFECTED"}
    BY <2>2 DEF Terminal, Overlayable
  <2>6. Fetched(s) /\ new.cleanup = "OK" => staging[s] = "absent"
    <3>1. Fetched(s) => FetchedInv(s)
      BY <2>1, ThreadKnows
    <3> QED
      BY <2>2, <3>1 DEF FetchedInv
  <2>7. "cleanup" \notin ScanningSteps
    BY DEF ScanningSteps
  <2> QED
    BY <2>1, <2>2, <2>3, <2>4, <2>5, <2>6, <2>7, UpdateIsTidy
<1>2. CASE Cleanup(k, w, s)
  <2> DEFINE to == IF staging[s] = "absent" THEN "removed" ELSE "remove"
  <2>1. Pass(k, w, s, "cleanup", to)
    BY <1>2 DEF Cleanup
  <2>2. pc[k][w][s] = "cleanup" /\ Update(k, w, s, "cleanup", to, row[s]) /\ TidyRow(s, row[s])
    BY <2>1, PassIsUpdate
  <2>3. Fetched(s) =>
          /\ to \in {"removed", "moved"} \/ row[s].cleanup = "OK" => staging[s] = "absent"
          /\ to \notin {"transferred", "detect"} \cup ScanningSteps
          /\ s \in Locked => row[s].status \notin {"CLEAN", "INFECTED"}
    BY <2>2, ThreadKnows DEF FetchedInv, ScanningSteps
  <2>4. /\ row[s].status \in Terminal /\ (k = "job" => ~Kept(row[s]))
        /\ to \notin {"fail", "delete", "delete_failed"}
    BY <2>2, ThreadKnows
  <2> HIDE DEF to
  <2> QED
    BY <1>0, <2>2, <2>3, <2>4, UpdateIsTidy
<1>3. CASE Remove(k, w, s)
  <2> PICK found \in {"absent", "dir", "file"}, to \in {"removed", "remove_failed"} :
        /\ to = "removed" => found = "absent"
        /\ found # "absent" => staging[s] # "absent"
        /\ Touch(k, w, s, "remove", to, found)
    BY <1>3 DEF Remove, AllInv, TypeOK
  <2>1. /\ pc[k][w][s] = "remove" /\ Goto(k, w, s, "remove", to)
        /\ staging' = [staging EXCEPT ![s] = found] /\ UNCHANGED <<results, row>>
    BY DEF Touch, Goto
  <2>2. TidyRow(s, row[s]) /\ row' = [row EXCEPT ![s] = row[s]]
    BY <2>1, SameRowIsTidy DEF AllInv, TypeOK
  <2>3. ~Kept(row[s])
    BY <2>1, ThreadKnows DEF Kinds, Kept, Swept, InProgress
  <2>4. TidyStep(k, s, to, row[s], found)
    BY <2>1, <2>3, ThreadKnows DEF TidyStep
  <2>5. Fetched(s) =>
          TidyDirectory(k, s, "remove", to, row[s], found, results'[s])
    BY <2>1, ThreadKnows DEF TidyDirectory, FetchedInv, ScanningSteps
  <2> QED
    BY <1>0, <2>1, <2>2, <2>4, <2>5, ThreadIsTidy
<1>4. CASE Removed(k, w, s)
  <2> DEFINE new == [row[s] EXCEPT !.cleanup = "OK"]
  <2>1. pc[k][w][s] = "removed" /\ Update(k, w, s, "removed", "idle", new)
    BY <1>4 DEF Removed, Update, Goto
  <2>2. /\ new \in Rows /\ new.status = row[s].status /\ new.mode = row[s].mode
        /\ new.applied = row[s].applied
    BY <1>0, ColumnValues DEF Rows
  <2> HIDE DEF new
  <2>3. TidyRow(s, new)
    BY <2>1, <2>2, ThreadKnows DEF TidyRow, Kinds
  <2>4. Fetched(s) =>
          staging[s] = "absent" /\ (s \in Locked => new.status \notin {"CLEAN", "INFECTED"})
    BY <2>1, <2>2, ThreadKnows DEF FetchedInv
  <2>5. "idle" \notin ScanningSteps
    BY DEF ScanningSteps
  <2> QED
    BY <2>1, <2>2, <2>3, <2>4, <2>5, UpdateIsTidy
<1>5. CASE RemoveFailed(k, w, s)
  <2> DEFINE new == [row[s] EXCEPT !.cleanup = "FAILED"]
  <2>1. pc[k][w][s] = "remove_failed" /\ Update(k, w, s, "remove_failed", "overlay", new)
    BY <1>5 DEF RemoveFailed, Update, Goto
  <2>2. /\ new \in Rows /\ new.status = row[s].status /\ new.mode = row[s].mode
        /\ new.applied = row[s].applied /\ new.cleanup = "FAILED"
    BY <1>0, ColumnValues DEF Rows
  <2> HIDE DEF new
  <2>3. TidyRow(s, new) /\ new.status \in Terminal
    BY <2>1, <2>2, ThreadKnows DEF TidyRow, Kinds
  <2>4. Fetched(s) /\ s \in Locked => new.status \notin {"CLEAN", "INFECTED"}
    BY <2>1, <2>2, ThreadKnows DEF FetchedInv
  <2>5. "overlay" \notin ScanningSteps
    BY DEF ScanningSteps
  <2> QED
    BY <2>1, <2>2, <2>3, <2>4, <2>5, UpdateIsTidy
<1>6. CASE Overlay(k, w, s)
  <2> DEFINE to == IF row[s].status \in Overlayable THEN "overlay_write" ELSE "idle"
  <2>1. Pass(k, w, s, "overlay", to)
    BY <1>6 DEF Overlay
  <2>2. pc[k][w][s] = "overlay" /\ Update(k, w, s, "overlay", to, row[s]) /\ TidyRow(s, row[s])
    BY <2>1, PassIsUpdate
  <2>3. Fetched(s) =>
          /\ row[s].cleanup = "OK" => staging[s] = "absent"
          /\ s \in Locked => row[s].status \notin {"CLEAN", "INFECTED"}
    BY <2>2, ThreadKnows DEF FetchedInv
  <2>4. /\ row[s].status \in Terminal
        /\ to \notin {"fail", "cleanup", "remove", "removed", "moved", "delete", "delete_failed",
                      "transferred", "detect"} \cup ScanningSteps
    BY <2>2, ThreadKnows DEF ScanningSteps
  <2> HIDE DEF to
  <2> QED
    BY <1>0, <2>2, <2>3, <2>4, UpdateIsTidy
<1>7. CASE OverlayWrite(k, w, s)
  <2> DEFINE new == [row[s] EXCEPT !.status = "CLEANUP_FAILED"]
  <2>1. pc[k][w][s] = "overlay_write" /\ Update(k, w, s, "overlay_write", "idle", new)
    BY <1>7 DEF OverlayWrite, Update, Goto
  <2>2. /\ new \in Rows /\ new.status = "CLEANUP_FAILED" /\ new.mode = row[s].mode
        /\ new.applied = row[s].applied /\ new.cleanup = row[s].cleanup
    BY <1>0, ColumnValues DEF Rows
  <2> HIDE DEF new
  <2>3. TidyRow(s, new)
    BY <2>1, <2>2, ThreadKnows DEF TidyRow, Kinds, Swept, Terminal
  <2>4. Fetched(s) /\ new.cleanup = "OK" => staging[s] = "absent"
    <3>1. Fetched(s) => FetchedInv(s)
      BY <2>1, ThreadKnows
    <3> QED
      BY <2>2, <3>1 DEF FetchedInv
  <2>5. "idle" \notin ScanningSteps
    BY DEF ScanningSteps
  <2> QED
    BY <2>1, <2>2, <2>3, <2>4, <2>5, UpdateIsTidy
<1> QED
  BY <1>1, <1>2, <1>3, <1>4, <1>5, <1>6, <1>7 DEF CleanupStep

(* A stage that moves on, and may leave the staging directory otherwise.   *)
LEMMA StageMoveIsTidy ==
  ASSUME AllInv, NEW w \in Workers, NEW s \in Scans, NEW from \in BeforeVerdict, NEW to,
         to \notin Disposing, Goto("job", w, s, from, to), UNCHANGED row,
         NEW found, staging' = [staging EXCEPT ![s] = found],
         \A x \in Scans : results'[x] = results[x],
         Fetched(s) =>
           /\ found # "absent" => staging[s] # "absent" \/ from \in {"fetch", "containers"}
           /\ to \in {"transferred", "detect"} => found = "file"
           /\ s \in Locked /\ to \in ScanningSteps => from \in ScanningSteps
  PROVE  StagingInv' /\ EvidenceStays
<1>1. pc["job"][w][s] = from /\ from # "idle"
  BY DEF Goto, BeforeVerdict
<1>2. /\ row[s] \in Rows /\ row[s].status \in InProgress /\ row[s].applied = "null"
      /\ row[s].cleanup = "PENDING" /\ ~Kept(row[s])
      /\ ~expired[s] /\ (Fetched(s) => FetchedInv(s))
  BY <1>1, StepNames, ThreadKnows
<1>3. TidyRow(s, row[s]) /\ row' = [row EXCEPT ![s] = row[s]]
  BY <1>1, StepNames, SameRowIsTidy DEF AllInv, TypeOK
<1>4. TidyStep("job", s, to, row[s], found)
  BY <1>2 DEF TidyStep, Disposing
<1>5. Fetched(s) =>
        TidyDirectory("job", s, from, to, row[s], found, results'[s])
  BY <1>1, <1>2 DEF TidyDirectory, FetchedInv, Disposing
<1> QED
  BY <1>1, <1>2, <1>3, <1>4, <1>5, StepNames, ThreadIsTidy

(* Moving an answered scan's directory to the quarantine.                  *)
LEMMA QuarantineIsTidy ==
  ASSUME AllInv, NEW w \in Workers, NEW s \in Scans,
         \/ DeleteFailed(w, s) \/ Quarantine(w, s)
         \/ MoveToQuarantine(w, s) \/ Moved(w, s)
  PROVE  StagingInv' /\ EvidenceStays
<1> USE StepNames DEF Disposing, ScanningSteps
<1>0. row[s] \in Rows /\ staging[s] \in {"absent", "dir", "file"}
  BY DEF AllInv, TypeOK
<1>1. CASE DeleteFailed(w, s)
  <2>1. /\ pc["job"][w][s] = "delete_failed"
        /\ Update("job", w, s, "delete_failed", DisposeInfected, row[s])
    BY <1>1 DEF DeleteFailed, Update, Goto
  <2>2. TidyRow(s, row[s])
    BY <2>1, ThreadKnows DEF TidyRow
  <2>3. /\ DisposeInfected \in {"quarantine", "cleanup"} /\ row[s].status \in Terminal
        /\ DisposeInfected = "cleanup" => ~Kept(row[s])
    BY <2>1, ThreadKnows DEF DisposeInfected, Kept
  <2>4. Fetched(s) =>
          /\ row[s].cleanup = "OK" => staging[s] = "absent"
          /\ s \in Locked => row[s].status \notin {"CLEAN", "INFECTED"}
    BY <2>1, ThreadKnows DEF FetchedInv
  <2> QED
    BY <1>0, <2>1, <2>2, <2>3, <2>4, UpdateIsTidy
<1>2. CASE Quarantine(w, s)
  <2> DEFINE to == IF staging[s] = "absent" THEN "removed" ELSE "move"
  <2>1. /\ pc["job"][w][s] = "quarantine" /\ TidyRow(s, row[s])
        /\ Update("job", w, s, "quarantine", to, row[s])
    BY <1>2, PassIsUpdate DEF Quarantine
  <2>2. Fetched(s) =>
          /\ to = "removed" \/ row[s].cleanup = "OK" => staging[s] = "absent"
          /\ s \in Locked => row[s].status \notin {"CLEAN", "INFECTED"}
    BY <2>1, ThreadKnows DEF FetchedInv
  <2>3. to \in {"removed", "move"} /\ row[s].status \in Terminal
    BY <2>1, ThreadKnows
  <2> HIDE DEF to
  <2> QED
    BY <1>0, <2>1, <2>2, <2>3, UpdateIsTidy
<1>3. CASE MoveToQuarantine(w, s)
  <2> PICK found \in {"absent", "dir", "file"}, to \in {"moved", "remove_failed"} :
        /\ Goto("job", w, s, "move", to) /\ staging' = [staging EXCEPT ![s] = found]
        /\ \/ found = "absent" /\ quarantined'[s]
           \/ found = staging[s] /\ to = "remove_failed"
    BY <1>0, <1>3 DEF MoveToQuarantine, AllInv, TypeOK
  <2>1. pc["job"][w][s] = "move" /\ UNCHANGED <<results, row>>
    BY <1>3 DEF MoveToQuarantine, Goto
  <2>2. /\ TidyRow(s, row[s]) /\ row' = [row EXCEPT ![s] = row[s]]
        /\ row[s].status \in Terminal
    BY <2>1, ThreadKnows DEF TidyRow, AllInv, TypeOK
  <2>3. TidyStep("job", s, to, row[s], found)
    BY <2>2 DEF TidyStep
  <2>4. Fetched(s) =>
          TidyDirectory("job", s, "move", to, row[s], found, results'[s])
    BY <2>1, ThreadKnows DEF TidyDirectory, FetchedInv
  <2> QED
    BY <1>0, <2>1, <2>2, <2>3, <2>4, ThreadIsTidy
<1>4. CASE Moved(w, s)
  <2> DEFINE new == [row[s] EXCEPT !.cleanup = "OK", !.path = "quarantine"]
  <2>1. pc["job"][w][s] = "moved" /\ Update("job", w, s, "moved", "idle", new)
    BY <1>4 DEF Moved, Update, Goto
  <2>2. /\ new \in Rows /\ new.status = row[s].status /\ new.mode = row[s].mode
        /\ new.applied = row[s].applied
    BY <1>0, ColumnValues DEF Rows
  <2> HIDE DEF new
  <2>3. TidyRow(s, new)
    BY <2>1, <2>2, ThreadKnows DEF TidyRow
  <2>4. Fetched(s) =>
          staging[s] = "absent" /\ (s \in Locked => new.status \notin {"CLEAN", "INFECTED"})
    BY <2>1, <2>2, ThreadKnows DEF FetchedInv
  <2> QED
    BY <2>1, <2>2, <2>3, <2>4, UpdateIsTidy
<1> QED
  BY <1>1, <1>2, <1>3, <1>4

(* The steps of a job that neither decide nor delete.                      *)
LEMMA UndecisiveIsTidy ==
  ASSUME AllInv, NEW w \in Workers, NEW s \in Scans, UndecisiveStep(w, s)
  PROVE  StagingInv' /\ EvidenceStays
<1> USE StepNames DEF BeforeVerdict, Disposing, ScanningSteps
<1>0. row[s] \in Rows /\ staging[s] \in {"absent", "dir", "file"}
  BY DEF AllInv, TypeOK
<1>1. CASE ResolveProfile(w, s)
  <2> PICK to \in {"refuse", "begin"} : Pass("job", w, s, "resolve", to)
    BY <1>1 DEF ResolveProfile
  <2>1. Update("job", w, s, "resolve", to, row[s])
    BY PassIsUpdate
  <2> QED
    BY <1>0, <2>1, StageIsTidy
<1>2. CASE Refuse(w, s) \/ RecordRaised(w, s)
  <2> DEFINE new == Failed(row[s])
  <2>1. PICK from \in {"refuse", "raised"} : Update("job", w, s, from, "idle", new)
    BY <1>2 DEF Refuse, RecordRaised
  <2>2. pc["job"][w][s] = from
    BY <2>1 DEF Update, Goto
  <2>3. /\ new \in Rows /\ new.status = "ERROR" /\ new.mode = row[s].mode
        /\ new.applied = row[s].applied /\ new.cleanup = row[s].cleanup
    BY <1>0, FailedType DEF Failed, Rows
  <2> HIDE DEF new
  <2>4. TidyRow(s, new)
    BY <2>2, <2>3, ThreadKnows DEF TidyRow, Terminal, Overlayable
  <2>5. Fetched(s) /\ new.cleanup = "OK" => staging[s] = "absent"
    <3>1. Fetched(s) => FetchedInv(s)
      BY <2>2, ThreadKnows
    <3> QED
      BY <2>3, <3>1 DEF FetchedInv
  <2> QED
    BY <2>1, <2>3, <2>4, <2>5, UpdateIsTidy
<1>3. CASE Begin(w, s)
  <2> DEFINE new == [row[s] EXCEPT !.status = "TRANSFERRING", !.path = "staging",
                                !.transfer = "PENDING"]
             to == IF Fetched(s) THEN "fetch" ELSE "transferred"
  <2>1. /\ new \in Rows /\ new.status \in InProgress
        /\ new.mode = row[s].mode /\ new.applied = row[s].applied
        /\ new.cleanup = row[s].cleanup
    BY <1>0, ColumnValues DEF Rows, InProgress
  <2> HIDE DEF new
  <2>2. pc["job"][w][s] = "begin" /\ Update("job", w, s, "begin", to, new)
    BY <1>3 DEF Begin, Update, Goto, new
  <2>3. Fetched(s) => to = "fetch"
    OBVIOUS
  <2>4. to \in {"fetch", "transferred"}
    OBVIOUS
  <2> HIDE DEF to
  <2> QED
    BY <2>1, <2>2, <2>3, <2>4, StageIsTidy
<1>4. CASE Fetch(w, s)
  <2> PICK to \in {"fetch_failed", "fetch_mismatch", "transferred"},
           found \in {"absent", "dir", "file"} :
        (to = "transferred" => found = "file") /\ Touch("job", w, s, "fetch", to, found)
    BY <1>0, <1>4 DEF Fetch
  <2>1. /\ Goto("job", w, s, "fetch", to) /\ staging' = [staging EXCEPT ![s] = found]
        /\ UNCHANGED <<row, results>>
    BY DEF Touch
  <2>2. "fetch" \in BeforeVerdict /\ to \notin Disposing /\ to \notin ScanningSteps
    OBVIOUS
  <2> QED
    BY <2>1, <2>2, StageMoveIsTidy
<1>5. CASE FetchFailed(w, s)
  <2> DEFINE failed == [row[s] EXCEPT !.transfer = "FAILED", !.detail = "SKIPPED"]
             wrong == [row[s] EXCEPT !.transfer = "OK", !.detail = "SKIPPED"]
  <2>1. \A new \in {failed, wrong} :
          /\ new \in Rows /\ new.status = row[s].status /\ new.mode = row[s].mode
          /\ new.applied = row[s].applied /\ new.cleanup = row[s].cleanup
    BY <1>0, ColumnValues DEF Rows
  <2>2. \/ Update("job", w, s, "fetch_failed", "fail", failed)
        \/ Update("job", w, s, "fetch_mismatch", "fail", wrong)
    BY <1>5 DEF FetchFailed
  <2> HIDE DEF failed, wrong
  <2> QED
    BY <2>1, <2>2, StageIsTidy
<1>6. CASE Transferred(w, s)
  <2> DEFINE new == [row[s] EXCEPT !.transfer = "OK"]
  <2>1. /\ new \in Rows /\ new.status = row[s].status
        /\ new.mode = row[s].mode /\ new.applied = row[s].applied
        /\ new.cleanup = row[s].cleanup
    BY <1>0, ColumnValues DEF Rows
  <2>2. Update("job", w, s, "transferred", "detect", new)
    BY <1>6 DEF Transferred
  <2>3. Fetched(s) => staging[s] = "file"
    <3>1. pc["job"][w][s] = "transferred"
      BY <2>2 DEF Update, Goto
    <3> QED
      BY <3>1, ThreadKnows DEF FetchedInv
  <2> HIDE DEF new
  <2> QED
    BY <2>1, <2>2, <2>3, StageIsTidy
<1>7. CASE Detect(w, s)
  <2> DEFINE to == IF staging[s] = "file" THEN "inspect" ELSE "scanning"
  <2>1. pc["job"][w][s] = "detect" /\ Update("job", w, s, "detect", to, row[s])
    BY <1>7, PassIsUpdate DEF Detect
  <2>2. Fetched(s) => to = "inspect"
    BY <2>1, ThreadKnows DEF FetchedInv
  <2>3. to \in {"inspect", "scanning"}
    OBVIOUS
  <2> HIDE DEF to
  <2> QED
    BY <1>0, <2>1, <2>2, <2>3, StageIsTidy
<1>8. CASE Inspect(w, s)
  <2> PICK to \in {"plain", "encrypted", "raised"} :
        (to = "plain" => s \notin Locked) /\ Pass("job", w, s, "inspect", to)
    BY <1>8 DEF Inspect
  <2>1. Update("job", w, s, "inspect", to, row[s])
    BY PassIsUpdate
  <2> QED
    BY <1>0, <2>1, StageIsTidy
<1>9. CASE RecordPlain(w, s)
  <2> DEFINE new == [row[s] EXCEPT !.encrypted = "no"]
  <2>1. /\ new.status = row[s].status \/ new.status \in InProgress
        /\ new \in Rows /\ new.mode = row[s].mode /\ new.applied = row[s].applied
        /\ new.cleanup = row[s].cleanup
    BY <1>0, ColumnValues DEF Rows, InProgress
  <2>2. Update("job", w, s, "plain", "scanning", new)
    BY <1>9 DEF RecordPlain
  <2> HIDE DEF new
  <2> QED
    BY <2>1, <2>2, StageIsTidy
<1>10. CASE RecordEncrypted(w, s)
  <2> PICK value \in {"yes", "null"} :
        Update("job", w, s, "encrypted", "decide", [row[s] EXCEPT !.encrypted = value])
    BY <1>10 DEF RecordEncrypted
  <2> DEFINE new == [row[s] EXCEPT !.encrypted = value]
  <2>1. /\ new \in Rows /\ new.status = row[s].status /\ new.mode = row[s].mode
        /\ new.applied = row[s].applied /\ new.cleanup = row[s].cleanup
    BY <1>0, ColumnValues DEF Rows
  <2>2. Update("job", w, s, "encrypted", "decide", new)
    OBVIOUS
  <2> HIDE DEF new
  <2> QED
    BY <2>1, <2>2, StageIsTidy
<1>11. CASE StartScanning(w, s)
  <2> DEFINE new == [row[s] EXCEPT !.status = "SCANNING"]
  <2>1. /\ new.status = row[s].status \/ new.status \in InProgress
        /\ new \in Rows /\ new.mode = row[s].mode /\ new.applied = row[s].applied
        /\ new.cleanup = row[s].cleanup
    BY <1>0, ColumnValues DEF Rows, InProgress
  <2>2. Update("job", w, s, "scanning", "scan", new)
    BY <1>11 DEF StartScanning
  <2> HIDE DEF new
  <2> QED
    BY <2>1, <2>2, StageIsTidy
<1>12. CASE FindStagedFile(w, s)
  <2> PICK to \in {"containers", "scan_failed"} : Pass("job", w, s, "scan", to)
    BY <1>12 DEF FindStagedFile
  <2>1. Update("job", w, s, "scan", to, row[s])
    BY PassIsUpdate
  <2> QED
    BY <1>0, <2>1, StageIsTidy
<1>13. CASE ScanFailed(w, s)
  <2> DEFINE new == [row[s] EXCEPT !.detail = "FAILED"]
  <2>1. /\ new.status = row[s].status \/ new.status \in InProgress
        /\ new \in Rows /\ new.mode = row[s].mode /\ new.applied = row[s].applied
        /\ new.cleanup = row[s].cleanup
    BY <1>0, ColumnValues DEF Rows, InProgress
  <2>2. Update("job", w, s, "scan_failed", "fail", new)
    BY <1>13 DEF ScanFailed
  <2> HIDE DEF new
  <2> QED
    BY <2>1, <2>2, StageIsTidy
<1>14. CASE Scanned(w, s)
  <2> DEFINE new == [row[s] EXCEPT !.detail = "OK"]
  <2>1. /\ new.status = row[s].status \/ new.status \in InProgress
        /\ new \in Rows /\ new.mode = row[s].mode /\ new.applied = row[s].applied
        /\ new.cleanup = row[s].cleanup
    BY <1>0, ColumnValues DEF Rows, InProgress
  <2>2. Update("job", w, s, "scanned", "results", new)
    BY <1>14 DEF Scanned
  <2> HIDE DEF new
  <2> QED
    BY <2>1, <2>2, StageIsTidy
<1>15. CASE DeleteFailed(w, s) \/ Quarantine(w, s) \/ MoveToQuarantine(w, s) \/ Moved(w, s)
  BY <1>15, QuarantineIsTidy
<1> QED
  BY <1>1, <1>2, <1>3, <1>4, <1>5, <1>6, <1>7, <1>8, <1>9, <1>10, <1>11, <1>12,
     <1>13, <1>14, <1>15 DEF UndecisiveStep

(* Running the scanners and storing what they report, never for a file     *)
(* that is not plain if the pipeline fetched it.                           *)
LEMMA ResultsAreTidy ==
  ASSUME AllInv, NEW w \in Workers, NEW s \in Scans, RunScanners(w, s) \/ InsertResults(w, s)
  PROVE  StagingInv' /\ EvidenceStays
<1> USE StepNames DEF BeforeVerdict, Disposing, ScanningSteps
<1>0. row[s] \in Rows /\ staging[s] \in {"absent", "dir", "file"}
  BY DEF AllInv, TypeOK
<1>1. CASE RunScanners(w, s)
  <2> PICK to \in {"scan_failed", "scanned"}, found \in {"absent", "dir", "file"} :
        /\ Goto("job", w, s, "containers", to) /\ staging' = [staging EXCEPT ![s] = found]
        /\ UNCHANGED <<row, results>>
    BY <1>0, <1>1 DEF RunScanners, Touch, AllInv, TypeOK
  <2>1. "containers" \in BeforeVerdict /\ to \notin Disposing /\ "containers" \in ScanningSteps
    OBVIOUS
  <2> QED
    BY <2>1, StageMoveIsTidy
<1>2. CASE InsertResults(w, s) /\ ~Storable(raw[w][s])
  <2>1. Update("job", w, s, "results", "raised", row[s])
    BY <1>2, PassIsUpdate DEF InsertResults
  <2> QED
    BY <1>0, <2>1, StageIsTidy
<1>3. CASE InsertResults(w, s) /\ Storable(raw[w][s])
  <2>1. /\ Goto("job", w, s, "results", "verdict") /\ UNCHANGED <<row, staging>>
        /\ \A x \in Scans \ {s} : results'[x] = results[x]
    BY <1>3 DEF InsertResults, AllInv, TypeOK
  <2>2. pc["job"][w][s] = "results"
    BY <2>1 DEF Goto
  <2>3. /\ TidyRow(s, row[s]) /\ row' = [row EXCEPT ![s] = row[s]]
        /\ staging' = [staging EXCEPT ![s] = staging[s]]
    BY <2>1, <2>2, ThreadKnows DEF TidyRow, AllInv, TypeOK
  <2>4. TidyStep("job", s, "verdict", row[s], staging[s])
    BY DEF TidyStep
  <2>5. Fetched(s) => FetchedInv(s) /\ row[s].cleanup = "PENDING"
    BY <2>2, ThreadKnows
  <2>6. Fetched(s) => s \notin Locked
    BY <2>2, <2>5 DEF FetchedInv
  <2>7. Fetched(s) =>
          TidyDirectory("job", s, "results", "verdict", row[s], staging[s], results'[s])
    BY <2>5, <2>6 DEF TidyDirectory
  <2> QED
    BY <1>0, <2>1, <2>3, <2>4, <2>7, ThreadIsTidy
<1> QED
  BY <1>1, <1>2, <1>3

(* A decision: the disposal it leads to is the one its answer allows.      *)
LEMMA DecisionIsTidy ==
  ASSUME AllInv, NEW w \in Workers, NEW s \in Scans, NEW from \in {"decide", "verdict"},
         NEW to \in {"delete", "quarantine", "cleanup"},
         NEW new \in Rows, Update("job", w, s, from, to, new),
         new.status \in Terminal, new.mode = row[s].mode, new.cleanup = row[s].cleanup,
         to = "cleanup" => ~Kept(new),
         to = "delete" => new.applied = "null" /\ from = "verdict",
         from = "decide" => new.status = "ENCRYPTED"
  PROVE  StagingInv' /\ EvidenceStays
<1>1. pc["job"][w][s] = from /\ from \in BeforeVerdict /\ from # "idle"
  BY DEF Update, Goto, BeforeVerdict
<1>2. ~expired[s] /\ row[s].cleanup = "PENDING" /\ (Fetched(s) => FetchedInv(s))
  BY <1>1, StepNames, ThreadKnows
<1>3. TidyRow(s, new)
  BY <1>2 DEF TidyRow, Terminal, Overlayable
<1>4. Fetched(s) /\ s \in Locked => from = "decide"
  BY <1>1, <1>2 DEF FetchedInv, ScanningSteps
<1>5. Fetched(s) /\ s \in Locked =>
        new.status \notin {"CLEAN", "INFECTED"} /\ to \notin ScanningSteps
  BY <1>4 DEF ScanningSteps
<1> QED
  BY <1>1, <1>2, <1>3, <1>5, StepNames, UpdateIsTidy

(* The encrypted-file policy keeps what it quarantines.                    *)
LEMMA DecideEncryptedIsTidy ==
  ASSUME AllInv, NEW w \in Workers, NEW s \in Scans, DecideEncrypted(w, s)
  PROVE  StagingInv' /\ EvidenceStays
<1> PICK p \in EncryptedPolicies :
      Update("job", w, s, "decide",
             IF ApplyEncryptedPolicy(p).quarantine THEN "quarantine" ELSE "cleanup",
             [row[s] EXCEPT !.status = ApplyEncryptedPolicy(p).status,
                            !.allowed = Answer(ApplyEncryptedPolicy(p).allowed),
                            !.applied = p])
  BY DEF DecideEncrypted
<1> DEFINE new == [row[s] EXCEPT !.status = ApplyEncryptedPolicy(p).status,
                                 !.allowed = Answer(ApplyEncryptedPolicy(p).allowed),
                                 !.applied = p]
           to == IF ApplyEncryptedPolicy(p).quarantine THEN "quarantine" ELSE "cleanup"
<1>1. /\ ApplyEncryptedPolicy(p).status = "ENCRYPTED"
      /\ Answer(ApplyEncryptedPolicy(p).allowed) \in Flags /\ p \in Applied
  BY ColumnValues DEF ApplyEncryptedPolicy, Answer, Applied
<1>2. "ENCRYPTED" \in Statuses /\ row[s] \in Rows
  BY ColumnValues DEF AllInv, TypeOK
<1>3. /\ new \in Rows /\ new.status = "ENCRYPTED" /\ new.mode = row[s].mode
      /\ new.cleanup = row[s].cleanup /\ new.applied = p
  BY <1>1, <1>2 DEF Rows
<1>4. /\ to \in {"quarantine", "cleanup"}
      /\ to = "cleanup" => p \notin {"QUARANTINE", "MARK_FOR_REVIEW"}
  BY DEF ApplyEncryptedPolicy
<1>5. Update("job", w, s, "decide", to, new)
  OBVIOUS
<1> HIDE DEF new, to
<1>6. new.status \in Terminal /\ (to = "cleanup" => ~Kept(new))
  BY <1>3, <1>4 DEF Terminal, Overlayable, Kept
<1> QED
  BY <1>3, <1>4, <1>5, <1>6, DecisionIsTidy

(* A verdict keeps an infected file if the settings retain it.             *)
LEMMA RecordVerdictIsTidy ==
  ASSUME AllInv, NEW w \in Workers, NEW s \in Scans, RecordVerdict(w, s)
  PROVE  StagingInv' /\ EvidenceStays
<1> PICK p \in Aggregations, to \in {"delete", "quarantine", "cleanup"} :
      /\ to = "cleanup" =>
           ~RetainInfected \/ AggregateScanResults(raw[w][s], p).status # "INFECTED"
      /\ Update("job", w, s, "verdict", to,
                [row[s] EXCEPT
                   !.status = AggregateScanResults(raw[w][s], p).status,
                   !.allowed = Answer(AggregateScanResults(raw[w][s], p).allowed)])
  BY DEF RecordVerdict, DisposeInfected
<1> DEFINE verdict == AggregateScanResults(raw[w][s], p)
           new == [row[s] EXCEPT !.status = verdict.status,
                                 !.allowed = Answer(verdict.allowed)]
<1>1. verdict.status \in ReportedStatus /\ Answer(verdict.allowed) \in Flags
  <2>1. raw[w][s] \in Seq(Status)
    BY RawType DEF AllInv
  <2> QED
    BY <2>1, VerdictType, ColumnValues DEF Answer
<1>2. row[s] \in Rows /\ verdict.status \in Statuses
  BY <1>1, ColumnValues DEF AllInv, TypeOK, ReportedStatus
<1>3. row[s].applied = "null"
  <2>1. pc["job"][w][s] = "verdict"
    BY DEF Update, Goto
  <2> QED
    BY <2>1, StepNames, ThreadKnows DEF BeforeVerdict
<1>4. /\ new \in Rows /\ new.status = verdict.status /\ new.mode = row[s].mode
      /\ new.cleanup = row[s].cleanup /\ new.applied = row[s].applied
  <2> HIDE DEF verdict
  <2> QED
    BY <1>1, <1>2 DEF Rows
<1>5. new.status \in Terminal
  BY <1>1, <1>4 DEF ReportedStatus, Terminal, Overlayable
<1>6. to = "cleanup" => ~Kept(new)
  BY <1>3, <1>4 DEF Kept
<1>7. Update("job", w, s, "verdict", to, new)
  OBVIOUS
<1> HIDE DEF new, verdict
<1> QED
  BY <1>3, <1>4, <1>5, <1>6, <1>7, DecisionIsTidy

(* Deleting the source leaves row and staging alone.                       *)
LEMMA DeleteSourceIsTidy ==
  ASSUME AllInv, NEW w \in Workers, NEW s \in Scans, DeleteSource(w, s)
  PROVE  StagingInv' /\ EvidenceStays
<1> PICK to \in {DisposeInfected, "delete_failed"} :
      Goto("job", w, s, "delete", to) /\ UNCHANGED <<row, staging, results>>
  BY DEF DeleteSource
<1>1. /\ pc["job"][w][s] = "delete" /\ row[s] \in Rows
      /\ row' = [row EXCEPT ![s] = row[s]] /\ staging' = [staging EXCEPT ![s] = staging[s]]
  BY DEF Goto, AllInv, TypeOK
<1>2. /\ row[s].status \in Terminal /\ row[s].applied = "null" /\ ~expired[s]
      /\ (Fetched(s) => FetchedInv(s))
  BY <1>1, StepNames, ThreadKnows DEF Disposing
<1>3. TidyRow(s, row[s])
  BY <1>1, StepNames, SameRowIsTidy
<1>4. to \in {"quarantine", "cleanup", "delete_failed"} /\ (to = "cleanup" => ~RetainInfected)
  BY DEF DisposeInfected
<1>5. TidyStep("job", s, to, row[s], staging[s])
  BY <1>2, <1>4 DEF TidyStep, Kept
<1>6. Fetched(s) =>
        TidyDirectory("job", s, "delete", to, row[s], staging[s], results'[s])
  BY <1>1, <1>2, <1>4 DEF TidyDirectory, FetchedInv, ScanningSteps
<1> QED
  BY <1>1, <1>3, <1>5, <1>6, StepNames, ThreadIsTidy

(* A failing database call leaves row and staging alone.                   *)
LEMMA RaiseIsTidy ==
  ASSUME AllInv, NEW k \in Kinds, NEW w \in Workers, NEW s \in Scans, Raise(k, w, s)
  PROVE  StagingInv' /\ EvidenceStays
<1> PICK to \in {"raised", "idle"} : Goto(k, w, s, pc[k][w][s], to)
  BY DEF Raise
<1>1. /\ pc[k][w][s] # "idle" /\ row[s] \in Rows /\ UNCHANGED results
      /\ row' = [row EXCEPT ![s] = row[s]] /\ staging' = [staging EXCEPT ![s] = staging[s]]
  BY DEF Raise, NeverRaises, AllInv, TypeOK
<1>2. Fetched(s) => FetchedInv(s)
  BY <1>1, ThreadKnows
<1>3. TidyRow(s, row[s])
  BY <1>1, SameRowIsTidy
<1>4. to \notin Disposing \cup ScanningSteps
  BY DEF Disposing, ScanningSteps
<1>5. TidyStep(k, s, to, row[s], staging[s])
  BY <1>4 DEF TidyStep
<1>6. Fetched(s) =>
        TidyDirectory(k, s, pc[k][w][s], to, row[s], staging[s], results'[s])
  BY <1>1, <1>2, <1>4 DEF TidyDirectory, FetchedInv
<1> QED
  BY <1>1, <1>3, <1>5, <1>6, ThreadIsTidy

-----------------------------------------------------------------------------
(* Steps outside the threads                                               *)

(* Steps that change no row but its path, and remove no file.              *)
LEMMA QuietIsTidy ==
  ASSUME AllInv,
         \A x \in Scans : /\ row'[x].status = row[x].status /\ row'[x].mode = row[x].mode
                         /\ row'[x].applied = row[x].applied
                         /\ row'[x].cleanup = row[x].cleanup,
         \A k \in Kinds, w \in Workers, x \in Scans :
           \/ pc'[k][w][x] \in {"idle", pc[k][w][x]}
           \/ k = "sweep" /\ pc'[k][w][x] = "fail",
         \A x \in Scans : expired'[x] => expired[x] \/ row[x].status \in InProgress,
         \A x \in Scans : staging[x] = "file" => staging'[x] = "file",
         UNCHANGED results,
         \A x \in Scans : Fetched(x) => staging'[x] = staging[x] /\ upload'[x] = "done"
  PROVE  StagingInv' /\ EvidenceStays
<1>1. UnansweredIsBlank' /\ NewIsBlank'
  BY DEF AllInv, StagingInv, EvidenceInv, UnansweredIsBlank, NewIsBlank
<1>2. DisposalIsAnswered'
  BY DEF AllInv, StagingInv, EvidenceInv, DisposalIsAnswered, Disposing
<1>3. ExpiredHasNoVerdict'
  <2> SUFFICES ASSUME NEW x \in Scans, expired'[x]
               PROVE  row'[x].status \in Swept /\ row'[x].applied = "null"
    BY DEF ExpiredHasNoVerdict
  <2>1. CASE expired[x]
    BY <2>1 DEF AllInv, StagingInv, EvidenceInv, ExpiredHasNoVerdict
  <2>2. CASE row[x].status \in InProgress
    BY <2>2 DEF AllInv, StagingInv, EvidenceInv, UnansweredIsBlank, Swept, InProgress,
                Terminal, Overlayable
  <2> QED
    BY <2>1, <2>2
<1>4. RemovalIsDue' /\ FailureComesFirst'
  <2>1. \A w \in Workers, x \in Scans : pc'["job"][w][x] \in {"idle", pc["job"][w][x]}
    BY DEF Kinds
  <2> QED
    BY <2>1 DEF AllInv, StagingInv, EvidenceInv, RemovalIsDue, FailureComesFirst, Kept
<1>5. AllFetchedInv'
  <2> SUFFICES ASSUME NEW x \in Scans, Fetched(x)' PROVE FetchedInv(x)'
    BY DEF AllFetchedInv
  <2>1. FetchedInv(x) /\ staging'[x] = staging[x] /\ upload'[x] = "done"
    BY DEF Fetched, AllInv, StagingInv, AllFetchedInv
  <2>2. \A k \in Kinds, w \in Workers :
          pc'[k][w][x] \in {"removed", "moved"} => pc[k][w][x] \in {"removed", "moved"}
    OBVIOUS
  <2>3. \A w \in Workers : pc'["job"][w][x] \in {"idle", pc["job"][w][x]}
    BY DEF Kinds
  <2> QED
    BY <2>1, <2>2, <2>3 DEF FetchedInv, Fetched, ScanningSteps
<1>6. EvidenceStays
  BY DEF EvidenceStays
<1> QED
  BY <1>1, <1>2, <1>3, <1>4, <1>5, <1>6 DEF StagingInv, EvidenceInv

(* A new row, and a claim of one: nothing is noted of the scan yet.        *)
LEMMA UnclaimedIsTidy ==
  ASSUME AllInv, NEW s \in Scans, row[s].status \in {"NONE", "RECEIVED"},
         NEW new \in Rows, row' = [row EXCEPT ![s] = new],
         new.status \in {"RECEIVED", "VALIDATING"},
         new.applied = row[s].applied, new.cleanup = row[s].cleanup,
         new.mode # "null", new.mode = row[s].mode \/ row[s].status = "NONE",
         \A x \in Scans : x # s /\ Fetched(x) => upload'[x] = "done",
         new.mode = "ansible_fetch" => upload'[s] = "done",
         \A k \in Kinds, v \in Workers, x \in Scans :
           \/ pc'[k][v][x] = pc[k][v][x]
           \/ x = s /\ pc'[k][v][x] = "resolve",
         UNCHANGED <<staging, results, expired>>
  PROVE  StagingInv' /\ EvidenceStays
<1>1. row'[s] = new /\ \A x \in Scans \ {s} : row'[x] = row[x]
  BY DEF AllInv, TypeOK
<1>2. /\ row[s].status \notin Terminal /\ row[s].applied = "null" /\ row[s].cleanup = "PENDING"
      /\ ~expired[s] /\ \A k \in Kinds, v \in Workers : pc[k][v][s] = "idle"
      /\ row[s].status = "NONE" => results[s] = <<>>
  BY DEF AllInv, VerdictInv, UnclaimedIsUntouched, TimelyInv, UnclaimedIsFresh,
         StagingInv, EvidenceInv, UnansweredIsBlank, NewIsBlank, Terminal, Overlayable
<1>3. /\ new.status \notin Terminal /\ new.applied = "null" /\ new.cleanup = "PENDING"
      /\ new.status \notin {"NONE", "CLEAN", "INFECTED"}
  BY <1>2 DEF Terminal, Overlayable
<1>4. \A k \in Kinds, v \in Workers : pc'[k][v][s] \in {"idle", "resolve"}
  BY <1>2
<1>5. UnansweredIsBlank' /\ NewIsBlank'
  BY <1>1, <1>3 DEF AllInv, StagingInv, EvidenceInv, UnansweredIsBlank, NewIsBlank
<1>6. DisposalIsAnswered'
  BY <1>1, <1>4 DEF AllInv, StagingInv, EvidenceInv, DisposalIsAnswered, Disposing
<1>7. ExpiredHasNoVerdict'
  BY <1>1, <1>2 DEF AllInv, StagingInv, EvidenceInv, ExpiredHasNoVerdict
<1>8. RemovalIsDue' /\ FailureComesFirst'
  <2>1. \A w \in Workers, x \in Scans :
          \/ x # s /\ pc'["job"][w][x] = pc["job"][w][x]
          \/ x = s /\ pc'["job"][w][x] \in {"idle", "resolve"}
    BY <1>4 DEF Kinds
  <2> QED
    BY <1>1, <2>1 DEF AllInv, StagingInv, EvidenceInv, RemovalIsDue, FailureComesFirst, Kept
<1>9. AllFetchedInv'
  <2> SUFFICES ASSUME NEW x \in Scans, Fetched(x)' PROVE FetchedInv(x)'
    BY DEF AllFetchedInv
  <2>2. CASE x # s
    <3>1. row'[x] = row[x] /\ \A k \in Kinds, v \in Workers : pc'[k][v][x] = pc[k][v][x]
      BY <1>1, <2>2
    <3>2. Fetched(x) /\ FetchedInv(x) /\ upload'[x] = "done"
      BY <2>2, <3>1 DEF Fetched, AllInv, StagingInv, AllFetchedInv
    <3> QED
      BY <3>1, <3>2 DEF FetchedInv, Kinds
  <2>3. CASE x = s
    <3>1. \A v \in Workers : pc'["job"][v][x] \in {"idle", "resolve"}
      BY <1>4, <2>3 DEF Kinds
    <3>2. upload'[x] = "done"
      BY <1>1, <2>3 DEF Fetched
    <3>3. results[x] = <<>> \/ x \notin Locked
      <4>1. row[s].status # "NONE" => Fetched(s)
        BY <1>1, <2>3 DEF Fetched
      <4> QED
        BY <1>2, <2>3, <4>1 DEF AllInv, StagingInv, AllFetchedInv, FetchedInv
    <3> QED
      BY <1>1, <1>3, <1>4, <2>3, <3>1, <3>2, <3>3 DEF FetchedInv, ScanningSteps
  <2> QED
    BY <2>2, <2>3
<1>10. EvidenceStays
  BY DEF EvidenceStays
<1> QED
  BY <1>5, <1>6, <1>7, <1>8, <1>9, <1>10 DEF StagingInv, EvidenceInv

(* The endpoints; and a row that expires is in progress.                   *)
LEMMA SubmissionIsTidy ==
  ASSUME AllInv, NEW s \in Scans, SubmitStep(s) \/ Expire(s) \/ ApiCrash
  PROVE  StagingInv' /\ EvidenceStays
<1>0. \A x \in Scans : /\ staging[x] \in {"absent", "dir", "file"} /\ row[x] \in Rows
                       /\ Fetched(x) => upload[x] = "done"
  BY DEF AllInv, TypeOK, StagingInv, AllFetchedInv, FetchedInv
<1>1. ASSUME NEW mode \in Modes, CreateScan(s, mode), upload[s] = "idle",
             UNCHANGED <<results, staging, pc, expired>>,
             NEW to, upload' = [upload EXCEPT ![s] = to], to = "done" \/ mode # "ansible_fetch"
      PROVE  StagingInv' /\ EvidenceStays
  <2> DEFINE new == [row[s] EXCEPT !.status = "RECEIVED", !.mode = mode]
  <2>1. /\ new \in Rows /\ new.status = "RECEIVED" /\ new.mode = mode
        /\ new.applied = row[s].applied /\ new.cleanup = row[s].cleanup
    BY <1>0, ColumnValues DEF Rows, ModeColumn
  <2>2. row' = [row EXCEPT ![s] = new]
    BY <1>1 DEF CreateScan, AllInv, TypeOK
  <2>3. row[s].status = "NONE"
    BY <1>1 DEF AllInv, VerdictInv, UnclaimedIsUntouched
  <2>4. /\ \A x \in Scans : x # s /\ Fetched(x) => upload'[x] = "done"
        /\ mode = "ansible_fetch" => upload'[s] = "done"
        /\ mode # "null"
    BY <1>0, <1>1, ScansAssumption DEF AllInv, TypeOK
  <2> HIDE DEF new
  <2> QED
    BY <1>1, <2>1, <2>2, <2>3, <2>4, UnclaimedIsTidy
<1>2. CASE InsertRowOnly(s)
  BY <1>1, <1>2 DEF InsertRowOnly, disk
<1>3. CASE UploadInsert(s)
  BY <1>1, <1>3 DEF UploadInsert, UploadStep
<1>4. CASE UploadMakeDir(s) \/ UploadPlaceFile(s) \/ UploadRecordPathFails(s)
  <2>1. \A x \in Scans : Fetched(x) => staging'[x] = staging[x] /\ upload'[x] = "done"
    <3>1. ~Fetched(s)
      BY <1>0, <1>4 DEF UploadMakeDir, UploadPlaceFile, UploadRecordPathFails, UploadStep
    <3>2. \A x \in Scans \ {s} : staging'[x] = staging[x] /\ upload'[x] = upload[x]
      BY <1>4 DEF UploadMakeDir, UploadPlaceFile, UploadRecordPathFails, UploadStep,
                  AllInv, TypeOK
    <3> QED
      BY <1>0, <3>1, <3>2
  <2>2. \A x \in Scans : staging[x] = "file" => staging'[x] = "file"
    BY <1>4 DEF UploadMakeDir, UploadPlaceFile, UploadRecordPathFails, AllInv, TypeOK
  <2>3. UNCHANGED <<row, pc, expired, results>>
    BY <1>4 DEF UploadMakeDir, UploadPlaceFile, UploadRecordPathFails, UploadStep
  <2> QED
    BY <2>1, <2>2, <2>3, QuietIsTidy
<1>5. CASE UploadRecordPath(s)
  <2>1. UNCHANGED <<staging, pc, expired, results>>
    BY <1>5 DEF UploadRecordPath, UploadStep
  <2>3. \A x \in Scans : Fetched(x) => upload'[x] = "done"
    BY <1>0, <1>5 DEF UploadRecordPath, UploadStep, AllInv, TypeOK
  <2>2. \A x \in Scans : /\ row'[x].status = row[x].status /\ row'[x].mode = row[x].mode
                        /\ row'[x].applied = row[x].applied
                        /\ row'[x].cleanup = row[x].cleanup
    BY <1>5 DEF UploadRecordPath, AllInv, TypeOK, Rows
  <2> QED
    BY <2>1, <2>2, <2>3, QuietIsTidy
<1>6. CASE Expire(s)
  <2>1. \A x \in Scans : expired'[x] => expired[x] \/ row[x].status \in InProgress
    BY <1>6 DEF Expire, AllInv, TypeOK
  <2>2. UNCHANGED <<row, staging, pc, upload, results>>
    BY <1>6 DEF Expire, disk
  <2> QED
    BY <1>0, <2>1, <2>2, QuietIsTidy
<1>7. CASE ApiCrash
  <2>1. UNCHANGED <<row, staging, pc, expired, results>>
    BY <1>7 DEF ApiCrash, disk
  <2>2. \A x \in Scans : Fetched(x) => upload'[x] = "done"
    BY <1>0, <1>7 DEF ApiCrash
  <2> QED
    BY <2>1, <2>2, QuietIsTidy
<1> QED
  BY <1>2, <1>3, <1>4, <1>5, <1>6, <1>7 DEF SubmitStep

(* A worker's main loop: a claim, a sweep, a crash.                        *)
LEMMA MainLoopIsTidy ==
  ASSUME AllInv, NEW w \in Workers,
         \/ Sweep(w) \/ WorkerCrash(w)
         \/ \E s \in Scans : Claim(w, s) \/ ClaimLost(w, s)
  PROVE  StagingInv' /\ EvidenceStays
<1>0. \A x \in Scans : row[x] \in Rows /\ (Fetched(x) => upload[x] = "done")
  BY DEF AllInv, TypeOK, StagingInv, AllFetchedInv, FetchedInv
<1>1. CASE Sweep(w)
  <2>1. \A k \in Kinds, v \in Workers, x \in Scans :
          \/ pc'[k][v][x] \in {"idle", pc[k][v][x]}
          \/ k = "sweep" /\ pc'[k][v][x] = "fail"
    BY <1>1 DEF Sweep, AllInv, TypeOK
  <2>2. UNCHANGED <<row, staging, upload, expired, results>>
    BY <1>1 DEF Sweep, disk
  <2> QED
    BY <1>0, <2>1, <2>2, QuietIsTidy
<1>2. CASE WorkerCrash(w)
  <2>1. \A k \in Kinds, v \in Workers, x \in Scans : pc'[k][v][x] \in {"idle", pc[k][v][x]}
    BY <1>2 DEF WorkerCrash, AllInv, TypeOK
  <2>2. UNCHANGED <<row, staging, upload, expired, results>>
    BY <1>2 DEF WorkerCrash, disk
  <2> QED
    BY <1>0, <2>1, <2>2, QuietIsTidy
<1>3. ASSUME NEW s \in Scans, Claim(w, s) \/ ClaimLost(w, s)
      PROVE  StagingInv' /\ EvidenceStays
  <2> DEFINE new == [row[s] EXCEPT !.status = "VALIDATING"]
  <2>1. /\ new \in Rows /\ new.status = "VALIDATING" /\ new.mode = row[s].mode
        /\ new.applied = row[s].applied /\ new.cleanup = row[s].cleanup
    BY <1>0, ColumnValues DEF Rows
  <2>2. row' = [row EXCEPT ![s] = new]
    BY <1>3 DEF Claim, ClaimLost, AllInv, TypeOK
  <2>3. row[s].status = "RECEIVED" /\ UNCHANGED <<staging, upload, expired, results>>
    BY <1>3 DEF Claim, ClaimLost, disk
  <2>4. /\ new.mode # "null" /\ (new.mode = "ansible_fetch" => upload'[s] = "done")
        /\ \A x \in Scans : x # s /\ Fetched(x) => upload'[x] = "done"
    BY <1>0, <2>1, <2>3 DEF AllInv, StagingInv, EvidenceInv, NewIsBlank, Fetched
  <2>5. \A k \in Kinds, v \in Workers, x \in Scans :
          \/ pc'[k][v][x] = pc[k][v][x]
          \/ x = s /\ pc'[k][v][x] = "resolve"
    <3>1. CASE Claim(w, s)
      <4>1. pc' = [pc EXCEPT !["job"][w][s] = "resolve"]
        BY <3>1 DEF Claim
      <4> QED
        BY <4>1 DEF AllInv, TypeOK
    <3>2. CASE ClaimLost(w, s)
      BY <3>2 DEF ClaimLost
    <3> QED
      BY <1>3, <3>1, <3>2
  <2> HIDE DEF new
  <2> QED
    BY <1>0, <2>1, <2>2, <2>3, <2>4, <2>5, UnclaimedIsTidy
<1> QED
  BY <1>1, <1>2, <1>3

-----------------------------------------------------------------------------
(* At first there is nothing to keep and nothing to remove.                *)
LEMMA StagingInit == Init => StagingInv
BY DEF Init, NoRow, StagingInv, EvidenceInv, UnansweredIsBlank, NewIsBlank, DisposalIsAnswered,
       ExpiredHasNoVerdict, RemovalIsDue, FailureComesFirst, AllFetchedInv, FetchedInv,
       Fetched, Disposing, ScanningSteps, Kinds

(* Every step keeps the invariant and the evidence.                        *)
LEMMA StagingStep == AllInv /\ [Next]_vars => StagingInv' /\ EvidenceStays
<1> SUFFICES ASSUME AllInv, [Next]_vars PROVE StagingInv' /\ EvidenceStays
  OBVIOUS
<1>1. CASE Next
  <2>1. ASSUME NEW s \in Scans, SubmitStep(s) \/ Expire(s)
        PROVE  StagingInv' /\ EvidenceStays
    BY <2>1, SubmissionIsTidy
  <2>2. CASE ApiCrash
    <3> PICK s \in Scans : TRUE
      BY <2>2 DEF ApiCrash
    <3> QED
      BY <2>2, SubmissionIsTidy
  <2>3. ASSUME NEW w \in Workers, Sweep(w) \/ WorkerCrash(w)
        PROVE  StagingInv' /\ EvidenceStays
    BY <2>3, MainLoopIsTidy
  <2>4. ASSUME NEW w \in Workers, NEW s \in Scans, Claim(w, s) \/ ClaimLost(w, s)
        PROVE  StagingInv' /\ EvidenceStays
    BY <2>4, MainLoopIsTidy
  <2>5. ASSUME NEW w \in Workers, NEW s \in Scans, JobStep(w, s)
        PROVE  StagingInv' /\ EvidenceStays
    BY <2>5, UndecisiveIsTidy, DecideEncryptedIsTidy, ResultsAreTidy, RecordVerdictIsTidy,
       DeleteSourceIsTidy, CleanupIsTidy, StepNames DEF JobStep, UndecisiveStep
  <2>6. ASSUME NEW w \in Workers, NEW s \in Scans, CleanupStep("sweep", w, s)
        PROVE  StagingInv' /\ EvidenceStays
    BY <2>6, CleanupIsTidy, StepNames
  <2>7. ASSUME NEW w \in Workers, NEW s \in Scans, NEW k \in Kinds, Raise(k, w, s)
        PROVE  StagingInv' /\ EvidenceStays
    BY <2>7, RaiseIsTidy
  <2> QED
    BY <1>1, <2>1, <2>2, <2>3, <2>4, <2>5, <2>6, <2>7 DEF Next
<1>2. CASE UNCHANGED vars
  <2>1. UNCHANGED <<row, staging, pc, upload, expired, results>>
    BY <1>2 DEF vars
  <2>2. \A x \in Scans : Fetched(x) => upload[x] = "done"
    BY DEF AllInv, StagingInv, AllFetchedInv, FetchedInv
  <2> QED
    BY <2>1, <2>2, QuietIsTidy
<1> QED
  BY <1>1, <1>2

(* All the invariants of the pipeline hold in every reachable state.       *)
LEMMA StagingInvariant ==
  ASSUME LifetimeCoversJobs
  PROVE  Spec => []AllInv
<1>1. Init => StagingInv
  BY StagingInit
<1>2. TypeOK /\ VerdictInv /\ TimelyInv /\ StagingInv /\ [Next]_vars => StagingInv'
  BY StagingStep DEF AllInv
<1>3. TypeOK /\ VerdictInv /\ TimelyInv /\ StagingInv => AllInv
  BY DEF AllInv
<1> QED
  BY <1>1, <1>2, <1>3, TimelyInvariant, PTL DEF Spec

(* Provided that no live job outlasts the staging lifetime, no cleanup,    *)
(* sweep, crash or late upload removes a staged file that policy wants     *)
(* kept except by moving it to the quarantine, direct uploads included.    *)
THEOREM EvidenceIsKept ==
  ASSUME LifetimeCoversJobs
  PROVE  Spec => EvidenceKept
<1>1. AllInv /\ [Next]_vars =>
        [\A s \in Scans : MustKeep(s) /\ staging[s] = "file" =>
           staging'[s] = "file" \/ quarantined'[s]]_vars
  BY StagingStep DEF EvidenceStays
<1> QED
  BY <1>1, StagingInvariant, PTL DEF Spec, EvidenceKept

(* Under the same proviso, of a scan whose file the pipeline fetches, also  *)
(* next to direct uploads: a cleanup recorded as OK removed the directory,  *)
(* and a file that detect_encryption does not call plain is not scanned.    *)
THEOREM FetchedScansAreTidy ==
  ASSUME LifetimeCoversJobs
  PROVE  Spec => [](\A s \in Scans : Fetched(s) =>
                      /\ row[s].cleanup = "OK" => staging[s] = "absent"
                      /\ s \in Locked =>
                           results[s] = <<>> /\ row[s].status \notin {"CLEAN", "INFECTED"})
<1>1. AllInv => \A s \in Scans : Fetched(s) =>
                  /\ row[s].cleanup = "OK" => staging[s] = "absent"
                  /\ s \in Locked =>
                       results[s] = <<>> /\ row[s].status \notin {"CLEAN", "INFECTED"}
  BY DEF AllInv, StagingInv, AllFetchedInv, FetchedInv
<1> QED
  BY <1>1, StagingInvariant, PTL

(* Without direct uploads a scan is fetched or has no row yet.             *)
LEMMA FetchedOrNew ==
  ASSUME "direct_upload" \notin Modes, AllInv, NEW s \in Scans
  PROVE  \/ Fetched(s) /\ FetchedInv(s)
         \/ row[s].status = "NONE" /\ row[s].cleanup = "PENDING" /\ results[s] = <<>>
<1>1. row[s].mode \in {"null", "ansible_fetch"}
  <2>1. row[s] \in Rows
    BY DEF AllInv, TypeOK
  <2> QED
    BY <2>1, ScansAssumption DEF Rows, ModeColumn
<1>2. CASE row[s].mode = "null"
  BY <1>2 DEF AllInv, StagingInv, EvidenceInv, NewIsBlank, UnansweredIsBlank, Terminal,
              Overlayable
<1>3. CASE row[s].mode = "ansible_fetch"
  BY <1>3 DEF AllInv, StagingInv, AllFetchedInv, Fetched
<1> QED
  BY <1>1, <1>2, <1>3

(* Of a pipeline that fetches its files itself, cleanup_status OK means    *)
(* that the staging directory is gone, in every reachable state.           *)
THEOREM RecordedCleanupsHold ==
  ASSUME LifetimeCoversJobs, "direct_upload" \notin Modes
  PROVE  Spec => []CleanupOkMeansGone
<1>1. AllInv => CleanupOkMeansGone
  BY FetchedOrNew DEF CleanupOkMeansGone, FetchedInv
<1> QED
  BY <1>1, StagingInvariant, PTL

(* No scanner judges a file of such a pipeline that detect_encryption does *)
(* not call plain: the encrypted-file policy is its whole verdict.         *)
THEOREM EncryptedIsNotScanned ==
  ASSUME LifetimeCoversJobs, "direct_upload" \notin Modes
  PROVE  Spec => []EncryptedSkipsScanners
<1>1. AllInv => EncryptedSkipsScanners
  BY ScansAssumption, FetchedOrNew DEF EncryptedSkipsScanners, FetchedInv
<1> QED
  BY <1>1, StagingInvariant, PTL

-----------------------------------------------------------------------------
(* Where the evidence is                                                   *)

(* A job at one of these steps has found the file and not moved it yet.    *)
Holding == {"inspect", "encrypted", "decide", "containers", "scanned", "results", "verdict",
            "delete", "delete_failed", "quarantine", "move"}

HoldersHaveTheFile ==
  \A w \in Workers, s \in Scans :
    /\ pc["job"][w][s] \in Holding => staging[s] = "file"
    /\ pc["job"][w][s] = "moved" => quarantined[s]
    /\ pc["job"][w][s] = "removed" => ~Kept(row[s])

KeptIsSomewhere == \A s \in Scans : Kept(row[s]) => staging[s] = "file" \/ quarantined[s]

KeptIsShown ==
  \A s \in Scans : Fetched(s) /\ Kept(row[s]) /\ row[s].cleanup = "OK" =>
    row[s].path = "quarantine" /\ quarantined[s]

PlaceInv == HoldersHaveTheFile /\ KeptIsSomewhere /\ KeptIsShown

(* A step that concerns one scan only, and takes nothing out of quarantine *)
Concerns(s) ==
  /\ \A x \in Scans \ {s} : row'[x] = row[x] /\ staging'[x] = staging[x]
  /\ \A x \in Scans : quarantined[x] => quarantined'[x]
  /\ row'[s].mode = row[s].mode

(* A thread that goes on to `to' leaves the file where its row wants it.   *)
KeepsPlace(k, s, to) ==
  /\ k = "job" => /\ to \in Holding => staging'[s] = "file"
                  /\ to = "moved" => quarantined'[s]
                  /\ to = "removed" => ~Kept(row'[s])
  /\ Kept(row'[s]) => staging'[s] = "file" \/ quarantined'[s]
  /\ Fetched(s) /\ Kept(row'[s]) /\ row'[s].cleanup = "OK" =>
       row'[s].path = "quarantine" /\ quarantined'[s]

(* Nothing else depends on a thread's step: no other job runs its scan.    *)
LEMMA ThreadKeepsPlace ==
  ASSUME AllInv, PlaceInv, NEW k \in Kinds, NEW w \in Workers, NEW s \in Scans,
         NEW from, NEW to, from # "idle", Goto(k, w, s, from, to),
         Concerns(s), KeepsPlace(k, s, to)
  PROVE  PlaceInv'
<1>1. /\ pc[k][w][s] = from /\ pc'[k][w][s] = to
      /\ \A j \in Kinds, v \in Workers, x \in Scans :
           j # k \/ v # w \/ x # s => pc'[j][v][x] = pc[j][v][x]
  BY DEF Goto, AllInv, TypeOK
<1>2. /\ k = "job" => \A v \in Workers \ {w} : pc["job"][v][s] = "idle"
      /\ k = "sweep" => \A v \in Workers : pc["job"][v][s] = "idle"
  BY <1>1 DEF AllInv, VerdictInv, OneRunnerPerScan, TimelyInv, SweepsAreStale, JobsAreFresh,
              Running
<1>3. HoldersHaveTheFile'
  <2> SUFFICES ASSUME NEW v \in Workers, NEW x \in Scans
               PROVE  /\ pc'["job"][v][x] \in Holding => staging'[x] = "file"
                      /\ pc'["job"][v][x] = "moved" => quarantined'[x]
                      /\ pc'["job"][v][x] = "removed" => ~Kept(row'[x])
    BY DEF HoldersHaveTheFile, Kept
  <2>1. CASE x # s
    BY <1>1, <2>1 DEF Concerns, PlaceInv, HoldersHaveTheFile, Kinds
  <2>2. CASE x = s /\ k = "job" /\ v = w
    BY <1>1, <2>2 DEF KeepsPlace
  <2>3. CASE x = s /\ ~(k = "job" /\ v = w)
    <3>1. pc'["job"][v][x] = "idle"
      BY <1>1, <1>2, <2>3 DEF Kinds
    <3> QED
      BY <3>1 DEF Holding
  <2> QED
    BY <2>1, <2>2, <2>3
<1>4. KeptIsSomewhere'
  BY DEF Concerns, PlaceInv, KeptIsSomewhere, KeepsPlace, Kept
<1>5. KeptIsShown'
  <2> SUFFICES ASSUME NEW x \in Scans, Fetched(x)', Kept(row'[x]), row'[x].cleanup = "OK"
               PROVE  row'[x].path = "quarantine" /\ quarantined'[x]
    BY DEF KeptIsShown, Kept
  <2>1. Fetched(x)
    BY DEF Concerns, Fetched
  <2> QED
    BY <2>1 DEF Concerns, PlaceInv, KeptIsShown, KeepsPlace
<1> QED
  BY <1>3, <1>4, <1>5 DEF PlaceInv

(* A thread is free with the file of a row that does not want it kept.     *)
LEMMA UnkeptKeepsPlace ==
  ASSUME AllInv, PlaceInv, NEW k \in Kinds, NEW w \in Workers, NEW s \in Scans,
         NEW from, NEW to, from # "idle", Goto(k, w, s, from, to),
         Concerns(s), ~Kept(row'[s]),
         k = "job" => to # "moved" /\ (to \in Holding => staging'[s] = "file")
  PROVE  PlaceInv'
<1>1. KeepsPlace(k, s, to)
  BY DEF KeepsPlace
<1> QED
  BY <1>1, ThreadKeepsPlace

(* A thread may record a failure: what was kept is kept where it was.      *)
LEMMA RestKeepsPlace ==
  ASSUME AllInv, PlaceInv, NEW k \in Kinds, NEW w \in Workers, NEW s \in Scans,
         NEW from, NEW to, from # "idle", Goto(k, w, s, from, to),
         Concerns(s), staging'[s] = staging[s],
         Kept(row'[s]) => /\ Kept(row[s]) /\ row'[s].path = row[s].path
                          /\ row'[s].cleanup \in {row[s].cleanup, "FAILED"},
         to \notin Holding \cup {"moved", "removed"}
  PROVE  PlaceInv'
<1>1. KeepsPlace(k, s, to)
  BY DEF KeepsPlace, Concerns, PlaceInv, KeptIsSomewhere, KeptIsShown
<1> QED
  BY <1>1, ThreadKeepsPlace

(* An update_scan, and a step that leaves its row alone.                   *)
LEMMA UpdateConcerns ==
  ASSUME AllInv, NEW k \in Kinds, NEW w \in Workers, NEW s \in Scans, NEW from, NEW to,
         NEW new \in Rows, Update(k, w, s, from, to, new), new.mode = row[s].mode
  PROVE  /\ Goto(k, w, s, from, to) /\ pc[k][w][s] = from
         /\ row'[s] = new /\ staging'[s] = staging[s] /\ quarantined'[s] = quarantined[s]
         /\ Concerns(s)
BY DEF Update, Goto, Concerns, AllInv, TypeOK

LEMMA PassConcerns ==
  ASSUME AllInv, NEW k \in Kinds, NEW w \in Workers, NEW s \in Scans, NEW from, NEW to,
         Pass(k, w, s, from, to)
  PROVE  /\ Goto(k, w, s, from, to) /\ pc[k][w][s] = from
         /\ row'[s] = row[s] /\ staging'[s] = staging[s] /\ quarantined'[s] = quarantined[s]
         /\ Concerns(s)
BY DEF Pass, Goto, Concerns, AllInv, TypeOK

LEMMA TouchConcerns ==
  ASSUME AllInv, NEW k \in Kinds, NEW w \in Workers, NEW s \in Scans, NEW from, NEW to,
         NEW found, Touch(k, w, s, from, to, found)
  PROVE  /\ Goto(k, w, s, from, to) /\ pc[k][w][s] = from
         /\ row'[s] = row[s] /\ staging'[s] = found /\ quarantined'[s] = quarantined[s]
         /\ Concerns(s)
BY DEF Touch, Goto, Concerns, AllInv, TypeOK

(* A job before its verdict knows nothing yet that would keep the file.    *)
LEMMA StageKeepsPlace ==
  ASSUME AllInv, PlaceInv, NEW w \in Workers, NEW s \in Scans, NEW from \in BeforeVerdict,
         NEW to, Goto("job", w, s, from, to), Concerns(s),
         row'[s].applied = row[s].applied,
         row'[s].status = row[s].status \/ row'[s].status \in InProgress,
         to # "moved", to \in Holding => staging'[s] = "file"
  PROVE  PlaceInv'
<1>1. from # "idle" /\ pc["job"][w][s] = from
  BY DEF Goto, BeforeVerdict
<1>2. row[s].status \in InProgress /\ row[s].applied = "null"
  BY <1>1, StepNames, ThreadKnows
<1>3. ~Kept(row'[s])
  BY <1>2 DEF Kept, InProgress
<1> QED
  BY <1>1, <1>3, StepNames, UnkeptKeepsPlace

(* Failing a scan and cleaning up after it.                                *)
LEMMA CleanupKeepsPlace ==
  ASSUME AllInv, PlaceInv, NEW k \in Kinds, NEW w \in Workers, NEW s \in Scans,
         CleanupStep(k, w, s)
  PROVE  PlaceInv'
<1> USE DEF Holding
<1>0. row[s] \in Rows
  BY DEF AllInv, TypeOK
<1>1. CASE Fail(k, w, s) \/ RemoveFailed(k, w, s) \/ OverlayWrite(k, w, s)
  <2> PICK from \in {"fail", "remove_failed", "overlay_write"},
           to \in {"cleanup", "overlay", "idle"}, new \in Rows :
        /\ Update(k, w, s, from, to, new)
        /\ new.mode = row[s].mode /\ new.path = row[s].path /\ new.applied = row[s].applied
        /\ new.cleanup \in {row[s].cleanup, "FAILED"}
        /\ new.status \in {row[s].status, "ERROR", "CLEANUP_FAILED"}
    <3>1. CASE Fail(k, w, s)
      BY <1>0, <3>1, FailedType DEF Fail, Failed, Rows
    <3>2. CASE RemoveFailed(k, w, s)
      <4>1. [row[s] EXCEPT !.cleanup = "FAILED"] \in Rows
        BY <1>0, ColumnValues DEF Rows
      <4> QED
        BY <1>0, <3>2, <4>1 DEF RemoveFailed, Rows
    <3>3. CASE OverlayWrite(k, w, s)
      <4>1. [row[s] EXCEPT !.status = "CLEANUP_FAILED"] \in Rows
        BY <1>0, ColumnValues DEF Rows
      <4> QED
        BY <1>0, <3>3, <4>1 DEF OverlayWrite, Rows
    <3> QED
      BY <1>1, <3>1, <3>2, <3>3
  <2>1. Kept(new) => Kept(row[s])
    BY DEF Kept
  <2>2. /\ Goto(k, w, s, from, to) /\ row'[s] = new /\ staging'[s] = staging[s]
        /\ Concerns(s)
    BY UpdateConcerns
  <2> QED
    BY <2>1, <2>2, RestKeepsPlace
<1>2. CASE Overlay(k, w, s)
  <2> PICK to \in {"overlay_write", "idle"} : Pass(k, w, s, "overlay", to)
    BY <1>2 DEF Overlay
  <2> QED
    BY PassConcerns, RestKeepsPlace
<1>3. CASE Cleanup(k, w, s) \/ Remove(k, w, s)
  <2> PICK from \in {"cleanup", "remove"}, to \in {"removed", "remove", "remove_failed"} :
        /\ Goto(k, w, s, from, to) /\ pc[k][w][s] = from
        /\ row'[s] = row[s] /\ Concerns(s)
    BY <1>3, PassConcerns, TouchConcerns DEF Cleanup, Remove
  <2>1. ~Kept(row'[s])
    BY ThreadKnows DEF Kinds, Kept, Swept, InProgress
  <2> QED
    BY <2>1, UnkeptKeepsPlace
<1>4. CASE Removed(k, w, s)
  <2> DEFINE new == [row[s] EXCEPT !.cleanup = "OK"]
  <2>1. Update(k, w, s, "removed", "idle", new)
    BY <1>4 DEF Removed
  <2>2. /\ new \in Rows /\ new.mode = row[s].mode /\ new.status = row[s].status
        /\ new.applied = row[s].applied
    BY <1>0, ColumnValues DEF Rows
  <2> HIDE DEF new
  <2>3. /\ pc[k][w][s] = "removed" /\ Goto(k, w, s, "removed", "idle") /\ Concerns(s)
        /\ row'[s] = new
    BY <2>1, <2>2, UpdateConcerns
  <2>4. ~Kept(row[s])
    <3>1. CASE k = "job"
      BY <2>3, <3>1 DEF PlaceInv, HoldersHaveTheFile
    <3>2. CASE k = "sweep"
      BY <2>3, <3>2, ThreadKnows DEF Kept, Swept, InProgress
    <3> QED
      BY <3>1, <3>2 DEF Kinds
  <2>5. ~Kept(row'[s])
    BY <2>2, <2>3, <2>4 DEF Kept
  <2> QED
    BY <2>3, <2>5, UnkeptKeepsPlace
<1> QED
  BY <1>1, <1>2, <1>3, <1>4 DEF CleanupStep

(* A job that disposes of what a verdict wants kept moves the file, and    *)
(* says so.                                                                *)
LEMMA QuarantineKeepsPlace ==
  ASSUME AllInv, PlaceInv, NEW w \in Workers, NEW s \in Scans,
         \/ DeleteSource(w, s) \/ DeleteFailed(w, s) \/ Quarantine(w, s)
         \/ MoveToQuarantine(w, s) \/ Moved(w, s)
  PROVE  PlaceInv'
<1> USE StepNames DEF Holding
<1>0. /\ row[s] \in Rows /\ staging[s] \in {"absent", "dir", "file"}
      /\ pc["job"][w][s] \in Holding => staging[s] = "file"
      /\ pc["job"][w][s] = "moved" => quarantined[s]
      /\ Kept(row[s]) => staging[s] = "file" \/ quarantined[s]
      /\ Fetched(s) /\ Kept(row[s]) /\ row[s].cleanup = "OK" =>
           row[s].path = "quarantine" /\ quarantined[s]
  BY DEF AllInv, TypeOK, PlaceInv, HoldersHaveTheFile, KeptIsSomewhere, KeptIsShown
<1>1. CASE DeleteSource(w, s) \/ DeleteFailed(w, s) \/ Quarantine(w, s)
  <2> PICK from \in {"delete", "delete_failed", "quarantine"},
           to \in {"delete_failed", "quarantine", "cleanup", "move"} :
        /\ Goto("job", w, s, from, to) /\ pc["job"][w][s] = from
        /\ row'[s] = row[s] /\ staging'[s] = staging[s] /\ quarantined'[s] = quarantined[s]
        /\ Concerns(s)
    <3>1. CASE DeleteSource(w, s)
      BY <3>1 DEF DeleteSource, DisposeInfected, Goto, Concerns
    <3>2. CASE DeleteFailed(w, s)
      BY <1>0, <3>2, UpdateConcerns DEF DeleteFailed, DisposeInfected
    <3>3. CASE Quarantine(w, s)
      <4>1. staging[s] = "file"
        BY <1>0, <3>3 DEF Quarantine, Pass, Goto
      <4> QED
        BY <3>3, <4>1, PassConcerns DEF Quarantine
    <3> QED
      BY <1>1, <3>1, <3>2, <3>3
  <2>1. KeepsPlace("job", s, to)
    BY <1>0 DEF KeepsPlace
  <2> QED
    BY <2>1, ThreadKeepsPlace
<1>2. CASE MoveToQuarantine(w, s)
  <2>1. pc["job"][w][s] = "move" /\ staging[s] = "file"
    BY <1>0, <1>2 DEF MoveToQuarantine, Goto
  <2> PICK to \in {"moved", "remove_failed"} :
        /\ Goto("job", w, s, "move", to)
        /\ quarantined'[s] \/ (staging'[s] = "file" /\ to = "remove_failed")
    BY <1>2, <2>1 DEF MoveToQuarantine, AllInv, TypeOK
  <2>2. row' = row /\ Concerns(s)
    BY <1>2 DEF MoveToQuarantine, Concerns, AllInv, TypeOK
  <2>3. KeepsPlace("job", s, to)
    BY <1>0, <2>2 DEF KeepsPlace, Concerns
  <2> QED
    BY <2>2, <2>3, ThreadKeepsPlace
<1>3. CASE Moved(w, s)
  <2> DEFINE new == [row[s] EXCEPT !.cleanup = "OK", !.path = "quarantine"]
  <2>1. Update("job", w, s, "moved", "idle", new)
    BY <1>3 DEF Moved
  <2>2. new \in Rows /\ new.mode = row[s].mode /\ new.path = "quarantine"
    BY <1>0, ColumnValues DEF Rows
  <2> HIDE DEF new
  <2>3. /\ Goto("job", w, s, "moved", "idle") /\ pc["job"][w][s] = "moved" /\ Concerns(s)
        /\ row'[s] = new /\ quarantined'[s] = quarantined[s]
    BY <2>1, <2>2, UpdateConcerns
  <2>4. KeepsPlace("job", s, "idle")
    BY <1>0, <2>2, <2>3 DEF KeepsPlace
  <2> QED
    BY <2>3, <2>4, ThreadKeepsPlace
<1> QED
  BY <1>1, <1>2, <1>3

(* A decision to keep a file is about a file that is there.                *)
LEMMA DecisionKeepsPlace ==
  ASSUME AllInv, PlaceInv, NEW w \in Workers, NEW s \in Scans,
         NEW from \in {"decide", "verdict"}, NEW to \in {"delete", "quarantine", "cleanup"},
         Goto("job", w, s, from, to), Concerns(s), row'[s].cleanup = row[s].cleanup,
         staging'[s] = staging[s]
  PROVE  PlaceInv'
<1>1. pc["job"][w][s] = from /\ staging[s] = "file"
  BY DEF Goto, PlaceInv, HoldersHaveTheFile, Holding
<1>2. row[s].cleanup = "PENDING"
  BY <1>1, StepNames, ThreadKnows DEF BeforeVerdict
<1>3. KeepsPlace("job", s, to)
  BY <1>1, <1>2 DEF KeepsPlace
<1> QED
  BY <1>3, StepNames, ThreadKeepsPlace

LEMMA VerdictKeepsPlace ==
  ASSUME AllInv, PlaceInv, NEW w \in Workers, NEW s \in Scans,
         DecideEncrypted(w, s) \/ RecordVerdict(w, s)
  PROVE  PlaceInv'
<1>1. row[s] \in Rows
  BY DEF AllInv, TypeOK
<1>2. CASE DecideEncrypted(w, s)
  <2> PICK p \in EncryptedPolicies, to \in {"quarantine", "cleanup"} :
        Update("job", w, s, "decide", to,
               [row[s] EXCEPT !.status = ApplyEncryptedPolicy(p).status,
                              !.allowed = Answer(ApplyEncryptedPolicy(p).allowed),
                              !.applied = p])
    BY <1>2 DEF DecideEncrypted
  <2>1. /\ Goto("job", w, s, "decide", to) /\ Concerns(s)
        /\ row'[s].cleanup = row[s].cleanup /\ staging'[s] = staging[s]
    BY <1>1 DEF Update, Concerns, AllInv, TypeOK, Rows
  <2> QED
    BY <2>1, DecisionKeepsPlace
<1>3. CASE RecordVerdict(w, s)
  <2> PICK p \in Aggregations, to \in {"delete", "quarantine", "cleanup"} :
        Update("job", w, s, "verdict", to,
               [row[s] EXCEPT
                  !.status = AggregateScanResults(raw[w][s], p).status,
                  !.allowed = Answer(AggregateScanResults(raw[w][s], p).allowed)])
    BY <1>3 DEF RecordVerdict, DisposeInfected
  <2>1. /\ Goto("job", w, s, "verdict", to) /\ Concerns(s)
        /\ row'[s].cleanup = row[s].cleanup /\ staging'[s] = staging[s]
    BY <1>1 DEF Update, Concerns, AllInv, TypeOK, Rows
  <2> QED
    BY <2>1, DecisionKeepsPlace
<1> QED
  BY <1>2, <1>3

(* The stages of a job before its verdict.                                 *)
LEMMA StagesKeepPlace ==
  ASSUME AllInv, PlaceInv, NEW w \in Workers, NEW s \in Scans,
         \/ ResolveProfile(w, s) \/ Begin(w, s) \/ Fetch(w, s) \/ FetchFailed(w, s)
         \/ Transferred(w, s) \/ Detect(w, s) \/ Inspect(w, s) \/ RecordPlain(w, s)
         \/ RecordEncrypted(w, s) \/ StartScanning(w, s) \/ FindStagedFile(w, s)
         \/ RunScanners(w, s) \/ ScanFailed(w, s) \/ Scanned(w, s) \/ InsertResults(w, s)
  PROVE  PlaceInv'
<1> USE StepNames DEF BeforeVerdict, Holding
<1>0. /\ row[s] \in Rows
      /\ pc["job"][w][s] \in Holding => staging[s] = "file"
  BY DEF AllInv, TypeOK, PlaceInv, HoldersHaveTheFile
<1>1. CASE ResolveProfile(w, s) \/ Detect(w, s) \/ Inspect(w, s) \/ FindStagedFile(w, s)
  <2> PICK from \in {"resolve", "detect", "inspect", "scan"},
           to \in {"refuse", "begin", "inspect", "scanning", "plain", "encrypted", "raised",
                   "containers", "scan_failed"} :
        Pass("job", w, s, from, to) /\ (to \in Holding => staging[s] = "file")
    <3>1. CASE ResolveProfile(w, s)
      BY <3>1 DEF ResolveProfile
    <3>2. CASE Detect(w, s)
      BY <3>2 DEF Detect
    <3>3. CASE Inspect(w, s)
      BY <1>0, <3>3 DEF Inspect, Pass, Goto
    <3>4. CASE FindStagedFile(w, s)
      BY <3>4 DEF FindStagedFile
    <3> QED
      BY <1>1, <3>1, <3>2, <3>3, <3>4
  <2>1. /\ Goto("job", w, s, from, to) /\ Concerns(s) /\ row'[s] = row[s]
        /\ staging'[s] = staging[s]
    BY PassConcerns
  <2> QED
    BY <2>1, StageKeepsPlace
<1>2. CASE \/ Begin(w, s) \/ FetchFailed(w, s) \/ Transferred(w, s) \/ RecordPlain(w, s)
           \/ RecordEncrypted(w, s) \/ StartScanning(w, s) \/ ScanFailed(w, s)
           \/ Scanned(w, s)
  <2> DEFINE Progress(new) ==
        /\ new \in Rows /\ new.mode = row[s].mode /\ new.applied = row[s].applied
        /\ new.status = row[s].status \/ new.status \in InProgress
  <2>1. /\ Progress([row[s] EXCEPT !.status = "TRANSFERRING", !.path = "staging",
                                   !.transfer = "PENDING"])
        /\ Progress([row[s] EXCEPT !.transfer = "FAILED", !.detail = "SKIPPED"])
        /\ Progress([row[s] EXCEPT !.transfer = "OK", !.detail = "SKIPPED"])
        /\ Progress([row[s] EXCEPT !.transfer = "OK"])
    BY <1>0, ColumnValues DEF Rows, InProgress
  <2>2. /\ Progress([row[s] EXCEPT !.encrypted = "no"])
        /\ \A value \in {"yes", "null"} : Progress([row[s] EXCEPT !.encrypted = value])
        /\ Progress([row[s] EXCEPT !.status = "SCANNING"])
        /\ Progress([row[s] EXCEPT !.detail = "FAILED"])
        /\ Progress([row[s] EXCEPT !.detail = "OK"])
    BY <1>0, ColumnValues DEF Rows, InProgress
  <2> HIDE DEF Progress
  <2> PICK from \in {"begin", "fetch_failed", "fetch_mismatch", "transferred", "plain",
                     "encrypted", "scanning", "scan_failed", "scanned"},
           to \in {"fetch", "transferred", "fail", "detect", "scanning", "decide", "scan",
                   "results"},
           new \in Rows :
        /\ Progress(new) /\ Update("job", w, s, from, to, new)
        /\ to \in Holding => from \in Holding
    <3>1. \A n : Progress(n) => n \in Rows
      BY DEF Progress
    <3>2. CASE Begin(w, s) \/ FetchFailed(w, s) \/ Transferred(w, s)
      BY <2>1, <3>1, <3>2 DEF Begin, FetchFailed, Transferred
    <3>3. CASE RecordPlain(w, s) \/ StartScanning(w, s) \/ ScanFailed(w, s) \/ Scanned(w, s)
      BY <2>2, <3>1, <3>3 DEF RecordPlain, StartScanning, ScanFailed, Scanned
    <3>4. CASE RecordEncrypted(w, s)
      BY <2>2, <3>1, <3>4 DEF RecordEncrypted
    <3> QED
      BY <1>2, <3>2, <3>3, <3>4
  <2>3. /\ new \in Rows /\ new.mode = row[s].mode /\ new.applied = row[s].applied
        /\ new.status = row[s].status \/ new.status \in InProgress
    BY DEF Progress
  <2>4. /\ Goto("job", w, s, from, to) /\ pc["job"][w][s] = from /\ row'[s] = new
        /\ staging'[s] = staging[s] /\ Concerns(s)
    BY <2>3, UpdateConcerns
  <2>5. to \in Holding => staging'[s] = "file"
    BY <1>0, <2>4
  <2> QED
    BY <2>3, <2>4, <2>5, StageKeepsPlace
<1>3. CASE Fetch(w, s) \/ RunScanners(w, s) \/ InsertResults(w, s)
  <2> PICK from \in {"fetch", "containers", "results"},
           to \in {"fetch_failed", "fetch_mismatch", "transferred", "scan_failed", "scanned",
                   "verdict", "raised"} :
        /\ Goto("job", w, s, from, to) /\ pc["job"][w][s] = from /\ Concerns(s)
        /\ row'[s] = row[s] /\ (to \in Holding => from \in Holding /\ staging'[s] = staging[s])
    <3>1. CASE Fetch(w, s)
      BY <3>1, TouchConcerns DEF Fetch
    <3>2. CASE RunScanners(w, s)
      BY <3>2, TouchConcerns DEF RunScanners, Goto, Concerns
    <3>3. CASE InsertResults(w, s)
      BY <3>3, PassConcerns DEF InsertResults, Goto, Concerns
    <3> QED
      BY <1>3, <3>1, <3>2, <3>3
  <2>1. to \in Holding => staging'[s] = "file"
    BY <1>0
  <2> QED
    BY <2>1, StageKeepsPlace
<1> QED
  BY <1>1, <1>2, <1>3

(* An exception, recorded or not, leaves the file where it is.             *)
LEMMA RaiseKeepsPlace ==
  ASSUME AllInv, PlaceInv, NEW k \in Kinds, NEW w \in Workers, NEW s \in Scans,
         Raise(k, w, s) \/ (k = "job" /\ (Refuse(w, s) \/ RecordRaised(w, s)))
  PROVE  PlaceInv'
<1> USE DEF Holding
<1>1. CASE Raise(k, w, s)
  <2> PICK to \in {"raised", "idle"} : Goto(k, w, s, pc[k][w][s], to)
    BY <1>1 DEF Raise
  <2>1. /\ pc[k][w][s] # "idle" /\ row'[s] = row[s] /\ staging'[s] = staging[s]
        /\ Concerns(s)
    BY <1>1 DEF Raise, NeverRaises, Concerns
  <2> QED
    BY <2>1, RestKeepsPlace
<1>2. CASE k = "job" /\ (Refuse(w, s) \/ RecordRaised(w, s))
  <2> DEFINE new == Failed(row[s])
  <2> PICK from \in {"refuse", "raised"} : Update("job", w, s, from, "idle", new)
    BY <1>2 DEF Refuse, RecordRaised
  <2>1. row[s] \in Rows
    BY DEF AllInv, TypeOK
  <2>2. /\ new \in Rows /\ new.mode = row[s].mode /\ new.path = row[s].path
        /\ new.cleanup = row[s].cleanup /\ new.status = "ERROR"
        /\ new.applied = row[s].applied
    BY <2>1, FailedType DEF Failed, Rows
  <2> HIDE DEF new
  <2>3. Kept(new) => Kept(row[s])
    BY <2>2 DEF Kept
  <2>4. /\ Goto("job", w, s, from, "idle") /\ row'[s] = new /\ staging'[s] = staging[s]
        /\ Concerns(s)
    BY <2>2, StepNames, UpdateConcerns
  <2> QED
    BY <2>2, <2>3, <2>4, StepNames, RestKeepsPlace
<1> QED
  BY <1>1, <1>2

(* Steps outside the threads remove no file, and no row they change wants  *)
(* one kept, but for the path of a direct upload.                          *)
LEMMA OutsideKeepsPlace ==
  ASSUME AllInv, PlaceInv,
         \A x \in Scans : Kept(row'[x]) => Kept(row[x]),
         \A x \in Scans : row'[x].mode = "ansible_fetch" /\ Kept(row'[x]) => row'[x] = row[x],
         \A x \in Scans : staging[x] = "file" => staging'[x] = "file",
         UNCHANGED quarantined,
         \A w \in Workers, x \in Scans :
           pc'["job"][w][x] \in {"idle", "resolve", pc["job"][w][x]}
  PROVE  PlaceInv'
<1>1. HoldersHaveTheFile'
  <2> SUFFICES ASSUME NEW v \in Workers, NEW x \in Scans
               PROVE  /\ pc'["job"][v][x] \in Holding => staging'[x] = "file"
                      /\ pc'["job"][v][x] = "moved" => quarantined'[x]
                      /\ pc'["job"][v][x] = "removed" => ~Kept(row'[x])
    BY DEF HoldersHaveTheFile, Kept
  <2> QED
    BY DEF PlaceInv, HoldersHaveTheFile, Holding
<1>2. KeptIsSomewhere'
  BY DEF PlaceInv, KeptIsSomewhere, Kept
<1>3. KeptIsShown'
  <2> SUFFICES ASSUME NEW x \in Scans, row'[x].mode = "ansible_fetch", Kept(row'[x]),
                      row'[x].cleanup = "OK"
               PROVE  row'[x].path = "quarantine" /\ quarantined'[x]
    BY DEF KeptIsShown, Kept, Fetched
  <2> QED
    BY DEF PlaceInv, KeptIsShown, Fetched
<1> QED
  BY <1>1, <1>2, <1>3 DEF PlaceInv

LEMMA SubmissionKeepsPlace ==
  ASSUME AllInv, PlaceInv, NEW s \in Scans, SubmitStep(s) \/ Expire(s) \/ ApiCrash
  PROVE  PlaceInv'
<1>0. \A x \in Scans : /\ staging[x] \in {"absent", "dir", "file"} /\ row[x] \in Rows
                       /\ Fetched(x) => upload[x] = "done"
  BY DEF AllInv, TypeOK, StagingInv, AllFetchedInv, FetchedInv
<1>1. CASE InsertRowOnly(s) \/ UploadInsert(s)
  <2> PICK mode \in Modes \cup {"direct_upload"} :
        CreateScan(s, mode) /\ upload[s] = "idle" /\ UNCHANGED <<staging, quarantined, pc>>
    BY <1>1 DEF InsertRowOnly, UploadInsert, UploadStep, disk
  <2>1. row[s].applied = "null"
    BY DEF AllInv, VerdictInv, UnclaimedIsUntouched, StagingInv, EvidenceInv,
           UnansweredIsBlank, Terminal, Overlayable
  <2>2. /\ row'[s].applied = "null" /\ row'[s].status = "RECEIVED"
        /\ \A x \in Scans \ {s} : row'[x] = row[x]
    BY <1>0, <2>1 DEF CreateScan, AllInv, TypeOK, Rows
  <2>3. ~Kept(row'[s])
    BY <2>2 DEF Kept
  <2> QED
    BY <2>2, <2>3, OutsideKeepsPlace
<1>2. CASE UploadMakeDir(s) \/ UploadPlaceFile(s) \/ UploadRecordPathFails(s)
  <2>1. UNCHANGED <<row, quarantined, pc>>
    BY <1>2 DEF UploadMakeDir, UploadPlaceFile, UploadRecordPathFails, UploadStep
  <2>2. \A x \in Scans : staging[x] = "file" => staging'[x] = "file"
    BY <1>2 DEF UploadMakeDir, UploadPlaceFile, UploadRecordPathFails, AllInv, TypeOK
  <2> QED
    BY <2>1, <2>2, OutsideKeepsPlace
<1>3. CASE UploadRecordPath(s)
  <2>1. /\ ~Fetched(s) /\ UNCHANGED <<staging, quarantined, pc>>
        /\ \A x \in Scans \ {s} : row'[x] = row[x]
        /\ row'[s].mode = row[s].mode /\ row'[s].status = row[s].status
        /\ row'[s].applied = row[s].applied
    BY <1>0, <1>3 DEF UploadRecordPath, UploadStep, AllInv, TypeOK, Rows
  <2>2. Kept(row'[s]) => Kept(row[s])
    BY <2>1 DEF Kept
  <2>3. row'[s].mode # "ansible_fetch"
    BY <2>1 DEF Fetched
  <2> QED
    BY <2>1, <2>2, <2>3, OutsideKeepsPlace
<1>4. CASE Expire(s) \/ ApiCrash
  <2>1. UNCHANGED <<row, staging, quarantined, pc>>
    BY <1>4 DEF Expire, ApiCrash, disk
  <2> QED
    BY <2>1, OutsideKeepsPlace
<1> QED
  BY <1>1, <1>2, <1>3, <1>4 DEF SubmitStep

LEMMA MainLoopKeepsPlace ==
  ASSUME AllInv, PlaceInv, NEW w \in Workers,
         \/ Sweep(w) \/ WorkerCrash(w)
         \/ \E s \in Scans : Claim(w, s) \/ ClaimLost(w, s)
  PROVE  PlaceInv'
<1>1. CASE Sweep(w) \/ WorkerCrash(w)
  <2>1. UNCHANGED <<row, staging, quarantined>>
    BY <1>1 DEF Sweep, WorkerCrash, disk
  <2>2. \A v \in Workers, x \in Scans : pc'["job"][v][x] \in {"idle", pc["job"][v][x]}
    <3>1. CASE Sweep(w)
      BY <3>1 DEF Sweep, AllInv, TypeOK, Kinds
    <3>2. CASE WorkerCrash(w)
      BY <3>2 DEF WorkerCrash, AllInv, TypeOK, Kinds
    <3> QED
      BY <1>1, <3>1, <3>2
  <2> QED
    BY <2>1, <2>2, OutsideKeepsPlace
<1>2. ASSUME NEW s \in Scans, Claim(w, s) \/ ClaimLost(w, s)
      PROVE  PlaceInv'
  <2>1. /\ row[s].status = "RECEIVED" /\ row' = [row EXCEPT ![s].status = "VALIDATING"]
        /\ UNCHANGED <<staging, quarantined>>
    BY <1>2 DEF Claim, ClaimLost, disk
  <2>2. /\ row'[s].status = "VALIDATING" /\ row'[s].applied = "null"
        /\ \A x \in Scans \ {s} : row'[x] = row[x]
    BY <2>1 DEF AllInv, StagingInv, EvidenceInv, UnansweredIsBlank, Terminal, Overlayable,
                TypeOK, Rows
  <2>3. ~Kept(row'[s])
    BY <2>2 DEF Kept
  <2>4. \A k \in Kinds, v \in Workers, x \in Scans : pc'[k][v][x] \in {"resolve", pc[k][v][x]}
    <3>1. CASE Claim(w, s)
      <4>1. pc' = [pc EXCEPT !["job"][w][s] = "resolve"]
        BY <3>1 DEF Claim
      <4> QED
        BY <4>1 DEF AllInv, TypeOK
    <3>2. CASE ClaimLost(w, s)
      BY <3>2 DEF ClaimLost
    <3> QED
      BY <1>2, <3>1, <3>2
  <2>5. \A x \in Scans : Kept(row'[x]) => row'[x] = row[x]
    BY <2>2, <2>3
  <2>6. UNCHANGED <<staging, quarantined>>
    BY <2>1
  <2> QED
    BY <2>4, <2>5, <2>6, StepNames, OutsideKeepsPlace
<1> QED
  BY <1>1, <1>2

-----------------------------------------------------------------------------
LEMMA PlaceInit == Init => PlaceInv
BY DEF Init, NoRow, PlaceInv, HoldersHaveTheFile, KeptIsSomewhere, KeptIsShown, Kept, Holding,
       Fetched, Kinds

(* Every step leaves the evidence where it is, or where its row says.      *)
LEMMA PlaceStep == AllInv /\ PlaceInv /\ [Next]_vars => PlaceInv'
<1> SUFFICES ASSUME AllInv, PlaceInv, [Next]_vars PROVE PlaceInv'
  OBVIOUS
<1>1. CASE Next
  <2>1. ASSUME NEW s \in Scans, SubmitStep(s) \/ Expire(s) PROVE PlaceInv'
    BY <2>1, SubmissionKeepsPlace
  <2>2. CASE ApiCrash
    <3> PICK s \in Scans : TRUE
      BY <2>2 DEF ApiCrash
    <3> QED
      BY <2>2, SubmissionKeepsPlace
  <2>3. ASSUME NEW w \in Workers, Sweep(w) \/ WorkerCrash(w) PROVE PlaceInv'
    BY <2>3, MainLoopKeepsPlace
  <2>4. ASSUME NEW w \in Workers, NEW s \in Scans, Claim(w, s) \/ ClaimLost(w, s)
        PROVE  PlaceInv'
    BY <2>4, MainLoopKeepsPlace
  <2>5. ASSUME NEW w \in Workers, NEW s \in Scans, JobStep(w, s) PROVE PlaceInv'
    BY <2>5, StagesKeepPlace, VerdictKeepsPlace, QuarantineKeepsPlace, CleanupKeepsPlace,
       RaiseKeepsPlace, StepNames DEF JobStep
  <2>6. ASSUME NEW w \in Workers, NEW s \in Scans, CleanupStep("sweep", w, s) PROVE PlaceInv'
    BY <2>6, CleanupKeepsPlace, StepNames
  <2>7. ASSUME NEW w \in Workers, NEW s \in Scans, NEW k \in Kinds, Raise(k, w, s)
        PROVE  PlaceInv'
    BY <2>7, RaiseKeepsPlace
  <2> QED
    BY <1>1, <2>1, <2>2, <2>3, <2>4, <2>5, <2>6, <2>7 DEF Next
<1>2. CASE UNCHANGED vars
  <2>1. UNCHANGED <<row, staging, quarantined, pc>>
    BY <1>2 DEF vars
  <2> QED
    BY <2>1, OutsideKeepsPlace
<1> QED
  BY <1>1, <1>2

LEMMA PlaceInvariant ==
  ASSUME LifetimeCoversJobs
  PROVE  Spec => [](AllInv /\ PlaceInv)
BY PlaceInit, PlaceStep, StagingInvariant, PTL DEF Spec

(* Provided that no live job outlasts the staging lifetime, a scan whose   *)
(* row calls for its file to be kept has the file in staging or in the     *)
(* quarantine, in every reachable state, direct uploads included.          *)
THEOREM EvidenceIsSomewhere ==
  ASSUME LifetimeCoversJobs
  PROVE  Spec => []EvidenceExists
<1>1. PlaceInv => EvidenceExists
  BY DEF PlaceInv, KeptIsSomewhere, EvidenceExists, MustKeep, Kept
<1> QED
  BY <1>1, PlaceInvariant, PTL

(* Under the same proviso, a fetched scan with such a row and cleanup      *)
(* recorded as OK names the quarantine as the place of its file, and the   *)
(* file is there, also next to direct uploads.                             *)
THEOREM FetchedEvidenceIsShown ==
  ASSUME LifetimeCoversJobs
  PROVE  Spec => [](\A s \in Scans : Fetched(s) /\ MustKeep(s) /\ row[s].cleanup = "OK" =>
                      row[s].path = "quarantine" /\ quarantined[s])
<1>1. PlaceInv => \A s \in Scans : Fetched(s) /\ MustKeep(s) /\ row[s].cleanup = "OK" =>
                    row[s].path = "quarantine" /\ quarantined[s]
  BY DEF PlaceInv, KeptIsShown, MustKeep, Kept
<1> QED
  BY <1>1, PlaceInvariant, PTL

(* So of a pipeline that fetches its files itself every row that calls for *)
(* evidence and has its cleanup recorded as OK leads to the quarantine.    *)
THEOREM EvidenceIsWhereShown ==
  ASSUME LifetimeCoversJobs, "direct_upload" \notin Modes
  PROVE  Spec => []EvidenceIsShown
<1>1. AllInv /\ PlaceInv => EvidenceIsShown
  BY FetchedOrNew DEF PlaceInv, KeptIsShown, EvidenceIsShown, MustKeep, Kept
<1> QED
  BY <1>1, PlaceInvariant, PTL
=============================================================================
