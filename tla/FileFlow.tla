------------------------------ MODULE FileFlow ------------------------------
(***************************************************************************)
(* One file from the user's disk to the exit code of the script that asks  *)
(* about it: the Nextcloud hook, which names the file and polls, the       *)
(* generic client, which sends it and waits, the endpoints that answer     *)
(* them, the job between, the playbooks that fetch the file and delete it, *)
(* and the user, who goes on working on the file all the while.            *)
(*                                                                         *)
(* A run of a script submits one scan; c names both.  A file is its        *)
(* content, and a sha256 the content it is of.  The job is ScanPipeline's, *)
(* whose staging lifetime no live job exceeds, reduced to the steps that   *)
(* read or write the file and the row's answer.                            *)
(***************************************************************************)
EXTENDS Naturals

CONSTANTS
  Clients,    \* runs of a client script
  Contents,   \* what the file may contain
  Locked,     \* contents detect_encryption does not call plain
  Detected,   \* contents the scanners report
  NoFile,     \* there is no file
  MaxEdits    \* bound: how often the user saves or removes the file

ASSUME ContentsAssumption ==
  /\ NoFile \notin Contents
  /\ Locked \subseteq Contents
  /\ Detected \subseteq Contents
ASSUME MaxEditsAssumption == MaxEdits \in Nat

VARIABLES
  source,   \* the user's file on the Nextcloud host
  edits,    \* how often the user has touched it
  client,   \* a script: which, where it is, the content it hashed or sent, its deadline
  post,     \* its POST, in the hands of an API process
  reply,    \* the response on its way to the script
  told,     \* history: the last "allowed" a response was built with
  row,      \* the scan's status and allowed columns
  job,      \* where the job is
  copy,     \* the staged copy
  swapped,  \* history: the user touched the file between its last hash and its removal
  harmed    \* history: contents the delete playbook removed

server == <<row, job, copy>>
history == <<told, swapped, harmed>>
vars == <<source, edits, client, post, reply, row, job, copy, history>>

InProgress == {"RECEIVED", "VALIDATING", "TRANSFERRING", "SCANNING"}
Overlayable == {"CLEAN", "INFECTED", "ERROR", "ENCRYPTED"}
Terminal == Overlayable \cup {"CLEANUP_FAILED"}

Answer(status, allowed) == [status |-> status, allowed |-> allowed]
NoRow == Answer("NONE", "null")
Refusal == Answer("REFUSED", "no")
Nothing == Answer("NOTHING", "null")

Init ==
  /\ source \in Contents
  /\ edits = 0
  /\ client \in [Clients -> [kind : {"hook", "generic"}, at : {"start"}, held : {NoFile},
                             late : {FALSE}, exit : {9}]]
  /\ post = [c \in Clients |-> "none"]
  /\ reply = [c \in Clients |-> Nothing]
  /\ told = [c \in Clients |-> "null"]
  /\ row = [c \in Clients |-> NoRow]
  /\ job = [c \in Clients |-> "none"]
  /\ copy = [c \in Clients |-> NoFile]
  /\ swapped = FALSE
  /\ harmed = {}

Hook(c) == client[c].kind = "hook"

-----------------------------------------------------------------------------
(* The user saves another content, or removes the file *)
Edit(x) ==
  /\ edits < MaxEdits
  /\ source # x
  /\ source' = x
  /\ edits' = edits + 1
  /\ swapped' = (swapped \/ \E c \in Clients : job[c] = "remove")
  /\ UNCHANGED <<client, post, reply, told, server, harmed>>

-----------------------------------------------------------------------------
(* The scripts.  Exit 0 lets the file in, 1 and 2 do not.                   *)

Exit(c, code) == client' = [client EXCEPT ![c].at = "done", ![c].exit = code]

(* Checks of the file, its hash or its upload; curl starts *)
Start(c) ==
  /\ client[c].at = "start"
  /\ IF source = NoFile
     THEN Exit(c, 2) /\ UNCHANGED post
     ELSE /\ client' = [client EXCEPT ![c].at = "posting", ![c].held = source]
          /\ post' = [post EXCEPT ![c] = "sent"]
  /\ UNCHANGED <<source, edits, reply, server, history>>

(* Mutation: the script passes curl's own exit code on *)
PostFailsAsCurl(c) ==
  /\ client[c].at = "posting"
  /\ Exit(c, 28)
  /\ UNCHANGED <<source, edits, post, reply, server, history>>

(* curl gives up on the POST; the API may still be working on it *)
PostFails(c) ==
  /\ client[c].at = "posting"
  /\ Exit(c, 2)
  /\ UNCHANGED <<source, edits, post, reply, server, history>>

(* The hook's case: an ENCRYPTED answer is "unexpected, retrying" *)
HookReads(c, body) ==
  CASE body.status = "CLEAN" -> Exit(c, 0)
    [] body.status = "INFECTED" -> Exit(c, 1)
    [] body.status \in {"ERROR", "CLEANUP_FAILED"} -> Exit(c, 2)
    [] OTHER -> client' = [client EXCEPT ![c].at = "polling"]

(* The generic client's two cases *)
GenericReads(c, body) ==
  CASE body.status \in InProgress -> client' = [client EXCEPT ![c].at = "polling"]
    [] body.status = "CLEAN" -> Exit(c, 0)
    [] body.status = "INFECTED" -> Exit(c, 1)
    [] body.status = "ENCRYPTED" /\ body.allowed = "yes" -> Exit(c, 0)
    [] OTHER -> Exit(c, 2)

Reads(c, body) == IF Hook(c) THEN HookReads(c, body) ELSE GenericReads(c, body)

(* Anything but 200 and 202 is a refusal *)
HandlePost(c) ==
  /\ client[c].at = "posting"
  /\ reply[c] # Nothing
  /\ IF reply[c] = Refusal THEN Exit(c, 2) ELSE Reads(c, reply[c])
  /\ reply' = [reply EXCEPT ![c] = Nothing]
  /\ UNCHANGED <<source, edits, post, server, history>>

Deadline(c) ==
  /\ client[c].at \in {"polling", "asking"}
  /\ ~client[c].late
  /\ client' = [client EXCEPT ![c].late = TRUE]
  /\ UNCHANGED <<source, edits, post, reply, server, history>>

(* The head of the loop: the deadline is looked at before every poll *)
Poll(c) ==
  /\ client[c].at = "polling"
  /\ IF client[c].late THEN Exit(c, 2) ELSE client' = [client EXCEPT ![c].at = "asking"]
  /\ UNCHANGED <<source, edits, post, reply, server, history>>

(* Mutation: a poll that fails starts the wait again *)
PollFailsAfresh(c) ==
  /\ client[c].at = "asking"
  /\ client' = [client EXCEPT ![c].at = "polling", ![c].late = FALSE]
  /\ reply' = [reply EXCEPT ![c] = Nothing]
  /\ UNCHANGED <<source, edits, post, server, history>>

(* No answer, not a 200: "retrying" *)
PollFails(c) ==
  /\ client[c].at = "asking"
  /\ client' = [client EXCEPT ![c].at = "polling"]
  /\ reply' = [reply EXCEPT ![c] = Nothing]
  /\ UNCHANGED <<source, edits, post, server, history>>

(* The generic client looks at the 200 and not at curl's exit code: of a   *)
(* body that was cut off jq makes no status, which is an error, and final. *)
PollTruncated(c) ==
  /\ client[c].at = "asking" /\ ~Hook(c)
  /\ reply[c] # Nothing
  /\ Exit(c, 2)
  /\ reply' = [reply EXCEPT ![c] = Nothing]
  /\ UNCHANGED <<source, edits, post, server, history>>

HandlePoll(c) ==
  /\ client[c].at = "asking"
  /\ reply[c] # Nothing
  /\ Reads(c, reply[c])
  /\ reply' = [reply EXCEPT ![c] = Nothing]
  /\ UNCHANGED <<source, edits, post, server, history>>

-----------------------------------------------------------------------------
(* The endpoints.                                                           *)

(* _scan_status_response, for the hook *)
StatusResponse(r) ==
  Answer(r.status, CASE r.status = "CLEAN" -> "yes"
                     [] r.status \in {"INFECTED", "ERROR", "CLEANUP_FAILED"} -> "no"
                     [] OTHER -> "null")

(* Mutation: CLEANUP_FAILED is taken for a scan still in progress *)
UploadResponseForgets(r) ==
  Answer(r.status, CASE r.status = "CLEAN" -> "yes"
                     [] r.status = "ENCRYPTED" -> IF r.allowed = "yes" THEN "yes" ELSE "no"
                     [] r.status \in {"INFECTED", "ERROR"} -> "no"
                     [] OTHER -> "null")

(* _build_upload_response: CLEANUP_FAILED is a refusal, whatever the       *)
(* allowed column still says                                               *)
UploadResponse(r) ==
  Answer(r.status, CASE r.status = "CLEAN" -> "yes"
                     [] r.status = "ENCRYPTED" -> IF r.allowed = "yes" THEN "yes" ELSE "no"
                     [] r.status \in {"INFECTED", "ERROR", "CLEANUP_FAILED"} -> "no"
                     [] OTHER -> "null")

(* The script that is told is still there, or it is not *)
Send(c, body) ==
  /\ reply' = [reply EXCEPT ![c] = IF client[c].at = "done" THEN Nothing ELSE body]
  /\ told' = [told EXCEPT ![c] = body.allowed]

(* submit_scan: a row *)
SubmitScan(c) ==
  /\ post[c] = "sent" /\ Hook(c)
  /\ row' = [row EXCEPT ![c] = Answer("RECEIVED", "null")]
  /\ post' = [post EXCEPT ![c] = "none"]
  /\ Send(c, Answer("RECEIVED", "null"))
  /\ UNCHANGED <<source, edits, client, job, copy, swapped, harmed>>

(* upload_file: a row, then the staged file, then the wait for the result;  *)
(* a worker may claim the row before its file is in place                   *)
UploadFile(c) ==
  /\ post[c] = "sent" /\ ~Hook(c)
  /\ row' = [row EXCEPT ![c] = Answer("RECEIVED", "null")]
  /\ post' = [post EXCEPT ![c] = "staging"]
  /\ UNCHANGED <<source, edits, client, reply, told, job, copy, swapped, harmed>>

FinalizeUpload(c) ==
  /\ post[c] = "staging"
  /\ copy' = [copy EXCEPT ![c] = client[c].held]
  /\ post' = [post EXCEPT ![c] = "waiting"]
  /\ UNCHANGED <<source, edits, client, reply, row, job, history>>

(* A check fails, the rate limit is reached, the database is away, or the   *)
(* file cannot be put in place                                              *)
Reject(c) ==
  /\ post[c] \in {"sent", "staging"}
  /\ post' = [post EXCEPT ![c] = "none"]
  /\ Send(c, Refusal)
  /\ UNCHANGED <<source, edits, client, server, swapped, harmed>>

(* _poll_until_terminal: a terminal row, or the wait is over *)
SyncAnswer(c) ==
  /\ post[c] = "waiting"
  /\ post' = [post EXCEPT ![c] = "none"]
  /\ Send(c, UploadResponse(row[c]))
  /\ UNCHANGED <<source, edits, client, server, swapped, harmed>>

Polled(c, body) ==
  /\ client[c].at = "asking"
  /\ reply[c] = Nothing
  /\ Send(c, body)
  /\ UNCHANGED <<source, edits, client, post, server, swapped, harmed>>

(* GET /api/v1/scan/<id> and GET /api/v1/scans/<id> *)
GetScanStatus(c) == Hook(c) /\ Polled(c, StatusResponse(row[c]))
GetScan(c) == ~Hook(c) /\ Polled(c, UploadResponse(row[c]))

-----------------------------------------------------------------------------
(* The job.                                                                 *)

Quiet == UNCHANGED <<edits, client, post, reply, told>>
JobGoes(c, to) == job' = [job EXCEPT ![c] = to]
Write(c, status, allowed) == row' = [row EXCEPT ![c] = Answer(status, allowed)]
Fail(c) == Write(c, "ERROR", "no") /\ JobGoes(c, "dispose")

(* Mutation: failed scans are claimed again, as a retry *)
ClaimAlsoFailed(c) ==
  /\ row[c].status \in {"RECEIVED", "ERROR"}
  /\ Write(c, "VALIDATING", "null")
  /\ JobGoes(c, "begin")
  /\ Quiet /\ UNCHANGED <<source, copy, swapped, harmed>>

(* claim_next_scan *)
Claim(c) ==
  /\ row[c].status = "RECEIVED"
  /\ Write(c, "VALIDATING", "null")
  /\ JobGoes(c, "begin")
  /\ Quiet /\ UNCHANGED <<source, copy, swapped, harmed>>

Begin(c) ==
  /\ job[c] = "begin"
  /\ Write(c, "TRANSFERRING", "null")
  /\ JobGoes(c, IF Hook(c) THEN "check" ELSE "inspect")
  /\ Quiet /\ UNCHANGED <<source, copy, swapped, harmed>>

(* The fetch playbook hashes the file on its host ... *)
FetchCheck(c) ==
  /\ job[c] = "check"
  /\ IF source = client[c].held THEN JobGoes(c, "fetch") /\ UNCHANGED row ELSE Fail(c)
  /\ Quiet /\ UNCHANGED <<source, copy, swapped, harmed>>

(* ... and copies what is there afterwards *)
FetchCopy(c) ==
  /\ job[c] = "fetch"
  /\ copy' = [copy EXCEPT ![c] = source]
  /\ IF source = NoFile THEN Fail(c) ELSE JobGoes(c, "inspect") /\ UNCHANGED row
  /\ Quiet /\ UNCHANGED <<source, swapped, harmed>>

(* detect_encryption, and the policy of the category *)
Inspect(c) ==
  /\ job[c] = "inspect"
  /\ IF copy[c] \in Locked
     THEN /\ \E allowed \in {"yes", "no"} : Write(c, "ENCRYPTED", allowed)
          /\ JobGoes(c, "dispose")
     ELSE Write(c, "SCANNING", "null") /\ JobGoes(c, "scan")
  /\ Quiet /\ UNCHANGED <<source, copy, swapped, harmed>>

(* Mutation: the hash of what was scanned is not compared *)
ScanUnchecked(c) ==
  /\ job[c] = "scan"
  /\ IF copy[c] \in Detected
     THEN /\ Write(c, "INFECTED", "no")
          /\ JobGoes(c, IF Hook(c) THEN "realpath" ELSE "dispose")
     ELSE Write(c, "CLEAN", "yes") /\ JobGoes(c, "dispose")
  /\ Quiet /\ UNCHANGED <<source, copy, swapped, harmed>>

(* The scan playbook, the hash of what it scanned, and the verdict *)
Scan(c) ==
  /\ job[c] = "scan"
  /\ IF copy[c] # client[c].held THEN Fail(c)
     ELSE IF copy[c] \in Detected
     THEN /\ Write(c, "INFECTED", "no")
          /\ JobGoes(c, IF Hook(c) THEN "realpath" ELSE "dispose")
     ELSE Write(c, "CLEAN", "yes") /\ JobGoes(c, "dispose")
  /\ Quiet /\ UNCHANGED <<source, copy, swapped, harmed>>

(* The delete playbook: is the file there, ... *)
DeleteResolve(c) ==
  /\ job[c] = "realpath"
  /\ JobGoes(c, IF source = NoFile THEN "dispose" ELSE "rehash")
  /\ Quiet /\ UNCHANGED <<source, row, copy, swapped, harmed>>

(* Mutation: the playbook trusts the verdict and does not hash again *)
DeleteWithoutHash(c) ==
  /\ job[c] = "rehash"
  /\ JobGoes(c, "remove")
  /\ Quiet /\ UNCHANGED <<source, row, copy, swapped, harmed>>

(* ... is it what was scanned, ... *)
DeleteCheck(c) ==
  /\ job[c] = "rehash"
  /\ JobGoes(c, IF source = client[c].held THEN "remove" ELSE "dispose")
  /\ Quiet /\ UNCHANGED <<source, row, copy, swapped, harmed>>

(* ... then whatever is there now is removed *)
DeleteSource(c) ==
  /\ job[c] = "remove"
  /\ source' = NoFile
  /\ harmed' = harmed \cup ({source} \ {NoFile})
  /\ swapped' = (swapped \/ \E d \in Clients \ {c} : job[d] = "remove")
  /\ JobGoes(c, "dispose")
  /\ Quiet /\ UNCHANGED <<row, copy>>

(* A playbook or the database fails, or the job exceeds its lifetime: the  *)
(* row is failed, also when it already had its verdict                     *)
JobFails(c) ==
  /\ job[c] \notin {"none", "ended"}
  /\ Fail(c)
  /\ Quiet /\ UNCHANGED <<source, copy, swapped, harmed>>

(* The delete playbook aborts or fails: the verdict stands *)
DeleteFails(c) ==
  /\ job[c] \in {"realpath", "rehash", "remove"}
  /\ JobGoes(c, "dispose")
  /\ Quiet /\ UNCHANGED <<source, row, copy, swapped, harmed>>

(* The worker dies.  With a verdict in the row nobody takes the job up     *)
(* again; without one, the sweep fails it as JobFails does.                *)
WorkerDies(c) ==
  /\ job[c] \notin {"none", "ended"}
  /\ row[c].status \in Terminal
  /\ JobGoes(c, "ended")
  /\ Quiet /\ UNCHANGED <<source, row, copy, swapped, harmed>>

(* The staged copy is removed or quarantined, or stays and is reported *)
Dispose(c) ==
  /\ job[c] = "dispose"
  /\ JobGoes(c, "ended")
  /\ \/ copy' = [copy EXCEPT ![c] = NoFile] /\ UNCHANGED row
     \/ /\ copy[c] # NoFile
        /\ row' = [row EXCEPT ![c].status = "CLEANUP_FAILED"]
        /\ UNCHANGED copy
  /\ Quiet /\ UNCHANGED <<source, swapped, harmed>>

-----------------------------------------------------------------------------
ClientStep(c) == Start(c) \/ HandlePost(c) \/ Poll(c) \/ HandlePoll(c)
Trouble(c) == PostFails(c) \/ PollFails(c) \/ PollTruncated(c) \/ Deadline(c)
ApiStep(c) ==
  \/ SubmitScan(c) \/ UploadFile(c) \/ FinalizeUpload(c) \/ Reject(c)
  \/ SyncAnswer(c) \/ GetScanStatus(c) \/ GetScan(c)
JobStep(c) ==
  \/ Claim(c) \/ Begin(c) \/ FetchCheck(c) \/ FetchCopy(c) \/ Inspect(c) \/ Scan(c)
  \/ DeleteResolve(c) \/ DeleteCheck(c) \/ DeleteSource(c)
  \/ DeleteFails(c) \/ JobFails(c) \/ WorkerDies(c) \/ Dispose(c)

Next ==
  \/ \E x \in Contents \cup {NoFile} : Edit(x)
  \/ \E c \in Clients : ClientStep(c) \/ Trouble(c) \/ ApiStep(c) \/ JobStep(c)

Spec == Init /\ [][Next]_vars

(* A script runs, and curl and the poll loop have deadlines of their own.  *)
(* Nothing is asked of the network, the API or the workers.                *)
Fairness ==
  \A c \in Clients :
    /\ WF_vars(ClientStep(c))
    /\ WF_vars(PostFails(c))
    /\ WF_vars(PollFails(c))
    /\ WF_vars(Deadline(c))

FairSpec == Spec /\ Fairness

-----------------------------------------------------------------------------
ClientAt == {"start", "posting", "polling", "asking", "done"}
JobAt == {"none", "begin", "check", "fetch", "inspect", "scan", "realpath", "rehash",
          "remove", "dispose", "ended"}
Allowed == {"null", "yes", "no"}
Codes == {0, 1, 2, 9}

Scripts == [kind : {"hook", "generic"}, at : ClientAt, held : Contents \cup {NoFile},
            late : BOOLEAN, exit : Codes]
Rows == [status : InProgress \cup Terminal \cup {"NONE"}, allowed : Allowed]
Bodies == [status : InProgress \cup Terminal \cup {"NONE", "NOTHING", "REFUSED"},
           allowed : Allowed]

TypeOK ==
  /\ source \in Contents \cup {NoFile}
  /\ edits \in 0..MaxEdits
  /\ client \in [Clients -> Scripts]
  /\ post \in [Clients -> {"none", "sent", "staging", "waiting"}]
  /\ reply \in [Clients -> Bodies]
  /\ told \in [Clients -> Allowed]
  /\ row \in [Clients -> Rows]
  /\ job \in [Clients -> JobAt]
  /\ copy \in [Clients -> Contents \cup {NoFile}]
  /\ swapped \in BOOLEAN
  /\ harmed \subseteq Contents

(* Exit code 0 follows an "allowed", and the answer is about the very      *)
(* content the script hashed or sent: the hook lets in nothing detected    *)
(* and nothing locked, the client nothing detected but what is locked (the *)
(* policy has the word on it, or the scanners when the worker looked       *)
(* before the file was in place) - however the user, the fetch, the        *)
(* retries and the timeouts interleave.                                    *)
AcceptedWasJudged ==
  \A c \in Clients :
    client[c].exit = 0 =>
      /\ told[c] = "yes"
      /\ IF client[c].held \in Locked THEN ~Hook(c) ELSE client[c].held \notin Detected

(* The delete playbook removes only what the scanners detected, unless the *)
(* file was replaced after the playbook had hashed it.                     *)
DeletesOnlyDetected == ~swapped => harmed \subseteq Detected

(* What the endpoints say of a scan only hardens: not decided, allowed,    *)
(* refused.  Nobody who asks again - after a lost answer, after the wait   *)
(* was over, after a failed cleanup - is told something more lenient.      *)
AnswersOnlyHarden ==
  [][\A c \in Clients :
       /\ told[c] = "no" => told'[c] = "no"
       /\ told[c] = "yes" => told'[c] # "null"]_vars

(* Every script ends, whatever the network, the API and the workers do.    *)
EveryScriptEnds == \A c \in Clients : <>(client[c].at = "done")

(* The rows of this reduced job behave as those of ScanPipeline: both      *)
(* implement AdmissionGate.                                                *)
PhaseOf(r) ==
  CASE r.status = "NONE" -> "absent"
    [] r.status = "RECEIVED" -> "queued"
    [] r.status \in InProgress \ {"RECEIVED"} -> "working"
    [] r.status \in Terminal /\ r.allowed = "yes" -> "allowed"
    [] OTHER -> "denied"

phase == [c \in Clients |-> PhaseOf(row[c])]

Gate == INSTANCE AdmissionGate WITH Scans <- Clients, phase <- phase
ImplementsGate == Gate!Spec
=============================================================================
