--------------------------- MODULE FileFlowProofs ---------------------------
(***************************************************************************)
(* What FileFlow shows on one script holds for any number of scripts, any  *)
(* contents and any number of edits: type correctness, that exit code 0    *)
(* and a deletion have been judged, that answers only harden, and that the *)
(* rows implement AdmissionGate.                                           *)
(*                                                                         *)
(* A step of one script, request or job touches the state of its own scan  *)
(* only, and the user's file.  So the invariant is a predicate ScanInv of  *)
(* one scan, which the others keep by not being touched, and one about the *)
(* file.                                                                   *)
(***************************************************************************)
EXTENDS FileFlow, TLAPS

(* A step of anybody but the user *)
ScanStep(c) == ClientStep(c) \/ Trouble(c) \/ ApiStep(c) \/ JobStep(c)

-----------------------------------------------------------------------------
(* Types                                                                   *)

(* Values the steps write belong to their sets.                            *)
LEMMA Values ==
  /\ \A s \in InProgress \cup Terminal \cup {"NONE", "NOTHING", "REFUSED"}, a \in Allowed :
       Answer(s, a) \in Bodies
  /\ \A s \in InProgress \cup Terminal \cup {"NONE"}, a \in Allowed : Answer(s, a) \in Rows
  /\ {"RECEIVED", "VALIDATING", "TRANSFERRING", "SCANNING"} = InProgress
  /\ {"CLEAN", "INFECTED", "ERROR", "ENCRYPTED", "CLEANUP_FAILED"} = Terminal
  /\ {"null", "yes", "no"} = Allowed
  /\ {NoRow, Refusal, Nothing} \subseteq Bodies /\ NoRow \in Rows
BY DEF Answer, Bodies, Rows, InProgress, Terminal, Overlayable, Allowed, NoRow, Refusal,
       Nothing

(* Another status makes another legal row.                                 *)
LEMMA RowOverlaid ==
  ASSUME NEW r \in Rows, NEW s \in InProgress \cup Terminal
  PROVE  [r EXCEPT !.status = s] \in Rows
BY DEF Rows

(* Both endpoints answer with a legal body.                                *)
LEMMA ResponseType ==
  ASSUME NEW r \in Rows
  PROVE  StatusResponse(r) \in Bodies /\ UploadResponse(r) \in Bodies
BY DEF StatusResponse, UploadResponse, Answer, Rows, Bodies, Allowed

(* What the steps of a script write is legal.                              *)
LEMMA ScriptValues ==
  /\ {"start", "posting", "polling", "asking", "done"} = ClientAt /\ {0, 1, 2, 9} = Codes
  /\ \A s \in Scripts :
       /\ \A at \in ClientAt : [s EXCEPT !.at = at] \in Scripts
       /\ \A at \in ClientAt, x \in Contents : [s EXCEPT !.at = at, !.held = x] \in Scripts
       /\ \A at \in ClientAt, n \in Codes : [s EXCEPT !.at = at, !.exit = n] \in Scripts
       /\ [s EXCEPT !.late = TRUE] \in Scripts
<1>1. {"start", "posting", "polling", "asking", "done"} = ClientAt /\ {0, 1, 2, 9} = Codes
  BY DEF ClientAt, Codes
<1>2. ASSUME NEW s \in Scripts, NEW at \in ClientAt
      PROVE  [s EXCEPT !.at = at] \in Scripts
  BY DEF Scripts
<1>3. ASSUME NEW s \in Scripts, NEW at \in ClientAt, NEW x \in Contents
      PROVE  [s EXCEPT !.at = at, !.held = x] \in Scripts
  BY DEF Scripts
<1>4. ASSUME NEW s \in Scripts, NEW at \in ClientAt, NEW n \in Codes
      PROVE  [s EXCEPT !.at = at, !.exit = n] \in Scripts
  BY DEF Scripts
<1>5. ASSUME NEW s \in Scripts
      PROVE  [s EXCEPT !.late = TRUE] \in Scripts
  BY DEF Scripts
<1> QED
  BY <1>1, <1>2, <1>3, <1>4, <1>5

(* A script goes on, or ends with an exit code.                            *)
LEMMA ScriptMoves ==
  ASSUME TypeOK, NEW c \in Clients,
         \/ \E at \in ClientAt : client' = [client EXCEPT ![c].at = at]
         \/ \E n \in Codes : Exit(c, n)
  PROVE  client' \in [Clients -> Scripts]
<1>1. client[c] \in Scripts
  BY DEF TypeOK
<1>2. ASSUME NEW at \in ClientAt, client' = [client EXCEPT ![c].at = at]
      PROVE  client' \in [Clients -> Scripts]
  <2>1. [client[c] EXCEPT !.at = at] \in Scripts
    BY <1>1, ScriptValues
  <2> QED
    BY <1>2, <2>1 DEF TypeOK
<1>3. ASSUME NEW n \in Codes, Exit(c, n)
      PROVE  client' \in [Clients -> Scripts]
  <2>1. [client[c] EXCEPT !.at = "done", !.exit = n] \in Scripts
    BY <1>1, ScriptValues
  <2> QED
    BY <1>3, <2>1 DEF TypeOK, Exit
<1> QED
  BY <1>2, <1>3

(* The initial state is type correct.                                      *)
LEMMA TypeInit == Init => TypeOK
<1> SUFFICES ASSUME Init PROVE TypeOK
  OBVIOUS
<1>1. client \in [Clients -> Scripts]
  <2>1. [kind : {"hook", "generic"}, at : {"start"}, held : {NoFile}, late : {FALSE}, exit : {9}]
          \subseteq Scripts
    BY ScriptValues DEF Scripts
  <2> QED
    BY <2>1 DEF Init
<1>2. "none" \in JobAt
  BY DEF JobAt
<1>3. edits \in 0..MaxEdits
  BY MaxEditsAssumption DEF Init
<1>4. "null" \in Allowed /\ NoRow \in Rows /\ Nothing \in Bodies
  BY Values
<1> QED
  BY <1>1, <1>2, <1>3, <1>4 DEF Init, TypeOK

(* The user's edits keep the types.                                        *)
LEMMA EditType ==
  ASSUME TypeOK, NEW x \in Contents \cup {NoFile}, Edit(x)
  PROVE  TypeOK'
BY MaxEditsAssumption DEF Edit, TypeOK, server

(* Reading an answer moves the script to a legal place.                    *)
LEMMA ReadsType ==
  ASSUME TypeOK, NEW c \in Clients, NEW body, Reads(c, body)
  PROVE  client' \in [Clients -> Scripts]
<1>1. \/ client' = [client EXCEPT ![c].at = "polling"]
      \/ Exit(c, 0) \/ Exit(c, 1) \/ Exit(c, 2)
  BY DEF Reads, HookReads, GenericReads
<1> QED
  BY <1>1, ScriptMoves, ScriptValues

(* The scripts keep the types.                                             *)
LEMMA ScriptType ==
  ASSUME TypeOK, NEW c \in Clients, ClientStep(c) \/ Trouble(c)
  PROVE  TypeOK'
<1>0. client[c] \in Scripts
  BY DEF TypeOK
<1>1. CASE Start(c)
  <2>1. CASE source = NoFile
    <3>1. client' \in [Clients -> Scripts]
      BY <1>1, <2>1, ScriptMoves, ScriptValues DEF Start
    <3> QED
      BY <1>1, <2>1, <3>1 DEF Start, TypeOK, server, history
  <2>2. CASE source # NoFile
    <3>1. [client[c] EXCEPT !.at = "posting", !.held = source] \in Scripts
      BY <1>0, <2>2, ScriptValues DEF TypeOK
    <3>2. client' \in [Clients -> Scripts]
      BY <1>1, <2>2, <3>1 DEF Start, TypeOK
    <3> QED
      BY <1>1, <2>2, <3>2 DEF Start, TypeOK, server, history
  <2> QED
    BY <2>1, <2>2
<1>2. CASE HandlePost(c)
  <2>1. client' \in [Clients -> Scripts]
    BY <1>2, ReadsType, ScriptMoves, ScriptValues DEF HandlePost
  <2> QED
    BY <1>2, <2>1, Values DEF HandlePost, TypeOK, server, history
<1>3. CASE Poll(c) \/ PostFails(c)
  <2>1. client' \in [Clients -> Scripts]
    BY <1>3, ScriptMoves, ScriptValues DEF Poll, PostFails
  <2> QED
    BY <1>3, <2>1 DEF Poll, PostFails, TypeOK, server, history
<1>4. CASE HandlePoll(c)
  BY <1>4, ReadsType, Values DEF HandlePoll, TypeOK, server, history
<1>5. CASE PollFails(c) \/ PollTruncated(c)
  <2>1. client' \in [Clients -> Scripts]
    BY <1>5, ScriptMoves, ScriptValues DEF PollFails, PollTruncated
  <2> QED
    BY <1>5, <2>1, Values DEF PollFails, PollTruncated, TypeOK, server, history
<1>6. CASE Deadline(c)
  <2>1. [client[c] EXCEPT !.late = TRUE] \in Scripts
    BY <1>0, ScriptValues
  <2> QED
    BY <1>6, <2>1 DEF Deadline, TypeOK, server, history
<1> QED
  BY <1>1, <1>2, <1>3, <1>4, <1>5, <1>6 DEF ClientStep, Trouble

(* So do the endpoints.                                                    *)
LEMMA ApiType ==
  ASSUME TypeOK, NEW c \in Clients, ApiStep(c)
  PROVE  TypeOK'
<1>1. ASSUME NEW body \in Bodies, Send(c, body)
      PROVE  reply' \in [Clients -> Bodies] /\ told' \in [Clients -> Allowed]
  <2>1. body.allowed \in Allowed
    BY DEF Bodies
  <2> QED
    BY <1>1, <2>1, Values DEF Send, TypeOK
<1>2. Answer("RECEIVED", "null") \in Rows /\ Answer("RECEIVED", "null") \in Bodies
  BY Values
<1>3. StatusResponse(row[c]) \in Bodies /\ UploadResponse(row[c]) \in Bodies
  BY ResponseType DEF TypeOK
<1>4. CASE SubmitScan(c)
  BY <1>1, <1>2, <1>4 DEF SubmitScan, TypeOK
<1>5. CASE UploadFile(c)
  BY <1>2, <1>5 DEF UploadFile, TypeOK
<1>6. CASE FinalizeUpload(c)
  BY <1>6 DEF FinalizeUpload, TypeOK, Scripts, history
<1>7. CASE Reject(c)
  BY <1>1, <1>7, Values DEF Reject, TypeOK, server
<1>8. CASE SyncAnswer(c)
  BY <1>1, <1>3, <1>8 DEF SyncAnswer, TypeOK, server
<1>9. CASE GetScanStatus(c) \/ GetScan(c)
  BY <1>1, <1>3, <1>9 DEF GetScanStatus, GetScan, Polled, TypeOK, server
<1> QED
  BY <1>4, <1>5, <1>6, <1>7, <1>8, <1>9 DEF ApiStep

(* So does the job.                                                        *)
LEMMA JobType ==
  ASSUME TypeOK, NEW c \in Clients, JobStep(c)
  PROVE  TypeOK'
<1>1. ASSUME NEW to \in JobAt, JobGoes(c, to) PROVE job' \in [Clients -> JobAt]
  BY <1>1 DEF JobGoes, TypeOK
<1>2. ASSUME NEW s \in InProgress \cup Terminal, NEW a \in Allowed, Write(c, s, a)
      PROVE  row' \in [Clients -> Rows]
  BY <1>2, Values DEF Write, TypeOK
<1>3. ASSUME Fail(c)
      PROVE  row' \in [Clients -> Rows] /\ job' \in [Clients -> JobAt]
  BY <1>1, <1>2, <1>3, Values DEF Fail, JobAt
<1>4. CASE Claim(c)
  BY <1>1, <1>2, <1>4, Values DEF Claim, JobAt, Quiet, TypeOK
<1>5. CASE Begin(c)
  BY <1>1, <1>2, <1>5, Values DEF Begin, JobAt, Quiet, TypeOK
<1>6. CASE FetchCheck(c)
  BY <1>1, <1>3, <1>6 DEF FetchCheck, JobAt, Quiet, TypeOK
<1>7. CASE FetchCopy(c)
  BY <1>1, <1>3, <1>7 DEF FetchCopy, JobAt, Quiet, TypeOK
<1>8. CASE Inspect(c)
  BY <1>1, <1>2, <1>8, Values DEF Inspect, JobAt, Quiet, TypeOK
<1>9. CASE Scan(c)
  BY <1>1, <1>2, <1>3, <1>9, Values DEF Scan, JobAt, Quiet, TypeOK
<1>10. CASE DeleteResolve(c) \/ DeleteCheck(c) \/ DeleteFails(c) \/ WorkerDies(c)
  BY <1>1, <1>10 DEF DeleteResolve, DeleteCheck, DeleteFails, WorkerDies, JobAt, Quiet, TypeOK
<1>11. CASE DeleteSource(c)
  BY <1>1, <1>11 DEF DeleteSource, JobAt, Quiet, TypeOK
<1>12. CASE JobFails(c)
  BY <1>3, <1>12 DEF JobFails, Quiet, TypeOK
<1>13. CASE Dispose(c)
  <2>1. [row[c] EXCEPT !.status = "CLEANUP_FAILED"] \in Rows
    BY Values, RowOverlaid DEF TypeOK
  <2> QED
    BY <1>1, <1>13, <2>1 DEF Dispose, JobAt, Quiet, TypeOK
<1> QED
  BY <1>4, <1>5, <1>6, <1>7, <1>8, <1>9, <1>10, <1>11, <1>12, <1>13 DEF JobStep

(* Type correctness.                                                       *)
THEOREM TypeCorrect == Spec => []TypeOK
<1>1. TypeOK /\ [Next]_vars => TypeOK'
  <2> SUFFICES ASSUME TypeOK, [Next]_vars PROVE TypeOK'
    OBVIOUS
  <2>1. CASE Next
    BY <2>1, EditType, ScriptType, ApiType, JobType DEF Next
  <2>2. CASE UNCHANGED vars
    BY <2>2 DEF vars, server, history, TypeOK
  <2> QED
    BY <2>1, <2>2
<1> QED
  BY <1>1, TypeInit, PTL DEF Spec
-----------------------------------------------------------------------------
(* The invariant                                                           *)

BeforeVerdict == {"begin", "check", "fetch", "inspect", "scan"}
Deleting == {"realpath", "rehash", "remove"}

(* The job is where its row says it is *)
Placed(c) ==
  /\ job[c] = "none" <=> row[c].status \in {"NONE", "RECEIVED"}
  /\ job[c] \in BeforeVerdict => row[c].status \in InProgress
  /\ job[c] \notin BeforeVerdict \cup {"none"} => row[c].status \in Terminal

(* Only the hook's files are fetched and deleted; what a client sent is    *)
(* what is scanned                                                         *)
Fetched(c) ==
  /\ job[c] \in {"check", "fetch"} \cup Deleting => Hook(c)
  /\ Hook(c) /\ job[c] = "scan" => copy[c] \notin Locked
  /\ ~Hook(c) => copy[c] \in {NoFile, client[c].held}
  /\ job[c] \in Deleting => client[c].held \in Detected

(* A POST is answered once, and until it is sent there is nothing *)
Submitted(c) ==
  /\ post[c] \in {"staging", "waiting"} => ~Hook(c) /\ told[c] = "null"
  /\ post[c] # "none" => client[c].at \in {"posting", "done"} /\ reply[c] = Nothing
  /\ client[c].at = "start" => post[c] = "none"
  /\ client[c].at = "start" \/ post[c] = "sent" =>
       /\ row[c] = NoRow /\ job[c] = "none" /\ copy[c] = NoFile
       /\ told[c] = "null" /\ reply[c] = Nothing /\ client[c].exit # 0

Judged(c) ==
  IF client[c].held \in Locked THEN ~Hook(c) ELSE client[c].held \notin Detected

(* Statuses the script of scan c would end with 0 on *)
Accepts(c, r) ==
  \/ r.status = "CLEAN"
  \/ r.status = "ENCRYPTED" /\ r.allowed = "yes" /\ ~Hook(c)

(* What is accepted, or will be, was judged, in the row, on the way and at *)
(* the end                                                                 *)
Answered(c) ==
  /\ Accepts(c, row[c]) => Judged(c)
  /\ reply[c] # Nothing => told[c] = reply[c].allowed
  /\ Accepts(c, reply[c]) => Judged(c) /\ reply[c].allowed = "yes"
  /\ client[c].exit = 0 =>
       client[c].at = "done" /\ post[c] = "none" /\ told[c] = "yes" /\ Judged(c)

(* What the endpoint of the script says now *)
Says(c) == IF Hook(c) THEN StatusResponse(row[c]).allowed ELSE UploadResponse(row[c]).allowed

(* Who was told no, or yes, and asks again gets nothing more lenient; the  *)
(* script whose POST was refused does not ask                              *)
Hardened(c) ==
  /\ told[c] = "no" =>
       \/ Says(c) = "no"
       \/ /\ client[c].at \in {"posting", "done"} /\ post[c] = "none"
          /\ client[c].at = "posting" => reply[c] = Refusal
  /\ told[c] = "yes" => Says(c) # "null"

ScanInv(c) == Placed(c) /\ Fetched(c) /\ Submitted(c) /\ Answered(c) /\ Hardened(c)

(* Unless the user interferes, what is about to be removed was detected *)
FileInv ==
  ~swapped =>
    /\ harmed \subseteq Detected
    /\ \A c \in Clients : job[c] = "remove" => source = client[c].held

AllScansInv == \A c \in Clients : ScanInv(c)
FlowInv == TypeOK /\ AllScansInv /\ FileInv

-----------------------------------------------------------------------------
(* Scans do not disturb each other                                         *)

Untouched(d) ==
  /\ client'[d] = client[d] /\ post'[d] = post[d] /\ reply'[d] = reply[d]
  /\ told'[d] = told[d] /\ row'[d] = row[d] /\ job'[d] = job[d] /\ copy'[d] = copy[d]

(* A scan nobody touches keeps its invariant.                              *)
LEMMA UntouchedKeeps ==
  ASSUME NEW d \in Clients, ScanInv(d), Untouched(d)
  PROVE  ScanInv(d)'
<1>1. Hook(d)' = Hook(d)
  BY DEF Untouched, Hook
<1>2. Judged(d)' = Judged(d)
  BY <1>1 DEF Untouched, Judged
<1>3. Says(d)' = Says(d)
  BY <1>1 DEF Untouched, Says
<1>4. \A r : Accepts(d, r)' = Accepts(d, r)
  BY <1>1 DEF Accepts
<1>5. Placed(d)' /\ Fetched(d)' /\ Submitted(d)'
  BY <1>1 DEF ScanInv, Untouched, Placed, Fetched, Submitted
<1>6. Answered(d)'
  BY <1>1, <1>2, <1>4 DEF ScanInv, Untouched, Answered, Accepts
<1>7. Hardened(d)'
  BY <1>3 DEF ScanInv, Untouched, Hardened
<1> QED
  BY <1>5, <1>6, <1>7 DEF ScanInv

(* A script, a request or a job touches its own scan only.                 *)
LEMMA OthersUntouched ==
  ASSUME TypeOK, NEW c \in Clients, ScanStep(c), NEW d \in Clients \ {c}
  PROVE  Untouched(d)
<1>1. CASE ClientStep(c) \/ Trouble(c)
  <2>1. client'[d] = client[d]
    BY <1>1 DEF ClientStep, Trouble, Start, HandlePost, Poll, HandlePoll, PostFails, PollFails,
                PollTruncated, Deadline, Reads, HookReads, GenericReads, Exit, TypeOK
  <2>2. /\ post'[d] = post[d] /\ reply'[d] = reply[d]
        /\ UNCHANGED <<told, row, job, copy>>
    BY <1>1 DEF ClientStep, Trouble, Start, HandlePost, Poll, HandlePoll, PostFails, PollFails,
                PollTruncated, Deadline, server, history, TypeOK
  <2> QED
    BY <2>1, <2>2 DEF Untouched
<1>2. CASE ApiStep(c)
  BY <1>2 DEF ApiStep, SubmitScan, UploadFile, FinalizeUpload, Reject, SyncAnswer, GetScanStatus,
              GetScan, Polled, Send, server, history, Untouched, TypeOK
<1>3. CASE JobStep(c)
  BY <1>3 DEF JobStep, Claim, Begin, FetchCheck, FetchCopy, Inspect, Scan, DeleteResolve,
              DeleteCheck, DeleteSource, DeleteFails, JobFails, WorkerDies, Dispose, Fail, Write,
              JobGoes, Quiet, Untouched, TypeOK
<1> QED
  BY <1>1, <1>2, <1>3 DEF ScanStep

-----------------------------------------------------------------------------
(* The scripts                                                             *)

(* The script is under way; where it goes on, its POST was answered, and   *)
(* with no refusal; where it accepts, it was told to                       *)
Proceeds(c) ==
  /\ client[c].at \in {"posting", "polling", "asking"}
  /\ client'[c].kind = client[c].kind /\ client'[c].held = client[c].held
  /\ client'[c].at \in {"polling", "asking", "done"}
  /\ client'[c].at # "done" =>
       post[c] = "none" /\ ~(client[c].at = "posting" /\ reply[c] = Refusal)
  /\ client'[c].exit = 0 =>
       client'[c].at = "done" /\ post[c] = "none" /\ told[c] = "yes" /\ Judged(c)

(* A script that proceeds keeps the invariant.                             *)
LEMMA ProceedingKeeps ==
  ASSUME NEW c \in Clients, ScanInv(c), Proceeds(c), reply'[c] \in {Nothing, reply[c]},
         UNCHANGED <<post, told, row, job, copy>>
  PROVE  ScanInv(c)'
<1>1. Hook(c)' = Hook(c) /\ Judged(c)' = Judged(c)
  BY DEF Proceeds, Hook, Judged
<1>2. Says(c)' = Says(c)
  BY <1>1 DEF Says
<1>3. ~Accepts(c, Nothing) /\ \A r : Accepts(c, r)' = Accepts(c, r)
  BY <1>1 DEF Accepts, Nothing, Answer
<1>4. Placed(c)'
  BY DEF ScanInv, Placed
<1>5. Fetched(c)'
  BY <1>1 DEF ScanInv, Fetched, Proceeds
<1>6. Submitted(c)'
  BY <1>1 DEF ScanInv, Submitted, Proceeds
<1>7. Answered(c)'
  <2>1. Accepts(c, row[c])' = Accepts(c, row[c])
    BY <1>1 DEF Accepts
  <2>2. Accepts(c, reply[c])' => Accepts(c, reply[c]) /\ reply'[c] = reply[c]
    BY <1>1, <1>3 DEF Accepts
  <2> QED
    BY <1>1, <2>1, <2>2 DEF ScanInv, Answered, Proceeds
<1>8. Hardened(c)'
  BY <1>2 DEF ScanInv, Hardened, Proceeds
<1> QED
  BY <1>4, <1>5, <1>6, <1>7, <1>8 DEF ScanInv

(* A script that reads no answer, or gives up, keeps the invariant.        *)
LEMMA QuietScriptKeeps ==
  ASSUME TypeOK, NEW c \in Clients, ScanInv(c),
         Poll(c) \/ PostFails(c) \/ PollFails(c) \/ PollTruncated(c) \/ Deadline(c)
  PROVE  ScanInv(c)'
<1>1. client[c] \in Scripts /\ client[c].exit = 0 => client[c].at = "done"
  BY DEF TypeOK, ScanInv, Answered
<1>2. client[c].at \in {"polling", "asking"} => post[c] = "none"
  BY DEF ScanInv, Submitted
<1>3. Proceeds(c)
  BY <1>1, <1>2 DEF Poll, PostFails, PollFails, PollTruncated, Deadline, Exit, TypeOK, Scripts,
                   Proceeds
<1>4. reply'[c] \in {Nothing, reply[c]} /\ UNCHANGED <<post, told, row, job, copy>>
  BY DEF Poll, PostFails, PollFails, PollTruncated, Deadline, server, history, TypeOK
<1> QED
  BY <1>3, <1>4, ProceedingKeeps

(* The answers a script takes for an acceptance are those of Accepts.      *)
LEMMA ReadsProceeds ==
  ASSUME TypeOK, NEW c \in Clients, ScanInv(c), HandlePost(c) \/ HandlePoll(c)
  PROVE  Proceeds(c)
<1>1. /\ client[c] \in Scripts /\ client[c].at \in {"posting", "asking"} /\ reply[c] # Nothing
      /\ client[c].exit # 0
  BY DEF TypeOK, ScanInv, Answered, HandlePost, HandlePoll
<1>2. post[c] = "none"
  BY <1>1 DEF ScanInv, Submitted
<1>3. CASE Exit(c, 0) /\ Accepts(c, reply[c])
  <2>1. told[c] = "yes" /\ Judged(c)
    BY <1>1, <1>3 DEF ScanInv, Answered
  <2> QED
    BY <1>1, <1>2, <1>3, <2>1 DEF Exit, Proceeds, Scripts, TypeOK
<1>4. CASE Exit(c, 1) \/ Exit(c, 2)
  BY <1>1, <1>4 DEF Exit, Proceeds, Scripts, TypeOK
<1>5. CASE /\ client' = [client EXCEPT ![c].at = "polling"]
           /\ ~(client[c].at = "posting" /\ reply[c] = Refusal)
  BY <1>1, <1>2, <1>5 DEF Proceeds, Scripts, TypeOK
<1>6. HandlePost(c) /\ reply[c] = Refusal => Exit(c, 2)
  BY DEF HandlePost
<1>7. Reads(c, reply[c]) =>
        \/ Exit(c, 0) /\ Accepts(c, reply[c])
        \/ Exit(c, 1) \/ Exit(c, 2)
        \/ client' = [client EXCEPT ![c].at = "polling"]
  BY DEF Reads, HookReads, GenericReads, Accepts
<1> QED
  BY <1>3, <1>4, <1>5, <1>6, <1>7 DEF HandlePost, HandlePoll

(* Every step of a script keeps the invariant of its scan.                 *)
LEMMA ScriptKeeps ==
  ASSUME TypeOK, NEW c \in Clients, ScanInv(c), ClientStep(c) \/ Trouble(c)
  PROVE  ScanInv(c)'
<1>1. CASE Start(c)
  <2>1. /\ row[c] = NoRow /\ job[c] = "none" /\ copy[c] = NoFile /\ told[c] = "null"
        /\ reply[c] = Nothing /\ post[c] = "none" /\ client[c].exit # 0
    BY <1>1 DEF Start, ScanInv, Submitted
  <2>2. /\ client'[c].kind = client[c].kind /\ client'[c].exit # 0
        /\ \/ client'[c].at = "done" /\ UNCHANGED post
           \/ client'[c].at = "posting" /\ post'[c] = "sent"
    BY <1>1, <2>1 DEF Start, Exit, TypeOK, Scripts
  <2>3. UNCHANGED <<row, job, copy, told, reply>>
    BY <1>1 DEF Start, server, history
  <2>4. ~Accepts(c, NoRow)' /\ ~Accepts(c, Nothing)'
    BY DEF Accepts, NoRow, Nothing, Answer
  <2>5. Placed(c)'
    BY <2>3 DEF ScanInv, Placed
  <2>6. Fetched(c)' /\ Submitted(c)' /\ Hardened(c)'
    BY <2>1, <2>2, <2>3 DEF Fetched, Submitted, Hardened, Deleting
  <2>7. Answered(c)'
    BY <2>1, <2>2, <2>3, <2>4 DEF Answered, Accepts
  <2> QED
    BY <2>5, <2>6, <2>7 DEF ScanInv
<1>2. CASE HandlePost(c) \/ HandlePoll(c)
  <2>1. reply'[c] \in {Nothing, reply[c]} /\ UNCHANGED <<post, told, row, job, copy>>
    BY <1>2 DEF HandlePost, HandlePoll, server, history, TypeOK
  <2> QED
    BY <1>2, <2>1, ReadsProceeds, ProceedingKeeps
<1>3. CASE Poll(c) \/ PostFails(c) \/ PollFails(c) \/ PollTruncated(c) \/ Deadline(c)
  BY <1>3, QuietScriptKeeps
<1> QED
  BY <1>1, <1>2, <1>3 DEF ClientStep, Trouble

-----------------------------------------------------------------------------
(* The endpoints                                                           *)

(* Both responses report the row's status, and say yes to a clean scan.    *)
LEMMA Responses ==
  ASSUME NEW c \in Clients, NEW body,
         \/ Hook(c) /\ body = StatusResponse(row[c])
         \/ ~Hook(c) /\ body = UploadResponse(row[c])
  PROVE  body.allowed = Says(c) /\ (Accepts(c, body) => Accepts(c, row[c]) /\ body.allowed = "yes")
<1>1. CASE Hook(c) /\ body = StatusResponse(row[c])
  <2>1. body.status = row[c].status /\ (row[c].status = "CLEAN" => body.allowed = "yes")
    BY <1>1 DEF StatusResponse, Answer
  <2> QED
    BY <1>1, <2>1 DEF Says, Accepts
<1>2. CASE ~Hook(c) /\ body = UploadResponse(row[c])
  <2>1. /\ body.status = row[c].status
        /\ row[c].status = "CLEAN" => body.allowed = "yes"
        /\ row[c].status = "ENCRYPTED" /\ body.allowed = "yes" => row[c].allowed = "yes"
    BY <1>2 DEF UploadResponse, Answer
  <2> QED
    BY <1>2, <2>1 DEF Says, Accepts
<1> QED
  BY <1>1, <1>2

(* A body that repeats the row, or a refusal, goes to a script that waits  *)
(* for it or is gone                                                       *)
Fair(c, body) ==
  /\ post'[c] = "none"
  /\ \/ post[c] # "none"
     \/ client[c].at = "asking"
  /\ \/ body = Refusal /\ client[c].at # "asking"
     \/ /\ body.allowed = Says(c)
        /\ Accepts(c, body) => Accepts(c, row[c]) /\ body.allowed = "yes"

(* Such an answer keeps the invariant, and is no more lenient than the one *)
(* before.                                                                 *)
LEMMA SendKeeps ==
  ASSUME TypeOK, NEW c \in Clients, ScanInv(c), NEW body, Send(c, body), Fair(c, body),
         UNCHANGED <<client, row, job, copy>>
  PROVE  ScanInv(c)'
<1>1. /\ told'[c] = body.allowed
      /\ reply'[c] = (IF client[c].at = "done" THEN Nothing ELSE body)
  BY DEF Send, TypeOK
<1>2. client[c].at \in {"posting", "asking", "done"} /\ client[c].exit # 0
  BY DEF ScanInv, Submitted, Answered, Fair
<1>3. Hook(c)' = Hook(c) /\ Judged(c)' = Judged(c)
  BY DEF Hook, Judged
<1>4. Says(c)' = Says(c)
  BY <1>3 DEF Says
<1>5. ~Accepts(c, Nothing) /\ ~Accepts(c, Refusal) /\ Refusal.allowed = "no"
  BY DEF Accepts, Nothing, Refusal, Answer
<1>6. Placed(c)'
  BY DEF ScanInv, Placed
<1>7. Fetched(c)'
  BY <1>3 DEF ScanInv, Fetched
<1>8. Submitted(c)'
  BY <1>2 DEF Fair, Submitted
<1>9. Answered(c)'
  <2>1. Accepts(c, row[c])' = Accepts(c, row[c])
    BY <1>3 DEF Accepts
  <2>2. Accepts(c, reply[c])' => Accepts(c, body) /\ body # Refusal /\ reply'[c] = body
    BY <1>1, <1>3, <1>5 DEF Accepts
  <2> QED
    BY <1>1, <1>2, <1>3, <2>1, <2>2 DEF ScanInv, Answered, Fair
<1>10. Hardened(c)'
  BY <1>1, <1>2, <1>4, <1>5 DEF Fair, Hardened
<1> QED
  BY <1>6, <1>7, <1>8, <1>9, <1>10 DEF ScanInv

(* The endpoints that answer about a row do so fairly.                     *)
LEMMA AnswersAreFair ==
  ASSUME TypeOK, NEW c \in Clients, ScanInv(c),
         SyncAnswer(c) \/ GetScanStatus(c) \/ GetScan(c) \/ Reject(c)
  PROVE  \E body : Send(c, body) /\ Fair(c, body) /\ UNCHANGED <<client, row, job, copy>>
<1>1. CASE SyncAnswer(c)
  <2>1. ~Hook(c)
    BY <1>1 DEF SyncAnswer, ScanInv, Submitted
  <2> QED
    BY <1>1, <2>1, Responses DEF SyncAnswer, Fair, server, TypeOK
<1>2. CASE GetScanStatus(c) \/ GetScan(c)
  <2>1. post[c] = "none"
    BY <1>2 DEF GetScanStatus, GetScan, Polled, ScanInv, Submitted
  <2> QED
    BY <1>2, <2>1, Responses DEF GetScanStatus, GetScan, Polled, Fair, server
<1>3. CASE Reject(c)
  <2>1. client[c].at # "asking"
    BY <1>3 DEF Reject, ScanInv, Submitted
  <2> QED
    BY <1>3, <2>1 DEF Reject, Fair, server, TypeOK
<1> QED
  BY <1>1, <1>2, <1>3

(* Every step of a request keeps the invariant of its scan.                *)
LEMMA ApiKeeps ==
  ASSUME TypeOK, NEW c \in Clients, ScanInv(c), ApiStep(c)
  PROVE  ScanInv(c)'
<1>1. CASE SyncAnswer(c) \/ GetScanStatus(c) \/ GetScan(c) \/ Reject(c)
  BY <1>1, AnswersAreFair, SendKeeps
<1>2. CASE SubmitScan(c) \/ UploadFile(c)
  <2>1. /\ row[c] = NoRow /\ job[c] = "none" /\ copy[c] = NoFile /\ told[c] = "null"
        /\ reply[c] = Nothing /\ client[c].at \in {"posting", "done"} /\ client[c].exit # 0
    BY <1>2 DEF SubmitScan, UploadFile, ScanInv, Submitted
  <2>2. /\ UNCHANGED <<client, job, copy>> /\ told'[c] = "null"
        /\ row'[c] = Answer("RECEIVED", "null")
        /\ \/ post'[c] = "none" /\ reply'[c] \in {Nothing, Answer("RECEIVED", "null")}
           \/ ~Hook(c) /\ post'[c] = "staging" /\ reply'[c] = Nothing
    BY <1>2, <2>1 DEF SubmitScan, UploadFile, Send, Answer, TypeOK
  <2>3. Hook(c)' = Hook(c) /\ ~Accepts(c, Answer("RECEIVED", "null")) /\ ~Accepts(c, Nothing)
    BY <2>2 DEF Hook, Accepts, Nothing, Answer
  <2>4. Placed(c)'
    BY <2>1, <2>2 DEF Placed, Answer, BeforeVerdict
  <2>5. Fetched(c)' /\ Submitted(c)'
    BY <2>1, <2>2, <2>3 DEF Fetched, Submitted, Deleting
  <2>6. Answered(c)' /\ Hardened(c)'
    BY <2>1, <2>2, <2>3 DEF Answered, Hardened, Accepts, Answer
  <2> QED
    BY <2>4, <2>5, <2>6 DEF ScanInv
<1>3. CASE FinalizeUpload(c)
  <2>1. /\ UNCHANGED <<client, reply, row, job, told>>
        /\ copy'[c] = client[c].held /\ post'[c] = "waiting" /\ post[c] = "staging"
    BY <1>3 DEF FinalizeUpload, history, TypeOK
  <2>2. ~Hook(c) /\ Hook(c)' = Hook(c) /\ Judged(c)' = Judged(c) /\ Says(c)' = Says(c)
    BY <2>1 DEF ScanInv, Submitted, Hook, Judged, Says
  <2>3. Placed(c)' /\ Fetched(c)' /\ Submitted(c)'
    BY <2>1, <2>2 DEF ScanInv, Placed, Fetched, Submitted
  <2>4. Answered(c)' /\ Hardened(c)'
    BY <2>1, <2>2 DEF ScanInv, Submitted, Answered, Hardened, Accepts
  <2> QED
    BY <2>3, <2>4 DEF ScanInv
<1> QED
  BY <1>1, <1>2, <1>3 DEF ApiStep

-----------------------------------------------------------------------------
(* The job                                                                 *)

(* The row stays, is still in progress, is refused, or gets a verdict      *)
Advances(c) ==
  /\ row[c].status \notin {"NONE"}
  /\ \/ row'[c] = row[c]
     \/ {row[c].status, row'[c].status} \subseteq InProgress
     \/ row'[c].status \in {"ERROR", "INFECTED", "CLEANUP_FAILED"}
     \/ /\ row[c].status \in InProgress
        /\ row'[c].status \in {"CLEAN", "ENCRYPTED"}
        /\ Accepts(c, row'[c]) => Judged(c)

(* A job's step that advances its row keeps the invariant.                 *)
LEMMA AdvancingKeeps ==
  ASSUME NEW c \in Clients, ScanInv(c), Advances(c), Quiet, Placed(c)', Fetched(c)'
  PROVE  ScanInv(c)'
<1>1. UNCHANGED <<client, post, reply, told>>
  BY DEF Quiet
<1>2. Hook(c)' = Hook(c) /\ Judged(c)' = Judged(c) /\ row[c].status # "NONE"
  BY <1>1 DEF Hook, Judged, Advances
<1>3. client[c].at # "start" /\ post[c] # "sent"
  BY <1>2 DEF ScanInv, Submitted, NoRow, Answer
<1>4. Submitted(c)'
  BY <1>1, <1>2, <1>3 DEF ScanInv, Submitted
<1>5. Answered(c)'
  BY <1>1, <1>2 DEF ScanInv, Answered, Advances, Accepts, InProgress
<1>6. Hardened(c)'
  <2>1. row'[c] = row[c] => Says(c)' = Says(c)
    BY <1>2 DEF Says
  <2>2. row[c].status \in InProgress => Says(c) = "null"
    BY DEF Says, StatusResponse, UploadResponse, Answer, InProgress
  <2>3. row'[c].status \in {"ERROR", "INFECTED", "CLEANUP_FAILED"} => Says(c)' = "no"
    BY DEF Says, StatusResponse, UploadResponse, Answer
  <2> QED
    BY <1>1, <2>1, <2>2, <2>3 DEF ScanInv, Hardened, Advances
<1> QED
  BY <1>4, <1>5, <1>6 DEF ScanInv

(* Every step of a job keeps the invariant of its scan.                    *)
LEMMA JobKeeps ==
  ASSUME TypeOK, NEW c \in Clients, ScanInv(c), JobStep(c)
  PROVE  ScanInv(c)'
<1>1. Quiet
  BY DEF JobStep, Claim, Begin, FetchCheck, FetchCopy, Inspect, Scan, DeleteResolve, DeleteCheck,
         DeleteSource, DeleteFails, JobFails, WorkerDies, Dispose
<1>2. Hook(c)' = Hook(c) /\ client' = client
  BY <1>1 DEF Quiet, Hook
<1>3. \A to : JobGoes(c, to) => job'[c] = to
  BY DEF JobGoes, TypeOK
<1>4. \A s, a : Write(c, s, a) => row'[c] = Answer(s, a) /\ row'[c].status = s
  BY DEF Write, Answer, TypeOK
<1>5. Fail(c) => job'[c] = "dispose" /\ row'[c].status = "ERROR"
  BY <1>3, <1>4 DEF Fail
<1>6. CASE Claim(c)
  <2>1. Placed(c)'
    BY <1>3, <1>4, <1>6 DEF Claim, Placed, InProgress, BeforeVerdict
  <2>2. Fetched(c)'
    BY <1>2, <1>3, <1>6 DEF Claim, ScanInv, Fetched, Deleting
  <2>3. Advances(c)
    BY <1>4, <1>6 DEF Claim, Advances, InProgress
  <2> QED
    BY <1>1, <2>1, <2>2, <2>3, AdvancingKeeps
<1>7. CASE Begin(c)
  <2>1. Placed(c)'
    BY <1>3, <1>4, <1>7 DEF Begin, Placed, InProgress, BeforeVerdict
  <2>2. Fetched(c)'
    BY <1>2, <1>3, <1>7 DEF Begin, ScanInv, Fetched, Deleting
  <2>3. Advances(c)
    BY <1>4, <1>7 DEF Begin, ScanInv, Placed, BeforeVerdict, Advances, InProgress
  <2> QED
    BY <1>1, <2>1, <2>2, <2>3, AdvancingKeeps
<1>8. CASE FetchCheck(c) \/ FetchCopy(c)
  <2>0. /\ row[c].status \in InProgress \ {"RECEIVED"} /\ Hook(c)
        /\ \/ Fail(c)
           \/ job'[c] \in {"fetch", "inspect"} /\ row' = row
    BY <1>3, <1>8 DEF FetchCheck, FetchCopy, ScanInv, Placed, Fetched, BeforeVerdict
  <2>1. Placed(c)'
    BY <1>5, <2>0 DEF Placed, InProgress, Terminal, Overlayable, BeforeVerdict
  <2>2. Fetched(c)'
    BY <1>2, <1>5, <2>0 DEF Fetched, Deleting
  <2>3. Advances(c)
    BY <1>5, <2>0 DEF Advances, InProgress
  <2> QED
    BY <1>1, <2>1, <2>2, <2>3, AdvancingKeeps
<1>9. CASE Inspect(c)
  <2>0. /\ row[c].status \in InProgress /\ copy' = copy
        /\ \/ /\ copy[c] \in Locked /\ job'[c] = "dispose" /\ row'[c].status = "ENCRYPTED"
           \/ copy[c] \notin Locked /\ job'[c] = "scan" /\ row'[c].status = "SCANNING"
    BY <1>3, <1>4, <1>9 DEF Inspect, ScanInv, Placed, BeforeVerdict
  <2>1. Placed(c)'
    BY <2>0 DEF Placed, InProgress, Terminal, Overlayable, BeforeVerdict
  <2>2. Fetched(c)'
    BY <1>2, <2>0 DEF ScanInv, Fetched, Deleting
  <2>3. Advances(c)
    <3>1. ~Hook(c) /\ copy[c] \in Locked => Judged(c)
      BY ContentsAssumption DEF ScanInv, Fetched, Judged
    <3> QED
      BY <2>0, <3>1 DEF Advances, Accepts, InProgress
  <2> QED
    BY <1>1, <2>1, <2>2, <2>3, AdvancingKeeps
<1>10. CASE Scan(c)
  <2>0. /\ row[c].status \in InProgress /\ copy' = copy /\ job[c] = "scan"
        /\ \/ Fail(c)
           \/ /\ copy[c] = client[c].held /\ copy[c] \in Detected /\ row'[c].status = "INFECTED"
              /\ job'[c] = IF Hook(c) THEN "realpath" ELSE "dispose"
           \/ /\ copy[c] = client[c].held /\ copy[c] \notin Detected
              /\ row'[c].status = "CLEAN" /\ job'[c] = "dispose"
    BY <1>3, <1>4, <1>10 DEF Scan, ScanInv, Placed, BeforeVerdict
  <2>1. Placed(c)'
    BY <1>5, <2>0 DEF Placed, InProgress, Terminal, Overlayable, BeforeVerdict
  <2>2. Fetched(c)'
    BY <1>2, <1>5, <2>0 DEF ScanInv, Fetched, Deleting
  <2>3. Advances(c)
    <3>1. copy[c] = client[c].held /\ copy[c] \notin Detected => Judged(c)
      BY <2>0 DEF ScanInv, Fetched, Judged
    <3> QED
      BY <1>5, <2>0, <3>1 DEF Advances, InProgress
  <2> QED
    BY <1>1, <2>1, <2>2, <2>3, AdvancingKeeps
<1>11. CASE \/ DeleteResolve(c) \/ DeleteCheck(c) \/ DeleteSource(c)
            \/ DeleteFails(c) \/ WorkerDies(c)
  <2>0. /\ row' = row /\ copy' = copy /\ row[c].status \in Terminal
        /\ \/ job'[c] \in {"dispose", "ended"}
           \/ job[c] \in Deleting /\ job'[c] \in Deleting
    BY <1>3, <1>11 DEF DeleteResolve, DeleteCheck, DeleteSource, DeleteFails, WorkerDies, ScanInv,
                       Placed, BeforeVerdict, Deleting
  <2>1. Placed(c)'
    BY <2>0 DEF Placed, Terminal, Overlayable, BeforeVerdict, Deleting
  <2>2. Fetched(c)'
    BY <1>2, <2>0 DEF ScanInv, Fetched, Deleting
  <2>3. Advances(c)
    BY <2>0 DEF Advances, Terminal, Overlayable
  <2> QED
    BY <1>1, <2>1, <2>2, <2>3, AdvancingKeeps
<1>12. CASE JobFails(c)
  <2>0. row[c].status # "NONE" /\ copy' = copy
    BY <1>12 DEF JobFails, ScanInv, Placed
  <2>1. Placed(c)'
    BY <1>5, <1>12 DEF JobFails, Placed, Terminal, Overlayable, BeforeVerdict
  <2>2. Fetched(c)'
    BY <1>2, <1>5, <1>12, <2>0 DEF JobFails, ScanInv, Fetched, Deleting
  <2>3. Advances(c)
    BY <1>5, <1>12, <2>0 DEF JobFails, Advances
  <2> QED
    BY <1>1, <2>1, <2>2, <2>3, AdvancingKeeps
<1>13. CASE Dispose(c)
  <2>0. /\ row[c].status \in Terminal /\ job'[c] = "ended" /\ copy'[c] \in {NoFile, copy[c]}
        /\ row'[c] = row[c] \/ row'[c].status = "CLEANUP_FAILED"
    BY <1>3, <1>13 DEF Dispose, ScanInv, Placed, BeforeVerdict, TypeOK, Rows
  <2>1. Placed(c)'
    BY <2>0 DEF Placed, Terminal, Overlayable, BeforeVerdict
  <2>2. Fetched(c)'
    BY <1>2, <2>0 DEF ScanInv, Fetched, Deleting
  <2>3. Advances(c)
    BY <2>0 DEF Advances, Terminal, Overlayable
  <2> QED
    BY <1>1, <2>1, <2>2, <2>3, AdvancingKeeps
<1> QED
  BY <1>6, <1>7, <1>8, <1>9, <1>10, <1>11, <1>12, <1>13 DEF JobStep

-----------------------------------------------------------------------------
(* The file                                                                *)

(* What is unchanged does not disturb FileInv; a swap excuses it.          *)
LEMMA FileKept ==
  ASSUME FileInv, UNCHANGED harmed,
         \/ swapped'
         \/ /\ UNCHANGED <<swapped, source>>
            /\ \A d \in Clients : job'[d] = "remove" =>
                 job[d] = "remove" /\ client'[d].held = client[d].held
  PROVE  FileInv'
BY DEF FileInv

(* The user's edits between hash and removal are what swapped is about.    *)
LEMMA EditKeepsFile ==
  ASSUME TypeOK, FileInv, NEW x \in Contents \cup {NoFile}, Edit(x)
  PROVE  FileInv'
BY DEF Edit, FileInv, server, TypeOK

(* Steps of the scripts and the endpoints leave the file and the jobs      *)
(* alone, and change no content a job believes in.                         *)
LEMMA BystandersKeepFile ==
  ASSUME TypeOK, FileInv, NEW c \in Clients, ScanInv(c), ClientStep(c) \/ Trouble(c) \/ ApiStep(c)
  PROVE  FileInv'
<1>1. UNCHANGED <<harmed, swapped, source, job>>
  BY DEF ClientStep, Trouble, ApiStep, Start, HandlePost, Poll, HandlePoll, PostFails, PollFails,
         PollTruncated, Deadline, SubmitScan, UploadFile, FinalizeUpload, Reject, SyncAnswer,
         GetScanStatus, GetScan, Polled, server, history
<1>2. ASSUME NEW d \in Clients, job[d] = "remove"
      PROVE  client'[d].held = client[d].held
  <2>1. CASE d # c
    BY <2>1, OthersUntouched DEF ScanStep, Untouched
  <2>2. CASE d = c
    <3>1. ~Start(c)
      BY <1>2, <2>2 DEF Start, ScanInv, Submitted
    <3>2. CASE ApiStep(c)
      BY <3>2 DEF ApiStep, SubmitScan, UploadFile, FinalizeUpload, Reject, SyncAnswer,
                  GetScanStatus, GetScan, Polled
    <3>3. CASE HandlePost(c) \/ HandlePoll(c)
      BY <2>2, <3>3, ReadsProceeds DEF Proceeds
    <3>4. CASE Poll(c) \/ PostFails(c) \/ PollFails(c) \/ PollTruncated(c) \/ Deadline(c)
      BY <2>2, <3>4 DEF Poll, PostFails, PollFails, PollTruncated, Deadline, Exit, TypeOK, Scripts
    <3> QED
      BY <3>1, <3>2, <3>3, <3>4 DEF ClientStep, Trouble
  <2> QED
    BY <2>1, <2>2
<1> QED
  BY <1>1, <1>2, FileKept

(* The playbook removes what it hashed, or the user swapped it.            *)
LEMMA JobKeepsFile ==
  ASSUME TypeOK, FileInv, NEW c \in Clients, ScanInv(c), JobStep(c)
  PROVE  FileInv'
<1>1. client' = client /\ \A d \in Clients \ {c} : job'[d] = job[d]
  BY OthersUntouched DEF ScanStep, Untouched, JobStep, Claim, Begin, FetchCheck, FetchCopy, Inspect,
         Scan, DeleteResolve, DeleteCheck, DeleteSource, DeleteFails, JobFails, WorkerDies, Dispose,
         Quiet
<1>2. CASE DeleteSource(c)
  <2>1. job[c] = "remove" /\ client[c].held \in Detected
    BY <1>2 DEF DeleteSource, ScanInv, Fetched, Deleting
  <2>2. job'[c] # "remove"
    BY <1>2 DEF DeleteSource, JobGoes, TypeOK
  <2> QED
    BY <1>1, <1>2, <2>1, <2>2 DEF DeleteSource, FileInv, TypeOK
<1>3. CASE DeleteCheck(c)
  <2>1. job'[c] = "remove" => source = client[c].held
    BY <1>3 DEF DeleteCheck, JobGoes, TypeOK
  <2> QED
    BY <1>1, <1>3, <2>1 DEF DeleteCheck, FileInv, TypeOK
<1>4. CASE \/ Claim(c) \/ Begin(c) \/ FetchCheck(c) \/ FetchCopy(c) \/ Inspect(c) \/ Scan(c)
           \/ DeleteResolve(c) \/ DeleteFails(c) \/ JobFails(c) \/ WorkerDies(c) \/ Dispose(c)
  <2>1. job'[c] # "remove" /\ UNCHANGED <<harmed, swapped, source>>
    BY <1>4 DEF Claim, Begin, FetchCheck, FetchCopy, Inspect, Scan, DeleteResolve, DeleteFails,
                JobFails, WorkerDies, Dispose, Fail, JobGoes, TypeOK
  <2> QED
    BY <1>1, <2>1, FileKept
<1> QED
  BY <1>2, <1>3, <1>4 DEF JobStep

-----------------------------------------------------------------------------
(* The invariant                                                           *)

(* The invariant holds at first.                                           *)
LEMMA FlowInit == Init => FlowInv
<1> SUFFICES ASSUME Init PROVE FlowInv
  OBVIOUS
<1>1. ASSUME NEW c \in Clients
      PROVE  ScanInv(c)
  <2>1. client[c].at = "start" /\ client[c].exit = 9
    BY DEF Init
  <2>2. Placed(c)
    BY DEF Init, Placed, NoRow, Answer, BeforeVerdict
  <2>3. Fetched(c) /\ Submitted(c) /\ Hardened(c)
    BY <2>1 DEF Init, Fetched, Deleting, Submitted, Hardened
  <2>4. Answered(c)
    BY <2>1 DEF Init, Answered, Accepts, NoRow, Nothing, Answer
  <2> QED
    BY <2>2, <2>3, <2>4 DEF ScanInv
<1>2. FileInv
  BY DEF Init, FileInv
<1> QED
  BY <1>1, <1>2, TypeInit DEF FlowInv, AllScansInv

(* Every step keeps it.                                                    *)
LEMMA FlowStep == FlowInv /\ [Next]_vars => FlowInv'
<1> SUFFICES ASSUME FlowInv, [Next]_vars PROVE FlowInv'
  OBVIOUS
<1>0. TypeOK /\ FileInv /\ \A c \in Clients : ScanInv(c)
  BY DEF FlowInv, AllScansInv
<1>1. ASSUME NEW c \in Clients, ScanStep(c)
      PROVE  FlowInv'
  <2>1. TypeOK'
    BY <1>0, <1>1, ScriptType, ApiType, JobType DEF ScanStep
  <2>2. ScanInv(c)'
    BY <1>0, <1>1, ScriptKeeps, ApiKeeps, JobKeeps DEF ScanStep
  <2>3. ASSUME NEW d \in Clients \ {c} PROVE ScanInv(d)'
    BY <1>0, <1>1, OthersUntouched, UntouchedKeeps
  <2>4. FileInv'
    BY <1>0, <1>1, BystandersKeepFile, JobKeepsFile DEF ScanStep
  <2> QED
    BY <2>1, <2>2, <2>3, <2>4 DEF FlowInv, AllScansInv
<1>2. ASSUME NEW x \in Contents \cup {NoFile}, Edit(x)
      PROVE  FlowInv'
  <2>1. \A d \in Clients : Untouched(d)
    BY <1>2 DEF Edit, server, Untouched
  <2> QED
    BY <1>0, <1>2, <2>1, EditType, EditKeepsFile, UntouchedKeeps DEF FlowInv, AllScansInv
<1>3. CASE UNCHANGED vars
  <2>1. \A d \in Clients : Untouched(d)
    BY <1>3 DEF vars, server, history, Untouched
  <2>2. TypeOK' /\ FileInv'
    BY <1>0, <1>3 DEF vars, server, history, TypeOK, FileInv
  <2> QED
    BY <1>0, <2>1, <2>2, UntouchedKeeps DEF FlowInv, AllScansInv
<1> QED
  BY <1>1, <1>2, <1>3 DEF Next, ScanStep

(* It is an invariant.                                                     *)
LEMMA FlowInvariant == Spec => []FlowInv
BY FlowInit, FlowStep, PTL DEF Spec

-----------------------------------------------------------------------------
(* What follows                                                            *)

(* A script that ends with 0 was told so, of a file that was judged.       *)
THEOREM AcceptanceJudged == Spec => []AcceptedWasJudged
<1>1. FlowInv => AcceptedWasJudged
  BY DEF FlowInv, AllScansInv, ScanInv, Answered, Judged, AcceptedWasJudged
<1> QED
  BY <1>1, FlowInvariant, PTL

(* Unless the user swaps the file between its last hash and its removal,   *)
(* the playbook removes detected files only.                               *)
THEOREM DeletionDetected == Spec => []DeletesOnlyDetected
<1>1. FlowInv => DeletesOnlyDetected
  BY DEF FlowInv, FileInv, DeletesOnlyDetected
<1> QED
  BY <1>1, FlowInvariant, PTL

(* One step makes no answer more lenient.                                  *)
LEMMA StepHardens ==
  ASSUME FlowInv, [Next]_vars, NEW d \in Clients
  PROVE  (told[d] = "no" => told'[d] = "no") /\ (told[d] = "yes" => told'[d] # "null")
<1>0. TypeOK /\ ScanInv(d)
  BY DEF FlowInv, AllScansInv
<1>1. ASSUME NEW c \in Clients, ScanStep(c), c # d
      PROVE  told'[d] = told[d]
  BY <1>0, <1>1, OthersUntouched DEF Untouched
<1>2. CASE ClientStep(d) \/ Trouble(d) \/ JobStep(d)
  BY <1>2 DEF ClientStep, Trouble, JobStep, Start, HandlePost, Poll, HandlePoll, PostFails, PollFails,
              PollTruncated, Deadline, history, Claim, Begin, FetchCheck, FetchCopy, Inspect, Scan,
              DeleteResolve, DeleteCheck, DeleteSource, DeleteFails, JobFails, WorkerDies, Dispose, Quiet
<1>3. CASE ApiStep(d)
  <2>1. CASE SubmitScan(d) \/ UploadFile(d) \/ FinalizeUpload(d) \/ SyncAnswer(d)
    <3>1. told[d] = "null"
      BY <1>0, <2>1 DEF SubmitScan, UploadFile, FinalizeUpload, SyncAnswer, ScanInv, Submitted
    <3> QED
      BY <3>1
  <2>2. CASE Reject(d)
    BY <1>0, <2>2 DEF Reject, Send, Refusal, Answer, TypeOK
  <2>3. CASE GetScanStatus(d) \/ GetScan(d)
    <3>1. told'[d] = Says(d)
      BY <1>0, <2>3 DEF GetScanStatus, GetScan, Polled, Send, Says, TypeOK
    <3>2. /\ told[d] = "no" => Says(d) = "no"
          /\ told[d] = "yes" => Says(d) # "null"
      BY <1>0, <2>3 DEF GetScanStatus, GetScan, Polled, ScanInv, Hardened
    <3> QED
      BY <3>1, <3>2
  <2> QED
    BY <1>3, <2>1, <2>2, <2>3 DEF ApiStep
<1>4. CASE UNCHANGED told
  BY <1>4
<1> QED
  BY <1>1, <1>2, <1>3, <1>4 DEF Next, ScanStep, Edit, vars, history

(* The answers about a scan only harden.                                   *)
THEOREM AnswersHarden == Spec => AnswersOnlyHarden
<1>1. FlowInv /\ [Next]_vars =>
        [\A c \in Clients :
           /\ told[c] = "no" => told'[c] = "no"
           /\ told[c] = "yes" => told'[c] # "null"]_vars
  BY StepHardens
<1> QED
  BY <1>1, FlowInvariant, PTL DEF Spec, AnswersOnlyHarden

-----------------------------------------------------------------------------
(* The gate                                                                *)

(* The phase of a row is decided by its status and answer.                 *)
LEMMA PhaseValue ==
  ASSUME NEW r
  PROVE  /\ r.status = "NONE" => PhaseOf(r) = "absent"
         /\ r.status = "RECEIVED" => PhaseOf(r) = "queued"
         /\ r.status \in InProgress \ {"RECEIVED"} => PhaseOf(r) = "working"
         /\ r.status \in Terminal /\ r.allowed = "yes" => PhaseOf(r) = "allowed"
         /\ r.status \in Terminal /\ r.allowed # "yes" => PhaseOf(r) = "denied"
BY DEF PhaseOf, InProgress, Terminal, Overlayable

Successors ==
  {<<"absent", "queued">>, <<"queued", "working">>, <<"working", "allowed">>,
   <<"working", "denied">>, <<"allowed", "denied">>}

(* The row stays in its phase or goes on to one the gate allows *)
Follows(old, new) ==
  PhaseOf(new) = PhaseOf(old) \/ <<PhaseOf(old), PhaseOf(new)>> \in Successors

(* A row that does so is a step of the gate.                               *)
LEMMA PhaseStep ==
  ASSUME TypeOK, NEW c \in Clients, NEW new, row' = [row EXCEPT ![c] = new], Follows(row[c], new)
  PROVE  [Gate!Next]_phase
<1>1. phase' = [phase EXCEPT ![c] = PhaseOf(new)] /\ phase[c] = PhaseOf(row[c])
  BY DEF phase, TypeOK
<1>2. CASE PhaseOf(new) = PhaseOf(row[c])
  BY <1>1, <1>2 DEF phase
<1>3. CASE <<PhaseOf(row[c]), PhaseOf(new)>> \in Successors
  BY <1>1, <1>3 DEF Successors, Gate!Next, Gate!Submit, Gate!Take, Gate!Allow, Gate!Deny
<1> QED
  BY <1>2, <1>3 DEF Follows

(* So does a job that writes its row.                                      *)
LEMMA JobFollows ==
  ASSUME TypeOK, NEW c \in Clients, ScanInv(c), JobStep(c)
  PROVE  UNCHANGED row \/ \E new : row' = [row EXCEPT ![c] = new] /\ Follows(row[c], new)
<1>1. /\ job[c] \in BeforeVerdict => row[c].status \in InProgress \ {"RECEIVED"}
      /\ job[c] \notin BeforeVerdict \cup {"none"} => row[c].status \in Terminal
      /\ job[c] # "none" => row[c].status \in (InProgress \ {"RECEIVED"}) \cup Terminal
  BY DEF ScanInv, Placed, BeforeVerdict
<1>2. ASSUME row[c].status \in (InProgress \ {"RECEIVED"}) \cup Terminal
      PROVE  Follows(row[c], Answer("ERROR", "no"))
  <2>1. PhaseOf(Answer("ERROR", "no")) = "denied"
    BY PhaseValue DEF Answer, Terminal, Overlayable
  <2>2. PhaseOf(row[c]) \in {"working", "allowed", "denied"}
    BY <1>2, PhaseValue
  <2> QED
    BY <2>1, <2>2 DEF Follows, Successors
<1>3. ASSUME NEW s \in Terminal, NEW a \in {"yes", "no"},
             row[c].status \in InProgress \ {"RECEIVED"}
      PROVE  Follows(row[c], Answer(s, a))
  <2>1. PhaseOf(Answer(s, a)) \in {"allowed", "denied"}
    BY PhaseValue DEF Answer
  <2>2. PhaseOf(row[c]) = "working"
    BY <1>3, PhaseValue
  <2> QED
    BY <2>1, <2>2 DEF Follows, Successors
<1>4. ASSUME NEW s \in InProgress \ {"RECEIVED"}, row[c].status \in InProgress
      PROVE  Follows(row[c], Answer(s, "null"))
  <2>1. PhaseOf(Answer(s, "null")) = "working"
    BY PhaseValue DEF Answer
  <2>2. PhaseOf(row[c]) \in {"queued", "working"}
    BY <1>4, PhaseValue
  <2> QED
    BY <2>1, <2>2 DEF Follows, Successors
<1>5. {"CLEAN", "INFECTED", "ENCRYPTED"} \subseteq Terminal
  BY DEF Terminal, Overlayable
<1>6. {"VALIDATING", "TRANSFERRING", "SCANNING"} \subseteq InProgress \ {"RECEIVED"}
  BY DEF InProgress
<1>7. CASE Claim(c)
  BY <1>4, <1>6, <1>7 DEF Claim, Write, InProgress
<1>8. CASE Begin(c)
  BY <1>1, <1>4, <1>6, <1>8 DEF Begin, Write, BeforeVerdict
<1>9. CASE FetchCheck(c) \/ FetchCopy(c)
  BY <1>1, <1>2, <1>9 DEF FetchCheck, FetchCopy, Fail, Write, BeforeVerdict
<1>10. CASE Inspect(c)
  BY <1>1, <1>3, <1>4, <1>5, <1>6, <1>10 DEF Inspect, Write, BeforeVerdict
<1>11. CASE Scan(c)
  BY <1>1, <1>2, <1>3, <1>5, <1>11 DEF Scan, Fail, Write, BeforeVerdict
<1>12. CASE JobFails(c)
  BY <1>1, <1>2, <1>12 DEF JobFails, Fail, Write
<1>13. CASE Dispose(c)
  <2>1. row[c].status \in Terminal /\ row[c] \in Rows
    BY <1>1, <1>13 DEF Dispose, BeforeVerdict, TypeOK
  <2> DEFINE overlaid == [row[c] EXCEPT !.status = "CLEANUP_FAILED"]
  <2>2. overlaid.status = "CLEANUP_FAILED" /\ overlaid.allowed = row[c].allowed
    BY <2>1 DEF Rows
  <2>3. UNCHANGED row \/ row' = [row EXCEPT ![c] = overlaid]
    BY <1>13 DEF Dispose
  <2> HIDE DEF overlaid
  <2>4. PhaseOf(overlaid) = PhaseOf(row[c])
    BY <2>1, <2>2, PhaseValue DEF Terminal
  <2> QED
    BY <2>3, <2>4 DEF Follows
<1>14. CASE DeleteResolve(c) \/ DeleteCheck(c) \/ DeleteSource(c) \/ DeleteFails(c) \/ WorkerDies(c)
  BY <1>14 DEF DeleteResolve, DeleteCheck, DeleteSource, DeleteFails, WorkerDies
<1> QED
  BY <1>7, <1>8, <1>9, <1>10, <1>11, <1>12, <1>13, <1>14 DEF JobStep

(* Every step is a step of the gate, or none.                              *)
LEMMA StepOfGate ==
  ASSUME FlowInv, [Next]_vars
  PROVE  [Gate!Next]_phase
<1>0. TypeOK /\ \A c \in Clients : ScanInv(c)
  BY DEF FlowInv, AllScansInv
<1>1. UNCHANGED row => UNCHANGED phase
  BY DEF phase
<1>2. ASSUME NEW c \in Clients, ScanStep(c)
      PROVE  [Gate!Next]_phase
  <2>1. CASE JobStep(c)
    BY <1>0, <1>1, <2>1, JobFollows, PhaseStep
  <2>2. CASE SubmitScan(c) \/ UploadFile(c)
    <3>1. row[c] = NoRow /\ row' = [row EXCEPT ![c] = Answer("RECEIVED", "null")]
      BY <1>0, <2>2 DEF SubmitScan, UploadFile, ScanInv, Submitted
    <3>2. Follows(NoRow, Answer("RECEIVED", "null"))
      BY PhaseValue DEF NoRow, Answer, Follows, Successors
    <3> QED
      BY <1>0, <3>1, <3>2, PhaseStep
  <2>3. CASE ClientStep(c) \/ Trouble(c) \/ (ApiStep(c) /\ ~SubmitScan(c) /\ ~UploadFile(c))
    BY <1>1, <2>3 DEF ClientStep, Trouble, ApiStep, Start, HandlePost, Poll, HandlePoll, PostFails,
                      PollFails, PollTruncated, Deadline, FinalizeUpload, Reject, SyncAnswer,
                      GetScanStatus, GetScan, Polled, server
  <2> QED
    BY <1>2, <2>1, <2>2, <2>3 DEF ScanStep
<1>3. (\E x \in Contents \cup {NoFile} : Edit(x)) \/ UNCHANGED vars => UNCHANGED row
  BY DEF Edit, server, vars
<1> QED
  BY <1>1, <1>2, <1>3 DEF Next, ScanStep

(* The rows of this reduced job behave as AdmissionGate promises, like     *)
(* those of ScanPipeline.                                                  *)
THEOREM FlowImplementsGate == Spec => ImplementsGate
<1>1. Init => Gate!Init
  <2>1. PhaseOf(NoRow) = "absent"
    BY PhaseValue DEF NoRow, Answer
  <2>2. Init => \A c \in Clients : row[c] = NoRow
    BY DEF Init
  <2> QED
    BY <2>1, <2>2 DEF Gate!Init, phase
<1>2. FlowInv /\ [Next]_vars => [Gate!Next]_phase
  BY StepOfGate
<1> QED
  BY <1>1, <1>2, FlowInvariant, PTL DEF Spec, ImplementsGate, Gate!Spec
=============================================================================
