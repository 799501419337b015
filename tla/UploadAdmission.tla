--------------------------- MODULE UploadAdmission ---------------------------
(***************************************************************************)
(* A direct upload from the API key to the scanners that judge it, while   *)
(* administrators change the tables under it.  A request reads the client  *)
(* row, the settings and the profile in transactions of their own, awaits  *)
(* the file, and goes on with what it read before; the scan row it inserts *)
(* carries only a profile id, which a worker resolves later still.         *)
(*                                                                         *)
(* The body of process_scan is ScanPipeline's; here a job is its choice of *)
(* a profile, its choice of scanners and its verdict.                      *)
(***************************************************************************)
EXTENDS Administration

CONSTANTS
  Uploads,        \* ids of uploads, by an API client or in the panel
  Rescans,        \* ids of rescans an administrator asks for
  RetainInfected  \* RETAIN_INFECTED_COPY

ASSUME RetainAssumption == RetainInfected \in BOOLEAN

Requests == Uploads \cup Rescans

VARIABLES
  req,     \* what a request has read so far, and how far it is
  scan,    \* the row of scans and the job on it
  tmp,     \* the requests whose upload-tmp directory exists
  input    \* the scans whose staged input file exists

reqVars == <<req, scan, tmp, input>>
vars == <<adminVars, reqVars>>

(* failed: it raised, its process died, or its last removal did not work *)
RequestStep == {"idle", "settings", "profile", "mkdir", "reading", "staged", "inserted",
                "ended", "failed"}
InFlight == {"reading", "staged", "inserted"}

(* blocked and pin are the request's own copies; gate is who let it in *)
NoRequest == [at |-> "idle", gate |-> "none", contract |-> NoProfile, pin |-> NoProfile,
              blocked |-> FALSE, profile |-> NoProfile]
(* kept: the staged file was moved to the quarantine.  ofKept (history):   *)
(* the scan repeats one whose file was there when it was asked for.        *)
NoScan == [at |-> "none", profile |-> NoProfile, contract |-> NoProfile, ofKept |-> FALSE,
           used |-> NoProfile, ran |-> {}, verdict |-> "none", kept |-> FALSE]

Init ==
  /\ AdminInit
  /\ req = [r \in Requests |-> NoRequest]
  /\ scan = [r \in Requests |-> NoScan]
  /\ tmp = {}
  /\ input = {}

At(r, step) == req[r].at = step
Goto(r, step) == req' = [req EXCEPT ![r].at = step]
End(r, step) == req' = [req EXCEPT ![r] = [NoRequest EXCEPT !.at = step]]

(* _rmtree_quiet: a removal that fails is not noticed, and the request is  *)
(* answered all the same                                                   *)
RemoveAndEnd(r) ==
  \/ tmp' = tmp \ {r} /\ End(r, "ended")
  \/ UNCHANGED tmp /\ End(r, "failed")

-----------------------------------------------------------------------------
(* Mutation: the key lookup does not ask whether the client is enabled *)
AcceptsRevoked(c, k) == client[c].row # "unborn" /\ client[c].key = k

(* get_api_client_by_key_hash *)
Accepts(c, k) == client[c].row = "on" /\ client[c].key = k

(* require_permission *)
MayUpload(c) == client[c].may

(* get_api_client: the client row is read once, for the whole request *)
Authenticate(r, c, k) ==
  /\ At(r, "idle")
  /\ k \in 1..client[c].key
  /\ IF Accepts(c, k) /\ MayUpload(c)
     THEN req' = [req EXCEPT ![r].at = "settings", ![r].gate = "api", ![r].pin = client[c].pin,
                             ![r].contract = client[c].contract]
     ELSE End(r, "ended")
  /\ UNCHANGED <<scan, tmp, input>>

(* The rate limit, a blank username, no file in the panel's form *)
Refused(r) == At(r, "settings") /\ End(r, "ended") /\ UNCHANGED <<scan, tmp, input>>

(* get_system_settings; the panel has chosen the profile before *)
ReadSettings(r) ==
  /\ At(r, "settings")
  /\ req' = [req EXCEPT ![r].blocked = blocked,
                        ![r].at = IF req[r].gate = "api" THEN "profile" ELSE "mkdir"]
  /\ UNCHANGED <<scan, tmp, input>>

(* Mutation: the requested profile is looked up before the pin *)
RequestFirst(r, slug) ==
  /\ At(r, "profile")
  /\ IF slug # NoProfile /\ profile[slug].row # "on" THEN End(r, "ended")
     ELSE req' = [req EXCEPT ![r].at = "mkdir",
                             ![r].profile = IF slug # NoProfile THEN slug ELSE req[r].pin]
  /\ UNCHANGED <<scan, tmp, input>>

(* _resolve_profile_for_client: a pin wins over the request, and a request *)
(* that names another existing profile is refused.  The pin is the one     *)
(* read at authentication: its profile may be disabled or gone by now.     *)
ResolveProfile(r, slug) ==
  LET pin == req[r].pin
      refused == IF pin # NoProfile THEN slug \notin {NoProfile, pin} /\ Known(pin)
                                    ELSE slug # NoProfile /\ profile[slug].row # "on"
  IN
  /\ At(r, "profile")
  /\ IF refused THEN End(r, "ended")
     ELSE req' = [req EXCEPT ![r].at = "mkdir",
                             ![r].profile = IF pin # NoProfile THEN pin ELSE slug]
  /\ UNCHANGED <<scan, tmp, input>>

(* The panel's form: list_profiles, then the settings *)
PanelChoice(r, slug) ==
  /\ At(r, "idle")
  /\ IF slug # NoProfile /\ profile[slug].row # "on"
     THEN End(r, "ended")
     ELSE req' = [req EXCEPT ![r].at = "settings", ![r].gate = "panel", ![r].profile = slug]
  /\ UNCHANGED <<scan, tmp, input>>

(* stream_upload_to_staging *)
OpenTmp(r) ==
  /\ At(r, "mkdir")
  /\ tmp' = tmp \cup {r}
  /\ Goto(r, "reading")
  /\ UNCHANGED <<scan, input>>

(* UploadTooLarge, UploadEmpty *)
Unusable(r) ==
  /\ At(r, "reading")
  /\ RemoveAndEnd(r)
  /\ UNCHANGED <<scan, input>>

(* check_file_type_policy compares the type with the settings that were    *)
(* read before the stream                                                  *)
TypeRefused(r) == req[r].blocked

(* Mutation: nobody removes the temp directory of a refused type *)
RefusedTypeStays(r) ==
  /\ At(r, "reading")
  /\ IF TypeRefused(r) THEN End(r, "ended") ELSE Goto(r, "staged")
  /\ UNCHANGED <<scan, tmp, input>>

(* The file is complete *)
CheckType(r) ==
  /\ At(r, "reading")
  /\ IF TypeRefused(r) THEN RemoveAndEnd(r) ELSE Goto(r, "staged") /\ UNCHANGED tmp
  /\ UNCHANGED <<scan, input>>

(* The scans row, whose scanner_profile_id must refer to a profile *)
InsertScan(r, p, contract, ofKept) ==
  /\ p = NoProfile \/ Known(p)
  /\ scan' = [scan EXCEPT ![r] = [NoScan EXCEPT !.at = "received", !.profile = p,
                                                !.contract = contract, !.ofKept = ofKept]]

(* From here on the request looks at nothing it has read before *)
CreateScan(r) ==
  /\ At(r, "staged")
  /\ InsertScan(r, req[r].profile, req[r].contract, FALSE)
  /\ End(r, "inserted")
  /\ UNCHANGED <<tmp, input>>

(* The API answers 503 and cleans up ... *)
CreateScanFails(r) ==
  /\ At(r, "staged") /\ req[r].gate = "api"
  /\ RemoveAndEnd(r)
  /\ UNCHANGED <<scan, input>>

(* ... the panel's handler raises *)
PanelCreateFails(r) ==
  /\ At(r, "staged") /\ req[r].gate = "panel"
  /\ End(r, "failed")
  /\ UNCHANGED <<scan, tmp, input>>

(* finalize_staged_upload: mkdir, replace, the removal, and update_scan of  *)
(* a column nothing here reads.  A request that dies, or raises, before     *)
(* the replace is RequestDies; after it, it leaves what this step leaves.   *)
Finalize(r) ==
  /\ At(r, "inserted")
  /\ input' = input \cup {r}
  /\ RemoveAndEnd(r)
  /\ UNCHANGED scan

(* An exception nobody catches (a full disk, mkdir, replace), or the death *)
(* of the process.  Before it has a directory a request that dies is one   *)
(* that does not go on.                                                    *)
RequestDies(r) ==
  /\ req[r].at \in InFlight
  /\ End(r, "failed")
  /\ UNCHANGED <<scan, tmp, input>>

(* The panel's rescan: a new row under a new id, and no staged file *)
Rescan(r, s) ==
  /\ At(r, "idle") /\ scan[s].at # "none"
  /\ InsertScan(r, scan[s].profile, scan[s].contract, scan[s].kept)
  /\ End(r, "ended")
  /\ UNCHANGED <<tmp, input>>

-----------------------------------------------------------------------------
(* The job.  It works on the row as it was when it was claimed.             *)

Claim(r) ==
  /\ scan[r].at = "received"
  /\ scan' = [scan EXCEPT ![r].at = "claimed", ![r].used = scan[r].profile]
  /\ UNCHANGED <<req, tmp, input>>

(* Mutation: a status of its own for jobs that could not be run *)
FailedUnknown(r) == scan' = [scan EXCEPT ![r].at = "answered", ![r].verdict = "FAILED"]

Failed(r) == scan' = [scan EXCEPT ![r].at = "answered", ![r].verdict = "ERROR"]

(* _resolve_profile: the row's profile, else the default, else give up *)
JobProfile(r) ==
  /\ scan[r].at = "claimed"
  /\ IF Known(scan[r].used) THEN scan' = [scan EXCEPT ![r].at = "resolved"]
     ELSE IF Defaults = {} THEN Failed(r)
     ELSE \E p \in Defaults : scan' = [scan EXCEPT ![r].at = "resolved", ![r].used = p]
  /\ UNCHANGED <<req, tmp, input>>

EnabledMembers(p) == {x \in profile[p].members : scanner[x] = "on"}

(* Mutation: a profile without enabled scanners is run all the same *)
JobRunsNothing(r) ==
  /\ scan[r].at = "resolved"
  /\ scan' = [scan EXCEPT ![r].at = "scanning", ![r].ran = EnabledMembers(scan[r].used)]
  /\ UNCHANGED <<req, tmp, input>>

(* get_profile_scanners *)
JobScanners(r) ==
  /\ scan[r].at = "resolved"
  /\ IF EnabledMembers(scan[r].used) = {} THEN Failed(r)
     ELSE scan' = [scan EXCEPT ![r].at = "scanning", ![r].ran = EnabledMembers(scan[r].used)]
  /\ UNCHANGED <<req, tmp, input>>

(* Without a staged file the playbook fails.  The answered job removes it, *)
(* or moves a detected one to the quarantine; cleanups and moves that fail *)
(* are ScanPipeline's.                                                     *)
JobAnswers(r) ==
  /\ scan[r].at = "scanning"
  /\ \/ Failed(r)
     \/ /\ r \in input
        /\ \E v \in {"CLEAN", "INFECTED"} :
             scan' = [scan EXCEPT ![r].at = "answered", ![r].verdict = v,
                                  ![r].kept = RetainInfected /\ v = "INFECTED"]
  /\ input' = input \ {r}
  /\ UNCHANGED <<req, tmp>>

-----------------------------------------------------------------------------
UploadNext(r) ==
  \/ \E c \in Clients : \E k \in 1..client[c].key : Authenticate(r, c, k)
  \/ Refused(r) \/ ReadSettings(r)
  \/ \E slug \in Profiles \cup {NoProfile} : ResolveProfile(r, slug) \/ PanelChoice(r, slug)
  \/ OpenTmp(r) \/ Unusable(r) \/ CheckType(r)
  \/ CreateScan(r) \/ CreateScanFails(r) \/ PanelCreateFails(r)
  \/ Finalize(r) \/ RequestDies(r)

JobNext(r) == Claim(r) \/ JobProfile(r) \/ JobScanners(r) \/ JobAnswers(r)

(* scans.scanner_profile_id: ON DELETE SET NULL, as for the pins *)
RowsLoseProfile ==
  scan' = [r \in Requests |->
    [scan[r] EXCEPT !.profile = IF @ \in Profiles /\ profile'[@].row = "gone"
                                THEN NoProfile ELSE @]]

Next ==
  \/ /\ \/ \E r \in Uploads : UploadNext(r)
        \/ \E r \in Rescans, s \in Requests : Rescan(r, s)
        \/ \E r \in Requests : JobNext(r)
     /\ UNCHANGED adminVars
  \/ AdminNext /\ RowsLoseProfile /\ UNCHANGED <<req, tmp, input>>

Spec == Init /\ [][Next]_vars

-----------------------------------------------------------------------------
PinOrNull == Profiles \cup {NoProfile}
JobStep == {"none", "received", "claimed", "resolved", "scanning", "answered"}
Verdicts == {"none", "ERROR", "CLEAN", "INFECTED"}

ProfileRows == [row : RowState, default : BOOLEAN, members : SUBSET Scanners]
ClientRows == [row : RowState, key : Nat, may : BOOLEAN, pin : PinOrNull, contract : PinOrNull]
Forms == [at : FormStep, of : PinOrNull, members : SUBSET Scanners, makeDefault : BOOLEAN,
          seen : SUBSET (Profiles \cup Scanners)]
RequestStates == [at : RequestStep, gate : {"none", "api", "panel"}, contract : PinOrNull,
                  pin : PinOrNull, blocked : BOOLEAN, profile : PinOrNull]
ScanRows == [at : JobStep, profile : PinOrNull, contract : PinOrNull, ofKept : BOOLEAN,
             used : PinOrNull, ran : SUBSET Scanners, verdict : Verdicts, kept : BOOLEAN]

(* Every rotation of a key is a panel request; a job that goes on has a    *)
(* profile                                                                 *)
TypeOK ==
  /\ scanner \in [Scanners -> RowState]
  /\ profile \in [Profiles -> ProfileRows]
  /\ client \in [Clients -> ClientRows]
  /\ \A c \in Clients : client[c].key <= changes + 1
  /\ blocked \in BOOLEAN
  /\ retired \subseteq Clients \X Nat
  /\ form \in [Admins -> Forms]
  /\ changes \in 0..MaxChanges
  /\ req \in [Requests -> RequestStates]
  /\ scan \in [Requests -> ScanRows]
  /\ \A r \in Requests : scan[r].at = "resolved" => scan[r].used \in Profiles
  /\ tmp \subseteq Requests
  /\ input \subseteq Requests

(* However the profile forms of two API processes interleave, there are    *)
(* never two default profiles for a job to choose between.                 *)
OneDefault == \A p, q \in Defaults : p = q

(* The platform is left without a default profile only by a deletion:      *)
(* saving profile forms, in any order and with any of them failing half    *)
(* way, always leaves one.                                                 *)
DefaultSurvivesEdits == (\A p \in Profiles : profile[p].row # "gone") => Defaults # {}

(* The scanners that judge an upload, or a rescan of it, are those of the  *)
(* profile its client was created with, whatever the request asked for and *)
(* whatever was edited meanwhile, as long as that profile is not deleted.  *)
PinHolds ==
  \A r \in Requests :
    LET s == scan[r] IN
    s.at \in {"resolved", "scanning", "answered"} /\ s.used # NoProfile
                                                  /\ s.contract # NoProfile
      => s.used = s.contract \/ profile[s.contract].row = "gone"

(* What README.md section 6.3 says of a pinned client, without the last    *)
(* condition.                                                              *)
NeverAnotherProfile ==
  \A r \in Requests :
    LET s == scan[r] IN
    s.at \in {"resolved", "scanning", "answered"} /\ s.used # NoProfile
                                                  /\ s.contract # NoProfile
      => s.used = s.contract

(* An accepted upload was judged by at least one scanner, also when        *)
(* scanners and profiles are disabled, emptied or deleted between the      *)
(* steps of the upload and of the job.                                     *)
AcceptedByAScanner == \A r \in Requests : scan[r].verdict = "CLEAN" => scan[r].ran # {}

(* "A re-scan of a direct upload is only meaningful while evidence was     *)
(* retained (RETAIN_INFECTED_COPY/quarantine)", says the rescan handler: a *)
(* rescan asked for while the file of its original is in the quarantine    *)
(* reaches the scanners with a file to judge.                              *)
RescanOfEvidenceIsMeaningful ==
  \A r \in Requests : scan[r].at = "scanning" /\ scan[r].ofKept => r \in input

(* Every answer of a request, refusals of any kind included, comes after   *)
(* an attempt to remove its upload-tmp directory.  One that outlives the   *)
(* request was left by an exception, a dead process, or a removal that     *)
(* failed, which the code ignores.                                         *)
TmpOnlyAfterFailure == \A r \in tmp : req[r].at \in InFlight \cup {"failed"}

(* A key that an administrator revoked or replaced opens no request again, *)
(* also after the client itself was enabled again by a rotation.           *)
RetiredKeysStayOut ==
  [][\A r \in Uploads :
       req'[r].at = "settings" =>
         \A c \in Clients : \A k \in 1..client[c].key :
           Authenticate(r, c, k) => <<c, k>> \notin retired]_vars

(* Uploads, rescans of them and the edits of administrators leave every    *)
(* answer as it was: the rows go through the phases of AdmissionGate, as   *)
(* those of ScanPipeline do, and a rescan queues a row of its own.         *)
PhaseOf(s) ==
  CASE s.at = "none" -> "absent"
    [] s.at = "received" -> "queued"
    [] s.at \in {"claimed", "resolved", "scanning"} -> "working"
    [] s.at = "answered" /\ s.verdict = "CLEAN" -> "allowed"
    [] OTHER -> "denied"

phase == [r \in Requests |-> PhaseOf(scan[r])]

Gate == INSTANCE AdmissionGate WITH Scans <- Requests, phase <- phase
ImplementsGate == Gate!Spec
=============================================================================
