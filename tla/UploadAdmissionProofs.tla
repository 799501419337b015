------------------------ MODULE UploadAdmissionProofs ------------------------
(***************************************************************************)
(* What UploadAdmission shows on one upload and one rescan holds for any   *)
(* number of them, of panel requests, profiles, scanners and clients.      *)
(*                                                                         *)
(* The invariant falls into what the tables keep among themselves          *)
(* (TablesInv), which only panel requests can disturb, and what every      *)
(* request and its scan remember of the tables (RequestInv), which has to  *)
(* stay true while panel requests change them.  Of the tables it asks one  *)
(* thing only: a profile that is gone never comes back (Lasting).          *)
(***************************************************************************)
EXTENDS UploadAdmission, TLAPS

-----------------------------------------------------------------------------
(* Types                                                                   *)

(* The values the steps write belong to their sets.                        *)
LEMMA Values ==
  /\ {"unborn", "on", "off", "gone"} = RowState
  /\ \A b \in BOOLEAN : Enabled(b) \in {"on", "off"}
  /\ NoProfile \in PinOrNull /\ Profiles \subseteq PinOrNull
  /\ NoForm \in Forms /\ NoRequest \in RequestStates /\ NoScan \in ScanRows
  /\ NoClient \in ClientRows
  /\ \A p \in PinOrNull, m \in BOOLEAN : Registered(p, m) \in ClientRows
<1>1. {"unborn", "on", "off", "gone"} = RowState /\ NoProfile \in PinOrNull /\ Profiles \subseteq PinOrNull
  BY DEF RowState, PinOrNull
<1>2. NoForm \in Forms
  BY <1>1 DEF NoForm, Forms, FormStep
<1>3. NoRequest \in RequestStates
  BY <1>1 DEF NoRequest, RequestStates, RequestStep
<1>4. NoScan \in ScanRows
  BY <1>1 DEF NoScan, ScanRows, JobStep, Verdicts
<1>5. NoClient \in ClientRows /\ \A p \in PinOrNull, m \in BOOLEAN : Registered(p, m) \in ClientRows
  BY <1>1 DEF NoClient, Registered, ClientRows
<1> QED
  BY <1>1, <1>2, <1>3, <1>4, <1>5 DEF Enabled

(* The seeded tables are type correct.                                     *)
LEMMA TypeInit == Init => TypeOK
<1> SUFFICES ASSUME Init PROVE TypeOK
  OBVIOUS
<1>1. PICK installed \in SUBSET Scanners \ {{}}, set \in {s \in SUBSET Profiles : Standard \in s} :
        /\ scanner = [x \in Scanners |-> IF x \in installed THEN "on" ELSE "unborn"]
        /\ profile = [p \in Profiles |->
             [row |-> IF p \in set THEN "on" ELSE "unborn", default |-> p = Standard,
              members |-> IF p \in set THEN installed ELSE {}]]
        /\ \E pins \in [Clients -> set \cup {NoProfile}], rows \in [Clients -> {"on", "unborn"}] :
             client = [c \in Clients |->
               IF rows[c] = "on" THEN Registered(pins[c], TRUE) ELSE NoClient]
  BY DEF Init, AdminInit
<1>2. PICK pins \in [Clients -> set \cup {NoProfile}], rows \in [Clients -> {"on", "unborn"}] :
        client = [c \in Clients |-> IF rows[c] = "on" THEN Registered(pins[c], TRUE) ELSE NoClient]
  BY <1>1
<1>3. scanner \in [Scanners -> RowState]
  BY <1>1, Values
<1>4. profile \in [Profiles -> ProfileRows]
  <2>1. \A b, d \in BOOLEAN, m \in SUBSET Scanners :
          [row |-> IF b THEN "on" ELSE "unborn", default |-> d, members |-> m] \in ProfileRows
    BY Values DEF ProfileRows
  <2>2. ASSUME NEW p \in Profiles
        PROVE  [row |-> IF p \in set THEN "on" ELSE "unborn", default |-> p = Standard,
                members |-> IF p \in set THEN installed ELSE {}] \in ProfileRows
    <3>1. CASE p \in set
      BY <3>1, <2>1
    <3>2. CASE p \notin set
      BY <3>2, <2>1
    <3> QED
      BY <3>1, <3>2
  <2> QED
    BY <1>1, <2>2
<1>5. client \in [Clients -> ClientRows]
  <2>1. \A c \in Clients : pins[c] \in PinOrNull
    BY <1>2 DEF PinOrNull
  <2> QED
    BY <1>2, <2>1, Values
<1>6. \A c \in Clients : client[c].key \in {0, 1}
  BY <1>2 DEF Registered, NoClient
<1>7. changes \in 0..MaxChanges /\ changes = 0
  BY MaxChangesAssumption DEF Init, AdminInit
<1>8. \A c \in Clients : client[c].key <= changes + 1
  BY <1>6, <1>7
<1>9. \A r \in Requests : scan[r].at # "resolved"
  BY DEF Init, NoScan
<1>10. blocked \in BOOLEAN /\ retired = {} /\ form \in [Admins -> Forms]
  <2>1. blocked = FALSE /\ retired = {} /\ form = [a \in Admins |-> NoForm]
    BY Zenon DEF Init, AdminInit
  <2> QED
    BY <2>1, Values
<1>11. /\ req \in [Requests -> RequestStates] /\ scan \in [Requests -> ScanRows]
       /\ tmp = {} /\ input = {}
  BY Values DEF Init
<1> QED
  BY <1>3, <1>4, <1>5, <1>7, <1>8, <1>9, <1>10, <1>11 DEF TypeOK

(* What a panel request writes into the profiles is legal.                 *)
LEMMA ProfilesType ==
  ASSUME TypeOK,
         \/ \E x \in Scanners : RemoveScanner(x)
         \/ \E p \in Profiles :
              \/ RemoveProfile(p)
              \/ \E b \in BOOLEAN : InsertProfile(p, b) \/ UpdateProfile(p, b)
         \/ \E m \in SUBSET Scanners : \E p, seen : ReplaceMembers(p, seen, m)
         \/ \E p, seen : MoveDefault(p, seen)
  PROVE  profile' \in [Profiles -> ProfileRows]
<1>1. ASSUME NEW x \in Scanners, RemoveScanner(x) PROVE profile' \in [Profiles -> ProfileRows]
  <2>1. \A p \in Profiles : [profile[p] EXCEPT !.members = @ \ {x}] \in ProfileRows
    BY DEF TypeOK, ProfileRows
  <2> QED
    BY <1>1, <2>1 DEF RemoveScanner
<1>2. ASSUME NEW p \in Profiles, RemoveProfile(p) PROVE profile' \in [Profiles -> ProfileRows]
  <2>1. [row |-> "gone", default |-> FALSE, members |-> {}] \in ProfileRows
    BY Values DEF ProfileRows
  <2> QED
    BY <1>2, <2>1 DEF RemoveProfile, TypeOK
<1>3. ASSUME NEW p \in Profiles, NEW b \in BOOLEAN, InsertProfile(p, b) \/ UpdateProfile(p, b)
      PROVE  profile' \in [Profiles -> ProfileRows]
  <2>1. [profile[p] EXCEPT !.row = Enabled(b)] \in ProfileRows
    BY Values DEF TypeOK, ProfileRows
  <2> QED
    BY <1>3, <2>1 DEF InsertProfile, UpdateProfile, TypeOK
<1>4. ASSUME NEW p, NEW seen, NEW m \in SUBSET Scanners, ReplaceMembers(p, seen, m)
      PROVE  profile' \in [Profiles -> ProfileRows]
  <2>1. p \in Profiles
    BY <1>4 DEF ReplaceMembers, Known
  <2>2. [profile[p] EXCEPT !.members = (@ \ seen) \cup m] \in ProfileRows
    BY <2>1 DEF TypeOK, ProfileRows
  <2> QED
    BY <1>4, <2>1, <2>2 DEF ReplaceMembers, TypeOK
<1>5. ASSUME NEW p, NEW seen, MoveDefault(p, seen) PROVE profile' \in [Profiles -> ProfileRows]
  <2>1. \A q \in Profiles, b \in BOOLEAN : [profile[q] EXCEPT !.default = b] \in ProfileRows
    BY DEF TypeOK, ProfileRows
  <2> QED
    BY <1>5, <2>1 DEF MoveDefault
<1> QED
  BY <1>1, <1>2, <1>3, <1>4, <1>5

(* What it writes into the form is legal.                                  *)
LEMMA FormsType ==
  ASSUME TypeOK, NEW a \in Admins,
         \/ \E p \in Profiles, m \in SUBSET Scanners, d \in BOOLEAN : Saving(a, p, m, d)
         \/ SaveStep(a)
  PROVE  form' \in [Admins -> Forms]
<1>1. form[a] \in Forms /\ Defaults \in SUBSET Profiles
  BY DEF TypeOK, Defaults
<1>2. ASSUME NEW p \in Profiles, NEW m \in SUBSET Scanners, NEW d \in BOOLEAN, Saving(a, p, m, d)
      PROVE  form' \in [Admins -> Forms]
  <2>1. [at |-> "members", of |-> p, members |-> m, makeDefault |-> d, seen |-> {}] \in Forms
    BY DEF Forms, FormStep, PinOrNull
  <2> QED
    BY <1>2, <2>1 DEF Saving, TypeOK
<1>3. CASE SaveMembers(a)
  <2>1. [form[a] EXCEPT !.at = "default", !.seen = {}] \in Forms
    BY <1>1 DEF Forms, FormStep
  <2>2. \A b \in Admins : \A p, gone : Unseen(p, gone, form[b]) \in Forms
    <3>1. ASSUME NEW b \in Admins, NEW gone
          PROVE  [form[b] EXCEPT !.seen = @ \ gone] \in Forms
      BY DEF TypeOK, Forms
    <3> QED
      BY <3>1 DEF Unseen, TypeOK
  <2> QED
    BY <1>3, <2>1, <2>2, Values DEF SaveMembers
<1>6. CASE ClearMembers(a)
  <2>1. profile[form[a].of].members \in SUBSET Scanners
    BY <1>6 DEF ClearMembers, Known, TypeOK, ProfileRows
  <2>2. [form[a] EXCEPT !.at = "insert", !.seen = profile[form[a].of].members] \in Forms
    BY <1>1, <2>1 DEF Forms, FormStep
  <2> QED
    BY <1>6, <2>2 DEF ClearMembers, TypeOK
<1>4. CASE ClearDefault(a)
  <2>1. [form[a] EXCEPT !.at = "commit", !.seen = Defaults] \in Forms
    BY <1>1 DEF Forms, FormStep
  <2> QED
    BY <1>4, <2>1 DEF ClearDefault, TypeOK
<1>5. CASE SaveDefault(a) \/ SaveFails(a)
  BY <1>5, Values DEF SaveDefault, SaveFails, TypeOK
<1> QED
  BY <1>2, <1>3, <1>4, <1>5, <1>6 DEF SaveStep

(* What it writes into the clients is legal, and a key is younger than the *)
(* requests so far.                                                        *)
LEMMA ClientsType ==
  ASSUME TypeOK, changes' = changes + 1,
         \/ \E p \in Profiles : RemoveProfile(p)
         \/ \E c \in Clients :
              \/ Revoke(c) \/ RotateKey(c)
              \/ \E pin \in PinOrNull, may \in BOOLEAN : InsertClient(c, pin, may)
  PROVE  client' \in [Clients -> ClientRows] /\ \A c \in Clients : client'[c].key <= changes' + 1
<1>0. changes \in Nat /\ \A c \in Clients : client[c] \in ClientRows /\ client[c].key <= changes + 1
  BY MaxChangesAssumption DEF TypeOK
<1>1. ASSUME NEW p \in Profiles, RemoveProfile(p)
      PROVE  client' \in [Clients -> ClientRows] /\ \A c \in Clients : client'[c].key = client[c].key
  <2>1. \A c \in Clients, q \in PinOrNull :
          [client[c] EXCEPT !.pin = q] \in ClientRows
          /\ [client[c] EXCEPT !.pin = q].key = client[c].key
    BY <1>0 DEF ClientRows
  <2>2. \A c \in Clients : (IF client[c].pin = p THEN NoProfile ELSE client[c].pin) \in PinOrNull
    BY <1>0 DEF ClientRows, PinOrNull
  <2>3. client' = [c \in Clients |->
           [client[c] EXCEPT !.pin = IF client[c].pin = p THEN NoProfile ELSE client[c].pin]]
    BY <1>1 DEF RemoveProfile
  <2> QED
    BY <2>1, <2>2, <2>3
<1>2. ASSUME NEW c \in Clients, Revoke(c)
      PROVE  client' \in [Clients -> ClientRows] /\ \A d \in Clients : client'[d].key = client[d].key
  <2>1. [client[c] EXCEPT !.row = "off"] \in ClientRows
        /\ [client[c] EXCEPT !.row = "off"].key = client[c].key
    BY <1>0 DEF ClientRows, RowState
  <2> QED
    BY <1>2, <2>1 DEF Revoke, TypeOK
<1>3. ASSUME NEW c \in Clients, RotateKey(c)
      PROVE  /\ client' \in [Clients -> ClientRows]
             /\ \A d \in Clients : client'[d].key \in {client[d].key, client[d].key + 1}
  <2>0. \A r \in ClientRows, k \in Nat :
          [r EXCEPT !.row = "on", !.key = k] \in ClientRows
          /\ [r EXCEPT !.row = "on", !.key = k].key = k
    BY DEF ClientRows, RowState
  <2>1. /\ [client[c] EXCEPT !.row = "on", !.key = client[c].key + 1] \in ClientRows
        /\ [client[c] EXCEPT !.row = "on", !.key = client[c].key + 1].key = client[c].key + 1
    <3>1. client[c].key + 1 \in Nat
      BY <1>0 DEF ClientRows
    <3> QED
      BY <1>0, <2>0, <3>1
  <2>2. client' = [client EXCEPT ![c] = [client[c] EXCEPT !.row = "on", !.key = client[c].key + 1]]
    BY <1>3 DEF RotateKey
  <2> QED
    BY <2>1, <2>2 DEF TypeOK
<1>4. ASSUME NEW c \in Clients, NEW pin \in PinOrNull, NEW may \in BOOLEAN, InsertClient(c, pin, may)
      PROVE  client' \in [Clients -> ClientRows] /\ \A d \in Clients : client'[d].key \in {1, client[d].key}
  <2>1. Registered(pin, may) \in ClientRows /\ Registered(pin, may).key = 1
    BY Values DEF Registered
  <2> QED
    BY <1>4, <2>1 DEF InsertClient, TypeOK
<1>5. ASSUME NEW c \in Clients, NEW k \in {1, client[c].key, client[c].key + 1}
      PROVE  k <= changes' + 1
  <2>1. client[c].key \in Nat
    BY <1>0 DEF ClientRows
  <2> QED
    BY <1>0, <1>5, <2>1
<1> QED
  BY <1>1, <1>2, <1>3, <1>4, <1>5

TablesTyped ==
  /\ scanner \in [Scanners -> RowState] /\ profile \in [Profiles -> ProfileRows]
  /\ client \in [Clients -> ClientRows] /\ \A c \in Clients : client[c].key <= changes + 1
  /\ blocked \in BOOLEAN /\ retired \subseteq Clients \X Nat
  /\ form \in [Admins -> Forms] /\ changes \in 0..MaxChanges

(* A step of the administration keeps the types of its tables.             *)
LEMMA AdminType ==
  ASSUME TypeOK, AdminNext
  PROVE  TablesTyped'
<1>0. changes \in Nat /\ \A c \in Clients : client[c].key \in Nat /\ client[c].key <= changes + 1
  BY MaxChangesAssumption DEF TypeOK, ClientRows
<1>1. CASE changes < MaxChanges /\ changes' = changes + 1 /\ PanelRequest
  <2>0. changes' \in 0..MaxChanges
        /\ (UNCHANGED client => \A c \in Clients : client'[c].key <= changes' + 1)
    BY <1>0, <1>1, MaxChangesAssumption
  <2>1. CASE \E x \in Scanners :
               \/ ScannerDelete(x)
               \/ \E ticked \in BOOLEAN : ScannerNew(x, ticked) \/ ScannerEdit(x, ticked)
    <3>1. scanner' \in [Scanners -> RowState]
      BY <2>1, Values DEF ScannerDelete, ScannerNew, ScannerEdit, InsertScanner, UpdateScanner,
                          RemoveScanner, TypeOK, TablesTyped
    <3>2. profile' \in [Profiles -> ProfileRows]
      BY <2>1, ProfilesType DEF ScannerDelete, ScannerNew, ScannerEdit, TypeOK, TablesTyped
    <3> QED
      BY <2>0, <2>1, <3>1, <3>2 DEF ScannerDelete, ScannerNew, ScannerEdit, TypeOK, TablesTyped
  <2>2. ASSUME NEW p \in Profiles, ProfileDelete(p)
        PROVE  TablesTyped'
    BY <1>1, <2>0, <2>2, ProfilesType, ClientsType DEF ProfileDelete, TypeOK, TablesTyped
  <2>3. ASSUME NEW p \in Profiles, NEW a \in Admins, NEW ticked \in BOOLEAN, NEW d \in BOOLEAN,
               NEW m \in Choices, ProfileNew(a, p, ticked, m, d) \/ ProfileEdit(a, p, ticked, m, d)
        PROVE  TablesTyped'
    <3>1. m \in SUBSET Scanners
      BY DEF Choices
    <3>2. profile' \in [Profiles -> ProfileRows] /\ form' \in [Admins -> Forms]
      BY <2>3, <3>1, ProfilesType, FormsType DEF ProfileNew, ProfileEdit
    <3> QED
      BY <2>0, <2>3, <3>2 DEF ProfileNew, ProfileEdit, TypeOK, TablesTyped
  <2>4. ASSUME NEW c \in Clients,
               \/ ApiClientRevoke(c) \/ ApiClientRotate(c)
               \/ \E pin \in Profiles \cup {NoProfile}, may \in BOOLEAN : ApiClientCreate(c, pin, may)
        PROVE  TablesTyped'
    <3>1. client' \in [Clients -> ClientRows] /\ \A d \in Clients : client'[d].key <= changes' + 1
      BY <1>1, <2>4, ClientsType DEF ApiClientRevoke, ApiClientRotate, ApiClientCreate, PinOrNull
    <3>2. retired' \subseteq Clients \X Nat
      BY <1>0, <2>4 DEF ApiClientRevoke, ApiClientRotate, ApiClientCreate, Retire, TypeOK, TablesTyped
    <3> QED
      BY <2>0, <2>4, <3>1, <3>2 DEF ApiClientRevoke, ApiClientRotate, ApiClientCreate, TypeOK, TablesTyped
  <2>5. CASE \E refused \in BOOLEAN : SecuritySubmit(refused)
    BY <2>0, <2>5 DEF SecuritySubmit, TypeOK, TablesTyped
  <2> QED
    BY <1>1, <2>1, <2>2, <2>3, <2>4, <2>5 DEF PanelRequest
<1>2. CASE (\E a \in Admins : SaveStep(a)) /\ UNCHANGED changes
  <2>1. PICK a \in Admins : SaveStep(a)
    BY <1>2
  <2>2. form' \in [Admins -> Forms]
    BY <2>1, FormsType
  <2>3. UNCHANGED <<scanner, client, blocked, retired, changes>>
    BY <1>2, <2>1 DEF SaveStep, ClearMembers, SaveMembers, ClearDefault, SaveDefault, SaveFails, tables
  <2>4. profile' \in [Profiles -> ProfileRows]
    <3>1. form[a].members \in SUBSET Scanners
      BY DEF TypeOK, Forms
    <3>2. CASE SaveMembers(a)
      <4>1. ReplaceMembers(form[a].of, form[a].seen, form[a].members)
        BY <3>2 DEF SaveMembers
      <4> QED
        BY <3>1, <4>1, ProfilesType
    <3>3. CASE SaveDefault(a)
      <4>1. MoveDefault(form[a].of, form[a].seen)
        BY <3>3 DEF SaveDefault
      <4> QED
        BY <4>1, ProfilesType
    <3>4. CASE ClearMembers(a) \/ ClearDefault(a) \/ SaveFails(a)
      BY <3>4 DEF ClearMembers, ClearDefault, SaveFails, tables, TypeOK
    <3> QED
      BY <2>1, <3>2, <3>3, <3>4 DEF SaveStep
  <2> QED
    BY <2>2, <2>3, <2>4 DEF TypeOK, TablesTyped
<1> QED
  BY <1>1, <1>2 DEF AdminNext

(* What a request notes down is legal.                                     *)
LEMMA NotesTyped ==
  ASSUME NEW x \in RequestStates, NEW at \in RequestStep
  PROVE  /\ [x EXCEPT !.at = at] \in RequestStates
         /\ \A b \in BOOLEAN : [x EXCEPT !.blocked = b, !.at = at] \in RequestStates
         /\ \A p \in PinOrNull :
              /\ [x EXCEPT !.at = at, !.profile = p] \in RequestStates
              /\ [x EXCEPT !.at = at, !.gate = "panel", !.profile = p] \in RequestStates
         /\ \A p, q \in PinOrNull :
              [x EXCEPT !.at = at, !.gate = "api", !.pin = p, !.contract = q] \in RequestStates
<1>1. [x EXCEPT !.at = at] \in RequestStates
  BY DEF RequestStates
<1>2. ASSUME NEW b \in BOOLEAN
      PROVE  [x EXCEPT !.blocked = b, !.at = at] \in RequestStates
  BY DEF RequestStates
<1>3. ASSUME NEW p \in PinOrNull
      PROVE  /\ [x EXCEPT !.at = at, !.profile = p] \in RequestStates
             /\ [x EXCEPT !.at = at, !.gate = "panel", !.profile = p] \in RequestStates
  BY DEF RequestStates
<1>4. ASSUME NEW p \in PinOrNull, NEW q \in PinOrNull
      PROVE  [x EXCEPT !.at = at, !.gate = "api", !.pin = p, !.contract = q] \in RequestStates
  BY DEF RequestStates
<1> QED
  BY <1>1, <1>2, <1>3, <1>4

(* A step of a request keeps the type of what it noted down.               *)
LEMMA RequestType ==
  ASSUME TypeOK, NEW r \in Requests, UploadNext(r)
  PROVE  req' \in [Requests -> RequestStates]
<1>0. req[r] \in RequestStates
  BY DEF TypeOK
<1>1. ASSUME NEW step \in RequestStep, Goto(r, step) \/ End(r, step)
      PROVE  req' \in [Requests -> RequestStates]
  <2>1. [req[r] EXCEPT !.at = step] \in RequestStates /\ [NoRequest EXCEPT !.at = step] \in RequestStates
    BY <1>0, NotesTyped, Values
  <2> QED
    BY <1>1, <2>1 DEF Goto, End, TypeOK
<1>2. {"settings", "profile", "mkdir", "reading", "staged", "inserted", "ended", "failed"}
        \subseteq RequestStep
  BY DEF RequestStep
<1>3. ASSUME NEW c \in Clients, NEW k \in 1..client[c].key, Authenticate(r, c, k)
      PROVE  req' \in [Requests -> RequestStates]
  <2>1. client[c].pin \in PinOrNull /\ client[c].contract \in PinOrNull
    BY DEF TypeOK, ClientRows
  <2>2. [req[r] EXCEPT !.at = "settings", !.gate = "api", !.pin = client[c].pin,
                       !.contract = client[c].contract] \in RequestStates
    BY <1>0, <1>2, <2>1, NotesTyped
  <2>3. \/ End(r, "ended")
        \/ req' = [req EXCEPT ![r] = [req[r] EXCEPT !.at = "settings", !.gate = "api",
                                      !.pin = client[c].pin, !.contract = client[c].contract]]
    BY <1>3 DEF Authenticate
  <2> QED
    BY <1>1, <1>2, <2>2, <2>3 DEF TypeOK
<1>4. CASE ReadSettings(r)
  <2>1. \A at \in RequestStep : [req[r] EXCEPT !.blocked = blocked, !.at = at] \in RequestStates
    BY <1>0, NotesTyped DEF TypeOK
  <2>2. \E at \in RequestStep : req' = [req EXCEPT ![r] = [req[r] EXCEPT !.blocked = blocked, !.at = at]]
    BY <1>2, <1>4 DEF ReadSettings
  <2> QED
    BY <2>1, <2>2 DEF TypeOK
<1>5. ASSUME NEW slug \in PinOrNull, ResolveProfile(r, slug)
      PROVE  req' \in [Requests -> RequestStates]
  <2>1. \A p \in PinOrNull : [req[r] EXCEPT !.at = "mkdir", !.profile = p] \in RequestStates
    BY <1>0, <1>2, NotesTyped
  <2>2. req[r].pin \in PinOrNull
    BY <1>0 DEF RequestStates
  <2>3. \/ End(r, "ended")
        \/ \E p \in {slug, req[r].pin} :
             req' = [req EXCEPT ![r] = [req[r] EXCEPT !.at = "mkdir", !.profile = p]]
    BY <1>5 DEF ResolveProfile
  <2> QED
    BY <1>1, <1>2, <2>1, <2>2, <2>3 DEF TypeOK
<1>6. ASSUME NEW slug \in PinOrNull, PanelChoice(r, slug)
      PROVE  req' \in [Requests -> RequestStates]
  <2>1. [req[r] EXCEPT !.at = "settings", !.gate = "panel", !.profile = slug] \in RequestStates
    BY <1>0, <1>2, NotesTyped
  <2>2. \/ End(r, "ended")
        \/ req' = [req EXCEPT ![r] = [req[r] EXCEPT !.at = "settings", !.gate = "panel", !.profile = slug]]
    BY <1>6 DEF PanelChoice
  <2> QED
    BY <1>1, <1>2, <2>1, <2>2 DEF TypeOK
<1>7. CASE \/ Refused(r) \/ OpenTmp(r) \/ Unusable(r) \/ CheckType(r) \/ CreateScan(r)
           \/ CreateScanFails(r) \/ PanelCreateFails(r) \/ Finalize(r) \/ RequestDies(r)
  BY <1>1, <1>2, <1>7 DEF Refused, OpenTmp, Unusable, CheckType, CreateScan, CreateScanFails,
                          PanelCreateFails, Finalize, RequestDies, RemoveAndEnd
<1> QED
  BY <1>3, <1>4, <1>5, <1>6, <1>7 DEF UploadNext, PinOrNull

(* What a job writes into its row is legal.                                *)
LEMMA ScanTyped ==
  ASSUME NEW x \in ScanRows
  PROVE  /\ \A p, q \in PinOrNull, b \in BOOLEAN :
              [NoScan EXCEPT !.at = "received", !.profile = p, !.contract = q, !.ofKept = b] \in ScanRows
         /\ \A p \in PinOrNull :
              /\ [x EXCEPT !.profile = p] \in ScanRows
              /\ [x EXCEPT !.at = "claimed", !.used = p] \in ScanRows
              /\ [x EXCEPT !.at = "resolved", !.used = p] \in ScanRows
         /\ [x EXCEPT !.at = "resolved"] \in ScanRows
         /\ \A m \in SUBSET Scanners : [x EXCEPT !.at = "scanning", !.ran = m] \in ScanRows
         /\ \A v \in {"ERROR", "CLEAN", "INFECTED"}, k \in BOOLEAN :
              /\ [x EXCEPT !.at = "answered", !.verdict = v] \in ScanRows
              /\ [x EXCEPT !.at = "answered", !.verdict = v, !.kept = k] \in ScanRows
<1>1. ASSUME NEW p \in PinOrNull, NEW q \in PinOrNull, NEW b \in BOOLEAN
      PROVE  [NoScan EXCEPT !.at = "received", !.profile = p, !.contract = q, !.ofKept = b] \in ScanRows
  BY Values DEF ScanRows, JobStep
<1>2. ASSUME NEW p \in PinOrNull
      PROVE  /\ [x EXCEPT !.profile = p] \in ScanRows
             /\ [x EXCEPT !.at = "claimed", !.used = p] \in ScanRows
             /\ [x EXCEPT !.at = "resolved", !.used = p] \in ScanRows
  BY DEF ScanRows, JobStep
<1>3. [x EXCEPT !.at = "resolved"] \in ScanRows
  BY DEF ScanRows, JobStep
<1>4. ASSUME NEW m \in SUBSET Scanners
      PROVE  [x EXCEPT !.at = "scanning", !.ran = m] \in ScanRows
  BY DEF ScanRows, JobStep
<1>5. ASSUME NEW v \in {"ERROR", "CLEAN", "INFECTED"}, NEW k \in BOOLEAN
      PROVE  /\ [x EXCEPT !.at = "answered", !.verdict = v] \in ScanRows
             /\ [x EXCEPT !.at = "answered", !.verdict = v, !.kept = k] \in ScanRows
  BY DEF ScanRows, JobStep, Verdicts
<1> QED
  BY <1>1, <1>2, <1>3, <1>4, <1>5

ScansTyped ==
  /\ scan \in [Requests -> ScanRows]
  /\ \A r \in Requests : scan[r].at = "resolved" => scan[r].used \in Profiles

(* The row a request or a rescan inserts is legal.                         *)
LEMMA InsertType ==
  ASSUME TypeOK, NEW r \in Requests, NEW p \in PinOrNull, NEW q \in PinOrNull, NEW b \in BOOLEAN,
         InsertScan(r, p, q, b)
  PROVE  ScansTyped'
<1> DEFINE new == [NoScan EXCEPT !.at = "received", !.profile = p, !.contract = q, !.ofKept = b]
<1>1. new \in ScanRows
  BY Values, ScanTyped
<1>2. new.at = "received"
  BY DEF NoScan
<1>3. scan' = [scan EXCEPT ![r] = new]
  BY DEF InsertScan
<1> HIDE DEF new
<1> QED
  BY <1>1, <1>2, <1>3 DEF TypeOK, ScansTyped

(* So is one that has lost its profile.                                    *)
LEMMA LossType ==
  ASSUME TypeOK, RowsLoseProfile
  PROVE  ScansTyped'
<1> DEFINE left(r) == IF scan[r].profile \in Profiles /\ profile'[scan[r].profile].row = "gone"
                      THEN NoProfile ELSE scan[r].profile
<1>1. \A r \in Requests : scan[r] \in ScanRows /\ left(r) \in PinOrNull
  BY Values DEF TypeOK, ScanRows
<1>2. scan' = [r \in Requests |-> [scan[r] EXCEPT !.profile = left(r)]]
  BY DEF RowsLoseProfile
<1> HIDE DEF left
<1>3. ASSUME NEW r \in Requests
      PROVE  /\ [scan[r] EXCEPT !.profile = left(r)] \in ScanRows
             /\ [scan[r] EXCEPT !.profile = left(r)].at = scan[r].at
             /\ [scan[r] EXCEPT !.profile = left(r)].used = scan[r].used
  BY <1>1 DEF ScanRows
<1> QED
  BY <1>2, <1>3 DEF TypeOK, ScansTyped

(* A step of a job keeps the type of its row.                              *)
LEMMA JobType ==
  ASSUME TypeOK, NEW r \in Requests, JobNext(r)
  PROVE  ScansTyped'
<1>0. scan[r] \in ScanRows
  BY DEF TypeOK
<1>1. ASSUME NEW x \in ScanRows, scan' = [scan EXCEPT ![r] = x],
             x.at = "resolved" => x.used \in Profiles
      PROVE  ScansTyped'
  BY <1>1 DEF TypeOK, ScansTyped
<1>2. ASSUME NEW x \in ScanRows, x.at = "answered", scan' = [scan EXCEPT ![r] = x]
      PROVE  ScansTyped'
  BY <1>1, <1>2
<1>3. Failed(r) => ScansTyped'
  <2>1. /\ [scan[r] EXCEPT !.at = "answered", !.verdict = "ERROR"] \in ScanRows
        /\ [scan[r] EXCEPT !.at = "answered", !.verdict = "ERROR"].at = "answered"
    BY <1>0, ScanTyped DEF ScanRows
  <2> QED
    BY <1>2, <2>1 DEF Failed
<1>4. CASE Claim(r)
  <2>1. scan[r].profile \in PinOrNull
    BY <1>0 DEF ScanRows
  <2>2. [scan[r] EXCEPT !.at = "claimed", !.used = scan[r].profile] \in ScanRows
    BY <1>0, <2>1, ScanTyped
  <2>3. [scan[r] EXCEPT !.at = "claimed", !.used = scan[r].profile].at = "claimed"
    BY <1>0 DEF ScanRows
  <2>4. scan' = [scan EXCEPT ![r] = [scan[r] EXCEPT !.at = "claimed", !.used = scan[r].profile]]
    BY <1>4 DEF Claim
  <2> QED
    BY <1>1, <2>2, <2>3, <2>4
<1>5. CASE JobProfile(r)
  <2>1. ASSUME NEW p \in Defaults,
               scan' = [scan EXCEPT ![r] = [scan[r] EXCEPT !.at = "resolved", !.used = p]]
        PROVE  ScansTyped'
    <3>1. p \in Profiles /\ p \in PinOrNull
      BY Values DEF Defaults
    <3>2. /\ [scan[r] EXCEPT !.at = "resolved", !.used = p] \in ScanRows
          /\ [scan[r] EXCEPT !.at = "resolved", !.used = p].used = p
      BY <1>0, <3>1, ScanTyped DEF ScanRows
    <3> QED
      BY <1>1, <2>1, <3>1, <3>2
  <2>2. ASSUME scan' = [scan EXCEPT ![r] = [scan[r] EXCEPT !.at = "resolved"]], Known(scan[r].used)
        PROVE  ScansTyped'
    <3>1. /\ [scan[r] EXCEPT !.at = "resolved"] \in ScanRows
          /\ [scan[r] EXCEPT !.at = "resolved"].used = scan[r].used
      BY <1>0, ScanTyped DEF ScanRows
    <3> QED
      BY <1>1, <2>2, <3>1 DEF Known
  <2> QED
    BY <1>3, <1>5, <2>1, <2>2 DEF JobProfile
<1>6. CASE JobScanners(r)
  <2> DEFINE m == EnabledMembers(scan[r].used)
             new == [scan[r] EXCEPT !.at = "scanning", !.ran = m]
  <2>1. m \in SUBSET Scanners
    BY <1>6 DEF JobScanners, EnabledMembers, TypeOK, ProfileRows
  <2>2. new \in ScanRows /\ new.at = "scanning"
    BY <1>0, <2>1, ScanTyped DEF ScanRows
  <2>3. Failed(r) \/ scan' = [scan EXCEPT ![r] = new]
    BY <1>6 DEF JobScanners
  <2> HIDE DEF new
  <2> QED
    BY <1>1, <1>3, <2>2, <2>3
<1>7. CASE JobAnswers(r)
  <2>1. ASSUME NEW v \in {"CLEAN", "INFECTED"}, NEW k \in BOOLEAN,
               scan' = [scan EXCEPT ![r] = [scan[r] EXCEPT !.at = "answered", !.verdict = v, !.kept = k]]
        PROVE  ScansTyped'
    <3>1. /\ [scan[r] EXCEPT !.at = "answered", !.verdict = v, !.kept = k] \in ScanRows
          /\ [scan[r] EXCEPT !.at = "answered", !.verdict = v, !.kept = k].at = "answered"
      BY <1>0, ScanTyped DEF ScanRows
    <3> QED
      BY <1>2, <2>1, <3>1
  <2>2. \/ Failed(r)
        \/ \E v \in {"CLEAN", "INFECTED"}, k \in BOOLEAN :
             scan' = [scan EXCEPT ![r] = [scan[r] EXCEPT !.at = "answered", !.verdict = v, !.kept = k]]
    BY <1>7, RetainAssumption DEF JobAnswers
  <2> QED
    BY <1>3, <2>1, <2>2
<1> QED
  BY <1>4, <1>5, <1>6, <1>7 DEF JobNext

(* Every step keeps the types.                                             *)
LEMMA TypeStep == TypeOK /\ [Next]_vars => TypeOK'
<1> SUFFICES ASSUME TypeOK, [Next]_vars PROVE TypeOK'
  OBVIOUS
<1>1. ASSUME TablesTyped', ScansTyped', req' \in [Requests -> RequestStates],
             tmp' \subseteq Requests, input' \subseteq Requests
      PROVE  TypeOK'
  BY <1>1 DEF TablesTyped, ScansTyped, TypeOK
<1>2. TablesTyped /\ ScansTyped /\ req \in [Requests -> RequestStates]
      /\ tmp \subseteq Requests /\ input \subseteq Requests
  BY DEF TablesTyped, ScansTyped, TypeOK
<1>3. UNCHANGED adminVars => TablesTyped'
  BY <1>2 DEF adminVars, TablesTyped
<1>4. UNCHANGED scan => ScansTyped'
  BY <1>2 DEF ScansTyped
<1>5. ASSUME NEW r \in Uploads, UploadNext(r), UNCHANGED adminVars
      PROVE  TypeOK'
  <2>1. r \in Requests
    BY DEF Requests
  <2>2. req' \in [Requests -> RequestStates]
    BY <1>5, <2>1, RequestType
  <2>3. ScansTyped'
    <3>1. CASE CreateScan(r)
      <4>1. req[r].profile \in PinOrNull /\ req[r].contract \in PinOrNull
        BY <1>2, <2>1 DEF RequestStates
      <4> QED
        BY <2>1, <3>1, <4>1, InsertType DEF CreateScan
    <3>2. CASE ~CreateScan(r)
      BY <1>4, <1>5, <3>2 DEF UploadNext, Authenticate, Refused, ReadSettings, ResolveProfile,
                              PanelChoice, OpenTmp, Unusable, CheckType, CreateScanFails,
                              PanelCreateFails, Finalize, RequestDies
    <3> QED
      BY <3>1, <3>2
  <2>4. tmp' \subseteq Requests /\ input' \subseteq Requests
    BY <1>2, <1>5, <2>1 DEF UploadNext, Authenticate, Refused, ReadSettings, ResolveProfile,
                            PanelChoice, OpenTmp, Unusable, CheckType, CreateScan, CreateScanFails,
                            PanelCreateFails, Finalize, RequestDies, RemoveAndEnd
  <2> QED
    BY <1>1, <1>3, <1>5, <2>2, <2>3, <2>4
<1>6. ASSUME NEW r \in Rescans, NEW s \in Requests, Rescan(r, s), UNCHANGED adminVars
      PROVE  TypeOK'
  <2>1. r \in Requests
    BY DEF Requests
  <2>2. scan[s].profile \in PinOrNull /\ scan[s].contract \in PinOrNull
    BY <1>2 DEF ScansTyped, ScanRows
  <2>3. ScansTyped'
    BY <1>2, <1>6, <2>1, <2>2, InsertType DEF Rescan, ScansTyped, ScanRows
  <2>4. req' \in [Requests -> RequestStates]
    <3>1. [NoRequest EXCEPT !.at = "ended"] \in RequestStates
      BY Values, NotesTyped DEF RequestStep
    <3> QED
      BY <1>2, <1>6, <3>1 DEF Rescan, End
  <2> QED
    BY <1>1, <1>2, <1>3, <1>6, <2>3, <2>4 DEF Rescan
<1>7. ASSUME NEW r \in Requests, JobNext(r), UNCHANGED adminVars
      PROVE  TypeOK'
  <2>1. UNCHANGED <<req, tmp>> /\ input' \subseteq input
    BY <1>7 DEF JobNext, Claim, JobProfile, JobScanners, JobAnswers
  <2> QED
    BY <1>1, <1>2, <1>3, <1>7, <2>1, JobType
<1>8. CASE AdminNext /\ RowsLoseProfile /\ UNCHANGED <<req, tmp, input>>
  BY <1>1, <1>2, <1>8, AdminType, LossType
<1>9. CASE UNCHANGED vars
  BY <1>1, <1>2, <1>3, <1>4, <1>9 DEF vars, reqVars
<1> QED
  BY <1>5, <1>6, <1>7, <1>8, <1>9 DEF Next

(* Type correctness.                                                       *)
THEOREM TypeCorrect == Spec => []TypeOK
BY TypeInit, TypeStep, PTL DEF Spec

-----------------------------------------------------------------------------
(* The invariant                                                           *)

Born(p) == profile[p].row # "unborn"
Gone(p) == profile[p].row = "gone"

(* p still stands for the profile the client was promised, or that one is *)
(* deleted                                                                 *)
Keeps(contract, p) == contract # NoProfile => Born(contract) /\ (p = contract \/ Gone(contract))

(* Retired keys are older than the client's, or the client is revoked *)
KeysInv ==
  /\ \A c \in Clients :
       /\ client[c].row = "unborn" => client[c].key = 0
       /\ client[c].row # "unborn" => client[c].key >= 1
  /\ \A c \in Clients, k \in Nat : <<c, k>> \in retired =>
       k >= 1 /\ (k < client[c].key \/ (k = client[c].key /\ client[c].row # "on"))

(* Forms are about profiles that exist or existed *)
FormsInv == \A a \in Admins : form[a].at # "none" => form[a].of \in Profiles /\ Born(form[a].of)

PinsInv == \A c \in Clients : Keeps(client[c].contract, client[c].pin)

TablesInv == KeysInv /\ FormsInv /\ PinsInv /\ OneDefault /\ DefaultSurvivesEdits

(* Who is pinned goes from the client row through the request to the scan *)
PromiseKept(r) ==
  /\ req[r].gate # "api" => req[r].contract = NoProfile
  /\ req[r].at = "idle" => req[r] = NoRequest
  /\ req[r].at \in {"settings", "profile"} => Keeps(req[r].contract, req[r].pin)
  /\ req[r].at \in {"mkdir", "reading", "staged"} => Keeps(req[r].contract, req[r].profile)
  /\ Keeps(scan[r].contract, scan[r].profile)
  /\ scan[r].at \notin {"none", "received"} => Keeps(scan[r].contract, scan[r].used)

(* A request's directory and its row *)
FilesInv(r) ==
  /\ r \in tmp => req[r].at \in {"reading", "staged", "inserted", "failed"}
  /\ req[r].at \in {"idle", "settings", "profile", "mkdir", "reading", "staged"} => scan[r].at = "none"

VerdictInv(r) ==
  /\ scan[r].at = "scanning" => scan[r].ran # {}
  /\ scan[r].verdict \in {"CLEAN", "INFECTED"} => scan[r].ran # {}

RequestInv(r) == PromiseKept(r) /\ FilesInv(r) /\ VerdictInv(r)

AllRequestsInv == \A r \in Requests : RequestInv(r)
Inv == TypeOK /\ TablesInv /\ AllRequestsInv

-----------------------------------------------------------------------------
(* The tables                                                              *)

(* What the handlers leave to the rest of the system *)
Lasting == \A p \in Profiles : (Born(p) => Born(p)') /\ (Gone(p) => Gone(p)')

(* A promise is kept as long as profiles only come and go once.            *)
LEMMA KeepsLasts ==
  ASSUME Lasting, NEW contract \in PinOrNull, NEW p, Keeps(contract, p)
  PROVE  Keeps(contract, p)'
BY DEF Lasting, Keeps, PinOrNull

(* Rows of the profiles are never created again, and only three kinds of   *)
(* steps touch more of them than the row and the members of one profile.   *)
LEMMA ProfileSteps ==
  ASSUME TypeOK, AdminNext
  PROVE  /\ Lasting
         /\ \/ \E p \in Profiles : ProfileDelete(p)
            \/ \E a \in Admins : SaveDefault(a)
            \/ \A q \in Profiles : profile'[q].default = profile[q].default
<1> DEFINE Kept == \A q \in Profiles : /\ profile'[q].row = profile[q].row
                                        /\ profile'[q].default = profile[q].default
<1>0. \A q \in Profiles : profile[q] \in ProfileRows
  BY DEF TypeOK
<1>1. Kept => Lasting /\ \A q \in Profiles : profile'[q].default = profile[q].default
  BY DEF Lasting, Born, Gone
<1>2. UNCHANGED profile => Kept
  OBVIOUS
<1>3. ASSUME NEW x \in Scanners, RemoveScanner(x) PROVE Kept
  BY <1>0, <1>3 DEF RemoveScanner, ProfileRows
<1>4. ASSUME NEW p, NEW seen, NEW m, ReplaceMembers(p, seen, m) PROVE Kept
  BY <1>0, <1>4 DEF ReplaceMembers, Known, ProfileRows, TypeOK
<1>5. ASSUME NEW p \in Profiles, NEW b \in BOOLEAN, InsertProfile(p, b) \/ UpdateProfile(p, b)
      PROVE  Lasting /\ \A q \in Profiles : profile'[q].default = profile[q].default
  <2>1. /\ profile'[p].row \in {"on", "off"} /\ profile'[p].default = profile[p].default
        /\ ~Gone(p)
        /\ \A q \in Profiles \ {p} : profile'[q] = profile[q]
    BY <1>0, <1>5, Values DEF InsertProfile, UpdateProfile, Known, Present, Gone, ProfileRows, TypeOK
  <2> QED
    BY <2>1 DEF Lasting, Born, Gone
<1>6. ASSUME NEW p \in Profiles, ProfileDelete(p)
      PROVE  Lasting
  <2>1. profile'[p].row = "gone" /\ \A q \in Profiles \ {p} : profile'[q] = profile[q]
    BY <1>6 DEF ProfileDelete, RemoveProfile, TypeOK
  <2> QED
    BY <2>1 DEF Lasting, Born, Gone
<1>7. ASSUME NEW a \in Admins, SaveDefault(a)
      PROVE  Lasting
  <2>1. \A q \in Profiles : profile'[q].row = profile[q].row
    BY <1>0, <1>7 DEF SaveDefault, MoveDefault, ProfileRows
  <2> QED
    BY <2>1 DEF Lasting, Born, Gone
<1> HIDE DEF Kept
<1>8. CASE PanelRequest
  <2>1. CASE \E x \in Scanners :
               \/ ScannerDelete(x)
               \/ \E ticked \in BOOLEAN : ScannerNew(x, ticked) \/ ScannerEdit(x, ticked)
    BY <1>1, <1>2, <1>3, <2>1 DEF ScannerDelete, ScannerNew, ScannerEdit
  <2>2. CASE \E p \in Profiles : ProfileDelete(p)
    BY <1>6, <2>2
  <2>3. CASE \E p \in Profiles, a \in Admins, ticked, d \in BOOLEAN, m \in Choices :
               ProfileNew(a, p, ticked, m, d) \/ ProfileEdit(a, p, ticked, m, d)
    BY <1>5, <2>3 DEF ProfileNew, ProfileEdit
  <2>4. CASE \/ \E c \in Clients :
                  \/ ApiClientRevoke(c) \/ ApiClientRotate(c)
                  \/ \E pin \in Profiles \cup {NoProfile}, may \in BOOLEAN :
                       ApiClientCreate(c, pin, may)
             \/ \E refused \in BOOLEAN : SecuritySubmit(refused)
    BY <1>1, <1>2, <2>4 DEF ApiClientRevoke, ApiClientRotate, ApiClientCreate, SecuritySubmit
  <2> QED
    BY <1>8, <2>1, <2>2, <2>3, <2>4 DEF PanelRequest
<1>9. ASSUME NEW a \in Admins, SaveStep(a)
      PROVE  \/ Kept
             \/ SaveDefault(a)
  <2>1. CASE SaveMembers(a)
    <3>1. ReplaceMembers(form[a].of, form[a].seen, form[a].members)
      BY <2>1 DEF SaveMembers
    <3> QED
      BY <1>4, <3>1
  <2>2. CASE ClearMembers(a) \/ ClearDefault(a) \/ SaveFails(a)
    BY <1>2, <2>2 DEF ClearMembers, ClearDefault, SaveFails, tables
  <2> QED
    BY <1>9, <2>1, <2>2 DEF SaveStep
<1> QED
  BY <1>1, <1>7, <1>8, <1>9 DEF AdminNext

(* There is never a second default, and always one unless profiles were    *)
(* deleted.                                                                *)
LEMMA DefaultsKept ==
  ASSUME TypeOK, FormsInv, OneDefault, DefaultSurvivesEdits, AdminNext
  PROVE  OneDefault' /\ DefaultSurvivesEdits'
<1>1. ASSUME NEW p \in Profiles, ProfileDelete(p)
      PROVE  OneDefault' /\ DefaultSurvivesEdits'
  <2>1. /\ profile'[p].row = "gone" /\ profile'[p].default = FALSE
        /\ \A q \in Profiles \ {p} : profile'[q] = profile[q]
    BY <1>1 DEF ProfileDelete, RemoveProfile, TypeOK
  <2>2. Defaults' \subseteq Defaults
    BY <2>1 DEF Defaults
  <2> QED
    BY <2>1, <2>2 DEF OneDefault, DefaultSurvivesEdits
<1>2. ASSUME NEW a \in Admins, SaveDefault(a)
      PROVE  OneDefault' /\ DefaultSurvivesEdits'
  <2> DEFINE p == form[a].of
  <2>1. p \in Profiles /\ Born(p)
    BY <1>2 DEF SaveDefault, FormsInv
  <2>2. \A q \in Profiles : profile[q] \in ProfileRows
    BY DEF TypeOK
  <2>3. \A q \in Profiles : /\ profile'[q].row = profile[q].row
                            /\ profile'[q].default <=> q = p /\ Present(profile[q].row)
    BY <1>2, <2>2 DEF SaveDefault, MoveDefault, ProfileRows
  <2>4. Defaults' \subseteq {p}
    BY <2>3 DEF Defaults
  <2>5. profile'[p].row # "gone" => p \in Defaults'
    BY <2>1, <2>2, <2>3 DEF Defaults, Born, Present, ProfileRows, RowState
  <2> QED
    BY <2>1, <2>4, <2>5 DEF OneDefault, DefaultSurvivesEdits
<1>3. CASE \A q \in Profiles : profile'[q].default = profile[q].default
  <2>1. Defaults' = Defaults
    BY <1>3 DEF Defaults
  <2>2. Lasting
    BY ProfileSteps
  <2> QED
    BY <2>1, <2>2 DEF OneDefault, DefaultSurvivesEdits, Lasting, Gone
<1> QED
  BY <1>1, <1>2, <1>3, ProfileSteps

(* A form stays about a profile that exists or existed.                    *)
LEMMA FormsKept ==
  ASSUME TypeOK, FormsInv, AdminNext
  PROVE  FormsInv'
<1>0. Lasting
  BY ProfileSteps
<1>1. ASSUME NEW b \in Admins,
             form'[b].at = "none" \/ (form'[b].of = form[b].of /\ form[b].at # "none")
      PROVE  (form[b].at # "none" => form[b].of \in Profiles /\ Born(form[b].of))'
  BY <1>0, <1>1 DEF FormsInv, Lasting, Born
<1>2. UNCHANGED form => FormsInv'
  BY <1>1 DEF FormsInv
<1>3. ASSUME NEW a \in Admins, NEW p \in Profiles, NEW m, NEW d, Saving(a, p, m, d), Born(p)'
      PROVE  FormsInv'
  <2>1. /\ form'[a].of = p
        /\ \A b \in Admins \ {a} : form'[b] = form[b]
    BY <1>3 DEF Saving, TypeOK
  <2> QED
    BY <1>0, <1>1, <1>3, <2>1 DEF FormsInv
<1>4. CASE PanelRequest
  <2>1. CASE \E p \in Profiles, a \in Admins, ticked, d \in BOOLEAN, m \in Choices :
               ProfileNew(a, p, ticked, m, d) \/ ProfileEdit(a, p, ticked, m, d)
    <3>1. PICK p \in Profiles, a \in Admins, ticked \in BOOLEAN, d \in BOOLEAN, m \in Choices :
            ProfileNew(a, p, ticked, m, d) \/ ProfileEdit(a, p, ticked, m, d)
      BY <2>1
    <3>2. profile'[p].row \in {"on", "off"}
      <4>1. profile[p] \in ProfileRows
        BY DEF TypeOK
      <4> QED
        BY <3>1, <4>1, Values DEF ProfileNew, ProfileEdit, InsertProfile, UpdateProfile, ProfileRows,
                                  TypeOK
    <3> QED
      BY <1>3, <3>1, <3>2 DEF ProfileNew, ProfileEdit, Born
  <2>2. CASE UNCHANGED form
    BY <1>2, <2>2
  <2> QED
    BY <1>4, <2>1, <2>2 DEF PanelRequest, ScannerDelete, ScannerNew, ScannerEdit, ProfileDelete,
                            ApiClientRevoke, ApiClientRotate, ApiClientCreate, SecuritySubmit
<1>5. ASSUME NEW a \in Admins, SaveStep(a)
      PROVE  FormsInv'
  <2>0. \A b \in Admins : form[b] \in Forms
    BY DEF TypeOK
  <2>1. CASE ClearMembers(a) \/ ClearDefault(a) \/ SaveDefault(a) \/ SaveFails(a)
    <3>1. /\ form[a].at # "none" /\ (form'[a].at = "none" \/ form'[a].of = form[a].of)
          /\ \A b \in Admins \ {a} : form'[b] = form[b]
      BY <2>0, <2>1 DEF ClearMembers, ClearDefault, SaveDefault, SaveFails, NoForm, Forms, TypeOK
    <3> QED
      BY <1>1, <3>1 DEF FormsInv
  <2>2. CASE SaveMembers(a)
    <3>1. form[a].at # "none" /\ (form'[a].at = "none" \/ form'[a].of = form[a].of)
      BY <2>0, <2>2 DEF SaveMembers, NoForm, Forms
    <3>2. \A b \in Admins : \A p, gone :
         /\ Unseen(p, gone, form[b]).at = form[b].at
         /\ Unseen(p, gone, form[b]).of = form[b].of
      BY <2>0 DEF Unseen, Forms
    <3>3. \A b \in Admins \ {a} : form'[b].at = form[b].at /\ form'[b].of = form[b].of
      BY <2>2, <3>2 DEF SaveMembers
    <3> QED
      BY <1>1, <3>1, <3>3 DEF FormsInv
  <2> QED
    BY <1>5, <2>1, <2>2 DEF SaveStep
<1> QED
  BY <1>4, <1>5 DEF AdminNext

(* What a step of the administration may do to the clients.                *)
LEMMA ClientSteps ==
  ASSUME TypeOK, AdminNext
  PROVE  \/ UNCHANGED <<client, retired>>
         \/ \E p \in Profiles : ProfileDelete(p)
         \/ \E c \in Clients :
              \/ ApiClientRevoke(c) \/ ApiClientRotate(c)
              \/ \E pin \in PinOrNull, may \in BOOLEAN : ApiClientCreate(c, pin, may)
BY DEF AdminNext, PanelRequest, SaveStep, ScannerDelete, ScannerNew, ScannerEdit, RemoveScanner,
       InsertScanner, UpdateScanner, ProfileNew, ProfileEdit, SecuritySubmit, ClearMembers, SaveMembers,
       ClearDefault, SaveDefault, SaveFails, tables, PinOrNull

(* A client keeps the profile it was promised as long as that one exists.  *)
LEMMA PinsKept ==
  ASSUME TypeOK, PinsInv, AdminNext
  PROVE  PinsInv'
<1>0. Lasting /\ \A c \in Clients : client[c] \in ClientRows
  BY ProfileSteps DEF TypeOK
<1>1. ASSUME NEW c \in Clients, client'[c].contract = client[c].contract, client'[c].pin = client[c].pin
      PROVE  Keeps(client[c].contract, client[c].pin)'
  <2>1. Keeps(client[c].contract, client[c].pin) /\ client[c].contract \in PinOrNull
    BY <1>0 DEF PinsInv, ClientRows
  <2> QED
    BY <1>0, <1>1, <2>1 DEF Keeps, Lasting, PinOrNull
<1>2. UNCHANGED client => PinsInv'
  BY <1>1 DEF PinsInv
<1>3. ASSUME NEW p \in Profiles, ProfileDelete(p)
      PROVE  PinsInv'
  <2>1. Gone(p)'
    BY <1>3 DEF ProfileDelete, RemoveProfile, Gone, TypeOK
  <2>2. \A c \in Clients :
          /\ client'[c].contract = client[c].contract
          /\ client'[c].pin = IF client[c].pin = p THEN NoProfile ELSE client[c].pin
    BY <1>0, <1>3 DEF ProfileDelete, RemoveProfile, ClientRows
  <2>3. ASSUME NEW c \in Clients, client[c].pin = p
        PROVE  Keeps(client[c].contract, client[c].pin)'
    <3>1. Keeps(client[c].contract, p) /\ client[c].contract \in PinOrNull
      BY <1>0, <2>3 DEF PinsInv, ClientRows
    <3> QED
      BY <1>0, <2>1, <2>2, <3>1 DEF Keeps, Lasting, PinOrNull
  <2> QED
    BY <1>1, <2>2, <2>3 DEF PinsInv
<1>4. ASSUME NEW c \in Clients, ApiClientRevoke(c) \/ ApiClientRotate(c)
      PROVE  PinsInv'
  <2>1. \A d \in Clients : client'[d].contract = client[d].contract /\ client'[d].pin = client[d].pin
    BY <1>0, <1>4 DEF ApiClientRevoke, ApiClientRotate, Revoke, RotateKey, ClientRows, TypeOK
  <2> QED
    BY <1>1, <2>1 DEF PinsInv
<1>5. ASSUME NEW c \in Clients, NEW pin \in PinOrNull, NEW may \in BOOLEAN, ApiClientCreate(c, pin, may)
      PROVE  PinsInv'
  <2>1. /\ client'[c].contract = pin /\ client'[c].pin = pin
        /\ pin # NoProfile => Born(pin)
        /\ \A d \in Clients \ {c} : client'[d] = client[d]
    BY <1>5 DEF ApiClientCreate, InsertClient, Registered, Known, Present, Born, TypeOK
  <2>2. Keeps(client[c].contract, client[c].pin)'
    BY <1>0, <2>1 DEF Keeps, Lasting, PinOrNull
  <2> QED
    BY <1>1, <2>1, <2>2 DEF PinsInv
<1> QED
  BY <1>2, <1>3, <1>4, <1>5, ClientSteps

(* Keys an administrator took away stay behind the client's.               *)
LEMMA KeysKept ==
  ASSUME TypeOK, KeysInv, AdminNext
  PROVE  KeysInv'
<1>0. \A c \in Clients : client[c] \in ClientRows /\ client[c].key \in Nat
  BY DEF TypeOK, ClientRows
<1>1. ASSUME UNCHANGED retired,
             \A c \in Clients : client'[c].row = client[c].row /\ client'[c].key = client[c].key
      PROVE  KeysInv'
  BY <1>0, <1>1 DEF KeysInv
<1>2. ASSUME NEW p \in Profiles, ProfileDelete(p)
      PROVE  KeysInv'
  BY <1>0, <1>1, <1>2 DEF ProfileDelete, RemoveProfile, ClientRows
<1>3. ASSUME NEW c \in Clients, ApiClientRevoke(c) \/ ApiClientRotate(c)
      PROVE  KeysInv'
  <2>1. /\ client[c].key \in Nat /\ client[c].key >= 1
        /\ retired' = retired \cup {<<c, client[c].key>>}
        /\ \A d \in Clients \ {c} : client'[d] = client[d]
        /\ client'[c].row # "unborn"
        /\ \/ client'[c].key = client[c].key /\ client'[c].row = "off"
           \/ client'[c].key = client[c].key + 1
    BY <1>0, <1>3 DEF ApiClientRevoke, ApiClientRotate, Revoke, RotateKey, Retire, Present, ClientRows,
                      KeysInv, TypeOK
  <2>2. ASSUME NEW d \in Clients, NEW k \in Nat, <<d, k>> \in retired'
        PROVE  k >= 1 /\ (k < client'[d].key \/ (k = client'[d].key /\ client'[d].row # "on"))
    <3>1. CASE <<d, k>> \in retired
      <4>1. k >= 1 /\ (k < client[d].key \/ (k = client[d].key /\ client[d].row # "on"))
        BY <3>1 DEF KeysInv
      <4> QED
        BY <1>0, <2>1, <4>1
    <3>2. CASE d = c /\ k = client[c].key
      BY <2>1, <3>2
    <3> QED
      BY <2>1, <2>2, <3>1, <3>2
  <2>3. ASSUME NEW d \in Clients
        PROVE  /\ client'[d].row = "unborn" => client'[d].key = 0
               /\ client'[d].row # "unborn" => client'[d].key >= 1
    BY <1>0, <2>1 DEF KeysInv
  <2> QED
    BY <2>2, <2>3 DEF KeysInv
<1>4. ASSUME NEW c \in Clients, NEW pin \in PinOrNull, NEW may \in BOOLEAN, ApiClientCreate(c, pin, may)
      PROVE  KeysInv'
  <2>1. /\ client[c].row = "unborn" /\ client[c].key = 0 /\ retired' = retired
        /\ client'[c].key = 1 /\ client'[c].row # "unborn"
        /\ \A d \in Clients \ {c} : client'[d] = client[d]
    BY <1>4 DEF ApiClientCreate, InsertClient, Registered, KeysInv, TypeOK
  <2>2. \A k \in Nat : <<c, k>> \notin retired
    BY <1>0, <2>1 DEF KeysInv
  <2> QED
    BY <1>0, <2>1, <2>2 DEF KeysInv
<1> QED
  BY <1>1, <1>2, <1>3, <1>4, ClientSteps

(* The tables keep their invariant, whoever changes them.                  *)
LEMMA TablesKept ==
  ASSUME TypeOK, TablesInv, AdminNext
  PROVE  TablesInv'
BY DefaultsKept, FormsKept, PinsKept, KeysKept DEF TablesInv

-----------------------------------------------------------------------------
(* The requests                                                            *)

(* A request nobody touches keeps its invariant under every change of the  *)
(* tables that lasts.                                                      *)
LEMMA BystanderKeeps ==
  ASSUME TypeOK, NEW x \in Requests, RequestInv(x), Lasting,
         req'[x] = req[x], scan'[x] = scan[x], x \in tmp' <=> x \in tmp
  PROVE  RequestInv(x)'
<1>1. /\ req[x].contract \in PinOrNull /\ scan[x].contract \in PinOrNull
  BY DEF TypeOK, RequestStates, ScanRows
<1>2. FilesInv(x)' /\ VerdictInv(x)'
  BY DEF RequestInv, FilesInv, VerdictInv
<1>3. \A p : /\ Keeps(req[x].contract, p) => Keeps(req[x].contract, p)'
            /\ Keeps(scan[x].contract, p) => Keeps(scan[x].contract, p)'
  BY <1>1 DEF Keeps, Lasting, PinOrNull
<1>4. PromiseKept(x)'
  BY <1>1, <1>3 DEF RequestInv, PromiseKept, Keeps, Lasting, PinOrNull
<1> QED
  BY <1>2, <1>4 DEF RequestInv

(* A request that ends keeps its invariant, if it cleaned up or failed to. *)
LEMMA EndKeeps ==
  ASSUME TypeOK, NEW r \in Requests, RequestInv(r), UNCHANGED <<profile, scan>>,
         NEW step \in {"ended", "failed"}, End(r, step), r \in tmp' => step = "failed"
  PROVE  RequestInv(r)'
<1>1. req'[r].at = step /\ req'[r].contract = NoProfile
  BY DEF End, NoRequest, TypeOK
<1>2. PromiseKept(r)'
  BY <1>1 DEF RequestInv, PromiseKept, Keeps, Born, Gone
<1>3. FilesInv(r)' /\ VerdictInv(r)'
  BY <1>1 DEF RequestInv, FilesInv, VerdictInv
<1> QED
  BY <1>2, <1>3 DEF RequestInv

(* A request that goes on keeps it, if it passes the promise on.           *)
LEMMA MoveKeeps ==
  ASSUME TypeOK, NEW r \in Requests, RequestInv(r), UNCHANGED <<profile, scan>>,
         req[r].at \in {"idle", "settings", "profile", "mkdir", "reading"},
         req'[r].at \in {"settings", "profile", "mkdir", "reading", "staged"},
         req'[r].gate # "api" => req'[r].contract = NoProfile,
         req'[r].at \in {"settings", "profile"} => Keeps(req'[r].contract, req'[r].pin),
         req'[r].at \in {"mkdir", "reading", "staged"} => Keeps(req'[r].contract, req'[r].profile),
         r \in tmp' => req'[r].at \in {"reading", "staged"}
  PROVE  RequestInv(r)'
<1>1. PromiseKept(r)'
  BY DEF RequestInv, PromiseKept, Keeps, Born, Gone
<1>2. FilesInv(r)' /\ VerdictInv(r)'
  BY DEF RequestInv, FilesInv, VerdictInv
<1> QED
  BY <1>1, <1>2 DEF RequestInv

(* So does one that inserts a scan under the promise it has, and forgets   *)
(* the promise.                                                            *)
LEMMA InsertKeeps ==
  ASSUME TypeOK, NEW r \in Requests, RequestInv(r), UNCHANGED profile,
         NEW p \in PinOrNull, NEW q \in PinOrNull, NEW b \in BOOLEAN,
         InsertScan(r, p, q, b), Keeps(q, p),
         NEW step \in {"ended", "inserted"}, End(r, step), r \in tmp' => step = "inserted"
  PROVE  RequestInv(r)'
<1>1. /\ scan'[r].at = "received" /\ scan'[r].profile = p /\ scan'[r].contract = q
      /\ scan'[r].verdict = "none" /\ req'[r].at = step /\ req'[r].contract = NoProfile
  BY DEF InsertScan, NoScan, End, NoRequest, TypeOK
<1>2. PromiseKept(r)'
  BY <1>1 DEF PromiseKept, Keeps, Born, Gone
<1>3. FilesInv(r)' /\ VerdictInv(r)'
  BY <1>1 DEF FilesInv, VerdictInv
<1> QED
  BY <1>2, <1>3 DEF RequestInv

(* Every step of an upload keeps the invariant of its request.             *)
LEMMA UploadKeeps ==
  ASSUME TypeOK, PinsInv, NEW r \in Requests, RequestInv(r), UploadNext(r), UNCHANGED adminVars
  PROVE  RequestInv(r)'
<1>0. /\ req[r] \in RequestStates /\ UNCHANGED <<profile, client>>
      /\ r \in tmp => req[r].at \in {"reading", "staged", "inserted", "failed"}
      /\ req[r].at = "idle" => req[r].contract = NoProfile
  BY DEF TypeOK, adminVars, RequestInv, FilesInv, PromiseKept, NoRequest
<1>1. ASSUME NEW c \in Clients, NEW k \in 1..client[c].key, Authenticate(r, c, k)
      PROVE  RequestInv(r)'
  <2>1. CASE End(r, "ended")
    BY <1>0, <1>1, <2>1, EndKeeps DEF Authenticate, At
  <2>2. CASE req' = [req EXCEPT ![r].at = "settings", ![r].gate = "api", ![r].pin = client[c].pin,
                                ![r].contract = client[c].contract]
    <3>1. /\ req'[r].at = "settings" /\ req'[r].gate = "api"
          /\ req'[r].pin = client[c].pin /\ req'[r].contract = client[c].contract
      BY <1>0, <2>2 DEF RequestStates, TypeOK
    <3>2. Keeps(client[c].contract, client[c].pin)
      BY DEF PinsInv
    <3> QED
      BY <1>0, <1>1, <3>1, <3>2, MoveKeeps DEF Authenticate, At
  <2> QED
    BY <1>1, <2>1, <2>2 DEF Authenticate
<1>2. CASE ReadSettings(r)
  <2>1. /\ req'[r].at \in {"profile", "mkdir"} /\ (req'[r].at = "mkdir" => req[r].gate # "api")
        /\ req'[r].gate = req[r].gate /\ req'[r].contract = req[r].contract
        /\ req'[r].pin = req[r].pin /\ req'[r].profile = req[r].profile
        /\ UNCHANGED <<scan, tmp, input>> /\ req[r].at = "settings"
    BY <1>0, <1>2 DEF ReadSettings, At, RequestStates, TypeOK
  <2>2. /\ req[r].gate # "api" => req[r].contract = NoProfile
        /\ Keeps(req[r].contract, req[r].pin)
        /\ req[r].gate # "api" => Keeps(req[r].contract, req[r].profile)
    BY <2>1 DEF RequestInv, PromiseKept, Keeps
  <2> QED
    BY <1>0, <2>1, <2>2, MoveKeeps
<1>3. ASSUME NEW slug \in PinOrNull, ResolveProfile(r, slug)
      PROVE  RequestInv(r)'
  <2>1. UNCHANGED <<scan, tmp, input>> /\ req[r].at = "profile"
    BY <1>3 DEF ResolveProfile, At
  <2>2. CASE End(r, "ended")
    BY <1>0, <2>1, <2>2, EndKeeps
  <2>3. CASE req' = [req EXCEPT ![r].at = "mkdir",
                                ![r].profile = IF req[r].pin # NoProfile THEN req[r].pin ELSE slug]
    <3>1. /\ req'[r].at = "mkdir" /\ req'[r].gate = req[r].gate /\ req'[r].contract = req[r].contract
          /\ req[r].pin # NoProfile => req'[r].profile = req[r].pin
      BY <1>0, <2>3 DEF RequestStates, TypeOK
    <3>2. /\ req[r].gate # "api" => req[r].contract = NoProfile
          /\ Keeps(req[r].contract, req[r].pin)
      BY <2>1 DEF RequestInv, PromiseKept
    <3>3. Keeps(req'[r].contract, req'[r].profile)
      BY <3>1, <3>2 DEF Keeps
    <3> QED
      BY <1>0, <2>1, <3>1, <3>2, <3>3, MoveKeeps
  <2> QED
    BY <1>3, <2>2, <2>3 DEF ResolveProfile
<1>4. ASSUME NEW slug \in PinOrNull, PanelChoice(r, slug)
      PROVE  RequestInv(r)'
  <2>1. UNCHANGED <<scan, tmp, input>> /\ req[r].at = "idle"
    BY <1>4 DEF PanelChoice, At
  <2>2. CASE End(r, "ended")
    BY <1>0, <2>1, <2>2, EndKeeps
  <2>3. CASE req' = [req EXCEPT ![r].at = "settings", ![r].gate = "panel", ![r].profile = slug]
    <3>1. req'[r].at = "settings" /\ req'[r].contract = NoProfile
      BY <1>0, <2>1, <2>3 DEF RequestStates, TypeOK
    <3>2. Keeps(req'[r].contract, req'[r].pin)
      BY <3>1 DEF Keeps
    <3> QED
      BY <1>0, <2>1, <3>1, <3>2, MoveKeeps
  <2> QED
    BY <1>4, <2>2, <2>3 DEF PanelChoice
<1>5. CASE OpenTmp(r) \/ (CheckType(r) /\ Goto(r, "staged"))
  <2>1. /\ req'[r].at \in {"reading", "staged"} /\ req[r].at \in {"mkdir", "reading"}
        /\ req'[r].gate = req[r].gate /\ req'[r].contract = req[r].contract
        /\ req'[r].profile = req[r].profile
        /\ UNCHANGED scan
    BY <1>0, <1>5 DEF OpenTmp, CheckType, Goto, At, RequestStates, TypeOK
  <2>2. /\ req[r].gate # "api" => req[r].contract = NoProfile
        /\ Keeps(req[r].contract, req[r].profile)
    BY <2>1 DEF RequestInv, PromiseKept
  <2> QED
    BY <1>0, <2>1, <2>2, MoveKeeps
<1>6. CASE CreateScan(r)
  <2>1. /\ req[r].at = "staged" /\ Keeps(req[r].contract, req[r].profile)
        /\ req[r].profile \in PinOrNull /\ req[r].contract \in PinOrNull
    BY <1>0, <1>6 DEF CreateScan, At, RequestStates, RequestInv, PromiseKept
  <2> QED
    BY <1>0, <1>6, <2>1, InsertKeeps DEF CreateScan
<1>7. CASE RemoveAndEnd(r) /\ UNCHANGED scan
  <2>1. CASE tmp' = tmp \ {r} /\ End(r, "ended")
    BY <1>0, <1>7, <2>1, EndKeeps
  <2>2. CASE End(r, "failed")
    BY <1>0, <1>7, <2>2, EndKeeps
  <2> QED
    BY <1>7, <2>1, <2>2 DEF RemoveAndEnd
<1>8. CASE Refused(r)
  <2>1. r \notin tmp' /\ UNCHANGED scan /\ End(r, "ended")
    BY <1>0, <1>8 DEF Refused, At
  <2> QED
    BY <1>0, <2>1, EndKeeps
<1>9. CASE PanelCreateFails(r) \/ RequestDies(r)
  <2>1. UNCHANGED scan /\ End(r, "failed")
    BY <1>9 DEF PanelCreateFails, RequestDies
  <2> QED
    BY <1>0, <2>1, EndKeeps
<1>10. Unusable(r) \/ CreateScanFails(r) \/ Finalize(r) \/ CheckType(r) =>
         \/ RemoveAndEnd(r) /\ UNCHANGED scan
         \/ CheckType(r) /\ Goto(r, "staged")
  BY DEF Unusable, CreateScanFails, Finalize, CheckType
<1> QED
  BY <1>1, <1>2, <1>3, <1>4, <1>5, <1>6, <1>7, <1>8, <1>9, <1>10 DEF UploadNext, PinOrNull

(* A rescan is promised what the scan it repeats was promised.             *)
LEMMA RescanKeeps ==
  ASSUME TypeOK, NEW r \in Requests, NEW s \in Requests, RequestInv(r), RequestInv(s),
         Rescan(r, s), UNCHANGED adminVars
  PROVE  RequestInv(r)'
<1>1. UNCHANGED <<profile, tmp>> /\ req[r].at = "idle" /\ End(r, "ended")
  BY DEF Rescan, At, adminVars
<1>2. r \notin tmp'
  BY <1>1 DEF RequestInv, FilesInv
<1>3. /\ scan[s].profile \in PinOrNull /\ scan[s].contract \in PinOrNull /\ scan[s].kept \in BOOLEAN
      /\ Keeps(scan[s].contract, scan[s].profile)
  BY DEF TypeOK, ScanRows, RequestInv, PromiseKept
<1>4. InsertScan(r, scan[s].profile, scan[s].contract, scan[s].kept)
  BY DEF Rescan
<1> QED
  BY <1>1, <1>2, <1>3, <1>4, InsertKeeps

(* A job keeps the invariant, if it uses what the row promises and accepts *)
(* nothing that no scanner has read.                                       *)
LEMMA RowKeeps ==
  ASSUME TypeOK, NEW r \in Requests, RequestInv(r), UNCHANGED <<profile, req, tmp>>,
         scan[r].at # "none", scan'[r].at # "none",
         scan'[r].profile = scan[r].profile, scan'[r].contract = scan[r].contract,
         scan'[r].at # "received" => Keeps(scan[r].contract, scan'[r].used),
         scan'[r].at = "scanning" => scan'[r].ran # {},
         scan'[r].verdict \in {"CLEAN", "INFECTED"} => scan'[r].ran # {}
  PROVE  RequestInv(r)'
<1>1. PromiseKept(r)'
  BY DEF RequestInv, PromiseKept, Keeps, Born, Gone
<1>2. FilesInv(r)' /\ VerdictInv(r)'
  BY DEF RequestInv, FilesInv, VerdictInv
<1> QED
  BY <1>1, <1>2 DEF RequestInv

(* Every step of a job keeps the invariant of its request.  Only when its  *)
(* profile is deleted does it fall back to the default.                    *)
LEMMA JobKeeps ==
  ASSUME TypeOK, NEW r \in Requests, RequestInv(r), JobNext(r), UNCHANGED adminVars
  PROVE  RequestInv(r)'
<1>0. /\ scan[r] \in ScanRows /\ UNCHANGED <<profile, req, tmp>>
      /\ Keeps(scan[r].contract, scan[r].profile)
      /\ scan[r].at \notin {"none", "received"} => Keeps(scan[r].contract, scan[r].used)
      /\ scan[r].verdict \in {"CLEAN", "INFECTED"} => scan[r].ran # {}
  BY DEF TypeOK, adminVars, JobNext, Claim, JobProfile, JobScanners, JobAnswers, RequestInv,
         PromiseKept, FilesInv, VerdictInv
<1>1. ASSUME Failed(r), scan[r].at \notin {"none", "received"}
      PROVE  RequestInv(r)'
  <2>1. /\ scan'[r].at = "answered" /\ scan'[r].verdict = "ERROR" /\ scan'[r].used = scan[r].used
        /\ scan'[r].profile = scan[r].profile /\ scan'[r].contract = scan[r].contract
    BY <1>0, <1>1 DEF Failed, ScanRows, TypeOK
  <2> QED
    BY <1>0, <1>1, <2>1, RowKeeps
<1>2. CASE Claim(r)
  <2>1. /\ scan[r].at = "received" /\ scan'[r].at = "claimed" /\ scan'[r].used = scan[r].profile
        /\ scan'[r].profile = scan[r].profile /\ scan'[r].contract = scan[r].contract
        /\ scan'[r].verdict = scan[r].verdict /\ scan'[r].ran = scan[r].ran
    BY <1>0, <1>2 DEF Claim, ScanRows, TypeOK
  <2> QED
    BY <1>0, <2>1, RowKeeps
<1>3. CASE JobProfile(r)
  <2>0. scan[r].at = "claimed"
    BY <1>3 DEF JobProfile
  <2>1. ASSUME NEW p, scan' = [scan EXCEPT ![r].at = "resolved", ![r].used = p],
               Keeps(scan[r].contract, p)
        PROVE  RequestInv(r)'
    <3>1. /\ scan'[r].at = "resolved" /\ scan'[r].used = p
          /\ scan'[r].profile = scan[r].profile /\ scan'[r].contract = scan[r].contract
          /\ scan'[r].verdict = scan[r].verdict /\ scan'[r].ran = scan[r].ran
      BY <1>0, <2>1 DEF ScanRows, TypeOK
    <3> QED
      BY <1>0, <2>0, <2>1, <3>1, RowKeeps
  <2>2. CASE scan' = [scan EXCEPT ![r].at = "resolved"]
    <3>1. /\ scan'[r].at = "resolved" /\ scan'[r].used = scan[r].used
          /\ scan'[r].profile = scan[r].profile /\ scan'[r].contract = scan[r].contract
          /\ scan'[r].verdict = scan[r].verdict /\ scan'[r].ran = scan[r].ran
      BY <1>0, <2>2 DEF ScanRows, TypeOK
    <3> QED
      BY <1>0, <2>0, <3>1, RowKeeps
  <2>3. ASSUME ~Known(scan[r].used), NEW p PROVE Keeps(scan[r].contract, p)
    <3>1. Keeps(scan[r].contract, scan[r].used) /\ scan[r].contract \in PinOrNull
      BY <1>0, <2>0 DEF ScanRows
    <3>2. \A q \in Profiles : ~Known(q) /\ Born(q) => Gone(q)
      BY DEF Known, Present, Born, Gone, TypeOK, ProfileRows, RowState
    <3> QED
      BY <2>3, <3>1, <3>2 DEF Keeps, PinOrNull
  <2> QED
    BY <1>1, <1>3, <2>0, <2>1, <2>2, <2>3 DEF JobProfile
<1>4. CASE JobScanners(r)
  <2>0. scan[r].at = "resolved"
    BY <1>4 DEF JobScanners
  <2>1. CASE Failed(r)
    BY <1>1, <2>0, <2>1
  <2>2. CASE ~Failed(r)
    <3>1. /\ scan'[r].at = "scanning" /\ scan'[r].used = scan[r].used
          /\ scan'[r].profile = scan[r].profile /\ scan'[r].contract = scan[r].contract
          /\ scan'[r].verdict = scan[r].verdict /\ scan'[r].ran # {}
      BY <1>0, <1>4, <2>2 DEF JobScanners, ScanRows, TypeOK
    <3> QED
      BY <1>0, <2>0, <3>1, RowKeeps
  <2> QED
    BY <2>1, <2>2
<1>5. CASE JobAnswers(r)
  <2>0. scan[r].at = "scanning" /\ scan[r].ran # {}
    BY <1>5 DEF JobAnswers, RequestInv, VerdictInv
  <2>1. ASSUME NEW v, NEW k,
               scan' = [scan EXCEPT ![r].at = "answered", ![r].verdict = v, ![r].kept = k]
        PROVE  RequestInv(r)'
    <3>1. /\ scan'[r].at = "answered" /\ scan'[r].used = scan[r].used
          /\ scan'[r].profile = scan[r].profile /\ scan'[r].contract = scan[r].contract
          /\ scan'[r].ran = scan[r].ran
      BY <1>0, <2>1 DEF ScanRows, TypeOK
    <3> QED
      BY <1>0, <2>0, <2>1, <3>1, RowKeeps
  <2> QED
    BY <1>1, <1>5, <2>0, <2>1 DEF JobAnswers
<1> QED
  BY <1>2, <1>3, <1>4, <1>5 DEF JobNext

(* A deleted profile leaves the rows that name it, and no row loses another.*)
LEMMA LossKeeps ==
  ASSUME TypeOK, NEW x \in Requests, RequestInv(x), Lasting, RowsLoseProfile,
         UNCHANGED <<req, tmp, input>>
  PROVE  RequestInv(x)'
<1> DEFINE left == IF scan[x].profile \in Profiles /\ profile'[scan[x].profile].row = "gone"
                   THEN NoProfile ELSE scan[x].profile
<1>0. scan[x] \in ScanRows /\ req[x].contract \in PinOrNull /\ scan[x].contract \in PinOrNull
  BY DEF TypeOK, ScanRows, RequestStates
<1>1. scan'[x] = [scan[x] EXCEPT !.profile = left]
  BY DEF RowsLoseProfile
<1>2. /\ scan'[x].profile = left /\ scan'[x].at = scan[x].at /\ scan'[x].contract = scan[x].contract
      /\ scan'[x].used = scan[x].used /\ scan'[x].ran = scan[x].ran
      /\ scan'[x].verdict = scan[x].verdict
  BY <1>0, <1>1 DEF ScanRows
<1>3. Keeps(scan[x].contract, scan[x].profile)'
  <2>1. Keeps(scan[x].contract, scan[x].profile)
    BY DEF RequestInv, PromiseKept
  <2>2. CASE scan'[x].profile = scan[x].profile
    BY <1>0, <1>2, <2>1, <2>2 DEF Keeps, Lasting, PinOrNull
  <2>3. CASE scan[x].profile \in Profiles /\ profile'[scan[x].profile].row = "gone"
    BY <1>0, <1>2, <2>1, <2>3 DEF Keeps, Lasting, PinOrNull, Gone
  <2> QED
    BY <1>2, <2>2, <2>3
<1> HIDE DEF left
<1>4. scan'[x].at \notin {"none", "received"} => Keeps(scan[x].contract, scan[x].used)'
  <2>1. scan[x].at \notin {"none", "received"} => Keeps(scan[x].contract, scan[x].used)
    BY DEF RequestInv, PromiseKept
  <2> QED
    BY <1>0, <1>2, <2>1 DEF Keeps, Lasting, PinOrNull
<1>5. /\ req[x].at \in {"settings", "profile"} => Keeps(req[x].contract, req[x].pin)'
      /\ req[x].at \in {"mkdir", "reading", "staged"} => Keeps(req[x].contract, req[x].profile)'
  BY <1>0 DEF Keeps, Lasting, PinOrNull, RequestInv, PromiseKept
<1>6. PromiseKept(x)'
  BY <1>3, <1>4, <1>5 DEF RequestInv, PromiseKept
<1>7. FilesInv(x)' /\ VerdictInv(x)'
  BY <1>2 DEF RequestInv, FilesInv, VerdictInv
<1> QED
  BY <1>6, <1>7 DEF RequestInv

-----------------------------------------------------------------------------
(* The theorems                                                            *)

(* The seeded tables and the empty service satisfy the invariant.          *)
LEMMA InvInit == Init => Inv
<1> SUFFICES ASSUME Init PROVE Inv
  OBVIOUS
<1>1. TypeOK
  BY TypeInit
<1>2. PICK installed \in SUBSET Scanners \ {{}}, set \in {s \in SUBSET Profiles : Standard \in s} :
        /\ profile = [p \in Profiles |->
             [row |-> IF p \in set THEN "on" ELSE "unborn", default |-> p = Standard,
              members |-> IF p \in set THEN installed ELSE {}]]
        /\ \E pins \in [Clients -> set \cup {NoProfile}], rows \in [Clients -> {"on", "unborn"}] :
             client = [c \in Clients |->
               IF rows[c] = "on" THEN Registered(pins[c], TRUE) ELSE NoClient]
  BY DEF Init, AdminInit
<1>3. PICK pins \in [Clients -> set \cup {NoProfile}], rows \in [Clients -> {"on", "unborn"}] :
        client = [c \in Clients |-> IF rows[c] = "on" THEN Registered(pins[c], TRUE) ELSE NoClient]
  BY <1>2
<1>4. retired = {} /\ form = [a \in Admins |-> NoForm]
  BY Zenon DEF Init, AdminInit
<1>5. KeysInv
  BY <1>3, <1>4 DEF KeysInv, Registered, NoClient
<1>6. FormsInv
  BY <1>4 DEF FormsInv, NoForm
<1>7. PinsInv
  <2>1. \A p \in set : Born(p)
    BY <1>2 DEF Born
  <2>2. ASSUME NEW c \in Clients
        PROVE  client[c].pin = client[c].contract /\ client[c].pin \in set \cup {NoProfile}
    BY <1>3 DEF Registered, NoClient
  <2> QED
    BY <2>1, <2>2 DEF PinsInv, Keeps
<1>8. OneDefault /\ DefaultSurvivesEdits
  <2>1. Defaults = {Standard}
    BY <1>2, StandardAssumption DEF Defaults
  <2> QED
    BY <2>1 DEF OneDefault, DefaultSurvivesEdits
<1>9. ASSUME NEW r \in Requests
      PROVE  RequestInv(r)
  <2>1. req[r] = NoRequest /\ scan[r] = NoScan /\ tmp = {} /\ input = {}
    BY DEF Init
  <2> QED
    BY <2>1 DEF RequestInv, PromiseKept, FilesInv, VerdictInv, Keeps, NoRequest, NoScan
<1> QED
  BY <1>1, <1>5, <1>6, <1>7, <1>8, <1>9 DEF Inv, TablesInv, AllRequestsInv

(* Who is not the request of a step is a bystander.                        *)
LEMMA OthersKeep ==
  ASSUME TypeOK, AllRequestsInv, NEW r \in Requests, RequestInv(r)', UNCHANGED adminVars,
         \A x \in Requests \ {r} :
           /\ req'[x] = req[x] /\ scan'[x] = scan[x] /\ (x \in tmp' <=> x \in tmp)
  PROVE  AllRequestsInv'
<1>1. Lasting
  BY DEF Lasting, Born, Gone, adminVars
<1>2. ASSUME NEW x \in Requests
      PROVE  RequestInv(x)'
  <2>1. CASE x # r
    BY <1>1, <2>1, BystanderKeeps DEF AllRequestsInv
  <2> QED
    BY <2>1
<1> QED
  BY <1>2 DEF AllRequestsInv

(* Every step keeps the invariant.                                         *)
LEMMA InvStep == Inv /\ [Next]_vars => Inv'
<1> SUFFICES ASSUME Inv, [Next]_vars PROVE Inv'
  OBVIOUS
<1>1. TypeOK /\ TypeOK' /\ TablesInv /\ AllRequestsInv
  BY TypeStep DEF Inv
<1>2. UNCHANGED adminVars => TablesInv'
  BY <1>1 DEF adminVars, TablesInv, KeysInv, FormsInv, PinsInv, OneDefault, DefaultSurvivesEdits,
              Keeps, Born, Gone, Defaults
<1>3. ASSUME NEW r \in Uploads, UploadNext(r), UNCHANGED adminVars
      PROVE  AllRequestsInv'
  <2>1. r \in Requests /\ RequestInv(r) /\ PinsInv
    BY <1>1 DEF Requests, AllRequestsInv, TablesInv
  <2>2. RequestInv(r)'
    BY <1>1, <1>3, <2>1, UploadKeeps
  <2>3. \A x \in Requests \ {r} :
          /\ req'[x] = req[x] /\ scan'[x] = scan[x] /\ (x \in tmp' <=> x \in tmp)
    BY <1>1, <1>3 DEF UploadNext, Authenticate, Refused, ReadSettings, ResolveProfile, PanelChoice,
                      OpenTmp, Unusable, CheckType, CreateScan, InsertScan, CreateScanFails,
                      PanelCreateFails, Finalize, RequestDies, RemoveAndEnd, Goto, End, TypeOK
  <2> QED
    BY <1>1, <1>3, <2>1, <2>2, <2>3, OthersKeep
<1>4. ASSUME NEW r \in Rescans, NEW s \in Requests, Rescan(r, s), UNCHANGED adminVars
      PROVE  AllRequestsInv'
  <2>1. r \in Requests /\ RequestInv(r) /\ RequestInv(s)
    BY <1>1 DEF Requests, AllRequestsInv
  <2>2. RequestInv(r)'
    BY <1>1, <1>4, <2>1, RescanKeeps
  <2>3. \A x \in Requests \ {r} :
          /\ req'[x] = req[x] /\ scan'[x] = scan[x] /\ (x \in tmp' <=> x \in tmp)
    BY <1>1, <1>4 DEF Rescan, InsertScan, End, TypeOK
  <2> QED
    BY <1>1, <1>4, <2>1, <2>2, <2>3, OthersKeep
<1>5. ASSUME NEW r \in Requests, JobNext(r), UNCHANGED adminVars
      PROVE  AllRequestsInv'
  <2>1. RequestInv(r)
    BY <1>1 DEF AllRequestsInv
  <2>2. RequestInv(r)'
    BY <1>1, <1>5, <2>1, JobKeeps
  <2>3. \A x \in Requests \ {r} :
          /\ req'[x] = req[x] /\ scan'[x] = scan[x] /\ (x \in tmp' <=> x \in tmp)
    BY <1>1, <1>5 DEF JobNext, Claim, JobProfile, JobScanners, JobAnswers, Failed, TypeOK
  <2> QED
    BY <1>1, <1>5, <2>2, <2>3, OthersKeep
<1>6. CASE AdminNext /\ RowsLoseProfile /\ UNCHANGED <<req, tmp, input>>
  <2>1. TablesInv'
    BY <1>1, <1>6, TablesKept
  <2>2. Lasting
    BY <1>1, <1>6, ProfileSteps
  <2>3. ASSUME NEW x \in Requests
        PROVE  RequestInv(x)'
    BY <1>1, <1>6, <2>2, LossKeeps DEF AllRequestsInv
  <2> QED
    BY <1>1, <2>1, <2>3 DEF Inv, AllRequestsInv
<1>7. CASE UNCHANGED vars
  <2>1. Lasting /\ UNCHANGED adminVars
    BY <1>7 DEF Lasting, Born, Gone, vars, adminVars
  <2>2. ASSUME NEW x \in Requests
        PROVE  RequestInv(x)'
    BY <1>1, <1>7, <2>1, BystanderKeeps DEF AllRequestsInv, vars, reqVars
  <2> QED
    BY <1>1, <1>2, <2>1, <2>2 DEF Inv, AllRequestsInv
<1> QED
  BY <1>1, <1>2, <1>3, <1>4, <1>5, <1>6, <1>7 DEF Next, Inv

(* The invariant holds in every reachable state.                           *)
THEOREM InvInvariant == Spec => []Inv
BY InvInit, InvStep, PTL DEF Spec

(* Any number of profile forms, saved by any number of API processes,      *)
(* never make two defaults.                                                *)
THEOREM DefaultIsOne == Spec => []OneDefault
<1>1. Inv => OneDefault
  BY DEF Inv, TablesInv
<1> QED
  BY <1>1, InvInvariant, PTL

(* Nor do they ever leave the platform without one: as long as no profile  *)
(* was deleted, one is the default, however the forms interleave and fail. *)
THEOREM DefaultIsKept == Spec => []DefaultSurvivesEdits
<1>1. Inv => DefaultSurvivesEdits
  BY DEF Inv, TablesInv
<1> QED
  BY <1>1, InvInvariant, PTL

(* A client's uploads and their rescans are judged by the profile it was   *)
(* created with, unless that profile was deleted.                          *)
THEOREM PinnedJudges == Spec => []PinHolds
<1>1. Inv => PinHolds
  <2> SUFFICES ASSUME Inv, NEW r \in Requests,
                      scan[r].at \in {"resolved", "scanning", "answered"},
                      scan[r].contract # NoProfile
               PROVE  scan[r].used = scan[r].contract \/ profile[scan[r].contract].row = "gone"
    BY DEF PinHolds
  <2> QED
    BY DEF Inv, AllRequestsInv, RequestInv, PromiseKept, Keeps, Gone
<1> QED
  BY <1>1, InvInvariant, PTL

(* What is accepted was judged by at least one scanner, whatever was       *)
(* disabled, emptied or deleted between the steps of upload and job.       *)
THEOREM VerdictsAreEarned == Spec => []AcceptedByAScanner
<1>1. Inv => AcceptedByAScanner
  BY DEF Inv, AllRequestsInv, RequestInv, VerdictInv, AcceptedByAScanner
<1> QED
  BY <1>1, InvInvariant, PTL

(* No answer of a request comes without an attempt to remove its temporary *)
(* directory: one that outlives the request was left by an exception, a    *)
(* dead process, or a removal that failed.                                 *)
THEOREM RequestsCleanUp == Spec => []TmpOnlyAfterFailure
<1>1. Inv => TmpOnlyAfterFailure
  BY DEF Inv, TypeOK, AllRequestsInv, RequestInv, FilesInv, TmpOnlyAfterFailure, InFlight,
         RequestStep
<1> QED
  BY <1>1, InvInvariant, PTL

(* A key that was taken away never opens a request again.                  *)
THEOREM RetiredKeysOut == Spec => RetiredKeysStayOut
<1> DEFINE Barred == \A r \in Uploads :
                       req'[r].at = "settings" =>
                         \A c \in Clients : \A k \in 1..client[c].key :
                           Authenticate(r, c, k) => <<c, k>> \notin retired
<1>1. Inv => Barred
  <2> SUFFICES ASSUME Inv, NEW r \in Uploads, NEW c \in Clients, NEW k \in 1..client[c].key,
                      Authenticate(r, c, k), req'[r].at = "settings", <<c, k>> \in retired
               PROVE  FALSE
    OBVIOUS
  <2>1. TypeOK /\ KeysInv /\ client[c].key \in Nat /\ r \in Requests
    BY DEF Inv, TablesInv, TypeOK, ClientRows, Requests
  <2>2. ~End(r, "ended")
    BY <2>1 DEF End, NoRequest, TypeOK
  <2>3. client[c].row = "on" /\ client[c].key = k
    BY <2>2 DEF Authenticate, Accepts
  <2> QED
    BY <2>1, <2>3 DEF KeysInv
<1>2. Inv /\ [Next]_vars => [Barred]_vars
  BY <1>1
<1> QED
  BY <1>2, InvInvariant, PTL DEF Spec, RetiredKeysStayOut

-----------------------------------------------------------------------------
(* The gate                                                                *)

(* The phase of a scan is decided by its step and verdict.                 *)
LEMMA PhaseValue ==
  ASSUME NEW s
  PROVE  /\ s.at = "none" => PhaseOf(s) = "absent"
         /\ s.at = "received" => PhaseOf(s) = "queued"
         /\ s.at \in {"claimed", "resolved", "scanning"} => PhaseOf(s) = "working"
         /\ s.at = "answered" => PhaseOf(s) \in {"allowed", "denied"}
BY DEF PhaseOf

Successors ==
  {<<"absent", "queued">>, <<"queued", "working">>, <<"working", "working">>,
   <<"working", "allowed">>, <<"working", "denied">>}

(* A row that stays in its phase, or goes on to the next, is a step of the *)
(* gate.                                                                   *)
LEMMA PhaseStep ==
  ASSUME TypeOK, NEW r \in Requests, NEW new, scan' = [scan EXCEPT ![r] = new],
         <<PhaseOf(scan[r]), PhaseOf(new)>> \in Successors
  PROVE  [Gate!Next]_phase
<1>1. phase' = [phase EXCEPT ![r] = PhaseOf(new)] /\ phase[r] = PhaseOf(scan[r])
  BY DEF phase, TypeOK
<1>2. CASE PhaseOf(new) = PhaseOf(scan[r])
  BY <1>1, <1>2 DEF phase
<1>3. CASE PhaseOf(new) # PhaseOf(scan[r])
  BY <1>1, <1>3 DEF Successors, Gate!Next, Gate!Submit, Gate!Take, Gate!Allow, Gate!Deny
<1> QED
  BY <1>2, <1>3

(* A job takes its row from the queue to an answer.                        *)
LEMMA JobFollows ==
  ASSUME TypeOK, NEW r \in Requests, JobNext(r)
  PROVE  \E new : /\ scan' = [scan EXCEPT ![r] = new]
                  /\ <<PhaseOf(scan[r]), PhaseOf(new)>> \in Successors
<1>0. scan[r] \in ScanRows
  BY DEF TypeOK
<1>1. ASSUME NEW new, scan' = [scan EXCEPT ![r] = new],
             \/ scan[r].at = "received" /\ new.at = "claimed"
             \/ /\ scan[r].at \in {"claimed", "resolved", "scanning"}
                /\ new.at \in {"resolved", "scanning", "answered"}
      PROVE  <<PhaseOf(scan[r]), PhaseOf(new)>> \in Successors
  <2>1. \/ PhaseOf(scan[r]) = "queued" /\ PhaseOf(new) = "working"
        \/ PhaseOf(scan[r]) = "working" /\ PhaseOf(new) \in {"working", "allowed", "denied"}
    BY <1>1, PhaseValue
  <2> QED
    BY <2>1 DEF Successors
<1>2. /\ \A p : [scan[r] EXCEPT !.at = "claimed", !.used = p].at = "claimed"
      /\ \A p : [scan[r] EXCEPT !.at = "resolved", !.used = p].at = "resolved"
      /\ [scan[r] EXCEPT !.at = "resolved"].at = "resolved"
      /\ \A m : [scan[r] EXCEPT !.at = "scanning", !.ran = m].at = "scanning"
      /\ \A v : [scan[r] EXCEPT !.at = "answered", !.verdict = v].at = "answered"
      /\ \A v, k : [scan[r] EXCEPT !.at = "answered", !.verdict = v, !.kept = k].at = "answered"
  BY <1>0 DEF ScanRows
<1>3. CASE Claim(r)
  <2>1. scan' = [scan EXCEPT ![r] = [scan[r] EXCEPT !.at = "claimed", !.used = scan[r].profile]]
    BY <1>3 DEF Claim
  <2>2. scan[r].at = "received"
    BY <1>3 DEF Claim
  <2> QED
    BY <1>1, <1>2, <2>1, <2>2
<1>4. ASSUME scan[r].at \in {"claimed", "resolved", "scanning"},
             NEW v, scan' = [scan EXCEPT ![r] = [scan[r] EXCEPT !.at = "answered", !.verdict = v]]
      PROVE  \E new : /\ scan' = [scan EXCEPT ![r] = new]
                      /\ <<PhaseOf(scan[r]), PhaseOf(new)>> \in Successors
  BY <1>1, <1>2, <1>4
<1>5. CASE JobProfile(r)
  <2>1. \/ Failed(r)
        \/ scan' = [scan EXCEPT ![r] = [scan[r] EXCEPT !.at = "resolved"]]
        \/ \E p \in Defaults :
             scan' = [scan EXCEPT ![r] = [scan[r] EXCEPT !.at = "resolved", !.used = p]]
    BY <1>5 DEF JobProfile
  <2>2. scan[r].at = "claimed"
    BY <1>5 DEF JobProfile
  <2>3. CASE Failed(r)
    BY <1>4, <2>2, <2>3 DEF Failed
  <2>4. CASE scan' = [scan EXCEPT ![r] = [scan[r] EXCEPT !.at = "resolved"]]
    <3> DEFINE new == [scan[r] EXCEPT !.at = "resolved"]
    <3>1. scan' = [scan EXCEPT ![r] = new] /\ new.at = "resolved"
      BY <1>2, <2>4
    <3> HIDE DEF new
    <3> QED
      BY <1>1, <2>2, <3>1
  <2>5. ASSUME NEW p, scan' = [scan EXCEPT ![r] = [scan[r] EXCEPT !.at = "resolved", !.used = p]]
        PROVE  \E new : /\ scan' = [scan EXCEPT ![r] = new]
                        /\ <<PhaseOf(scan[r]), PhaseOf(new)>> \in Successors
    <3> DEFINE new == [scan[r] EXCEPT !.at = "resolved", !.used = p]
    <3>1. scan' = [scan EXCEPT ![r] = new] /\ new.at = "resolved"
      BY <1>2, <2>5
    <3> HIDE DEF new
    <3> QED
      BY <1>1, <2>2, <3>1
  <2> QED
    BY <2>1, <2>3, <2>4, <2>5
<1>6. CASE JobScanners(r)
  <2> DEFINE new == [scan[r] EXCEPT !.at = "scanning", !.ran = EnabledMembers(scan[r].used)]
  <2>1. Failed(r) \/ scan' = [scan EXCEPT ![r] = new]
    BY <1>6 DEF JobScanners
  <2>2. scan[r].at = "resolved"
    BY <1>6 DEF JobScanners
  <2>3. new.at = "scanning"
    BY <1>2
  <2> HIDE DEF new
  <2>4. CASE Failed(r)
    BY <1>4, <2>2, <2>4 DEF Failed
  <2> QED
    BY <1>1, <2>1, <2>2, <2>3, <2>4
<1>7. CASE JobAnswers(r)
  <2>1. Failed(r) \/ \E v \in {"CLEAN", "INFECTED"}, k \in BOOLEAN :
          scan' = [scan EXCEPT ![r] = [scan[r] EXCEPT !.at = "answered", !.verdict = v, !.kept = k]]
    BY <1>7, RetainAssumption DEF JobAnswers
  <2>2. scan[r].at = "scanning"
    BY <1>7 DEF JobAnswers
  <2>3. CASE Failed(r)
    BY <1>4, <2>2, <2>3 DEF Failed
  <2>4. ASSUME NEW v, NEW k,
               scan' = [scan EXCEPT ![r] = [scan[r] EXCEPT !.at = "answered", !.verdict = v, !.kept = k]]
        PROVE  \E new : /\ scan' = [scan EXCEPT ![r] = new]
                        /\ <<PhaseOf(scan[r]), PhaseOf(new)>> \in Successors
    <3> DEFINE new == [scan[r] EXCEPT !.at = "answered", !.verdict = v, !.kept = k]
    <3>1. scan' = [scan EXCEPT ![r] = new] /\ new.at = "answered"
      BY <1>2, <2>4
    <3> HIDE DEF new
    <3> QED
      BY <1>1, <2>2, <3>1
  <2> QED
    BY <2>1, <2>3, <2>4
<1> QED
  BY <1>3, <1>5, <1>6, <1>7 DEF JobNext

(* A new row is queued, if there was none.                                 *)
LEMMA InsertFollows ==
  ASSUME TypeOK, NEW r \in Requests, NEW p, NEW q, NEW b, InsertScan(r, p, q, b),
         scan[r].at = "none"
  PROVE  [Gate!Next]_phase
<1> DEFINE new == [NoScan EXCEPT !.at = "received", !.profile = p, !.contract = q, !.ofKept = b]
<1>1. scan' = [scan EXCEPT ![r] = new]
  BY DEF InsertScan
<1>2. new.at = "received"
  BY DEF NoScan
<1> HIDE DEF new
<1>3. <<PhaseOf(scan[r]), PhaseOf(new)>> \in Successors
  BY <1>2, PhaseValue DEF Successors
<1> QED
  BY <1>1, <1>3, PhaseStep

(* A row that loses its profile stays in its phase.                        *)
LEMMA LossStutters ==
  ASSUME TypeOK, RowsLoseProfile
  PROVE  UNCHANGED phase
<1>1. ASSUME NEW r \in Requests
      PROVE  /\ scan'[r].at = scan[r].at
             /\ scan'[r].verdict = scan[r].verdict
  <2> DEFINE left == IF scan[r].profile \in Profiles /\ profile'[scan[r].profile].row = "gone"
                     THEN NoProfile ELSE scan[r].profile
  <2>1. scan'[r] = [scan[r] EXCEPT !.profile = left]
    BY DEF RowsLoseProfile
  <2>2. scan[r] \in ScanRows
    BY DEF TypeOK
  <2> HIDE DEF left
  <2> QED
    BY <2>1, <2>2 DEF ScanRows
<1>2. ASSUME NEW r \in Requests
      PROVE  PhaseOf(scan'[r]) = PhaseOf(scan[r])
  BY <1>1 DEF PhaseOf
<1> QED
  BY <1>2 DEF phase

(* Every step is a step of the gate, or none.                              *)
LEMMA StepOfGate ==
  ASSUME Inv, [Next]_vars
  PROVE  [Gate!Next]_phase
<1>0. TypeOK /\ \A r \in Requests : FilesInv(r) /\ (req[r].at = "idle" => scan[r].at = "none")
  BY DEF Inv, AllRequestsInv, RequestInv, FilesInv
<1>1. UNCHANGED scan => UNCHANGED phase
  BY DEF phase
<1>2. ASSUME NEW r \in Uploads, UploadNext(r)
      PROVE  [Gate!Next]_phase
  <2>1. CASE CreateScan(r)
    <3>1. scan[r].at = "none" /\ r \in Requests
      BY <1>0, <2>1 DEF CreateScan, At, FilesInv, Requests
    <3>2. InsertScan(r, req[r].profile, req[r].contract, FALSE)
      BY <2>1 DEF CreateScan
    <3> QED
      BY <1>0, <3>1, <3>2, InsertFollows
  <2>2. CASE ~CreateScan(r)
    BY <1>1, <1>2, <2>2 DEF UploadNext, Authenticate, Refused, ReadSettings, ResolveProfile,
                            PanelChoice, OpenTmp, Unusable, CheckType, CreateScanFails,
                            PanelCreateFails, Finalize, RequestDies
  <2> QED
    BY <2>1, <2>2
<1>3. ASSUME NEW r \in Rescans, NEW s \in Requests, Rescan(r, s)
      PROVE  [Gate!Next]_phase
  <2>1. scan[r].at = "none" /\ r \in Requests
    BY <1>0, <1>3 DEF Rescan, At, Requests
  <2>2. InsertScan(r, scan[s].profile, scan[s].contract, scan[s].kept)
    BY <1>3 DEF Rescan
  <2> QED
    BY <1>0, <2>1, <2>2, InsertFollows
<1>4. ASSUME NEW r \in Requests, JobNext(r)
      PROVE  [Gate!Next]_phase
  BY <1>0, <1>4, JobFollows, PhaseStep
<1>5. CASE RowsLoseProfile
  BY <1>0, <1>5, LossStutters
<1>6. CASE UNCHANGED vars
  BY <1>1, <1>6 DEF vars, reqVars
<1> QED
  BY <1>2, <1>3, <1>4, <1>5, <1>6 DEF Next

(* The rows of uploads and rescans go through the gate's phases.  It is    *)
(* FilesInv that a request inserts its row once: what has not got that far *)
(* has no row yet.                                                         *)
THEOREM UploadImplementsGate == Spec => ImplementsGate
<1>1. Init => Gate!Init
  <2>1. PhaseOf(NoScan) = "absent"
    BY PhaseValue DEF NoScan
  <2>2. Init => \A r \in Requests : scan[r] = NoScan
    BY DEF Init
  <2> QED
    BY <2>1, <2>2 DEF Gate!Init, phase
<1>2. Inv /\ [Next]_vars => [Gate!Next]_phase
  BY StepOfGate
<1> QED
  BY <1>1, <1>2, InvInvariant, PTL DEF Spec, ImplementsGate, Gate!Spec
=============================================================================
