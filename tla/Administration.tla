--------------------------- MODULE Administration ---------------------------
(***************************************************************************)
(* The configuration tables of the platform - scanners, scanner_profiles   *)
(* with their members, api_clients, and the type policy of the             *)
(* system_settings row - and the panel handlers that change them.  A       *)
(* handler is a sequence of short transactions with no lock around them,   *)
(* and several API processes serve requests (uvicorn --workers 2), so      *)
(* handlers of different processes interleave between transactions.        *)
(*                                                                         *)
(* Ids are UUIDs drawn by the database: a deleted id never comes back.     *)
(* Handlers check the login, the CSRF token and the form before they touch *)
(* a table, so an ill-formed form changes nothing and is left out.         *)
(***************************************************************************)
EXTENDS Naturals

CONSTANTS
  Profiles,    \* ids of scanner_profiles, the slug of a profile standing for it
  Standard,    \* the profile the migration seeds as the default
  Scanners,    \* ids of scanners
  Clients,     \* ids of api_clients
  Admins,      \* panel requests in flight, each in an API process of its own
  NoProfile,   \* NULL in a scanner_profile_id column
  MaxChanges   \* bound: panel requests that change a table

ASSUME StandardAssumption == Standard \in Profiles
ASSUME NoProfileAssumption == NoProfile \notin Profiles
ASSUME MaxChangesAssumption == MaxChanges \in Nat

VARIABLES
  scanner,  \* scanners.enabled, or why there is no row
  profile,  \* scanner_profiles and scanner_profile_scanners
  client,   \* api_clients; contract is the pin the client was created with
  blocked,  \* system_settings refuses the type of the uploaded files
  retired,  \* history: the keys an administrator revoked or replaced
  form,     \* the profile form a panel handler is in the middle of saving; seen
            \* is what the first statement of its open transaction found
  changes   \* panel requests so far

tables == <<scanner, profile, client, blocked, retired>>
adminVars == <<scanner, profile, client, blocked, retired, form, changes>>

RowState == {"unborn", "on", "off", "gone"}
Present(row) == row \in {"on", "off"}
Enabled(ticked) == IF ticked THEN "on" ELSE "off"

Known(p) == p \in Profiles /\ Present(profile[p].row)
Defaults == {p \in Profiles : profile[p].default}

FormStep == {"none", "members", "insert", "default", "commit"}
(* The n-th key of a client is n *)
Registered(pin, may) == [row |-> "on", key |-> 1, may |-> may, pin |-> pin, contract |-> pin]
NoClient == [row |-> "unborn", key |-> 0, may |-> FALSE, pin |-> NoProfile, contract |-> NoProfile]

NoForm == [at |-> "none", of |-> NoProfile, members |-> {}, makeDefault |-> FALSE, seen |-> {}]

(* The migration seeds a default profile with a scanner; administrators     *)
(* may since have replaced it, added profiles and registered clients.       *)
AdminInit ==
  \E installed \in SUBSET Scanners \ {{}}, set \in {s \in SUBSET Profiles : Standard \in s} :
    /\ scanner = [x \in Scanners |-> IF x \in installed THEN "on" ELSE "unborn"]
    /\ profile = [p \in Profiles |->
         [row |-> IF p \in set THEN "on" ELSE "unborn", default |-> p = Standard,
          members |-> IF p \in set THEN installed ELSE {}]]
    /\ \E pins \in [Clients -> set \cup {NoProfile}], rows \in [Clients -> {"on", "unborn"}] :
         client = [c \in Clients |->
           IF rows[c] = "on" THEN Registered(pins[c], TRUE) ELSE NoClient]
    /\ blocked = FALSE
    /\ retired = {}
    /\ form = [a \in Admins |-> NoForm]
    /\ changes = 0

-----------------------------------------------------------------------------
(* api/db.py: what each statement does to its table.  An UPDATE or DELETE   *)
(* of an id that is gone matches no row.                                    *)

InsertScanner(x, ticked) ==
  scanner[x] = "unborn" /\ scanner' = [scanner EXCEPT ![x] = Enabled(ticked)]

UpdateScanner(x, ticked) ==
  Present(scanner[x]) /\ scanner' = [scanner EXCEPT ![x] = Enabled(ticked)]

(* The memberships go with the scanner: ON DELETE CASCADE *)
RemoveScanner(x) ==
  /\ Present(scanner[x])
  /\ scanner' = [scanner EXCEPT ![x] = "gone"]
  /\ profile' = [p \in Profiles |-> [profile[p] EXCEPT !.members = @ \ {x}]]

(* The row is never the default and has no scanner yet *)
InsertProfile(p, ticked) ==
  profile[p].row = "unborn" /\ profile' = [profile EXCEPT ![p].row = Enabled(ticked)]

UpdateProfile(p, ticked) ==
  Known(p) /\ profile' = [profile EXCEPT ![p].row = Enabled(ticked)]

(* set_profile_scanners: the DELETE takes the rows of its snapshot, seen,   *)
(* the INSERTs add to what other processes committed since.  The primary    *)
(* key refuses a member that is there, the foreign keys a scanner or a      *)
(* profile that is gone.                                                    *)
ReplaceMembers(p, seen, members) ==
  /\ Known(p)
  /\ \A x \in members : Present(scanner[x]) /\ x \notin profile[p].members \ seen
  /\ profile' = [profile EXCEPT ![p].members = (@ \ seen) \cup members]

(* Mutation: no unique index on is_default *)
MoveDefaultUnchecked(p, seen) ==
  profile' = [q \in Profiles |->
    [profile[q] EXCEPT !.default = IF q = p THEN Present(profile[q].row) ELSE @ /\ q \notin seen]]

(* set_default_profile: the first UPDATE clears the defaults of its         *)
(* snapshot, seen; the second matches nothing if the profile is gone, and   *)
(* the unique index refuses a default committed by another process since.   *)
MoveDefault(p, seen) ==
  /\ Defaults \subseteq seen \cup {p}
  /\ profile' = [q \in Profiles |->
       [profile[q] EXCEPT !.default = q = p /\ Present(profile[q].row)]]

(* Also of the default profile, and of one clients are pinned to: their    *)
(* column becomes NULL, ON DELETE SET NULL.                                *)
RemoveProfile(p) ==
  /\ Known(p)
  /\ profile' = [profile EXCEPT ![p] = [row |-> "gone", default |-> FALSE, members |-> {}]]
  /\ client' = [c \in Clients |-> [client[c] EXCEPT !.pin = IF @ = p THEN NoProfile ELSE @]]

InsertClient(c, pin, may) ==
  /\ client[c].row = "unborn"
  /\ pin = NoProfile \/ Known(pin)
  /\ client' = [client EXCEPT ![c] = Registered(pin, may)]

Revoke(c) == Present(client[c].row) /\ client' = [client EXCEPT ![c].row = "off"]

(* A revoked client is enabled again, under the new key *)
RotateKey(c) ==
  Present(client[c].row) /\ client' = [client EXCEPT ![c].row = "on", ![c].key = @ + 1]

-----------------------------------------------------------------------------
(* api/panel/admin_scanners.py: one transaction each.  An edit looks the    *)
(* row up first; deleted in between, it is not updated.                     *)

ScannerNew(x, ticked) ==
  InsertScanner(x, ticked) /\ UNCHANGED <<profile, client, blocked, retired, form>>

ScannerEdit(x, ticked) ==
  UpdateScanner(x, ticked) /\ UNCHANGED <<profile, client, blocked, retired, form>>

ScannerDelete(x) == RemoveScanner(x) /\ UNCHANGED <<client, blocked, retired, form>>

-----------------------------------------------------------------------------
(* api/panel/admin_profiles.py: a form is saved in up to three transactions *)

(* _validate_profile_form wants a scanner, of those the form offered *)
Choices == {m \in SUBSET {x \in Scanners : Present(scanner[x])} : m # {}}

(* What is left of the form once the row is written *)
Saving(a, p, members, makeDefault) ==
  /\ form[a].at = "none"
  /\ form' = [form EXCEPT ![a] = [at |-> "members", of |-> p, members |-> members,
                                  makeDefault |-> makeDefault, seen |-> {}]]

ProfileNew(a, p, ticked, members, makeDefault) ==
  /\ InsertProfile(p, ticked)
  /\ Saving(a, p, members, makeDefault)
  /\ UNCHANGED <<scanner, client, blocked, retired>>

(* Mutation: unticking "default" in the form takes the flag away *)
EditClearsDefault(a, p, ticked, members, makeDefault) ==
  /\ Known(p)
  /\ profile' = [profile EXCEPT ![p].row = Enabled(ticked), ![p].default = @ /\ makeDefault]
  /\ Saving(a, p, members, makeDefault)
  /\ UNCHANGED <<scanner, client, blocked, retired>>

ProfileEdit(a, p, ticked, members, makeDefault) ==
  /\ UpdateProfile(p, ticked)
  /\ Saving(a, p, members, makeDefault)
  /\ UNCHANGED <<scanner, client, blocked, retired>>

(* The statements of set_profile_scanners *)
ClearMembers(a) ==
  /\ form[a].at = "members" /\ Known(form[a].of)
  /\ form' = [form EXCEPT ![a].at = "insert", ![a].seen = profile[form[a].of].members]
  /\ UNCHANGED tables

(* A row deleted here is not there to delete for another process; a member *)
(* inserted again is a new row, which its snapshot does not show.          *)
Unseen(p, gone, f) == IF f.at = "insert" /\ f.of = p THEN [f EXCEPT !.seen = @ \ gone] ELSE f

SaveMembers(a) ==
  LET f == form[a] IN
  /\ f.at = "insert"
  /\ ReplaceMembers(f.of, f.seen, f.members)
  /\ form' = [b \in Admins |->
       IF b # a THEN Unseen(f.of, f.seen, form[b])
       ELSE IF f.makeDefault THEN [f EXCEPT !.at = "default", !.seen = {}] ELSE NoForm]
  /\ UNCHANGED <<scanner, client, blocked, retired>>

(* The two statements of set_default_profile *)
ClearDefault(a) ==
  /\ form[a].at = "default"
  /\ form' = [form EXCEPT ![a].at = "commit", ![a].seen = Defaults]
  /\ UNCHANGED tables

SaveDefault(a) ==
  /\ form[a].at = "commit"
  /\ MoveDefault(form[a].of, form[a].seen)
  /\ form' = [form EXCEPT ![a] = NoForm]
  /\ UNCHANGED <<scanner, client, blocked, retired>>

(* A foreign key or the index refuses the transaction, the database is     *)
(* unreachable, or the process dies: what was committed stays.             *)
SaveFails(a) ==
  /\ form[a].at # "none"
  /\ form' = [form EXCEPT ![a] = NoForm]
  /\ UNCHANGED tables

ProfileDelete(p) == RemoveProfile(p) /\ UNCHANGED <<scanner, blocked, retired, form>>

-----------------------------------------------------------------------------
(* api/panel/admin_settings.py: one transaction each.                       *)

ApiClientCreate(c, pin, may) ==
  InsertClient(c, pin, may) /\ UNCHANGED <<scanner, profile, blocked, retired, form>>

Retire(c) == retired' = retired \cup {<<c, client[c].key>>}

ApiClientRevoke(c) ==
  Revoke(c) /\ Retire(c) /\ UNCHANGED <<scanner, profile, blocked, form>>

ApiClientRotate(c) ==
  RotateKey(c) /\ Retire(c) /\ UNCHANGED <<scanner, profile, blocked, form>>

SecuritySubmit(refused) ==
  blocked' = refused /\ UNCHANGED <<scanner, profile, client, retired, form>>

-----------------------------------------------------------------------------
PanelRequest ==
  \/ \E x \in Scanners :
       \/ ScannerDelete(x)
       \/ \E ticked \in BOOLEAN : ScannerNew(x, ticked) \/ ScannerEdit(x, ticked)
  \/ \E p \in Profiles :
       \/ ProfileDelete(p)
       \/ \E a \in Admins, ticked, makeDefault \in BOOLEAN, members \in Choices :
            \/ ProfileNew(a, p, ticked, members, makeDefault)
            \/ ProfileEdit(a, p, ticked, members, makeDefault)
  \/ \E c \in Clients :
       \/ ApiClientRevoke(c) \/ ApiClientRotate(c)
       \/ \E pin \in Profiles \cup {NoProfile}, may \in BOOLEAN : ApiClientCreate(c, pin, may)
  \/ \E refused \in BOOLEAN : SecuritySubmit(refused)

SaveStep(a) ==
  \/ ClearMembers(a) \/ SaveMembers(a)
  \/ ClearDefault(a) \/ SaveDefault(a)
  \/ SaveFails(a)

AdminNext ==
  \/ changes < MaxChanges /\ changes' = changes + 1 /\ PanelRequest
  \/ (\E a \in Admins : SaveStep(a)) /\ UNCHANGED changes
=============================================================================
