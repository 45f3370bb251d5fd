------------------------------- MODULE Roster -------------------------------
(***************************************************************************)
(* The people of a tenant: imported from spreadsheets row by row, signed   *)
(* up by themselves meanwhile, edited, deactivated and erased by admins.   *)
(* An import is no transaction: the rows it could write stay, and it tells *)
(* at the end how many it has created, updated and skipped.                *)
(***************************************************************************)
EXTENDS Integers, FiniteSets

CONSTANTS
  People,      \* rows of users there is room for
  Numbers,     \* phone numbers
  Imports,     \* uploads of a spreadsheet
  SheetRoles,  \* roles of its rows
  MaxRows,     \* bound of the run: rows of a spreadsheet
  MaxTroubles  \* bound of the run: statements that fail, and crashes

ASSUME RosterAssumptions ==
  /\ SheetRoles \subseteq {"student", "instructor"} /\ MaxRows \in Nat /\ MaxTroubles \in Nat
  \* What "by" of a row says when no import has made it.
  /\ "nobody" \notin Imports /\ "self" \notin Imports

VARIABLES
  people,      \* rows of users
  members,     \* rows of tenant_users
  import,      \* where each import is, and what it has counted
  troubles

rosterVars == <<people, members, import, troubles>>

MemberRoles == {"student", "instructor"}
NoPerson == [phone |-> "none", name |-> "none", active |-> FALSE, role |-> "none", by |-> "nobody"]
Unopened == [at |-> "unopened", left |-> 0, size |-> 0, person |-> "none", role |-> "none", phone |-> "none",
             created |-> 0, updated |-> 0, skipped |-> 0]

RosterTypeOK ==
  /\ people \in [People -> [phone : Numbers \cup {"none"}, name : {"none", "given", "erased"}, active : BOOLEAN,
                            role : MemberRoles \cup {"none"}, by : Imports \cup {"nobody", "self"}]]
  /\ members \subseteq People \X MemberRoles
  /\ import \in [Imports -> [at : {"unopened", "rows", "rename", "insert", "joinOld", "joinNew", "closed", "dead"},
                             left : 0..MaxRows, size : 0..MaxRows, person : People \cup {"none"},
                             role : MemberRoles \cup {"none"}, phone : Numbers \cup {"none"},
                             created : Nat, updated : Nat, skipped : Nat]]
  /\ troubles \in 0..MaxTroubles

RosterInit ==
  /\ people = [p \in People |-> NoPerson] /\ members = {}
  /\ import = [i \in Imports |-> Unopened] /\ troubles = 0

-----------------------------------------------------------------------------
There(p) == people[p].by # "nobody"
\* Unique in a tenant, by its index.
Owns(phone) == {p \in People : people[p].phone = phone}

(* An import *)

\* A file without a header that names phone and name is refused before this.
OpenSheet(i, rows) ==
  /\ import[i].at = "unopened"
  /\ import' = [import EXCEPT ![i] = [Unopened EXCEPT !.at = "rows", !.left = rows, !.size = rows]]
  /\ UNCHANGED <<people, members, troubles>>

\* The row is done with, and one tally goes up.
Counted(sheet, what) ==
  [sheet EXCEPT ![what] = @ + 1, !.at = "rows", !.person = "none", !.role = "none", !.phone = "none"]
Count(i, what) == import' = [import EXCEPT ![i] = Counted(import[i], what)]

\* A line that is no CSV, another role, no phone number, no name.
SkipRow(i) ==
  /\ import[i].at = "rows" /\ import[i].left > 0
  /\ import' = [import EXCEPT ![i].left = @ - 1, ![i].skipped = @ + 1]
  /\ UNCHANGED <<people, members, troubles>>

\* A row of the sheet is read, and of the person whom its phone has found.
Taken(sheet, p, role, phone) ==
  [sheet EXCEPT !.left = @ - 1, !.person = p, !.role = role, !.phone = phone,
                !.at = IF p = "none" THEN "insert" ELSE "rename"]

\* GetUserByPhone: whatever its error, the phone is taken to be new.
ProcessRow(i, phone, role) ==
  /\ import[i].at = "rows" /\ import[i].left > 0
  /\ \E p \in Owns(phone) \cup {"none"} :
       /\ p = "none" /\ Owns(phone) # {} => troubles < MaxTroubles
       /\ troubles' = IF p = "none" /\ Owns(phone) # {} THEN troubles + 1 ELSE troubles
       /\ import' = [import EXCEPT ![i] = Taken(import[i], p, role, phone)]
  /\ UNCHANGED <<people, members>>

\* By the id it has read, whoever the row is by now; an error is ignored.
RenameExisting(i) ==
  /\ import[i].at = "rename"
  /\ people' \in {people, [people EXCEPT ![import[i].person].name = "given"]}
  /\ troubles' = IF people' = people /\ people[import[i].person].name # "given" THEN troubles + 1 ELSE troubles
  /\ troubles' <= MaxTroubles
  /\ import' = [import EXCEPT ![i].at = "joinOld"]
  /\ UNCHANGED members

\* A row that cannot be written, as the phone has got an owner since, is skipped.
CreateUser(i) ==
  /\ import[i].at = "insert"
  /\ IF Owns(import[i].phone) # {}
     THEN Count(i, "skipped") /\ UNCHANGED people
     ELSE \E p \in People :
            /\ ~There(p)
            /\ people' = [people EXCEPT ![p] = [phone |-> import[i].phone, name |-> "given", active |-> TRUE,
                                                role |-> import[i].role, by |-> i]]
            /\ import' = [import EXCEPT ![i].at = "joinNew", ![i].person = p]
  /\ UNCHANGED <<members, troubles>>

\* The membership, at the role of the sheet, which of an existing user need not be the role of the
\* row; an error is ignored and the row counts all the same.
\* Mutant of Tallied: the two branches end alike.
AlwaysCreated(at) == "created"
Tallied(at) == IF at = "joinNew" THEN "created" ELSE "updated"
AddMember(i) ==
  /\ import[i].at \in {"joinOld", "joinNew"}
  /\ LET row == <<import[i].person, import[i].role>>
     IN members' \in {members, members \cup {row}}
  /\ troubles' = IF members' = members /\ <<import[i].person, import[i].role>> \notin members THEN troubles + 1 ELSE troubles
  /\ troubles' <= MaxTroubles
  /\ Count(i, Tallied(import[i].at))
  /\ UNCHANGED people

CloseSheet(i) ==
  /\ import[i].at = "rows" /\ import[i].left = 0
  /\ import' = [import EXCEPT ![i].at = "closed"]
  /\ UNCHANGED <<people, members, troubles>>

\* The server dies, and what has been written stays.
StopImport(i) ==
  /\ import[i].at \notin {"unopened", "closed", "dead"} /\ troubles < MaxTroubles
  /\ import' = [import EXCEPT ![i] = [Unopened EXCEPT !.at = "dead"]]
  /\ troubles' = troubles + 1
  /\ UNCHANGED <<people, members>>

-----------------------------------------------------------------------------
(* Everybody else *)

\* CreateUserWithPhone, of an OTP login: see PhoneLogin.
SignUp(p, phone) ==
  /\ ~There(p) /\ Owns(phone) = {}
  /\ people' = [people EXCEPT ![p] = [phone |-> phone, name |-> "none", active |-> TRUE, role |-> "student", by |-> "self"]]
\* Also with a token of a row that has been erased since; so too CompleteOnboarding.
UpdateProfile(p) == There(p) /\ people' = [people EXCEPT ![p].name = "given"]
\* What the body leaves out is NULL afterwards.
AdminUpdateUser(p, phone) ==
  /\ There(p) /\ (phone # "none" => Owns(phone) \subseteq {p})
  /\ people' = [people EXCEPT ![p].phone = phone, ![p].name = "given"]
SetUserActive(p, active) == There(p) /\ people' = [people EXCEPT ![p].active = active]
\* The row stays, as payments refer to it, and the identifiers are free again.
DeleteUser(p) == There(p) /\ people' = [people EXCEPT ![p].active = FALSE, ![p].phone = "none", ![p].name = "erased"]

HandleUpdateUser(p) == \E phone \in Numbers \cup {"none"} : AdminUpdateUser(p, phone)
HandleSetUserActive(p) == \E active \in BOOLEAN : SetUserActive(p, active)

RosterNext ==
  \/ \E i \in Imports :
       \/ \E rows \in 1..MaxRows : OpenSheet(i, rows)
       \/ SkipRow(i) \/ \E phone \in Numbers, role \in SheetRoles : ProcessRow(i, phone, role)
       \/ RenameExisting(i) \/ CreateUser(i) \/ AddMember(i) \/ CloseSheet(i) \/ StopImport(i)
  \/ /\ \E p \in People :
          \/ \E phone \in Numbers : SignUp(p, phone)
          \/ UpdateProfile(p) \/ HandleUpdateUser(p) \/ HandleSetUserActive(p) \/ DeleteUser(p)
     /\ UNCHANGED <<members, import, troubles>>

RosterSpec == RosterInit /\ [][RosterNext]_rosterVars

-----------------------------------------------------------------------------
InHand(i) == IF import[i].at \in {"rename", "insert", "joinOld", "joinNew"} THEN 1 ELSE 0

\* What an import tells adds up, whoever signs up, is edited or erased between its rows: every row
\* that has been read is counted once, and the rows said to be created are the accounts this import
\* and no other has made (bulkimport/service.go:72-103 and 134-218).
ImportsAddUp ==
  \A i \in Imports : import[i].at # "dead" =>
    /\ import[i].created + import[i].updated + import[i].skipped + InHand(i) = import[i].size - import[i].left
    /\ Cardinality({p \in People : people[p].by = i}) = import[i].created + (IF import[i].at = "joinNew" THEN 1 ELSE 0)
=============================================================================
