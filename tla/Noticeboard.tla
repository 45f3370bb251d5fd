----------------------------- MODULE Noticeboard -----------------------------
(***************************************************************************)
(* What a tenant tells its people: announcements to a course or a batch,   *)
(* which may be fanned out to the inboxes of those enrolled in it, and     *)
(* notices to a single user.  The ids in a request are taken as they are,  *)
(* in an enrolment too, so that a request of one tenant may name a course  *)
(* or a user of another: what keeps the notices apart is the database.     *)
(***************************************************************************)
EXTENDS Integers, FiniteSets

CONSTANTS
  Ours, Theirs,  \* the users of two tenants
  Classes,       \* courses and batches, of whichever tenant
  Notes          \* ids of announcements

ASSUME NoticeAssumptions == Ours \cap Theirs = {}

VARIABLES
  enrolled,      \* rows of enrollments, per user and class
  notes,         \* rows of announcements
  inbox          \* rows of notifications, per user and what they are of

noticeVars == <<enrolled, notes, inbox>>

Readers == Ours \cup Theirs
Homes == {"ours", "theirs"}
HomeOf(u) == IF u \in Ours THEN "ours" ELSE "theirs"
Unposted == [state |-> "none", tenant |-> "none", class |-> "none"]
NoPlace == [tenant |-> "none", active |-> FALSE]
\* A direct notice is of no announcement.
Subjects == Notes \cup {"direct"}
NoNotice == [state |-> "none", tenant |-> "none", sender |-> "none"]

NoticeTypeOK ==
  /\ enrolled \in [Readers \X Classes -> [tenant : Homes \cup {"none"}, active : BOOLEAN]]
  /\ notes \in [Notes -> [state : {"none", "there", "gone"}, tenant : Homes \cup {"none"},
                          class : Classes \cup {"none"}]]
  /\ inbox \in [Readers \X Subjects -> [state : {"none", "unread", "read"}, tenant : Homes \cup {"none"},
                                        sender : Homes \cup {"none"}]]

NoticeInit ==
  /\ enrolled = [p \in Readers \X Classes |-> NoPlace]
  /\ notes = [n \in Notes |-> Unposted]
  /\ inbox = [b \in Readers \X Subjects |-> NoNotice]

-----------------------------------------------------------------------------
(* What the policies of the database let a session of a tenant see and write *)

Sees(session, home) == home = session
MayWrite(session, tenant) == tenant = session

\* tenant_id is a SELECT from users, which finds nothing of another tenant; it is NOT NULL.
\* Mutant of RecipientsTenant: the tenant of the sender.
SendersTenant(session, u) == session
RecipientsTenant(session, u) == IF Sees(session, HomeOf(u)) THEN HomeOf(u) ELSE "none"

Notice(session, tenant) == [state |-> "unread", tenant |-> tenant, sender |-> session]

\* One INSERT of all the rows, which a single row that is not permitted undoes.
Insert(session, rows, tenantOf, subject) ==
  inbox' = IF \A u \in rows : MayWrite(session, tenantOf[u])
           THEN [b \in Readers \X Subjects |->
                   IF b[2] = subject /\ b[1] \in rows THEN Notice(session, tenantOf[b[1]]) ELSE inbox[b]]
           ELSE inbox

-----------------------------------------------------------------------------
\* To a single user: the admin's send, and a broadcast to one user.  A broadcast to a course or to
\* all is always refused, as its announcement has no tenant.
Create(session, u) ==
  /\ inbox[<<u, "direct">>].state = "none"
  /\ Insert(session, {u}, [v \in Readers |-> RecipientsTenant(session, v)], "direct")
  /\ UNCHANGED <<enrolled, notes>>

\* Whom a fan-out selects: the active enrolments in the class that the session sees, whosever
\* users they are of.
Audience(session, class) ==
  {u \in Readers : class \in Classes /\ enrolled[<<u, class>>] = [tenant |-> session, active |-> TRUE]}

\* The class in the body is only looked at by the foreign key, to which no policy applies.  The
\* rows take the tenant of the enrolments.  That the fan-out fails, or is never asked for, changes
\* nothing of the announcement.
CreateAnnouncement(session, n, class, fanOut) ==
  /\ notes[n].state = "none"
  /\ notes' = [notes EXCEPT ![n] = [state |-> "there", tenant |-> session, class |-> class]]
  /\ \/ /\ fanOut
        /\ Insert(session, Audience(session, class), [u \in Readers |-> session], n)
     \/ UNCHANGED inbox
  /\ UNCHANGED enrolled
\* The notices it has been fanned out to stay.
DeleteAnnouncement(session, n) ==
  /\ notes[n].state = "there" /\ Sees(session, notes[n].tenant)
  /\ notes' = [notes EXCEPT ![n] = [Unposted EXCEPT !.state = "gone"]]
  /\ UNCHANGED <<enrolled, inbox>>

\* Only the rows of the caller, and of those only the ones of the caller's tenant, can be touched.
Mine(u, b) == b[1] = u /\ inbox[b].state # "none" /\ Sees(HomeOf(u), inbox[b].tenant)
MarkRead(u, subject) ==
  /\ Mine(u, <<u, subject>>)
  /\ inbox' = [inbox EXCEPT ![<<u, subject>>].state = "read"]
  /\ UNCHANGED <<enrolled, notes>>
MarkAllRead(u) ==
  /\ inbox' = [b \in Readers \X Subjects |-> IF Mine(u, b) THEN [inbox[b] EXCEPT !.state = "read"] ELSE inbox[b]]
  /\ UNCHANGED <<enrolled, notes>>
DeleteNotice(u, subject) ==
  /\ Mine(u, <<u, subject>>)
  /\ inbox' = [inbox EXCEPT ![<<u, subject>>] = NoNotice]
  /\ UNCHANGED <<enrolled, notes>>

\* POST /admin/enrollments takes any user and any class, the foreign keys ask for no more, and the
\* row is of the admin's tenant; a student's own POST is the case of the own tenant.  The row that
\* a user has in a class already is renewed, unless it is another tenant's, which the policy
\* refuses.
AdminEnroll(session, u, class) ==
  /\ enrolled[<<u, class>>].tenant \in {"none", session}
  /\ enrolled' = [enrolled EXCEPT ![<<u, class>>] = [tenant |-> session, active |-> TRUE]]
  /\ UNCHANGED <<notes, inbox>>

\* Cancelled by the user, or completed.
EndEnrolment(session, u, class) ==
  /\ Sees(session, enrolled[<<u, class>>].tenant)
  /\ enrolled' = [enrolled EXCEPT ![<<u, class>>].active = FALSE]
  /\ UNCHANGED <<notes, inbox>>

HandleAdminSend(session) == \E u \in Readers : Create(session, u)
HandleCreateAnnouncement(session) ==
  \E n \in Notes, class \in Classes \cup {"none"}, fanOut \in BOOLEAN : CreateAnnouncement(session, n, class, fanOut)
HandleMarkRead(u) == \E subject \in Subjects : MarkRead(u, subject)
HandleDelete(u) == \E subject \in Subjects : DeleteNotice(u, subject)

NoticeNext ==
  \/ \E session \in Homes :
       \/ HandleAdminSend(session) \/ HandleCreateAnnouncement(session)
       \/ \E n \in Notes : DeleteAnnouncement(session, n)
       \/ \E u \in Readers, class \in Classes : AdminEnroll(session, u, class) \/ EndEnrolment(session, u, class)
  \/ \E u \in Readers : HandleMarkRead(u) \/ MarkAllRead(u) \/ HandleDelete(u)

NoticeSpec == NoticeInit /\ [][NoticeNext]_noticeVars

-----------------------------------------------------------------------------
\* Whichever classes and users its requests name, a tenant is not read at another's: what a user
\* finds in the inbox, and only that, is from the user's own tenant, and what is sent to a single
\* user is found there (notifications/service.go:20-33).  A notice nobody finds is left over only
\* by a fan-out (notifications/service.go:99-117) to a user whom the sending tenant has enrolled
\* though the user is not one of its own (enrollments/handler.go:112-138): it stays, of the
\* sender's tenant and unread, where its user can neither see nor delete it.
NoticesStayHome ==
  \A b \in Readers \X Subjects : inbox[b].state # "none" =>
    /\ Mine(b[1], b) <=> inbox[b].sender = HomeOf(b[1])
    /\ ~Mine(b[1], b) => /\ b[2] \in Notes /\ inbox[b].state = "unread"
                         /\ \E class \in Classes : enrolled[<<b[1], class>>].tenant = inbox[b].sender
=============================================================================
