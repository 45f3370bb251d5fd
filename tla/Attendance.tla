----------------------------- MODULE Attendance -----------------------------
(***************************************************************************)
(* The attendance of one student in one lecture.  The player reports when  *)
(* the student joined and how long was watched, teachers mark one student  *)
(* or a whole class, and all of them write one row.  Requests overlap and  *)
(* overtake each other: a report may arrive after a later one.             *)
(***************************************************************************)
EXTENDS Integers, FiniteSets

CONSTANTS
  Watched,              \* seconds a report may carry
  MinWatchedForAuto,    \* watched as long, a recording counts as attended
  MinWatchedForViewed,
  TeacherMarks,         \* statuses a teacher gives to one student
  MaxReports,           \* bound of the run: requests in flight
  MaxQRCodes            \* bound of the run: codes for the lecture

Statuses == {"present", "absent", "late", "excused", "viewed"}

ASSUME AttendanceAssumptions ==
  /\ Watched \subseteq Nat
  /\ MinWatchedForViewed \in Nat /\ MinWatchedForAuto \in Nat
  /\ TeacherMarks \subseteq Statuses
  /\ MaxReports \in Nat /\ MaxQRCodes \in Nat

VARIABLES
  lecture,      \* the row of lectures
  attendance,   \* the row of attendance
  reports,      \* requests that have been read and not yet stored
  qrCodes,      \* rows of class_qr_codes, by whether they have expired
  stored        \* what the requests that have been stored said, and the last mark of a teacher

attendanceVars == <<lecture, attendance, reports, qrCodes, stored>>

Joins == {"none", "early", "late"}
NoRow == [status |-> "none", join |-> "none", watched |-> 0, auto |-> FALSE, marked |-> FALSE]
NothingStored == [joins |-> {}, watched |-> {}, mark |-> "none"]

\* other: BulkMark stores any word it is given.
AttendanceTypeOK ==
  /\ lecture \in {"unscheduled", "scheduled", "gone"}
  /\ attendance \in [status : Statuses \cup {"none", "other"}, join : Joins, watched : Nat, auto : BOOLEAN, marked : BOOLEAN]
  /\ \A m \in reports : m.by \in {"player", "upsert", "teacher", "class"}
  /\ Cardinality(reports) <= MaxReports
  /\ qrCodes \in [live : Nat, expired : Nat]
  /\ stored \in [joins : SUBSET Joins, watched : SUBSET Nat, mark : Statuses \cup {"none", "other"}]

AttendanceInit ==
  /\ lecture \in {"unscheduled", "scheduled"}
  /\ attendance = NoRow
  /\ reports = {}
  /\ qrCodes = [live |-> 0, expired |-> 0]
  /\ stored = NothingStored

-----------------------------------------------------------------------------
Report(m) ==
  /\ Cardinality(reports) < MaxReports
  /\ reports' = reports \cup {m}
  /\ UNCHANGED <<lecture, attendance, qrCodes, stored>>

\* The handlers: what they pass on to the service.
HandleAutoMark(join, watched) ==
  Report([by |-> "player", join |-> join, watched |-> watched])
HandleManualMark(status) ==
  status \in TeacherMarks /\ Report([by |-> "teacher", status |-> status])
\* Of the items only those of this student matter; their statuses are not checked.
HandleBulkMark(status) ==
  Report([by |-> "class", status |-> status])

\* What a report says: a scheduled lecture goes by the time of joining, others by the time watched.
Derived(m) ==
  IF m.join # "none" /\ lecture = "scheduled" THEN IF m.join = "early" THEN "present" ELSE "late"
  ELSE IF m.watched >= MinWatchedForAuto THEN "present"
  ELSE IF m.watched >= MinWatchedForViewed THEN "viewed" ELSE "absent"

\* AutoMark reads the lecture.
AutoMark(m) ==
  /\ m \in reports /\ m.by = "player"
  /\ reports' = (reports \ {m}) \cup
       IF lecture = "gone" THEN {}
       ELSE {[by |-> "upsert", status |-> Derived(m), join |-> m.join, watched |-> m.watched,
              auto |-> TRUE, marked |-> FALSE]}
  /\ UNCHANGED <<lecture, attendance, qrCodes, stored>>

Larger(a, b) == IF a >= b THEN a ELSE b

\* Mutant of Merged: the later request wins, as if reports came in order.
Overwritten(row, m) ==
  [status |-> m.status, join |-> IF m.join = "none" THEN row.join ELSE m.join, watched |-> m.watched,
   auto |-> m.auto, marked |-> row.marked \/ m.marked]
\* UpsertAttendance: a value left out keeps the one there is, and time watched only grows.
Merged(row, m) ==
  [status |-> m.status, join |-> IF m.join = "none" THEN row.join ELSE m.join,
   watched |-> Larger(row.watched, m.watched),
   auto |-> m.auto, marked |-> row.marked \/ m.marked]

\* What is known then of the requests stored so far, in whatever order they came.
Noted(m) ==
  [joins |-> stored.joins \cup ({m.join} \ {"none"}), watched |-> stored.watched \cup {m.watched},
   mark |-> IF m.marked THEN m.status ELSE stored.mark]

\* The foreign key refuses a lecture that is gone.
Store(m) ==
  IF lecture = "gone" THEN UNCHANGED <<attendance, stored>>
  ELSE attendance' = Merged(attendance, m) /\ stored' = Noted(m)

UpsertAttendance(m) ==
  /\ m \in reports /\ m.by = "upsert"
  /\ Store(m) /\ reports' = reports \ {m}
  /\ UNCHANGED <<lecture, qrCodes>>

\* A teacher's mark says nothing of joining or watching.
Marked(m) == [by |-> "upsert", status |-> m.status, join |-> "none", watched |-> 0, auto |-> FALSE, marked |-> TRUE]

ManualMark(m) ==
  /\ m \in reports /\ m.by = "teacher"
  /\ Store(Marked(m)) /\ reports' = reports \ {m}
  /\ UNCHANGED <<lecture, qrCodes>>

\* BulkMark goes on after an item that fails: the student's may be one of these.
BulkMark(m) ==
  /\ m \in reports /\ m.by = "class"
  /\ Store(Marked(m)) \/ UNCHANGED <<attendance, stored>>
  /\ reports' = reports \ {m}
  /\ UNCHANGED <<lecture, qrCodes>>

CreateQRCode ==
  /\ lecture # "gone" /\ qrCodes.live + qrCodes.expired < MaxQRCodes
  /\ qrCodes' = [qrCodes EXCEPT !.live = @ + 1]
  /\ UNCHANGED <<lecture, attendance, reports, stored>>

\* POST /attendance/qr/:lecture_id; a check-in with the code never arrives, because the route
\* of this handler is registered first and takes it.
HandleCreateQRCode == CreateQRCode

QRCodeExpires ==
  /\ qrCodes.live > 0
  /\ qrCodes' = [live |-> qrCodes.live - 1, expired |-> qrCodes.expired + 1]
  /\ UNCHANGED <<lecture, attendance, reports, stored>>

\* Teachers plan the lecture anew, or delete it, which the foreign keys pass on.
RescheduleLecture ==
  /\ lecture # "gone" /\ lecture' \in {"unscheduled", "scheduled"}
  /\ UNCHANGED <<attendance, reports, qrCodes, stored>>
DeleteAttendedLecture ==
  /\ lecture # "gone" /\ lecture' = "gone"
  /\ attendance' = NoRow /\ stored' = NothingStored /\ qrCodes' = [live |-> 0, expired |-> 0]
  /\ UNCHANGED reports

\* A statement fails, or the server stops, with the request.
LoseReport(m) ==
  /\ m \in reports /\ reports' = reports \ {m}
  /\ UNCHANGED <<lecture, attendance, qrCodes, stored>>

AttendanceNext ==
  \/ \E join \in Joins, watched \in Watched : HandleAutoMark(join, watched)
  \/ \E status \in Statuses : HandleManualMark(status)
  \/ \E status \in {"absent", "other"} : HandleBulkMark(status)
  \/ \E m \in reports : AutoMark(m) \/ UpsertAttendance(m) \/ ManualMark(m) \/ BulkMark(m) \/ LoseReport(m)
  \/ HandleCreateQRCode \/ QRCodeExpires \/ RescheduleLecture \/ DeleteAttendedLecture

AttendanceSpec == AttendanceInit /\ [][AttendanceNext]_attendanceVars

-----------------------------------------------------------------------------
\* The row is that of all the requests stored so far, whatever order they came in: the time watched
\* is the longest any of them told of, a join is known when one of them told of it and is one they
\* told of, and that a teacher marked the student stays known.  When the student joined, and the
\* status, are those of the request that came last (sql/queries/attendance.sql:7-12): a report that
\* was late takes the place of a teacher's mark, but then the row says that its status is the
\* player's; a status it does not say this of is the last that a teacher gave.
EvidenceStays ==
  /\ attendance.watched \in stored.watched \cup {0}
  /\ \A seconds \in stored.watched : seconds <= attendance.watched
  /\ IF stored.joins = {} THEN attendance.join = "none" ELSE attendance.join \in stored.joins
  /\ attendance.marked <=> stored.mark # "none"
  /\ attendance.auto \/ attendance.status = stored.mark
=============================================================================
