----------------------------- MODULE Enrolments -----------------------------
(***************************************************************************)
(* Courses with their approval, the batches they are taught in, and who is *)
(* enrolled.  A batch carries the number of its students in a column that  *)
(* a second statement raises after the row of the enrollment is stored;    *)
(* students cancel and enrol again and admins delete in between.           *)
(***************************************************************************)
EXTENDS Integers, FiniteSets, FiniteSetsExt

CONSTANTS
  Courses, Batches, Students,
  Enrolling,    \* enrolments in flight at one time
  MaxSeats,     \* bound of the run: a batch with as many students takes no more
  MaxSlips      \* bound of the run: statements that fail, and crashes

ASSUME EnrolmentAssumptions ==
  /\ IsFiniteSet(Students) /\ IsFiniteSet(Enrolling) /\ IsFiniteSet(Batches)
  /\ "none" \notin Batches
  /\ MaxSeats \in Nat /\ MaxSlips \in Nat

VARIABLES
  courses,      \* rows of courses
  batches,      \* rows of batches
  enrollments,  \* rows of enrollments, per student and course
  enrolling,    \* the batch whose students each request still has to count, or NoBatch
  slips         \* statements that failed, per batch

enrolmentVars == <<courses, batches, enrollments, enrolling, slips>>

NoBatch == "none"
NoRowYet == [status |-> "none", batch |-> NoBatch]
Unborn == [state |-> "none", published |-> FALSE, approval |-> "pending"]
Unformed == [state |-> "none", course |-> NoBatch, current |-> 0, active |-> FALSE]

EnrolmentTypeOK ==
  /\ courses \in [Courses -> [state : {"none", "there", "gone"}, published : BOOLEAN,
                              approval : {"pending", "approved", "rejected"}]]
  /\ batches \in [Batches -> [state : {"none", "there", "gone"}, course : Courses \cup {NoBatch},
                              current : Nat, active : BOOLEAN]]
  /\ enrollments \in [Students \X Courses -> [status : {"none", "active", "cancelled"},
                                              batch : Batches \cup {NoBatch}]]
  /\ enrolling \in [Enrolling -> Batches \cup {NoBatch}]
  /\ slips \in [Batches -> Nat]

EnrolmentInit ==
  /\ courses = [c \in Courses |-> Unborn]
  /\ batches = [b \in Batches |-> Unformed]
  /\ enrollments = [p \in Students \X Courses |-> NoRowYet]
  /\ enrolling = [r \in Enrolling |-> NoBatch]
  /\ slips = [b \in Batches |-> 0]

-----------------------------------------------------------------------------
(* Courses *)

Offered(c) == courses[c].state = "there"

CreateCourse(c, published) ==
  /\ courses[c].state = "none"
  /\ courses' = [courses EXCEPT ![c] = [Unborn EXCEPT !.state = "there", !.published = published]]
  /\ UNCHANGED <<batches, enrollments, enrolling, slips>>

\* The body says what is_published becomes, whatever became of the approval.
UpdateCourse(c, published) ==
  /\ Offered(c)
  /\ courses' = [courses EXCEPT ![c].published = published]
  /\ UNCHANGED <<batches, enrollments, enrolling, slips>>

\* A batch that goes leaves enrollments without one.
Unassign(gone) ==
  [p \in Students \X Courses |->
    IF enrollments[p].batch \in gone THEN [enrollments[p] EXCEPT !.batch = NoBatch] ELSE enrollments[p]]
Dissolve(gone) == [b \in Batches |-> IF b \in gone THEN [batches[b] EXCEPT !.state = "gone"] ELSE batches[b]]

\* Batches and enrollments of the course go with it.
DeleteCourse(c) ==
  /\ Offered(c)
  /\ LET gone == {b \in Batches : batches[b].course = c}
     IN /\ batches' = Dissolve(gone)
        /\ enrollments' = [p \in Students \X Courses |-> IF p[2] = c THEN NoRowYet ELSE Unassign(gone)[p]]
  /\ courses' = [courses EXCEPT ![c].state = "gone"]
  /\ UNCHANGED <<enrolling, slips>>

ApproveCourse(c) ==
  /\ Offered(c)
  /\ courses' = [courses EXCEPT ![c].approval = "approved", ![c].published = TRUE]
  /\ UNCHANGED <<batches, enrollments, enrolling, slips>>
RejectCourse(c) ==
  /\ Offered(c)
  /\ courses' = [courses EXCEPT ![c].approval = "rejected", ![c].published = FALSE]
  /\ UNCHANGED <<batches, enrollments, enrolling, slips>>

\* The routes: a body or an id that cannot be read changes nothing.
HandleCreateCourse(c) == \E published \in BOOLEAN : CreateCourse(c, published)
HandleUpdateCourse(c) == \E published \in BOOLEAN : UpdateCourse(c, published)
HandleApproval(c) == ApproveCourse(c) \/ RejectCourse(c)

-----------------------------------------------------------------------------
(* Batches *)

Taught(b) == batches[b].state = "there"

\* The tenant of the batch is that of its course, which therefore has to be there.
CreateBatch(b, c, active) ==
  /\ batches[b].state = "none" /\ Offered(c)
  /\ batches' = [batches EXCEPT ![b] = [state |-> "there", course |-> c, current |-> 0, active |-> active]]
  /\ UNCHANGED <<courses, enrollments, enrolling, slips>>

\* Neither its course nor the number of its students is in the body.
UpdateBatch(b, active) ==
  /\ Taught(b)
  /\ batches' = [batches EXCEPT ![b].active = active]
  /\ UNCHANGED <<courses, enrollments, enrolling, slips>>

DeleteBatch(b) ==
  /\ Taught(b)
  /\ batches' = Dissolve({b}) /\ enrollments' = Unassign({b})
  /\ UNCHANGED <<courses, enrolling, slips>>

HandleCreateBatch(b) == \E c \in Courses, active \in BOOLEAN : CreateBatch(b, c, active)
HandleUpdateBatch(b) == \E active \in BOOLEAN : UpdateBatch(b, active)

-----------------------------------------------------------------------------
(* Enrollments *)

Counting(b) == {r \in Enrolling : enrolling[r] = b}
Seats(b) == batches[b].current + slips[b] + Cardinality(Counting(b))

\* CreateEnrollment inserts, or makes the row there is active again and leaves its batch.
Enrolled(row, b) == [status |-> "active", batch |-> IF row.status = "none" THEN b ELSE row.batch]

\* The foreign keys ask for the course and the batch, not that the batch is one of the course;
\* neither max_students nor is_published is looked at.  The count comes with the next statement.
Enroll(r, s, c, b) ==
  /\ enrolling[r] = NoBatch /\ Offered(c)
  /\ b # NoBatch => Taught(b) /\ Seats(b) < MaxSeats
  /\ enrollments' = [enrollments EXCEPT ![<<s, c>>] = Enrolled(@, b)]
  /\ enrolling' = [enrolling EXCEPT ![r] = b]
  /\ UNCHANGED <<courses, batches, slips>>

IncrementBatchStudents(r) ==
  /\ enrolling[r] # NoBatch
  /\ batches' = IF Taught(enrolling[r]) THEN [batches EXCEPT ![enrolling[r]].current = @ + 1] ELSE batches
  /\ enrolling' = [enrolling EXCEPT ![r] = NoBatch]
  /\ UNCHANGED <<courses, enrollments, slips>>

\* The error of the count is not looked at, and a server that stops does not count.
Slip(r) ==
  /\ enrolling[r] # NoBatch /\ SumSet({slips[b] : b \in Batches}) < MaxSlips
  /\ slips' = [slips EXCEPT ![enrolling[r]] = @ + 1]
  /\ enrolling' = [enrolling EXCEPT ![r] = NoBatch]
  /\ UNCHANGED <<courses, batches, enrollments>>

\* Mutant of CancelEnrollment: the seat is given back, as DecrementBatchStudents would.
CancelGivesBack(s, c) ==
  /\ enrollments[<<s, c>>].status # "none"
  /\ enrollments' = [enrollments EXCEPT ![<<s, c>>].status = "cancelled"]
  /\ batches' = LET b == enrollments[<<s, c>>].batch IN
       IF b # NoBatch /\ enrollments[<<s, c>>].status = "active" /\ batches[b].current > 0
       THEN [batches EXCEPT ![b].current = @ - 1] ELSE batches
  /\ UNCHANGED <<courses, enrolling, slips>>
\* Mutant of CancelEnrollment: the same by an UPDATE that does not stop at 0.
CancelBelowZero(s, c) ==
  /\ enrollments[<<s, c>>].status # "none"
  /\ enrollments' = [enrollments EXCEPT ![<<s, c>>].status = "cancelled"]
  /\ batches' = LET b == enrollments[<<s, c>>].batch IN
       IF b # NoBatch THEN [batches EXCEPT ![b].current = @ - 1] ELSE batches
  /\ UNCHANGED <<courses, enrolling, slips>>
\* The seat in the batch stays counted.
CancelEnrollment(s, c) ==
  /\ enrollments[<<s, c>>].status # "none"
  /\ enrollments' = [enrollments EXCEPT ![<<s, c>>].status = "cancelled"]
  /\ UNCHANGED <<courses, batches, enrolling, slips>>

\* A student enrols himself with or without a batch; an admin may name any student.
HandleEnroll(r, s) == \E c \in Courses, b \in Batches \cup {NoBatch} : Enroll(r, s, c, b)
HandleAdminEnroll(r) == \E s \in Students, c \in Courses, b \in Batches \cup {NoBatch} : Enroll(r, s, c, b)

EnrolmentNext ==
  \/ \E c \in Courses : HandleCreateCourse(c) \/ HandleUpdateCourse(c) \/ HandleApproval(c) \/ DeleteCourse(c)
  \/ \E b \in Batches : HandleCreateBatch(b) \/ HandleUpdateBatch(b) \/ DeleteBatch(b)
  \/ \E r \in Enrolling, s \in Students : HandleEnroll(r, s)
  \/ \E r \in Enrolling : HandleAdminEnroll(r) \/ IncrementBatchStudents(r) \/ Slip(r)
  \/ \E s \in Students, c \in Courses : CancelEnrollment(s, c)

EnrolmentSpec == EnrolmentInit /\ [][EnrolmentNext]_enrolmentVars

-----------------------------------------------------------------------------
InBatch(b) == {p \in Students \X Courses : enrollments[p].status = "active" /\ enrollments[p].batch = b}

\* A batch never has more active students than it counts, up to the counts under way and those
\* that failed: whoever cancels, comes back without naming a batch and finds the old one in the
\* row is counted already, because Cancel gives no seat back (enrollments/service.go:22-37, 69-74).
NobodyUncounted == \A b \in Batches : Taught(b) => Cardinality(InBatch(b)) <= Seats(b)
=============================================================================
