------------------------------ MODULE Homework ------------------------------
(***************************************************************************)
(* What teachers find on their desks: the assignment a student handed in,  *)
(* to be graded, and the doubts students ask, to be answered by a teacher  *)
(* or by a language model.  A doubt and its answer are separate rows with  *)
(* a status that follows; students hand in again while teachers grade, and *)
(* teachers delete while either goes on.                                   *)
(***************************************************************************)
EXTENDS Integers, FiniteSets

CONSTANTS
  Texts,      \* what a student hands in
  Doubts,     \* rows of doubts there is room for
  MaxDesk,    \* bound of the run: requests in flight
  MaxUpsets   \* bound of the run: statements that fail, and crashes

ASSUME HomeworkAssumptions == MaxDesk \in Nat /\ MaxUpsets \in Nat

VARIABLES
  assignment,  \* the row of assignments
  submission,  \* the row of assignment_submissions of one student
  doubts,      \* rows of doubts
  replies,     \* rows of doubt_answers of each doubt, by who answered and whether it is accepted
  desk,        \* requests that have been read and are not done
  upsets

homeworkVars == <<assignment, submission, doubts, replies, desk, upsets>>

NoSubmission == [status |-> "none", text |-> "none", file |-> "none", graded |-> "none", crossed |-> FALSE]
Parts == {"submit", "grade", "ask", "model", "reply", "close", "accept"}

HomeworkTypeOK ==
  /\ assignment \in {"none", "draft", "published", "gone"}
  \* graded: the text the teacher had read who gave the marks there are; crossed: a hand-in came
  \* between
  /\ submission \in [status : {"none", "submitted", "graded"}, text : Texts \cup {"none"},
                     file : {"none", "file"}, graded : Texts \cup {"none"}, crossed : BOOLEAN]
  /\ doubts \in [Doubts -> {"none", "pending", "answered", "gone"}]
  /\ replies \in [Doubts -> SUBSET [by : {"model", "teacher"}, accepted : BOOLEAN]]
  /\ \A m \in desk : m.at \in Parts
  /\ Cardinality(desk) <= MaxDesk
  /\ upsets \in 0 .. MaxUpsets

HomeworkInit ==
  /\ assignment = "none" /\ submission = NoSubmission
  /\ doubts = [d \in Doubts |-> "none"] /\ replies = [d \in Doubts |-> {}]
  /\ desk = {} /\ upsets = 0

-----------------------------------------------------------------------------
Posted == assignment \in {"draft", "published"}
Receive(m) == Cardinality(desk) < MaxDesk /\ desk' = desk \cup {m}
Put(m, n) == desk' = (desk \ {m}) \cup {n}
Clear(m) == desk' = desk \ {m}

\* A statement fails or the server stops: the request ends where it is.
Upset(m) ==
  /\ m \in desk /\ upsets < MaxUpsets
  /\ upsets' = upsets + 1 /\ Clear(m)
  /\ UNCHANGED <<assignment, submission, doubts, replies>>

(* Assignments *)

CreateAssignment(state) ==
  /\ assignment = "none" /\ assignment' = state
  /\ UNCHANGED <<submission, doubts, replies, desk, upsets>>

\* The body says what is_published becomes.
UpdateAssignment(state) ==
  /\ Posted /\ assignment' = state
  /\ UNCHANGED <<submission, doubts, replies, desk, upsets>>

\* The foreign key takes the submission with it.
DeleteAssignment ==
  /\ Posted /\ assignment' = "gone" /\ submission' = NoSubmission
  /\ UNCHANGED <<doubts, replies, desk, upsets>>

\* POST /assignments/submit: the body is read.
HandleSubmit(text, file) ==
  /\ Receive([at |-> "submit", text |-> text, file |-> file])
  /\ UNCHANGED <<assignment, submission, doubts, replies, upsets>>
\* The teacher reads the submission in a list, and comes to marks for what it says now; POST
\* /assignments/submissions/:id/grade carries these, but not what they are for.
HandleGrade ==
  /\ submission.status # "none"
  /\ Receive([at |-> "grade", read |-> submission.text, crossed |-> FALSE])
  /\ UNCHANGED <<assignment, submission, doubts, replies, upsets>>

\* Mutant of Reopened: one that has been graded stays so.
StillGraded(m) ==
  [submission EXCEPT !.text = m.text, !.file = IF m.file = "none" THEN @ ELSE m.file,
                     !.status = IF @ = "graded" THEN @ ELSE "submitted"]
\* A submission handed in again keeps its marks and a file it leaves out, and is not graded.
Reopened(m) ==
  [submission EXCEPT !.text = m.text, !.file = IF m.file = "none" THEN @ ELSE m.file, !.status = "submitted"]
\* What teachers have read is not any more what is there.
Overtaken(ms) == {IF n.at = "grade" THEN [n EXCEPT !.crossed = TRUE] ELSE n : n \in ms}

\* The tenant is that of the assignment, and one that is gone has none; neither its due date
\* nor is_published is looked at.
SubmitAssignment(m) ==
  /\ m \in desk /\ m.at = "submit"
  /\ IF Posted THEN submission' = Reopened(m) /\ desk' = Overtaken(desk \ {m})
     ELSE UNCHANGED submission /\ Clear(m)
  /\ UNCHANGED <<assignment, doubts, replies, upsets>>

\* The row is looked at by its id alone: it is graded whatever it says by now.
GradeSubmission(m) ==
  /\ m \in desk /\ m.at = "grade"
  /\ submission' = IF submission.status = "none" THEN submission
       ELSE [submission EXCEPT !.status = "graded", !.graded = m.read, !.crossed = m.crossed]
  /\ Clear(m)
  /\ UNCHANGED <<assignment, doubts, replies, upsets>>

-----------------------------------------------------------------------------
(* Doubts *)

\* POST /doubts and POST /doubts/answer: the bodies are read.
HandleAsk(d, useAI) ==
  /\ doubts[d] = "none" /\ (\A m \in desk : m.at = "ask" => m.doubt # d)
  /\ Receive([at |-> "ask", doubt |-> d, useAI |-> useAI])
  /\ UNCHANGED <<assignment, submission, doubts, replies, upsets>>
HandleInstructorAnswer(d) ==
  /\ doubts[d] # "none" /\ Receive([at |-> "reply", doubt |-> d, by |-> "teacher"])
  /\ UNCHANGED <<assignment, submission, doubts, replies, upsets>>

\* Ask stores the doubt, and asks the model if there is one and the student wants it.
CreateDoubt(m) ==
  /\ m \in desk /\ m.at = "ask"
  /\ doubts' = [doubts EXCEPT ![m.doubt] = "pending"]
  /\ IF m.useAI THEN Put(m, [at |-> "model", doubt |-> m.doubt]) ELSE Clear(m)
  /\ UNCHANGED <<assignment, submission, replies, upsets>>

\* An error of the model leaves the doubt to the teachers.
AiAnswer(m) ==
  /\ m \in desk /\ m.at = "model"
  /\ \/ Put(m, [at |-> "reply", doubt |-> m.doubt, by |-> "model"])
     \/ Clear(m)
  /\ UNCHANGED <<assignment, submission, doubts, replies, upsets>>

\* The tenant is that of the doubt, and one that is gone has none.
Replies(m) ==
  /\ doubts[m.doubt] # "gone"
  /\ replies' = [replies EXCEPT ![m.doubt] = @ \cup {[by |-> m.by, accepted |-> FALSE]}]
  /\ UNCHANGED doubts

CreateDoubtAnswer(m) ==
  /\ m \in desk /\ m.at = "reply"
  /\ \/ Replies(m) /\ Put(m, [at |-> "close", doubt |-> m.doubt])
     \/ doubts[m.doubt] = "gone" /\ Clear(m) /\ UNCHANGED <<doubts, replies>>
  /\ UNCHANGED <<assignment, submission, upsets>>

\* Its error is ignored, see Upset.
UpdateDoubtStatus(m) ==
  /\ m \in desk /\ m.at = "close"
  /\ doubts' = [doubts EXCEPT ![m.doubt] = IF @ = "gone" THEN @ ELSE "answered"]
  /\ Clear(m)
  /\ UNCHANGED <<assignment, submission, replies, upsets>>

\* POST /doubts/answers/:id/accept; nothing is undone when another is accepted.
Accepted(rows, by) == {[a EXCEPT !.accepted = @ \/ a.by = by] : a \in rows}
AcceptDoubtAnswer(d, by) ==
  /\ \E a \in replies[d] : a.by = by
  /\ replies' = [replies EXCEPT ![d] = Accepted(replies[d], by)]
  /\ UNCHANGED <<assignment, submission, doubts, desk, upsets>>

\* DELETE /doubts/:id; the foreign key takes the answers with it.
DeleteDoubt(d) ==
  /\ doubts[d] \in {"pending", "answered"}
  /\ doubts' = [doubts EXCEPT ![d] = "gone"] /\ replies' = [replies EXCEPT ![d] = {}]
  /\ UNCHANGED <<assignment, submission, desk, upsets>>

\* The routes of the teacher: an id or a body that cannot be read changes nothing.
HandleCreateAssignment == \E state \in {"draft", "published"} : CreateAssignment(state)
HandleUpdateAssignment == \E state \in {"draft", "published"} : UpdateAssignment(state)

HomeworkNext ==
  \/ HandleCreateAssignment \/ HandleUpdateAssignment \/ DeleteAssignment
  \/ \E text \in Texts, file \in {"none", "file"} : HandleSubmit(text, file)
  \/ HandleGrade
  \/ \E d \in Doubts :
       \/ HandleInstructorAnswer(d) \/ DeleteDoubt(d)
       \/ \E useAI \in BOOLEAN : HandleAsk(d, useAI)
       \/ \E by \in {"model", "teacher"} : AcceptDoubtAnswer(d, by)
  \/ \E m \in desk :
       \/ SubmitAssignment(m) \/ GradeSubmission(m) \/ CreateDoubt(m) \/ AiAnswer(m)
       \/ CreateDoubtAnswer(m) \/ UpdateDoubtStatus(m) \/ Upset(m)

HomeworkSpec == HomeworkInit /\ [][HomeworkNext]_homeworkVars

-----------------------------------------------------------------------------
\* The lists teachers work from lose nothing, whatever fails and whoever hands in again, answers
\* or deletes in between.  What is not in GET /doubts/pending has been answered.  What GET
\* /assignments/:id/submissions calls graded was graded for what it says, unless it was handed in
\* again while the teacher was at it, between reading and sending the marks: as GradeSubmission
\* does not ask what the marks are for (assignments/service.go:153-158), that work goes unread.
DoubtsAreAnswered == \A d \in Doubts : doubts[d] = "answered" => replies[d] # {}
GradeIsOfThisWork ==
  submission.status = "graded" => Posted /\ (submission.graded = submission.text \/ submission.crossed)

NothingSlipsOffTheDesk == DoubtsAreAnswered /\ GradeIsOfThisWork
=============================================================================
