---------------------------- MODULE TestAttempts ----------------------------
(***************************************************************************)
(* A test, its questions, and the attempts of one student.  Answers are    *)
(* marked as they come in; handing in counts the right and the wrong ones  *)
(* and adds up the marks, in three queries, and writes the result to the   *)
(* attempt.  None of this is a transaction: answers, a second click on     *)
(* "submit" and the teacher who deletes a question come in between, and a  *)
(* query that fails leaves a zero where its answer belongs.                *)
(***************************************************************************)
EXTENDS Integers, FiniteSets

CONSTANTS
  Questions,   \* questions there is room for
  Attempts,    \* rows of test_attempts there is room for
  Sittings,    \* requests of the student in flight at one time
  Marks, NegativeMarks,  \* of every question
  MaxUnread              \* bound of the run: queries of hand-ins that fail

ASSUME AttemptAssumptions ==
  IsFiniteSet(Questions) /\ Marks \in Nat /\ NegativeMarks \in Nat /\ MaxUnread \in Nat

VARIABLES
  test,       \* the row of tests
  questions,  \* which rows of questions there are, and which there were
  attempts,
  answers,    \* rows of test_answers, per attempt and question
  sitting,    \* where each request is, and what it has read
  disturbed,  \* attempts that an answer or a teacher has overtaken, see Disturb
  unread      \* queries of hand-ins that have failed

attemptVars == <<test, questions, attempts, answers, sitting, disturbed, unread>>

Given == {"right", "wrong", "blank"}
Queries == {"correct", "wrong", "sum"}
\* A score is a set of one number, or {}, which is NULL.  failed: the queries whose error was
\* ignored when the result was made.
NoAttempt == [status |-> "none", total |-> 0, score |-> {0}, correct |-> 0, wrong |-> 0, skipped |-> 0,
              failed |-> {}]
NoSitting == [at |-> "idle", attempt |-> "none", question |-> "none", given |-> "blank", open |-> FALSE,
              correct |-> 0, wrong |-> 0, score |-> {}, failed |-> {}]

AttemptTypeOK ==
  /\ test \in {"none", "draft", "published", "gone"}
  /\ questions \in [Questions -> {"none", "there", "gone"}]
  /\ attempts \in [Attempts -> [status : {"none", "in_progress", "completed"}, total : Nat, score : SUBSET Int,
                                correct : Nat, wrong : Nat, skipped : Nat, failed : SUBSET Queries]]
  /\ answers \in [Attempts -> [Questions -> Given \cup {"none"}]]
  /\ sitting \in [Sittings -> [at : {"idle", "create", "upsert", "correct", "wrong", "sum", "write"},
                               attempt : Attempts \cup {"none"}, question : Questions \cup {"none"},
                               given : Given, open : BOOLEAN, correct : Nat, wrong : Nat, score : SUBSET Int,
                               failed : SUBSET Queries]]
  /\ disturbed \subseteq Attempts
  /\ unread \in 0 .. MaxUnread

NoAnswers == [q \in Questions |-> "none"]

AttemptInit ==
  /\ test = "none"
  /\ questions = [q \in Questions |-> "none"]
  /\ attempts = [a \in Attempts |-> NoAttempt]
  /\ answers = [a \in Attempts |-> NoAnswers]
  /\ sitting = [r \in Sittings |-> NoSitting]
  /\ disturbed = {}
  /\ unread = 0

-----------------------------------------------------------------------------
Exists == test \in {"draft", "published"}
There == {q \in Questions : questions[q] = "there"}

(* The teacher *)

CreateTest(state) ==
  /\ test = "none" /\ test' = state
  /\ UNCHANGED <<questions, attempts, answers, sitting, disturbed, unread>>

\* PUT overwrites is_published with what the body says, and PATCH /publish too.
UpdateTest(state) ==
  /\ Exists /\ test' = state
  /\ UNCHANGED <<questions, attempts, answers, sitting, disturbed, unread>>

\* The foreign keys take everything with it.
DeleteTest ==
  /\ Exists /\ test' = "gone"
  /\ questions' = [q \in Questions |-> "gone"]
  /\ attempts' = [a \in Attempts |-> NoAttempt]
  /\ answers' = [a \in Attempts |-> NoAnswers]
  /\ disturbed' = {}
  /\ UNCHANGED <<sitting, unread>>

CreateQuestion(q) ==
  /\ Exists /\ questions[q] = "none"
  /\ questions' = [questions EXCEPT ![q] = "there"]
  /\ UNCHANGED <<test, attempts, answers, sitting, disturbed, unread>>

\* The attempts an event at a question or an answer overtakes: those that are handed in, and
\* those that are being handed in.
Disturb(as) ==
  as \cap {a \in Attempts : attempts[a].status = "completed" \/ \E r \in Sittings :
             sitting[r].attempt = a /\ sitting[r].at \in {"wrong", "sum", "write"}}

\* The answers to it go with it.
DeleteQuestion(q) ==
  /\ q \in There
  /\ questions' = [questions EXCEPT ![q] = "gone"]
  /\ answers' = [a \in Attempts |-> [answers[a] EXCEPT ![q] = "none"]]
  /\ disturbed' = disturbed \cup Disturb(Attempts)
  /\ UNCHANGED <<test, attempts, sitting, unread>>

-----------------------------------------------------------------------------
(* The student *)

Idle(r) == sitting[r].at = "idle"
Finish(r) == sitting' = [sitting EXCEPT ![r] = NoSitting]
Ask(r, pc, a) == sitting' = [sitting EXCEPT ![r] = [NoSitting EXCEPT !.at = pc, !.attempt = a]]

\* StartAttempt finds no attempt in progress, and counts the questions.
StartAttempt(r) ==
  /\ Idle(r) /\ Exists
  /\ \A a \in Attempts : attempts[a].status # "in_progress"
  /\ sitting' = [sitting EXCEPT ![r] = [NoSitting EXCEPT !.at = "create", !.correct = Cardinality(There)]]
  /\ UNCHANGED <<test, questions, attempts, answers, disturbed, unread>>

\* The tenant is that of the test, and a test that is gone has none.
CreateTestAttempt(r) ==
  /\ sitting[r].at = "create"
  /\ IF ~Exists THEN UNCHANGED attempts
     ELSE \E a \in Attempts :
            /\ attempts[a].status = "none"
            /\ attempts' = [attempts EXCEPT ![a] = [NoAttempt EXCEPT !.status = "in_progress",
                                                                    !.total = sitting[r].correct]]
  /\ Finish(r)
  /\ UNCHANGED <<test, questions, answers, disturbed, unread>>

\* Mutant of Answerable: an attempt that has been handed in still takes answers.
AnswerableAlways(a) == attempts[a].status # "none"
Answerable(a) == attempts[a].status = "in_progress"

\* SubmitAnswer reads the attempt, the question and the option.
SubmitAnswer(r, a, q, given) ==
  /\ Idle(r) /\ Answerable(a) /\ q \in There
  /\ sitting' = [sitting EXCEPT ![r] = [NoSitting EXCEPT !.at = "upsert", !.attempt = a,
                                                        !.question = q, !.given = given,
                                                        !.open = attempts[a].status = "in_progress"]]
  /\ UNCHANGED <<test, questions, attempts, answers, disturbed, unread>>

\* The foreign keys refuse an answer whose attempt or question is gone.  It overtakes an
\* attempt that was in progress when SubmitAnswer looked and is not any more.
UpsertTestAnswer(r) ==
  /\ sitting[r].at = "upsert"
  /\ LET a == sitting[r].attempt
         q == sitting[r].question
     IN IF attempts[a].status # "none" /\ q \in There
        THEN /\ answers' = [answers EXCEPT ![a][q] = sitting[r].given]
             /\ disturbed' = IF sitting[r].open THEN disturbed \cup Disturb({a}) ELSE disturbed
        ELSE UNCHANGED <<answers, disturbed>>
  /\ Finish(r)
  /\ UNCHANGED <<test, questions, attempts, unread>>

\* SubmitAttempt looks at the owner, not at the status.
SubmitAttempt(r, a) ==
  /\ Idle(r) /\ attempts[a].status # "none"
  /\ Ask(r, "correct", a)
  /\ UNCHANGED <<test, questions, attempts, answers, disturbed, unread>>

\* An answer left blank is not correct.
Count(a, right) == Cardinality({q \in Questions : answers[a][q] # "none" /\ (answers[a][q] = "right") = right})
MarksObtained(answer) ==
  IF answer = "right" THEN Marks ELSE IF answer = "wrong" THEN -NegativeMarks ELSE 0
\* SUM(marks_obtained), the answers of one kind together; a question without an answer has no row.
MarksSum(a) ==
  LET of(kind) == Cardinality({q \in Questions : answers[a][q] = kind}) * MarksObtained(kind)
  IN of("right") + of("wrong") + of("blank")

\* SubmitAttempt ignores the error of each of the three queries and goes on with the zero it has.
Unread(r, query, next) ==
  /\ unread < MaxUnread /\ unread' = unread + 1
  /\ sitting' = [sitting EXCEPT ![r].at = next, ![r].failed = @ \cup {query}]

CountCorrectAnswers(r) ==
  /\ sitting[r].at = "correct"
  /\ \/ /\ sitting' = [sitting EXCEPT ![r].at = "wrong", ![r].correct = Count(sitting[r].attempt, TRUE)]
        /\ UNCHANGED unread
     \/ Unread(r, "correct", "wrong")
  /\ UNCHANGED <<test, questions, attempts, answers, disturbed>>

CountWrongAnswers(r) ==
  /\ sitting[r].at = "wrong"
  /\ \/ /\ sitting' = [sitting EXCEPT ![r].at = "sum", ![r].wrong = Count(sitting[r].attempt, FALSE)]
        /\ UNCHANGED unread
     \/ Unread(r, "wrong", "sum")
  /\ UNCHANGED <<test, questions, attempts, answers, disturbed>>

SumMarksForAttempt(r) ==
  /\ sitting[r].at = "sum"
  /\ \/ /\ sitting' = [sitting EXCEPT ![r].at = "write", ![r].score = {MarksSum(sitting[r].attempt)}]
        /\ UNCHANGED unread
     \/ Unread(r, "sum", "write")
  /\ UNCHANGED <<test, questions, attempts, answers, disturbed>>

Skipped(total, correct, wrong) == IF total < correct + wrong THEN 0 ELSE total - correct - wrong

SubmitTestAttempt(r) ==
  /\ sitting[r].at = "write"
  /\ LET a == sitting[r].attempt IN
       attempts' = IF attempts[a].status = "none" THEN attempts
         ELSE [attempts EXCEPT ![a] = [status |-> "completed", total |-> @.total, score |-> sitting[r].score,
                correct |-> sitting[r].correct, wrong |-> sitting[r].wrong,
                skipped |-> Skipped(@.total, sitting[r].correct, sitting[r].wrong),
                failed |-> sitting[r].failed]]
  /\ Finish(r)
  /\ UNCHANGED <<test, questions, answers, disturbed, unread>>

\* Any other statement fails, or the server stops: the request ends where it is.
StopSitting(r) ==
  /\ sitting[r].at # "idle" /\ Finish(r)
  /\ UNCHANGED <<test, questions, attempts, answers, disturbed, unread>>

-----------------------------------------------------------------------------
\* The routes: an id or a body that cannot be read, or that lacks something, changes nothing.
HandleCreateTest == \E state \in {"draft", "published"} : CreateTest(state)
HandleUpdateTest == \E state \in {"draft", "published"} : UpdateTest(state)
AdminSetPublished == \E state \in {"draft", "published"} : UpdateTest(state)
HandleQuestions == \E q \in Questions : CreateQuestion(q) \/ DeleteQuestion(q)
HandleStartAttempt == \E r \in Sittings : StartAttempt(r)
HandleSubmitAnswer ==
  \E r \in Sittings, a \in Attempts, q \in Questions, given \in Given : SubmitAnswer(r, a, q, given)
HandleSubmitAttempt == \E r \in Sittings, a \in Attempts : SubmitAttempt(r, a)

AttemptNext ==
  \/ HandleCreateTest \/ HandleUpdateTest \/ AdminSetPublished \/ DeleteTest \/ HandleQuestions
  \/ HandleStartAttempt \/ HandleSubmitAnswer \/ HandleSubmitAttempt
  \/ \E r \in Sittings :
       \/ CreateTestAttempt(r) \/ UpsertTestAnswer(r)
       \/ CountCorrectAnswers(r) \/ CountWrongAnswers(r) \/ SumMarksForAttempt(r) \/ SubmitTestAttempt(r)
       \/ StopSitting(r)

AttemptSpec == AttemptInit /\ [][AttemptNext]_attemptVars

-----------------------------------------------------------------------------
\* The result on the books is what the queries of its hand-in, as far as they were answered, find
\* in the answers on the books, however often and however concurrently the attempt is handed in:
\* only an answer that SubmitAnswer had let in before, or a question deleted since, sets them
\* apart.  A query that failed shows as a zero, or as an empty score (tests/service.go:326-328),
\* until the attempt is handed in again; it never brings the other two, or an earlier result, in.
ResultIsOfAnswers ==
  \A a \in Attempts : attempts[a].status = "completed" =>
    /\ attempts[a].correct + attempts[a].wrong + attempts[a].skipped >= attempts[a].total
    /\ a \notin disturbed =>
         /\ attempts[a].correct = IF "correct" \in attempts[a].failed THEN 0 ELSE Count(a, TRUE)
         /\ attempts[a].wrong = IF "wrong" \in attempts[a].failed THEN 0 ELSE Count(a, FALSE)
         /\ attempts[a].score = IF "sum" \in attempts[a].failed THEN {} ELSE {MarksSum(a)}
=============================================================================
