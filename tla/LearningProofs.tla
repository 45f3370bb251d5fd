--------------------------- MODULE LearningProofs ---------------------------
(***************************************************************************)
(* Proofs about what is taught and learned: tests (TestAttempts), homework *)
(* (Homework), seats in batches (Enrolments), progress in lectures         *)
(* (Curriculum), presence (Attendance), the devices of those who are told  *)
(* about it (Devices), their files (Media) and what they are told          *)
(* (Noticeboard), for any number of students, requests and rows.           *)
(*                                                                         *)
(* What a request has read and not yet used is part of every invariant: the *)
(* marks that a submission has counted and not yet written, the place that *)
(* an enrolment has made and not yet counted, the devices that a launch has *)
(* counted and not yet added to.  Bounds are by counting such requests.    *)
(***************************************************************************)
EXTENDS TestAttempts, Homework, Enrolments, Curriculum, Attendance, Devices, Media, Noticeboard,
  TLAPS, FiniteSetTheorems, SequenceTheorems

-----------------------------------------------------------------------------
(* Attempts at tests *)

AttemptRows == [status : {"none", "in_progress", "completed"}, total : Nat, score : SUBSET Int,
                correct : Nat, wrong : Nat, skipped : Nat, failed : SUBSET Queries]
SittingRows == [at : {"idle", "create", "upsert", "correct", "wrong", "sum", "write"},
                attempt : Attempts \cup {"none"}, question : Questions \cup {"none"},
                given : Given, open : BOOLEAN, correct : Nat, wrong : Nat, score : SUBSET Int, failed : SUBSET Queries]
HandingIn == {"correct", "wrong", "sum", "write"}
Summing == {"wrong", "sum", "write"}

\* What a query returns, or the zero that is there when its error is ignored.
RightOf(a, failed) == IF "correct" \in failed THEN 0 ELSE Count(a, TRUE)
WrongOf(a, failed) == IF "wrong" \in failed THEN 0 ELSE Count(a, FALSE)
SumOf(a, failed) == IF "sum" \in failed THEN {} ELSE {MarksSum(a)}

\* What the attempt says is what its answers say.
OfItsAnswers(a) ==
  attempts[a].status = "completed" =>
    /\ attempts[a].correct + attempts[a].wrong + attempts[a].skipped >= attempts[a].total
    /\ a \notin disturbed =>
         /\ attempts[a].correct = RightOf(a, attempts[a].failed)
         /\ attempts[a].wrong = WrongOf(a, attempts[a].failed)
         /\ attempts[a].score = SumOf(a, attempts[a].failed)

\* What a request has read so far is what the answers still say.
ReadOf(r, a) ==
  /\ sitting[r].at \in Summing => sitting[r].correct = RightOf(a, sitting[r].failed)
  /\ sitting[r].at \in {"sum", "write"} => sitting[r].wrong = WrongOf(a, sitting[r].failed)
  /\ sitting[r].at = "write" => sitting[r].score = SumOf(a, sitting[r].failed)

\* What a request has not read yet is zero.
Unasked(s) ==
  /\ s.at = "correct" => s.correct = 0 /\ "correct" \notin s.failed
  /\ s.at \in {"correct", "wrong"} => s.wrong = 0 /\ "wrong" \notin s.failed
  /\ s.at \in {"correct", "wrong", "sum"} => s.score = {} /\ "sum" \notin s.failed

SittingInv(r) ==
  /\ Unasked(sitting[r])
  /\ sitting[r].at = "upsert" =>
       sitting[r].attempt \in Attempts /\ sitting[r].question \in Questions /\ sitting[r].open
  /\ sitting[r].at \in HandingIn =>
       sitting[r].attempt \in Attempts /\ (attempts[sitting[r].attempt].status # "none" \/ test = "gone")
  /\ sitting[r].at \in Summing =>
       \A a \in Attempts : sitting[r].attempt = a /\ attempts[a].status # "none" /\ a \notin disturbed => ReadOf(r, a)

AttemptInv ==
  /\ AttemptTypeOK
  /\ test = "gone" => \A a \in Attempts : attempts[a].status = "none"
  /\ \A r \in Sittings : SittingInv(r)
  /\ \A a \in Attempts : OfItsAnswers(a)

LEMMA AttemptTypes ==
  AttemptTypeOK <=>
    /\ test \in {"none", "draft", "published", "gone"}
    /\ questions \in [Questions -> {"none", "there", "gone"}]
    /\ attempts \in [Attempts -> AttemptRows]
    /\ answers \in [Attempts -> [Questions -> Given \cup {"none"}]]
    /\ sitting \in [Sittings -> SittingRows]
    /\ disturbed \subseteq Attempts
    /\ unread \in 0 .. MaxUnread
BY DEF AttemptTypeOK, AttemptRows, SittingRows

LEMMA NoRows == NoAttempt \in AttemptRows /\ NoSitting \in SittingRows /\ Unasked(NoSitting)
BY DEF Unasked, NoAttempt, NoSitting, AttemptRows, SittingRows, Given

\* What Count and MarksSum return.
LEMMA CountsAreNumbers ==
  ASSUME NEW a \in Attempts
  PROVE  /\ \A right \in BOOLEAN : Count(a, right) \in Nat
         /\ MarksSum(a) \in Int
<1>1. \A kind \in Given : Cardinality({q \in Questions : answers[a][q] = kind}) \in Nat
  <2> TAKE kind \in Given
  <2>1. {q \in Questions : answers[a][q] = kind} \subseteq Questions
      OBVIOUS
  <2> QED  BY <2>1, FS_Subset, FS_CardinalityType, AttemptAssumptions
<1>2. ASSUME NEW right \in BOOLEAN PROVE Count(a, right) \in Nat
  <2>1. {q \in Questions : answers[a][q] # "none" /\ (answers[a][q] = "right") = right} \subseteq Questions
      OBVIOUS
  <2> QED  BY <2>1, FS_Subset, FS_CardinalityType, AttemptAssumptions DEF Count
<1>3. \A kind \in Given : MarksObtained(kind) \in Int
    BY AttemptAssumptions DEF MarksObtained, Given
<1>4. \A n \in Nat, m \in Int : n * m \in Int
    OBVIOUS
<1>5. /\ Cardinality({q \in Questions : answers[a][q] = "right"}) * MarksObtained("right") \in Int
      /\ Cardinality({q \in Questions : answers[a][q] = "wrong"}) * MarksObtained("wrong") \in Int
      /\ Cardinality({q \in Questions : answers[a][q] = "blank"}) * MarksObtained("blank") \in Int
  <2>1. "right" \in Given /\ "wrong" \in Given /\ "blank" \in Given
      BY DEF Given
  <2> QED  BY <1>1, <1>3, <1>4, <2>1
<1>6. MarksSum(a) \in Int
  <2> DEFINE x == Cardinality({q \in Questions : answers[a][q] = "right"}) * MarksObtained("right")
             y == Cardinality({q \in Questions : answers[a][q] = "wrong"}) * MarksObtained("wrong")
             z == Cardinality({q \in Questions : answers[a][q] = "blank"}) * MarksObtained("blank")
  <2>1. MarksSum(a) = x + y + z
      BY DEF MarksSum
  <2>2. x \in Int /\ y \in Int /\ z \in Int
      BY <1>5
  <2> HIDE DEF x, y, z
  <2> QED  BY <2>1, <2>2
<1> QED  BY <1>2, <1>6

\* An attempt whose answers are left alone counts and sums up as before.
LEMMA SameAnswers ==
  ASSUME NEW a \in Attempts, answers'[a] = answers[a]
  PROVE  /\ Count(a, TRUE)' = Count(a, TRUE) /\ Count(a, FALSE)' = Count(a, FALSE) /\ MarksSum(a)' = MarksSum(a)
         /\ \A failed : /\ RightOf(a, failed)' = RightOf(a, failed) /\ WrongOf(a, failed)' = WrongOf(a, failed)
                        /\ SumOf(a, failed)' = SumOf(a, failed)
<1>1. Count(a, TRUE)' = Count(a, TRUE) /\ Count(a, FALSE)' = Count(a, FALSE) /\ MarksSum(a)' = MarksSum(a)
    BY DEF Count, MarksSum, MarksObtained
<1> QED  BY <1>1 DEF RightOf, WrongOf, SumOf

LEMMA AttemptStart == AttemptInit => AttemptInv
<1> SUFFICES ASSUME AttemptInit PROVE AttemptInv
    OBVIOUS
<1>1. AttemptTypeOK
    BY NoRows, AttemptTypes, AttemptAssumptions DEF AttemptInit, NoAnswers, Given
<1> QED  BY <1>1 DEF AttemptInit, AttemptInv, SittingInv, OfItsAnswers, NoAttempt, NoSitting, Unasked, HandingIn, Summing

\* The test and its questions are what a step of the teacher changes.
LEMMA TeacherMoves ==
  ASSUME AttemptInv, AttemptTypeOK', test' # "gone", test # "gone", UNCHANGED <<attempts, answers, sitting, disturbed>>
  PROVE  AttemptInv'
<1>1. ASSUME NEW r \in Sittings PROVE SittingInv(r)'
  <2>1. \A a \in Attempts : ReadOf(r, a)' <=> ReadOf(r, a)
      BY SameAnswers DEF ReadOf
  <2> QED  BY <2>1 DEF SittingInv, AttemptInv, Unasked
<1>2. ASSUME NEW a \in Attempts PROVE OfItsAnswers(a)'
    BY SameAnswers DEF OfItsAnswers, AttemptInv
<1> QED  BY <1>1, <1>2 DEF AttemptInv

LEMMA TeacherSteps ==
  ASSUME AttemptInv,
         \/ HandleCreateTest \/ HandleUpdateTest \/ AdminSetPublished
         \/ \E q \in Questions : CreateQuestion(q)
  PROVE  AttemptInv'
<1>1. /\ test # "gone" /\ test' \in {"draft", "published"}
      /\ questions' \in [Questions -> {"none", "there", "gone"}]
      /\ UNCHANGED <<attempts, answers, sitting, disturbed, unread>>
    BY AttemptTypes DEF AttemptInv, HandleCreateTest, HandleUpdateTest, AdminSetPublished, CreateTest,
       UpdateTest, CreateQuestion, Exists
<1>2. AttemptTypeOK'
    BY <1>1, AttemptTypes DEF AttemptInv, AttemptTypeOK
<1>3. test' # "gone"
    BY <1>1
<1> QED  BY <1>1, <1>2, <1>3, TeacherMoves

LEMMA DeleteTestStep ==
  ASSUME AttemptInv, DeleteTest
  PROVE  AttemptInv'
<1>1. AttemptTypeOK'
  <2>1. attempts' \in [Attempts -> AttemptRows]
      BY NoRows DEF DeleteTest
  <2>2. answers' \in [Attempts -> [Questions -> Given \cup {"none"}]]
      BY DEF DeleteTest, NoAnswers
  <2>3. questions' \in [Questions -> {"none", "there", "gone"}] /\ test' = "gone" /\ disturbed' = {}
      BY DEF DeleteTest
  <2>4. sitting' \in [Sittings -> SittingRows] /\ unread' \in 0 .. MaxUnread
      BY AttemptTypes DEF DeleteTest, AttemptInv
  <2> QED  BY <2>1, <2>2, <2>3, <2>4 DEF AttemptTypeOK, AttemptRows, SittingRows
<1>2. test' = "gone" /\ UNCHANGED sitting /\ \A a \in Attempts : attempts'[a].status = "none"
    BY DEF DeleteTest, NoAttempt
<1>3. \A r \in Sittings : SittingInv(r)'
    BY <1>2 DEF SittingInv, AttemptInv, Unasked
<1>4. \A a \in Attempts : OfItsAnswers(a)'
    BY <1>2 DEF OfItsAnswers
<1> QED  BY <1>1, <1>2, <1>3, <1>4 DEF AttemptInv

\* Answers change: an attempt keeps its answers, or is disturbed if anybody has read them.
LEMMA AnswersChange ==
  ASSUME AttemptInv, AttemptTypeOK', UNCHANGED <<test, attempts>>, disturbed \subseteq disturbed',
         \A a \in Attempts : answers'[a] = answers[a] \/ Disturb({a}) \subseteq disturbed',
         \A r \in Sittings : sitting'[r] = sitting[r] \/ sitting'[r] = NoSitting
  PROVE  AttemptInv'
<1>1. ASSUME NEW r \in Sittings PROVE SittingInv(r)'
  <2>1. CASE sitting'[r] = NoSitting
      BY <2>1 DEF SittingInv, NoSitting, Unasked, HandingIn, Summing
  <2>2. CASE sitting'[r] = sitting[r]
    <3>1. ASSUME NEW a \in Attempts, sitting[r].attempt = a, sitting[r].at \in Summing,
                 attempts[a].status # "none", a \notin disturbed'
          PROVE  ReadOf(r, a)'
      <4>1. a \notin disturbed /\ ReadOf(r, a)
          BY <3>1 DEF AttemptInv, SittingInv
      <4>2. CASE answers'[a] = answers[a]
          BY <4>1, <4>2, <2>2, SameAnswers DEF ReadOf
      <4>3. CASE Disturb({a}) \subseteq disturbed'
          BY <4>3, <3>1 DEF Disturb, Summing
      <4> QED  BY <4>2, <4>3
    <3>2. SittingInv(r)
        BY DEF AttemptInv
    <3>3. /\ sitting'[r].at \in Summing =>
               \A a \in Attempts : sitting'[r].attempt = a /\ attempts'[a].status # "none" /\ a \notin disturbed' =>
                  ReadOf(r, a)'
        BY <3>1, <2>2
    <3> QED  BY <3>2, <3>3, <2>2 DEF SittingInv, Unasked
  <2> QED  BY <2>1, <2>2
<1>2. ASSUME NEW a \in Attempts PROVE OfItsAnswers(a)'
  <2>1. CASE answers'[a] = answers[a]
      BY <2>1, SameAnswers DEF OfItsAnswers, AttemptInv
  <2>2. CASE Disturb({a}) \subseteq disturbed'
      BY <2>2 DEF Disturb, OfItsAnswers, AttemptInv
  <2> QED  BY <2>1, <2>2
<1> QED  BY <1>1, <1>2 DEF AttemptInv

LEMMA DeleteQuestionStep ==
  ASSUME AttemptInv, NEW q \in Questions, DeleteQuestion(q)
  PROVE  AttemptInv'
<1>1. disturbed' = disturbed \cup Disturb(Attempts) /\ UNCHANGED <<test, attempts, sitting, unread>>
    BY DEF DeleteQuestion
<1>2. disturbed \subseteq disturbed' /\ \A a \in Attempts : Disturb({a}) \subseteq disturbed'
    BY <1>1 DEF Disturb
<1>3. AttemptTypeOK'
  <2>1. answers' \in [Attempts -> [Questions -> Given \cup {"none"}]]
      BY AttemptTypes DEF DeleteQuestion, AttemptInv
  <2>2. questions' \in [Questions -> {"none", "there", "gone"}]
      BY AttemptTypes DEF DeleteQuestion, AttemptInv
  <2>3. disturbed' \subseteq Attempts
      BY <1>1, AttemptTypes DEF Disturb, AttemptInv
  <2> QED  BY <1>1, <2>1, <2>2, <2>3 DEF AttemptTypeOK, AttemptInv
<1> QED  BY <1>1, <1>2, <1>3, AnswersChange

LEMMA UpsertTestAnswerStep ==
  ASSUME AttemptInv, NEW r \in Sittings, UpsertTestAnswer(r)
  PROVE  AttemptInv'
<1>1. PICK a \in Attempts, q \in Questions, given \in Given :
        sitting[r].attempt = a /\ sitting[r].question = q /\ sitting[r].given = given /\ sitting[r].open
  <2>1. sitting[r].at = "upsert" /\ sitting[r] \in SittingRows
      BY AttemptTypes DEF UpsertTestAnswer, AttemptInv
  <2>2. sitting[r].attempt \in Attempts /\ sitting[r].question \in Questions /\ sitting[r].open
      BY <2>1 DEF AttemptInv, SittingInv
  <2>3. sitting[r].given \in Given
      BY <2>1 DEF SittingRows
  <2> QED  BY <2>2, <2>3
<1>2. sitting' = [sitting EXCEPT ![r] = NoSitting] /\ UNCHANGED <<test, attempts, questions, unread>>
    BY DEF UpsertTestAnswer, Finish
<1>3. \A x \in Sittings : sitting'[x] = IF x = r THEN NoSitting ELSE sitting[x]
    BY <1>2, AttemptTypes DEF AttemptInv
<1>4. \/ UNCHANGED <<answers, disturbed>>
      \/ answers' = [answers EXCEPT ![a][q] = given] /\ disturbed' = disturbed \cup Disturb({a})
    BY <1>1 DEF UpsertTestAnswer
<1>5. disturbed \subseteq disturbed' /\ disturbed' \subseteq Attempts
    BY <1>4, AttemptTypes DEF Disturb, AttemptInv
<1>6. answers' \in [Attempts -> [Questions -> Given \cup {"none"}]]
    BY <1>4, AttemptTypes DEF AttemptInv
<1>7. AttemptTypeOK'
  <2>1. sitting' \in [Sittings -> SittingRows]
      BY <1>2, AttemptTypes, NoRows DEF AttemptInv
  <2> QED  BY <1>2, <1>5, <1>6, <2>1 DEF AttemptTypeOK, AttemptInv, SittingRows
<1>8. \A x \in Attempts : answers'[x] = answers[x] \/ Disturb({x}) \subseteq disturbed'
    BY <1>4, AttemptTypes DEF AttemptInv
<1> QED  BY <1>2, <1>3, <1>5, <1>7, <1>8, AnswersChange

\* The row of a request, and nothing else, changes.
LEMMA SittingMoves ==
  ASSUME AttemptInv, NEW r \in Sittings, NEW new \in SittingRows, sitting' = [sitting EXCEPT ![r] = new],
         UNCHANGED <<test, questions, attempts, answers, disturbed>>, unread' \in 0 .. MaxUnread, SittingInv(r)'
  PROVE  AttemptInv'
<1>1. \A x \in Sittings : sitting'[x] = IF x = r THEN new ELSE sitting[x]
    BY AttemptTypes DEF AttemptInv
<1>2. sitting' \in [Sittings -> SittingRows]
    BY AttemptTypes DEF AttemptInv
<1>3. AttemptTypeOK'
    BY <1>2 DEF AttemptTypeOK, AttemptInv, SittingRows
<1>4. ASSUME NEW x \in Sittings, x # r PROVE SittingInv(x)'
  <2>1. sitting'[x] = sitting[x]
      BY <1>1, <1>4
  <2>2. \A a \in Attempts : ReadOf(x, a)' <=> ReadOf(x, a)
      BY <2>1, SameAnswers DEF ReadOf
  <2> QED  BY <2>1, <2>2 DEF SittingInv, AttemptInv, Unasked
<1>5. ASSUME NEW a \in Attempts PROVE OfItsAnswers(a)'
    BY SameAnswers DEF OfItsAnswers, AttemptInv
<1> QED  BY <1>3, <1>4, <1>5 DEF AttemptInv

LEMMA StartAttemptStep ==
  ASSUME AttemptInv, NEW r \in Sittings, StartAttempt(r)
  PROVE  AttemptInv'
<1> DEFINE new == [NoSitting EXCEPT !.at = "create", !.correct = Cardinality(There)]
<1>1. Cardinality(There) \in Nat
  <2>1. There \subseteq Questions
      BY DEF There
  <2> QED  BY <2>1, FS_Subset, FS_CardinalityType, AttemptAssumptions
<1>2. new \in SittingRows /\ new.at = "create"
    BY <1>1, NoRows DEF SittingRows
<1>3. sitting' = [sitting EXCEPT ![r] = new] /\ UNCHANGED <<test, questions, attempts, answers, disturbed, unread>>
    BY DEF StartAttempt
<1> HIDE DEF new
<1>4. sitting'[r] = new
    BY <1>3, AttemptTypes DEF AttemptInv
<1>5. SittingInv(r)'
    BY <1>2, <1>4 DEF SittingInv, Unasked, HandingIn, Summing
<1>6. unread' \in 0 .. MaxUnread
    BY <1>3, AttemptTypes DEF AttemptInv
<1> QED  BY <1>2, <1>3, <1>5, <1>6, SittingMoves

LEMMA SubmitAnswerStep ==
  ASSUME AttemptInv, NEW r \in Sittings, NEW a \in Attempts, NEW q \in Questions, NEW given \in Given,
         SubmitAnswer(r, a, q, given)
  PROVE  AttemptInv'
<1> DEFINE new == [NoSitting EXCEPT !.at = "upsert", !.attempt = a, !.question = q, !.given = given, !.open = TRUE]
<1>1. (attempts[a].status = "in_progress") = TRUE
    BY DEF SubmitAnswer, Answerable
<1>2. new \in SittingRows /\ new.at = "upsert" /\ new.attempt = a /\ new.question = q /\ new.open
    BY NoRows DEF SittingRows, Given
<1>3. sitting' = [sitting EXCEPT ![r] = new] /\ UNCHANGED <<test, questions, attempts, answers, disturbed, unread>>
    BY <1>1, Zenon DEF SubmitAnswer
<1> HIDE DEF new
<1>4. sitting'[r] = new
    BY <1>3, AttemptTypes DEF AttemptInv
<1>5. SittingInv(r)'
    BY <1>2, <1>4 DEF SittingInv, Unasked, HandingIn, Summing
<1>6. unread' \in 0 .. MaxUnread
    BY <1>3, AttemptTypes DEF AttemptInv
<1> QED  BY <1>2, <1>3, <1>5, <1>6, SittingMoves

LEMMA SubmitAttemptStep ==
  ASSUME AttemptInv, NEW r \in Sittings, NEW a \in Attempts, SubmitAttempt(r, a)
  PROVE  AttemptInv'
<1> DEFINE new == [NoSitting EXCEPT !.at = "correct", !.attempt = a]
<1>1. new \in SittingRows /\ new.at = "correct" /\ new.attempt = a /\ Unasked(new)
    BY NoRows DEF SittingRows, Given, Unasked, NoSitting
<1>2. /\ sitting' = [sitting EXCEPT ![r] = new] /\ UNCHANGED <<test, questions, attempts, answers, disturbed, unread>>
      /\ attempts[a].status # "none"
    BY DEF SubmitAttempt, Ask
<1> HIDE DEF new
<1>3. sitting'[r] = new
    BY <1>2, AttemptTypes DEF AttemptInv
<1>4. SittingInv(r)'
    BY <1>1, <1>2, <1>3 DEF SittingInv, Summing
<1>5. unread' \in 0 .. MaxUnread
    BY <1>2, AttemptTypes DEF AttemptInv
<1> QED  BY <1>1, <1>2, <1>4, <1>5, SittingMoves

\* One of the three queries: what it returns is of the answers there are, and if it fails what the
\* request has instead is zero.
LEMMA QuerySteps ==
  ASSUME AttemptInv, NEW r \in Sittings,
         CountCorrectAnswers(r) \/ CountWrongAnswers(r) \/ SumMarksForAttempt(r)
  PROVE  AttemptInv'
<1>1. sitting[r] \in SittingRows /\ sitting[r].at \in HandingIn /\ sitting \in [Sittings -> SittingRows]
    BY AttemptTypes DEF AttemptInv, CountCorrectAnswers, CountWrongAnswers, SumMarksForAttempt, HandingIn
<1>2. PICK a \in Attempts : sitting[r].attempt = a
    BY <1>1 DEF AttemptInv, SittingInv
<1>3. Count(a, TRUE) \in Nat /\ Count(a, FALSE) \in Nat /\ MarksSum(a) \in Int
    BY CountsAreNumbers
<1>4. SittingInv(r) /\ Unasked(sitting[r])
    BY DEF AttemptInv, SittingInv
<1>5. UNCHANGED <<test, questions, attempts, answers, disturbed>> /\ unread' \in 0 .. MaxUnread
  <2>1. unread \in 0 .. MaxUnread /\ MaxUnread \in Nat
      BY AttemptTypes, AttemptAssumptions DEF AttemptInv
  <2>2. unread' = unread \/ (unread < MaxUnread /\ unread' = unread + 1)
      BY DEF CountCorrectAnswers, CountWrongAnswers, SumMarksForAttempt, Unread
  <2>3. UNCHANGED <<test, questions, attempts, answers, disturbed>>
      BY DEF CountCorrectAnswers, CountWrongAnswers, SumMarksForAttempt
  <2> QED  BY <2>1, <2>2, <2>3
<1> DEFINE s == sitting[r]
\* As the next lines say it for all three, whatever the query was and whether or not it failed.
<1>6. \E new \in SittingRows :
        /\ sitting' = [sitting EXCEPT ![r] = new]
        /\ new.attempt = a /\ Unasked(new)
        /\ \/ new.at = "wrong" /\ new.correct = RightOf(a, new.failed)
           \/ /\ new.at = "sum" /\ s.at = "wrong" /\ new.correct = s.correct /\ new.wrong = WrongOf(a, new.failed)
              /\ RightOf(a, new.failed) = RightOf(a, s.failed)
           \/ /\ new.at = "write" /\ s.at = "sum" /\ new.correct = s.correct /\ new.wrong = s.wrong
              /\ new.score = SumOf(a, new.failed)
              /\ RightOf(a, new.failed) = RightOf(a, s.failed) /\ WrongOf(a, new.failed) = WrongOf(a, s.failed)
  <2>1. CASE CountCorrectAnswers(r)
    <3> DEFINE yes == [s EXCEPT !.at = "wrong", !.correct = Count(a, TRUE)]
               no == [s EXCEPT !.at = "wrong", !.failed = @ \cup {"correct"}]
    <3>1. s.at = "correct"
        BY <2>1 DEF CountCorrectAnswers
    <3>2. sitting' = [sitting EXCEPT ![r] = yes] \/ sitting' = [sitting EXCEPT ![r] = no]
        BY <2>1, <1>1, <1>2 DEF CountCorrectAnswers, Unread
    <3>3. yes \in SittingRows /\ yes.attempt = a /\ Unasked(yes) /\ yes.at = "wrong" /\ yes.correct = RightOf(a, yes.failed)
        BY <1>1, <1>2, <1>3, <1>4, <3>1 DEF SittingRows, Unasked, RightOf
    <3>4. no \in SittingRows /\ no.attempt = a /\ Unasked(no) /\ no.at = "wrong" /\ no.correct = RightOf(a, no.failed)
        BY <1>1, <1>2, <1>4, <3>1 DEF SittingRows, Unasked, RightOf, Queries
    <3> HIDE DEF yes, no
    <3> QED  BY <3>2, <3>3, <3>4
  <2>2. CASE CountWrongAnswers(r)
    <3> DEFINE yes == [s EXCEPT !.at = "sum", !.wrong = Count(a, FALSE)]
               no == [s EXCEPT !.at = "sum", !.failed = @ \cup {"wrong"}]
    <3>1. s.at = "wrong"
        BY <2>2 DEF CountWrongAnswers
    <3>2. sitting' = [sitting EXCEPT ![r] = yes] \/ sitting' = [sitting EXCEPT ![r] = no]
        BY <2>2, <1>1, <1>2 DEF CountWrongAnswers, Unread
    <3>3. /\ yes \in SittingRows /\ yes.attempt = a /\ Unasked(yes) /\ yes.at = "sum" /\ yes.correct = s.correct
          /\ yes.wrong = WrongOf(a, yes.failed) /\ RightOf(a, yes.failed) = RightOf(a, s.failed)
        BY <1>1, <1>2, <1>3, <1>4, <3>1 DEF SittingRows, Unasked, RightOf, WrongOf
    <3>4. /\ no \in SittingRows /\ no.attempt = a /\ Unasked(no) /\ no.at = "sum" /\ no.correct = s.correct
          /\ no.wrong = WrongOf(a, no.failed) /\ RightOf(a, no.failed) = RightOf(a, s.failed)
        BY <1>1, <1>2, <1>4, <3>1 DEF SittingRows, Unasked, RightOf, WrongOf, Queries
    <3> HIDE DEF yes, no
    <3> QED  BY <3>1, <3>2, <3>3, <3>4
  <2>3. CASE SumMarksForAttempt(r)
    <3> DEFINE yes == [s EXCEPT !.at = "write", !.score = {MarksSum(a)}]
               no == [s EXCEPT !.at = "write", !.failed = @ \cup {"sum"}]
    <3>1. s.at = "sum"
        BY <2>3 DEF SumMarksForAttempt
    <3>2. sitting' = [sitting EXCEPT ![r] = yes] \/ sitting' = [sitting EXCEPT ![r] = no]
        BY <2>3, <1>1, <1>2 DEF SumMarksForAttempt, Unread
    <3>3. /\ yes \in SittingRows /\ yes.attempt = a /\ Unasked(yes) /\ yes.at = "write"
          /\ yes.correct = s.correct /\ yes.wrong = s.wrong /\ yes.failed = s.failed /\ yes.score = SumOf(a, yes.failed)
        BY <1>1, <1>2, <1>3, <1>4, <3>1 DEF SittingRows, Unasked, SumOf
    <3>4. /\ no \in SittingRows /\ no.attempt = a /\ Unasked(no) /\ no.at = "write"
          /\ no.correct = s.correct /\ no.wrong = s.wrong /\ no.score = SumOf(a, no.failed)
          /\ RightOf(a, no.failed) = RightOf(a, s.failed) /\ WrongOf(a, no.failed) = WrongOf(a, s.failed)
        BY <1>1, <1>2, <1>4, <3>1 DEF SittingRows, Unasked, RightOf, WrongOf, SumOf, Queries
    <3> HIDE DEF yes, no
    <3> QED  BY <3>1, <3>2, <3>3, <3>4
  <2> QED  BY <2>1, <2>2, <2>3
<1>7. PICK new \in SittingRows :
        /\ sitting' = [sitting EXCEPT ![r] = new]
        /\ new.attempt = a /\ Unasked(new)
        /\ \/ new.at = "wrong" /\ new.correct = RightOf(a, new.failed)
           \/ /\ new.at = "sum" /\ s.at = "wrong" /\ new.correct = s.correct /\ new.wrong = WrongOf(a, new.failed)
              /\ RightOf(a, new.failed) = RightOf(a, s.failed)
           \/ /\ new.at = "write" /\ s.at = "sum" /\ new.correct = s.correct /\ new.wrong = s.wrong
              /\ new.score = SumOf(a, new.failed)
              /\ RightOf(a, new.failed) = RightOf(a, s.failed) /\ WrongOf(a, new.failed) = WrongOf(a, s.failed)
    BY <1>6
<1>8. sitting'[r] = new /\ new.at \in Summing
    BY <1>1, <1>7 DEF Summing
<1>9. attempts[a].status # "none" \/ test = "gone"
    BY <1>1, <1>2, <1>4 DEF SittingInv
<1>10. ASSUME attempts[a].status # "none", a \notin disturbed PROVE ReadOf(r, a)'
  <2>1. s.at \in Summing => ReadOf(r, a)
      BY <1>2, <1>4, <1>10 DEF SittingInv
  <2>2. \/ new.at = "wrong" /\ new.correct = RightOf(a, new.failed)
        \/ new.at = "sum" /\ new.correct = RightOf(a, new.failed) /\ new.wrong = WrongOf(a, new.failed)
        \/ /\ new.at = "write" /\ new.correct = RightOf(a, new.failed) /\ new.wrong = WrongOf(a, new.failed)
           /\ new.score = SumOf(a, new.failed)
      BY <2>1, <1>7 DEF ReadOf, Summing
  <2>3. \A failed : /\ RightOf(a, failed)' = RightOf(a, failed) /\ WrongOf(a, failed)' = WrongOf(a, failed)
                    /\ SumOf(a, failed)' = SumOf(a, failed)
      BY <1>5, SameAnswers
  <2>4. /\ RightOf(a, sitting[r].failed)' = RightOf(a, new.failed) /\ WrongOf(a, sitting[r].failed)' = WrongOf(a, new.failed)
        /\ SumOf(a, sitting[r].failed)' = SumOf(a, new.failed)
      BY <2>3, <1>5, <1>8 DEF RightOf, WrongOf, SumOf
  <2> QED  BY <2>2, <2>4, <1>8 DEF ReadOf, Summing
<1>11. SittingInv(r)'
  <2>1. sitting'[r].attempt = a /\ sitting'[r].at \in Summing /\ Unasked(sitting'[r])
      BY <1>7, <1>8
  <2> QED  BY <2>1, <1>5, <1>9, <1>10 DEF SittingInv, HandingIn, Summing, Unasked
<1> QED  BY <1>5, <1>7, <1>11, SittingMoves

\* A request is done, and leaves a row of an attempt.
LEMMA RowIsLeft ==
  ASSUME AttemptInv, NEW r \in Sittings, NEW a \in Attempts, NEW new \in AttemptRows,
         Finish(r), attempts' = [attempts EXCEPT ![a] = new], UNCHANGED <<test, questions, answers, disturbed, unread>>,
         new.status # "none", test # "gone",
         new.status = "completed" =>
           /\ new.correct + new.wrong + new.skipped >= new.total
           /\ a \notin disturbed =>
                /\ new.correct = RightOf(a, new.failed) /\ new.wrong = WrongOf(a, new.failed)
                /\ new.score = SumOf(a, new.failed)
  PROVE  AttemptInv'
<1>1. \A x \in Sittings : sitting'[x] = IF x = r THEN NoSitting ELSE sitting[x]
    BY AttemptTypes DEF AttemptInv, Finish
<1>2. \A x \in Attempts : attempts'[x] = IF x = a THEN new ELSE attempts[x]
    BY AttemptTypes DEF AttemptInv
<1>3. AttemptTypeOK'
  <2>1. sitting' \in [Sittings -> SittingRows] /\ attempts' \in [Attempts -> AttemptRows]
      BY AttemptTypes, NoRows DEF AttemptInv, Finish
  <2> QED  BY <2>1 DEF AttemptTypeOK, AttemptInv, SittingRows, AttemptRows
<1>4. ASSUME NEW x \in Sittings PROVE SittingInv(x)'
  <2>1. CASE x = r
      BY <1>1, <2>1 DEF SittingInv, NoSitting, Unasked, HandingIn, Summing
  <2>2. CASE x # r
    <3>1. sitting'[x] = sitting[x] /\ SittingInv(x)
        BY <1>1, <2>2 DEF AttemptInv
    <3>2. \A b \in Attempts : ReadOf(x, b)' <=> ReadOf(x, b)
        BY <3>1, SameAnswers DEF ReadOf
    <3>3. sitting[x].at \in HandingIn => attempts[sitting[x].attempt].status # "none"
        BY <3>1 DEF SittingInv
    <3>4. Summing \subseteq HandingIn
        BY DEF Summing, HandingIn
    <3>5. sitting[x].at \in Summing =>
            \A b \in Attempts : sitting[x].attempt = b /\ b \notin disturbed => ReadOf(x, b)
        BY <3>1, <3>3, <3>4 DEF SittingInv
    <3>6. sitting[x].at \in HandingIn =>
            sitting[x].attempt \in Attempts /\ attempts'[sitting[x].attempt].status # "none"
        BY <3>1, <3>3, <1>2 DEF SittingInv
    <3> QED  BY <3>1, <3>2, <3>5, <3>6 DEF SittingInv, Unasked
  <2> QED  BY <2>1, <2>2
<1>5. ASSUME NEW x \in Attempts PROVE OfItsAnswers(x)'
  <2> DEFINE failed == attempts'[x].failed
  <2>1. /\ RightOf(x, attempts[x].failed)' = RightOf(x, failed) /\ WrongOf(x, attempts[x].failed)' = WrongOf(x, failed)
        /\ SumOf(x, attempts[x].failed)' = SumOf(x, failed)
      BY SameAnswers DEF RightOf, WrongOf, SumOf
  <2>2. CASE x = a
      BY <1>2, <2>1, <2>2 DEF OfItsAnswers
  <2>3. CASE x # a
      BY <1>2, <2>1, <2>3 DEF OfItsAnswers, AttemptInv
  <2> QED  BY <2>2, <2>3
<1> QED  BY <1>3, <1>4, <1>5 DEF AttemptInv

\* A request is done, and leaves nothing.
LEMMA NothingIsLeft ==
  ASSUME AttemptInv, NEW r \in Sittings, Finish(r), UNCHANGED <<test, questions, attempts, answers, disturbed, unread>>
  PROVE  AttemptInv'
<1>1. sitting' = [sitting EXCEPT ![r] = NoSitting]
    BY DEF Finish
<1>2. sitting'[r] = NoSitting
    BY <1>1, AttemptTypes DEF AttemptInv
<1>3. SittingInv(r)'
    BY <1>2 DEF SittingInv, NoSitting, Unasked, HandingIn, Summing
<1>4. unread' \in 0 .. MaxUnread
    BY AttemptTypes DEF AttemptInv
<1> QED  BY <1>1, <1>3, <1>4, NoRows, SittingMoves

LEMMA CreateTestAttemptStep ==
  ASSUME AttemptInv, NEW r \in Sittings, CreateTestAttempt(r)
  PROVE  AttemptInv'
<1>1. CASE ~Exists
    BY <1>1, NothingIsLeft DEF CreateTestAttempt
<1>2. CASE Exists
  <2>1. PICK a \in Attempts :
          attempts' = [attempts EXCEPT ![a] = [NoAttempt EXCEPT !.status = "in_progress", !.total = sitting[r].correct]]
      BY <1>2 DEF CreateTestAttempt
  <2> DEFINE new == [NoAttempt EXCEPT !.status = "in_progress", !.total = sitting[r].correct]
  <2>2. sitting[r].correct \in Nat
    <3>1. sitting[r] \in SittingRows
        BY AttemptTypes DEF AttemptInv
    <3> QED  BY <3>1 DEF SittingRows
  <2>3. new \in AttemptRows /\ new.status = "in_progress"
      BY <2>2, NoRows DEF AttemptRows
  <2>4. attempts' = [attempts EXCEPT ![a] = new]
      BY <2>1
  <2>5. Finish(r) /\ test # "gone" /\ UNCHANGED <<test, questions, answers, disturbed, unread>>
      BY <1>2 DEF CreateTestAttempt, Exists
  <2> HIDE DEF new
  <2> QED  BY <2>3, <2>4, <2>5, RowIsLeft
<1> QED  BY <1>1, <1>2

LEMMA SubmitTestAttemptStep ==
  ASSUME AttemptInv, NEW r \in Sittings, SubmitTestAttempt(r)
  PROVE  AttemptInv'
<1>1. sitting[r] \in SittingRows /\ sitting[r].at = "write" /\ Finish(r) /\ UNCHANGED <<test, questions, answers, disturbed, unread>>
    BY AttemptTypes DEF AttemptInv, SubmitTestAttempt
<1>2. SittingInv(r)
    BY DEF AttemptInv
<1>3. PICK a \in Attempts : sitting[r].attempt = a
    BY <1>1, <1>2 DEF SittingInv, HandingIn
<1>4. CASE attempts[a].status = "none"
  <2>1. UNCHANGED attempts
      BY <1>3, <1>4 DEF SubmitTestAttempt
  <2> QED  BY <1>1, <2>1, NothingIsLeft
<1>5. CASE attempts[a].status # "none"
  <2> DEFINE right == sitting[r].correct
             wrong == sitting[r].wrong
             total == attempts[a].total
             new == [status |-> "completed", total |-> total, score |-> sitting[r].score,
                     correct |-> right, wrong |-> wrong, skipped |-> Skipped(total, right, wrong),
                     failed |-> sitting[r].failed]
  <2>1. attempts' = [attempts EXCEPT ![a] = new]
      BY <1>3, <1>5 DEF SubmitTestAttempt
  <2>2. right \in Nat /\ wrong \in Nat /\ total \in Nat /\ sitting[r].score \subseteq Int /\ sitting[r].failed \subseteq Queries
    <3>1. attempts[a] \in AttemptRows
        BY AttemptTypes DEF AttemptInv
    <3> QED  BY <1>1, <3>1 DEF SittingRows, AttemptRows
  <2>3. Skipped(total, right, wrong) \in Nat /\ right + wrong + Skipped(total, right, wrong) >= total
    <3> HIDE DEF right, wrong, total
    <3> QED  BY <2>2 DEF Skipped
  <2>4. new \in AttemptRows /\ new.status = "completed" /\ new.correct + new.wrong + new.skipped >= new.total
      BY <2>2, <2>3 DEF AttemptRows
  <2>5. a \notin disturbed => ReadOf(r, a)
      BY <1>1, <1>2, <1>3, <1>5 DEF SittingInv, Summing
  <2>6. a \notin disturbed =>
          new.correct = RightOf(a, new.failed) /\ new.wrong = WrongOf(a, new.failed) /\ new.score = SumOf(a, new.failed)
      BY <1>1, <2>5 DEF ReadOf, Summing
  <2>7. test # "gone"
      BY <1>5 DEF AttemptInv
  <2> HIDE DEF new
  <2> QED  BY <1>1, <2>1, <2>4, <2>6, <2>7, RowIsLeft
<1> QED  BY <1>4, <1>5

LEMMA AttemptStutter ==
  ASSUME AttemptInv, UNCHANGED attemptVars
  PROVE  AttemptInv'
<1>1. UNCHANGED <<test, questions, attempts, answers, sitting, disturbed, unread>>
    BY DEF attemptVars
<1>2. AttemptTypeOK'
    BY <1>1 DEF AttemptInv, AttemptTypeOK
<1>3. \A a \in Attempts : Disturb({a}) \subseteq disturbed' \/ answers'[a] = answers[a]
    BY <1>1
<1> QED  BY <1>1, <1>2, <1>3, AnswersChange

LEMMA AttemptStep == AttemptInv /\ [AttemptNext]_attemptVars => AttemptInv'
<1> SUFFICES ASSUME AttemptInv, [AttemptNext]_attemptVars PROVE AttemptInv'
    OBVIOUS
<1>1. CASE HandleCreateTest \/ HandleUpdateTest \/ AdminSetPublished
    BY <1>1, TeacherSteps
<1>2. CASE DeleteTest
    BY <1>2, DeleteTestStep
<1>3. CASE HandleQuestions
    BY <1>3, TeacherSteps, DeleteQuestionStep DEF HandleQuestions
<1>4. CASE HandleStartAttempt
    BY <1>4, StartAttemptStep DEF HandleStartAttempt
<1>5. CASE HandleSubmitAnswer
    BY <1>5, SubmitAnswerStep DEF HandleSubmitAnswer
<1>6. CASE HandleSubmitAttempt
    BY <1>6, SubmitAttemptStep DEF HandleSubmitAttempt
<1>7. ASSUME NEW r \in Sittings,
             \/ CreateTestAttempt(r) \/ UpsertTestAnswer(r)
             \/ CountCorrectAnswers(r) \/ CountWrongAnswers(r) \/ SumMarksForAttempt(r) \/ SubmitTestAttempt(r)
             \/ StopSitting(r)
      PROVE  AttemptInv'
    BY <1>7, CreateTestAttemptStep, UpsertTestAnswerStep, QuerySteps, SubmitTestAttemptStep, NothingIsLeft
       DEF StopSitting
<1>8. CASE UNCHANGED attemptVars
    BY <1>8, AttemptStutter
<1> QED  BY <1>1, <1>2, <1>3, <1>4, <1>5, <1>6, <1>7, <1>8 DEF AttemptNext

\* Every reachable state satisfies the invariant, and with it the type invariant.
THEOREM AttemptInvariant == AttemptSpec => []AttemptInv
BY AttemptStart, AttemptStep, PTL DEF AttemptSpec

LEMMA ResultFromInv == AttemptInv => ResultIsOfAnswers
BY DEF AttemptInv, OfItsAnswers, ResultIsOfAnswers, RightOf, WrongOf, SumOf

\* A result that nobody has disturbed is that of the answers it stands on, but for the zeros of the
\* queries whose error was ignored, for any number of attempts, questions, requests at the same time
\* and queries that fail.
THEOREM ResultsAlwaysOfAnswers == AttemptSpec => []ResultIsOfAnswers
BY AttemptInvariant, ResultFromInv, PTL

-----------------------------------------------------------------------------
(* Homework and doubts *)

Submissions ==
  [status : {"none", "submitted", "graded"}, text : Texts \cup {"none"}, file : {"none", "file"},
   graded : Texts \cup {"none"}, crossed : BOOLEAN]
DoubtStates == {"none", "pending", "answered", "gone"}
DoubtAnswers == [by : {"model", "teacher"}, accepted : BOOLEAN]

\* A request has been read as it should be, and is about a doubt that is there if it has to be.
OnDesk(m) ==
  /\ m.at \in Parts
  /\ m.at = "submit" => m.text \in Texts /\ m.file \in {"none", "file"}
  /\ m.at = "grade" => /\ m.read \in Texts \cup {"none"} /\ m.crossed \in BOOLEAN
                       \* What the teacher has read is still there, or was overtaken.
                       /\ m.crossed \/ submission.status = "none" \/ m.read = submission.text
  /\ m.at \in {"ask", "model", "reply", "close"} => m.doubt \in Doubts
  /\ m.at = "reply" => m.by \in {"model", "teacher"}
  /\ m.at = "ask" => doubts[m.doubt] = "none"
  /\ m.at \in {"model", "reply", "close"} => doubts[m.doubt] # "none"
  \* An answer whose doubt is to be closed stays as long as the doubt does.
  /\ m.at = "close" => doubts[m.doubt] = "gone" \/ replies[m.doubt] # {}

AskedOnce == \A m, n \in desk : m.at = "ask" /\ n.at = "ask" /\ m.doubt = n.doubt => m = n

HomeworkInv ==
  /\ HomeworkTypeOK /\ NothingSlipsOffTheDesk /\ AskedOnce
  /\ IsFiniteSet(desk) /\ \A m \in desk : OnDesk(m)
  /\ submission.status # "none" => Posted

LEMMA HomeworkTyped ==
  ASSUME HomeworkInv
  PROVE  /\ assignment \in {"none", "draft", "published", "gone"} /\ submission \in Submissions
         /\ doubts \in [Doubts -> DoubtStates] /\ replies \in [Doubts -> SUBSET DoubtAnswers]
         /\ IsFiniteSet(desk) /\ Cardinality(desk) \in Nat /\ Cardinality(desk) <= MaxDesk
         /\ upsets \in 0 .. MaxUpsets
BY FS_CardinalityType DEF HomeworkInv, HomeworkTypeOK, Submissions, DoubtStates, DoubtAnswers

\* The desk after a request has come, has become another, or is done with.
LEMMA DeskMoves ==
  ASSUME HomeworkInv, \/ \E m : Receive(m)
                      \/ \E m \in desk : Clear(m) \/ \E n : Put(m, n)
  PROVE  IsFiniteSet(desk') /\ Cardinality(desk') <= MaxDesk
<1>1. IsFiniteSet(desk) /\ Cardinality(desk) \in Nat /\ Cardinality(desk) <= MaxDesk /\ MaxDesk \in Nat
    BY HomeworkTyped, HomeworkAssumptions
<1>2. ASSUME NEW m, Receive(m) PROVE IsFiniteSet(desk') /\ Cardinality(desk') <= MaxDesk
  <2>1. IsFiniteSet(desk \cup {m}) /\ Cardinality(desk \cup {m}) <= Cardinality(desk) + 1
      BY <1>1, FS_AddElement
  <2> QED  BY <1>1, <1>2, <2>1, FS_CardinalityType DEF Receive
<1>3. ASSUME NEW m \in desk
      PROVE  IsFiniteSet(desk \ {m}) /\ Cardinality(desk \ {m}) = Cardinality(desk) - 1
    BY <1>1, FS_RemoveElement
<1>4. ASSUME NEW m \in desk, Clear(m) PROVE IsFiniteSet(desk') /\ Cardinality(desk') <= MaxDesk
    BY <1>1, <1>3, <1>4 DEF Clear
<1>5. ASSUME NEW m \in desk, NEW n, Put(m, n) PROVE IsFiniteSet(desk') /\ Cardinality(desk') <= MaxDesk
  <2> DEFINE rest == desk \ {m}
  <2>1. IsFiniteSet(rest) /\ Cardinality(rest) = Cardinality(desk) - 1
      BY <1>3
  <2>2. Put(m, n) => desk' = rest \cup {n}
      BY DEF Put
  <2> HIDE DEF rest
  <2>3. /\ IsFiniteSet(rest \cup {n})
        /\ Cardinality(rest \cup {n}) = Cardinality(rest) \/ Cardinality(rest \cup {n}) = Cardinality(rest) + 1
      BY <2>1, FS_AddElement
  <2>4. Cardinality(rest \cup {n}) <= MaxDesk
      BY <1>1, <2>1, <2>3
  <2> QED  BY <1>5, <2>2, <2>3, <2>4
<1> QED  BY <1>2, <1>4, <1>5

\* A step that leaves the doubts as they are.
LEMMA NoDoubtStep ==
  ASSUME HomeworkInv, UNCHANGED <<doubts, replies>>,
         assignment' \in {"none", "draft", "published", "gone"}, submission' \in Submissions, upsets' \in 0 .. MaxUpsets,
         submission'.status # "none" => Posted', GradeIsOfThisWork',
         IsFiniteSet(desk') /\ Cardinality(desk') <= MaxDesk, AskedOnce', \A m \in desk' : OnDesk(m)'
  PROVE  HomeworkInv'
<1>1. HomeworkTypeOK'
    BY HomeworkTyped DEF HomeworkTypeOK, OnDesk, Submissions, DoubtStates, DoubtAnswers
<1>2. DoubtsAreAnswered'
    BY DEF HomeworkInv, NothingSlipsOffTheDesk, DoubtsAreAnswered
<1> QED  BY <1>1, <1>2 DEF HomeworkInv, NothingSlipsOffTheDesk

\* A request that comes, becomes another or ends, and nothing else but what it writes.
LEMMA ArriveStep ==
  ASSUME HomeworkInv, NEW m, Receive(m), OnDesk(m), m.at = "ask" => \A n \in desk : n.at = "ask" => n.doubt # m.doubt,
         UNCHANGED <<assignment, submission, doubts, replies, upsets>>
  PROVE  HomeworkInv'
<1>1. AskedOnce' /\ \A n \in desk' : OnDesk(n)
    BY DEF HomeworkInv, AskedOnce, Receive
<1>2. \A n \in desk' : OnDesk(n)'
    BY <1>1 DEF OnDesk
<1> QED  BY <1>1, <1>2, DeskMoves, HomeworkTyped, NoDoubtStep
         DEF HomeworkInv, NothingSlipsOffTheDesk, GradeIsOfThisWork, Posted

LEMMA ClearStep ==
  ASSUME HomeworkInv, NEW m \in desk, Clear(m), UNCHANGED <<doubts, replies, assignment>>,
         submission' \in Submissions, upsets' \in 0 .. MaxUpsets,
         submission'.status = submission.status \/ submission.status # "none", submission'.text = submission.text,
         submission'.status # "none" => Posted, GradeIsOfThisWork'
  PROVE  HomeworkInv'
<1>1. AskedOnce' /\ \A n \in desk' : OnDesk(n)
    BY DEF HomeworkInv, AskedOnce, Clear
<1>2. \A n \in desk' : OnDesk(n)'
    BY <1>1 DEF OnDesk
<1> QED  BY <1>1, <1>2, DeskMoves, HomeworkTyped, NoDoubtStep DEF Posted

LEMMA UpsetStep == ASSUME HomeworkInv, NEW m \in desk, Upset(m) PROVE HomeworkInv'
<1>1. upsets' \in 0 .. MaxUpsets /\ UNCHANGED <<assignment, submission, doubts, replies>> /\ Clear(m)
    BY HomeworkTyped, HomeworkAssumptions DEF Upset
<1> QED  BY <1>1, HomeworkTyped, ClearStep DEF HomeworkInv, NothingSlipsOffTheDesk, GradeIsOfThisWork, Posted

LEMMA AssignmentStep ==
  ASSUME HomeworkInv, HandleCreateAssignment \/ HandleUpdateAssignment \/ DeleteAssignment PROVE HomeworkInv'
<1>1. UNCHANGED <<doubts, replies, desk, upsets>>
    BY DEF HandleCreateAssignment, CreateAssignment, HandleUpdateAssignment, UpdateAssignment, DeleteAssignment
<1>2. /\ assignment' \in {"none", "draft", "published", "gone"} /\ submission' \in Submissions
      /\ submission'.status # "none" => Posted'
      /\ submission'.status # "none" => submission' = submission
  <2>1. NoSubmission \in Submissions /\ NoSubmission.status = "none"
      BY DEF NoSubmission, Submissions
  <2>2. CASE HandleCreateAssignment \/ HandleUpdateAssignment
      BY <2>2, HomeworkTyped
         DEF HandleCreateAssignment, CreateAssignment, HandleUpdateAssignment, UpdateAssignment, Posted, HomeworkInv
  <2>3. CASE DeleteAssignment
      BY <2>1, <2>3 DEF DeleteAssignment
  <2> QED  BY <2>2, <2>3
<1>3. GradeIsOfThisWork'
    BY <1>2 DEF HomeworkInv, NothingSlipsOffTheDesk, GradeIsOfThisWork
<1>4. AskedOnce' /\ \A n \in desk' : OnDesk(n)'
    BY <1>1, <1>2 DEF HomeworkInv, AskedOnce, OnDesk
<1> QED  BY <1>1, <1>2, <1>3, <1>4, HomeworkTyped, NoDoubtStep

LEMMA HandInStep ==
  ASSUME HomeworkInv, NEW text \in Texts, NEW file \in {"none", "file"}, HandleSubmit(text, file) PROVE HomeworkInv'
<1> DEFINE m == [at |-> "submit", text |-> text, file |-> file]
<1>1. OnDesk(m) /\ m.at = "submit"
    BY DEF OnDesk, Parts
<1> QED  BY <1>1, ArriveStep DEF HandleSubmit

LEMMA ToGradeStep == ASSUME HomeworkInv, HandleGrade PROVE HomeworkInv'
<1> DEFINE m == [at |-> "grade", read |-> submission.text, crossed |-> FALSE]
<1>1. OnDesk(m) /\ m.at = "grade"
    BY HomeworkTyped DEF OnDesk, Parts, Submissions
<1> QED  BY <1>1, ArriveStep DEF HandleGrade

\* The desk after a hand-in: no more requests than before, and none whose teacher has read what is
\* not there any more without being marked so.
LEMMA OvertakenDesk ==
  ASSUME NEW ms, IsFiniteSet(ms)
  PROVE  /\ IsFiniteSet(Overtaken(ms)) /\ Cardinality(Overtaken(ms)) <= Cardinality(ms)
         /\ \A o \in Overtaken(ms) :
              \/ o \in ms /\ o.at # "grade"
              \/ \E n \in ms : n.at = "grade" /\ o = [n EXCEPT !.crossed = TRUE]
<1> DEFINE f == [n \in ms |-> IF n.at = "grade" THEN [n EXCEPT !.crossed = TRUE] ELSE n]
<1>1. f \in Surjection(ms, Overtaken(ms))
    BY DEF Surjection, Overtaken
<1> HIDE DEF f
<1>2. IsFiniteSet(Overtaken(ms)) /\ Cardinality(Overtaken(ms)) <= Cardinality(ms)
    BY <1>1, FS_Surjection
<1> QED  BY <1>2 DEF Overtaken

LEMMA SubmitStep == ASSUME HomeworkInv, NEW m \in desk, SubmitAssignment(m) PROVE HomeworkInv'
<1>1. m.text \in Texts /\ m.file \in {"none", "file"} /\ UNCHANGED <<assignment, doubts, replies, upsets>>
    BY DEF HomeworkInv, OnDesk, SubmitAssignment
<1>2. CASE ~Posted
    BY <1>1, <1>2, HomeworkTyped, ClearStep
    DEF SubmitAssignment, HomeworkInv, NothingSlipsOffTheDesk, GradeIsOfThisWork, Posted
<1>3. CASE Posted
  <2> DEFINE rest == desk \ {m}
  <2>1. Reopened(m) \in Submissions /\ Reopened(m).status = "submitted"
      BY <1>1, HomeworkTyped DEF Reopened, Submissions
  <2>2. submission' = Reopened(m) /\ desk' = Overtaken(rest)
      BY <1>3 DEF SubmitAssignment
  <2>3. IsFiniteSet(rest) /\ Cardinality(rest) = Cardinality(desk) - 1
      BY HomeworkTyped, FS_RemoveElement
  <2>4. rest \subseteq desk
      OBVIOUS
  <2> HIDE DEF rest
  <2>5. IsFiniteSet(desk') /\ Cardinality(desk') <= MaxDesk
    <3>1. IsFiniteSet(desk') /\ Cardinality(desk') <= Cardinality(rest)
        BY <2>2, <2>3, OvertakenDesk
    <3>2. Cardinality(desk') \in Nat /\ Cardinality(desk) \in Nat /\ Cardinality(desk) <= MaxDesk /\ MaxDesk \in Nat
        BY <3>1, HomeworkTyped, HomeworkAssumptions, FS_CardinalityType
    <3> QED  BY <2>3, <3>1, <3>2
  <2>6. \A o \in desk' : \/ o \in rest /\ o.at # "grade"
                         \/ \E n \in rest : n.at = "grade" /\ o = [n EXCEPT !.crossed = TRUE]
      BY <2>2, <2>3, OvertakenDesk
  <2>7. \A n \in rest : n.at = "grade" =>
          LET o == [n EXCEPT !.crossed = TRUE] IN o.at = "grade" /\ OnDesk(o)' /\ o.at # "ask"
      BY <2>4 DEF HomeworkInv, OnDesk, Parts
  <2>8. ASSUME NEW o \in desk' PROVE OnDesk(o)' /\ (o.at = "ask" => o \in desk)
    <3>1. CASE o \in rest /\ o.at # "grade"
      <4>1. OnDesk(o) /\ o \in desk
          BY <2>4, <3>1 DEF HomeworkInv
      <4> QED  BY <1>1, <3>1, <4>1 DEF OnDesk
    <3>2. CASE \E n \in rest : n.at = "grade" /\ o = [n EXCEPT !.crossed = TRUE]
        BY <2>7, <3>2
    <3> QED  BY <2>6, <3>1, <3>2
  <2>9. AskedOnce'
      BY <2>8 DEF HomeworkInv, AskedOnce
  <2>10. GradeIsOfThisWork' /\ Posted'
      BY <1>1, <1>3, <2>1, <2>2 DEF GradeIsOfThisWork, Posted
  <2> QED  BY <1>1, <2>1, <2>2, <2>5, <2>8, <2>9, <2>10, HomeworkTyped, NoDoubtStep
<1> QED  BY <1>2, <1>3

LEMMA GradeStep == ASSUME HomeworkInv, NEW m \in desk, GradeSubmission(m) PROVE HomeworkInv'
<1>1. /\ m.read \in Texts \cup {"none"} /\ m.crossed \in BOOLEAN
      /\ m.crossed \/ submission.status = "none" \/ m.read = submission.text
      /\ Clear(m) /\ UNCHANGED <<assignment, doubts, replies, upsets>>
    BY DEF HomeworkInv, OnDesk, GradeSubmission
<1>2. CASE submission.status = "none"
  <2>1. submission' = submission
      BY <1>2 DEF GradeSubmission
  <2> QED  BY <1>1, <1>2, <2>1, HomeworkTyped, ClearStep DEF GradeIsOfThisWork
<1>3. CASE submission.status # "none"
  <2> DEFINE row == [submission EXCEPT !.status = "graded", !.graded = m.read, !.crossed = m.crossed]
  <2>1. row \in Submissions /\ (row.graded = row.text \/ row.crossed) /\ row.text = submission.text
      BY <1>1, <1>3, HomeworkTyped DEF Submissions
  <2>2. submission' = row /\ Posted
      BY <1>3 DEF GradeSubmission, HomeworkInv
  <2> HIDE DEF row
  <2>3. GradeIsOfThisWork'
      BY <1>1, <2>1, <2>2 DEF GradeIsOfThisWork, Posted
  <2> QED  BY <1>1, <1>3, <2>1, <2>2, <2>3, HomeworkTyped, ClearStep
<1> QED  BY <1>2, <1>3

LEMMA AskStep ==
  ASSUME HomeworkInv, NEW d \in Doubts, NEW useAI \in BOOLEAN, HandleAsk(d, useAI) PROVE HomeworkInv'
<1> DEFINE m == [at |-> "ask", doubt |-> d, useAI |-> useAI]
<1>1. OnDesk(m) /\ m.doubt = d
    BY DEF OnDesk, Parts, HandleAsk
<1> QED  BY <1>1, ArriveStep DEF HandleAsk

LEMMA AnswerStep == ASSUME HomeworkInv, NEW d \in Doubts, HandleInstructorAnswer(d) PROVE HomeworkInv'
<1> DEFINE m == [at |-> "reply", doubt |-> d, by |-> "teacher"]
<1>1. OnDesk(m) /\ m.at = "reply"
    BY DEF OnDesk, Parts, HandleInstructorAnswer
<1> QED  BY <1>1, ArriveStep DEF HandleInstructorAnswer

\* A step that leaves the assignment as it is.
LEMMA DoubtStep ==
  ASSUME HomeworkInv, UNCHANGED <<assignment, submission, upsets>>, doubts' \in [Doubts -> DoubtStates],
         replies' \in [Doubts -> SUBSET DoubtAnswers], DoubtsAreAnswered',
         IsFiniteSet(desk') /\ Cardinality(desk') <= MaxDesk, AskedOnce', \A m \in desk' : OnDesk(m)'
  PROVE  HomeworkInv'
<1>1. HomeworkTypeOK'
    BY HomeworkTyped DEF HomeworkTypeOK, OnDesk, Submissions, DoubtStates, DoubtAnswers
<1>2. GradeIsOfThisWork' /\ (submission'.status # "none" => Posted')
    BY DEF HomeworkInv, NothingSlipsOffTheDesk, GradeIsOfThisWork, Posted
<1> QED  BY <1>1, <1>2 DEF HomeworkInv, NothingSlipsOffTheDesk

LEMMA CreateDoubtStep == ASSUME HomeworkInv, NEW m \in desk, CreateDoubt(m) PROVE HomeworkInv'
<1> DEFINE n == [at |-> "model", doubt |-> m.doubt]
<1>1. /\ m.doubt \in Doubts /\ m.at = "ask" /\ doubts[m.doubt] = "none" /\ UNCHANGED <<assignment, submission, replies, upsets>>
      /\ doubts' = [doubts EXCEPT ![m.doubt] = "pending"] /\ (Put(m, n) \/ Clear(m))
    BY DEF HomeworkInv, OnDesk, CreateDoubt
<1>2. doubts' \in [Doubts -> DoubtStates] /\ \A d \in Doubts : doubts'[d] = IF d = m.doubt THEN "pending" ELSE doubts[d]
    BY <1>1, HomeworkTyped DEF DoubtStates
<1>3. DoubtsAreAnswered'
    BY <1>1, <1>2 DEF HomeworkInv, NothingSlipsOffTheDesk, DoubtsAreAnswered
<1>4. \A o \in desk' : o = n \/ (o \in desk /\ o # m)
    BY <1>1 DEF Put, Clear
<1>5. OnDesk(n)' /\ n.at # "ask"
    BY <1>1, <1>2 DEF OnDesk, Parts
<1> HIDE DEF n
<1>6. ASSUME NEW o \in desk, o # m PROVE OnDesk(o)'
  <2>1. OnDesk(o) /\ (o.at = "ask" => o.doubt # m.doubt)
      BY <1>1, <1>6 DEF HomeworkInv, AskedOnce
  <2> QED  BY <1>1, <1>2, <2>1 DEF OnDesk
<1>7. AskedOnce'
    BY <1>4, <1>5 DEF HomeworkInv, AskedOnce
<1> QED  BY <1>1, <1>2, <1>3, <1>4, <1>5, <1>6, <1>7, HomeworkTyped, DeskMoves, DoubtStep

LEMMA AiAnswerStep == ASSUME HomeworkInv, NEW m \in desk, AiAnswer(m) PROVE HomeworkInv'
<1> DEFINE n == [at |-> "reply", doubt |-> m.doubt, by |-> "model"]
<1>1. /\ m.doubt \in Doubts /\ doubts[m.doubt] # "none" /\ UNCHANGED <<assignment, submission, doubts, replies, upsets>>
      /\ Put(m, n) \/ Clear(m)
    BY DEF HomeworkInv, OnDesk, AiAnswer
<1>2. \A o \in desk' : o = n \/ (o \in desk /\ o # m)
    BY <1>1 DEF Put, Clear
<1>3. OnDesk(n) /\ n.at # "ask"
    BY <1>1 DEF OnDesk, Parts
<1> HIDE DEF n
<1>4. AskedOnce' /\ \A o \in desk' : OnDesk(o)
    BY <1>2, <1>3 DEF HomeworkInv, AskedOnce
<1>6. \A o \in desk' : OnDesk(o)'
    BY <1>1, <1>4 DEF OnDesk
<1>5. GradeIsOfThisWork' /\ (submission'.status # "none" => Posted')
    BY <1>1 DEF HomeworkInv, NothingSlipsOffTheDesk, GradeIsOfThisWork, Posted
<1> QED  BY <1>1, <1>4, <1>5, <1>6, HomeworkTyped, DeskMoves, NoDoubtStep

LEMMA CreateDoubtAnswerStep == ASSUME HomeworkInv, NEW m \in desk, CreateDoubtAnswer(m) PROVE HomeworkInv'
<1> DEFINE n == [at |-> "close", doubt |-> m.doubt]
           d == m.doubt
           answer == [by |-> m.by, accepted |-> FALSE]
<1>1. /\ d \in Doubts /\ doubts[d] # "none" /\ m.by \in {"model", "teacher"} /\ UNCHANGED <<assignment, submission, doubts, upsets>>
    BY DEF HomeworkInv, OnDesk, CreateDoubtAnswer, Replies
<1>2. CASE Replies(m) /\ Put(m, n)
  <2>1. replies' = [replies EXCEPT ![d] = replies[d] \cup {answer}] /\ answer \in DoubtAnswers
      BY <1>1, <1>2 DEF Replies, DoubtAnswers
  <2> HIDE DEF answer
  <2>2. /\ replies' \in [Doubts -> SUBSET DoubtAnswers]
        /\ \A e \in Doubts : replies'[e] = IF e = d THEN replies[e] \cup {answer} ELSE replies[e]
      BY <1>1, <2>1, HomeworkTyped
  <2>3. \A e \in Doubts : replies[e] # {} => replies'[e] # {}
      BY <2>2
  <2>4. DoubtsAreAnswered'
      BY <1>1, <2>3 DEF HomeworkInv, NothingSlipsOffTheDesk, DoubtsAreAnswered
  <2>5. \A o \in desk' : o = n \/ (o \in desk /\ o # m)
      BY <1>2 DEF Put
  <2>6. OnDesk(n)' /\ n.at # "ask"
      BY <1>1, <2>2 DEF OnDesk, Parts
  <2> HIDE DEF n
  <2>7. \A o \in desk : OnDesk(o)'
      BY <1>1, <2>3 DEF HomeworkInv, OnDesk
  <2>8. AskedOnce'
      BY <2>5, <2>6 DEF HomeworkInv, AskedOnce
  <2> QED  BY <1>1, <1>2, <2>2, <2>4, <2>5, <2>6, <2>7, <2>8, HomeworkTyped, DeskMoves, DoubtStep
<1>3. CASE Clear(m) /\ UNCHANGED replies
    BY <1>1, <1>3, HomeworkTyped, ClearStep DEF HomeworkInv, NothingSlipsOffTheDesk, GradeIsOfThisWork, Posted
<1> QED  BY <1>2, <1>3 DEF CreateDoubtAnswer

\* A doubt becomes answered or gone, and a request may end.
LEMMA SettledStep ==
  ASSUME HomeworkInv, NEW d \in Doubts, doubts[d] # "none", NEW state \in {"answered", "gone"},
         doubts' = [doubts EXCEPT ![d] = state], UNCHANGED <<assignment, submission, upsets>>,
         desk' \subseteq desk, IsFiniteSet(desk') /\ Cardinality(desk') <= MaxDesk,
         \/ state = "answered" /\ replies[d] # {} /\ replies' = replies /\ doubts[d] # "gone"
         \/ state = "gone" /\ replies' = [replies EXCEPT ![d] = {}]
         \/ state = "gone" /\ replies' = replies
  PROVE  HomeworkInv'
<1>1. /\ doubts' \in [Doubts -> DoubtStates] /\ replies' \in [Doubts -> SUBSET DoubtAnswers]
      /\ \A e \in Doubts : /\ doubts'[e] = IF e = d THEN state ELSE doubts[e]
                           /\ e # d => replies'[e] = replies[e]
      /\ state = "answered" => replies'[d] # {}
    BY HomeworkTyped DEF DoubtStates
<1>2. DoubtsAreAnswered'
    BY <1>1 DEF HomeworkInv, NothingSlipsOffTheDesk, DoubtsAreAnswered
<1>3. AskedOnce'
    BY DEF HomeworkInv, AskedOnce
<1>4. \A o \in desk' : OnDesk(o)'
    BY <1>1 DEF HomeworkInv, OnDesk
<1> QED  BY <1>1, <1>2, <1>3, <1>4, DoubtStep

LEMMA UpdateDoubtStatusStep == ASSUME HomeworkInv, NEW m \in desk, UpdateDoubtStatus(m) PROVE HomeworkInv'
<1> DEFINE d == m.doubt
           state == IF doubts[d] = "gone" THEN doubts[d] ELSE "answered"
<1>1. /\ d \in Doubts /\ doubts[d] # "none" /\ (doubts[d] = "gone" \/ replies[d] # {})
    BY DEF HomeworkInv, OnDesk, UpdateDoubtStatus
<1>2. /\ doubts' = [doubts EXCEPT ![d] = state] /\ Clear(m) /\ UNCHANGED <<assignment, submission, replies, upsets>>
    BY DEF UpdateDoubtStatus
<1>3. desk' \subseteq desk /\ IsFiniteSet(desk') /\ Cardinality(desk') <= MaxDesk
    BY <1>2, DeskMoves DEF Clear
<1> QED  BY <1>1, <1>2, <1>3, SettledStep

LEMMA DeleteDoubtStep == ASSUME HomeworkInv, NEW d \in Doubts, DeleteDoubt(d) PROVE HomeworkInv'
BY HomeworkTyped, SettledStep DEF DeleteDoubt

LEMMA AcceptStep ==
  ASSUME HomeworkInv, NEW d \in Doubts, NEW by \in {"model", "teacher"}, AcceptDoubtAnswer(d, by) PROVE HomeworkInv'
<1>1. replies[d] \in SUBSET DoubtAnswers
    BY HomeworkTyped
<1>2. Accepted(replies[d], by) \in SUBSET DoubtAnswers /\ (replies[d] # {} => Accepted(replies[d], by) # {})
  <2>1. ASSUME NEW a \in DoubtAnswers PROVE [a EXCEPT !.accepted = @ \/ a.by = by] \in DoubtAnswers
    <3>1. (a.accepted \/ a.by = by) \in BOOLEAN
        BY DEF DoubtAnswers
    <3> QED  BY <3>1, Zenon DEF DoubtAnswers
  <2> QED  BY <1>1, <2>1 DEF Accepted
<1>3. /\ replies' = [replies EXCEPT ![d] = Accepted(replies[d], by)]
      /\ UNCHANGED <<assignment, submission, doubts, desk, upsets>>
    BY DEF AcceptDoubtAnswer
<1>4. /\ replies' \in [Doubts -> SUBSET DoubtAnswers]
      /\ \A e \in Doubts : replies[e] # {} => replies'[e] # {}
    BY <1>2, <1>3, HomeworkTyped
<1>5. DoubtsAreAnswered' /\ AskedOnce' /\ (\A o \in desk' : OnDesk(o)')
    BY <1>3, <1>4 DEF HomeworkInv, NothingSlipsOffTheDesk, DoubtsAreAnswered, AskedOnce, OnDesk
<1> QED  BY <1>3, <1>4, <1>5, HomeworkTyped, DoubtStep

LEMMA HomeworkNextStep == HomeworkInv /\ [HomeworkNext]_homeworkVars => HomeworkInv'
<1> SUFFICES ASSUME HomeworkInv, [HomeworkNext]_homeworkVars PROVE HomeworkInv'
    OBVIOUS
<1>1. CASE UNCHANGED homeworkVars
  <2>1. UNCHANGED <<assignment, submission, doubts, replies, desk, upsets>>
      BY <1>1 DEF homeworkVars
  <2>2. DoubtsAreAnswered' /\ AskedOnce' /\ (\A o \in desk' : OnDesk(o)')
      BY <2>1 DEF HomeworkInv, NothingSlipsOffTheDesk, DoubtsAreAnswered, AskedOnce, OnDesk
  <2> QED  BY <2>1, <2>2, HomeworkTyped, DoubtStep
<1>2. CASE HandleCreateAssignment \/ HandleUpdateAssignment \/ DeleteAssignment
    BY <1>2, AssignmentStep
<1> QED
    BY <1>1, <1>2, HandInStep, ToGradeStep, AnswerStep, DeleteDoubtStep, AskStep, AcceptStep, SubmitStep, GradeStep,
       CreateDoubtStep, AiAnswerStep, CreateDoubtAnswerStep, UpdateDoubtStatusStep, UpsetStep DEF HomeworkNext

LEMMA HomeworkInitHolds == HomeworkInit => HomeworkInv
<1> SUFFICES ASSUME HomeworkInit PROVE HomeworkInv
    OBVIOUS
<1>1. NoSubmission \in Submissions /\ NoSubmission.status = "none"
    BY DEF NoSubmission, Submissions
<1>2. IsFiniteSet(desk) /\ Cardinality(desk) = 0
    BY FS_EmptySet DEF HomeworkInit
<1>3. HomeworkTypeOK
    BY <1>1, <1>2, HomeworkAssumptions DEF HomeworkInit, HomeworkTypeOK, Submissions
<1> QED
    BY <1>1, <1>2, <1>3
    DEF HomeworkInit, HomeworkInv, NothingSlipsOffTheDesk, DoubtsAreAnswered, GradeIsOfThisWork, AskedOnce

\* Every reachable state satisfies the invariant, and with it the type invariant.
THEOREM HomeworkInvariant == HomeworkSpec => []HomeworkInv
BY HomeworkInitHolds, HomeworkNextStep, PTL DEF HomeworkSpec

\* No answered doubt is without an answer, and what is graded was graded for what it says or handed in
\* again between the teacher's reading and the marks, for any number of doubts, texts and requests
\* on the desk.
THEOREM NothingEverSlips == HomeworkSpec => []NothingSlipsOffTheDesk
<1>1. HomeworkInv => NothingSlipsOffTheDesk
    BY DEF HomeworkInv
<1> QED  BY <1>1, HomeworkInvariant, PTL

-----------------------------------------------------------------------------
(* Seats in batches *)

CourseRows == [state : {"none", "there", "gone"}, published : BOOLEAN, approval : {"pending", "approved", "rejected"}]
BatchRows ==
  [state : {"none", "there", "gone"}, course : Courses \cup {NoBatch}, current : Nat, active : BOOLEAN]
EnrollmentRows == [status : {"none", "active", "cancelled"}, batch : Batches \cup {NoBatch}]

\* The rows that name a batch, whatever has become of them.
RowsIn(b) == {p \in Students \X Courses : enrollments[p].batch = b}
CountedIn(b) ==
  /\ IsFiniteSet(RowsIn(b))
  /\ Taught(b) => Cardinality(RowsIn(b)) <= Seats(b)
  /\ ~Taught(b) => RowsIn(b) = {}

EnrolmentsInv == EnrolmentTypeOK /\ \A b \in Batches : CountedIn(b)

LEMMA EnrolmentTypes ==
  EnrolmentTypeOK <=>
    /\ courses \in [Courses -> CourseRows] /\ batches \in [Batches -> BatchRows]
    /\ enrollments \in [Students \X Courses -> EnrollmentRows]
    /\ enrolling \in [Enrolling -> Batches \cup {NoBatch}] /\ slips \in [Batches -> Nat]
BY DEF EnrolmentTypeOK, CourseRows, BatchRows, EnrollmentRows

LEMMA EnrolmentsTyped ==
  ASSUME EnrolmentsInv
  PROVE  /\ courses \in [Courses -> CourseRows] /\ batches \in [Batches -> BatchRows]
         /\ enrollments \in [Students \X Courses -> EnrollmentRows]
         /\ enrolling \in [Enrolling -> Batches \cup {NoBatch}] /\ slips \in [Batches -> Nat]
BY EnrolmentTypes DEF EnrolmentsInv

LEMMA CountingFinite ==
  ASSUME NEW b
  PROVE  IsFiniteSet(Counting(b)) /\ Cardinality(Counting(b)) \in Nat
<1>1. Counting(b) \subseteq Enrolling
    BY DEF Counting
<1> QED  BY <1>1, FS_Subset, FS_CardinalityType, EnrolmentAssumptions

LEMMA SeatsNat ==
  ASSUME EnrolmentTypeOK, NEW b \in Batches
  PROVE  Seats(b) \in Nat
<1>1. batches[b].current \in Nat /\ slips[b] \in Nat
  <2>1. batches[b] \in BatchRows
      BY EnrolmentTypes
  <2> QED  BY <2>1, EnrolmentTypes DEF BatchRows
<1> QED  BY <1>1, CountingFinite DEF Seats

\* A batch whose rows are not more, and whose seats are not fewer.
LEMMA StillCounted ==
  ASSUME EnrolmentsInv, NEW b \in Batches, RowsIn(b)' \subseteq RowsIn(b), EnrolmentTypeOK',
         Seats(b)' >= Seats(b), Taught(b)' => Taught(b), ~Taught(b)' => RowsIn(b)' = {}
  PROVE  CountedIn(b)'
<1>1. IsFiniteSet(RowsIn(b)) /\ (Taught(b) => Cardinality(RowsIn(b)) <= Seats(b))
    BY DEF EnrolmentsInv, CountedIn
<1>2. /\ IsFiniteSet(RowsIn(b)') /\ Cardinality(RowsIn(b)') <= Cardinality(RowsIn(b))
      /\ Cardinality(RowsIn(b)') \in Nat /\ Cardinality(RowsIn(b)) \in Nat
    BY <1>1, FS_Subset, FS_CardinalityType
<1>3. Seats(b) \in Nat
    BY SeatsNat DEF EnrolmentsInv
<1>4. Seats(b)' \in Nat
  <2>1. batches'[b].current \in Nat /\ slips'[b] \in Nat
      BY DEF EnrolmentTypeOK
  <2>2. Counting(b)' \subseteq Enrolling
      BY DEF Counting
  <2>3. Cardinality(Counting(b)') \in Nat
      BY <2>2, FS_Subset, FS_CardinalityType, EnrolmentAssumptions
  <2> QED  BY <2>1, <2>3 DEF Seats
<1>5. Taught(b)' => Cardinality(RowsIn(b)') <= Seats(b)'
    BY <1>1, <1>2, <1>3, <1>4
<1> QED  BY <1>2, <1>5 DEF CountedIn

\* A step that leaves the counts, and takes rows from a batch only.
LEMMA NobodyComes ==
  ASSUME EnrolmentsInv, UNCHANGED <<enrolling, slips>>,
         courses' \in [Courses -> CourseRows], batches' \in [Batches -> BatchRows],
         enrollments' \in [Students \X Courses -> EnrollmentRows],
         \A b \in Batches :
           /\ RowsIn(b)' \subseteq RowsIn(b)
           /\ Taught(b)' => Taught(b)
           /\ Taught(b) /\ ~Taught(b)' => RowsIn(b)' = {}
           /\ batches'[b].current = batches[b].current
  PROVE  EnrolmentsInv'
<1>1. EnrolmentTypeOK'
    BY EnrolmentsTyped DEF EnrolmentTypeOK, CourseRows, BatchRows, EnrollmentRows
<1>2. ASSUME NEW b \in Batches PROVE CountedIn(b)'
  <2>1. Seats(b)' = Seats(b)
      BY DEF Seats, Counting
  <2>2. Seats(b)' >= Seats(b)
      BY <2>1, SeatsNat DEF EnrolmentsInv
  <2>3. ~Taught(b)' => RowsIn(b)' = {}
      BY DEF EnrolmentsInv, CountedIn
  <2> QED  BY <1>1, <2>2, <2>3, StillCounted
<1> QED  BY <1>1, <1>2 DEF EnrolmentsInv

\* A step at the courses and nothing else.
LEMMA CourseStep ==
  ASSUME EnrolmentsInv, NEW c \in Courses, NEW row \in CourseRows, courses' = [courses EXCEPT ![c] = row],
         UNCHANGED <<batches, enrollments, enrolling, slips>>
  PROVE  EnrolmentsInv'
<1>1. courses' \in [Courses -> CourseRows]
    BY EnrolmentsTyped
<1> QED  BY <1>1, EnrolmentsTyped, NobodyComes DEF RowsIn, Taught

LEMMA CreateCourseStep ==
  ASSUME EnrolmentsInv, NEW c \in Courses, NEW published \in BOOLEAN, CreateCourse(c, published)
  PROVE  EnrolmentsInv'
<1> DEFINE row == [Unborn EXCEPT !.state = "there", !.published = published]
<1>1. row \in CourseRows
    BY DEF CourseRows, Unborn
<1>2. courses' = [courses EXCEPT ![c] = row] /\ UNCHANGED <<batches, enrollments, enrolling, slips>>
    BY DEF CreateCourse
<1> HIDE DEF row
<1> QED  BY <1>1, <1>2, CourseStep

LEMMA UpdateCourseStep ==
  ASSUME EnrolmentsInv, NEW c \in Courses, NEW published \in BOOLEAN, UpdateCourse(c, published)
  PROVE  EnrolmentsInv'
<1> DEFINE row == [courses[c] EXCEPT !.published = published]
<1>1. courses[c] \in CourseRows
    BY EnrolmentsTyped
<1>2. row \in CourseRows
    BY <1>1 DEF CourseRows
<1>3. courses' = [courses EXCEPT ![c] = row] /\ UNCHANGED <<batches, enrollments, enrolling, slips>>
    BY Zenon DEF UpdateCourse
<1> HIDE DEF row
<1> QED  BY <1>2, <1>3, CourseStep

LEMMA ApprovalStep ==
  ASSUME EnrolmentsInv, NEW c \in Courses, HandleApproval(c)
  PROVE  EnrolmentsInv'
<1>1. courses[c] \in CourseRows
    BY EnrolmentsTyped
<1>2. CASE ApproveCourse(c)
  <2> DEFINE row == [courses[c] EXCEPT !.approval = "approved", !.published = TRUE]
  <2>1. row \in CourseRows
      BY <1>1 DEF CourseRows
  <2>2. courses' = [courses EXCEPT ![c] = row] /\ UNCHANGED <<batches, enrollments, enrolling, slips>>
      BY <1>1, <1>2, EnrolmentsTyped DEF ApproveCourse, CourseRows
  <2> HIDE DEF row
  <2> QED  BY <2>1, <2>2, CourseStep
<1>3. CASE RejectCourse(c)
  <2> DEFINE row == [courses[c] EXCEPT !.approval = "rejected", !.published = FALSE]
  <2>1. row \in CourseRows
      BY <1>1 DEF CourseRows
  <2>2. courses' = [courses EXCEPT ![c] = row] /\ UNCHANGED <<batches, enrollments, enrolling, slips>>
      BY <1>1, <1>3, EnrolmentsTyped DEF RejectCourse, CourseRows
  <2> HIDE DEF row
  <2> QED  BY <2>1, <2>2, CourseStep
<1> QED  BY <1>2, <1>3 DEF HandleApproval

\* What deleting does to the rows of batches and enrollments.
LEMMA Dissolved ==
  ASSUME EnrolmentsInv, NEW gone \in SUBSET Batches
  PROVE  /\ Dissolve(gone) \in [Batches -> BatchRows] /\ Unassign(gone) \in [Students \X Courses -> EnrollmentRows]
         /\ \A b \in Batches : Dissolve(gone)[b].current = batches[b].current
         /\ \A b \in gone : Dissolve(gone)[b].state = "gone"
         /\ \A b \in Batches \ gone : Dissolve(gone)[b] = batches[b]
         /\ \A p \in Students \X Courses :
              Unassign(gone)[p].batch \in Batches =>
                Unassign(gone)[p].batch = enrollments[p].batch /\ enrollments[p].batch \notin gone
<1>1. ASSUME NEW b \in Batches
      PROVE  /\ [batches[b] EXCEPT !.state = "gone"] \in BatchRows
             /\ [batches[b] EXCEPT !.state = "gone"].current = batches[b].current
             /\ [batches[b] EXCEPT !.state = "gone"].state = "gone"
  <2>1. batches[b] \in BatchRows
      BY EnrolmentsTyped
  <2> QED  BY <2>1 DEF BatchRows
<1>2. ASSUME NEW p \in Students \X Courses
      PROVE  /\ [enrollments[p] EXCEPT !.batch = NoBatch] \in EnrollmentRows
             /\ [enrollments[p] EXCEPT !.batch = NoBatch].batch = NoBatch
  <2>1. enrollments[p] \in EnrollmentRows
      BY EnrolmentsTyped
  <2> QED  BY <2>1 DEF EnrollmentRows
<1>3. NoBatch \notin Batches
    BY EnrolmentAssumptions DEF NoBatch
<1> QED  BY <1>1, <1>2, <1>3, EnrolmentsTyped DEF Dissolve, Unassign

LEMMA DeleteCourseStep ==
  ASSUME EnrolmentsInv, NEW c \in Courses, DeleteCourse(c)
  PROVE  EnrolmentsInv'
<1> DEFINE lost == {b \in Batches : batches[b].course = c}
           row == [courses[c] EXCEPT !.state = "gone"]
<1>1. /\ batches' = Dissolve(lost) /\ UNCHANGED <<enrolling, slips>>
      /\ enrollments' = [p \in Students \X Courses |-> IF p[2] = c THEN NoRowYet ELSE Unassign(lost)[p]]
      /\ courses' = [courses EXCEPT ![c].state = "gone"]
    BY DEF DeleteCourse
<1>2. courses[c] \in CourseRows
    BY EnrolmentsTyped
<1>3. row \in CourseRows
    BY <1>2 DEF CourseRows
<1>4. courses' = [courses EXCEPT ![c] = row]
    BY <1>1, Zenon
<1> HIDE DEF row, lost
<1>5. courses' \in [Courses -> CourseRows]
    BY <1>3, <1>4, EnrolmentsTyped
<1>6. lost \in SUBSET Batches
    BY DEF lost
<1>7. NoRowYet \in EnrollmentRows /\ NoRowYet.batch \notin Batches
    BY EnrolmentAssumptions DEF NoRowYet, EnrollmentRows, NoBatch
<1>8. /\ Dissolve(lost) \in [Batches -> BatchRows] /\ Unassign(lost) \in [Students \X Courses -> EnrollmentRows]
      /\ \A b \in Batches : Dissolve(lost)[b].current = batches[b].current
      /\ \A b \in lost : Dissolve(lost)[b].state = "gone"
      /\ \A b \in Batches \ lost : Dissolve(lost)[b] = batches[b]
      /\ \A p \in Students \X Courses :
           Unassign(lost)[p].batch \in Batches =>
             Unassign(lost)[p].batch = enrollments[p].batch /\ enrollments[p].batch \notin lost
    BY <1>6, Dissolved
<1>9. enrollments' \in [Students \X Courses -> EnrollmentRows]
    BY <1>1, <1>7, <1>8
<1>10. \A p \in Students \X Courses : enrollments'[p].batch \in Batches =>
         enrollments'[p].batch = enrollments[p].batch /\ enrollments[p].batch \notin lost
    BY <1>1, <1>7, <1>8
<1>11. ASSUME NEW b \in Batches
       PROVE  /\ RowsIn(b)' \subseteq RowsIn(b)
              /\ Taught(b)' => Taught(b)
              /\ Taught(b) /\ ~Taught(b)' => RowsIn(b)' = {}
              /\ batches'[b].current = batches[b].current
  <2>1. RowsIn(b)' \subseteq RowsIn(b) /\ (b \in lost => RowsIn(b)' = {})
      BY <1>10 DEF RowsIn
  <2>2. (Taught(b)' => Taught(b)) /\ (Taught(b) /\ ~Taught(b)' => b \in lost)
      BY <1>1, <1>8 DEF Taught
  <2> QED  BY <1>1, <1>8, <2>1, <2>2
<1> QED  BY <1>1, <1>5, <1>8, <1>9, <1>11, NobodyComes

LEMMA DeleteBatchStep ==
  ASSUME EnrolmentsInv, NEW b \in Batches, DeleteBatch(b)
  PROVE  EnrolmentsInv'
<1>1. batches' = Dissolve({b}) /\ enrollments' = Unassign({b}) /\ UNCHANGED <<courses, enrolling, slips>>
    BY DEF DeleteBatch
<1>2. /\ Dissolve({b}) \in [Batches -> BatchRows] /\ Unassign({b}) \in [Students \X Courses -> EnrollmentRows]
      /\ \A d \in Batches : Dissolve({b})[d].current = batches[d].current
      /\ Dissolve({b})[b].state = "gone"
      /\ \A d \in Batches \ {b} : Dissolve({b})[d] = batches[d]
      /\ \A p \in Students \X Courses :
           Unassign({b})[p].batch \in Batches =>
             Unassign({b})[p].batch = enrollments[p].batch /\ enrollments[p].batch \notin {b}
  <2> DEFINE only == {b}
  <2>1. only \in SUBSET Batches /\ b \in only
      OBVIOUS
  <2> HIDE DEF only
  <2>2. /\ Dissolve(only) \in [Batches -> BatchRows] /\ Unassign(only) \in [Students \X Courses -> EnrollmentRows]
        /\ \A d \in Batches : Dissolve(only)[d].current = batches[d].current
        /\ \A d \in only : Dissolve(only)[d].state = "gone"
        /\ \A d \in Batches \ only : Dissolve(only)[d] = batches[d]
        /\ \A p \in Students \X Courses :
             Unassign(only)[p].batch \in Batches =>
               Unassign(only)[p].batch = enrollments[p].batch /\ enrollments[p].batch \notin only
      BY <2>1, Dissolved
  <2> QED  BY <2>1, <2>2 DEF only
<1>3. ASSUME NEW d \in Batches
      PROVE  /\ RowsIn(d)' \subseteq RowsIn(d)
             /\ Taught(d)' => Taught(d)
             /\ Taught(d) /\ ~Taught(d)' => RowsIn(d)' = {}
             /\ batches'[d].current = batches[d].current
  <2>1. RowsIn(d)' \subseteq RowsIn(d) /\ (d = b => RowsIn(d)' = {})
      BY <1>1, <1>2 DEF RowsIn
  <2>2. (Taught(d)' => Taught(d)) /\ (Taught(d) /\ ~Taught(d)' => d = b)
      BY <1>1, <1>2 DEF Taught
  <2> QED  BY <1>1, <1>2, <2>1, <2>2
<1> QED  BY <1>1, <1>2, <1>3, EnrolmentsTyped, NobodyComes

\* A new batch, or one that is switched on or off.
LEMMA BatchStep ==
  ASSUME EnrolmentsInv, NEW b \in Batches, HandleCreateBatch(b) \/ HandleUpdateBatch(b)
  PROVE  EnrolmentsInv'
<1>1. ASSUME NEW active \in BOOLEAN, UpdateBatch(b, active) PROVE EnrolmentsInv'
  <2> DEFINE row == [batches[b] EXCEPT !.active = active]
  <2>1. batches[b] \in BatchRows
      BY EnrolmentsTyped
  <2>2. row \in BatchRows /\ row.current = batches[b].current /\ row.state = batches[b].state
      BY <2>1 DEF BatchRows
  <2>3. batches' = [batches EXCEPT ![b] = row] /\ UNCHANGED <<courses, enrollments, enrolling, slips>>
      BY <1>1, Zenon DEF UpdateBatch
  <2> HIDE DEF row
  <2>4. batches' \in [Batches -> BatchRows] /\ \A d \in Batches : batches'[d] = IF d = b THEN row ELSE batches[d]
      BY <2>2, <2>3, EnrolmentsTyped
  <2> QED  BY <2>2, <2>3, <2>4, EnrolmentsTyped, NobodyComes DEF RowsIn, Taught
<1>2. ASSUME NEW c \in Courses, NEW active \in BOOLEAN, CreateBatch(b, c, active) PROVE EnrolmentsInv'
  <2> DEFINE row == [state |-> "there", course |-> c, current |-> 0, active |-> active]
  <2>1. row \in BatchRows
      BY DEF BatchRows
  <2>2. batches' = [batches EXCEPT ![b] = row] /\ UNCHANGED <<courses, enrollments, enrolling, slips>> /\ ~Taught(b)
      BY <1>2 DEF CreateBatch, Taught
  <2> HIDE DEF row
  <2>3. batches' \in [Batches -> BatchRows] /\ \A d \in Batches : batches'[d] = IF d = b THEN row ELSE batches[d]
      BY <2>1, <2>2, EnrolmentsTyped
  <2>4. EnrolmentTypeOK'
      BY <2>2, <2>3, EnrolmentsTyped DEF EnrolmentTypeOK, CourseRows, BatchRows, EnrollmentRows
  <2>5. ASSUME NEW d \in Batches PROVE CountedIn(d)'
    <3>1. RowsIn(d)' = RowsIn(d)
        BY <2>2 DEF RowsIn
    <3>2. CASE d # b
      <4>1. Seats(d)' = Seats(d) /\ Taught(d)' = Taught(d)
          BY <2>2, <2>3, <3>2 DEF Seats, Taught, Counting
      <4> QED  BY <3>1, <4>1 DEF EnrolmentsInv, CountedIn
    <3>3. CASE d = b
      <4>1. RowsIn(d) = {}
          BY <2>2, <3>3 DEF EnrolmentsInv, CountedIn
      <4>2. Seats(d)' \in Nat
        <5>1. row.current \in Nat /\ slips[d] \in Nat
            BY <2>1, EnrolmentsTyped DEF BatchRows
        <5>2. Seats(d)' = row.current + slips[d] + Cardinality(Counting(d))
            BY <2>2, <2>3, <3>3 DEF Seats, Counting
        <5> QED  BY <5>1, <5>2, CountingFinite
      <4> QED  BY <3>1, <4>1, <4>2, FS_EmptySet DEF CountedIn
    <3> QED  BY <3>2, <3>3
  <2> QED  BY <2>4, <2>5 DEF EnrolmentsInv
<1> QED  BY <1>1, <1>2 DEF HandleCreateBatch, HandleUpdateBatch

\* A student is enrolled: the row names the batch before the batch counts him.
LEMMA EnrollStep ==
  ASSUME EnrolmentsInv, NEW r \in Enrolling, NEW s \in Students, NEW c \in Courses,
         NEW b \in Batches \cup {NoBatch}, Enroll(r, s, c, b)
  PROVE  EnrolmentsInv'
<1> DEFINE at == <<s, c>>
           row == Enrolled(enrollments[at], b)
<1>1. /\ enrolling[r] = NoBatch /\ (b # NoBatch => Taught(b)) /\ UNCHANGED <<courses, batches, slips>>
      /\ enrollments' = [enrollments EXCEPT ![at] = row]
      /\ enrolling' = [enrolling EXCEPT ![r] = b]
    BY DEF Enroll
<1>2. at \in Students \X Courses /\ enrollments[at] \in EnrollmentRows
    BY EnrolmentsTyped
<1>3. row \in EnrollmentRows /\ (row.batch = enrollments[at].batch \/ row.batch = b)
    BY <1>2 DEF EnrollmentRows, Enrolled
<1> HIDE DEF row, at
<1>4. /\ enrollments' \in [Students \X Courses -> EnrollmentRows]
      /\ \A p \in Students \X Courses : enrollments'[p] = IF p = at THEN row ELSE enrollments[p]
    BY <1>1, <1>2, <1>3, EnrolmentsTyped
<1>5. enrolling' \in [Enrolling -> Batches \cup {NoBatch}] /\ \A q \in Enrolling : enrolling'[q] = IF q = r THEN b ELSE enrolling[q]
    BY <1>1, EnrolmentsTyped
<1>6. EnrolmentTypeOK'
    BY <1>1, <1>4, <1>5, EnrolmentsTyped DEF EnrolmentTypeOK, CourseRows, BatchRows, EnrollmentRows
<1>7. NoBatch \notin Batches
    BY EnrolmentAssumptions DEF NoBatch
<1>8. ASSUME NEW d \in Batches, d # b PROVE CountedIn(d)'
  <2>1. RowsIn(d)' \subseteq RowsIn(d)
      BY <1>3, <1>4, <1>8 DEF RowsIn
  <2>2. Counting(d)' = Counting(d)
      BY <1>1, <1>5, <1>7, <1>8 DEF Counting
  <2>3. Seats(d)' = Seats(d) /\ Taught(d)' = Taught(d)
      BY <1>1, <2>2 DEF Seats, Taught
  <2>4. Seats(d)' >= Seats(d)
      BY <2>3, SeatsNat DEF EnrolmentsInv
  <2>5. ~Taught(d)' => RowsIn(d)' = {}
      BY <2>1, <2>3 DEF EnrolmentsInv, CountedIn
  <2> QED  BY <1>6, <2>1, <2>3, <2>4, <2>5, StillCounted
<1>9. ASSUME b \in Batches PROVE CountedIn(b)'
  <2>1. Taught(b) /\ Taught(b)'
      BY <1>1, <1>7, <1>9 DEF Taught
  <2>2. IsFiniteSet(RowsIn(b)) /\ Cardinality(RowsIn(b)) <= Seats(b) /\ Cardinality(RowsIn(b)) \in Nat
      BY <1>9, <2>1, FS_CardinalityType DEF EnrolmentsInv, CountedIn
  <2>3. RowsIn(b)' \subseteq RowsIn(b) \cup {at}
      BY <1>4 DEF RowsIn
  <2>4. Counting(b)' = Counting(b) \cup {r} /\ r \notin Counting(b)
      BY <1>1, <1>5, <1>7, <1>9 DEF Counting
  <2>5. Cardinality(Counting(b)') = Cardinality(Counting(b)) + 1
      BY <2>4, CountingFinite, FS_AddElement
  <2>6. Seats(b)' = Seats(b) + 1 /\ Seats(b) \in Nat
    <3>1. batches[b].current \in Nat /\ slips[b] \in Nat
      <4>1. batches[b] \in BatchRows
          BY <1>9, EnrolmentsTyped
      <4> QED  BY <1>9, <4>1, EnrolmentsTyped DEF BatchRows
    <3> QED  BY <1>1, <2>5, <3>1, CountingFinite DEF Seats
  <2> DEFINE T == RowsIn(b)
  <2>7. IsFiniteSet(T) /\ Cardinality(T) \in Nat
      BY <2>2
  <2> HIDE DEF T
  <2>8. /\ IsFiniteSet(T \cup {at})
        /\ Cardinality(T \cup {at}) = Cardinality(T) \/ Cardinality(T \cup {at}) = Cardinality(T) + 1
      BY <2>7, FS_AddElement
  <2>9. RowsIn(b)' \subseteq T \cup {at}
      BY <2>3 DEF T
  <2>10. /\ IsFiniteSet(RowsIn(b)') /\ Cardinality(RowsIn(b)') <= Cardinality(T \cup {at})
         /\ Cardinality(RowsIn(b)') \in Nat
      BY <2>8, <2>9, FS_Subset, FS_CardinalityType
  <2>11. Cardinality(T) <= Seats(b)
      BY <2>2 DEF T
  <2>12. Cardinality(RowsIn(b)') <= Seats(b)'
      BY <2>6, <2>7, <2>8, <2>10, <2>11
  <2> QED  BY <2>1, <2>10, <2>12 DEF CountedIn
<1> QED  BY <1>6, <1>8, <1>9 DEF EnrolmentsInv

\* The count of a request comes, or does not come: it goes from what is under way to where it is told.
LEMMA CountStep ==
  ASSUME EnrolmentsInv, NEW r \in Enrolling, IncrementBatchStudents(r) \/ Slip(r)
  PROVE  EnrolmentsInv'
<1> DEFINE b == enrolling[r]
<1>1. b \in Batches /\ b # NoBatch /\ UNCHANGED <<courses, enrollments>>
      /\ enrolling' = [enrolling EXCEPT ![r] = NoBatch]
    BY EnrolmentsTyped DEF IncrementBatchStudents, Slip
<1>2. batches[b] \in BatchRows /\ batches[b].current \in Nat
  <2>1. batches[b] \in BatchRows
      BY <1>1, EnrolmentsTyped
  <2> QED  BY <2>1 DEF BatchRows
<1>3. enrolling' \in [Enrolling -> Batches \cup {NoBatch}] /\ \A q \in Enrolling : enrolling'[q] = IF q = r THEN NoBatch ELSE enrolling[q]
    BY <1>1, EnrolmentsTyped
<1>4. /\ batches' \in [Batches -> BatchRows] /\ slips' \in [Batches -> Nat]
      /\ \A d \in Batches : Taught(d)' = Taught(d)
      /\ \A d \in Batches : d # b => batches'[d].current = batches[d].current /\ slips'[d] = slips[d]
      /\ Taught(b) => \/ batches'[b].current = batches[b].current + 1 /\ slips'[b] = slips[b]
                      \/ batches'[b].current = batches[b].current /\ slips'[b] = slips[b] + 1
      /\ batches'[b].current >= batches[b].current /\ slips'[b] >= slips[b]
  <2>1. CASE Slip(r)
    <3>1. slips' = [slips EXCEPT ![b] = @ + 1] /\ UNCHANGED batches
        BY <2>1 DEF Slip
    <3>2. slips[b] \in Nat
        BY <1>1, EnrolmentsTyped
    <3> QED  BY <1>1, <1>2, <3>1, <3>2, EnrolmentsTyped DEF Taught
  <2>2. CASE IncrementBatchStudents(r) /\ ~Taught(b)
    <3>1. UNCHANGED <<batches, slips>>
        BY <2>2 DEF IncrementBatchStudents
    <3>2. slips[b] \in Nat
        BY <1>1, EnrolmentsTyped
    <3> QED  BY <1>1, <1>2, <2>2, <3>1, <3>2, EnrolmentsTyped DEF Taught
  <2>3. CASE IncrementBatchStudents(r) /\ Taught(b)
    <3> DEFINE row == [batches[b] EXCEPT !.current = @ + 1]
    <3>1. row \in BatchRows /\ row.current = batches[b].current + 1 /\ row.state = batches[b].state
        BY <1>2 DEF BatchRows
    <3>2. batches' = [batches EXCEPT ![b] = row] /\ UNCHANGED slips
        BY <2>3 DEF IncrementBatchStudents
    <3> HIDE DEF row, b
    <3>3. slips[b] \in Nat
        BY <1>1, EnrolmentsTyped
    <3>4. batches' \in [Batches -> BatchRows] /\ \A d \in Batches : batches'[d] = IF d = b THEN row ELSE batches[d]
        BY <1>1, <3>1, <3>2, EnrolmentsTyped
    <3> QED  BY <1>1, <1>2, <3>1, <3>2, <3>3, <3>4, EnrolmentsTyped DEF Taught
  <2> QED  BY <2>1, <2>2, <2>3
<1>5. EnrolmentTypeOK'
    BY <1>1, <1>3, <1>4, EnrolmentsTyped DEF EnrolmentTypeOK, CourseRows, BatchRows, EnrollmentRows
<1>6. NoBatch \notin Batches
    BY EnrolmentAssumptions DEF NoBatch
<1>7. ASSUME NEW d \in Batches PROVE CountedIn(d)'
  <2>1. RowsIn(d)' = RowsIn(d)
      BY <1>1 DEF RowsIn
  <2>2. CASE ~Taught(d)
    <3>1. RowsIn(d) = {}
        BY <2>2 DEF EnrolmentsInv, CountedIn
    <3> QED  BY <1>4, <2>1, <2>2, <3>1, FS_EmptySet DEF CountedIn
  <2>3. CASE Taught(d) /\ d # b
    <3>1. Counting(d)' = Counting(d)
        BY <1>3, <1>6, <2>3 DEF Counting
    <3>2. Seats(d)' = Seats(d)
        BY <1>4, <2>3, <3>1 DEF Seats
    <3> QED  BY <1>4, <2>1, <2>3, <3>2 DEF EnrolmentsInv, CountedIn
  <2>4. CASE Taught(d) /\ d = b
    <3>1. Counting(d)' = Counting(d) \ {r} /\ r \in Counting(d)
        BY <1>1, <1>3, <2>4 DEF Counting
    <3>2. Cardinality(Counting(d)') = Cardinality(Counting(d)) - 1
        BY <3>1, CountingFinite, FS_RemoveElement
    <3>3. Cardinality(Counting(d)) \in Nat /\ batches[d].current \in Nat /\ slips[d] \in Nat
        BY <1>2, <2>4, CountingFinite, EnrolmentsTyped
    <3>4. \/ batches'[d].current = batches[d].current + 1 /\ slips'[d] = slips[d]
          \/ batches'[d].current = batches[d].current /\ slips'[d] = slips[d] + 1
        BY <1>4, <2>4
    <3>5. batches'[d].current + slips'[d] + Cardinality(Counting(d)') = batches[d].current + slips[d] + Cardinality(Counting(d))
        BY <3>2, <3>3, <3>4
    <3>6. Seats(d)' = Seats(d)
        BY <3>5 DEF Seats
    <3> QED  BY <1>4, <2>1, <2>4, <3>6 DEF EnrolmentsInv, CountedIn
  <2> QED  BY <2>2, <2>3, <2>4
<1> QED  BY <1>5, <1>7 DEF EnrolmentsInv

\* Who cancels stays in his batch.
LEMMA CancelStep ==
  ASSUME EnrolmentsInv, NEW s \in Students, NEW c \in Courses, CancelEnrollment(s, c)
  PROVE  EnrolmentsInv'
<1> DEFINE at == <<s, c>>
           row == [enrollments[at] EXCEPT !.status = "cancelled"]
<1>1. at \in Students \X Courses /\ enrollments[at] \in EnrollmentRows
    BY EnrolmentsTyped
<1>2. row \in EnrollmentRows /\ row.batch = enrollments[at].batch
    BY <1>1 DEF EnrollmentRows
<1>3. enrollments' = [enrollments EXCEPT ![at] = row] /\ UNCHANGED <<courses, batches, enrolling, slips>>
    BY Zenon DEF CancelEnrollment
<1> HIDE DEF row, at
<1>4. /\ enrollments' \in [Students \X Courses -> EnrollmentRows]
      /\ \A p \in Students \X Courses : enrollments'[p] = IF p = at THEN row ELSE enrollments[p]
    BY <1>1, <1>2, <1>3, EnrolmentsTyped
<1> QED  BY <1>2, <1>3, <1>4, EnrolmentsTyped, NobodyComes DEF RowsIn, Taught

LEMMA EnrolmentsInit == EnrolmentInit => EnrolmentsInv
<1> SUFFICES ASSUME EnrolmentInit PROVE EnrolmentsInv
    OBVIOUS
<1>1. Unborn \in CourseRows /\ Unformed \in BatchRows /\ NoRowYet \in EnrollmentRows
      /\ Unformed.state = "none" /\ NoRowYet.batch = NoBatch
    BY DEF Unborn, Unformed, NoRowYet, CourseRows, BatchRows, EnrollmentRows
<1>2. EnrolmentTypeOK
    BY <1>1, EnrolmentTypes DEF EnrolmentInit
<1>3. NoBatch \notin Batches
    BY EnrolmentAssumptions DEF NoBatch
<1>4. ASSUME NEW b \in Batches PROVE CountedIn(b)
  <2>1. RowsIn(b) = {} /\ ~Taught(b)
      BY <1>1, <1>3 DEF RowsIn, Taught, EnrolmentInit
  <2> QED  BY <2>1, FS_EmptySet DEF CountedIn
<1> QED  BY <1>2, <1>4 DEF EnrolmentsInv

LEMMA EnrolmentsStep == EnrolmentsInv /\ [EnrolmentNext]_enrolmentVars => EnrolmentsInv'
<1> SUFFICES ASSUME EnrolmentsInv, [EnrolmentNext]_enrolmentVars PROVE EnrolmentsInv'
    OBVIOUS
<1>1. ASSUME NEW c \in Courses, HandleCreateCourse(c) \/ HandleUpdateCourse(c) PROVE EnrolmentsInv'
    BY <1>1, CreateCourseStep, UpdateCourseStep DEF HandleCreateCourse, HandleUpdateCourse
<1>2. ASSUME NEW r \in Enrolling, NEW s \in Students, HandleEnroll(r, s) PROVE EnrolmentsInv'
    BY <1>2, EnrollStep DEF HandleEnroll
<1>3. ASSUME NEW r \in Enrolling, HandleAdminEnroll(r) PROVE EnrolmentsInv'
    BY <1>3, EnrollStep DEF HandleAdminEnroll
<1>4. CASE UNCHANGED enrolmentVars
  <2>1. UNCHANGED <<courses, batches, enrollments, enrolling, slips>>
      BY <1>4 DEF enrolmentVars
  <2> QED  BY <2>1, EnrolmentsTyped, NobodyComes DEF RowsIn, Taught
<1> QED  BY <1>1, <1>2, <1>3, <1>4, ApprovalStep, DeleteCourseStep, BatchStep, DeleteBatchStep, CountStep, CancelStep
         DEF EnrolmentNext

LEMMA EnrolmentsInvCounts == EnrolmentsInv => NobodyUncounted
<1> SUFFICES ASSUME EnrolmentsInv, NEW b \in Batches, Taught(b) PROVE Cardinality(InBatch(b)) <= Seats(b)
    BY DEF NobodyUncounted
<1>1. IsFiniteSet(RowsIn(b)) /\ Cardinality(RowsIn(b)) <= Seats(b)
    BY DEF EnrolmentsInv, CountedIn
<1>2. InBatch(b) \subseteq RowsIn(b)
    BY DEF InBatch, RowsIn
<1>3. Cardinality(InBatch(b)) <= Cardinality(RowsIn(b)) /\ Cardinality(InBatch(b)) \in Nat /\ Cardinality(RowsIn(b)) \in Nat
    BY <1>1, <1>2, FS_Subset, FS_CardinalityType
<1> QED  BY <1>1, <1>3, SeatsNat DEF EnrolmentsInv

\* Every reachable state satisfies the invariant, and with it the type invariant.
THEOREM EnrolmentsInvariant == EnrolmentSpec => []EnrolmentsInv
BY EnrolmentsInit, EnrolmentsStep, PTL DEF EnrolmentSpec

\* No student sits in a batch uncounted, for any number of students, batches and requests, but
\* for those whose counting has failed.
THEOREM NobodyEverUncounted == EnrolmentSpec => []NobodyUncounted
BY EnrolmentsInvariant, EnrolmentsInvCounts, PTL

-----------------------------------------------------------------------------
(* Progress in lectures *)

OutlineRows == [kind : Kinds \cup {"none"}, parent : Entries \cup {Nowhere}, free : BOOLEAN]
LectureRows == [state : {"none", "there", "gone"}, places : SUBSET Nodes, published : BOOLEAN]
ViewRows == [watched : Seconds \cup {0}, completed : BOOLEAN, there : BOOLEAN]
CategoryRows == [slug : Slugs \cup {"none"}, active : BOOLEAN]

\* What a row of lecture_views owes the reports taken for it.
Furthest(view, figures) ==
  /\ view.there <=> figures # {}
  /\ figures # {} => /\ \E r \in figures : view.watched = r.watched
                     /\ \A r \in figures : view.watched >= r.watched
  /\ view.completed <=> \E r \in figures : r.completed

CurriculumInv == CurriculumTypeOK /\ \A p \in Viewers \X Lectures : Furthest(views[p], told[p])

LEMMA CurriculumTypes ==
  CurriculumTypeOK <=>
    /\ outline \in [Entries -> OutlineRows] /\ lectures \in [Lectures -> LectureRows]
    /\ views \in [Viewers \X Lectures -> ViewRows] /\ told \in [Viewers \X Lectures -> SUBSET Reports]
    /\ categories \in [Categories -> CategoryRows]
BY DEF CurriculumTypeOK, OutlineRows, LectureRows, ViewRows, CategoryRows

LEMMA CurriculumTyped ==
  ASSUME CurriculumInv
  PROVE  /\ outline \in [Entries -> OutlineRows] /\ lectures \in [Lectures -> LectureRows]
         /\ views \in [Viewers \X Lectures -> ViewRows] /\ told \in [Viewers \X Lectures -> SUBSET Reports]
         /\ categories \in [Categories -> CategoryRows]
BY CurriculumTypes DEF CurriculumInv

\* A step at other tables than those of what has been watched.
LEMMA NothingWatched ==
  ASSUME CurriculumInv, UNCHANGED <<views, told>>, outline' \in [Entries -> OutlineRows],
         lectures' \in [Lectures -> LectureRows], categories' \in [Categories -> CategoryRows]
  PROVE  CurriculumInv'
<1>1. CurriculumTypeOK'
    BY CurriculumTyped DEF CurriculumTypeOK, OutlineRows, LectureRows, ViewRows, CategoryRows
<1> QED  BY <1>1 DEF CurriculumInv

LEMMA TreeSteps ==
  ASSUME CurriculumInv, TreeStep
  PROVE  outline' \in [Entries -> OutlineRows]
<1>1. outline \in [Entries -> OutlineRows] /\ Nodes \subseteq Entries
    BY CurriculumTyped DEF Entries
<1>2. ASSUME NEW n \in Nodes, NEW kind \in Kinds, NEW parent \in Entries, NEW free \in BOOLEAN,
             InsertRow(n, kind, parent, free)
      PROVE  outline' \in [Entries -> OutlineRows]
  <2> DEFINE row == [kind |-> kind, parent |-> parent, free |-> free]
  <2>1. row \in OutlineRows
      BY DEF OutlineRows
  <2>2. outline' = [outline EXCEPT ![n] = row]
      BY <1>2 DEF InsertRow
  <2> HIDE DEF row
  <2> QED  BY <1>1, <2>1, <2>2
<1>3. ASSUME NEW n \in Nodes, NEW free \in BOOLEAN, outline' = [outline EXCEPT ![n].free = free]
      PROVE  outline' \in [Entries -> OutlineRows]
  <2> DEFINE row == [outline[n] EXCEPT !.free = free]
  <2>1. outline[n] \in OutlineRows
      BY <1>1
  <2>2. row \in OutlineRows
      BY <2>1 DEF OutlineRows
  <2>3. outline' = [outline EXCEPT ![n] = row]
      BY <1>3, Zenon
  <2> HIDE DEF row
  <2> QED  BY <1>1, <2>2, <2>3
<1>4. {"course", "subject", "chapter", "topic"} = Kinds /\ Course \in Entries
    BY DEF Kinds, Entries
<1>5. ASSUME NEW n \in Nodes, CreateSubject(n) PROVE outline' \in [Entries -> OutlineRows]
    BY <1>2, <1>4, <1>5 DEF CreateSubject
<1>6. ASSUME NEW n \in Nodes, HandleCreateChapter(n) PROVE outline' \in [Entries -> OutlineRows]
    BY <1>1, <1>2, <1>4, <1>6 DEF HandleCreateChapter, CreateChapter
<1>7. ASSUME NEW n \in Nodes, HandleCreateTopic(n) PROVE outline' \in [Entries -> OutlineRows]
    BY <1>1, <1>2, <1>4, <1>7 DEF HandleCreateTopic, CreateTopic
<1>8. ASSUME NEW n \in Nodes, HandleUpdateChapter(n) \/ HandleUpdateTopic(n)
      PROVE  outline' \in [Entries -> OutlineRows]
    BY <1>3, <1>8 DEF HandleUpdateChapter, HandleUpdateTopic, UpdateChapter, UpdateTopic
<1> QED  BY <1>5, <1>6, <1>7, <1>8 DEF TreeStep

\* Lectures go, and the rows and the reports of them together.
LEMMA Dropped ==
  ASSUME CurriculumInv, NEW lost \in SUBSET Lectures, Drop(lost), outline' \in [Entries -> OutlineRows],
         UNCHANGED categories
  PROVE  CurriculumInv'
<1>1. [Unrecorded EXCEPT !.state = "gone"] \in LectureRows
    BY DEF Unrecorded, LectureRows
<1>2. lectures' \in [Lectures -> LectureRows]
    BY <1>1, CurriculumTyped DEF Drop
<1>3. Unseen \in ViewRows /\ Furthest(Unseen, {})
    BY DEF Unseen, ViewRows, Furthest
<1>4. views' \in [Viewers \X Lectures -> ViewRows] /\ told' \in [Viewers \X Lectures -> SUBSET Reports]
    BY <1>3, CurriculumTyped DEF Drop
<1>5. ASSUME NEW p \in Viewers \X Lectures PROVE Furthest(views'[p], told'[p])
    BY <1>3 DEF Drop, CurriculumInv
<1>6. CurriculumTypeOK'
    BY <1>2, <1>4, CurriculumTyped DEF CurriculumTypeOK, OutlineRows, LectureRows, ViewRows, CategoryRows
<1> QED  BY <1>5, <1>6 DEF CurriculumInv

LEMMA Cascaded ==
  ASSUME CurriculumInv, NEW n, Cascade(n), UNCHANGED categories
  PROVE  CurriculumInv'
<1>1. Unwritten \in OutlineRows
    BY DEF Unwritten, OutlineRows
<1>2. outline' \in [Entries -> OutlineRows]
    BY <1>1, CurriculumTyped DEF Cascade
<1>3. Drop({l \in Lectures : lectures[l].places \cap Subtree(n) # {}})
    BY DEF Cascade
<1> QED  BY <1>2, <1>3, Dropped

\* One more report, and the row is as far as the furthest.
LEMMA ReportTaken ==
  ASSUME NEW view \in ViewRows, NEW figures \in SUBSET Reports, NEW report \in Reports, Furthest(view, figures)
  PROVE  /\ UpsertLectureView(view, report) \in ViewRows
         /\ Furthest(UpsertLectureView(view, report), figures \cup {report})
<1> DEFINE after == UpsertLectureView(view, report)
<1>1. /\ view.watched \in Seconds \cup {0} /\ view.completed \in BOOLEAN /\ view.there \in BOOLEAN
      /\ report.watched \in Seconds /\ report.completed \in BOOLEAN
      /\ \A r \in figures : r.watched \in Seconds
    BY DEF ViewRows, Reports
<1>2. (\A x \in Seconds : x \in Int) /\ \A x \in Seconds \cup {0} : x \in Int
    BY CurriculumAssumptions
<1>3. /\ after.watched = IF view.there THEN Greatest(view.watched, report.watched) ELSE report.watched
      /\ after.completed = (view.completed \/ report.completed) /\ after.there = TRUE
    BY DEF UpsertLectureView
<1>4. after.watched \in Seconds \cup {0}
    BY <1>1, <1>3 DEF Greatest
<1>5. after \in ViewRows
    BY <1>1, <1>4 DEF UpsertLectureView, ViewRows
<1> HIDE DEF after
<1>6. after.completed <=> \E r \in figures \cup {report} : r.completed
    BY <1>3 DEF Furthest
<1>7. ASSUME figures = {} PROVE Furthest(after, figures \cup {report})
  <2>1. after.watched = report.watched
      BY <1>3, <1>7 DEF Furthest
  <2>2. report.watched \in Int
      BY <1>1, <1>2
  <2>3. \A r \in figures \cup {report} : after.watched >= r.watched
      BY <1>7, <2>1, <2>2
  <2>4. \E r \in figures \cup {report} : after.watched = r.watched
      BY <2>1
  <2> QED  BY <1>3, <1>6, <2>3, <2>4 DEF Furthest
<1>8. ASSUME figures # {} PROVE Furthest(after, figures \cup {report})
  <2>1. /\ view.there /\ \E r \in figures : view.watched = r.watched
        /\ \A r \in figures : view.watched >= r.watched
      BY <1>8 DEF Furthest
  <2>2. after.watched = Greatest(view.watched, report.watched)
      BY <1>3, <2>1
  <2>3. \E r \in figures \cup {report} : after.watched = r.watched
    <3>1. PICK r \in figures : view.watched = r.watched
        BY <2>1
    <3>2. after.watched = r.watched \/ after.watched = report.watched
        BY <2>2, <3>1 DEF Greatest
    <3>3. r \in figures \cup {report} /\ report \in figures \cup {report}
        BY <3>1
    <3> QED  BY <3>2, <3>3, Zenon
  <2>6. view.watched \in Int /\ report.watched \in Int
      BY <1>1, <1>2
  <2>4. view.watched \in Int /\ report.watched \in Int /\ \A r \in figures : r.watched \in Int
      BY <1>1, <1>2, <2>6
  <2>5. \A r \in figures \cup {report} : after.watched >= r.watched
      BY <2>1, <2>2, <2>4 DEF Greatest
  <2> QED  BY <1>3, <1>6, <2>3, <2>5 DEF Furthest
<1> QED  BY <1>5, <1>7, <1>8 DEF after

LEMMA WatchSteps ==
  ASSUME CurriculumInv, NEW u \in Viewers, HandleRecordWatch(u), UNCHANGED categories
  PROVE  CurriculumInv'
<1>1. PICK l \in Lectures, report \in Reports : RecordWatch(u, l, report)
    BY DEF HandleRecordWatch
<1> DEFINE at == <<u, l>>
           row == UpsertLectureView(views[at], report)
           figures == told[at] \cup {report}
<1>2. views' = [views EXCEPT ![at] = row] /\ told' = [told EXCEPT ![at] = figures] /\ UNCHANGED <<outline, lectures>>
    BY <1>1 DEF RecordWatch
<1>3. at \in Viewers \X Lectures /\ views[at] \in ViewRows /\ told[at] \in SUBSET Reports /\ Furthest(views[at], told[at])
    BY CurriculumTyped DEF CurriculumInv
<1>4. row \in ViewRows /\ Furthest(row, figures) /\ figures \in SUBSET Reports
    BY <1>3, ReportTaken
<1> HIDE DEF at, row, figures
<1>5. /\ views' \in [Viewers \X Lectures -> ViewRows] /\ told' \in [Viewers \X Lectures -> SUBSET Reports]
      /\ \A p \in Viewers \X Lectures : p = at => views'[p] = row /\ told'[p] = figures
      /\ \A p \in Viewers \X Lectures : p # at => views'[p] = views[p] /\ told'[p] = told[p]
    BY <1>2, <1>3, <1>4, CurriculumTyped
<1>6. CurriculumTypeOK'
    BY <1>2, <1>5, CurriculumTyped DEF CurriculumTypeOK, OutlineRows, LectureRows, ViewRows, CategoryRows
<1>7. ASSUME NEW p \in Viewers \X Lectures PROVE Furthest(views'[p], told'[p])
    BY <1>4, <1>5 DEF CurriculumInv
<1> QED  BY <1>6, <1>7 DEF CurriculumInv

LEMMA LectureSteps ==
  ASSUME CurriculumInv, NEW l \in Lectures, HandleCreateLecture(l) \/ HandleUpdateLecture(l) \/ DeleteLecture(l),
         UNCHANGED categories
  PROVE  CurriculumInv'
<1>1. ASSUME NEW row \in LectureRows, lectures' = [lectures EXCEPT ![l] = row], UNCHANGED <<outline, views, told>>
      PROVE  CurriculumInv'
  <2>1. lectures' \in [Lectures -> LectureRows]
      BY <1>1, CurriculumTyped
  <2> QED  BY <1>1, <2>1, CurriculumTyped, NothingWatched
<1>2. ASSUME NEW filed \in Filings, NEW published \in BOOLEAN, CreateLecture(l, filed, published)
      PROVE  CurriculumInv'
  <2> DEFINE row == [state |-> "there", places |-> filed, published |-> published]
  <2>1. row \in LectureRows
      BY DEF LectureRows, Filings
  <2>2. lectures' = [lectures EXCEPT ![l] = row] /\ UNCHANGED <<outline, views, told>>
      BY <1>2 DEF CreateLecture
  <2> HIDE DEF row
  <2> QED  BY <1>1, <2>1, <2>2
<1>3. ASSUME NEW published \in BOOLEAN, UpdateLecture(l, published) PROVE CurriculumInv'
  <2> DEFINE row == [lectures[l] EXCEPT !.published = published]
  <2>1. lectures[l] \in LectureRows
      BY CurriculumTyped
  <2>2. row \in LectureRows
      BY <2>1 DEF LectureRows
  <2>3. lectures' = [lectures EXCEPT ![l] = row] /\ UNCHANGED <<outline, views, told>>
      BY <1>3, Zenon DEF UpdateLecture
  <2> HIDE DEF row
  <2> QED  BY <1>1, <2>2, <2>3
<1>4. ASSUME DeleteLecture(l) PROVE CurriculumInv'
    BY <1>4, Dropped, CurriculumTyped DEF DeleteLecture
<1> QED  BY <1>2, <1>3, <1>4 DEF HandleCreateLecture, HandleUpdateLecture

LEMMA CategorySteps ==
  ASSUME CurriculumInv, NEW x \in Categories, HandleCategory(x) \/ DeleteCategory(x)
  PROVE  categories' \in [Categories -> CategoryRows]
<1>1. ASSUME NEW row \in CategoryRows, categories' = [categories EXCEPT ![x] = row]
      PROVE  categories' \in [Categories -> CategoryRows]
    BY <1>1, CurriculumTyped
<1>2. ASSUME NEW slug \in Slugs, CreateCategory(x, slug) PROVE categories' \in [Categories -> CategoryRows]
  <2>1. [slug |-> slug, active |-> TRUE] \in CategoryRows
      BY DEF CategoryRows
  <2> QED  BY <1>1, <1>2, <2>1 DEF CreateCategory
<1>3. ASSUME NEW active \in BOOLEAN, UpdateCategory(x, active) PROVE categories' \in [Categories -> CategoryRows]
  <2> DEFINE row == [categories[x] EXCEPT !.active = active]
  <2>1. categories[x] \in CategoryRows
      BY CurriculumTyped
  <2>2. row \in CategoryRows
      BY <2>1 DEF CategoryRows
  <2>3. categories' = [categories EXCEPT ![x] = row]
      BY <1>3, Zenon DEF UpdateCategory
  <2> HIDE DEF row
  <2> QED  BY <1>1, <2>2, <2>3
<1>4. ASSUME DeleteCategory(x) PROVE categories' \in [Categories -> CategoryRows]
  <2>1. Uncategorised \in CategoryRows
      BY DEF CategoryRows, Uncategorised
  <2> QED  BY <1>1, <1>4, <2>1 DEF DeleteCategory
<1> QED  BY <1>2, <1>3, <1>4 DEF HandleCategory

LEMMA CurriculumInits == CurriculumInit => CurriculumInv
<1> SUFFICES ASSUME CurriculumInit PROVE CurriculumInv
    OBVIOUS
<1>1. /\ Unwritten \in OutlineRows /\ [Unwritten EXCEPT !.kind = "course"] \in OutlineRows
      /\ Unrecorded \in LectureRows /\ Unseen \in ViewRows /\ Uncategorised \in CategoryRows /\ Furthest(Unseen, {})
    BY DEF Unwritten, Unrecorded, Unseen, Uncategorised, OutlineRows, LectureRows, ViewRows, CategoryRows, Kinds, Furthest
<1>2. CurriculumTypeOK
    BY <1>1, CurriculumTypes DEF CurriculumInit
<1>3. \A p \in Viewers \X Lectures : Furthest(views[p], told[p])
    BY <1>1 DEF CurriculumInit
<1> QED  BY <1>2, <1>3 DEF CurriculumInv

LEMMA CurriculumSteps == CurriculumInv /\ [CurriculumNext]_curriculumVars => CurriculumInv'
<1> SUFFICES ASSUME CurriculumInv, [CurriculumNext]_curriculumVars PROVE CurriculumInv'
    OBVIOUS
<1>1. CASE TreeStep /\ UNCHANGED <<lectures, views, told, categories>>
    BY <1>1, TreeSteps, NothingWatched, CurriculumTyped
<1>2. ASSUME NEW n \in Nodes, DeleteSubject(n) \/ DeleteChapter(n) \/ DeleteTopic(n), UNCHANGED categories
      PROVE  CurriculumInv'
    BY <1>2, Cascaded DEF DeleteSubject, DeleteChapter, DeleteTopic
<1>3. CASE DeleteCourseTree /\ UNCHANGED categories
    BY <1>3, Cascaded DEF DeleteCourseTree
<1>4. ASSUME NEW x \in Categories, HandleCategory(x) \/ DeleteCategory(x), UNCHANGED <<outline, lectures, views, told>>
      PROVE  CurriculumInv'
    BY <1>4, CategorySteps, NothingWatched, CurriculumTyped
<1>5. CASE UNCHANGED curriculumVars
    BY <1>5, NothingWatched, CurriculumTyped DEF curriculumVars
<1> QED  BY <1>1, <1>2, <1>3, <1>4, <1>5, LectureSteps, WatchSteps DEF CurriculumNext

LEMMA CurriculumInvTells == CurriculumInv => ProgressIsFurthest
<1> SUFFICES ASSUME CurriculumInv, NEW p \in Viewers \X Lectures
             PROVE  /\ views[p].there <=> told[p] # {}
                    /\ told[p] # {} => views[p].watched = Max({r.watched : r \in told[p]})
                    /\ views[p].completed <=> \E r \in told[p] : r.completed
    BY DEF ProgressIsFurthest
<1>1. Furthest(views[p], told[p]) /\ told[p] \in SUBSET Reports
    BY CurriculumTyped DEF CurriculumInv
<1>2. ASSUME told[p] # {} PROVE views[p].watched = Max({r.watched : r \in told[p]})
  <2> DEFINE S == {r.watched : r \in told[p]}
             w == views[p].watched
  <2>1. S \subseteq Int
      BY <1>1, CurriculumAssumptions DEF Reports
  <2>2. w \in S /\ \A x \in S : w >= x
      BY <1>1, <1>2 DEF Furthest
  <2> HIDE DEF S, w
  <2>3. Max(S) \in S /\ \A x \in S : Max(S) >= x
      BY <2>2 DEF Max
  <2>5. Max(S) \in Int /\ w \in Int /\ Max(S) >= w /\ w >= Max(S)
      BY <2>1, <2>2, <2>3
  <2>4. Max(S) = w
    <3> DEFINE m == Max(S)
    <3> HIDE DEF m
    <3>1. m \in Int /\ w \in Int /\ m >= w /\ w >= m
        BY <2>5 DEF m
    <3>2. m = w
        BY <3>1
    <3> QED  BY <3>2 DEF m
  <2> QED  BY <2>4 DEF S, w
<1> QED  BY <1>1, <1>2 DEF Furthest

\* Every reachable state satisfies the invariant, and with it the type invariant.
THEOREM CurriculumInvariant == CurriculumSpec => []CurriculumInv
BY CurriculumInits, CurriculumSteps, PTL DEF CurriculumSpec

\* What is kept of how far a student has watched is the furthest that was reported, for any number
\* of reports in whatever order they come.
THEOREM ProgressAlwaysFurthest == CurriculumSpec => []ProgressIsFurthest
BY CurriculumInvariant, CurriculumInvTells, PTL

-----------------------------------------------------------------------------
(* Presence in lectures *)

AttendanceRows ==
  [status : Statuses \cup {"none", "other"}, join : Joins, watched : Nat, auto : BOOLEAN, marked : BOOLEAN]
StoredSoFar == [joins : SUBSET Joins, watched : SUBSET Nat, mark : Statuses \cup {"none", "other"}]

\* What each kind of request carries.
ReportRead(m) ==
  \/ m.by = "player" /\ m.join \in Joins /\ m.watched \in Nat
  \/ /\ m.by = "upsert" /\ m.status \in Statuses /\ m.join \in Joins /\ m.watched \in Nat
     /\ m.auto = TRUE /\ m.marked = FALSE
  \/ m.by \in {"teacher", "class"} /\ m.status \in Statuses \cup {"other"}

\* The row is that of the requests.
RowIsOf(row, so) ==
  /\ row.watched \in so.watched \cup {0}
  /\ \A seconds \in so.watched : seconds <= row.watched
  /\ IF so.joins = {} THEN row.join = "none" ELSE row.join \in so.joins
  /\ row.marked <=> so.mark # "none"
  /\ row.auto \/ row.status = so.mark

AttendanceInv ==
  /\ AttendanceTypeOK /\ attendance \in AttendanceRows /\ stored \in StoredSoFar
  /\ IsFiniteSet(reports) /\ \A m \in reports : ReportRead(m)
  /\ RowIsOf(attendance, stored)

LEMMA AttendanceTyped ==
  ASSUME AttendanceInv
  PROVE  /\ lecture \in {"unscheduled", "scheduled", "gone"} /\ attendance \in AttendanceRows /\ stored \in StoredSoFar
         /\ IsFiniteSet(reports) /\ Cardinality(reports) \in Nat /\ Cardinality(reports) <= MaxReports
         /\ qrCodes \in [live : Nat, expired : Nat] /\ MaxReports \in Nat /\ RowIsOf(attendance, stored)
BY FS_CardinalityType, AttendanceAssumptions DEF AttendanceInv, AttendanceTypeOK

\* A report of the player and a mark of a teacher, as they reach the row.
LEMMA MergedRow ==
  ASSUME NEW m, m.status \in Statuses \cup {"other"}, m.join \in Joins, m.watched \in Nat,
         m.auto \in BOOLEAN, m.marked \in BOOLEAN, m.auto # m.marked,
         attendance \in AttendanceRows, stored \in StoredSoFar, RowIsOf(attendance, stored)
  PROVE  /\ Merged(attendance, m) \in AttendanceRows /\ Noted(m) \in StoredSoFar
         /\ RowIsOf(Merged(attendance, m), Noted(m))
<1> DEFINE join == IF m.join = "none" THEN attendance.join ELSE m.join
           watched == Larger(attendance.watched, m.watched)
           marked == attendance.marked \/ m.marked
           joins == stored.joins \cup ({m.join} \ {"none"})
           times == stored.watched \cup {m.watched}
           mark == IF m.marked THEN m.status ELSE stored.mark
<1>1. /\ attendance.join \in Joins /\ attendance.watched \in Nat /\ attendance.marked \in BOOLEAN
      /\ stored.joins \subseteq Joins /\ stored.watched \subseteq Nat /\ stored.mark \in Statuses \cup {"none", "other"}
    BY DEF AttendanceRows, StoredSoFar
<1>2. join \in Joins /\ joins \subseteq Joins /\ IF joins = {} THEN join = "none" ELSE join \in joins
    BY <1>1 DEF RowIsOf
<1>3. watched \in Nat /\ times \subseteq Nat
    BY <1>1 DEF Larger
<1>4. watched \in times \cup {0}
    BY <1>1 DEF Larger, RowIsOf
<1>5. ASSUME NEW seconds \in times PROVE seconds <= watched
  <2>1. seconds \in Nat /\ (seconds <= attendance.watched \/ seconds = m.watched)
      BY <1>1 DEF RowIsOf
  <2> QED  BY <1>1, <2>1 DEF Larger
<1>6. marked \in BOOLEAN /\ mark \in Statuses \cup {"none", "other"} /\ (marked <=> mark # "none")
    BY <1>1 DEF RowIsOf, Statuses
<1>7. m.auto \/ m.status = mark
    OBVIOUS
<1>8. /\ Merged(attendance, m) = [status |-> m.status, join |-> join, watched |-> watched, auto |-> m.auto, marked |-> marked]
      /\ Noted(m) = [joins |-> joins, watched |-> times, mark |-> mark]
    BY DEF Merged, Noted
<1> HIDE DEF join, watched, marked, joins, times, mark
<1>9. Merged(attendance, m) \in AttendanceRows /\ Noted(m) \in StoredSoFar
    BY <1>2, <1>3, <1>6, <1>8 DEF AttendanceRows, StoredSoFar
<1> QED  BY <1>2, <1>4, <1>5, <1>6, <1>7, <1>8, <1>9 DEF RowIsOf

LEMMA MarkedRequest ==
  ASSUME NEW m, m.status \in Statuses \cup {"other"}
  PROVE  /\ Marked(m).status \in Statuses \cup {"other"} /\ Marked(m).join \in Joins /\ Marked(m).watched \in Nat
         /\ Marked(m).auto \in BOOLEAN /\ Marked(m).marked \in BOOLEAN /\ Marked(m).auto # Marked(m).marked
BY DEF Marked, Joins

\* One request comes, goes or becomes another.
LEMMA RequestMoves ==
  ASSUME AttendanceInv, NEW S,
         \/ Cardinality(reports) < MaxReports /\ \E m : ReportRead(m) /\ S = reports \cup {m}
         \/ \E m \in reports : S = reports \ {m}
         \/ \E m \in reports : \E n : ReportRead(n) /\ S = (reports \ {m}) \cup {n}
  PROVE  IsFiniteSet(S) /\ Cardinality(S) <= MaxReports /\ \A m \in S : ReportRead(m)
<1>1. \A m \in S : ReportRead(m)
    BY DEF AttendanceInv
<1>2. IsFiniteSet(reports) /\ Cardinality(reports) \in Nat /\ Cardinality(reports) <= MaxReports /\ MaxReports \in Nat
    BY AttendanceTyped
<1>3. ASSUME NEW T, IsFiniteSet(T), Cardinality(T) \in Nat, Cardinality(T) < MaxReports, NEW n
      PROVE  IsFiniteSet(T \cup {n}) /\ Cardinality(T \cup {n}) <= MaxReports
  <2>1. /\ IsFiniteSet(T \cup {n})
        /\ Cardinality(T \cup {n}) = Cardinality(T) \/ Cardinality(T \cup {n}) = Cardinality(T) + 1
      BY <1>3, FS_AddElement
  <2> QED  BY <1>2, <1>3, <2>1
<1>4. ASSUME NEW m \in reports
      PROVE  /\ IsFiniteSet(reports \ {m}) /\ Cardinality(reports \ {m}) \in Nat
             /\ Cardinality(reports \ {m}) < MaxReports
  <2>1. IsFiniteSet(reports \ {m}) /\ Cardinality(reports \ {m}) = Cardinality(reports) - 1
      BY <1>2, FS_RemoveElement
  <2>2. Cardinality(reports \ {m}) \in Nat
      BY <2>1, FS_CardinalityType
  <2> QED  BY <1>2, <2>1, <2>2
<1>5. IsFiniteSet(S) /\ Cardinality(S) <= MaxReports
  <2>1. CASE Cardinality(reports) < MaxReports /\ \E m : ReportRead(m) /\ S = reports \cup {m}
      BY <1>2, <1>3, <2>1
  <2>2. CASE \E m \in reports : S = reports \ {m}
      BY <1>2, <1>4, <2>2
  <2>3. ASSUME NEW m \in reports, NEW n, S = (reports \ {m}) \cup {n}
        PROVE  IsFiniteSet(S) /\ Cardinality(S) <= MaxReports
    <3> DEFINE T == reports \ {m}
    <3>1. IsFiniteSet(T) /\ Cardinality(T) \in Nat /\ Cardinality(T) < MaxReports /\ S = T \cup {n}
        BY <1>4, <2>3
    <3> HIDE DEF T
    <3> QED  BY <1>3, <3>1
  <2> QED  BY <2>1, <2>2, <2>3
<1> QED  BY <1>1, <1>5

LEMMA AttendanceKept ==
  ASSUME AttendanceInv, lecture' \in {"unscheduled", "scheduled", "gone"}, attendance' \in AttendanceRows,
         stored' \in StoredSoFar, RowIsOf(attendance', stored'),
         qrCodes' \in [live : Nat, expired : Nat],
         IsFiniteSet(reports'), Cardinality(reports') <= MaxReports, \A m \in reports' : ReportRead(m)
  PROVE  AttendanceInv'
<1>1. ASSUME NEW m \in reports' PROVE m.by \in {"player", "upsert", "teacher", "class"}
    BY DEF ReportRead
<1>2. AttendanceTypeOK'
    BY <1>1 DEF AttendanceTypeOK, AttendanceRows, StoredSoFar
<1>3. (\A m \in reports' : ReportRead(m)') /\ RowIsOf(attendance, stored)'
    BY DEF ReportRead, RowIsOf
<1> QED  BY <1>2, <1>3 DEF AttendanceInv

\* A request has come, or is lost; the row stays.
LEMMA RequestSteps ==
  ASSUME AttendanceInv,
         \/ \E join \in Joins, watched \in Watched : HandleAutoMark(join, watched)
         \/ \E status \in Statuses : HandleManualMark(status)
         \/ \E status \in {"absent", "other"} : HandleBulkMark(status)
         \/ \E m \in reports : AutoMark(m) \/ LoseReport(m)
  PROVE  AttendanceInv'
<1>1. ASSUME NEW m, ReportRead(m), Report(m) PROVE AttendanceInv'
  <2>1. Cardinality(reports) < MaxReports /\ reports' = reports \cup {m} /\ UNCHANGED <<lecture, attendance, qrCodes, stored>>
      BY <1>1 DEF Report
  <2>2. IsFiniteSet(reports') /\ Cardinality(reports') <= MaxReports /\ \A n \in reports' : ReportRead(n)
      BY <1>1, <2>1, RequestMoves
  <2> QED  BY <2>1, <2>2, AttendanceTyped, AttendanceKept
<1>2. ASSUME NEW m \in reports, LoseReport(m) PROVE AttendanceInv'
  <2>1. reports' = reports \ {m} /\ UNCHANGED <<lecture, attendance, qrCodes, stored>>
      BY <1>2 DEF LoseReport
  <2>2. IsFiniteSet(reports') /\ Cardinality(reports') <= MaxReports /\ \A n \in reports' : ReportRead(n)
      BY <2>1, RequestMoves
  <2> QED  BY <2>1, <2>2, AttendanceTyped, AttendanceKept
<1>3. ASSUME NEW m \in reports, AutoMark(m) PROVE AttendanceInv'
  <2> DEFINE n == [by |-> "upsert", status |-> Derived(m), join |-> m.join, watched |-> m.watched,
                   auto |-> TRUE, marked |-> FALSE]
  <2>1. m.by = "player" /\ m.join \in Joins /\ m.watched \in Nat
      BY <1>3 DEF AutoMark, AttendanceInv, ReportRead
  <2>2. Derived(m) \in Statuses
      BY DEF Derived, Statuses
  <2>3. ReportRead(n)
      BY <2>1, <2>2 DEF ReportRead
  <2>4. /\ UNCHANGED <<lecture, attendance, qrCodes, stored>>
        /\ reports' = reports \ {m} \/ reports' = (reports \ {m}) \cup {n}
    <3>1. CASE lecture = "gone"
        BY <1>3, <3>1 DEF AutoMark
    <3>2. CASE lecture # "gone"
        BY <1>3, <3>2 DEF AutoMark
    <3> QED  BY <3>1, <3>2
  <2> HIDE DEF n
  <2>5. IsFiniteSet(reports') /\ Cardinality(reports') <= MaxReports /\ \A k \in reports' : ReportRead(k)
      BY <2>3, <2>4, RequestMoves
  <2> QED  BY <2>4, <2>5, AttendanceTyped, AttendanceKept
<1>4. ASSUME NEW join \in Joins, NEW watched \in Watched, HandleAutoMark(join, watched)
      PROVE  AttendanceInv'
  <2>1. watched \in Nat
      BY AttendanceAssumptions
  <2>2. ReportRead([by |-> "player", join |-> join, watched |-> watched])
      BY <2>1 DEF ReportRead
  <2> QED  BY <1>1, <1>4, <2>2 DEF HandleAutoMark
<1>5. ASSUME NEW status \in Statuses, HandleManualMark(status)
      PROVE  AttendanceInv'
  <2>1. ReportRead([by |-> "teacher", status |-> status])
      BY DEF ReportRead
  <2> QED  BY <1>1, <1>5, <2>1 DEF HandleManualMark
<1>6. ASSUME NEW status \in {"absent", "other"}, HandleBulkMark(status)
      PROVE  AttendanceInv'
  <2>1. ReportRead([by |-> "class", status |-> status])
      BY DEF ReportRead, Statuses
  <2> QED  BY <1>1, <1>6, <2>1 DEF HandleBulkMark
<1> QED  BY <1>2, <1>3, <1>4, <1>5, <1>6

\* A request is stored.
LEMMA StoreSteps ==
  ASSUME AttendanceInv, NEW m \in reports, UpsertAttendance(m) \/ ManualMark(m) \/ BulkMark(m)
  PROVE  AttendanceInv'
<1>1. reports' = reports \ {m} /\ UNCHANGED <<lecture, qrCodes>>
    BY DEF UpsertAttendance, ManualMark, BulkMark
<1>2. IsFiniteSet(reports') /\ Cardinality(reports') <= MaxReports /\ \A n \in reports' : ReportRead(n)
    BY <1>1, RequestMoves
<1>3. attendance' \in AttendanceRows /\ stored' \in StoredSoFar /\ RowIsOf(attendance', stored')
  <2>1. ASSUME UNCHANGED <<attendance, stored>>
        PROVE  attendance' \in AttendanceRows /\ stored' \in StoredSoFar /\ RowIsOf(attendance', stored')
      BY <2>1, AttendanceTyped
  <2>2. ASSUME NEW n, n.status \in Statuses \cup {"other"}, n.join \in Joins, n.watched \in Nat,
               n.auto \in BOOLEAN, n.marked \in BOOLEAN, n.auto # n.marked, Store(n)
        PROVE  attendance' \in AttendanceRows /\ stored' \in StoredSoFar /\ RowIsOf(attendance', stored')
    <3>1. \/ UNCHANGED <<attendance, stored>>
          \/ attendance' = Merged(attendance, n) /\ stored' = Noted(n)
        BY <2>2 DEF Store
    <3>2. /\ Merged(attendance, n) \in AttendanceRows /\ Noted(n) \in StoredSoFar
          /\ RowIsOf(Merged(attendance, n), Noted(n))
        BY <2>2, MergedRow, AttendanceTyped
    <3> QED  BY <2>1, <3>1, <3>2
  <2>3. CASE UpsertAttendance(m)
    <3>1. /\ m.status \in Statuses \cup {"other"} /\ m.join \in Joins /\ m.watched \in Nat
          /\ m.auto = TRUE /\ m.marked = FALSE /\ Store(m)
        BY <2>3 DEF UpsertAttendance, AttendanceInv, ReportRead
    <3>2. m.auto \in BOOLEAN /\ m.marked \in BOOLEAN /\ m.auto # m.marked
        BY <3>1
    <3> QED  BY <2>2, <3>1, <3>2
  <2>4. CASE ManualMark(m) \/ BulkMark(m)
    <3>1. m.status \in Statuses \cup {"other"}
        BY <2>4 DEF ManualMark, BulkMark, AttendanceInv, ReportRead
    <3>2. UNCHANGED <<attendance, stored>> \/ Store(Marked(m))
        BY <2>4 DEF ManualMark, BulkMark
    <3> QED  BY <2>1, <2>2, <3>1, <3>2, MarkedRequest
  <2> QED  BY <2>3, <2>4
<1> QED  BY <1>1, <1>2, <1>3, AttendanceTyped, AttendanceKept

\* A step at the lecture or its codes.
LEMMA LectureMoves ==
  ASSUME AttendanceInv, HandleCreateQRCode \/ QRCodeExpires \/ RescheduleLecture \/ DeleteAttendedLecture
  PROVE  AttendanceInv'
<1>1. qrCodes.live \in Nat /\ qrCodes.expired \in Nat /\ UNCHANGED reports
    BY AttendanceTyped DEF HandleCreateQRCode, CreateQRCode, QRCodeExpires, RescheduleLecture, DeleteAttendedLecture
<1>2. NoRow \in AttendanceRows /\ NothingStored \in StoredSoFar /\ RowIsOf(NoRow, NothingStored)
    BY DEF NoRow, NothingStored, AttendanceRows, StoredSoFar, RowIsOf, Joins
<1>3. qrCodes' \in [live : Nat, expired : Nat]
  <2>1. CASE HandleCreateQRCode
      BY <1>1, <2>1, AttendanceTyped DEF HandleCreateQRCode, CreateQRCode
  <2>2. CASE QRCodeExpires
      BY <1>1, <2>2 DEF QRCodeExpires
  <2>3. CASE RescheduleLecture \/ DeleteAttendedLecture
      BY <2>3, AttendanceTyped DEF RescheduleLecture, DeleteAttendedLecture
  <2> QED  BY <2>1, <2>2, <2>3
<1>4. /\ lecture' \in {"unscheduled", "scheduled", "gone"}
      /\ UNCHANGED <<attendance, stored>> \/ (attendance' = NoRow /\ stored' = NothingStored)
    BY AttendanceTyped DEF HandleCreateQRCode, CreateQRCode, QRCodeExpires, RescheduleLecture, DeleteAttendedLecture
<1>5. \A m \in reports : ReportRead(m)
    BY DEF AttendanceInv
<1> QED  BY <1>1, <1>2, <1>3, <1>4, <1>5, AttendanceTyped, AttendanceKept

LEMMA AttendanceInits == AttendanceInit => AttendanceInv
<1> SUFFICES ASSUME AttendanceInit PROVE AttendanceInv
    OBVIOUS
<1>1. NoRow \in AttendanceRows /\ NothingStored \in StoredSoFar /\ RowIsOf(NoRow, NothingStored)
    BY DEF NoRow, NothingStored, AttendanceRows, StoredSoFar, RowIsOf, Joins
<1>2. IsFiniteSet(reports) /\ Cardinality(reports) = 0 /\ reports = {}
    BY FS_EmptySet DEF AttendanceInit
<1> QED  BY <1>1, <1>2, AttendanceAssumptions DEF AttendanceInit, AttendanceInv, AttendanceTypeOK, AttendanceRows, StoredSoFar

LEMMA AttendanceSteps == AttendanceInv /\ [AttendanceNext]_attendanceVars => AttendanceInv'
<1> SUFFICES ASSUME AttendanceInv, [AttendanceNext]_attendanceVars PROVE AttendanceInv'
    OBVIOUS
<1>1. CASE UNCHANGED attendanceVars
  <2>1. UNCHANGED <<lecture, attendance, reports, qrCodes, stored>>
      BY <1>1 DEF attendanceVars
  <2>2. \A m \in reports : ReportRead(m)
      BY DEF AttendanceInv
  <2> QED  BY <2>1, <2>2, AttendanceTyped, AttendanceKept
<1> QED  BY <1>1, RequestSteps, StoreSteps, LectureMoves DEF AttendanceNext

\* Every reachable state satisfies the invariant, and with it the type invariant.
THEOREM AttendanceInvariant == AttendanceSpec => []AttendanceInv
BY AttendanceInits, AttendanceSteps, PTL DEF AttendanceSpec

\* The row of a student's presence is that of all the requests stored: the longest time watched, a
\* join if any told of one and one they told of, and a status that is the player's or else the last
\* that a teacher gave, for any number of reports and marks in whatever order they come.
THEOREM EvidenceAlwaysStays == AttendanceSpec => []EvidenceStays
<1>1. AttendanceInv => EvidenceStays
    BY DEF AttendanceInv, RowIsOf, EvidenceStays
<1> QED  BY <1>1, AttendanceInvariant, PTL

-----------------------------------------------------------------------------
(* Devices *)

DeviceRows == [phone : Phones, owner : Owners, active : BOOLEAN]
LaunchRows == [at : {"idle", "count", "evict", "upsert"}, phone : Phones \cup {"none"}, owner : Owners \cup {"none"}]
OnePerPhone(s) == \A i, j \in DOMAIN s : s[i].phone = s[j].phone => i = j
ActiveOf(s, u) == {i \in DOMAIN s : s[i].owner = u /\ s[i].active}
Storing(u) == {l \in Launches : launch[l].at = "upsert" /\ launch[l].owner = u}
DeviceCap == MaxActiveDevices + Cardinality(Launches) - 1 + breakdowns

DevicesInv ==
  /\ DeviceTypeOK
  /\ \A l \in Launches : launch[l].at # "idle" => launch[l].phone \in Phones /\ launch[l].owner \in Owners
  /\ \A u \in Owners : Cardinality(ActiveOf(devices, u)) + Cardinality(Storing(u)) <= DeviceCap

LEMMA DevicesTyped ==
  ASSUME DevicesInv
  PROVE  /\ devices \in Seq(DeviceRows) /\ OnePerPhone(devices)
         /\ launch \in [Launches -> LaunchRows] /\ breakdowns \in Nat /\ breakdowns <= MaxBreakdowns
         /\ MaxActiveDevices \in Nat /\ MaxActiveDevices >= 1 /\ MaxBreakdowns \in Nat
         /\ Cardinality(Launches) \in Nat
BY DeviceAssumptions, FS_CardinalityType
   DEF DevicesInv, DeviceTypeOK, DeviceRows, LaunchRows, OnePerPhone

\* The rows of a user are finitely many.
LEMMA ActiveFinite ==
  ASSUME NEW s \in Seq(DeviceRows), NEW u
  PROVE  IsFiniteSet(ActiveOf(s, u)) /\ Cardinality(ActiveOf(s, u)) \in Nat
<1>1. IsFiniteSet(1 .. Len(s))
    BY FS_Interval
<1>2. ActiveOf(s, u) \subseteq 1 .. Len(s)
    BY DEF ActiveOf
<1> QED  BY <1>1, <1>2, FS_Subset, FS_CardinalityType

LEMMA StoringFinite ==
  ASSUME NEW u
  PROVE  IsFiniteSet(Storing(u)) /\ Cardinality(Storing(u)) \in Nat /\ Cardinality(Storing(u)) <= Cardinality(Launches)
<1>1. Storing(u) \subseteq Launches
    BY DEF Storing
<1> QED  BY <1>1, FS_Subset, FS_CardinalityType, DeviceAssumptions

\* What is left of a sequence without one of its elements.
LEMMA RemovedRow ==
  ASSUME NEW s \in Seq(DeviceRows), NEW k \in DOMAIN s
  PROVE  /\ RemoveAt(s, k) \in Seq(DeviceRows)
         /\ Len(RemoveAt(s, k)) = Len(s) - 1
         /\ \A i \in 1 .. Len(s) - 1 : RemoveAt(s, k)[i] = IF i < k THEN s[i] ELSE s[i + 1]
<1> DEFINE front == SubSeq(s, 1, k - 1)
           back == SubSeq(s, k + 1, Len(s))
<1>1. k \in 1 .. Len(s) /\ Len(s) \in Nat
    OBVIOUS
<1>2. front \in Seq(DeviceRows) /\ Len(front) = k - 1 /\ \A i \in 1 .. k - 1 : front[i] = s[i]
    BY <1>1
<1>3. back \in Seq(DeviceRows) /\ Len(back) = Len(s) - k /\ \A i \in 1 .. Len(s) - k : back[i] = s[i + k]
  <2>1. CASE k = Len(s)
      BY <1>1, <2>1
  <2>2. CASE k # Len(s)
      BY <1>1, <2>2
  <2> QED  BY <2>1, <2>2
<1>4. RemoveAt(s, k) = front \o back
    BY DEF RemoveAt
<1> HIDE DEF front, back
<1>5. front \o back \in Seq(DeviceRows)
    BY <1>2, <1>3, ConcatProperties
<1>6. Len(front \o back) = Len(s) - 1
    BY <1>1, <1>2, <1>3, ConcatProperties
<1>7. ASSUME NEW i \in 1 .. Len(s) - 1 PROVE (front \o back)[i] = IF i < k THEN s[i] ELSE s[i + 1]
  <2>1. CASE i < k
    <3>1. i \in 1 .. Len(front)
        BY <1>1, <1>2, <2>1
    <3>2. (front \o back)[i] = front[i]
        BY <1>2, <1>3, <3>1
    <3> QED  BY <1>1, <1>2, <2>1, <3>2
  <2>2. CASE ~(i < k)
    <3>1. i - Len(front) \in 1 .. Len(s) - k /\ (i - Len(front)) + k = i + 1
        BY <1>1, <1>2, <2>2
    <3>4. i \in 1 .. Len(front) + Len(back) /\ ~(i <= Len(front))
        BY <1>1, <1>2, <1>3, <2>2
    <3>5. \A j \in 1 .. Len(front) + Len(back) :
            (front \o back)[j] = IF j <= Len(front) THEN front[j] ELSE back[j - Len(front)]
        BY <1>2, <1>3, ConcatProperties
    <3>2. (front \o back)[i] = back[i - Len(front)]
        BY <3>4, <3>5
    <3>3. back[i - Len(front)] = s[(i - Len(front)) + k]
        BY <1>3, <3>1
    <3> QED  BY <2>2, <3>1, <3>2, <3>3
  <2> QED  BY <2>1, <2>2
<1> QED  BY <1>4, <1>5, <1>6, <1>7

\* No user has more devices after a row is gone, and a phone still has one.
LEMMA FewerDevices ==
  ASSUME NEW s \in Seq(DeviceRows), NEW k \in DOMAIN s, OnePerPhone(s)
  PROVE  /\ OnePerPhone(RemoveAt(s, k))
         /\ \A i \in DOMAIN RemoveAt(s, k) : RemoveAt(s, k)[i].phone # s[k].phone
         /\ \A u : Cardinality(ActiveOf(RemoveAt(s, k), u)) <= Cardinality(ActiveOf(s, u))
<1> DEFINE t == RemoveAt(s, k)
           g(i) == IF i < k THEN i ELSE i + 1
<1>1. /\ t \in Seq(DeviceRows) /\ Len(t) = Len(s) - 1
      /\ \A i \in 1 .. Len(s) - 1 : t[i] = IF i < k THEN s[i] ELSE s[i + 1]
    BY RemovedRow
<1> HIDE DEF t
<1>2. DOMAIN t = 1 .. Len(s) - 1 /\ k \in 1 .. Len(s) /\ DOMAIN s = 1 .. Len(s) /\ Len(s) \in Nat
    BY <1>1
<1>3. \A i \in DOMAIN t : g(i) \in DOMAIN s /\ g(i) # k /\ t[i] = s[g(i)]
    BY <1>1, <1>2
<1>4. \A i, j \in DOMAIN t : g(i) = g(j) => i = j
    BY <1>2
<1>5. OnePerPhone(t) /\ \A i \in DOMAIN t : t[i].phone # s[k].phone
  <2> HIDE DEF g
  <2> QED  BY <1>3, <1>4 DEF OnePerPhone
<1>6. ASSUME NEW u PROVE Cardinality(ActiveOf(t, u)) <= Cardinality(ActiveOf(s, u))
  <2> HIDE DEF g
  <2> DEFINE f == [i \in ActiveOf(t, u) |-> g(i)]
  <2>1. f \in [ActiveOf(t, u) -> ActiveOf(s, u)]
      BY <1>3 DEF ActiveOf
  <2>2. \A i, j \in ActiveOf(t, u) : f[i] = f[j] => i = j
      BY <1>4 DEF ActiveOf
  <2>3. f \in Injection(ActiveOf(t, u), ActiveOf(s, u))
      BY <2>1, <2>2 DEF Injection, IsInjective
  <2> QED  BY <2>3, ActiveFinite, FS_Injection
<1> QED  BY <1>5, <1>6 DEF t

\* A row that leaves or ages is none that was counted.
LEMMA WithoutRow ==
  ASSUME DevicesInv, NEW p
  PROVE  /\ WithoutDevice(p) \in Seq(DeviceRows) /\ OnePerPhone(WithoutDevice(p))
         /\ \A i \in DOMAIN WithoutDevice(p) : WithoutDevice(p)[i].phone # p
         /\ \A u : Cardinality(ActiveOf(WithoutDevice(p), u)) <= Cardinality(ActiveOf(devices, u))
<1> DEFINE its == {i \in DOMAIN devices : devices[i].phone = p}
           k == CHOOSE i \in its : TRUE
<1>1. devices \in Seq(DeviceRows) /\ OnePerPhone(devices)
    BY DevicesTyped
<1>2. CASE its = {}
  <2>1. WithoutDevice(p) = devices
      BY <1>2 DEF WithoutDevice
  <2>2. \A u : Cardinality(ActiveOf(devices, u)) <= Cardinality(ActiveOf(devices, u))
      BY <1>1, ActiveFinite
  <2> QED  BY <1>1, <1>2, <2>1, <2>2
<1>3. CASE its # {}
  <2>1. k \in DOMAIN devices /\ devices[k].phone = p
      BY <1>3
  <2>2. WithoutDevice(p) = RemoveAt(devices, k)
      BY <1>3 DEF WithoutDevice
  <2> HIDE DEF k
  <2> QED  BY <1>1, <2>1, <2>2, FewerDevices, RemovedRow
<1> QED  BY <1>2, <1>3

\* One more row, of a phone that has none.
LEMMA OneMoreDevice ==
  ASSUME NEW s \in Seq(DeviceRows), NEW row \in DeviceRows, OnePerPhone(s), \A i \in DOMAIN s : s[i].phone # row.phone
  PROVE  /\ Append(s, row) \in Seq(DeviceRows) /\ OnePerPhone(Append(s, row))
         /\ Cardinality(ActiveOf(Append(s, row), row.owner)) <= Cardinality(ActiveOf(s, row.owner)) + 1
         /\ \A u : u # row.owner => ActiveOf(Append(s, row), u) = ActiveOf(s, u)
<1> DEFINE t == Append(s, row)
           n == Len(s) + 1
<1>1. /\ t \in Seq(DeviceRows) /\ DOMAIN t = 1 .. n /\ n \in Nat /\ DOMAIN s = 1 .. n - 1
      /\ \A i \in 1 .. n - 1 : t[i] = s[i]
      /\ t[n] = row
    OBVIOUS
<1> HIDE DEF t, n
<1>2. OnePerPhone(t)
    BY <1>1 DEF OnePerPhone
<1>3. \A u : u # row.owner => ActiveOf(t, u) = ActiveOf(s, u)
    BY <1>1 DEF ActiveOf
<1>4. ActiveOf(t, row.owner) \subseteq ActiveOf(s, row.owner) \cup {n}
    BY <1>1 DEF ActiveOf
<1>5. Cardinality(ActiveOf(t, row.owner)) <= Cardinality(ActiveOf(s, row.owner)) + 1
  <2> DEFINE T == ActiveOf(s, row.owner)
  <2>1. IsFiniteSet(T) /\ Cardinality(T) \in Nat
      BY ActiveFinite
  <2>2. IsFiniteSet(ActiveOf(t, row.owner)) /\ Cardinality(ActiveOf(t, row.owner)) \in Nat
      BY <1>1, ActiveFinite
  <2> HIDE DEF T
  <2>3. /\ IsFiniteSet(T \cup {n})
        /\ Cardinality(T \cup {n}) = Cardinality(T) \/ Cardinality(T \cup {n}) = Cardinality(T) + 1
      BY <2>1, FS_AddElement
  <2>4. Cardinality(ActiveOf(t, row.owner)) <= Cardinality(T \cup {n})
      BY <1>4, <2>3, FS_Subset DEF T
  <2>5. Cardinality(ActiveOf(t, row.owner)) <= Cardinality(T) + 1
      BY <2>1, <2>2, <2>3, <2>4
  <2> QED  BY <2>5 DEF T
<1> QED  BY <1>1, <1>2, <1>3, <1>5 DEF t

\* The steps that leave the rows and where a launch is as they are counted.
LEMMA DevicesKept ==
  ASSUME DevicesInv, NEW rowsAfter \in Seq(DeviceRows), OnePerPhone(rowsAfter), devices' = rowsAfter,
         \A u : Cardinality(ActiveOf(rowsAfter, u)) <= Cardinality(ActiveOf(devices, u)),
         UNCHANGED breakdowns,
         \/ UNCHANGED launch
         \/ \E l \in Launches, row \in LaunchRows :
              /\ launch' = [launch EXCEPT ![l] = row]
              /\ row.at # "upsert"
              /\ row.at # "idle" => row.phone \in Phones /\ row.owner \in Owners
  PROVE  DevicesInv'
<1>1. /\ launch' \in [Launches -> LaunchRows]
      /\ \A l \in Launches : launch'[l].at # "idle" => launch'[l].phone \in Phones /\ launch'[l].owner \in Owners
      /\ \A u : Storing(u)' \subseteq Storing(u)
  <2>1. CASE UNCHANGED launch
      BY <2>1, DevicesTyped DEF DevicesInv, Storing
  <2>2. ASSUME NEW l \in Launches, NEW row \in LaunchRows, launch' = [launch EXCEPT ![l] = row], row.at # "upsert",
               row.at # "idle" => row.phone \in Phones /\ row.owner \in Owners
        PROVE  <1>1!:
    <3>1. \A k \in Launches : launch'[k] = IF k = l THEN row ELSE launch[k]
        BY <2>2, DevicesTyped
    <3>2. launch' \in [Launches -> LaunchRows]
        BY <2>2, DevicesTyped
    <3> QED  BY <2>2, <3>1, <3>2 DEF DevicesInv, Storing
  <2> QED  BY <2>1, <2>2
<1>2. DeviceTypeOK'
    BY <1>1, DevicesTyped DEF DeviceTypeOK, DeviceRows, LaunchRows, OnePerPhone, DevicesInv
<1>3. ASSUME NEW u \in Owners PROVE (Cardinality(ActiveOf(devices, u)) + Cardinality(Storing(u)) <= DeviceCap)'
  <2>1. Cardinality(Storing(u)') <= Cardinality(Storing(u)) /\ Cardinality(Storing(u)') \in Nat
      BY <1>1, StoringFinite, FS_Subset, FS_CardinalityType
  <2>2. Cardinality(Storing(u)) \in Nat /\ Cardinality(ActiveOf(devices, u)) \in Nat
        /\ Cardinality(ActiveOf(devices', u)) \in Nat
      BY StoringFinite, ActiveFinite, DevicesTyped
  <2>3. Cardinality(ActiveOf(devices', u)) <= Cardinality(ActiveOf(devices, u))
      OBVIOUS
  <2>4. Cardinality(ActiveOf(devices, u)) + Cardinality(Storing(u)) <= DeviceCap /\ DeviceCap \in Int
      BY DevicesTyped DEF DevicesInv, DeviceCap
  <2>5. Cardinality(ActiveOf(devices', u)) + Cardinality(Storing(u)') <= DeviceCap
      BY <2>1, <2>2, <2>3, <2>4
  <2> QED  BY <2>5 DEF DeviceCap, ActiveOf
<1> QED  BY <1>1, <1>2, <1>3 DEF DevicesInv

\* A launch that goes on to store its token, below the cap or after a failure.
LEMMA GoesOnToStore ==
  ASSUME DevicesInv, NEW l \in Launches, launch[l].at \in {"count", "evict"},
         launch' = [launch EXCEPT ![l].at = "upsert"], UNCHANGED devices,
         breakdowns' \in 0 .. MaxBreakdowns,
         \/ BelowCap(launch[l].owner) /\ UNCHANGED breakdowns
         \/ breakdowns' = breakdowns + 1
  PROVE  DevicesInv'
<1> DEFINE o == launch[l].owner
           row == [launch[l] EXCEPT !.at = "upsert"]
<1>1. launch[l] \in LaunchRows /\ launch[l].at # "idle" /\ launch[l].phone \in Phones /\ o \in Owners
    BY DevicesTyped DEF DevicesInv
<1>2. row \in LaunchRows /\ row.at = "upsert" /\ row.phone = launch[l].phone /\ row.owner = o
    BY <1>1 DEF LaunchRows
<1>3. launch' = [launch EXCEPT ![l] = row]
    BY Zenon
<1> HIDE DEF row
<1>4. launch' \in [Launches -> LaunchRows] /\ \A k \in Launches : launch'[k] = IF k = l THEN row ELSE launch[k]
    BY <1>2, <1>3, DevicesTyped
<1>5. DeviceTypeOK'
    BY <1>4, DevicesTyped DEF DeviceTypeOK, DeviceRows, LaunchRows, OnePerPhone, DevicesInv
<1>6. \A k \in Launches : launch'[k].at # "idle" => launch'[k].phone \in Phones /\ launch'[k].owner \in Owners
    BY <1>1, <1>2, <1>4 DEF DevicesInv
<1>7. ASSUME NEW u \in Owners PROVE (Cardinality(ActiveOf(devices, u)) + Cardinality(Storing(u)) <= DeviceCap)'
  <2>1. Cardinality(Storing(u)) \in Nat /\ Cardinality(ActiveOf(devices, u)) \in Nat /\ IsFiniteSet(Storing(u))
      BY StoringFinite, ActiveFinite, DevicesTyped
  <2>2. Cardinality(ActiveOf(devices, u)) + Cardinality(Storing(u)) <= DeviceCap /\ DeviceCap \in Int
        /\ breakdowns \in Nat
      BY DevicesTyped DEF DevicesInv, DeviceCap
  <2>3. DeviceCap' = DeviceCap + (breakdowns' - breakdowns)
      BY DevicesTyped DEF DeviceCap
  <2>4. CASE u # o
    <3>1. Storing(u)' = Storing(u)
        BY <1>1, <1>2, <1>4, <2>4 DEF Storing
    <3>2. DeviceCap' >= DeviceCap
        BY <2>2, <2>3
    <3> QED  BY <2>1, <2>2, <2>3, <3>1, <3>2 DEF ActiveOf
  <2>5. CASE u = o
    <3>1. Storing(u)' = Storing(u) \cup {l} /\ l \notin Storing(u)
        BY <1>1, <1>2, <1>4, <2>5 DEF Storing
    <3>2. Cardinality(Storing(u)') = Cardinality(Storing(u)) + 1
        BY <2>1, <3>1, FS_AddElement
    <3>3. Storing(u)' \subseteq Launches
        BY DEF Storing
    <3>4. Cardinality(Storing(u)') <= Cardinality(Launches)
        BY <3>3, FS_Subset, DeviceAssumptions
    <3>5. Cardinality(ActiveOf(devices, u)) + Cardinality(Storing(u)') <= DeviceCap'
      <4>1. CASE breakdowns' = breakdowns + 1
          BY <2>1, <2>2, <2>3, <3>2, <4>1
      <4>2. CASE BelowCap(o) /\ UNCHANGED breakdowns
        <5>1. Cardinality(ActiveOf(devices, u)) < MaxActiveDevices
            BY <2>5, <4>2 DEF BelowCap, CountActiveDevicesForUser, ActiveOf
        <5> QED  BY <2>1, <2>2, <3>2, <3>4, <4>2, <5>1, DevicesTyped DEF DeviceCap
      <4> QED  BY <4>1, <4>2
    <3> QED  BY <3>5 DEF ActiveOf
  <2> QED  BY <2>4, <2>5
<1> QED  BY <1>5, <1>6, <1>7 DEF DevicesInv

\* A launch that stores its token.
LEMMA StoresToken ==
  ASSUME DevicesInv, NEW l \in Launches, UpsertDeviceToken(l)
  PROVE  DevicesInv'
<1> DEFINE o == launch[l].owner
           p == launch[l].phone
           row == [phone |-> p, owner |-> o, active |-> TRUE]
           base == WithoutDevice(p)
<1>1. launch[l] \in LaunchRows /\ launch[l].at = "upsert" /\ p \in Phones /\ o \in Owners
    BY DevicesTyped DEF DevicesInv, UpsertDeviceToken
<1>2. row \in DeviceRows /\ row.phone = p /\ row.owner = o
    BY <1>1 DEF DeviceRows
<1>3. devices' = Append(base, row) /\ UNCHANGED breakdowns /\ launch' = [launch EXCEPT ![l] = NoLaunch]
    BY DEF UpsertDeviceToken
<1>4. /\ base \in Seq(DeviceRows) /\ OnePerPhone(base) /\ \A i \in DOMAIN base : base[i].phone # p
      /\ \A u : Cardinality(ActiveOf(base, u)) <= Cardinality(ActiveOf(devices, u))
    BY WithoutRow
<1> HIDE DEF row, base
<1>5. /\ devices' \in Seq(DeviceRows) /\ OnePerPhone(devices')
      /\ Cardinality(ActiveOf(devices', o)) <= Cardinality(ActiveOf(base, o)) + 1
      /\ \A u : u # o => ActiveOf(devices', u) = ActiveOf(base, u)
    BY <1>2, <1>3, <1>4, OneMoreDevice
<1>6. NoLaunch \in LaunchRows /\ NoLaunch.at = "idle"
    BY DEF NoLaunch, LaunchRows
<1>7. launch' \in [Launches -> LaunchRows] /\ \A k \in Launches : launch'[k] = IF k = l THEN NoLaunch ELSE launch[k]
    BY <1>3, <1>6, DevicesTyped
<1>8. DeviceTypeOK'
    BY <1>3, <1>5, <1>7, DevicesTyped DEF DeviceTypeOK, DeviceRows, LaunchRows, OnePerPhone, DevicesInv
<1>9. \A k \in Launches : launch'[k].at # "idle" => launch'[k].phone \in Phones /\ launch'[k].owner \in Owners
    BY <1>6, <1>7 DEF DevicesInv
<1>10. ASSUME NEW u \in Owners PROVE (Cardinality(ActiveOf(devices, u)) + Cardinality(Storing(u)) <= DeviceCap)'
  <2>1. /\ Cardinality(Storing(u)) \in Nat /\ IsFiniteSet(Storing(u)) /\ Cardinality(ActiveOf(devices, u)) \in Nat
        /\ Cardinality(ActiveOf(base, u)) \in Nat /\ Cardinality(ActiveOf(devices', u)) \in Nat
      BY <1>4, <1>5, StoringFinite, ActiveFinite, DevicesTyped
  <2>2. Cardinality(ActiveOf(devices, u)) + Cardinality(Storing(u)) <= DeviceCap /\ DeviceCap \in Int
      BY DevicesTyped DEF DevicesInv, DeviceCap
  <2>3. Cardinality(ActiveOf(base, u)) <= Cardinality(ActiveOf(devices, u))
      BY <1>4
  <2>4. Cardinality(ActiveOf(devices', u)) + Cardinality(Storing(u)') <= DeviceCap
    <3>1. CASE u # o
      <4>1. Storing(u)' = Storing(u)
          BY <1>1, <1>6, <1>7, <3>1 DEF Storing
      <4> QED  BY <1>5, <2>1, <2>2, <2>3, <3>1, <4>1
    <3>2. CASE u = o
      <4>1. Storing(u)' = Storing(u) \ {l} /\ l \in Storing(u)
          BY <1>1, <1>6, <1>7, <3>2 DEF Storing
      <4>2. Cardinality(Storing(u)') = Cardinality(Storing(u)) - 1
          BY <2>1, <4>1, FS_RemoveElement
      <4> QED  BY <1>5, <2>1, <2>2, <2>3, <3>2, <4>2
    <3> QED  BY <3>1, <3>2
  <2> QED  BY <1>3, <2>4 DEF ActiveOf, DeviceCap
<1> QED  BY <1>8, <1>9, <1>10 DEF DevicesInv

\* A device is evicted, if there is one.
LEMMA Evicted ==
  ASSUME DevicesInv, NEW u, NEW after \in EvictOldestDeviceForUser(u)
  PROVE  /\ after \in Seq(DeviceRows) /\ OnePerPhone(after)
         /\ \A v : Cardinality(ActiveOf(after, v)) <= Cardinality(ActiveOf(devices, v))
<1>1. after = devices \/ \E i \in DOMAIN devices : after = RemoveAt(devices, i)
    BY DEF EvictOldestDeviceForUser
<1>2. devices \in Seq(DeviceRows) /\ OnePerPhone(devices)
    BY DevicesTyped
<1>3. CASE after = devices
  <2>1. \A v : Cardinality(ActiveOf(devices, v)) <= Cardinality(ActiveOf(devices, v))
      BY <1>2, ActiveFinite
  <2> QED  BY <1>2, <1>3, <2>1
<1>4. ASSUME NEW i \in DOMAIN devices, after = RemoveAt(devices, i)
      PROVE  /\ after \in Seq(DeviceRows) /\ OnePerPhone(after)
             /\ \A v : Cardinality(ActiveOf(after, v)) <= Cardinality(ActiveOf(devices, v))
    BY <1>2, <1>4, FewerDevices, RemovedRow
<1> QED  BY <1>1, <1>3, <1>4

LEMMA DevicesInit == DeviceInit => DevicesInv
<1> SUFFICES ASSUME DeviceInit PROVE DevicesInv
    OBVIOUS
<1>1. NoLaunch \in LaunchRows /\ NoLaunch.at = "idle"
    BY DEF NoLaunch, LaunchRows
<1>2. devices = << >> /\ breakdowns = 0 /\ \A l \in Launches : launch[l] = NoLaunch
    BY DEF DeviceInit
<1>3. launch \in [Launches -> LaunchRows]
    BY <1>1 DEF DeviceInit
<1>4. MaxActiveDevices \in Nat /\ MaxActiveDevices >= 1 /\ MaxBreakdowns \in Nat /\ Cardinality(Launches) \in Nat
    BY DeviceAssumptions, FS_CardinalityType
<1>5. DeviceTypeOK
    BY <1>2, <1>3, <1>4 DEF DeviceTypeOK, LaunchRows
<1>6. \A u : ActiveOf(devices, u) = {} /\ Storing(u) = {}
    BY <1>1, <1>2 DEF ActiveOf, Storing
<1>7. Cardinality({}) = 0
    BY FS_EmptySet
<1>8. \A u \in Owners : Cardinality(ActiveOf(devices, u)) + Cardinality(Storing(u)) <= DeviceCap
  <2>1. DeviceCap >= 0 /\ DeviceCap \in Int
      BY <1>2, <1>4 DEF DeviceCap
  <2> QED  BY <1>6, <1>7, <2>1
<1> QED  BY <1>1, <1>2, <1>5, <1>8 DEF DevicesInv

LEMMA DevicesStep == DevicesInv /\ [DeviceNext]_deviceVars => DevicesInv'
<1> SUFFICES ASSUME DevicesInv, [DeviceNext]_deviceVars PROVE DevicesInv'
    OBVIOUS
<1>0. /\ devices \in Seq(DeviceRows) /\ OnePerPhone(devices) /\ launch \in [Launches -> LaunchRows]
      /\ breakdowns \in Nat /\ breakdowns <= MaxBreakdowns /\ MaxBreakdowns \in Nat
      /\ \A u : Cardinality(ActiveOf(devices, u)) <= Cardinality(ActiveOf(devices, u))
    BY DevicesTyped, ActiveFinite
<1>1. ASSUME NEW l \in Launches, NEW p \in Phones, NEW u \in Owners, HandleRegister(l, p, u) PROVE DevicesInv'
  <2> DEFINE row == [at |-> "count", phone |-> p, owner |-> u]
  <2>1. row \in LaunchRows /\ row.at = "count" /\ row.phone = p /\ row.owner = u
      BY DEF LaunchRows
  <2>2. launch' = [launch EXCEPT ![l] = row] /\ UNCHANGED <<devices, breakdowns>>
      BY <1>1 DEF HandleRegister
  <2> HIDE DEF row
  <2> QED  BY <1>0, <2>1, <2>2, DevicesKept
<1>2. ASSUME NEW l \in Launches, CountDevices(l) PROVE DevicesInv'
  <2>5. launch[l].at = "count" /\ UNCHANGED devices
      BY <1>2 DEF CountDevices
  <2>1. launch[l] \in LaunchRows /\ launch[l].phone \in Phones /\ launch[l].owner \in Owners
      BY <1>0, <2>5 DEF DevicesInv
  <2>2. CASE launch' = [launch EXCEPT ![l].at = "upsert"] /\ Breakdown
    <3>1. breakdowns' = breakdowns + 1 /\ breakdowns' \in 0 .. MaxBreakdowns
        BY <1>0, <2>2 DEF Breakdown
    <3>2. launch[l].at \in {"count", "evict"} /\ UNCHANGED devices
        BY <2>1, <2>2, <2>5
    <3>3. launch' = [launch EXCEPT ![l].at = "upsert"]
        BY <2>2
    <3> QED  BY <3>1, <3>2, <3>3, GoesOnToStore
  <2>3. CASE BelowCap(launch[l].owner) /\ launch' = [launch EXCEPT ![l].at = "upsert"] /\ UNCHANGED breakdowns
    <3>1. breakdowns' = breakdowns /\ breakdowns' \in 0 .. MaxBreakdowns
        BY <1>0, <2>3
    <3>2. launch[l].at \in {"count", "evict"} /\ UNCHANGED devices
        BY <2>5
    <3>3. launch' = [launch EXCEPT ![l].at = "upsert"] /\ BelowCap(launch[l].owner)
        BY <2>3
    <3> QED  BY <3>1, <3>2, <3>3, GoesOnToStore
  <2>4. CASE launch' = [launch EXCEPT ![l].at = "evict"] /\ UNCHANGED breakdowns
    <3> DEFINE row == [launch[l] EXCEPT !.at = "evict"]
    <3>1. row \in LaunchRows /\ row.at = "evict" /\ row.phone \in Phones /\ row.owner \in Owners
        BY <2>1 DEF LaunchRows
    <3>2. launch' = [launch EXCEPT ![l] = row]
        BY <2>4, Zenon
    <3> HIDE DEF row
    <3> QED  BY <1>0, <2>4, <2>5, <3>1, <3>2, DevicesKept
  <2> QED  BY <1>2, <2>2, <2>3, <2>4 DEF CountDevices, Proceed
<1>3. ASSUME NEW l \in Launches, EvictDevice(l) PROVE DevicesInv'
  <2>1. launch[l].at = "evict" /\ launch[l] \in LaunchRows
        /\ launch[l].phone \in Phones /\ launch[l].owner \in Owners
      BY <1>0, <1>3 DEF EvictDevice, DevicesInv
  <2>2. CASE launch' = [launch EXCEPT ![l].at = "upsert"] /\ Breakdown /\ UNCHANGED devices
    <3>1. breakdowns' = breakdowns + 1 /\ breakdowns' \in 0 .. MaxBreakdowns
        BY <1>0, <2>2 DEF Breakdown
    <3>2. launch[l].at \in {"count", "evict"} /\ UNCHANGED devices
        BY <2>1, <2>2
    <3>3. launch' = [launch EXCEPT ![l].at = "upsert"]
        BY <2>2
    <3> QED  BY <3>1, <3>2, <3>3, GoesOnToStore
  <2>3. CASE /\ devices' \in EvictOldestDeviceForUser(launch[l].owner)
             /\ launch' = [launch EXCEPT ![l].at = "count"] /\ UNCHANGED breakdowns
    <3> DEFINE row == [launch[l] EXCEPT !.at = "count"]
    <3>1. row \in LaunchRows /\ row.at = "count" /\ row.phone \in Phones /\ row.owner \in Owners
        BY <2>1 DEF LaunchRows
    <3>2. launch' = [launch EXCEPT ![l] = row]
        BY <2>3, Zenon
    <3>3. /\ devices' \in Seq(DeviceRows) /\ OnePerPhone(devices')
          /\ \A v : Cardinality(ActiveOf(devices', v)) <= Cardinality(ActiveOf(devices, v))
        BY <2>3, Evicted
    <3> HIDE DEF row
    <3> QED  BY <2>3, <3>1, <3>2, <3>3, DevicesKept
  <2> QED  BY <1>3, <2>2, <2>3 DEF EvictDevice, Proceed
<1>4. ASSUME NEW l \in Launches, UpsertDeviceToken(l) PROVE DevicesInv'
    BY <1>4, StoresToken
<1>5. ASSUME NEW p \in Phones, HandleUnregister(p) PROVE DevicesInv'
  <2>1. devices' = WithoutDevice(p) /\ UNCHANGED <<launch, breakdowns>>
      BY <1>5 DEF HandleUnregister
  <2> QED  BY <2>1, WithoutRow, DevicesKept
<1>6. ASSUME DeviceAges PROVE DevicesInv'
  <2>1. PICK i \in DOMAIN devices : devices' = [devices EXCEPT ![i].active = FALSE] /\ UNCHANGED <<launch, breakdowns>>
      BY <1>6 DEF DeviceAges
  <2> DEFINE row == [devices[i] EXCEPT !.active = FALSE]
  <2>2. devices[i] \in DeviceRows
      BY <1>0
  <2>3. row \in DeviceRows /\ row.active = FALSE /\ row.phone = devices[i].phone /\ row.owner = devices[i].owner
      BY <2>2 DEF DeviceRows
  <2>4. devices' = [devices EXCEPT ![i] = row]
      BY <2>1, Zenon
  <2> HIDE DEF row
  <2>5. devices' \in Seq(DeviceRows) /\ DOMAIN devices' = DOMAIN devices
        /\ \A j \in DOMAIN devices : devices'[j] = IF j = i THEN row ELSE devices[j]
      BY <1>0, <2>3, <2>4
  <2>6. OnePerPhone(devices')
      BY <1>0, <2>3, <2>5 DEF OnePerPhone
  <2>7. ASSUME NEW v PROVE Cardinality(ActiveOf(devices', v)) <= Cardinality(ActiveOf(devices, v))
    <3>1. ActiveOf(devices', v) \subseteq ActiveOf(devices, v)
        BY <2>3, <2>5 DEF ActiveOf
    <3> QED  BY <1>0, <3>1, ActiveFinite, FS_Subset
  <2> QED  BY <2>1, <2>5, <2>6, <2>7, DevicesKept
<1>7. CASE UNCHANGED deviceVars
    BY <1>0, <1>7, DevicesKept DEF deviceVars
<1> QED  BY <1>1, <1>2, <1>3, <1>4, <1>5, <1>6, <1>7 DEF DeviceNext

LEMMA DevicesInvBounds == DevicesInv => DevicesBounded
<1> SUFFICES ASSUME DevicesInv, NEW u \in Owners PROVE CountActiveDevicesForUser(u) <= DeviceCap
    BY DEF DevicesBounded, DeviceCap
<1>1. Cardinality(ActiveOf(devices, u)) \in Nat /\ Cardinality(Storing(u)) \in Nat /\ DeviceCap \in Int
    BY ActiveFinite, StoringFinite, DevicesTyped DEF DeviceCap
<1>2. Cardinality(ActiveOf(devices, u)) + Cardinality(Storing(u)) <= DeviceCap
    BY DEF DevicesInv
<1>3. Cardinality(ActiveOf(devices, u)) <= DeviceCap
    BY <1>1, <1>2
<1> QED  BY <1>3 DEF CountActiveDevicesForUser, ActiveOf

\* Every reachable state satisfies the invariant, and with it the type invariant.
THEOREM DevicesInvariant == DeviceSpec => []DevicesInv
BY DevicesInit, DevicesStep, PTL DEF DeviceSpec

\* No user has more active devices than the cap and the launches that had counted before the others
\* stored theirs, for any cap and any number of launches.
THEOREM DevicesAlwaysBounded == DeviceSpec => []DevicesBounded
BY DevicesInvariant, DevicesInvBounds, PTL

-----------------------------------------------------------------------------
(* Files and the rows about them *)

\* What can be left of a request to do.
Programs ==
  {<<>>, <<"put", "row", "details">>, <<"row", "details">>, <<"details">>,
   <<"put", "row">>, <<"row">>, <<"put">>, <<"remove", "unlist">>, <<"unlist">>}

Request ==
  {q \in [file : Files \cup {Nothing}, kind : FileKinds \cup {"none"}, place : Places \cup {Unplaced},
          steps : Programs] : q.steps # <<>> => q.file \in Files}

\* The rows that MediaTypeOK speaks of.
Rows ==
  [kind : FileKinds \cup {"none", "gone"}, place : Places \cup {Unplaced}, sized : BOOLEAN,
   downloads : 0..MaxDownloads]

UploadsTyped == uploads \in [Uploads -> Request]

\* Whoever is about to write a row has stored the file, unless somebody is deleting it.
StoredFirst == \A r \in Uploads : Doing(r, "row") => uploads[r].file \in bucket \cup condemned

\* Only files whose deletion has begun are removed.
RemovesCondemned ==
  \A r \in Uploads : Doing(r, "remove") \/ Doing(r, "unlist") => uploads[r].file \in condemned

MediaInv == MediaTypeOK /\ UploadsTyped /\ StoredFirst /\ RemovesCondemned /\ RowsHaveFiles

-----------------------------------------------------------------------------
(* Requests *)

\* Rows, and what is done to them.
LEMMA RowEdits ==
  /\ NoFile \in Rows
  /\ \A row \in Rows, kind \in FileKinds \cup {"none", "gone"}, place \in Places \cup {Unplaced} :
       /\ [row EXCEPT !.kind = kind] \in Rows /\ [row EXCEPT !.kind = kind].kind = kind
       /\ [row EXCEPT !.kind = kind, !.place = place] \in Rows
       /\ [row EXCEPT !.sized = TRUE] \in Rows /\ [row EXCEPT !.sized = TRUE].kind = row.kind
<1>1. NoFile \in Rows
  <2>1. 0 \in 0..MaxDownloads
      BY MediaAssumptions
  <2> QED  BY <2>1, Zenon DEF NoFile, Rows
<1>2. ASSUME NEW row \in Rows, NEW kind \in FileKinds \cup {"none", "gone"},
             NEW place \in Places \cup {Unplaced}
      PROVE  /\ [row EXCEPT !.kind = kind] \in Rows /\ [row EXCEPT !.kind = kind].kind = kind
             /\ [row EXCEPT !.kind = kind, !.place = place] \in Rows
             /\ [row EXCEPT !.sized = TRUE] \in Rows /\ [row EXCEPT !.sized = TRUE].kind = row.kind
    BY DEF Rows
<1> QED  BY <1>1, <1>2

LEMMA GoneRow ==
  /\ [NoFile EXCEPT !.kind = "gone"] \in Rows
  /\ [NoFile EXCEPT !.kind = "gone"].kind \notin FileKinds
<1>1. "gone" \in FileKinds \cup {"none", "gone"} /\ "gone" \notin FileKinds /\ Unplaced \in Places \cup {Unplaced}
    BY DEF FileKinds
<1>2. NoFile \in Rows
    BY RowEdits
<1>3. [NoFile EXCEPT !.kind = "gone"] \in Rows /\ [NoFile EXCEPT !.kind = "gone"].kind = "gone"
    BY <1>1, <1>2, RowEdits
<1> QED  BY <1>1, <1>3

LEMMA RestIsRequest == Rest \in Request /\ Rest.steps = <<>>
<1>1. <<>> \in Programs
    BY DEF Programs
<1> QED  BY <1>1 DEF Rest, Request, FileKinds

LEMMA ProgramSteps ==
  ASSUME NEW s \in Programs, s # <<>>
  PROVE  /\ Len(s) # 1 => Tail(s) \in Programs /\ Tail(s) # <<>>
         /\ Len(s) # 1 /\ Head(s) = "put" => Head(Tail(s)) = "row"
         /\ Len(s) # 1 /\ Head(s) = "row" => Head(Tail(s)) = "details"
         /\ Len(s) # 1 /\ Head(s) = "remove" => Head(Tail(s)) = "unlist"
         /\ Head(s) \in {"details", "unlist"} => Len(s) = 1
<1>1. CASE s = <<"put", "row", "details">>
  <2>1. Len(s) = 3 /\ Head(s) = "put" /\ Tail(s) = <<"row", "details">>
      BY <1>1
  <2>2. Head(<<"row", "details">>) = "row"
      OBVIOUS
  <2>3. Head(Tail(s)) = "row"
      BY <2>1, <2>2, Zenon
  <2> QED  BY <2>1, <2>3 DEF Programs
<1>2. CASE s = <<"row", "details">>
  <2>1. Len(s) = 2 /\ Head(s) = "row" /\ Tail(s) = <<"details">>
      BY <1>2
  <2>2. Head(<<"details">>) = "details"
      OBVIOUS
  <2>3. Head(Tail(s)) = "details"
      BY <2>1, <2>2, Zenon
  <2> QED  BY <2>1, <2>3 DEF Programs
<1>3. CASE s = <<"put", "row">>
  <2>1. Len(s) = 2 /\ Head(s) = "put" /\ Tail(s) = <<"row">>
      BY <1>3
  <2>2. Head(<<"row">>) = "row"
      OBVIOUS
  <2>3. Head(Tail(s)) = "row"
      BY <2>1, <2>2, Zenon
  <2> QED  BY <2>1, <2>3 DEF Programs
<1>4. CASE s = <<"remove", "unlist">>
  <2>1. Len(s) = 2 /\ Head(s) = "remove" /\ Tail(s) = <<"unlist">>
      BY <1>4
  <2>2. Head(<<"unlist">>) = "unlist"
      OBVIOUS
  <2>3. Head(Tail(s)) = "unlist"
      BY <2>1, <2>2, Zenon
  <2> QED  BY <2>1, <2>3 DEF Programs
<1>5. CASE s \in {<<"details">>, <<"row">>, <<"put">>, <<"unlist">>}
  <2>1. Len(s) = 1
      BY <1>5
  <2> QED  BY <2>1
<1> QED  BY <1>1, <1>2, <1>3, <1>4, <1>5 DEF Programs

\* A request that goes on is at the step that follows, with its file.
LEMMA AdvanceStep ==
  ASSUME UploadsTyped, NEW r \in Uploads, NEW step, Doing(r, step), Advance(r)
  PROVE  /\ UploadsTyped'
         /\ \A q \in Uploads \ {r} : uploads'[q] = uploads[q]
         /\ \/ uploads'[r] = Rest
            \/ /\ uploads'[r].file = uploads[r].file
               /\ step \notin {"details", "unlist"}
               /\ step = "put" => Head(uploads'[r].steps) = "row"
               /\ step = "row" => Head(uploads'[r].steps) = "details"
               /\ step = "remove" => Head(uploads'[r].steps) = "unlist"
<1> DEFINE s == uploads[r].steps
           next == IF Len(s) = 1 THEN Rest ELSE [uploads[r] EXCEPT !.steps = Tail(s)]
<1>1. uploads[r] \in Request /\ s \in Programs /\ s # <<>> /\ Head(s) = step
    BY DEF UploadsTyped, Request, Doing
<1>2. uploads' = [uploads EXCEPT ![r] = next]
    BY DEF Advance
<1>3. next \in Request
    BY <1>1, RestIsRequest, ProgramSteps DEF Request
<1>4. uploads'[r] = next /\ \A q \in Uploads \ {r} : uploads'[q] = uploads[q]
    BY <1>2 DEF UploadsTyped
<1>5. UploadsTyped'
    BY <1>2, <1>3 DEF UploadsTyped
<1>6. CASE Len(s) = 1
    BY <1>4, <1>5, <1>6
<1>7. CASE Len(s) # 1
  <2>1. next.steps = Tail(s) /\ next.file = uploads[r].file
      BY <1>1, <1>7 DEF Request
  <2> QED  BY <1>1, <1>4, <1>5, <1>7, <2>1, ProgramSteps
<1> QED  BY <1>6, <1>7

\* What begins, or ends, is typed.
LEMMA BeginTyped ==
  ASSUME UploadsTyped, NEW r \in Uploads, NEW new \in Request, uploads' = [uploads EXCEPT ![r] = new]
  PROVE  UploadsTyped' /\ uploads'[r] = new /\ \A q \in Uploads \ {r} : uploads'[q] = uploads[q]
BY DEF UploadsTyped

LEMMA MediaInitHolds == MediaInit => MediaInv
<1> SUFFICES ASSUME MediaInit PROVE MediaInv
    OBVIOUS
<1>1. MediaTypeOK
    BY MediaAssumptions DEF MediaInit, MediaTypeOK, NoFile, Rest, Nothing, Unplaced
<1>2. UploadsTyped
    BY RestIsRequest DEF MediaInit, UploadsTyped
<1>3. StoredFirst /\ RemovesCondemned
    BY RestIsRequest DEF MediaInit, StoredFirst, RemovesCondemned, Doing
<1>4. RowsHaveFiles
    BY DEF MediaInit, RowsHaveFiles, NoFile, FileKinds
<1> QED  BY <1>1, <1>2, <1>3, <1>4 DEF MediaInv

-----------------------------------------------------------------------------
(* Steps *)

\* A request with a file that nobody has: nothing of what is stored or condemned changes.
LEMMA BeginStep ==
  ASSUME MediaInv, NEW r \in Uploads, NEW new \in Request,
         uploads' = [uploads EXCEPT ![r] = new],
         new.steps # <<>> => Head(new.steps) \in {"put", "remove"},
         condemned \subseteq condemned', condemned' \subseteq Files,
         new.steps # <<>> /\ Head(new.steps) = "remove" => new.file \in condemned',
         UNCHANGED <<bucket, files, places, variants, tokens, accidents>>
  PROVE  MediaInv'
<1>1. UploadsTyped' /\ uploads'[r] = new /\ \A q \in Uploads \ {r} : uploads'[q] = uploads[q]
    BY BeginTyped DEF MediaInv
<1>2. MediaTypeOK'
    BY <1>1 DEF MediaInv, MediaTypeOK, UploadsTyped, Request
<1>3. StoredFirst'
    BY <1>1 DEF MediaInv, StoredFirst, Doing
<1>4. RemovesCondemned'
    BY <1>1 DEF MediaInv, RemovesCondemned, Doing
<1>5. RowsHaveFiles'
    BY DEF MediaInv, RowsHaveFiles
<1> QED  BY <1>1, <1>2, <1>3, <1>4, <1>5 DEF MediaInv

LEMMA OrderTyped ==
  ASSUME NEW kind \in FileKinds, NEW f \in Files, NEW place \in Places \cup {Unplaced}
  PROVE  LET new == [file |-> f, kind |-> kind, place |-> place, steps |-> Order(kind)]
         IN  new \in Request /\ new.steps # <<>> /\ Head(new.steps) = "put"
<1>1. Order(kind) \in Programs /\ Order(kind) # <<>> /\ Head(Order(kind)) = "put"
  <2>1. CASE kind = "recording"
    <3>1. Order(kind) = <<"put", "row", "details">>
        BY <2>1 DEF Order
    <3> QED  BY <3>1 DEF Programs
  <2>2. CASE kind = "material"
    <3>1. Order(kind) = <<"put", "row">>
        BY <2>2 DEF Order
    <3> QED  BY <3>1 DEF Programs
  <2>3. CASE kind = "asset"
    <3>1. Order(kind) = <<"put">>
        BY <2>3 DEF Order
    <3> QED  BY <3>1 DEF Programs
  <2> QED  BY <2>1, <2>2, <2>3 DEF FileKinds
<1> QED  BY <1>1 DEF Request

LEMMA UploadStep ==
  ASSUME MediaInv, NEW r \in Uploads, NEW f \in Files, NEW kind \in FileKinds,
         NEW place \in Places \cup {Unplaced}, Begin(r, f, kind, place, Order(kind)),
         UNCHANGED <<bucket, files, places, condemned, variants, tokens, accidents>>
  PROVE  MediaInv'
<1> DEFINE new == [file |-> f, kind |-> kind, place |-> place, steps |-> Order(kind)]
<1>1. new \in Request /\ new.steps # <<>> /\ Head(new.steps) = "put"
    BY OrderTyped
<1>2. uploads' = [uploads EXCEPT ![r] = new]
    BY DEF Begin
<1>3. condemned \subseteq condemned' /\ condemned' \subseteq Files
    BY DEF MediaInv, MediaTypeOK
<1> QED  BY <1>1, <1>2, <1>3, BeginStep

LEMMA DeleteMaterialStep ==
  ASSUME MediaInv, NEW r \in Uploads, NEW f \in Files, DeleteMaterial(r, f)
  PROVE  MediaInv'
<1> DEFINE new == [file |-> f, kind |-> "material", place |-> Unplaced, steps |-> <<"remove", "unlist">>]
<1>1. new.steps # <<>> /\ Head(new.steps) = "remove" /\ new.file = f
    OBVIOUS
<1>2. new \in Request
  <2>1. <<"remove", "unlist">> \in Programs
      BY DEF Programs
  <2> QED  BY <2>1 DEF Request, FileKinds
<1>3. uploads' = [uploads EXCEPT ![r] = new]
    BY DEF DeleteMaterial, Begin
<1>4. condemned \subseteq condemned' /\ condemned' \subseteq Files /\ f \in condemned'
    BY DEF DeleteMaterial, MediaInv, MediaTypeOK
<1> QED  BY <1>1, <1>2, <1>3, <1>4, BeginStep DEF DeleteMaterial

LEMMA PutObjectStep ==
  ASSUME MediaInv, NEW r \in Uploads, PutObject(r)
  PROVE  MediaInv'
<1> USE DEF MediaInv
<1> DEFINE f == uploads[r].file
<1>1. /\ UploadsTyped'
      /\ \A q \in Uploads \ {r} : uploads'[q] = uploads[q]
      /\ \/ uploads'[r] = Rest
         \/ uploads'[r].file = f /\ Head(uploads'[r].steps) = "row"
    BY AdvanceStep DEF PutObject
<1>2. bucket' = bucket \cup {f} /\ UNCHANGED <<files, places, condemned, variants, tokens, accidents>>
    BY DEF PutObject
<1>3. f \in Files
    BY DEF PutObject, Doing, UploadsTyped, Request
<1>4. MediaTypeOK'
    BY <1>1, <1>2, <1>3 DEF MediaTypeOK, UploadsTyped, Request
<1>5. StoredFirst'
    BY <1>1, <1>2, RestIsRequest DEF StoredFirst, Doing
<1>6. RemovesCondemned'
    BY <1>1, <1>2, RestIsRequest DEF RemovesCondemned, Doing
<1>7. RowsHaveFiles'
    BY <1>2 DEF RowsHaveFiles
<1> QED  BY <1>1, <1>4, <1>5, <1>6, <1>7

\* The row is written of a file that is stored, or of one that is being deleted.
LEMMA CreateRowStep ==
  ASSUME MediaInv, NEW r \in Uploads, CreateRow(r)
  PROVE  MediaInv'
<1> USE DEF MediaInv
<1> DEFINE f == uploads[r].file
           row == [NoFile EXCEPT !.kind = uploads[r].kind, !.place = uploads[r].place]
<1>1. /\ uploads[r] \in Request /\ f \in Files /\ f \in bucket \cup condemned
      /\ UNCHANGED <<bucket, places, condemned, variants, tokens, accidents>>
    BY DEF CreateRow, Doing, UploadsTyped, Request, StoredFirst
<1>2. /\ UploadsTyped'
      /\ \A q \in Uploads \ {r} : uploads'[q] = uploads[q]
      /\ uploads'[r] = Rest \/ Head(uploads'[r].steps) = "details"
  <2>1. CASE Advance(r)
      BY <2>1, AdvanceStep DEF CreateRow
  <2>2. CASE uploads' = [uploads EXCEPT ![r] = Rest]
      BY <2>2, BeginTyped, RestIsRequest
  <2> QED  BY <2>1, <2>2 DEF CreateRow
<1>3. files' = files \/ files' = [files EXCEPT ![f] = row]
    BY DEF CreateRow
<1>4. row \in Rows
    BY <1>1, RowEdits DEF Request
<1>5. MediaTypeOK'
  <2>1. files' \in [Files -> Rows]
      BY <1>1, <1>3, <1>4 DEF MediaTypeOK, Rows
  <2> QED  BY <1>1, <1>2, <2>1 DEF MediaTypeOK, UploadsTyped, Request, Rows
<1>6. StoredFirst' /\ RemovesCondemned'
    BY <1>1, <1>2, RestIsRequest DEF StoredFirst, RemovesCondemned, Doing
<1>7. RowsHaveFiles'
  <2>1. \A g \in Files \ {f} : files'[g] = files[g]
      BY <1>3 DEF MediaTypeOK
  <2> QED  BY <1>1, <2>1 DEF MediaTypeOK, RowsHaveFiles
<1> QED  BY <1>2, <1>5, <1>6, <1>7

LEMMA DetailsStep ==
  ASSUME MediaInv, NEW r \in Uploads, UpdateRecordingDetails(r)
  PROVE  MediaInv'
<1> USE DEF MediaInv
<1>1. /\ UploadsTyped'
      /\ \A q \in Uploads \ {r} : uploads'[q] = uploads[q]
      /\ uploads'[r] = Rest
    BY AdvanceStep DEF UpdateRecordingDetails
<1>2. /\ files' = files \/ files' = [files EXCEPT ![uploads[r].file] = [@ EXCEPT !.sized = TRUE]]
      /\ UNCHANGED <<bucket, places, condemned, variants, tokens, accidents>>
    BY DEF UpdateRecordingDetails
<1>3. /\ files' \in [Files -> Rows]
      /\ \A f \in Files : files'[f].kind = files[f].kind
  <2>1. uploads[r].file \in Files /\ files \in [Files -> Rows]
      BY DEF UpdateRecordingDetails, Doing, UploadsTyped, Request, MediaTypeOK, Rows
  <2>2. "none" \in FileKinds \cup {"none", "gone"} /\ Unplaced \in Places \cup {Unplaced}
      OBVIOUS
  <2>3. \A row \in Rows : [row EXCEPT !.sized = TRUE] \in Rows /\ [row EXCEPT !.sized = TRUE].kind = row.kind
      BY <2>2, RowEdits
  <2>4. CASE files' = files
      BY <2>1, <2>4
  <2>5. CASE files' = [files EXCEPT ![uploads[r].file] = [@ EXCEPT !.sized = TRUE]]
      BY <2>1, <2>3, <2>5
  <2> QED  BY <1>2, <2>4, <2>5
<1>4. MediaTypeOK'
    BY <1>1, <1>2, <1>3 DEF MediaTypeOK, UploadsTyped, Request, Rows
<1>5. StoredFirst' /\ RemovesCondemned'
    BY <1>1, <1>2, RestIsRequest DEF StoredFirst, RemovesCondemned, Doing
<1>6. RowsHaveFiles'
    BY <1>2, <1>3 DEF RowsHaveFiles
<1> QED  BY <1>1, <1>4, <1>5, <1>6

\* What is removed is condemned, so that neither a row nor the one about to be written needs it.
LEMMA RemoveObjectStep ==
  ASSUME MediaInv, NEW r \in Uploads, RemoveObject(r)
  PROVE  MediaInv'
<1> USE DEF MediaInv
<1> DEFINE f == uploads[r].file
<1>1. /\ UploadsTyped'
      /\ \A q \in Uploads \ {r} : uploads'[q] = uploads[q]
      /\ \/ uploads'[r] = Rest
         \/ uploads'[r].file = f /\ Head(uploads'[r].steps) = "unlist"
    BY AdvanceStep DEF RemoveObject
<1>2. bucket' = bucket \ {f} /\ f \in condemned
      /\ UNCHANGED <<files, places, condemned, variants, tokens, accidents>>
    BY DEF RemoveObject, RemovesCondemned
<1>3. MediaTypeOK'
    BY <1>1, <1>2 DEF MediaTypeOK, UploadsTyped, Request
<1>4. StoredFirst' /\ RemovesCondemned'
    BY <1>1, <1>2, RestIsRequest DEF StoredFirst, RemovesCondemned, Doing
<1>5. RowsHaveFiles'
    BY <1>2 DEF RowsHaveFiles
<1> QED  BY <1>1, <1>3, <1>4, <1>5

LEMMA DeleteRowStep ==
  ASSUME MediaInv, NEW r \in Uploads, DeleteStudyMaterial(r)
  PROVE  MediaInv'
<1> USE DEF MediaInv
<1> DEFINE row == [NoFile EXCEPT !.kind = "gone"]
<1>1. /\ UploadsTyped'
      /\ \A q \in Uploads \ {r} : uploads'[q] = uploads[q]
      /\ uploads'[r] = Rest
    BY AdvanceStep DEF DeleteStudyMaterial
<1>2. /\ files' = [files EXCEPT ![uploads[r].file] = row]
      /\ UNCHANGED <<bucket, places, condemned, variants, tokens, accidents>>
    BY DEF DeleteStudyMaterial
<1>3. row.kind \notin FileKinds
      /\ row \in Rows
    BY GoneRow
<1>4. MediaTypeOK'
  <2>1. files' \in [Files -> Rows]
      BY <1>2, <1>3 DEF MediaTypeOK, Rows
  <2> QED  BY <1>1, <1>2, <2>1 DEF MediaTypeOK, UploadsTyped, Request, Rows
<1>5. StoredFirst' /\ RemovesCondemned'
    BY <1>1, <1>2, RestIsRequest DEF StoredFirst, RemovesCondemned, Doing
<1>6. RowsHaveFiles'
  <2>1. \A f \in Files : files'[f] = row \/ files'[f] = files[f]
      BY <1>2 DEF MediaTypeOK
  <2> QED  BY <1>2, <1>3, <2>1 DEF RowsHaveFiles
<1> QED  BY <1>1, <1>4, <1>5, <1>6

\* A failed removal goes on to the row of the file, which stays condemned.
LEMMA AccidentStep ==
  ASSUME MediaInv, NEW r \in Uploads, Accident(r)
  PROVE  MediaInv'
<1> USE DEF MediaInv
<1>1. /\ UploadsTyped'
      /\ \A q \in Uploads \ {r} : uploads'[q] = uploads[q]
      /\ \/ uploads'[r] = Rest
         \/ uploads'[r].file \in condemned /\ Head(uploads'[r].steps) = "unlist"
  <2>1. CASE Doing(r, "remove")
    <3>1. uploads[r].file \in condemned
        BY <2>1 DEF RemovesCondemned
    <3> QED  BY <2>1, <3>1, AdvanceStep DEF Accident
  <2>2. CASE ~Doing(r, "remove")
      BY <2>2, BeginTyped, RestIsRequest DEF Accident
  <2> QED  BY <2>1, <2>2
<1>2. accidents' \in 0..MaxAccidents /\ UNCHANGED <<bucket, files, places, condemned, variants, tokens>>
    BY MediaAssumptions DEF Accident, MediaTypeOK
<1>3. MediaTypeOK'
    BY <1>1, <1>2 DEF MediaTypeOK, UploadsTyped, Request
<1>4. StoredFirst' /\ RemovesCondemned'
    BY <1>1, <1>2, RestIsRequest DEF StoredFirst, RemovesCondemned, Doing
<1>5. RowsHaveFiles'
    BY <1>2 DEF RowsHaveFiles
<1> QED  BY <1>1, <1>3, <1>4, <1>5

\* Steps that leave requests and storage alone, and give no row to a file that had none.
LEMMA RowsOnlyStep ==
  ASSUME MediaInv, UNCHANGED <<bucket, uploads, condemned>>,
         \A f \in Files : files'[f].kind \in FileKinds => files[f].kind \in FileKinds
  PROVE  UploadsTyped' /\ StoredFirst' /\ RemovesCondemned' /\ RowsHaveFiles'
BY DEF MediaInv, UploadsTyped, StoredFirst, RemovesCondemned, RowsHaveFiles, Doing

LEMMA VanishStep ==
  ASSUME MediaInv, NEW place \in Places, Vanish(place)
  PROVE  MediaInv'
<1> DEFINE row == [NoFile EXCEPT !.kind = "gone"]
<1>1. /\ row.kind \notin FileKinds
      /\ row \in Rows
    BY GoneRow
<1>2. files' = [f \in Files |-> IF files[f].place = place THEN row ELSE files[f]]
    BY DEF Vanish
<1>3. MediaTypeOK'
  <2>1. files' \in [Files -> Rows]
      BY <1>1, <1>2 DEF MediaInv, MediaTypeOK, Rows
  <2> QED  BY <2>1 DEF Vanish, MediaInv, MediaTypeOK, Rows
<1>4. UploadsTyped' /\ StoredFirst' /\ RemovesCondemned' /\ RowsHaveFiles'
    BY <1>1, <1>2, RowsOnlyStep DEF Vanish
<1> QED  BY <1>3, <1>4 DEF MediaInv

LEMMA DownloadStep ==
  ASSUME MediaInv, NEW f \in Files, GetDownloadURL(f)
  PROVE  MediaInv'
<1>1. MediaTypeOK'
    BY MediaAssumptions DEF GetDownloadURL, MediaInv, MediaTypeOK
<1>2. UploadsTyped' /\ StoredFirst' /\ RemovesCondemned' /\ RowsHaveFiles'
    BY RowsOnlyStep DEF GetDownloadURL, MediaInv, MediaTypeOK
<1> QED  BY <1>1, <1>2 DEF MediaInv

LEMMA VariantOrTokenStep ==
  ASSUME MediaInv, NEW f \in Files, CreateVariant(f) \/ IssueToken(f)
  PROVE  MediaInv'
<1>1. MediaTypeOK'
    BY DEF CreateVariant, IssueToken, MediaInv, MediaTypeOK
<1>2. UploadsTyped' /\ StoredFirst' /\ RemovesCondemned' /\ RowsHaveFiles'
    BY RowsOnlyStep DEF CreateVariant, IssueToken
<1> QED  BY <1>1, <1>2 DEF MediaInv

LEMMA MediaNextStep == MediaInv /\ [MediaNext]_mediaVars => MediaInv'
<1> SUFFICES ASSUME MediaInv, [MediaNext]_mediaVars PROVE MediaInv'
    OBVIOUS
<1>1. CASE UNCHANGED mediaVars
    BY <1>1 DEF mediaVars, MediaInv, MediaTypeOK, UploadsTyped, StoredFirst, RemovesCondemned,
                RowsHaveFiles, Doing
<1>2. ASSUME NEW r \in Uploads, NEW f \in Files, NEW stream \in Places, UploadRecording(r, f, stream)
      PROVE  MediaInv'
    BY <1>2, UploadStep DEF UploadRecording, FileKinds
<1>3. ASSUME NEW r \in Uploads, NEW f \in Files, UploadMaterial(r, f) \/ UploadAsset(r, f)
      PROVE  MediaInv'
    BY <1>3, UploadStep DEF UploadMaterial, UploadAsset, FileKinds
<1>4. CASE HandleCreateVariant \/ HandleGetDownloadURL \/ HandleIssueToken
    BY <1>4, VariantOrTokenStep, DownloadStep
       DEF HandleCreateVariant, HandleGetDownloadURL, HandleIssueToken
<1> QED
    BY <1>1, <1>2, <1>3, <1>4, DeleteMaterialStep, PutObjectStep, CreateRowStep, DetailsStep,
       RemoveObjectStep, DeleteRowStep, AccidentStep, VanishStep DEF MediaNext

-----------------------------------------------------------------------------

\* Every reachable state satisfies the invariant, and with it the type invariant.
THEOREM MediaInvariant == MediaSpec => []MediaInv
<1> QED  BY MediaInitHolds, MediaNextStep, PTL DEF MediaSpec

\* A row that no deletion has begun on has its file, for any number of requests that fail or die
\* anywhere.
THEOREM RowsAlwaysHaveFiles == MediaSpec => []RowsHaveFiles
<1>1. MediaInv => RowsHaveFiles
    BY DEF MediaInv
<1> QED  BY <1>1, MediaInvariant, PTL

-----------------------------------------------------------------------------
(* Notices *)

Boxes == Readers \X Subjects
Notices ==
  [state : {"none", "unread", "read"}, tenant : Homes \cup {"none"}, sender : Homes \cup {"none"}]
PlaceRows == [tenant : Homes \cup {"none"}, active : BOOLEAN]

\* A notice is of its sender's tenant, and has come to where it belongs, or through an enrolment of
\* that tenant.
EnrolledBy(u, tenant) == \E class \in Classes : enrolled[<<u, class>>].tenant = tenant
AtHome(b, notice) ==
  notice.state # "none" =>
    /\ notice.sender \in Homes /\ notice.tenant = notice.sender
    /\ \/ notice.sender = HomeOf(b[1])
       \/ b[2] \in Notes /\ notice.state = "unread" /\ EnrolledBy(b[1], notice.sender)

NoticeInv ==
  /\ NoticeTypeOK
  /\ \A b \in Boxes : AtHome(b, inbox[b])

-----------------------------------------------------------------------------
LEMMA NoticeInitHolds == NoticeInit => NoticeInv
<1> SUFFICES ASSUME NoticeInit PROVE NoticeInv
    OBVIOUS
<1>1. NoticeTypeOK
    BY DEF NoticeInit, NoticeTypeOK, NoNotice, NoPlace, Unposted
<1>2. \A b \in Boxes : AtHome(b, inbox[b])
    BY DEF NoticeInit, AtHome, NoNotice, Boxes
<1> QED  BY <1>1, <1>2 DEF NoticeInv

\* Rows that are written where the writer may write, for recipients who are of the writer's tenant
\* or whom it has enrolled.
LEMMA InsertStep ==
  ASSUME NoticeInv, NEW session \in Homes, NEW rows \in SUBSET Readers, NEW subject \in Subjects, NEW tenantOf,
         \A u \in rows : tenantOf[u] = session =>
           HomeOf(u) = session \/ (subject \in Notes /\ EnrolledBy(u, session)),
         Insert(session, rows, tenantOf, subject)
  PROVE  inbox' \in [Boxes -> Notices] /\ \A b \in Boxes : AtHome(b, inbox'[b])
<1>1. inbox \in [Boxes -> Notices] /\ \A b \in Boxes : AtHome(b, inbox[b])
    BY DEF NoticeInv, NoticeTypeOK, Boxes, Notices
<1>2. CASE ~ \A u \in rows : MayWrite(session, tenantOf[u])
    BY <1>1, <1>2 DEF Insert
<1>3. CASE \A u \in rows : MayWrite(session, tenantOf[u])
  <2> DEFINE box(b) == IF b[2] = subject /\ b[1] \in rows THEN Notice(session, tenantOf[b[1]]) ELSE inbox[b]
  <2>1. inbox' = [b \in Boxes |-> box(b)]
      BY <1>3 DEF Insert, Boxes
  <2>2. ASSUME NEW b \in Boxes PROVE box(b) \in Notices /\ AtHome(b, box(b))
    <3>1. CASE b[2] = subject /\ b[1] \in rows
      <4>1. tenantOf[b[1]] = session
          BY <1>3, <3>1 DEF MayWrite
      <4>2. HomeOf(b[1]) = session \/ (b[2] \in Notes /\ EnrolledBy(b[1], session))
          BY <3>1, <4>1
      <4>3. box(b) = [state |-> "unread", tenant |-> session, sender |-> session]
          BY <3>1, <4>1 DEF Notice
      <4> HIDE DEF box
      <4> QED  BY <4>2, <4>3 DEF Notices, AtHome
    <3>2. CASE ~(b[2] = subject /\ b[1] \in rows)
        BY <1>1, <3>2
    <3> QED  BY <3>1, <3>2
  <2> HIDE DEF box
  <2> QED  BY <2>1, <2>2
<1> QED  BY <1>2, <1>3

\* An enrolment stays of the tenant it was made by.
LEMMA EnrolmentStep ==
  ASSUME NoticeInv, NEW session \in Homes, NEW u \in Readers, NEW class \in Classes,
         AdminEnroll(session, u, class) \/ EndEnrolment(session, u, class)
  PROVE  /\ enrolled' \in [Readers \X Classes -> PlaceRows] /\ UNCHANGED <<notes, inbox>>
         /\ \A v \in Readers, tenant \in Homes : EnrolledBy(v, tenant) => EnrolledBy(v, tenant)'
<1> DEFINE c == <<u, class>>
<1>1. enrolled \in [Readers \X Classes -> PlaceRows] /\ c \in Readers \X Classes /\ enrolled[c] \in PlaceRows
    BY DEF NoticeInv, NoticeTypeOK, PlaceRows
<1>2. PICK place \in PlaceRows :
        /\ enrolled' = [enrolled EXCEPT ![c] = place] /\ UNCHANGED <<notes, inbox>>
        /\ enrolled[c].tenant \in Homes => place.tenant = enrolled[c].tenant
  <2>1. CASE AdminEnroll(session, u, class)
    <3>1. [tenant |-> session, active |-> TRUE] \in PlaceRows
        BY DEF PlaceRows
    <3>2. enrolled[c].tenant \in Homes => enrolled[c].tenant = session
        BY <2>1 DEF AdminEnroll, Homes
    <3> QED  BY <2>1, <3>1, <3>2 DEF AdminEnroll
  <2>2. CASE EndEnrolment(session, u, class)
    <3>1. [enrolled[c] EXCEPT !.active = FALSE] \in PlaceRows /\ [enrolled[c] EXCEPT !.active = FALSE].tenant = enrolled[c].tenant
        BY <1>1 DEF PlaceRows
    <3>2. enrolled' = [enrolled EXCEPT ![c] = [enrolled[c] EXCEPT !.active = FALSE]] /\ UNCHANGED <<notes, inbox>>
        BY <2>2 DEF EndEnrolment
    <3> QED  BY <3>1, <3>2
  <2> QED  BY <2>1, <2>2
<1> HIDE DEF c
<1>3. enrolled' \in [Readers \X Classes -> PlaceRows]
    BY <1>1, <1>2
<1>4. ASSUME NEW v \in Readers, NEW tenant \in Homes, NEW k \in Classes, enrolled[<<v, k>>].tenant = tenant
      PROVE  enrolled'[<<v, k>>].tenant = tenant
    BY <1>1, <1>2, <1>4
<1> QED  BY <1>2, <1>3, <1>4 DEF EnrolledBy

LEMMA NoticeNextStep == NoticeInv /\ [NoticeNext]_noticeVars => NoticeInv'
<1> SUFFICES ASSUME NoticeInv, [NoticeNext]_noticeVars PROVE NoticeInv'
    OBVIOUS
<1> DEFINE PostedNotes == [Notes -> [state : {"none", "there", "gone"}, tenant : Homes \cup {"none"},
                                     class : Classes \cup {"none"}]]
           InboxOK == inbox' \in [Boxes -> Notices] /\ \A b \in Boxes : AtHome(b, inbox'[b])
<1>1. /\ enrolled \in [Readers \X Classes -> PlaceRows] /\ notes \in PostedNotes
      /\ inbox \in [Boxes -> Notices] /\ \A b \in Boxes : AtHome(b, inbox[b])
    BY DEF NoticeInv, NoticeTypeOK, Boxes, Notices, PlaceRows
\* It is enough to look at the inboxes, if the enrolments stay.
<1>2. ASSUME enrolled' = enrolled, notes' \in PostedNotes, InboxOK PROVE NoticeInv'
  <2>1. NoticeTypeOK'
      BY <1>1, <1>2 DEF NoticeTypeOK, Boxes, Notices, PlaceRows
  <2>2. \A b \in Boxes : AtHome(b, inbox[b])'
      BY <1>2 DEF AtHome, EnrolledBy
  <2> QED  BY <2>1, <2>2 DEF NoticeInv
<1>4. CASE UNCHANGED noticeVars
    BY <1>1, <1>2, <1>4 DEF noticeVars
<1>5. ASSUME NEW session \in Homes, NEW u \in Readers, Create(session, u) PROVE NoticeInv'
  <2> DEFINE tenantOf == [v \in Readers |-> RecipientsTenant(session, v)]
  <2>1. Insert(session, {u}, tenantOf, "direct") /\ UNCHANGED <<enrolled, notes>>
      BY <1>5 DEF Create
  <2>2. \A v \in {u} : tenantOf[v] = session => HomeOf(v) = session
      BY DEF RecipientsTenant, Sees, Homes
  <2>3. {u} \in SUBSET Readers /\ "direct" \in Subjects
      BY DEF Subjects
  <2> HIDE DEF tenantOf
  <2>4. InboxOK
      BY <2>1, <2>2, <2>3, InsertStep
  <2> QED  BY <1>1, <1>2, <2>1, <2>4
<1>6. ASSUME NEW session \in Homes, NEW n \in Notes, NEW class \in Classes \cup {"none"}, NEW fanOut \in BOOLEAN,
             CreateAnnouncement(session, n, class, fanOut)
      PROVE  NoticeInv'
  <2> DEFINE tenantOf == [u \in Readers |-> session]
             rows == Audience(session, class)
  <2>1. enrolled' = enrolled /\ notes' \in PostedNotes
      BY <1>1, <1>6 DEF CreateAnnouncement
  <2>2. rows \in SUBSET Readers /\ n \in Subjects
      BY DEF Audience, Subjects
  <2>3. ASSUME NEW u \in rows PROVE EnrolledBy(u, session)
    <3>1. class \in Classes /\ enrolled[<<u, class>>] = [tenant |-> session, active |-> TRUE]
        BY <2>3 DEF Audience
    <3>2. enrolled[<<u, class>>].tenant = session
        BY <3>1
    <3> QED  BY <3>1, <3>2 DEF EnrolledBy
  <2>4. InboxOK
    <3>1. CASE UNCHANGED inbox
        BY <1>1, <3>1
    <3>2. CASE Insert(session, rows, tenantOf, n)
      <4> HIDE DEF tenantOf, rows
      <4> QED  BY <2>2, <2>3, <3>2, InsertStep
    <3> QED  BY <1>6, <3>1, <3>2 DEF CreateAnnouncement
  <2> QED  BY <1>2, <2>1, <2>4
<1>7. ASSUME NEW session \in Homes, NEW n \in Notes, DeleteAnnouncement(session, n) PROVE NoticeInv'
  <2>1. notes' \in PostedNotes
      BY <1>1, <1>7 DEF DeleteAnnouncement, Unposted
  <2> QED  BY <1>1, <1>2, <1>7, <2>1 DEF DeleteAnnouncement
\* What a user may touch is at home.
<1>8. ASSUME NEW u \in Readers, NEW b \in Boxes, Mine(u, b)
      PROVE  LET read == [inbox[b] EXCEPT !.state = "read"] IN read \in Notices /\ AtHome(b, read)
  <2>1. inbox[b].state # "none" /\ inbox[b].tenant = HomeOf(u) /\ b[1] = u /\ inbox[b] \in Notices /\ AtHome(b, inbox[b])
      BY <1>1, <1>8 DEF Mine, Sees
  <2> QED  BY <2>1 DEF AtHome, Notices
<1>9. ASSUME NEW u \in Readers, NEW subject \in Subjects, MarkRead(u, subject) PROVE NoticeInv'
  <2> DEFINE c == <<u, subject>>
             read == [inbox[c] EXCEPT !.state = "read"]
  <2>1. inbox' = [inbox EXCEPT ![c] = read] /\ Mine(u, c) /\ c \in Boxes
      BY <1>9 DEF MarkRead, Boxes
  <2>2. read \in Notices /\ AtHome(c, read)
      BY <1>8, <2>1
  <2> HIDE DEF c, read
  <2>3. InboxOK
      BY <1>1, <2>1, <2>2
  <2> QED  BY <1>1, <1>2, <1>9, <2>3 DEF MarkRead
<1>10. ASSUME NEW u \in Readers, MarkAllRead(u) PROVE NoticeInv'
  <2> DEFINE box(b) == IF Mine(u, b) THEN [inbox[b] EXCEPT !.state = "read"] ELSE inbox[b]
  <2>1. inbox' = [b \in Boxes |-> box(b)]
      BY <1>10 DEF MarkAllRead, Boxes
  <2>2. \A b \in Boxes : box(b) \in Notices /\ AtHome(b, box(b))
      BY <1>1, <1>8
  <2> HIDE DEF box
  <2>3. InboxOK
      BY <2>1, <2>2
  <2> QED  BY <1>1, <1>2, <1>10, <2>3 DEF MarkAllRead
<1>11. ASSUME NEW u \in Readers, NEW subject \in Subjects, DeleteNotice(u, subject) PROVE NoticeInv'
  <2>1. NoNotice \in Notices /\ \A b \in Boxes : AtHome(b, NoNotice)
      BY DEF NoNotice, Notices, AtHome
  <2>2. inbox' = [inbox EXCEPT ![<<u, subject>>] = NoNotice]
      BY <1>11 DEF DeleteNotice
  <2>3. InboxOK
      BY <1>1, <2>1, <2>2
  <2> QED  BY <1>1, <1>2, <1>11, <2>3 DEF DeleteNotice
<1>12. ASSUME NEW session \in Homes, NEW u \in Readers, NEW class \in Classes,
              AdminEnroll(session, u, class) \/ EndEnrolment(session, u, class)
       PROVE  NoticeInv'
  <2>1. /\ enrolled' \in [Readers \X Classes -> PlaceRows] /\ UNCHANGED <<notes, inbox>>
        /\ \A v \in Readers, tenant \in Homes : EnrolledBy(v, tenant) => EnrolledBy(v, tenant)'
      BY <1>12, EnrolmentStep
  <2>2. NoticeTypeOK'
      BY <1>1, <2>1 DEF NoticeTypeOK, Boxes, Notices, PlaceRows
  <2>3. ASSUME NEW b \in Boxes PROVE AtHome(b, inbox[b])'
    <3>1. b[1] \in Readers
        BY DEF Boxes
    <3>2. EnrolledBy(b[1], inbox[b].sender)' <=> \E class1 \in Classes : enrolled'[<<b[1], class1>>].tenant = inbox'[b].sender
        BY DEF EnrolledBy
    <3>3. inbox[b].sender \in Homes /\ EnrolledBy(b[1], inbox[b].sender) => EnrolledBy(b[1], inbox[b].sender)'
      <4>1. ASSUME NEW tenant \in Homes, tenant = inbox[b].sender, EnrolledBy(b[1], tenant)
            PROVE  EnrolledBy(b[1], inbox[b].sender)'
        <5>1. EnrolledBy(b[1], tenant)'
            BY <2>1, <3>1, <4>1
        <5> QED  BY <2>1, <4>1, <5>1 DEF EnrolledBy
      <4> QED  BY <4>1
    <3> QED  BY <1>1, <2>1, <3>3 DEF AtHome
  <2> QED  BY <2>2, <2>3 DEF NoticeInv
<1> QED
    BY <1>4, <1>5, <1>6, <1>7, <1>9, <1>10, <1>11, <1>12
       DEF NoticeNext, HandleAdminSend, HandleCreateAnnouncement, HandleMarkRead, HandleDelete

-----------------------------------------------------------------------------

\* Every reachable state satisfies the invariant, and with it the type invariant.
THEOREM NoticeInvariant == NoticeSpec => []NoticeInv
<1> QED  BY NoticeInitHolds, NoticeNextStep, PTL DEF NoticeSpec

\* However many users, classes and announcements there are, and whoever is enrolled by whom, users
\* find in the inbox what their own tenant has sent and only that; a notice its user does not find
\* is one that a tenant fanned out to a user of another tenant whom it had enrolled.
THEOREM NoticesAlwaysStayHome == NoticeSpec => []NoticesStayHome
<1>1. ASSUME NoticeInv, NEW b \in Boxes, inbox[b].state # "none"
      PROVE  /\ Mine(b[1], b) <=> inbox[b].sender = HomeOf(b[1])
             /\ ~Mine(b[1], b) => /\ b[2] \in Notes /\ inbox[b].state = "unread"
                                  /\ \E class \in Classes : enrolled[<<b[1], class>>].tenant = inbox[b].sender
    BY <1>1 DEF NoticeInv, AtHome, EnrolledBy, Mine, Sees
<1>2. NoticeInv => NoticesStayHome
    BY <1>1 DEF NoticesStayHome, Boxes
<1> QED  BY <1>2, NoticeInvariant, PTL
=============================================================================
