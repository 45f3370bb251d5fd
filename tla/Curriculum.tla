----------------------------- MODULE Curriculum -----------------------------
(***************************************************************************)
(* What is taught: the subjects of a course, their chapters and the topics *)
(* of those, the lectures filed in that tree, how far each student has     *)
(* watched them, and the categories of exams.  Players report progress     *)
(* again and again, from several devices and in any order, while staff     *)
(* take the tree apart.                                                    *)
(***************************************************************************)
EXTENDS Integers, FiniteSets, FiniteSetsExt

CONSTANTS
  Nodes,       \* ids of subjects, chapters and topics
  Lectures, Viewers,
  Seconds,     \* values of watched_seconds in a report
  Categories,  \* ids of exam categories
  Slugs

ASSUME CurriculumAssumptions == Seconds \subseteq Int /\ IsFiniteSet(Seconds)

VARIABLES
  outline,     \* the course and the rows of subjects, chapters and topics
  lectures,    \* rows of lectures
  views,       \* rows of lecture_views, per student and lecture
  told,        \* the reports that have been taken for each of them
  categories   \* rows of exam_categories

curriculumVars == <<outline, lectures, views, told, categories>>

Course == "course"
Entries == {Course} \cup Nodes
Kinds == {"course", "subject", "chapter", "topic"}
Nowhere == "nowhere"
KindBelow == [course |-> "subject", subject |-> "chapter", chapter |-> "topic"]

Unwritten == [kind |-> "none", parent |-> Nowhere, free |-> FALSE]
Unrecorded == [state |-> "none", places |-> {}, published |-> FALSE]
Unseen == [watched |-> 0, completed |-> FALSE, there |-> FALSE]
Uncategorised == [slug |-> "none", active |-> FALSE]

Reports == [watched : Seconds, completed : BOOLEAN]

CurriculumTypeOK ==
  /\ outline \in [Entries -> [kind : Kinds \cup {"none"}, parent : Entries \cup {Nowhere}, free : BOOLEAN]]
  /\ lectures \in [Lectures -> [state : {"none", "there", "gone"}, places : SUBSET Nodes, published : BOOLEAN]]
  /\ views \in [Viewers \X Lectures -> [watched : Seconds \cup {0}, completed : BOOLEAN, there : BOOLEAN]]
  /\ told \in [Viewers \X Lectures -> SUBSET Reports]
  /\ categories \in [Categories -> [slug : Slugs \cup {"none"}, active : BOOLEAN]]

\* The course is one of those of Enrolments.
CurriculumInit ==
  /\ outline = [n \in Entries |-> IF n = Course THEN [Unwritten EXCEPT !.kind = "course"] ELSE Unwritten]
  /\ lectures = [l \in Lectures |-> Unrecorded]
  /\ views = [p \in Viewers \X Lectures |-> Unseen]
  /\ told = [p \in Viewers \X Lectures |-> {}]
  /\ categories = [x \in Categories |-> Uncategorised]

-----------------------------------------------------------------------------
(* The tree *)

Written(n) == outline[n].kind # "none"
Children(of) == {n \in Nodes : outline[n].parent \in of}
\* The tree is four levels deep, and each REFERENCES says ON DELETE CASCADE.
Subtree(n) ==
  LET below == Children({n})
      further == below \cup Children(below)
  IN {n} \cup further \cup Children(further)

InsertRow(n, kind, parent, free) == outline' = [outline EXCEPT ![n] = [kind |-> kind, parent |-> parent, free |-> free]]

\* A new row takes its tenant from its parent, which therefore has to be there.
CreateSubject(n) ==
  /\ ~Written(n) /\ Written(Course)
  /\ InsertRow(n, "subject", Course, FALSE)
CreateChapter(n, subject, free) ==
  /\ ~Written(n) /\ outline[subject].kind = "subject"
  /\ InsertRow(n, "chapter", subject, free)
CreateTopic(n, chapter, free) ==
  /\ ~Written(n) /\ outline[chapter].kind = "chapter"
  /\ InsertRow(n, "topic", chapter, free)

\* The parent in the body is not looked at, a row stays where it is; of a subject only texts change.
UpdateChapter(n, free) == outline[n].kind = "chapter" /\ outline' = [outline EXCEPT ![n].free = free]
UpdateTopic(n, free) == outline[n].kind = "topic" /\ outline' = [outline EXCEPT ![n].free = free]

\* Lectures filed under a row go with it, and what has been watched of them.
Drop(lost) ==
  /\ lectures' = [l \in Lectures |-> IF l \in lost THEN [Unrecorded EXCEPT !.state = "gone"] ELSE lectures[l]]
  /\ views' = [p \in Viewers \X Lectures |-> IF p[2] \in lost THEN Unseen ELSE views[p]]
  /\ told' = [p \in Viewers \X Lectures |-> IF p[2] \in lost THEN {} ELSE told[p]]
Cascade(n) ==
  LET gone == Subtree(n)
  IN /\ outline' = [m \in Entries |-> IF m \in gone THEN Unwritten ELSE outline[m]]
     /\ Drop({l \in Lectures : lectures[l].places \cap gone # {}})

DeleteCourseTree == Written(Course) /\ Cascade(Course)
DeleteSubject(n) == outline[n].kind = "subject" /\ Cascade(n)
DeleteChapter(n) == outline[n].kind = "chapter" /\ Cascade(n)
DeleteTopic(n) == outline[n].kind = "topic" /\ Cascade(n)

\* The routes: a body or an id that cannot be read changes nothing.
HandleCreateChapter(n) == \E subject \in Nodes, free \in BOOLEAN : CreateChapter(n, subject, free)
HandleCreateTopic(n) == \E chapter \in Nodes, free \in BOOLEAN : CreateTopic(n, chapter, free)
HandleUpdateChapter(n) == \E free \in BOOLEAN : UpdateChapter(n, free)
HandleUpdateTopic(n) == \E free \in BOOLEAN : UpdateTopic(n, free)

-----------------------------------------------------------------------------
(* Lectures *)

\* Filed under at most one topic, one chapter and one subject, whether or not these belong
\* together, or nowhere.
Filings == {places \in SUBSET Nodes :
  /\ \A n \in places : outline[n].kind \in {"subject", "chapter", "topic"}
  /\ \A m, n \in places : outline[m].kind = outline[n].kind => m = n}
CreateLecture(l, places, published) ==
  /\ lectures[l].state = "none"
  /\ lectures' = [lectures EXCEPT ![l] = [state |-> "there", places |-> places, published |-> published]]
  /\ UNCHANGED <<outline, views, told>>
UpdateLecture(l, published) ==
  /\ lectures[l].state = "there"
  /\ lectures' = [lectures EXCEPT ![l].published = published]
  /\ UNCHANGED <<outline, views, told>>
DeleteLecture(l) ==
  /\ lectures[l].state = "there"
  /\ Drop({l})
  /\ UNCHANGED outline

HandleCreateLecture(l) == \E places \in Filings, published \in BOOLEAN : CreateLecture(l, places, published)
HandleUpdateLecture(l) == \E published \in BOOLEAN : UpdateLecture(l, published)

Greatest(a, b) == IF a > b THEN a ELSE b
\* Mutant of UpsertLectureView: the last report to arrive wins.
UpsertLast(row, report) == [watched |-> report.watched, completed |-> report.completed, there |-> TRUE]
UpsertLectureView(row, report) ==
  [watched |-> IF row.there THEN Greatest(row.watched, report.watched) ELSE report.watched,
   completed |-> row.completed \/ report.completed, there |-> TRUE]

\* Whether the lecture is published, or the student enrolled in its course, is not asked.
RecordWatch(u, l, report) ==
  /\ lectures[l].state = "there"
  /\ views' = [views EXCEPT ![<<u, l>>] = UpsertLectureView(@, report)]
  /\ told' = [told EXCEPT ![<<u, l>>] = @ \cup {report}]
  /\ UNCHANGED <<outline, lectures>>
HandleRecordWatch(u) == \E l \in Lectures, report \in Reports : RecordWatch(u, l, report)

-----------------------------------------------------------------------------
(* Exam categories, of no tenant *)

\* The slug is UNIQUE, and Update does not change it.
CreateCategory(x, slug) ==
  /\ categories[x].slug = "none" /\ \A y \in Categories : categories[y].slug # slug
  /\ categories' = [categories EXCEPT ![x] = [slug |-> slug, active |-> TRUE]]
UpdateCategory(x, active) ==
  /\ categories[x].slug # "none"
  /\ categories' = [categories EXCEPT ![x].active = active]
DeleteCategory(x) ==
  /\ categories[x].slug # "none"
  /\ categories' = [categories EXCEPT ![x] = Uncategorised]
HandleCategory(x) ==
  \/ \E slug \in Slugs : CreateCategory(x, slug)
  \/ \E active \in BOOLEAN : UpdateCategory(x, active)

TreeStep ==
  \/ \E n \in Nodes : CreateSubject(n) \/ HandleCreateChapter(n) \/ HandleCreateTopic(n)
  \/ \E n \in Nodes : HandleUpdateChapter(n) \/ HandleUpdateTopic(n)
CurriculumNext ==
  \/ TreeStep /\ UNCHANGED <<lectures, views, told, categories>>
  \/ \E n \in Nodes : (DeleteSubject(n) \/ DeleteChapter(n) \/ DeleteTopic(n)) /\ UNCHANGED categories
  \/ DeleteCourseTree /\ UNCHANGED categories
  \/ \E l \in Lectures :
       (HandleCreateLecture(l) \/ HandleUpdateLecture(l) \/ DeleteLecture(l)) /\ UNCHANGED categories
  \/ \E u \in Viewers : HandleRecordWatch(u) /\ UNCHANGED categories
  \/ \E x \in Categories : (HandleCategory(x) \/ DeleteCategory(x)) /\ UNCHANGED <<outline, lectures, views, told>>

CurriculumSpec == CurriculumInit /\ [][CurriculumNext]_curriculumVars

-----------------------------------------------------------------------------
\* However often and in whatever order the players of a student report, the row says the furthest
\* any of the reports taken for the lecture has said, and that it is completed if one of them did
\* (lectures/service.go:140-148).
ProgressIsFurthest ==
  \A p \in Viewers \X Lectures :
    /\ views[p].there <=> told[p] # {}
    /\ told[p] # {} => views[p].watched = Max({r.watched : r \in told[p]})
    /\ views[p].completed <=> \E r \in told[p] : r.completed
=============================================================================
