----------------------------- MODULE Timetable ------------------------------
(***************************************************************************)
(* What the streams table promises of every schedule, however the worker   *)
(* is started, fails or dies, and whatever admins and instructors do:      *)
(* while the schedule is there each of its classes is planned once, for    *)
(* good and at its time, and nothing else is planned for it; when it is    *)
(* deleted it loses all its lessons at once and never gets another.        *)
(***************************************************************************)
EXTENDS Integers

CONSTANTS Schedules, Rows   \* Rows: where lessons can be

VARIABLES
  classes,   \* the times at which the classes of a schedule start
  stage,     \* "new", "open" or "closed"
  lessons    \* what is planned

timetableVars == <<classes, stage, lessons>>

Init ==
  /\ classes \in [Schedules -> SUBSET Int]
  /\ stage = [s \in Schedules |-> "new"]
  /\ lessons = {}

Open(s) ==
  /\ stage[s] = "new"
  /\ stage' = [stage EXCEPT ![s] = "open"]
  /\ UNCHANGED <<classes, lessons>>

Plan(s) ==
  /\ stage[s] = "open"
  /\ \E l \in lessons' \ lessons :
       /\ l.schedule = s /\ l.at \in classes[s] /\ l.row \in Rows
       /\ \A m \in lessons : m.row # l.row /\ (m.schedule = s => m.at # l.at)
       /\ lessons' = lessons \cup {l}
  /\ UNCHANGED <<classes, stage>>

Close(s) ==
  /\ stage[s] = "open"
  /\ stage' = [stage EXCEPT ![s] = "closed"]
  /\ lessons' = {l \in lessons : l.schedule # s}
  /\ UNCHANGED classes

Next == \E s \in Schedules : Open(s) \/ Close(s) \/ Plan(s)

Spec == Init /\ [][Next]_timetableVars
=============================================================================
