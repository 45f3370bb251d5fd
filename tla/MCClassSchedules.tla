-------------------------- MODULE MCClassSchedules --------------------------
(* Small instances of ClassSchedules. *)
EXTENDS ClassSchedules, TLC

CONSTANTS w1

\* West of UTC and east of it, every day; and at UTC every other day.
Zones ==
  {[offset |-> o, hour |-> 1, weekdays |-> {0, 1}, starts |-> 1, ends |-> 3] : o \in {-1, 1}}
    \cup {[offset |-> 0, hour |-> 0, weekdays |-> {0}, starts |-> 1, ends |-> 4]}

\* East of UTC, with a class late in the day.
East == {[offset |-> 1, hour |-> 2, weekdays |-> {0, 1}, starts |-> 2, ends |-> 3]}
=============================================================================
