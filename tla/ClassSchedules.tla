--------------------------- MODULE ClassSchedules ---------------------------
(***************************************************************************)
(* Recurring classes.  An admin describes a class once; a worker started   *)
(* by cron once a day walks the schedules and creates the streams of the   *)
(* next days, each with its own key; an instructor starts and ends them,   *)
(* or publishes with the key, which makes nginx-rtmp call the server.      *)
(*                                                                         *)
(* The clock counts hours of UTC.  A schedule has dates and an hour of its *)
(* own time zone, which is `offset' hours ahead of UTC.                    *)
(***************************************************************************)
EXTENDS Integers, Sequences, FiniteSets

CONSTANTS
  Schedules,   \* ids; the database lists schedules in their order
  Workers,
  Shapes,      \* what admins may enter, see ShapeType
  Day, Week,   \* hours in a day, days in a week
  Horizon,     \* how far ahead the worker plans, in hours
  Gap,         \* a schedule planned within the last Gap hours is left alone
  Grace,       \* a class that started longer ago than this is not created
  BatchSize,   \* schedules in one run
  CronHour,    \* the hour of day at which cron starts the worker,
  Launches,    \* and how many of them
  MaxTime, MaxStreams, MaxEdits, MaxFaults,
  None

ShapeType ==
  [offset : (1 - Day)..(Day - 1), hour : 0..(Day - 1), weekdays : SUBSET (0..(Week - 1)),
   starts : Nat, ends : Nat]

ASSUME ScheduleAssumptions ==
  /\ Schedules \subseteq Nat /\ None \notin Schedules
  /\ Day \in Nat \ {0} /\ Week \in Nat \ {0}
  /\ Horizon \in Nat /\ Gap \in 0..(Day - 1) /\ Grace \in Nat
  /\ BatchSize \in Nat /\ CronHour \in 0..(Day - 1) /\ Launches \in Nat
  /\ MaxTime \in Nat /\ MaxStreams \in Nat /\ MaxEdits \in Nat /\ MaxFaults \in Nat
  /\ Shapes \subseteq ShapeType

VARIABLES
  now,
  shape,       \* what the admin enters for a schedule
  state,       \* "unused", "active", "paused", "deleted"
  touched,     \* last_materialised_at
  since,       \* when the schedule became active (for the properties only)
  streams,     \* the rows of the streams table, in the order of their creation
  keys,        \* stream keys issued so far
  pc, queue,   \* of each worker: the schedules left,
  cur, due,    \* the one it works on, and the starting times left
  cron,        \* workers cron has yet to start
  failed,      \* callbacks of nginx-rtmp for which the server found no stream
  edits, faults

scheduleVars == <<shape, state, touched, since>>
streamVars == <<streams, keys>>
workerVars == <<pc, queue, cur, due, cron>>
vars == <<now, scheduleVars, streamVars, workerVars, failed, edits, faults>>

Statuses == {"scheduled", "live", "ended"}

TypeOK ==
  /\ now \in Nat
  /\ shape \in [Schedules -> ShapeType]
  /\ state \in [Schedules -> {"unused", "active", "paused", "deleted"}]
  /\ touched \in [Schedules -> Nat \cup {None}]
  /\ since \in [Schedules -> Nat]
  /\ streams \in Seq([schedule : Schedules \cup {None}, at : Int, status : Statuses, key : Nat])
  /\ keys \in Nat
  /\ pc \in [Workers -> {"idle", "pick", "walk", "insert"}]
  /\ queue \in [Workers -> SUBSET Schedules]
  /\ cur \in [Workers -> Schedules \cup {None}]
  /\ due \in [Workers -> SUBSET Int]
  /\ cron \in Nat
  /\ failed \subseteq {"auth", "done"} \X Nat
  /\ edits \in Nat /\ faults \in Nat

Init ==
  /\ now = Day
  /\ shape \in [Schedules -> Shapes]
  /\ state = [s \in Schedules |-> "unused"]
  /\ touched = [s \in Schedules |-> None]
  /\ since = [s \in Schedules |-> 0]
  /\ streams = <<>> /\ keys = 0
  /\ pc = [w \in Workers |-> "idle"]
  /\ queue = [w \in Workers |-> {}]
  /\ cur = [w \in Workers |-> None]
  /\ due = [w \in Workers |-> {}]
  /\ cron = 0
  /\ failed = {}
  /\ edits = 0 /\ faults = 0

Edit == edits < MaxEdits /\ edits' = edits + 1
Fault == faults < MaxFaults /\ faults' = faults + 1

-----------------------------------------------------------------------------
(* The admin *)

CreateSchedule(s) ==
  /\ state[s] = "unused"
  /\ state' = [state EXCEPT ![s] = "active"]
  /\ since' = [since EXCEPT ![s] = now]
  /\ UNCHANGED <<now, shape, touched, streamVars, workerVars, failed, edits, faults>>

SetActive(s, active) ==
  /\ state[s] \in {"active", "paused"} /\ Edit
  /\ state' = [state EXCEPT ![s] = IF active THEN "active" ELSE "paused"]
  /\ since' = [since EXCEPT ![s] = IF active /\ state[s] = "paused" THEN now ELSE @]
  /\ UNCHANGED <<now, shape, touched, streamVars, workerVars, failed, faults>>

\* Its streams stay, without a schedule.
DeleteSchedule(s) ==
  /\ state[s] \in {"active", "paused"} /\ Edit
  /\ state' = [state EXCEPT ![s] = "deleted"]
  /\ streams' = [i \in DOMAIN streams |->
                   IF streams[i].schedule = s THEN [streams[i] EXCEPT !.schedule = None]
                                              ELSE streams[i]]
  /\ UNCHANGED <<now, shape, touched, since, keys, workerVars, failed, faults>>

-----------------------------------------------------------------------------
(* Streams *)

Insert(s, t) ==
  /\ Len(streams) < MaxStreams
  /\ streams' = Append(streams, [schedule |-> s, at |-> t, status |-> "scheduled", key |-> keys])
  /\ keys' = keys + 1

CreateStream ==
  /\ Edit /\ Insert(None, now)
  /\ UNCHANGED <<now, scheduleVars, workerVars, failed, faults>>

SetLive(i) == streams' = [streams EXCEPT ![i].status = "live"] /\ UNCHANGED keys

\* The key is rotated, so that the old one cannot be used again.
SetEnded(i) ==
  /\ streams' = [streams EXCEPT ![i].status = "ended", ![i].key = keys]
  /\ keys' = keys + 1

\* Neither looks at the status the stream has.
StartStream(i) ==
  /\ Edit /\ SetLive(i)
  /\ UNCHANGED <<now, scheduleVars, workerVars, failed, faults>>

EndStream(i) ==
  /\ Edit /\ SetEnded(i)
  /\ UNCHANGED <<now, scheduleVars, workerVars, failed, faults>>

\* Row-level security: a session shows rows of its tenant, an elevated one all, a blank
\* one none.  The callbacks' routes attach no context, so theirs is blank.
RowsVisible(context) == IF context = "blank" THEN {} ELSE DOMAIN streams

GetStreamByKey(context, k) == {i \in RowsVisible(context) : streams[i].key = k}

\* nginx-rtmp asks before it lets a publisher on air, and tells when it has gone.
RtmpCallback(op, k) ==
  /\ Edit
  /\ LET found == GetStreamByKey("blank", k) IN
     IF found = {}
     THEN failed' = failed \cup {<<op, k>>} /\ UNCHANGED streamVars
     ELSE /\ \E i \in found : IF op = "auth" THEN SetLive(i) ELSE SetEnded(i)
          /\ UNCHANGED failed
  /\ UNCHANGED <<now, scheduleVars, workerVars, faults>>

-----------------------------------------------------------------------------
(* The worker *)

Midnight(sh, d) == d * Day - sh.offset
StartOf(sh, d) == Midnight(sh, d) + sh.hour
LocalDay(sh, t) == (t + sh.offset) \div Day

\* The local dates the loop visits at time t.
Visited(sh, t) ==
  {d \in LocalDay(sh, t)..(LocalDay(sh, t) + Horizon \div Day + 1) : Midnight(sh, d) < t + Horizon}

\* Mutant of InWindow: the end of the window is forgotten.
OpenWindow(sh, d) == ~ (Midnight(sh, d) < sh.starts * Day)

\* The dates are read from the database as midnights of UTC, and compared with local ones.
InWindow(sh, d) == ~ (Midnight(sh, d) < sh.starts * Day) /\ ~ (Midnight(sh, d) > sh.ends * Day)

Wanted(sh, d) == d % Week \in sh.weekdays

\* The starting times materialise comes to at time t.
Occurrences(sh, t) ==
  {StartOf(sh, d) : d \in {e \in Visited(sh, t) :
     Wanted(sh, e) /\ InWindow(sh, e) /\ StartOf(sh, e) >= t - Grace}}

\* Mutant of NeedsMaterialisation: a schedule is planned once and for all.
NeedsOnce(s) ==
  /\ state[s] = "active"
  /\ shape[s].starts <= now \div Day /\ now \div Day <= shape[s].ends
  /\ touched[s] = None

NeedsMaterialisation(s) ==
  /\ state[s] = "active"
  /\ shape[s].starts <= now \div Day /\ now \div Day <= shape[s].ends
  /\ touched[s] = None \/ touched[s] < now - Gap

\* The first BatchSize of them, by id.
ListSchedules ==
  {s \in Schedules : NeedsMaterialisation(s)
     /\ Cardinality({r \in Schedules : r < s /\ NeedsMaterialisation(r)}) < BatchSize}

\* Mutant of StreamExists: a stream that has begun no longer counts.
StreamPending(s, t) ==
  \E i \in DOMAIN streams :
    streams[i].schedule = s /\ streams[i].at = t /\ streams[i].status = "scheduled"

StreamExists(s, t) == \E i \in DOMAIN streams : streams[i].schedule = s /\ streams[i].at = t

\* The loop takes the dates in order.
First(S) == {t \in S : \A u \in S : t <= u}

RunWorker(w) ==
  /\ pc[w] = "idle" /\ cron > 0
  /\ cron' = cron - 1
  /\ pc' = [pc EXCEPT ![w] = "pick"]
  /\ queue' = [queue EXCEPT ![w] = ListSchedules]
  /\ UNCHANGED <<now, scheduleVars, streamVars, cur, due, failed, edits, faults>>

Materialise(w, s) ==
  /\ pc[w] = "pick" /\ s \in queue[w]
  /\ \A r \in queue[w] : s <= r
  /\ pc' = [pc EXCEPT ![w] = "walk"]
  /\ queue' = [queue EXCEPT ![w] = @ \ {s}]
  /\ cur' = [cur EXCEPT ![w] = s]
  /\ due' = [due EXCEPT ![w] = Occurrences(shape[s], now)]
  /\ UNCHANGED <<now, scheduleVars, streamVars, cron, failed, edits, faults>>

\* There is a stream for the first starting time left, or none yet.
CheckExists(w) ==
  /\ pc[w] = "walk"
  /\ \E t \in First(due[w]) :
       IF StreamExists(cur[w], t)
       THEN due' = [due EXCEPT ![w] = @ \ {t}] /\ UNCHANGED pc
       ELSE pc' = [pc EXCEPT ![w] = "insert"] /\ UNCHANGED due
  /\ UNCHANGED <<now, scheduleVars, streamVars, queue, cur, cron, failed, edits, faults>>

\* The foreign key refuses a schedule deleted meanwhile; the loop goes on either way.
CreateScheduledStream(w) ==
  /\ pc[w] = "insert"
  /\ \E t \in First(due[w]) :
       /\ due' = [due EXCEPT ![w] = @ \ {t}]
       /\ IF state[cur[w]] = "deleted" THEN UNCHANGED streamVars ELSE Insert(cur[w], t)
  /\ pc' = [pc EXCEPT ![w] = "walk"]
  /\ UNCHANGED <<now, scheduleVars, queue, cur, cron, failed, edits, faults>>

\* A query of the loop fails: it goes on with the next date.
QueryFails(w) ==
  /\ pc[w] \in {"walk", "insert"} /\ Fault
  /\ \E t \in First(due[w]) : due' = [due EXCEPT ![w] = @ \ {t}]
  /\ pc' = [pc EXCEPT ![w] = "walk"]
  /\ UNCHANGED <<now, scheduleVars, streamVars, queue, cur, cron, failed, edits>>

\* Also after errors in the loop, and without effect on a deleted schedule.
TouchMaterialised(w) ==
  /\ pc[w] = "walk" /\ due[w] = {}
  /\ touched' = [touched EXCEPT ![cur[w]] = IF state[cur[w]] = "deleted" THEN @ ELSE now]
  /\ pc' = [pc EXCEPT ![w] = "pick"]
  /\ cur' = [cur EXCEPT ![w] = None]
  /\ UNCHANGED <<now, shape, state, since, streamVars, queue, due, cron, failed, edits, faults>>

TouchFails(w) ==
  /\ pc[w] = "walk" /\ due[w] = {} /\ Fault
  /\ pc' = [pc EXCEPT ![w] = "pick"]
  /\ cur' = [cur EXCEPT ![w] = None]
  /\ UNCHANGED <<now, scheduleVars, streamVars, queue, due, cron, failed, edits>>

Finish(w) ==
  /\ pc[w] = "pick" /\ queue[w] = {}
  /\ pc' = [pc EXCEPT ![w] = "idle"]
  /\ UNCHANGED <<now, scheduleVars, streamVars, queue, cur, due, cron, failed, edits, faults>>

\* The process dies; whoever started it may start it again.
Crash(w) ==
  /\ pc[w] # "idle" /\ Fault
  /\ pc' = [pc EXCEPT ![w] = "idle"]
  /\ queue' = [queue EXCEPT ![w] = {}]
  /\ cur' = [cur EXCEPT ![w] = None]
  /\ due' = [due EXCEPT ![w] = {}]
  /\ cron' \in {cron, cron + 1}
  /\ UNCHANGED <<now, scheduleVars, streamVars, failed, edits>>

-----------------------------------------------------------------------------

\* A run is over within the hour.
Tick ==
  /\ now < MaxTime /\ cron = 0 /\ \A w \in Workers : pc[w] = "idle"
  /\ now' = now + 1
  /\ cron' = IF now' % Day = CronHour THEN Launches ELSE 0
  /\ UNCHANGED <<scheduleVars, streamVars, pc, queue, cur, due, failed, edits, faults>>

AdminStep ==
  \E s \in Schedules :
    CreateSchedule(s) \/ DeleteSchedule(s) \/ \E active \in BOOLEAN : SetActive(s, active)

StreamStep ==
  \/ CreateStream
  \/ \E i \in DOMAIN streams : StartStream(i) \/ EndStream(i)
  \/ \E op \in {"auth", "done"}, k \in 0..(keys - 1) : RtmpCallback(op, k)

WorkerStep(w) ==
  \/ RunWorker(w) \/ \E s \in Schedules : Materialise(w, s)
  \/ CheckExists(w) \/ CreateScheduledStream(w) \/ TouchMaterialised(w) \/ Finish(w)
  \/ QueryFails(w) \/ TouchFails(w) \/ Crash(w)

Next == Tick \/ AdminStep \/ StreamStep \/ \E w \in Workers : WorkerStep(w)

Spec == Init /\ [][Next]_vars

-----------------------------------------------------------------------------
(* Properties *)

\* The classes a schedule describes, said with dates instead of instants.
ClassDays(sh) == {d \in sh.starts..sh.ends : d % Week \in sh.weekdays}

\* However runs crash, are repeated or fail half-way, and whatever becomes of the streams,
\* the worker gives a class one stream (cmd/scheduleworker/main.go:11-12).
OneStreamPerClass ==
  \A i, j \in DOMAIN streams :
    i # j /\ streams[i].schedule # None /\ streams[i].schedule = streams[j].schedule
      => streams[i].at # streams[j].at

\* It creates no stream for a day the schedule does not describe.
OnlyClasses ==
  \A i \in DOMAIN streams : streams[i].schedule # None =>
    LET sh == shape[streams[i].schedule] IN
    \E d \in ClassDays(sh) : streams[i].at = StartOf(sh, d)

\* The runs that could have planned the class of day d.
RunsFor(s, d) ==
  {c \in 0..(now - 1) :
     /\ c % Day = CronHour /\ since[s] < c /\ shape[s].starts <= c \div Day
     /\ c <= StartOf(shape[s], d) /\ StartOf(shape[s], d) < c + Horizon}

\* The days in D of every active schedule are planned once more runs have had them in
\* sight than something went wrong in.
Planned(s, D) ==
  \A d \in D : Cardinality(RunsFor(s, d)) > faults =>
    \E i \in DOMAIN streams : streams[i].schedule = s /\ streams[i].at = StartOf(shape[s], d)

\* A class is planned although runs fail or die half-way, since a schedule is walked again
\* after 12 hours (sql/queries/class_schedules.sql:29-32): but east of UTC not that of the
\* first day, and west of it not that of the last (see ClassesPlanned).
ClearDays(sh) ==
  {d \in ClassDays(sh) : (sh.offset > 0 => d > sh.starts) /\ (sh.offset < 0 => d < sh.ends)}

FaultsAreRepaired ==
  \A s \in Schedules : state[s] = "active" => Planned(s, ClearDays(shape[s]))

\* Every class of the window is planned (migrations/037_class_schedules.sql:33).
ClassesPlanned ==
  \A s \in Schedules : state[s] = "active" => Planned(s, ClassDays(shape[s]))

\* Only a key that belongs to no stream is refused (stream/service.go:121-124).
KnownKeysPublish ==
  [][\A k \in 0..(keys - 1) :
       <<"auth", k>> \in failed' \ failed => \A i \in DOMAIN streams : streams[i].key # k]_vars

-----------------------------------------------------------------------------
(* What becomes of a schedule and its streams, in the words of Timetable *)

Stage(s) == CASE state[s] = "unused" -> "new" [] state[s] = "deleted" -> "closed" [] OTHER -> "open"

Lessons ==
  {[row |-> i, schedule |-> streams[i].schedule, at |-> streams[i].at] :
     i \in {j \in DOMAIN streams : streams[j].schedule # None}}

Table == INSTANCE Timetable WITH
  Rows <- 1..MaxStreams,
  classes <- [s \in Schedules |-> {StartOf(shape[s], d) : d \in ClassDays(shape[s])}],
  stage <- [s \in Schedules |-> Stage(s)],
  lessons <- Lessons

\* A class that is planned stays planned, at its time and only once, until its schedule is deleted;
\* then all its streams go on without it (migrations/037_class_schedules.sql:62-64), and a run
\* that is under way plans no more of them (cmd/scheduleworker/main.go:158-187).
TimetableSpec == Table!Spec
=============================================================================
