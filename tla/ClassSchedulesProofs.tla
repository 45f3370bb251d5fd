------------------------ MODULE ClassSchedulesProofs ------------------------
(***************************************************************************)
(* Proofs about ClassSchedules, for any schedules and any time zones.      *)
(***************************************************************************)
EXTENDS ClassSchedules, SequenceTheorems, FiniteSetTheorems, TLAPS

-----------------------------------------------------------------------------
(* Dates *)

\* Midnights of two different days are a day apart at least.
LEMMA DaysApart ==
  ASSUME NEW a \in Int, NEW b \in Int, NEW k \in Nat, a < b
  PROVE  a * k + k <= b * k
<1> DEFINE n == b - a - 1
<1>1. n \in Nat
  OBVIOUS
<1>2. n * k \in Nat
  BY <1>1, SMT
<1>3. b * k = a * k + k + n * k
  BY SMT
<1> QED
  BY <1>2, <1>3, SMT

\* A day the loop accepts lies between the dates of the schedule: comparing midnights of
\* the local day with midnights of UTC never lets a day outside them pass.
LEMMA InsideWindow ==
  ASSUME NEW sh \in ShapeType, NEW d \in Int, InWindow(sh, d)
  PROVE  d \in sh.starts..sh.ends
<1>1. sh.starts \in Int /\ sh.ends \in Int /\ sh.offset \in (1 - Day)..(Day - 1) /\ Day \in Nat
  BY ScheduleAssumptions DEF ShapeType
<1>2. d * Day \in Int /\ sh.starts * Day \in Int /\ sh.ends * Day \in Int
  BY <1>1, SMT
<1>3. ~ (d * Day - sh.offset < sh.starts * Day) /\ ~ (d * Day - sh.offset > sh.ends * Day)
  BY DEF InWindow, Midnight
<1>4. ~ (d < sh.starts)
  <2> SUFFICES ASSUME d < sh.starts PROVE FALSE
    OBVIOUS
  <2>1. d * Day + Day <= sh.starts * Day
    BY <1>1, DaysApart
  <2> QED
    BY <1>1, <1>2, <1>3, <2>1, SMT
<1>5. ~ (sh.ends < d)
  <2> SUFFICES ASSUME sh.ends < d PROVE FALSE
    OBVIOUS
  <2>1. sh.ends * Day + Day <= d * Day
    BY <1>1, DaysApart
  <2> QED
    BY <1>1, <1>2, <1>3, <2>1, SMT
<1> QED
  BY <1>1, <1>4, <1>5

IsClass(sh, t) == \E d \in ClassDays(sh) : t = StartOf(sh, d)

\* What materialise computes are starts of classes.
LEMMA OccurrencesAreClasses ==
  ASSUME NEW sh \in ShapeType, NEW t \in Int, NEW x \in Occurrences(sh, t)
  PROVE  x \in Int /\ IsClass(sh, x)
<1>1. PICK d \in Visited(sh, t) : x = StartOf(sh, d) /\ Wanted(sh, d) /\ InWindow(sh, d)
  BY DEF Occurrences
<1>2. d \in Int
  BY <1>1 DEF Visited
<1>3. d \in sh.starts..sh.ends
  BY <1>1, <1>2, InsideWindow
<1>4. d \in ClassDays(sh)
  BY <1>1, <1>3 DEF ClassDays, Wanted
<1>5. sh.offset \in Int /\ sh.hour \in Int /\ d * Day \in Int
  <2>1. Day \in Int /\ sh.offset \in Int /\ sh.hour \in Int
    BY ScheduleAssumptions DEF ShapeType
  <2> QED
    BY <1>2, <2>1, SMT
<1>6. x \in Int
  BY <1>1, <1>5 DEF StartOf, Midnight
<1> QED
  BY <1>1, <1>4, <1>6 DEF IsClass

-----------------------------------------------------------------------------
(* Steps of the streams table *)

Row == [schedule : Schedules \cup {None}, at : Int, status : Statuses, key : Nat]

\* No row is added, none gets another starting time, and a row loses its schedule only
\* when that is deleted.
RowsKept ==
  /\ DOMAIN streams' = DOMAIN streams
  /\ \A i \in DOMAIN streams :
       /\ streams'[i].at = streams[i].at
       /\ \/ streams'[i].schedule = streams[i].schedule
          \/ /\ streams'[i].schedule = None /\ streams[i].schedule # None
             /\ state'[streams[i].schedule] = "deleted"

\* The one row added is for schedule s at time t.
RowAdded(s, t) ==
  LET n == Len(streams) + 1 IN
  /\ n \notin DOMAIN streams /\ DOMAIN streams' = DOMAIN streams \cup {n}
  /\ \A i \in DOMAIN streams : streams'[i] = streams[i]
  /\ streams'[n].schedule = s /\ streams'[n].at = t

StreamsTyped == streams \in Seq(Row) /\ keys \in Nat

\* Rewriting rows in place.
LEMMA Rewrite ==
  ASSUME StreamsTyped, NEW f, f = [i \in DOMAIN streams |-> f[i]],
         \A i \in DOMAIN streams : f[i] \in Row
  PROVE  f \in Seq(Row) /\ DOMAIN f = DOMAIN streams
<1>1. DOMAIN streams = 1..Len(streams) /\ Len(streams) \in Nat
  BY LenProperties DEF StreamsTyped
<1>2. f \in [1..Len(streams) -> Row]
  BY <1>1
<1> QED
  BY <1>1, <1>2, SeqDef

LEMMA RowOf ==
  ASSUME StreamsTyped, NEW i \in DOMAIN streams
  PROVE  streams[i] \in Row
BY LenProperties, ElementOfSeq DEF StreamsTyped

LEMMA SetLiveKeeps ==
  ASSUME StreamsTyped, NEW i \in DOMAIN streams, SetLive(i)
  PROVE  StreamsTyped' /\ RowsKept
<1> DEFINE f == [streams EXCEPT ![i].status = "live"]
<1>1. \A j \in DOMAIN streams : streams[j] \in Row
  BY RowOf
<1>2. f = [j \in DOMAIN streams |-> f[j]] /\ \A j \in DOMAIN streams : f[j] \in Row
  BY <1>1 DEF Row, Statuses
<1>3. f \in Seq(Row) /\ DOMAIN f = DOMAIN streams
  BY <1>2, Rewrite
<1>4. streams' = f /\ keys' = keys
  BY DEF SetLive
<1>5. \A j \in DOMAIN streams : f[j].at = streams[j].at /\ f[j].schedule = streams[j].schedule
  BY <1>1 DEF Row
<1> QED
  BY <1>3, <1>4, <1>5 DEF StreamsTyped, RowsKept

LEMMA SetEndedKeeps ==
  ASSUME StreamsTyped, NEW i \in DOMAIN streams, SetEnded(i)
  PROVE  StreamsTyped' /\ RowsKept
<1> DEFINE f == [streams EXCEPT ![i].status = "ended", ![i].key = keys]
<1>1. keys \in Nat /\ \A j \in DOMAIN streams : streams[j] \in Row
  BY RowOf DEF StreamsTyped
<1>2. f = [j \in DOMAIN streams |-> f[j]] /\ \A j \in DOMAIN streams : f[j] \in Row
  BY <1>1 DEF Row, Statuses
<1>3. f \in Seq(Row) /\ DOMAIN f = DOMAIN streams
  BY <1>2, Rewrite
<1>4. streams' = f /\ keys' = keys + 1
  BY DEF SetEnded
<1>5. \A j \in DOMAIN streams : f[j].at = streams[j].at /\ f[j].schedule = streams[j].schedule
  BY <1>1 DEF Row
<1> QED
  BY <1>1, <1>3, <1>4, <1>5 DEF StreamsTyped, RowsKept

LEMMA DeleteKeeps ==
  ASSUME StreamsTyped, TypeOK, NEW s \in Schedules, DeleteSchedule(s)
  PROVE  StreamsTyped' /\ RowsKept
<1> DEFINE f == [i \in DOMAIN streams |->
                   IF streams[i].schedule = s THEN [streams[i] EXCEPT !.schedule = None]
                                              ELSE streams[i]]
<1>1. \A j \in DOMAIN streams : streams[j] \in Row
  BY RowOf
<1>2. f = [j \in DOMAIN streams |-> f[j]] /\ \A j \in DOMAIN streams : f[j] \in Row
  BY <1>1 DEF Row
<1>3. f \in Seq(Row) /\ DOMAIN f = DOMAIN streams
  BY <1>2, Rewrite
<1>4. streams' = f /\ keys' = keys
  BY DEF DeleteSchedule
<1>5. \A j \in DOMAIN streams :
        /\ f[j].at = streams[j].at
        /\ \/ f[j].schedule = streams[j].schedule
           \/ streams[j].schedule = s /\ f[j].schedule = None
  BY <1>1 DEF Row
<1>6. state'[s] = "deleted" /\ s # None
  BY ScheduleAssumptions DEF DeleteSchedule, TypeOK
<1> QED
  BY <1>3, <1>4, <1>5, <1>6 DEF StreamsTyped, RowsKept

LEMMA InsertAdds ==
  ASSUME StreamsTyped, NEW s \in Schedules \cup {None}, NEW t \in Int, Insert(s, t)
  PROVE  StreamsTyped' /\ RowAdded(s, t)
<1> DEFINE r == [schedule |-> s, at |-> t, status |-> "scheduled", key |-> keys]
<1>1. r \in Row /\ streams \in Seq(Row) /\ keys \in Nat
  BY DEF Row, Statuses, StreamsTyped
<1>2. streams' = Append(streams, r) /\ keys' = keys + 1
  BY DEF Insert
<1>3. /\ Append(streams, r) \in Seq(Row) /\ Len(Append(streams, r)) = Len(streams) + 1
      /\ \A i \in 1..Len(streams) : Append(streams, r)[i] = streams[i]
      /\ Append(streams, r)[Len(streams) + 1] = r
  BY <1>1, AppendProperties
<1>4. Len(streams) \in Nat /\ DOMAIN streams = 1..Len(streams)
      /\ DOMAIN streams' = 1..(Len(streams) + 1)
  BY <1>1, <1>2, <1>3, LenProperties
<1>5. StreamsTyped'
  BY <1>1, <1>2, <1>3 DEF StreamsTyped
<1> QED
  BY <1>2, <1>3, <1>4, <1>5 DEF RowAdded

-----------------------------------------------------------------------------
(* The inductive invariant *)

\* What a worker has left to do are starts of classes of the schedule it works on.
WorkOK(w) ==
  /\ pc[w] \in {"idle", "pick"} => due[w] = {}
  /\ pc[w] \in {"walk", "insert"} => cur[w] \in Schedules
  /\ \A t \in due[w] : IsClass(shape[cur[w]], t)

Work == \A w \in Workers : WorkOK(w)

IInv == TypeOK /\ Work /\ OnlyClasses

LEMMA InitHolds == Init => IInv
<1> SUFFICES ASSUME Init PROVE IInv
  OBVIOUS
<1>1. streams = <<>> /\ DOMAIN streams = {}
  BY DEF Init
<1>2. TypeOK
  BY ScheduleAssumptions, <1>1, EmptySeq DEF Init, TypeOK
<1>3. Work
  BY DEF Init, Work, WorkOK
<1>4. OnlyClasses
  BY <1>1 DEF OnlyClasses
<1> QED
  BY <1>2, <1>3, <1>4 DEF IInv

\* Shapes never change, and a step does one of three things to the streams table.
LEMMA StreamsStep ==
  ASSUME TypeOK, Work, [Next]_vars
  PROVE  /\ StreamsTyped' /\ shape' = shape
         /\ \/ RowsKept
            \/ \E t \in Int : RowAdded(None, t)
            \/ \E w \in Workers, t \in Int :
                 /\ pc[w] = "insert" /\ CreateScheduledStream(w)
                 /\ t \in First(due[w]) /\ RowAdded(cur[w], t)
<1> USE DEF scheduleVars, streamVars, workerVars
<1>1. StreamsTyped /\ now \in Int
  BY DEF TypeOK, StreamsTyped, Row
<1>2. ASSUME UNCHANGED streamVars PROVE StreamsTyped' /\ RowsKept
  BY <1>1, <1>2 DEF StreamsTyped, RowsKept
<1>3. CASE Tick
  BY <1>2, <1>3 DEF Tick
<1>4. CASE AdminStep
  <2>1. ASSUME NEW s \in Schedules, CreateSchedule(s) PROVE UNCHANGED <<streamVars, shape>>
    BY <2>1 DEF CreateSchedule
  <2>2. ASSUME NEW s \in Schedules, NEW b \in BOOLEAN, SetActive(s, b)
        PROVE  UNCHANGED <<streamVars, shape>>
    BY <2>2 DEF SetActive
  <2>3. ASSUME NEW s \in Schedules, DeleteSchedule(s)
        PROVE  StreamsTyped' /\ RowsKept /\ shape' = shape
    BY <1>1, <2>3, DeleteKeeps DEF DeleteSchedule
  <2> QED
    BY <1>2, <1>4, <2>1, <2>2, <2>3 DEF AdminStep
<1>5. CASE StreamStep
  <2>1. ASSUME CreateStream
        PROVE  StreamsTyped' /\ shape' = shape /\ RowAdded(None, now)
    BY <1>1, <2>1, InsertAdds DEF CreateStream
  <2>2. ASSUME NEW i \in DOMAIN streams, StartStream(i)
        PROVE  StreamsTyped' /\ shape' = shape /\ RowsKept
    BY <1>1, <2>2, SetLiveKeeps DEF StartStream
  <2>3. ASSUME NEW i \in DOMAIN streams, EndStream(i)
        PROVE  StreamsTyped' /\ shape' = shape /\ RowsKept
    BY <1>1, <2>3, SetEndedKeeps DEF EndStream
  <2>4. ASSUME NEW op \in {"auth", "done"}, NEW k \in 0..(keys - 1), RtmpCallback(op, k)
        PROVE  StreamsTyped' /\ shape' = shape /\ RowsKept
    BY <1>2, <2>4 DEF RtmpCallback, GetStreamByKey, RowsVisible
  <2> QED
    BY <1>1, <1>5, <2>1, <2>2, <2>3, <2>4 DEF StreamStep
<1>6. ASSUME NEW w \in Workers, WorkerStep(w)
      PROVE  \/ UNCHANGED <<streamVars, shape>>
             \/ CreateScheduledStream(w) /\ ~ UNCHANGED streamVars /\ shape' = shape
  BY <1>6 DEF WorkerStep, RunWorker, Materialise, CheckExists, CreateScheduledStream,
     TouchMaterialised, TouchFails, Finish, QueryFails, Crash
<1>7. ASSUME NEW w \in Workers, CreateScheduledStream(w), ~ UNCHANGED streamVars
      PROVE  \E t \in Int : /\ pc[w] = "insert" /\ StreamsTyped'
                            /\ t \in First(due[w]) /\ RowAdded(cur[w], t)
  <2>1. pc[w] = "insert" /\ cur[w] \in Schedules /\ due[w] \subseteq Int
    BY <1>7 DEF CreateScheduledStream, Work, WorkOK, TypeOK
  <2>2. PICK t \in First(due[w]) : Insert(cur[w], t)
    BY <1>7 DEF CreateScheduledStream
  <2>3. t \in Int
    BY <2>1 DEF First
  <2> QED
    BY <1>1, <2>1, <2>2, <2>3, InsertAdds
<1>8. CASE UNCHANGED vars
  BY <1>2, <1>8 DEF vars
<1> QED
  BY <1>2, <1>3, <1>4, <1>5, <1>6, <1>7, <1>8 DEF Next

LEMMA OnlyClassesStep ==
  ASSUME TypeOK, Work, OnlyClasses, [Next]_vars
  PROVE  OnlyClasses'
<1> SUFFICES ASSUME NEW i \in DOMAIN streams', streams'[i].schedule # None
             PROVE  IsClass(shape[streams'[i].schedule], streams'[i].at)
  BY StreamsStep DEF OnlyClasses, IsClass, ClassDays, StartOf, Midnight
<1>1. ASSUME NEW j \in DOMAIN streams, streams[j].schedule # None
      PROVE  IsClass(shape[streams[j].schedule], streams[j].at)
  BY <1>1 DEF OnlyClasses, IsClass
<1>2. CASE RowsKept
  <2>1. i \in DOMAIN streams /\ streams'[i].at = streams[i].at
        /\ streams'[i].schedule = streams[i].schedule
    BY <1>2 DEF RowsKept
  <2> QED
    BY <1>1, <2>1
<1>3. ASSUME NEW t \in Int, RowAdded(None, t)
      PROVE  IsClass(shape[streams'[i].schedule], streams'[i].at)
  <2>1. i \in DOMAIN streams /\ streams'[i] = streams[i]
    BY <1>3 DEF RowAdded
  <2> QED
    BY <1>1, <2>1
<1>4. ASSUME NEW w \in Workers, NEW t \in First(due[w]), RowAdded(cur[w], t)
      PROVE  IsClass(shape[streams'[i].schedule], streams'[i].at)
  <2>1. IsClass(shape[cur[w]], t)
    BY DEF First, Work, WorkOK
  <2>2. CASE i \in DOMAIN streams
    BY <1>1, <1>4, <2>2 DEF RowAdded
  <2>3. CASE i \notin DOMAIN streams
    BY <1>4, <2>1, <2>3 DEF RowAdded
  <2> QED
    BY <2>2, <2>3
<1> QED
  BY <1>2, <1>3, <1>4, StreamsStep

LEMMA WorkStep ==
  ASSUME TypeOK, Work, [Next]_vars
  PROVE  Work'
<1> USE DEF scheduleVars, streamVars, workerVars
<1>1. shape' = shape
  BY StreamsStep
<1>2. ASSUME UNCHANGED <<pc, cur, due>> PROVE Work'
  BY <1>1, <1>2 DEF Work, WorkOK, IsClass, ClassDays, StartOf, Midnight
<1>3. CASE Tick \/ AdminStep \/ StreamStep \/ UNCHANGED vars
  <2> UNCHANGED <<pc, cur, due>>
    BY <1>3 DEF Tick, AdminStep, StreamStep, CreateSchedule, SetActive, DeleteSchedule,
       CreateStream, StartStream, EndStream, RtmpCallback, vars
  <2> QED
    BY <1>2
<1>4. ASSUME NEW w \in Workers, WorkerStep(w) PROVE Work'
  <2>1. SUFFICES /\ pc'[w] \in {"idle", "pick"} => due'[w] = {}
                 /\ pc'[w] \in {"walk", "insert"} => cur'[w] \in Schedules
                 /\ \A t \in due'[w] : IsClass(shape[cur'[w]], t)
                 /\ \A v \in Workers \ {w} :
                      pc'[v] = pc[v] /\ cur'[v] = cur[v] /\ due'[v] = due[v]
    BY <1>1 DEF Work, WorkOK, IsClass, ClassDays, StartOf, Midnight
  <2>2. pc \in [Workers -> {"idle", "pick", "walk", "insert"}]
        /\ cur \in [Workers -> Schedules \cup {None}] /\ due \in [Workers -> SUBSET Int]
    BY DEF TypeOK
  <2>3. WorkOK(w)
    BY DEF Work
  <2>4. CASE RunWorker(w)
    BY <2>2, <2>3, <2>4 DEF RunWorker, WorkOK
  <2>5. ASSUME NEW s \in Schedules, Materialise(w, s)
        PROVE  /\ pc'[w] = "walk" /\ cur'[w] = s
               /\ \A t \in due'[w] : IsClass(shape[s], t)
               /\ \A v \in Workers \ {w} :
                    pc'[v] = pc[v] /\ cur'[v] = cur[v] /\ due'[v] = due[v]
    <3>1. shape[s] \in ShapeType /\ now \in Int
      BY DEF TypeOK
    <3>2. \A t \in Occurrences(shape[s], now) : IsClass(shape[s], t)
      BY <3>1, OccurrencesAreClasses
    <3>3. due'[w] = Occurrences(shape[s], now) /\ pc'[w] = "walk" /\ cur'[w] = s
      BY <2>2, <2>5 DEF Materialise
    <3> QED
      BY <2>2, <2>5, <3>2, <3>3 DEF Materialise
  <2>6. CASE CheckExists(w)
    BY <2>2, <2>3, <2>6 DEF CheckExists, WorkOK
  <2>7. CASE CreateScheduledStream(w)
    BY <2>2, <2>3, <2>7 DEF CreateScheduledStream, WorkOK
  <2>8. CASE TouchMaterialised(w)
    BY <2>2, <2>3, <2>8 DEF TouchMaterialised, WorkOK
  <2>9. CASE Finish(w)
    BY <2>2, <2>3, <2>9 DEF Finish, WorkOK
  <2>10. CASE QueryFails(w)
    BY <2>2, <2>3, <2>10 DEF QueryFails, WorkOK
  <2>11. CASE Crash(w)
    BY <2>2, <2>3, <2>11 DEF Crash, WorkOK
  <2>12. CASE TouchFails(w)
    BY <2>2, <2>3, <2>12 DEF TouchFails, WorkOK
  <2> QED
    BY <1>4, <2>4, <2>5, <2>6, <2>7, <2>8, <2>9, <2>10, <2>11, <2>12 DEF WorkerStep
<1> QED
  BY <1>3, <1>4 DEF Next

LEMMA TypeStep ==
  ASSUME TypeOK, Work, [Next]_vars
  PROVE  TypeOK'
<1> USE DEF scheduleVars, streamVars, workerVars
<1>1. /\ streams' \in Seq([schedule : Schedules \cup {None}, at : Int, status : Statuses, key : Nat])
      /\ keys' \in Nat /\ shape' \in [Schedules -> ShapeType]
  BY StreamsStep DEF StreamsTyped, Row, TypeOK
<1>2. now' \in Nat /\ edits' \in Nat /\ faults' \in Nat
  <2>1. ASSUME NEW w \in Workers, WorkerStep(w) PROVE now' \in Nat /\ edits' \in Nat /\ faults' \in Nat
    BY <2>1 DEF TypeOK, WorkerStep, RunWorker, Materialise, CheckExists, CreateScheduledStream,
       TouchMaterialised, TouchFails, Finish, QueryFails, Crash, Fault
  <2>2. CASE AdminStep
    <3>1. UNCHANGED <<now, faults>> /\ edits' \in {edits, edits + 1}
      BY <2>2 DEF AdminStep, CreateSchedule, SetActive, DeleteSchedule, Edit
    <3> QED
      BY <3>1 DEF TypeOK
  <2>3. CASE StreamStep
    <3>1. UNCHANGED <<now, faults>> /\ edits' = edits + 1
      BY <2>3 DEF StreamStep, CreateStream, StartStream, EndStream, RtmpCallback, Edit
    <3> QED
      BY <3>1 DEF TypeOK
  <2>4. CASE Tick \/ UNCHANGED vars
    BY <2>4 DEF TypeOK, Tick, vars
  <2> QED
    BY <2>1, <2>2, <2>3, <2>4 DEF Next
<1>3. failed' \subseteq {"auth", "done"} \X Nat
  <2>1. ASSUME NEW op \in {"auth", "done"}, NEW k \in 0..(keys - 1), RtmpCallback(op, k)
        PROVE  failed' \subseteq {"auth", "done"} \X Nat
    <3>1. failed' \in {failed, failed \cup {<<op, k>>}}
      BY <2>1 DEF RtmpCallback
    <3> QED
      BY <3>1 DEF TypeOK
  <2>2. ASSUME NEW w \in Workers, WorkerStep(w) PROVE failed' = failed
    BY <2>2 DEF WorkerStep, RunWorker, Materialise, CheckExists, CreateScheduledStream,
       TouchMaterialised, TouchFails, Finish, QueryFails, Crash
  <2> QED
    BY <2>1, <2>2 DEF TypeOK, Next, Tick, AdminStep, StreamStep, CreateSchedule, SetActive,
       DeleteSchedule, CreateStream, StartStream, EndStream, vars
<1>4. /\ state' \in [Schedules -> {"unused", "active", "paused", "deleted"}]
      /\ since' \in [Schedules -> Nat]
  <2>1. ASSUME NEW w \in Workers, WorkerStep(w) PROVE UNCHANGED <<state, since>>
    BY <2>1 DEF WorkerStep, RunWorker, Materialise, CheckExists, CreateScheduledStream,
       TouchMaterialised, TouchFails, Finish, QueryFails, Crash
  <2>2. ASSUME NEW s \in Schedules, CreateSchedule(s) PROVE <1>4!1 /\ <1>4!2
    BY <2>2 DEF TypeOK, CreateSchedule
  <2>3. ASSUME NEW s \in Schedules, NEW b \in BOOLEAN, SetActive(s, b) PROVE <1>4!1 /\ <1>4!2
    BY <2>3 DEF TypeOK, SetActive
  <2>4. ASSUME NEW s \in Schedules, DeleteSchedule(s) PROVE <1>4!1 /\ <1>4!2
    BY <2>4 DEF TypeOK, DeleteSchedule
  <2>5. CASE Tick \/ StreamStep \/ UNCHANGED vars
    BY <2>5 DEF TypeOK, Tick, StreamStep, CreateStream, StartStream, EndStream, RtmpCallback, vars
  <2> QED
    BY <2>1, <2>2, <2>3, <2>4, <2>5 DEF TypeOK, Next, AdminStep
<1>5. /\ pc' \in [Workers -> {"idle", "pick", "walk", "insert"}]
      /\ queue' \in [Workers -> SUBSET Schedules]
      /\ cur' \in [Workers -> Schedules \cup {None}]
      /\ due' \in [Workers -> SUBSET Int]
      /\ cron' \in Nat
      /\ touched' \in [Schedules -> Nat \cup {None}]
  <2>1. ASSUME NEW w \in Workers, NEW s \in Schedules, Materialise(w, s)
        PROVE  Occurrences(shape[s], now) \subseteq Int
    <3>1. shape[s] \in ShapeType /\ now \in Int
      BY DEF TypeOK
    <3> QED
      BY <3>1, OccurrencesAreClasses
  <2>2. ASSUME NEW w \in Workers, TouchMaterialised(w) PROVE cur[w] \in Schedules
    BY <2>2 DEF TouchMaterialised, Work, WorkOK
  <2>3. ASSUME NEW w \in Workers, WorkerStep(w) PROVE <1>5!1 /\ <1>5!2 /\ <1>5!3 /\ <1>5!4 /\ <1>5!5 /\ <1>5!6
    <3>1. CASE RunWorker(w)
      BY <3>1 DEF RunWorker, ListSchedules, TypeOK
    <3>2. ASSUME NEW s \in Schedules, Materialise(w, s)
          PROVE  <1>5!1 /\ <1>5!2 /\ <1>5!3 /\ <1>5!4 /\ <1>5!5 /\ <1>5!6
      BY <2>1, <3>2 DEF Materialise, TypeOK
    <3>3. CASE CheckExists(w)
      BY <3>3 DEF CheckExists, TypeOK
    <3>4. CASE CreateScheduledStream(w)
      BY <3>4 DEF CreateScheduledStream, TypeOK
    <3>5. CASE TouchMaterialised(w)
      BY <2>2, <3>5 DEF TouchMaterialised, TypeOK
    <3>6. CASE Finish(w)
      BY <3>6 DEF Finish, TypeOK
    <3>7. CASE QueryFails(w)
      BY <3>7 DEF QueryFails, TypeOK
    <3>8. CASE Crash(w)
      BY <3>8 DEF Crash, TypeOK
    <3>9. CASE TouchFails(w)
      BY <3>9 DEF TouchFails, TypeOK
    <3> QED
      BY <2>3, <3>1, <3>2, <3>3, <3>4, <3>5, <3>6, <3>7, <3>8, <3>9 DEF WorkerStep
  <2>4. Launches \in Nat
    BY ScheduleAssumptions
  <2> QED
    BY <2>3, <2>4 DEF TypeOK, Next, Tick, AdminStep, StreamStep, CreateSchedule, SetActive,
       DeleteSchedule, CreateStream, StartStream, EndStream, RtmpCallback, vars
<1> QED
  BY <1>1, <1>2, <1>3, <1>4, <1>5 DEF TypeOK

\* Whatever admins, workers and their failures do, the variables keep their types, workers
\* only ever have classes left to plan, and so do the streams they made.
THEOREM PlanInvariant == Spec => []IInv
<1>1. Init => IInv
  BY InitHolds
<1>2. IInv /\ [Next]_vars => IInv'
  BY TypeStep, WorkStep, OnlyClassesStep DEF IInv
<1> QED
  BY <1>1, <1>2, PTL DEF Spec

\* Schedules, streams and the worker's progress keep their types, for any shapes and bounds.
THEOREM PlanTyped == Spec => []TypeOK
<1>1. IInv => TypeOK
  BY DEF IInv
<1> QED
  BY <1>1, PlanInvariant, PTL

\* No stream is made for a day its schedule does not describe, in any time zone.
THEOREM OnlyClassesPlanned == Spec => []OnlyClasses
<1>1. IInv => OnlyClasses
  BY DEF IInv
<1> QED
  BY <1>1, PlanInvariant, PTL

-----------------------------------------------------------------------------
(* One worker at a time *)

Alone ==
  /\ cron \in {0, 1}
  /\ cron = 1 => \A w \in Workers : pc[w] = "idle"
  /\ \A v, w \in Workers : v # w => pc[v] = "idle" \/ pc[w] = "idle"

\* What a worker has found missing stays missing until it inserts it.
Fresh ==
  \A w \in Workers : pc[w] = "insert" =>
    \A t \in First(due[w]) : ~ StreamExists(cur[w], t)

OneInv == Alone /\ Fresh /\ OneStreamPerClass

LEMMA AloneStep ==
  ASSUME Launches = 1, TypeOK, Alone, [Next]_vars
  PROVE  Alone'
<1> USE DEF scheduleVars, streamVars, workerVars
<1>1. pc \in [Workers -> {"idle", "pick", "walk", "insert"}]
  BY DEF TypeOK
<1>2. CASE Tick
  BY <1>2 DEF Tick, Alone
<1>3. CASE AdminStep \/ StreamStep \/ UNCHANGED vars
  BY <1>3 DEF Alone, AdminStep, StreamStep, CreateSchedule, SetActive, DeleteSchedule,
     CreateStream, StartStream, EndStream, RtmpCallback, vars
<1>4. ASSUME NEW w \in Workers, RunWorker(w) PROVE Alone'
  BY <1>1, <1>4 DEF RunWorker, Alone
<1>5. ASSUME NEW w \in Workers, Crash(w) PROVE Alone'
  BY <1>1, <1>5 DEF Crash, Alone
<1>6. ASSUME NEW w \in Workers, WorkerStep(w), ~ RunWorker(w), ~ Crash(w) PROVE Alone'
  <2>1. pc[w] # "idle" /\ cron' = cron /\ \A v \in Workers \ {w} : pc'[v] = pc[v]
    BY <1>1, <1>6 DEF WorkerStep, Materialise, CheckExists, CreateScheduledStream,
       TouchMaterialised, TouchFails, Finish, QueryFails
  <2> QED
    BY <2>1 DEF Alone
<1> QED
  BY <1>2, <1>3, <1>4, <1>5, <1>6 DEF Next

\* Only the worker's own insertion makes a stream for a schedule.
LEMMA NothingAppears ==
  ASSUME TypeOK, Work, [Next]_vars, NEW s \in Schedules, NEW t \in Int,
         ~ StreamExists(s, t),
         \A w \in Workers : ~ CreateScheduledStream(w)
  PROVE  ~ StreamExists(s, t)'
<1>1. s # None
  BY ScheduleAssumptions
<1>2. CASE RowsKept
  BY <1>1, <1>2 DEF RowsKept, StreamExists
<1>3. ASSUME NEW u \in Int, RowAdded(None, u) PROVE ~ StreamExists(s, t)'
  BY <1>1, <1>3 DEF RowAdded, StreamExists
<1> QED
  BY <1>2, <1>3, StreamsStep

LEMMA FreshStep ==
  ASSUME TypeOK, Work, Alone, Fresh, [Next]_vars
  PROVE  Fresh'
<1> USE DEF scheduleVars, streamVars, workerVars
<1> SUFFICES ASSUME NEW w \in Workers, pc'[w] = "insert", NEW t \in First(due'[w])
             PROVE  ~ \E i \in DOMAIN streams' :
                       streams'[i].schedule = cur'[w] /\ streams'[i].at = t
  BY DEF Fresh, StreamExists, First
<1>1. pc \in [Workers -> {"idle", "pick", "walk", "insert"}] /\ due \in [Workers -> SUBSET Int]
  BY DEF TypeOK
<1>2. CASE pc[w] = "insert" /\ cur'[w] = cur[w] /\ due'[w] = due[w]
           /\ \A v \in Workers : ~ CreateScheduledStream(v)
  <2>1. t \in First(due[w]) /\ t \in Int
    BY <1>1, <1>2 DEF First
  <2>2. PICK s \in Schedules : s = cur[w]
    BY <1>2 DEF Work, WorkOK
  <2>3. ~ StreamExists(s, t)
    BY <1>2, <2>1, <2>2 DEF Fresh
  <2>4. ~ StreamExists(s, t)'
    BY <1>2, <2>1, <2>3, NothingAppears
  <2> QED
    BY <1>2, <2>2, <2>4 DEF StreamExists
<1>3. CASE CheckExists(w) /\ pc[w] # "insert"
  <2>1. PICK u \in First(due[w]) : ~ StreamExists(cur[w], u) /\ due' = due
    BY <1>1, <1>3 DEF CheckExists
  <2>2. t = u
    BY <1>1, <2>1 DEF First
  <2>3. UNCHANGED <<streams, cur>>
    BY <1>3 DEF CheckExists
  <2> QED
    BY <2>1, <2>2, <2>3 DEF StreamExists
<1>4. ASSUME NEW v \in Workers, CreateScheduledStream(v)
      PROVE  FALSE
  <2>1. pc[v] = "insert" /\ pc'[v] = "walk" /\ (v # w => pc'[w] = pc[w])
    BY <1>1, <1>4 DEF CreateScheduledStream
  <2> QED
    BY <2>1 DEF Alone
<1>5. CASE Tick \/ AdminStep \/ StreamStep \/ UNCHANGED vars
  <2>1. UNCHANGED <<pc, cur, due>>
    BY <1>5 DEF Tick, AdminStep, StreamStep, CreateSchedule, SetActive, DeleteSchedule,
       CreateStream, StartStream, EndStream, RtmpCallback, vars
  <2> QED
    BY <1>2, <1>4, <2>1
<1>6. ASSUME NEW v \in Workers, WorkerStep(v), ~ CreateScheduledStream(v)
      PROVE  \/ pc[w] = "insert" /\ cur'[w] = cur[w] /\ due'[w] = due[w]
             \/ CheckExists(w) /\ pc[w] # "insert"
  <2>1. CASE v # w
    BY <1>1, <1>6, <2>1 DEF TypeOK, WorkerStep, RunWorker, Materialise, CheckExists,
       TouchMaterialised, TouchFails, Finish, QueryFails, Crash
  <2>2. CASE v = w
    BY <1>1, <1>6, <2>2 DEF TypeOK, WorkerStep, RunWorker, Materialise, CheckExists,
       TouchMaterialised, TouchFails, Finish, QueryFails, Crash
  <2> QED
    BY <2>1, <2>2
<1> QED
  BY <1>2, <1>3, <1>4, <1>5, <1>6 DEF Next

LEMMA OneStreamStep ==
  ASSUME TypeOK, Work, Fresh, OneStreamPerClass, [Next]_vars
  PROVE  OneStreamPerClass'
<1> SUFFICES ASSUME NEW i \in DOMAIN streams', NEW j \in DOMAIN streams', i # j,
                    streams'[i].schedule # None, streams'[i].schedule = streams'[j].schedule,
                    streams'[i].at = streams'[j].at
             PROVE  FALSE
  BY DEF OneStreamPerClass
<1>1. CASE RowsKept
  BY <1>1 DEF RowsKept, OneStreamPerClass
<1>2. ASSUME NEW t \in Int, RowAdded(None, t) PROVE FALSE
  BY <1>2 DEF RowAdded, OneStreamPerClass
<1>3. ASSUME NEW w \in Workers, pc[w] = "insert", NEW t \in First(due[w]), RowAdded(cur[w], t)
      PROVE  FALSE
  <2>1. ~ StreamExists(cur[w], t)
    BY <1>3 DEF Fresh
  <2> QED
    BY <1>3, <2>1 DEF RowAdded, StreamExists, OneStreamPerClass
<1> QED
  BY <1>1, <1>2, <1>3, StreamsStep

\* Cron that starts one worker at a time never gets two streams for a class, however often
\* a run crashes and is started again, and whatever admins and instructors do meanwhile.
THEOREM OneStreamEach == ASSUME Launches = 1 PROVE Spec => []OneStreamPerClass
<1>1. Init => OneInv
  <2> SUFFICES ASSUME Init PROVE OneInv
    OBVIOUS
  <2>1. streams = <<>> /\ DOMAIN streams = {}
    BY DEF Init
  <2> QED
    BY <2>1 DEF Init, OneInv, Alone, Fresh, OneStreamPerClass
<1>2. IInv /\ OneInv /\ [Next]_vars => OneInv'
  BY AloneStep, FreshStep, OneStreamStep DEF IInv, OneInv
<1>3. OneInv => OneStreamPerClass
  BY DEF OneInv
<1> QED
  BY <1>1, <1>2, <1>3, PlanInvariant, PTL DEF Spec

-----------------------------------------------------------------------------
(* Every class of the clear days gets its stream *)

\* A run that begins now has the class of day d in sight, see RunsFor.
InSight(s, d) ==
  /\ now % Day = CronHour /\ since[s] < now /\ shape[s].starts <= now \div Day
  /\ now <= StartOf(shape[s], d) /\ StartOf(shape[s], d) < now + Horizon

\* More has gone wrong than there were runs for the class.
Excused(s, d) == Cardinality(RunsFor(s, d)) < faults

PlannedToday(s) == touched[s] # None /\ touched[s] = now

\* The run of this hour has yet to finish with the schedule.
InHand(s) == cron > 0 \/ \E w \in Workers : s \in queue[w] \/ cur[w] = s

\* Whoever works on the schedule has the class before it.
Before(s, d) == \A w \in Workers : cur[w] = s => StartOf(shape[s], d) \in due[w]

Awaited(s, d) ==
  /\ Cardinality(RunsFor(s, d)) <= faults
  /\ InSight(s, d) /\ ~ Excused(s, d) => InHand(s) /\ ~ PlannedToday(s) /\ Before(s, d)

Served(s, d) == StreamExists(s, StartOf(shape[s], d)) \/ Awaited(s, d)

AllServed ==
  \A s \in Schedules : state[s] = "active" => \A d \in ClearDays(shape[s]) : Served(s, d)

\* Workers run in the hour of cron only, and hold nothing when they are idle.
Hours ==
  /\ \A w \in Workers : /\ pc[w] = "idle" => queue[w] = {}
                        /\ pc[w] \in {"idle", "pick"} => cur[w] = None
  /\ cron > 0 \/ (\E w \in Workers : pc[w] # "idle") => now % Day = CronHour
  /\ \A s \in Schedules : touched[s] # None => touched[s] <= now /\ touched[s] % Day = CronHour

\* A time of day k hours lies in its day.
LEMMA DayOf ==
  ASSUME NEW t \in Int, NEW k \in Nat \ {0}
  PROVE  /\ t \div k \in Int /\ (t \div k) * k \in Int
         /\ (t \div k) * k <= t /\ t < (t \div k) * k + k
BY SMT

\* The same hour of two days.
LEMMA SameHour ==
  ASSUME NEW t \in Nat, NEW u \in Nat, NEW k \in Nat \ {0}, t % k = u % k, t < u
  PROVE  t + k <= u
<1> DEFINE a == t \div k
           b == u \div k
           r == t % k
<1>1. a \in Int /\ b \in Int /\ r \in Int
  BY SMT
<1>2. t = (a * k) + r
  BY SMT
<1>3. u = (b * k) + (u % k)
  BY SMT
<1>4. a * k \in Int /\ b * k \in Int
  BY <1>1, SMT
<1>5. a < b
  <2> SUFFICES ASSUME b <= a PROVE FALSE
    BY <1>1
  <2>1. b < a => b * k + k <= a * k
    BY <1>1, DaysApart
  <2>2. b = a => b * k = a * k
    OBVIOUS
  <2> HIDE DEF a, b
  <2> QED
    BY <1>1, <1>2, <1>3, <1>4, <2>1, <2>2, SMT
<1>6. a * k + k <= b * k
  BY <1>1, <1>5, DaysApart
<1> HIDE DEF a, b, r
<1> QED
  BY <1>1, <1>2, <1>3, <1>4, <1>6, SMT DEF r

\* The dates of a class that is in sight: its schedule has not ended, and the loop comes to it.
LEMMA SightOfClass ==
  ASSUME NEW sh \in ShapeType, NEW d \in ClearDays(sh), NEW t \in Nat,
         t <= StartOf(sh, d), StartOf(sh, d) < t + Horizon
  PROVE  t \div Day <= sh.ends /\ StartOf(sh, d) \in Occurrences(sh, t)
<1> DEFINE o == sh.offset
           h == sh.hour
           q == (t + o) \div Day
           z == Horizon \div Day
<1>1. /\ sh.starts \in Int /\ sh.ends \in Int /\ o \in (1 - Day)..(Day - 1)
      /\ h \in 0..(Day - 1) /\ Day \in Nat \ {0} /\ Horizon \in Nat /\ Grace \in Nat
  BY ScheduleAssumptions DEF ShapeType
<1>2. /\ d \in Int /\ sh.starts <= d /\ d <= sh.ends /\ d % Week \in sh.weekdays
      /\ o > 0 => d > sh.starts
      /\ o < 0 => d < sh.ends
  BY <1>1 DEF ClearDays, ClassDays
<1> DEFINE m == d * Day
<1>3. m \in Int /\ StartOf(sh, d) = m - o + h /\ Midnight(sh, d) = m - o
  BY <1>1, <1>2, SMT DEF StartOf, Midnight
<1>4. t <= m - o + h /\ m - o + h < t + Horizon
  BY <1>3
<1>5. t \div Day <= sh.ends
  <2>1. t \div Day \in Int /\ (t \div Day) * Day \in Int /\ (t \div Day) * Day <= t
    BY <1>1, DayOf
  <2>2. SUFFICES ASSUME sh.ends < t \div Day PROVE FALSE
    BY <1>1, <2>1
  <2> DEFINE e == t \div Day
  <2>3. e * Day <= t /\ e * Day \in Int
    BY <2>1
  <2>4. d < e /\ (o < 0 => d + 1 < e)
    BY <1>1, <1>2, <2>1, <2>2, SMT
  <2>5. m + Day <= e * Day
    BY <1>1, <1>2, <2>1, <2>4, DaysApart
  <2>6. CASE o >= 0
    BY <1>1, <1>3, <1>4, <2>3, <2>5, <2>6, SMT
  <2>7. CASE o < 0
    <3>1. (d + 1) * Day + Day <= e * Day
      BY <1>1, <1>2, <2>1, <2>4, <2>7, DaysApart
    <3>2. (d + 1) * Day = m + Day
      BY <1>1, <1>2, SMT
    <3> QED
      BY <1>1, <1>3, <1>4, <2>3, <2>7, <3>1, <3>2, SMT
  <2> QED
    BY <1>1, <2>6, <2>7, SMT
<1>6. /\ q \in Int /\ q * Day \in Int /\ q * Day <= t + o /\ t + o < q * Day + Day
      /\ z \in Int /\ z * Day \in Int /\ Horizon < z * Day + Day
  <2>1. t + o \in Int /\ Horizon \in Int /\ Day \in Nat \ {0}
    BY <1>1
  <2> QED
    BY <2>1, DayOf
<1>7. q <= d
  <2> SUFFICES ASSUME d < q PROVE FALSE
    BY <1>2, <1>6
  <2>1. m + Day <= q * Day
    BY <1>1, <1>2, <1>6, DaysApart
  <2> QED
    BY <1>1, <1>3, <1>4, <1>6, <2>1, SMT
<1>8. d <= q + z + 1
  <2> SUFFICES ASSUME q + z + 1 < d PROVE FALSE
    BY <1>2, <1>6
  <2>1. (q + z + 1) * Day + Day <= m
    BY <1>1, <1>2, <1>6, DaysApart
  <2>2. (q + z + 1) * Day = q * Day + z * Day + Day
    <3>1. \A a, b, k \in Int : (a + b + 1) * k = a * k + b * k + k
      BY SMT
    <3>2. q \in Int /\ z \in Int /\ Day \in Int
      BY <1>1, <1>6
    <3> QED
      BY <3>1, <3>2
  <2> QED
    BY <1>1, <1>3, <1>4, <1>6, <2>1, <2>2, SMT
<1>9. d \in Visited(sh, t)
  <2>1. LocalDay(sh, t) = q
    BY DEF LocalDay
  <2>2. Midnight(sh, d) < t + Horizon
    BY <1>1, <1>3, <1>4, SMT
  <2> QED
    BY <1>2, <1>6, <1>7, <1>8, <2>1, <2>2 DEF Visited
<1>10. InWindow(sh, d)
  <2> DEFINE a == sh.starts * Day
             b == sh.ends * Day
  <2>1. a \in Int /\ b \in Int
    BY <1>1, SMT
  <2>2. sh.starts < d => a + Day <= m
    BY <1>1, <1>2, DaysApart
  <2>3. d < sh.ends => m + Day <= b
    BY <1>1, <1>2, DaysApart
  <2>4. (d = sh.starts => a = m) /\ (d = sh.ends => b = m)
    OBVIOUS
  <2>5. ~ (m - o < a) /\ ~ (m - o > b)
    BY <1>1, <1>2, <1>3, <2>1, <2>2, <2>3, <2>4, SMT
  <2> QED
    BY <1>3, <2>5 DEF InWindow
<1>11. StartOf(sh, d) >= t - Grace
  BY <1>1, <1>3, <1>4, SMT
<1> QED
  BY <1>2, <1>5, <1>9, <1>10, <1>11 DEF Occurrences, Wanted

\* A run lists every schedule with a class in sight that no run of this hour has finished.
LEMMA Listed ==
  ASSUME IsFiniteSet(Schedules), Cardinality(Schedules) <= BatchSize, TypeOK, Hours,
         NEW s \in Schedules, NEW d, d \in ClearDays(shape[s]), state[s] = "active",
         InSight(s, d), ~ PlannedToday(s)
  PROVE  s \in ListSchedules
<1>1. shape[s] \in ShapeType /\ now \in Nat
  BY DEF TypeOK
<1>2. now \div Day <= shape[s].ends /\ shape[s].starts <= now \div Day
  BY <1>1, SightOfClass DEF InSight
<1>3. touched[s] = None \/ touched[s] < now - Gap
  <2> SUFFICES ASSUME touched[s] # None PROVE touched[s] < now - Gap
    OBVIOUS
  <2>1. /\ touched[s] \in Nat /\ touched[s] < now
        /\ touched[s] % Day = CronHour /\ now % Day = CronHour
    BY DEF TypeOK, Hours, PlannedToday, InSight
  <2>2. Day \in Nat \ {0} /\ Gap \in 0..(Day - 1)
    BY ScheduleAssumptions
  <2>3. touched[s] + Day <= now
    BY <1>1, <2>1, <2>2, SameHour
  <2> QED
    BY <1>1, <2>1, <2>2, <2>3, SMT
<1>4. NeedsMaterialisation(s)
  BY <1>2, <1>3 DEF NeedsMaterialisation
<1> DEFINE before == {r \in Schedules : r < s /\ NeedsMaterialisation(r)}
<1>5. s \notin before /\ before \subseteq Schedules \ {s}
  BY ScheduleAssumptions, SMT
<1>6. IsFiniteSet(Schedules \ {s}) /\ Cardinality(Schedules \ {s}) = Cardinality(Schedules) - 1
  BY FS_RemoveElement
<1>7. Cardinality(before) <= Cardinality(Schedules) - 1 /\ Cardinality(before) \in Nat
  BY <1>5, <1>6, FS_Subset, FS_CardinalityType
<1>8. Cardinality(Schedules) \in Nat /\ BatchSize \in Nat
  BY FS_CardinalityType, ScheduleAssumptions
<1>9. Cardinality(before) < BatchSize
  BY <1>7, <1>8, SMT
<1> QED
  BY <1>4, <1>9 DEF ListSchedules

\* Until it is deleted, a schedule keeps the streams it has.
LEMMA StreamsStay ==
  ASSUME TypeOK, Work, [Next]_vars, NEW s \in Schedules, state'[s] # "deleted",
         NEW t, StreamExists(s, t)
  PROVE  StreamExists(s, t)'
<1>1. PICK i \in DOMAIN streams : streams[i].schedule = s /\ streams[i].at = t
  BY DEF StreamExists
<1>2. CASE RowsKept
  BY <1>1, <1>2 DEF RowsKept, StreamExists
<1>3. ASSUME NEW r, NEW u, RowAdded(r, u) PROVE StreamExists(s, t)'
  BY <1>1, <1>3 DEF RowAdded, StreamExists
<1> QED
  BY <1>2, <1>3, StreamsStep

LEMMA HoursStep ==
  ASSUME TypeOK, Work, Hours, [Next]_vars
  PROVE  Hours'
<1> USE DEF scheduleVars, streamVars, workerVars
<1>1. /\ pc \in [Workers -> {"idle", "pick", "walk", "insert"}]
      /\ queue \in [Workers -> SUBSET Schedules]
      /\ cur \in [Workers -> Schedules \cup {None}]
      /\ touched \in [Schedules -> Nat \cup {None}] /\ now \in Nat /\ cron \in Nat
  BY DEF TypeOK
<1>2. CASE Tick
  BY <1>1, <1>2 DEF Tick, Hours
<1>3. CASE AdminStep \/ StreamStep \/ UNCHANGED vars
  <2>1. UNCHANGED <<now, touched, pc, queue, cur, cron>>
    BY <1>3 DEF AdminStep, StreamStep, CreateSchedule, SetActive, DeleteSchedule,
       CreateStream, StartStream, EndStream, RtmpCallback, vars
  <2> QED
    BY <2>1 DEF Hours
<1>4. ASSUME NEW w \in Workers, WorkerStep(w) PROVE Hours'
  <2>1. CASE RunWorker(w)
    BY <1>1, <2>1 DEF RunWorker, Hours
  <2>2. ASSUME NEW s \in Schedules, Materialise(w, s) PROVE Hours'
    BY <1>1, <2>2 DEF Materialise, Hours
  <2>3. CASE CheckExists(w)
    BY <1>1, <2>3 DEF CheckExists, Hours
  <2>4. CASE CreateScheduledStream(w)
    BY <1>1, <2>4 DEF CreateScheduledStream, Hours
  <2>5. CASE QueryFails(w)
    BY <1>1, <2>5 DEF QueryFails, Hours
  <2>6. CASE TouchMaterialised(w)
    <3>1. now % Day = CronHour /\ cur[w] \in Schedules
      BY <2>6 DEF TouchMaterialised, Hours, Work, WorkOK
    <3> QED
      BY <1>1, <2>6, <3>1 DEF TouchMaterialised, Hours
  <2>7. CASE TouchFails(w)
    BY <1>1, <2>7 DEF TouchFails, Hours
  <2>8. CASE Finish(w)
    BY <1>1, <2>8 DEF Finish, Hours
  <2>9. CASE Crash(w)
    BY <1>1, <2>9 DEF Crash, Hours
  <2> QED
    BY <1>4, <2>1, <2>2, <2>3, <2>4, <2>5, <2>6, <2>7, <2>8, <2>9 DEF WorkerStep
<1> QED
  BY <1>2, <1>3, <1>4 DEF Next

LEMMA RunsCounted ==
  ASSUME TypeOK, NEW s \in Schedules, NEW d
  PROVE  IsFiniteSet(RunsFor(s, d)) /\ Cardinality(RunsFor(s, d)) \in Nat
<1>1. now - 1 \in Int
  BY DEF TypeOK
<1>2. IsFiniteSet(0..(now - 1))
  BY <1>1, FS_Interval
<1>3. RunsFor(s, d) \subseteq 0..(now - 1)
  BY DEF RunsFor
<1> QED
  BY <1>2, <1>3, FS_Subset, FS_CardinalityType

\* While the clock stands still, so do the runs a class has had, and what is in sight.
LEMMA Standing ==
  ASSUME NEW s \in Schedules, NEW d, UNCHANGED <<now, shape>>, since'[s] = since[s]
  PROVE  RunsFor(s, d)' = RunsFor(s, d) /\ (InSight(s, d)' <=> InSight(s, d))
BY DEF RunsFor, InSight, StartOf, Midnight

\* An hour passes: the run for the class there was, if any, is over.
LEMMA TickStep ==
  ASSUME Launches # 0, TypeOK, Hours, Tick, NEW s \in Schedules, NEW d, Awaited(s, d)
  PROVE  Awaited(s, d)'
<1> USE DEF scheduleVars, streamVars, workerVars
<1>1. /\ now \in Nat /\ now' = now + 1 /\ cron = 0 /\ Launches \in Nat
      /\ UNCHANGED <<shape, since, touched, queue, cur, due, faults>>
      /\ faults \in Nat /\ cur \in [Workers -> Schedules \cup {None}]
  BY ScheduleAssumptions DEF Tick, TypeOK
<1>2. \A w \in Workers : cur[w] = None /\ queue[w] = {}
  BY DEF Tick, Hours
<1>3. ~ InHand(s)
  <2>1. s # None /\ ~ (cron > 0)
    BY <1>1, ScheduleAssumptions
  <2> QED
    BY <1>2, <2>1 DEF InHand
<1>4. IsFiniteSet(RunsFor(s, d)) /\ Cardinality(RunsFor(s, d)) \in Nat /\ now \notin RunsFor(s, d)
  <2>1. now \notin 0..(now - 1)
    BY <1>1
  <2> QED
    BY <2>1, RunsCounted DEF RunsFor
<1>5. Cardinality(RunsFor(s, d))' <= faults'
  <2>1. CASE InSight(s, d)
    <3>1. RunsFor(s, d)' = RunsFor(s, d) \cup {now}
      BY <1>1, <2>1 DEF RunsFor, InSight, StartOf, Midnight
    <3>2. Cardinality(RunsFor(s, d)') = Cardinality(RunsFor(s, d)) + 1
      BY <1>4, <3>1, FS_AddElement
    <3>3. Cardinality(RunsFor(s, d)) < faults
      BY <1>3, <2>1 DEF Awaited, Excused
    <3> QED
      BY <1>1, <1>4, <3>2, <3>3
  <2>2. CASE ~ InSight(s, d)
    <3>1. RunsFor(s, d)' = RunsFor(s, d)
      BY <1>1, <2>2 DEF RunsFor, InSight, StartOf, Midnight
    <3> QED
      BY <1>1, <3>1 DEF Awaited
  <2> QED
    BY <2>1, <2>2
<1>6. InSight(s, d)' => InHand(s)' /\ ~ PlannedToday(s)' /\ Before(s, d)'
  <2> SUFFICES ASSUME InSight(s, d)' PROVE InHand(s)' /\ ~ PlannedToday(s)' /\ Before(s, d)'
    OBVIOUS
  <2>1. cron' > 0
    BY <1>1 DEF InSight, Tick
  <2>2. ~ (touched'[s] # None /\ touched'[s] = now')
    BY <1>1 DEF Hours, TypeOK
  <2>3. \A w \in Workers : cur'[w] # s
    BY <1>1, <1>2, ScheduleAssumptions
  <2> QED
    BY <2>1, <2>2, <2>3 DEF InHand, PlannedToday, Before
<1> QED
  BY <1>5, <1>6 DEF Awaited

\* Something goes wrong: one more run is excused.
LEMMA FaultStep ==
  ASSUME TypeOK, Fault, UNCHANGED <<now, shape, since>>, NEW s \in Schedules, NEW d,
         Awaited(s, d)
  PROVE  Awaited(s, d)'
<1>1. RunsFor(s, d)' = RunsFor(s, d)
  BY Standing
<1>2. faults \in Nat /\ faults' = faults + 1 /\ Cardinality(RunsFor(s, d)) \in Nat
  BY RunsCounted DEF TypeOK, Fault
<1>3. Cardinality(RunsFor(s, d)) <= faults
  BY DEF Awaited
<1>4. Cardinality(RunsFor(s, d)') <= faults' /\ Cardinality(RunsFor(s, d)') < faults'
  BY <1>1, <1>2, <1>3
<1> QED
  BY <1>4 DEF Awaited, Excused

\* A worker's step without a fault does not lose sight of a class.
LEMMA WorkerServes ==
  ASSUME IsFiniteSet(Schedules), Cardinality(Schedules) <= BatchSize,
         TypeOK, Work, Hours, NEW w \in Workers, WorkerStep(w),
         NEW s \in Schedules, NEW d, d \in ClearDays(shape[s]), state[s] = "active",
         ~ StreamExists(s, StartOf(shape[s], d)), ~ StreamExists(s, StartOf(shape[s], d))',
         Awaited(s, d)
  PROVE  Awaited(s, d)'
<1> USE DEF scheduleVars, streamVars, workerVars
<1> DEFINE t == StartOf(shape[s], d)
<1>1. /\ pc \in [Workers -> {"idle", "pick", "walk", "insert"}]
      /\ queue \in [Workers -> SUBSET Schedules]
      /\ cur \in [Workers -> Schedules \cup {None}] /\ due \in [Workers -> SUBSET Int]
      /\ touched \in [Schedules -> Nat \cup {None}] /\ now \in Nat /\ shape[s] \in ShapeType
  BY DEF TypeOK
<1>2. UNCHANGED <<now, shape, since, state>> /\ (Fault \/ faults' = faults)
  BY DEF WorkerStep, RunWorker, Materialise, CheckExists, CreateScheduledStream, QueryFails,
     TouchMaterialised, TouchFails, Finish, Crash
<1>3. s # None /\ StartOf(shape'[s], d) = t
  BY <1>2, ScheduleAssumptions DEF StartOf, Midnight
<1>4. CASE Fault
  BY <1>2, <1>4, FaultStep
<1>5. ASSUME ~ Fault,
             InSight(s, d) /\ InHand(s) /\ ~ PlannedToday(s) /\ Before(s, d) =>
               InHand(s)' /\ ~ PlannedToday(s)' /\ Before(s, d)'
      PROVE  Awaited(s, d)'
  <2>1. RunsFor(s, d)' = RunsFor(s, d) /\ (InSight(s, d)' <=> InSight(s, d))
    BY <1>2, Standing
  <2>2. faults' = faults
    BY <1>2, <1>5
  <2>3. Excused(s, d)' <=> Excused(s, d)
    BY <2>1, <2>2 DEF Excused
  <2> QED
    BY <1>5, <2>1, <2>2, <2>3 DEF Awaited
<1> SUFFICES ASSUME ~ Fault, InSight(s, d), InHand(s), ~ PlannedToday(s), Before(s, d)
             PROVE  InHand(s)' /\ ~ PlannedToday(s)' /\ Before(s, d)'
  BY <1>4, <1>5
<1> HIDE DEF t
<1>6. ASSUME touched'[s] = touched[s] PROVE ~ PlannedToday(s)'
  BY <1>2, <1>6 DEF PlannedToday
<1>7. ASSUME \A v \in Workers : cur'[v] = s => cur[v] = s /\ (t \in due[v] => t \in due'[v])
      PROVE  Before(s, d)'
  BY <1>3, <1>7 DEF Before, t
<1>8. CASE RunWorker(w)
  <2>1. s \in ListSchedules
    BY Listed
  <2>2. /\ touched' = touched /\ cur' = cur /\ due' = due
        /\ queue' = [queue EXCEPT ![w] = ListSchedules]
    BY <1>8 DEF RunWorker
  <2>3. s \in queue'[w]
    BY <1>1, <2>1, <2>2
  <2> QED
    BY <1>6, <1>7, <2>2, <2>3 DEF InHand
<1>9. ASSUME NEW r \in Schedules, Materialise(w, r)
      PROVE  InHand(s)' /\ ~ PlannedToday(s)' /\ Before(s, d)'
  <2>1. /\ touched' = touched /\ cron' = cron
        /\ queue' = [queue EXCEPT ![w] = @ \ {r}] /\ cur' = [cur EXCEPT ![w] = r]
        /\ due' = [due EXCEPT ![w] = Occurrences(shape[r], now)]
        /\ cur[w] # s
    BY <1>3, <1>9 DEF Materialise, Hours
  <2>2. r = s => t \in due'[w]
    <3>1. t \in Occurrences(shape[s], now)
      BY <1>1, SightOfClass DEF InSight, t
    <3> QED
      BY <1>1, <2>1, <3>1
  <2>3. \A v \in Workers : cur'[v] = s => t \in due'[v]
    <3>1. \A v \in Workers : cur[v] = s => t \in due[v]
      BY DEF Before, t
    <3>2. cur'[w] = r
      BY <1>1, <2>1
    <3> QED
      BY <1>1, <2>1, <2>2, <3>1, <3>2
  <2>4. Before(s, d)'
    BY <1>3, <2>3 DEF Before
  <2>5. InHand(s)'
    BY <1>1, <2>1 DEF InHand
  <2> QED
    BY <1>6, <2>1, <2>4, <2>5
<1>10. ASSUME UNCHANGED <<cron, queue, cur, touched>>,
              NEW u \in First(due[w]), cur[w] = s => u # t,
              due' = due \/ due' = [due EXCEPT ![w] = @ \ {u}]
       PROVE  InHand(s)' /\ ~ PlannedToday(s)' /\ Before(s, d)'
  <2>1. \A v \in Workers : cur'[v] = s => cur[v] = s /\ (t \in due[v] => t \in due'[v])
    BY <1>1, <1>10
  <2>2. InHand(s)'
    BY <1>10 DEF InHand
  <2> QED
    BY <1>6, <1>7, <1>10, <2>1, <2>2
<1>11. CASE CheckExists(w)
  <2>1. PICK u \in First(due[w]) :
          \/ StreamExists(cur[w], u) /\ due' = [due EXCEPT ![w] = @ \ {u}]
          \/ due' = due /\ ~ StreamExists(cur[w], u)
    BY <1>11 DEF CheckExists
  <2>2. ~ StreamExists(s, t)
    BY DEF t
  <2>3. UNCHANGED <<cron, queue, cur, touched>>
    BY <1>11 DEF CheckExists
  <2>4. CASE due' = due
    <3>1. \A v \in Workers : cur'[v] = s => cur[v] = s /\ (t \in due[v] => t \in due'[v])
      BY <2>3, <2>4
    <3>2. InHand(s)'
      BY <2>3 DEF InHand
    <3> QED
      BY <1>6, <1>7, <2>3, <3>1, <3>2
  <2>5. CASE StreamExists(cur[w], u) /\ due' = [due EXCEPT ![w] = @ \ {u}]
    BY <1>10, <2>2, <2>3, <2>5
  <2> QED
    BY <2>1, <2>4, <2>5
<1>12. CASE CreateScheduledStream(w)
  <2>1. PICK u \in First(due[w]) :
          /\ due' = [due EXCEPT ![w] = @ \ {u}]
          /\ IF state[cur[w]] = "deleted" THEN UNCHANGED streamVars ELSE Insert(cur[w], u)
    BY <1>12 DEF CreateScheduledStream
  <2>2. UNCHANGED <<cron, queue, cur, touched>>
    BY <1>12 DEF CreateScheduledStream
  <2>3. ASSUME cur[w] = s, u = t PROVE FALSE
    <3>1. Insert(s, t) /\ t \in Int
      BY <1>1, <2>1, <2>3 DEF First
    <3>2. StreamsTyped
      BY DEF TypeOK, StreamsTyped, Row
    <3>3. RowAdded(s, t)
      BY <3>1, <3>2, InsertAdds
    <3>4. \E i \in DOMAIN streams' : streams'[i].schedule = s /\ streams'[i].at = t
      BY <3>3 DEF RowAdded
    <3> QED
      BY <1>3, <3>4 DEF StreamExists
  <2> QED
    BY <1>10, <2>1, <2>2, <2>3
<1>13. CASE TouchMaterialised(w)
  <2>1. /\ cron' = cron /\ queue' = queue /\ due' = due /\ due[w] = {}
        /\ cur' = [cur EXCEPT ![w] = None] /\ cur[w] \in Schedules
    BY <1>13 DEF TouchMaterialised, Work, WorkOK
  <2>2. cur[w] # s
    BY <2>1 DEF Before
  <2>3. touched'[s] = touched[s]
    BY <1>1, <1>13, <2>2 DEF TouchMaterialised
  <2>4. \A v \in Workers : (cur[v] = s => cur'[v] = s) /\ (cur'[v] = s => cur[v] = s)
    BY <1>1, <1>3, <2>1, <2>2
  <2>5. InHand(s)'
    BY <2>1, <2>4 DEF InHand
  <2> QED
    BY <1>6, <1>7, <2>1, <2>3, <2>4, <2>5
<1>14. CASE Finish(w)
  <2>1. UNCHANGED <<cron, queue, cur, touched, due>>
    BY <1>14 DEF Finish
  <2>2. InHand(s)'
    BY <2>1 DEF InHand
  <2> QED
    BY <1>6, <1>7, <2>1, <2>2
<1>15. ~ QueryFails(w) /\ ~ TouchFails(w) /\ ~ Crash(w)
  BY DEF QueryFails, TouchFails, Crash
<1> QED
  BY <1>8, <1>9, <1>11, <1>12, <1>13, <1>14, <1>15 DEF WorkerStep

\* A schedule that becomes active has had no runs, and none that began before is for it.
LEMMA NewlyActive ==
  ASSUME TypeOK, NEW s \in Schedules, NEW d, now' = now, since'[s] = now, faults' = faults
  PROVE  Awaited(s, d)'
<1>1. now \in Nat /\ faults \in Nat
  BY DEF TypeOK
<1>2. RunsFor(s, d)' = {}
  BY <1>1 DEF RunsFor
<1>3. Cardinality(RunsFor(s, d)') = 0
  BY <1>2, FS_EmptySet
<1>4. ~ InSight(s, d)'
  BY <1>1 DEF InSight
<1> QED
  BY <1>1, <1>3, <1>4 DEF Awaited

LEMMA AllServedStep ==
  ASSUME Launches # 0, IsFiniteSet(Schedules), Cardinality(Schedules) <= BatchSize,
         TypeOK, Work, Hours, AllServed, [Next]_vars
  PROVE  AllServed'
<1> USE DEF scheduleVars, streamVars, workerVars
<1>1. shape' = shape
  BY StreamsStep
<1> SUFFICES ASSUME NEW s \in Schedules, state'[s] = "active",
                    NEW d, d \in ClearDays(shape[s])
             PROVE  Served(s, d)'
  BY <1>1 DEF AllServed, ClearDays, ClassDays
<1>2. StartOf(shape'[s], d) = StartOf(shape[s], d)
  BY <1>1 DEF StartOf, Midnight
<1>3. state \in [Schedules -> {"unused", "active", "paused", "deleted"}]
      /\ since \in [Schedules -> Nat]
  BY DEF TypeOK
<1>4. CASE StreamExists(s, StartOf(shape[s], d))
  <2>1. StreamExists(s, StartOf(shape[s], d))'
    <3> DEFINE t == StartOf(shape[s], d)
    <3>1. PICK u : u = t
      OBVIOUS
    <3>2. StreamExists(s, u)'
      BY <1>4, <3>1, StreamsStay
    <3> QED
      BY <1>2, <3>1, <3>2 DEF StreamExists
  <2> QED
    BY <2>1 DEF Served
<1>5. CASE StreamExists(s, StartOf(shape[s], d))'
  BY <1>5 DEF Served
<1>6. CASE state[s] = "active" /\ Awaited(s, d)
           /\ ~ StreamExists(s, StartOf(shape[s], d)) /\ ~ StreamExists(s, StartOf(shape[s], d))'
  <2>1. CASE Tick
    BY <1>6, <2>1, TickStep DEF Served
  <2>2. ASSUME NEW w \in Workers, WorkerStep(w) PROVE Served(s, d)'
    BY <1>6, <2>2, WorkerServes DEF Served
  <2>3. CASE AdminStep \/ StreamStep \/ UNCHANGED vars
    <3>1. /\ since'[s] = since[s]
          /\ UNCHANGED <<now, touched, queue, cur, due, cron, faults>>
      BY <1>3, <1>6, <2>3 DEF AdminStep, StreamStep, CreateSchedule, SetActive, DeleteSchedule,
         CreateStream, StartStream, EndStream, RtmpCallback, vars
    <3>2. RunsFor(s, d)' = RunsFor(s, d) /\ (InSight(s, d)' <=> InSight(s, d))
      BY <1>1, <3>1, Standing
    <3> QED
      BY <1>2, <1>6, <3>1, <3>2 DEF Served, Awaited, Excused, InHand, PlannedToday, Before
  <2> QED
    BY <2>1, <2>2, <2>3 DEF Next
<1>7. CASE state[s] # "active"
  <2>1. AdminStep
    <3>1. ASSUME NEW w \in Workers, WorkerStep(w) PROVE state' = state
      BY <3>1 DEF WorkerStep, RunWorker, Materialise, CheckExists, CreateScheduledStream,
         QueryFails, TouchMaterialised, TouchFails, Finish, Crash
    <3> QED
      BY <1>7, <3>1 DEF Next, Tick, StreamStep, CreateStream, StartStream, EndStream,
         RtmpCallback, vars
  <2>2. since'[s] = now /\ UNCHANGED <<now, faults>>
    BY <1>3, <1>7, <2>1 DEF AdminStep, CreateSchedule, SetActive, DeleteSchedule
  <2> QED
    BY <2>2, NewlyActive DEF Served
<1> QED
  BY <1>4, <1>5, <1>6, <1>7 DEF AllServed, Served

DailyInv == AllServed /\ Hours

\* With cron starting at least one worker a day, and no more schedules than a run lists, no
\* class of an active schedule that runs have had in sight more often than something went
\* wrong is without its stream, for any shapes and time zones: every fault, wherever it
\* hits, costs a class one run at most, and the next day's run takes it up again.
THEOREM ClassesAreRepaired ==
  ASSUME Launches # 0, IsFiniteSet(Schedules), Cardinality(Schedules) <= BatchSize
  PROVE  Spec => []FaultsAreRepaired
<1>1. Init => DailyInv
  BY DEF Init, DailyInv, AllServed, Hours
<1>2. IInv /\ DailyInv /\ [Next]_vars => DailyInv'
  BY HoursStep, AllServedStep DEF IInv, DailyInv
<1>3. IInv /\ DailyInv => FaultsAreRepaired
  <2> SUFFICES ASSUME IInv, DailyInv, NEW s \in Schedules, state[s] = "active",
                      NEW d \in ClearDays(shape[s]), Cardinality(RunsFor(s, d)) > faults
               PROVE  StreamExists(s, StartOf(shape[s], d))
    BY DEF FaultsAreRepaired, Planned, StreamExists
  <2>1. Cardinality(RunsFor(s, d)) \in Nat /\ faults \in Nat
    BY RunsCounted DEF IInv, TypeOK
  <2>2. ~ (Cardinality(RunsFor(s, d)) <= faults)
    BY <2>1
  <2> QED
    BY <2>2 DEF DailyInv, AllServed, Served, Awaited
<1> QED
  BY <1>1, <1>2, <1>3, PlanInvariant, PTL DEF Spec

-----------------------------------------------------------------------------
(* The streams table implements Timetable *)

\* A run has only schedules in hand that somebody has created, and a stream is of a schedule that
\* is still there.
InUse ==
  /\ \A w \in Workers : \A s \in queue[w] : state[s] # "unused"
  /\ \A w \in Workers : cur[w] # None => state[cur[w]] # "unused"
Owned ==
  \A i \in DOMAIN streams : streams[i].schedule # None => state[streams[i].schedule] \in {"active", "paused"}

\* What a step does to the schedules.
LEMMA StateStep ==
  ASSUME TypeOK, [Next]_vars
  PROVE  \/ state' = state
         \/ \E s \in Schedules :
              state[s] = "unused" /\ state' = [state EXCEPT ![s] = "active"] /\ UNCHANGED <<streamVars, workerVars>>
         \/ \E s \in Schedules, u \in {"active", "paused"} :
              /\ state[s] \in {"active", "paused"} /\ state' = [state EXCEPT ![s] = u]
              /\ UNCHANGED <<streamVars, workerVars>>
         \/ \E s \in Schedules : DeleteSchedule(s)
<1> USE DEF scheduleVars, streamVars, workerVars
<1>1. CASE Tick \/ UNCHANGED vars
  BY <1>1 DEF Tick, vars
<1>2. CASE StreamStep
  BY <1>2 DEF StreamStep, CreateStream, StartStream, EndStream, RtmpCallback
<1>3. ASSUME NEW w \in Workers, WorkerStep(w) PROVE state' = state
  BY <1>3 DEF WorkerStep, RunWorker, Materialise, CheckExists, CreateScheduledStream,
     TouchMaterialised, TouchFails, Finish, QueryFails, Crash
<1>4. ASSUME NEW s \in Schedules, CreateSchedule(s)
      PROVE  state[s] = "unused" /\ state' = [state EXCEPT ![s] = "active"] /\ UNCHANGED <<streamVars, workerVars>>
  BY <1>4 DEF CreateSchedule
<1>5. ASSUME NEW s \in Schedules, NEW active \in BOOLEAN, SetActive(s, active)
      PROVE  \E u \in {"active", "paused"} :
               /\ state[s] \in {"active", "paused"} /\ state' = [state EXCEPT ![s] = u]
               /\ UNCHANGED <<streamVars, workerVars>>
  BY <1>5 DEF SetActive
<1> QED
  BY <1>1, <1>2, <1>3, <1>4, <1>5, Zenon DEF Next, AdminStep

LEMMA InUseStep ==
  ASSUME TypeOK, InUse, [Next]_vars
  PROVE  InUse'
<1> USE DEF scheduleVars, streamVars, workerVars
<1>1. /\ state \in [Schedules -> {"unused", "active", "paused", "deleted"}]
      /\ queue \in [Workers -> SUBSET Schedules] /\ cur \in [Workers -> Schedules \cup {None}]
  BY DEF TypeOK
<1>2. \A s \in Schedules : state[s] # "unused" => state'[s] # "unused"
  BY <1>1, StateStep DEF DeleteSchedule
<1>3. ASSUME UNCHANGED <<queue, cur>> PROVE InUse'
  <2>1. \A w \in Workers : queue[w] \subseteq Schedules /\ (cur[w] # None => cur[w] \in Schedules)
    BY <1>1
  <2> QED
    BY <1>2, <1>3, <2>1 DEF InUse
<1>4. CASE Tick \/ AdminStep \/ StreamStep \/ UNCHANGED vars
  <2>1. UNCHANGED <<queue, cur>>
    BY <1>4 DEF Tick, AdminStep, StreamStep, CreateSchedule, SetActive, DeleteSchedule,
       CreateStream, StartStream, EndStream, RtmpCallback, vars
  <2> QED
    BY <1>3, <2>1
<1>5. ASSUME NEW w \in Workers, WorkerStep(w) PROVE InUse'
  <2>1. /\ state' = state
        /\ \A v \in Workers \ {w} : queue'[v] = queue[v] /\ cur'[v] = cur[v]
    BY <1>1, <1>5 DEF WorkerStep, RunWorker, Materialise, CheckExists, CreateScheduledStream,
       TouchMaterialised, TouchFails, Finish, QueryFails, Crash
  <2>2. \/ queue'[w] = ListSchedules /\ cur'[w] = cur[w]
        \/ queue'[w] \subseteq queue[w] /\ cur'[w] \in queue[w] \cup {cur[w], None}
    BY <1>1, <1>5 DEF WorkerStep, RunWorker, Materialise, CheckExists, CreateScheduledStream,
       TouchMaterialised, TouchFails, Finish, QueryFails, Crash
  <2>3. \A s \in ListSchedules : state[s] # "unused"
    BY DEF ListSchedules, NeedsMaterialisation
  <2> QED
    BY <2>1, <2>2, <2>3 DEF InUse
<1> QED
  BY <1>4, <1>5 DEF Next

\* A row is added for a schedule only while that is there, and where there is room.
LEMMA RowInPlace ==
  ASSUME TypeOK, Work, InUse, NEW w \in Workers, CreateScheduledStream(w), NEW t, RowAdded(cur[w], t)
  PROVE  /\ cur[w] \in Schedules /\ state[cur[w]] \in {"active", "paused"}
         /\ Len(streams) + 1 \in 1..MaxStreams
<1>1. cur[w] \in Schedules /\ cur[w] # None /\ state[cur[w]] # "unused"
  BY ScheduleAssumptions DEF CreateScheduledStream, Work, WorkOK, InUse
<1>2. ~ UNCHANGED streams
  BY DEF RowAdded
<1>3. state[cur[w]] # "deleted" /\ Len(streams) < MaxStreams
  BY <1>2 DEF CreateScheduledStream, Insert, streamVars
<1>4. Len(streams) \in Nat /\ MaxStreams \in Nat
  BY ScheduleAssumptions, LenProperties DEF TypeOK
<1> QED
  BY <1>1, <1>3, <1>4 DEF TypeOK

\* Rows keep their schedule but when that is deleted.
LEMMA RowsOfOthers ==
  ASSUME TypeOK, Owned, RowsKept, NEW i \in DOMAIN streams, state' = state
  PROVE  streams'[i].schedule = streams[i].schedule /\ streams'[i].at = streams[i].at
BY DEF RowsKept, Owned

LEMMA OwnedStep ==
  ASSUME TypeOK, Work, InUse, Owned, [Next]_vars
  PROVE  Owned'
<1> SUFFICES ASSUME NEW i \in DOMAIN streams', streams'[i].schedule # None
             PROVE  state'[streams'[i].schedule] \in {"active", "paused"}
  BY DEF Owned
<1>1. state \in [Schedules -> {"unused", "active", "paused", "deleted"}]
  BY DEF TypeOK
<1>2. CASE state' = state
  <2>1. CASE RowsKept
    <3>1. i \in DOMAIN streams /\ streams'[i].schedule = streams[i].schedule
      BY <1>2, <2>1, RowsOfOthers DEF RowsKept
    <3> QED
      BY <1>2, <3>1 DEF Owned
  <2>2. ASSUME NEW t \in Int, RowAdded(None, t) PROVE state'[streams'[i].schedule] \in {"active", "paused"}
    <3>1. i \in DOMAIN streams /\ streams'[i] = streams[i]
      BY <2>2 DEF RowAdded
    <3> QED
      BY <1>2, <3>1 DEF Owned
  <2>3. ASSUME NEW w \in Workers, CreateScheduledStream(w), NEW t \in Int, RowAdded(cur[w], t)
        PROVE  state'[streams'[i].schedule] \in {"active", "paused"}
    <3>1. \/ i \in DOMAIN streams /\ streams'[i] = streams[i]
          \/ streams'[i].schedule = cur[w]
      BY <2>3 DEF RowAdded
    <3> QED
      BY <1>2, <2>3, <3>1, RowInPlace DEF Owned
  <2> QED
    BY <2>1, <2>2, <2>3, StreamsStep
<1>3. ASSUME NEW s \in Schedules, NEW u \in {"active", "paused"}, state' = [state EXCEPT ![s] = u],
             UNCHANGED streamVars
      PROVE  state'[streams'[i].schedule] \in {"active", "paused"}
  <2>1. i \in DOMAIN streams /\ streams'[i] = streams[i]
    BY <1>3 DEF streamVars
  <2>2. state[streams[i].schedule] \in {"active", "paused"}
    BY <2>1 DEF Owned
  <2> QED
    BY <1>1, <1>3, <2>1, <2>2
<1>4. ASSUME NEW s \in Schedules, DeleteSchedule(s)
      PROVE  state'[streams'[i].schedule] \in {"active", "paused"}
  <2>1. i \in DOMAIN streams /\ streams[i] \in Row
    BY <1>4, RowOf DEF DeleteSchedule, TypeOK, StreamsTyped, Row
  <2>2. streams[i].schedule # s /\ streams'[i] = streams[i]
    BY <1>4, <2>1 DEF DeleteSchedule, Row
  <2>3. state[streams[i].schedule] \in {"active", "paused"}
    BY <2>1, <2>2 DEF Owned
  <2> QED
    BY <1>1, <1>4, <2>2, <2>3 DEF DeleteSchedule
<1> QED
  BY <1>2, <1>3, <1>4, StateStep

-----------------------------------------------------------------------------
(* Steps of Timetable *)

Classes == [s \in Schedules |-> {StartOf(shape[s], d) : d \in ClassDays(shape[s])}]
Stages == [s \in Schedules |-> Stage(s)]
Entry(i) == [row |-> i, schedule |-> streams[i].schedule, at |-> streams[i].at]

\* With the same rows there are the same lessons.
LEMMA SameLessons ==
  ASSUME DOMAIN streams' = DOMAIN streams,
         \A i \in DOMAIN streams : streams'[i].schedule = streams[i].schedule /\ streams'[i].at = streams[i].at
  PROVE  Lessons' = Lessons
BY DEF Lessons

LEMMA OpenRefined ==
  ASSUME TypeOK, NEW s \in Schedules, state[s] = "unused", state' = [state EXCEPT ![s] = "active"],
         UNCHANGED <<streams, shape>>
  PROVE  Table!Open(s)
<1>1. Stages[s] = "new" /\ Stages' = [Stages EXCEPT ![s] = "open"]
  BY DEF Stages, Stage, TypeOK
<1>2. Lessons' = Lessons
  BY DEF Lessons
<1> QED
  BY <1>1, <1>2 DEF Table!Open, Stages

LEMMA PauseRefined ==
  ASSUME TypeOK, NEW s \in Schedules, NEW u \in {"active", "paused"}, state[s] \in {"active", "paused"},
         state' = [state EXCEPT ![s] = u], UNCHANGED <<streams, shape>>
  PROVE  UNCHANGED <<Classes, Stages, Lessons>>
BY DEF Stages, Stage, TypeOK, Classes, Lessons

LEMMA CloseRefined ==
  ASSUME TypeOK, NEW s \in Schedules, DeleteSchedule(s)
  PROVE  Table!Close(s)
<1>1. Stages[s] = "open" /\ Stages' = [Stages EXCEPT ![s] = "closed"] /\ shape' = shape
  BY DEF Stages, Stage, TypeOK, DeleteSchedule
<1>2. s # None /\ \A i \in DOMAIN streams : streams[i] \in Row
  BY ScheduleAssumptions, RowOf DEF TypeOK, StreamsTyped, Row
<1>3. /\ DOMAIN streams' = DOMAIN streams
      /\ \A i \in DOMAIN streams :
           /\ streams'[i].at = streams[i].at
           /\ streams'[i].schedule = IF streams[i].schedule = s THEN None ELSE streams[i].schedule
  BY <1>2 DEF DeleteSchedule, Row
<1>4. Lessons' = {l \in Lessons : l.schedule # s}
  BY <1>2, <1>3 DEF Lessons
<1> QED
  BY <1>1, <1>4 DEF Table!Close, Stages

LEMMA PlanRefined ==
  ASSUME TypeOK, Work, InUse, Fresh, NEW w \in Workers, CreateScheduledStream(w),
         NEW t \in First(due[w]), t \in Int, RowAdded(cur[w], t), shape' = shape, state' = state
  PROVE  \E s \in Schedules : Table!Plan(s)
<1> DEFINE n == Len(streams) + 1
           l == [row |-> n, schedule |-> cur[w], at |-> t]
<1>1. cur[w] \in Schedules /\ state[cur[w]] \in {"active", "paused"} /\ n \in 1..MaxStreams
  BY RowInPlace
<1>2. IsClass(shape[cur[w]], t)
  BY DEF CreateScheduledStream, First, Work, WorkOK
<1>3. t \in Classes[cur[w]] /\ Stages[cur[w]] = "open"
  BY <1>1, <1>2 DEF Classes, IsClass, Stages, Stage
<1>4. \A m \in Lessons : m.row # n /\ (m.schedule = cur[w] => m.at # t)
  <2>1. ~ StreamExists(cur[w], t) /\ n \notin DOMAIN streams
    BY DEF CreateScheduledStream, Fresh, RowAdded
  <2> QED
    BY <2>1 DEF Lessons, StreamExists
<1>5. Lessons' = Lessons \cup {l}
  <2>1. cur[w] # None
    BY <1>1, ScheduleAssumptions
  <2>2. /\ DOMAIN streams' = DOMAIN streams \cup {n} /\ n \notin DOMAIN streams
        /\ \A i \in DOMAIN streams : streams'[i] = streams[i]
        /\ streams'[n].schedule = cur[w] /\ streams'[n].at = t
    BY DEF RowAdded
  <2> QED
    BY <2>1, <2>2 DEF Lessons
<1>6. l \in Lessons' \ Lessons /\ l.schedule = cur[w] /\ l.at = t /\ l.row = n
  BY <1>4, <1>5
<1>7. Classes' = Classes /\ Stages' = Stages
  BY DEF Classes, Stages, Stage
<1> HIDE DEF n, l
<1> QED
  BY <1>1, <1>3, <1>4, <1>5, <1>6, <1>7 DEF Table!Plan, Classes, Stages

LEMMA TimetableStep ==
  ASSUME TypeOK, Work, InUse, Owned, Fresh, [Next]_vars
  PROVE  [Table!Next]_<<Classes, Stages, Lessons>>
<1>1. shape' = shape
  BY StreamsStep
<1>2. CASE state' = state
  <2>1. Classes' = Classes /\ Stages' = Stages
    BY <1>1, <1>2 DEF Classes, Stages, Stage
  <2>2. CASE RowsKept
    BY <1>2, <2>1, <2>2, RowsOfOthers, SameLessons DEF RowsKept
  <2>3. ASSUME NEW t \in Int, RowAdded(None, t) PROVE Lessons' = Lessons
    BY <2>3 DEF RowAdded, Lessons
  <2>4. ASSUME NEW w \in Workers, CreateScheduledStream(w), NEW t \in Int, t \in First(due[w]), RowAdded(cur[w], t)
        PROVE  Table!Next
    BY <1>1, <1>2, <2>4, PlanRefined DEF Table!Next
  <2> QED
    BY <2>1, <2>2, <2>3, <2>4, StreamsStep
<1>3. ASSUME NEW s \in Schedules, state[s] = "unused", state' = [state EXCEPT ![s] = "active"], UNCHANGED streamVars
      PROVE  Table!Next
  BY <1>1, <1>3, OpenRefined DEF Table!Next, streamVars
<1>4. ASSUME NEW s \in Schedules, NEW u \in {"active", "paused"}, state[s] \in {"active", "paused"},
             state' = [state EXCEPT ![s] = u], UNCHANGED streamVars
      PROVE  UNCHANGED <<Classes, Stages, Lessons>>
  BY <1>1, <1>4, PauseRefined DEF streamVars
<1>5. ASSUME NEW s \in Schedules, DeleteSchedule(s) PROVE Table!Next
  BY <1>5, CloseRefined DEF Table!Next
<1> QED
  BY <1>2, <1>3, <1>4, <1>5, StateStep

\* With one worker at a time, the streams of schedules are a timetable: for any number of schedules,
\* runs, failures and edits, each class is planned once and for good, at its time and while its
\* schedule is there, and a schedule that is deleted loses all its streams at once.
THEOREM ImplementsTimetable == ASSUME Launches = 1 PROVE Spec => TimetableSpec
<1> DEFINE TableInv == Alone /\ Fresh /\ InUse /\ Owned
<1>1. Init => TableInv
  <2> SUFFICES ASSUME Init PROVE TableInv
    OBVIOUS
  <2>1. streams = <<>> /\ DOMAIN streams = {}
    BY DEF Init
  <2> QED
    BY <2>1 DEF Init, Alone, Fresh, InUse, Owned
<1>2. IInv /\ TableInv /\ [Next]_vars => TableInv'
  BY AloneStep, FreshStep, InUseStep, OwnedStep DEF IInv
<1>3. Init => Table!Init
  <2> SUFFICES ASSUME Init PROVE Table!Init
    OBVIOUS
  <2>1. \A s \in Schedules : shape[s] \in ShapeType
    BY ScheduleAssumptions DEF Init
  <2>2. \A s \in Schedules : \A d \in ClassDays(shape[s]) : StartOf(shape[s], d) \in Int
    <3> SUFFICES ASSUME NEW s \in Schedules, NEW d \in ClassDays(shape[s]) PROVE StartOf(shape[s], d) \in Int
      OBVIOUS
    <3>1. d \in Int /\ Day \in Int /\ shape[s].offset \in Int /\ shape[s].hour \in Int
      BY <2>1, ScheduleAssumptions DEF ClassDays, ShapeType
    <3>2. d * Day \in Int
      BY <3>1, SMT
    <3> QED
      BY <3>1, <3>2 DEF StartOf, Midnight
  <2>3. Classes \in [Schedules -> SUBSET Int]
    BY <2>2 DEF Classes
  <2>4. Stages = [s \in Schedules |-> "new"] /\ Lessons = {}
    BY DEF Init, Stages, Stage, Lessons
  <2> QED
    BY <2>3, <2>4 DEF Table!Init, Classes, Stages
<1>4. IInv /\ TableInv /\ [Next]_vars => [Table!Next]_(Table!timetableVars)
  <2> SUFFICES ASSUME IInv, TableInv, [Next]_vars PROVE [Table!Next]_(Table!timetableVars)
    OBVIOUS
  <2>1. [Table!Next]_<<Classes, Stages, Lessons>>
    BY TimetableStep DEF IInv
  <2> QED
    BY <2>1 DEF Table!timetableVars, Classes, Stages
<1> HIDE DEF TableInv
<1> QED
  BY <1>1, <1>2, <1>3, <1>4, PlanInvariant, PTL DEF Spec, TimetableSpec, Table!Spec
=============================================================================
