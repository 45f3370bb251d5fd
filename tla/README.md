# Verification of the live-stream platform

This directory holds TLA+ models of the platform's backend (Go, PostgreSQL with
row-level security, Redis, Razorpay, websockets), the TLC runs that check them on
small instances, and proofs, checked by TLAPS, that hold for every instance.
`PROJECT.json` lists the components, runs, hazards, findings and theorems, and
for every definition the source lines it stands for.

Run a check with `tlc -config <cfg> <MC module>`, a proof with
`tlapm <module>Proofs.tla`.

## 1. The system

One server program (`cmd/server`, in several replicas) serves many tenants
(coaching institutes); a worker (`cmd/scheduleworker`) turns class schedules into
streams. What survives is in PostgreSQL and Redis, and files are in object
storage. Everything runs concurrently: one goroutine per HTTP request, webhooks
from Razorpay and Codemagic, callbacks from nginx-rtmp. Hardly any handler uses a
transaction: most are a row of statements, between which other requests run, and
which may end anywhere.

| component | state | what is hard | what makes it correct | module |
|---|---|---|---|---|
| courseorders, coursebundles, webhooks, refunds | `payments`, `enrollments`, `course_bundles` | client and webhook settle one order at once; crashes between Razorpay and the row; admins edit what is being sold | paid implies enrolled; announced once per settlement; refunded once; captured orders settle | `PaymentLedger`, `OrderLifecycle` |
| subscriptions | `user_subscriptions`, `payments` | payment and access are changed one after the other; cancellations and days pass in between | access goes with a captured payment | `Subscriptions` |
| fees | `fees`, `fee_installments` | credit and mark are two statements; verifications overlap and repeat | no credit is lost | `Fees` |
| coupons | `coupons`, `coupon_courses` | nothing is validated; a quote is several reads | a quote never pays the student | `Coupons` |
| referrals | codes, events, counters | event and counter are two statements | the counter misses no event | `Referrals` |
| chat | rooms, channels of the hub | sockets leave while the hub drops them | no double close, once for everybody in one order, nobody blocks | `ChatHub`, `LiveRoom` |
| database, tenant and custom-domain middleware | pooled sessions with their settings | sessions outlive requests; the pool is finite | tenants are isolated; everybody gets a connection (finding 4: not so) | `RlsPool` |
| routes and guards of `cmd/server` | the routing table | guards of groups overlap by prefix; order decides | who reaches an admin's handler may | `Gateway` |
| rate limiter | buckets | readings of the clock out of order, the janitor | the configured rate holds | `TokenBucket` |
| auth | one-time codes, accounts, refresh tokens, Google's keys | guesses and sign-ups race; refreshes cross logouts; fetches overtake each other | guesses bounded; logouts stick, but for refreshes under way; old roles and withdrawn keys die out | `PhoneLogin`, `Sessions`, `GoogleCerts` |
| tenants, platformadmin, cache | `tenants` and what hangs on them, Redis | onboarding in nine statements; stale answers | whoever is welcomed has a tenant, whole but for statements that failed; answers are recent | `Tenancy`, `TenantLookup` |
| bulkimport, users, admin | `users`, memberships | people change between the rows of an import | what an import tells adds up | `Roster` |
| stream, schedule, schedule worker | `class_schedules`, `streams` | runs die half-way and are repeated; local dates against UTC | one stream per class, none for other days, none forgotten | `ClassSchedules`, `Timetable` |
| courses, batches, enrollments | rows and the counter of a batch | counter next to rows; cancel and come back; cascades | nobody goes uncounted | `Enrolments` |
| subjects ... lectures, exams | the tree, watch progress | reports in any order, the tree taken apart | progress is the furthest reported | `Curriculum` |
| recording, materials, uploads, downloads, storage | rows and objects | two stores, no transaction | a row has its file | `Media` |
| tests | attempts, answers | submit races answers and itself; queries whose failure is ignored | the result is that of the answers its queries found | `TestAttempts` |
| attendance | rows, QR codes | reports and marks overtake each other | what is kept, and of whom, follows from what was stored | `Attendance` |
| assignments, doubts | submissions, doubts and answers | handed in again while graded; a row and its status | doubts off the desk are answered, graded work was read but for crossings | `Homework` |
| devices and push | tokens | count, evict and store of overlapping launches | the cap is exceeded by a bounded number | `Devices` |
| notifications | announcements, inboxes | ids of other tenants in requests | no user reads another tenant's notices | `Noticeboard` |
| cms, banners, leads | rows of the public site | editors send parts of forms and cross | switches hold as last asked for, but for edits that cross | `Showcase` |
| appbuilds | `app_builds` | Codemagic's posts lost, repeated, late | published means finished | `AppBuilds` |

`PROJECT.json` has the complete list, the parts left out included, and under
"hazards" the places where the code can go wrong in ways a test would hardly
reach.

The components meet in a few places: every one of them takes connections from
the same pool (`RlsPool` says what sessions they get, `Gateway` which requests
get which); the webhook and the verify calls write the same payments rows,
and the verify calls of subscriptions and installments write any row of the user's; settlements write enrollments; deleting a course cascades into orders, bundles,
batches, enrollments and the tree of lectures; a login attaches a referral;
ending a stream rotates the key that callbacks use.

## 2. What is modelled

Each module has a header that says what it is about, its constants with their
assumptions, one action per handler or, where the handler is several statements,
one per statement with a record per request in flight that says how far it is.
`Handle...` operators are the HTTP handlers: the bodies that get through to the
service. Bounds of runs are constants that are called so.

### PaymentLedger (with OrderLifecycle)

`payments` and everything that moves a row of it. A row is named by its Razorpay
order id, which is UNIQUE, so `Orders` are at once rows and provider orders. A
worker is the goroutine of one request; its program counter is how far it is:

| code | actions |
|---|---|
| `courseorders.Buy`, `coursebundles.Buy`, `subscriptions.StartCheckout` | `BuyCourse`, `BuyBundle`, `StartCheckout` (checks, Razorpay order), then `InsertOrder` |
| the customer at Razorpay's checkout (external) | `CustomerPays` |
| `courseorders.Verify`, `coursebundles.Verify`, the `payment.captured` webhook | `Verify`, `VerifyBundle`, `Webhook`: lock `FOR UPDATE`, check, mark paid; `Enroll` per course; `Commit`; `Notify` after it |
| a delivery for a settled order | `WebhookSkip` |
| failures | `EnrollRejected` (NOT NULL, foreign key), `DeadlockVictim`, `Fail` (the request dies anywhere, at most `MaxFaults` times) |
| the webhook's look-up of the row fails for any reason: answered 200 | `WebhookLookupFails` (one of the `MaxFaults`) |
| `subscriptions.VerifyCheckout` | `VerifyCheckout` (`MarkCaptured`, then an error unless the order is a plan's), `ActivateSubscription` |
| `fees.VerifyInstallmentPayment`, its write to the payments row | `VerifyInstallmentPayment` (`MarkCaptured`) |
| `refunds.Issue` | `IssueRefund` (reads the row), `CreateRefund` (Razorpay with the idempotency key), `MarkPaymentRefunded` |
| direct enrollment, bundle administration, `courses.Delete` | `EnrollDirect`, `AdminCreateBundle`, `AddCourseToBundle`, `AdminSetActive`, `AdminDeleteBundle`, `DeleteCourse` |

Row locks follow from where workers are: the payments row is held by a worker in
`"settle"`, and an enrollment row by the open transaction that upserted it. What
a transaction wrote becomes visible at `Commit`. Left out: amounts of money
other than the refunds, receipts and e-mails, coupons.

Every verify call but that of bundles takes any row of the user whose payment was captured. Those of
courses and bundles look at the status under the lock; those of subscriptions
and installments (`MarkCaptured`) look neither at the status nor at what the row was
paid for, so that a row which is paid or refunded becomes "captured" again and may be settled,
announced and refunded again. How often is bounded by `MaxResets` per order.

Four observers remember what the tables forget, for the properties only:
`settlements` (committed settlements of an order), `resets` (times its settled row was
captured again), `withdrawn` (orders of a bundle deleted before they were settled)
and `swallowed` (orders whose webhook was answered without the row being read).
`PaidImpliesEnrolled` is about orders that have ever been settled and excepts
`withdrawn`: an order of a deleted bundle is settled and gives nothing.
`CapturedCourseSettles` excepts `swallowed`.

`OrderLifecycle` is the abstract promise: absent, created, paid or captured,
refunded; settled only while open; announced at most once per settlement; and
the way back from paid and refunded to captured, `Reset`, which nothing but those two verify calls
takes. `PaymentLedger` implements it with the status column, the settlements, the
resets and the number of events published.

### ChatHub

The hub goroutine, and of every socket the read and the write pump, with the
unbuffered register and unregister channels (a rendezvous is one action), the
buffered broadcast channel and the buffered send channel. Delivery is one step
per socket (`Broadcast`, then `Offer`), so pumps run between the steps; a REST
post is an author without a socket. `LiveRoom` is the abstract promise, in which a message is
said to all who are in the room at one moment and each of them hears it later;
who is in and keeps up is not put out, and who is put out still hears what was said
before. `ChatHub` implements it: a message counts as said when the hub takes it, and what a
socket is due is what its channel holds and, while the message has yet to be
offered to it, that message. Left out: message text, flood control,
storage and history.

### RlsPool

The sessions of the pool with the settings row-level security looks at, the
`BeforeAcquire` hook that sets them from the context of each call, the contexts
the middleware attaches, the elevated session of `SelfServeOnboard`, and
`CustomDomain`, which keeps a connection until the request is over. `Visible` is
the USING side of the policies, `WithCheck` the other one. `Standoff` is the state in which
all requests in flight wait and no connection is free; there may be as many
requests as connections, or more. Left out: the
`app.user_id` setting with the policy that shows a user its own memberships, and
the start-up check that refuses a superuser.

### ClassSchedules

Schedules, the streams planned from them or created by hand, and the worker that
plans. The clock counts hours of UTC; a schedule has dates, weekdays and an hour
of a zone with a fixed offset.

| code | actions |
|---|---|
| `schedule.Create`, `SetActive`, `Delete` | `CreateSchedule`, `SetActive`, `DeleteSchedule` (its streams lose their schedule) |
| `stream.CreateStream`, `StartStream`, `EndStream` | actions of the same names; `EndStream` rotates the key |
| nginx-rtmp's auth and done callbacks | `RtmpCallback`, in the session their routes give it |
| `scheduleworker`: `run`, `materialise` | `RunWorker` (lists the schedules due), `Materialise` (the starting times of one), per starting time `CheckExists` then `CreateScheduledStream`, at the end `TouchMaterialised`, `Finish` |
| failures | `QueryFails` (the loop goes on), `TouchFails`, `Crash` (the run may be started again) |
| cron and the clock (external) | `Tick` |

A worker reads the clock when it starts with a schedule, and a run ends before
the clock moves on. `InWindow` is the comparison as the code makes it: local
midnight against a date that was decoded as midnight of UTC; the query that lists
the schedules uses the database's own date, in UTC. `RtmpCallback` looks a key up
in a blank session, since the routes in `cmd/server/main.go` attach no context;
what such a session sees is `RowsVisible`, the policies that `RlsPool` models in
full. `since` exists for the properties only. `Timetable` is the abstract promise to
a school that plans by schedules: while a schedule is there, each of its classes is
planned at most once, at its time and for good, and nothing else is; with the
schedule its lessons leave the timetable, all at once. `ClassSchedules` implements it with
the rows of `streams` that name a schedule: streams created by hand, starts and ends,
callbacks, failures and dying workers are stutters. Left out: daylight saving, minutes,
malformed times (Create refuses them), schedules without a first date (the insert
violates NOT NULL), viewer counts, a tenant's suspension.

### Accounts and their doors (`MCAccounts`)

Seven modules without common state. One run checks them: the variable `part`
says whose steps a behaviour takes.

* **TokenBucket**: a request reads the clock (`Arrive`) before it takes the lock
  (`Limit`: look up or create, refill, take); `Janitor` evicts. A tick is the unit
  in which time earns tokens. `window` is an arbitrary earlier moment, for the property.
* **PhoneLogin**: `SendOTP` with its throttle in Redis (`INCR`, `EXPIRE`), the older codes
  invalidated, the new one stored; `VerifyOTP` as the reads and writes it makes
  (`GetLatestSmsCode` with lock and expiry, `WrongCode`, `ConsumeSmsCode`), then
  `FindOrCreate` and `Claim` against the unique indexes; Google's sign-in and linking;
  accounts prepared by admins. Left out: the digits of a code, e-mail, names.
* **Sessions**: login and refresh (`CompareStored`, `ReadRow`, `IssueTokens`), logout,
  changes of role, access tokens believed until they expire. A token is the second
  it was minted in, as in the code.
* **Tenancy**: `SelfServeOnboard` statement by statement (`Allocate` ... `Welcome`), those
  whose error is ignored (`missed` has what they should have set) and those that end it, next
  to the super admins' handlers. `CanSignIn` is what a login asks of the tenant: that it is
  active, which one on trial is not.
* **GoogleCerts**: `Verify` with the keys at hand, the fetch without the lock, the
  replacement of all keys by the answer, and Google rotating its keys (external).
* **TenantLookup**: `LookupByOrgCode`: Redis, the row, Redis again, with the TTL.
* **Roster**: an import row by row, and people who sign up, are edited, switched
  off and erased meanwhile.

### Teaching and administration (`MCCampus`)

Fifteen modules, again one after the other: `scene` says whose steps are taken.

* **Subscriptions**: `Checkout` (free plans are active at once), the external payment,
  `VerifyCheckout` as `Capture` then `Activate`, `CancelSubscription`, the package's webhook, days.
* **Referrals**: `MyCode`, the attachment as event and counter, `RewardOnPurchase`.
* **TestAttempts**: teachers' edits; `StartAttempt`, `SubmitAnswer` (status read, row
  written), `SubmitAttempt` as three queries and a write. A query that fails leaves a zero, or an
  empty score, and the request goes on (`unread` counts them, `failed` says which);
  `StopSitting` ends a request anywhere. `disturbed` marks attempts whose
  answers changed after the sum for a reason the code accepts.
* **Fees**: `AssignFee` with installments rounded to the paisa, checkout and
  verification: mark, then credit.
* **Attendance**: reports of the player and marks of teachers as messages that arrive
  in any order and merge into one row as the upsert does: the longest time, the join and the status of
  the last request that has one. `stored` remembers what was merged. QR codes.
* **Homework**: `SubmitAssignment` and `GradeSubmission` as messages to the database; a teacher
  reads the work when the grading begins, and the marks arrive at whatever is there then
  (`graded` is the text that was read, `crossed` that a hand-in came between); a
  doubt with its row, the model's answer and the status, `AcceptDoubtAnswer`, deletions.
* **Devices**: `CountDevices`, `EvictDevice`, `UpsertDeviceToken`; age is the order of the last launches.
* **Enrolments**: the course with its approval, batches, `Enroll` and `IncrementBatchStudents`,
  `CancelEnrollment`, cascades.
* **Curriculum**: the tree with its cascades (`Subtree`, `Drop`), lectures filed in it,
  `UpsertLectureView`, exam categories.
* **Media**: an upload is a list of steps (object, row, details) that may stop anywhere;
  deletions remove the object, then the row; places disappear with their rows.
* **Gateway**: the table of `main` as sequences of segments with guards in the
  order of registration; a request walks down it (`Walk`), and each guard is what its
  middleware checks and the session it leaves. Routes next to each other with the same
  guards are one entry, and the entries make up sections, one per desk. `Ids` is what clients write for a
  parameter, and `Strays` what they write after `/admin` besides routes.
* **Noticeboard**: announcements with fan-out and direct notices, under the
  policies of the database (`Sees`, `MayWrite`), for users of two tenants. `AdminEnroll`
  enrols any user into a class, whichever tenant the user is of, and the fan-out goes by enrollment.
* **Showcase**: articles, questions (`ReadFaqs`, `UpdateFaq`), pages, banners, leads, with what an
  omitted flag means for each of them. An edit of a question carries the switch it has read;
  `asked` is the switch that was written last because somebody wanted it, `crossed` has
  the questions where an edit under way has put an older one back.
* **Coupons**: rows with any numbers an admin may send, `Apply` as its three
  reads, the arithmetic of the discount.
* **AppBuilds**: the row, the dispatch with its lost answer, Codemagic's posts in any
  order and number, statuses set by hand.

## 3. Runs

| run | instance | shows |
|---|---|---|
| `ledger_courses` | one user, course and plan, one order, three workers, refunds of two amounts, one fault, two resets | the safety properties of the ledger, that it implements `OrderLifecycle`, and that a captured course order settles without its client |
| `ledger_bundles` | one bundle of two courses, two orders for it or its courses, two workers, one fault | the fan-out of enrollments, its locks and deadlocks, bundles edited and deleted while sold |
| `chat_delivery` | two sockets, one REST post, two streams, channels of capacity 1, three messages | no panic, and the chat is a `LiveRoom` |
| `chat_liveness` | one socket, two REST posts, four messages | posters go on, dead sockets leave |
| `pool_isolation` | two tenants, two requests, two connections, two rows | isolation whatever sessions are reused; only kept look-up connections make everybody wait |
| `class_planning` | two schedules of any of three shapes (east, west of and at UTC), one worker a day for four days, one fault, one edit | what is planned from schedules is a `Timetable`, one stream per class, and faults are repaired by later runs |
| `accounts` | per part two requests, lookups, sign-ins, onboardings or imports, one or two tenants, people and codes, one failure | the nine properties of accounts and their doors |
| `campus` | per scene one or two requests in flight, one to three rows of each kind, one failure | the fifteen properties of teaching and administration |
| `ledger_bundle_hook`, `class_first_day`, `class_publish`, `pool_standoff` | - | the findings below |

The types of the ledger, the chat, the pool and the schedules are not checked by
a run: the theorems of section 4 prove them for every instance. `TypeOK` of the two
composites is the conjunction of the types of the part or scene that is on; both are
proved as well.

**Bounds.** Three workers on one order let a settlement and two refunds, or two
settlements and a refund, cross anywhere, since a row has one lock; with two resets an order
is settled, refunded, settled and refunded once more. Courses, orders and users are
independent but for the locks of enrollments, which `ledger_bundles` has two orders for. One
fault per behaviour covers a death at every point of every request. Classes are planned two days of two hours
ahead, so every class is in sight of two runs, and the first, an inner and the
last day of a window are reached within `MaxTime`; the edit can fall between
any two steps of a run; `MaxStreams` is high enough for every class and the edit.
Channels of
capacity one reach "full" and "empty" with the fewest messages; three messages
fill a send channel, the hub's hand and the broadcast channel at once, and a
fourth is one that has to wait. Two
requests and two connections let a session pass between requests of any two
kinds while another is held, and are the smallest instance where all wait for each other.

In the composites two requests of a kind in flight let any two handlers cross at
any statement, and one failure falls between any two of them; what takes three
parties (an import, a sign-up and an erasure; two editors and a deletion; three
phones of a cap of one) has them. The clocks run past every lifetime: 9 ticks
against an eviction after 5, 5 seconds against tokens believed for two, 5 ticks against keys kept
for at most 2 and answers kept for 2. `FeeTotals` has a total that three shares
do not divide; `Discounts`, `Caps` and `Minima` are taken with both signs; `Seconds`
has two values, so that reports differ; `MaxDesk` and `MaxReports` let one message
overtake another; `MaxUnread` lets any one query of a hand-in fail. An id of `Gateway` may be the last segment of another route
("export"), and `StrayPaths` are `/admin` itself, a path below no desk and two below desks of the
platform. The failures and bounds that appear in a property (`MaxFaults`,
`MaxBreakdowns`, `Lag`, ...) are counted there by what happened, not by the bound.

`CHECK_DEADLOCK FALSE` is set because
bounded orders, messages, hours and faults run out, and the system may then be at rest.

**Fairness.** Ledger: a request that has begun runs on (weak fairness of its next
step), the database hands a lock to whoever waits for it (strong fairness of
`Enroll`), Razorpay redelivers an unanswered webhook (strong fairness of
`Deliver`); a delivery answered 200 without the row being read is the last. Clients and admins are under no obligation. Chat: goroutines run, a
Go `select` picks every case that stays ready, blocked senders are served in
turn; a peer may be slow for ever. Pool
(`pool_standoff`): handlers finish, and connections are
granted in turn (pgxpool queues waiters), so that what waits for ever does so for want
of a connection; arriving and querying are not fair.
`class_planning` needs none: `FaultsAreRepaired` counts the runs there have been. Nor
do the composites: nothing in that code retries by itself, so that a request
that ends half-way is never taken up again unless a client does it, and what
must hold there is safety.

Every property of a passing run has a mutant in `PROJECT.json`: a definition of
the model replaced by a plausible bug of that code, which the run then finds.

## 4. Proofs

`PaymentLedgerProofs`, from `LedgerAssumptions` (disjoint kinds of products, a
few distinct values); nothing is assumed about which verify call a client posts an order to:

* `InvariantHolds`: the inductive invariant. The properties are not inductive as
  they stand: `PaidImpliesEnrolled` needs to know that between lock and commit a
  worker's `todo` and `done` still cover what the order promised, that two
  workers never hold the same row, and that nothing a settlement works through is taken from it but by
  deleting the bundle or the course; `AnnouncedPerSettlement` needs that a row was settled at most once
  more than it was reset, and that its announcements and the requests that still owe one are together no
  more than its settlements (`OwedInv`); `RefundsAgree` needs what a worker between Razorpay
  and the row remembers to be what Razorpay did.
* `TypeCorrect`, `PaidOrdersEnroll`, `EnrollmentsAreBacked`,
  `AnnouncedOncePerSettlement`, `RefundsAlwaysAgree`: its consequences.
* `ImplementsLifecycle`: every step is a step of `OrderLifecycle` or a stutter.

`RlsPoolProofs`, from `PoolAssumptions`:

* `PoolInvariant`: a connection is taken by one request at a time, the session a
  query runs in has the settings of its own request's context, and only the
  middleware for it attaches a context that opens more than one tenant.
* `TenantsIsolated`, `PoolTyped`: its consequences, for any number of tenants.
* `StandoffsAlwaysOfLookups`: when all requests in flight wait and no connection is
  free, every connection is one that a request keeps from its host look-up, for any numbers of
  requests and connections. So the wait of finding 4 has no other cause: a request in a
  handler never asks for a connection while it has one of its own.

`ChatHubProofs`, from `ChatAssumptions` (sockets and REST posts are different
authors, capacities are positive):

* `HubInvariant`: only a socket whose read pump has yet to leave is in a room,
  that room is its own and its channel is open; a socket the current message has
  not been offered to lacks exactly that one. The second half is what makes
  "without a gap" inductive across the steps of a delivery.
* `HubNeverPanics`, `DeliveryUnbroken`, `HubTyped`: its consequences.
* `ImplementsLiveRoom`: every step is a step of `LiveRoom` or a stutter. Beyond the
  invariant it needs that a message is in one place only on its way to the hub (`Distinct`),
  so that taking one leaves no second copy to be said, and that a read pump leaves
  a connection that is closed (`Line`), so that only the slow and the lost are put out. The offers of a
  delivery, and pumps that run between them, are invisible: taking the first line of
  a channel is hearing the first line due, whether or not there is one to come.

`ClassSchedulesProofs`, from `ScheduleAssumptions`:

* `PlanInvariant`: types, and that a worker has only starting times of classes
  left. It rests on the lemma that a day the code finds inside the window, by
  comparing instants of two calendars, is inside it by its date as well; the
  converse is false, which is finding 2.
* `OnlyClassesPlanned`, `PlanTyped`: its consequences, for any zones.
* `OneStreamEach`: if cron starts one worker at a time (`Launches = 1`), a class
  has at most one stream. The strengthening says that a worker which found no
  stream for a class is alone, and that there still is none when it inserts. No
  constraint of the database says so, and two overlapping workers do create two:
  the assumption is needed, and it is the deployment that has to provide it.
* `ImplementsTimetable`: under the same assumption every step is a step of
  `Timetable` or a stutter. A stream a worker inserts is a lesson of an open schedule
  only since a run has no schedule in hand that was not created (`InUse`); it
  is a new lesson since the strengthening of `OneStreamEach` holds when it inserts; and
  a deletion takes all lessons of its schedule since the streams that name a schedule are of one
  that is there (`Owned`).
* `ClassesAreRepaired`: a class of the clear days that more runs had in sight than
  faults happened has its stream. The invariant (`AllServed`) says of every active
  schedule and class: the stream is there, or the runs for the class are at most as many as
  the faults and, if a run of this hour has it in sight and there is no fault
  to spare, that run has yet to finish with the schedule and whoever works on it still has
  the class before him. The clock's step then adds at most one run to the count,
  and only when a fault is there to pay for it. It rests on `SightOfClass`: a class of the
  clear days in sight of a run, said in instants, is one the loop over local dates
  comes to, and its schedule is still listed in UTC. Assumed are a worker a day
  (`Launches # 0`; without one nothing is planned) and no more schedules than a run lists
  (`batchSize`, 1000 in the code, which its comment takes to be more than there are;
  beyond it the last ids are listed only when earlier ones are not due).

`DoorProofs`, about what answers a request from memory (`TokenBucket`, `GoogleCerts`,
`TenantLookup`), from `BucketAssumptions` (a burst that is refilled, with the lag of the
clock readings, before the janitor forgets the key), `CertAssumptions` (no answer of
Google may be kept for less than a fetch takes) and `LookupAssumptions`:

* `BucketInvariant`: what a key has gained since any earlier moment, together with the
  tokens it has left, is at most a burst and what was earned up to the reading it was last seen
  with. That a fresh bucket does no harm needs the case of a key without one: then so
  much time has passed that time alone pays for the gain, up to the reading of
  every request of that key that is under way.
* `BudgetOfEveryWindow`: its consequence, for every configuration.
* `CertInvariant`: what an answer holds was served when it was asked for or later, and
  that takes a bounded time; whoever has stored its own answer and finds another
  one in its place finds none that is older by more than another fetch.
  `CertsAlwaysRecent` is its consequence.
* `LookupInvariant`: the same argument for the cache of tenants, whose answers come back from
  a read that a later write may have overtaken. `AnswersAlwaysRecent` is its consequence.

`AccountsProofs`, about `Sessions`, `PhoneLogin`, `Tenancy`, `Roster` and the composition
`MCAccounts`, from the assumptions of its modules (finitely many requests of
`PhoneLogin`; the names of imports are not the marks "nobody" and "self"):

* `SessionInvariant`: what a login or refresh has read is as recent as its request,
  a refresh in flight of a user who is out came before the logout, and a token
  minted with a role the user lost was requested before the change.
  `LogoutsStick`, `RolesCatchUp`: its consequences, for any lifetime of the tokens. The first
  excepts the refresh that was in flight at the logout: it stores its token after it, and
  the user is in again.
* `LoginInvariant`: the attempts noted of a code and the requests about to compare with it
  are together no more than the limit and all requests but one, and guesses exceed the
  attempts by failures only. That is inductive, as a
  request finds the code open only below the limit, and `GuessesAlwaysBounded` follows.
* `TenancyInvariant`: an onboarding that has come to a statement has left the rows of the
  earlier ones behind it, or noted which of them failed, and no handler takes them away; no two
  onboardings are at the same row. `WelcomedAlwaysComplete` follows.
* `RosterInvariant`: an import has counted every row it has read but the one in hand, and the
  people who name it as their origin are as many as it has created: a step that
  creates one adds one to both. `ImportsAlwaysAddUp` follows.
* `AccountsTyped`, `AccountsKeepTheirWord`: a step of the composition is a step of one part
  and stutters for the others, so each part's specification is implied, and with it what
  the theorems say of it. They state all that the run `accounts` checks.

`LearningProofs`, about `TestAttempts`, `Homework`, `Enrolments`, `Curriculum`,
`Attendance`, `Devices`, `Media` and `Noticeboard`, from the assumptions of these modules (finitely many
questions, students, batches, phones and requests; a batch is not called "none"):

* `AttemptInvariant`: what a submission has counted and summed so far is what the
  answers of its attempt give, unless somebody has disturbed it or the query failed and left
  a zero; `ResultsAlwaysOfAnswers`.
* `HomeworkInvariant`: a request on the desk is about a doubt that is there, an answer whose
  doubt is to be closed stays as long as the doubt, no doubt is asked twice, and a grading on its way
  is of the work that is there unless a hand-in has crossed it; `NothingEverSlips`.
* `EnrolmentsInvariant`: the enrollments that name a batch, as a set, are no more than its
  counter, the requests that have yet to count theirs and the slips; a batch that is gone
  or was never there is named by none. `NobodyEverUncounted`.
* `CurriculumInvariant`: a row of `lecture_views` holds the maximum of the set of reports that
  were taken for it; the lemma is about a maximum and a growing set.
  `ProgressAlwaysFurthest`.
* `AttendanceInvariant`: types, and that the row is that of the requests stored so far:
  the longest time, one of the joins told of, whether a teacher marked, and whose the status is.
  It is inductive as each request is merged with a row of which it holds.
  `EvidenceAlwaysStays` is its consequence.
* `DevicesInvariant`: the active devices of a user and the launches about to store one are no
  more than the cap and all launches but one; a phone has one row. `DevicesAlwaysBounded`.
* `MediaInvariant`: a request that is about to write a row has stored the file, or
  its deletion has begun, and only files whose deletion has begun are removed.
  `RowsAlwaysHaveFiles`: its consequence, for any number of failures.
* `NoticeInvariant`: every notice has the tenant of its sender, since an INSERT that would
  write any other row is undone as a whole; where that is not the user's own, it is of a fan-out,
  and an enrollment of the sender's tenant has led there. `NoticesAlwaysStayHome`: its consequence,
  that no such notice is seen, read or deleted by its user.

`CampusProofs`, about the other seven modules of `MCCampus` and the composition, from the
assumptions of these modules:

* `SubscriptionInvariant`: a request about to activate has captured what was paid, and no two
  requests own a row; `AccessAlwaysPaidFor`.
* `ReferralsInvariant`: as for batches, events by uses, visits and mishaps; no code goes.
  `UsesAlwaysCountEvents`.
* `CouponsInvariant`: a quote in progress takes off no more than its amount, which the
  signs of what admins may store do not change as the code compares with
  zero; `QuotesNeverEverPay`, which no run checks.
* `FeeInvariant`: an installment about to be paid is there, and the sum of the paid installments
  is covered by the fee, what failures took and what requests between their two
  statements are to credit. Each step changes one summand of a sum. That a sum changes by as
  much is proved from the definition of `SumFunction`: an induction over the number of
  summands, through the set of numbers that have a solution of the recursion, as a set of
  natural numbers with 0 and with every successor is all of them (`SetInduction`, from the
  well-foundedness of the order). `NoCreditEverLost` follows.
* `ShowcaseInvariant`: the switch an edit under way will put back is the one asked for last, unless the
  edit is stale; `SwitchesAlwaysHold`.
* `BuildsInvariant`: a post that says "finished" is of a job that has finished;
  `PublishedAlwaysBuilt`.
* `GatewayInvariant` types the walk of a request.
* `DoorsAlwaysKept`: what `AdminDoors` says, for any ids and any stray paths below `/admin`. Two
  facts about the table carry it, each shown for every section of the table and for
  sections put together. It is *shielded*: every route below `/admin` has an admin's or
  the platform's guards of its own, or a group of the same word registered before it
  has. It is *orderly*: up to the last route of the platform's desk no group that a path
  of that desk meets turns platform staff away; the group of the tenant's admins would, and comes later. The
  invariant (`DoorsInv`) says of a request that the role and the session it has are
  those that the guards behind it leave, so whoever is handled has come
  through the doors that shield the route. What a caller writes for a parameter only
  makes it match other routes, which are shielded as well.
* `CampusTyped`, `CampusKeepsItsWord`: as for accounts, all that the run `campus` checks.

Only model-checked is every liveness property (`CapturedCourseSettles`, `PostersGoOn`,
`DeadSocketsLeave`): the provers have neither fairness nor ENABLED.

## 5. Findings

1. `payment.captured` for a bundle order always fails: the webhook enrolls into
   `course_id`, NULL for bundles. Only the client can settle a bundle
   (`ledger_bundle_hook`).
2. East of UTC, where the default zone is, the class of the first day of a
   schedule is never planned; west of UTC that of the last day
   (`class_first_day`).
3. nginx-rtmp's callbacks look streams up in a session that row-level security
   shows no row, so publishers with valid keys are refused and recordings find no
   stream (`class_publish`).
4. `CustomDomain` keeps the connection of its look-up until the handler is done, while
   the handler waits for another: once `DB_MAX_CONNS` such requests are in flight they
   all wait for ever, and so does everybody after them (`pool_standoff`). Nothing else
   in the code can bring that about (`StandoffsAlwaysOfLookups`).

Seen while modelling, and told by the models' actions where they are modelled,
but not by a run:

* Money. The verify calls of subscriptions and installments take any order of the user and set it
  to "captured", so that a course or bundle order that was paid or refunded is open again: it can be
  settled and announced once more, and its status forgets the refund (a second refund still gets Razorpay's first
  one, by the idempotency key). The webhook answers 200 when its look-up of the
  row fails for whatever reason, so that one lost connection may lose the settlement of an order whose client
  does not come back. An order of a bundle deleted before it was settled is paid for nothing.
  Two orders for one course placed before the first is paid are both
  charged: check, Razorpay order and insert share no lock and no constraint. Events
  that follow a commit are lost in a crash, and the webhook never sends them.
  `RewardOnPurchase` rewards nobody, as referral events are looked for by a NULL referrer.
  `subscription.*` events match no row. A late cancellation takes a paid
  period away. The checkout of a fee installment always fails (`payments.tenant_id` is NOT NULL), the
  installments of a fee may add up to less or more than it by the rounding, and a
  verification repeated credits again. Lower-case coupon codes never
  apply, and discounts below zero or above the price can be stored.
* Rows no session sees. The public org-code lookup wants tenants that are `active`, but a
  self-service tenant is on trial. Public reads (lectures among them), `UpdateBranding` by a tenant's admin,
  and redeeming a download token find no row for lack of a session. A broadcast to a course or to all is always refused.
* Routes. Checking in by QR code is shadowed by a route for instructors; nginx is
  configured for `/api/rtmp` while the server has `/api/v1/rtmp`; what admins change
  is not recorded by the audit middleware, which comes after their routes.
* Accounts. A self-service admin is told to log in and turned away until a super admin has
  activated the tenant: logins look for active tenants, and it is on trial. A refresh in flight at a logout
  undoes it. `is_active` is looked at neither by logins nor by refreshes; registration stores
  phones as they were typed; a phone nobody has cannot be linked; a lost `EXPIRE` throttles a phone
  for good; an import writes a name back into a user erased meanwhile; an
  administrator's edit empties what it omits. A suspended tenant stays known to the login
  screen for up to five minutes.
* Teaching. A query that fails while a test is handed in writes a zero as the result. Work handed in
  again between reading and grading is graded unread. A player's late report replaces
  the teacher's mark of the attendance, and the time of joining. An administrator may enrol users of
  other tenants, who then get notices they can neither see nor delete. Two starts of a test at the same moment make two attempts; a course that was
  rejected is published by the next edit; enrolling asks for neither price nor seats nor
  publication; a lecture disappears with any place it is filed under. Objects
  stay in storage when their row is refused.
* Public site. `UpdateFaq` writes back flags it read earlier, and a switch thrown in between is lost;
  an article edited
  without its date is a draft again, and a banner without `is_active` is hidden. A late post of Codemagic may
  take an app back from published.
* Chat. The hub deletes from its map of rooms while it holds the lock for reading
  only, and history and live order of lines may differ.
* Never called: `RevokeRefreshToken`, `Redeem` of coupons, `MarkOverdueFees`, `PurgeExpired`,
  `UpsertPlatformSubscription`.

## 6. Where to go on

* A transaction per handler would make several properties exact that now carry
  the requests under way and the failures (`UsesCountEvents`, `NoCreditLost`, `NobodyUncounted`,
  `DevicesBounded`); the modules are written so that merging the statements of a request
  into one action shows it.
* A subscription's life as an abstract specification that `Subscriptions` and the plan
  orders of `PaymentLedger` both implement.

## 7. Not modelled

* Push messages, events and FCM: nothing publishes the event that would start
  them. Search, analytics, the audit log's contents and share links only read. E-mail, SMS,
  WhatsApp, AI, ffmpeg and object storage are clients of external services: what
  their failure does is part of the modules that call them.
* Single statements that nothing else depends on: bookmarks, the onboarding
  profile, progress in percent, view counters, plans created, linked
  Razorpay accounts with the split of commissions. Password resets: no login reads a password.
* `UploadRecordingFromFile`, behind the callback that finds no stream (finding 3), and
  the functions nobody calls. The engagement package, which no route mounts; `RlsPool` has the
  session its handlers would get.
* Configuration, logging, metrics, translations, conversions and validation of
  input: no state that changes while the server runs.
* Razorpay, Google, Codemagic, Redis, the pool library and PostgreSQL's deadlock detection are
  external and modelled from how the code uses them.
