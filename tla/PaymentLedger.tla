--------------------------- MODULE PaymentLedger ---------------------------
(***************************************************************************)
(* The payments table and everything that moves a row of it: buying a      *)
(* course or a bundle, a subscription checkout, the client's verify calls, *)
(* Razorpay's payment.captured webhook and the admin refund.  (The rows of *)
(* fee installments are in Fees; the verify call for them is here, because *)
(* it takes any row of the user.)                                          *)
(*                                                                         *)
(* A row is named by its provider_order_id, which is UNIQUE, so an order   *)
(* of the model is both the Razorpay order and the row.  A worker is the   *)
(* goroutine of one HTTP request.  Statements of one transaction are       *)
(* separate steps; what a transaction wrote becomes visible at Commit.     *)
(* The locks a transaction holds (the payments row taken FOR UPDATE, the   *)
(* enrollment rows it upserted) follow from where its worker is.           *)
(***************************************************************************)
EXTENDS Naturals, FiniteSets

CONSTANTS
  Users,      \* students
  Courses,    \* priced courses
  Bundles,    \* course bundles an admin may create
  Plans,      \* paid subscription plans
  Orders,     \* Razorpay order ids
  Workers,    \* concurrent requests
  Amounts,    \* what an admin may ask to be refunded
  BundleCourses,  \* the courses an admin asks for when creating a bundle
  NoUser, NoProduct, NoOrder,
  NoCourse,   \* SQL NULL in payments.course_id
  MaxFaults,  \* bound on requests that die half-way and on failed look-ups
  MaxResets   \* bound on how often the settled row of an order is captured again

Products == Courses \cup Bundles \cup Plans

ASSUME LedgerAssumptions ==
  /\ Courses \cap Bundles = {} /\ Courses \cap Plans = {} /\ Bundles \cap Plans = {}
  /\ NoUser \notin Users /\ NoProduct \notin Products /\ NoOrder \notin Orders
  /\ NoCourse \notin Courses
  /\ Amounts \subseteq Nat \ {0}
  /\ BundleCourses \in [Bundles -> SUBSET Courses]
  /\ IsFiniteSet(Workers)
  /\ MaxFaults \in Nat /\ MaxResets \in Nat

VARIABLES
  \* Razorpay (external)
  provider,   \* [Orders -> {"unused", "open", "captured"}]
  hook,       \* payment.captured delivery: "none", "pending", "acked"
  refunds,    \* refunds executed, per order: a set of <<idempotency key, amount>>
  \* payments rows
  status, buyer, product,
  recorded,   \* metadata.refund.amount_paise, 0 before a refund
  \* the other tables
  enr,        \* enrollments, by <<user, course>>
  bundle, items,  \* course_bundles, course_bundle_items
  deleted,    \* courses deleted (payments.course_id ON DELETE SET NULL)
  sub,        \* user_subscriptions, by the order of its checkout
  \* requests
  pc, job, ord, todo, done, amt,
  \* observers
  emitted,    \* payment.succeeded events published, per order
  promised,   \* courses on offer when the order was placed
  settlements,\* committed settlements, per order
  resets,     \* how often a settled row was captured again, per order
  withdrawn,  \* orders of a bundle that was deleted before they were settled
  swallowed,  \* orders a delivery of whose webhook was answered 200 without being read
  faults

rzpVars == <<provider, hook, refunds>>
rowVars == <<status, buyer, product, recorded, promised>>
tableVars == <<enr, bundle, items, deleted, sub>>
reqVars == <<pc, job, ord, todo, done, amt>>
histVars == <<settlements, resets, withdrawn, swallowed>>
vars == <<rzpVars, rowVars, tableVars, reqVars, emitted, histVars, faults>>

Statuses == {"absent", "created", "paid", "captured", "refunded"}
PCs == {"idle", "insert", "settle", "notify", "refund", "patch", "activate"}

TypeOK ==
  /\ provider \in [Orders -> {"unused", "open", "captured"}]
  /\ hook \in [Orders -> {"none", "pending", "acked"}]
  /\ refunds \in [Orders -> SUBSET ((Orders \cup Workers) \X Amounts)]
  /\ status \in [Orders -> Statuses]
  /\ buyer \in [Orders -> Users \cup {NoUser}]
  /\ product \in [Orders -> Products \cup {NoProduct}]
  /\ recorded \in [Orders -> Amounts \cup {0}]
  /\ promised \in [Orders -> SUBSET Courses]
  /\ enr \in [Users \X Courses -> {"absent", "null", "active"}]
  /\ bundle \in [Bundles -> {"absent", "active", "paused", "deleted"}]
  /\ items \in [Bundles -> SUBSET Courses]
  /\ deleted \subseteq Courses
  /\ sub \in [Orders -> {"absent", "pending", "active"}]
  /\ pc \in [Workers -> PCs]
  /\ job \in [Workers -> {"none", "verify", "bundle", "webhook"}]
  /\ ord \in [Workers -> Orders \cup {NoOrder}]
  /\ todo \in [Workers -> SUBSET (Courses \cup {NoCourse})]
  /\ done \in [Workers -> SUBSET Courses]
  /\ amt \in [Workers -> Amounts \cup {0}]
  /\ emitted \in [Orders -> Nat]
  /\ settlements \in [Orders -> Nat]
  /\ resets \in [Orders -> 0..MaxResets]
  /\ withdrawn \subseteq Orders /\ swallowed \subseteq Orders
  /\ faults \in 0..MaxFaults

Init ==
  /\ provider = [o \in Orders |-> "unused"]
  /\ hook = [o \in Orders |-> "none"]
  /\ refunds = [o \in Orders |-> {}]
  /\ status = [o \in Orders |-> "absent"]
  /\ buyer = [o \in Orders |-> NoUser]
  /\ product = [o \in Orders |-> NoProduct]
  /\ recorded = [o \in Orders |-> 0]
  /\ promised = [o \in Orders |-> {}]
  /\ enr = [uc \in Users \X Courses |-> "absent"]
  /\ bundle = [b \in Bundles |-> "absent"]
  /\ items = [b \in Bundles |-> {}]
  /\ deleted = {}
  /\ sub = [o \in Orders |-> "absent"]
  /\ pc = [w \in Workers |-> "idle"]
  /\ job = [w \in Workers |-> "none"]
  /\ ord = [w \in Workers |-> NoOrder]
  /\ todo = [w \in Workers |-> {}]
  /\ done = [w \in Workers |-> {}]
  /\ amt = [w \in Workers |-> 0]
  /\ emitted = [o \in Orders |-> 0]
  /\ settlements = [o \in Orders |-> 0]
  /\ resets = [o \in Orders |-> 0]
  /\ withdrawn = {} /\ swallowed = {}
  /\ faults = 0

-----------------------------------------------------------------------------
(* Rows and locks *)

\* payments.course_id of the row: NULL for bundles and plans, and once the course is gone.
CourseId(o) == IF product[o] \in Courses \ deleted THEN product[o] ELSE NoCourse

\* Mutant of RowLocked: the row is read without FOR UPDATE.
RowUnlocked(o) == FALSE

Settled(o) == status[o] \in {"paid", "refunded"}

\* The row is held FOR UPDATE by an open settlement transaction.
RowLocked(o) == \E w \in Workers : pc[w] = "settle" /\ ord[w] = o

\* Another open transaction has upserted this enrollment row and not committed.
EnrollmentLocked(w, u, c) ==
  \E v \in Workers \ {w} : pc[v] = "settle" /\ buyer[ord[v]] = u /\ c \in done[v]

HasUserBoughtCourse(u, c) ==
  \E o \in Orders : buyer[o] = u /\ product[o] = c /\ status[o] = "paid"

\* The request is over: its goroutine keeps nothing.
Return(w) ==
  /\ pc' = [pc EXCEPT ![w] = "idle"]
  /\ job' = [job EXCEPT ![w] = "none"]
  /\ ord' = [ord EXCEPT ![w] = NoOrder]
  /\ todo' = [todo EXCEPT ![w] = {}]
  /\ done' = [done EXCEPT ![w] = {}]
  /\ amt' = [amt EXCEPT ![w] = 0]

-----------------------------------------------------------------------------
(* Placing an order: the Razorpay order first, the payments row after it *)

\* A fresh Razorpay order for product p of user u, held by request w.
CreateOrder(w, u, p, o) ==
  /\ pc[w] = "idle"
  /\ provider[o] = "unused"
  /\ provider' = [provider EXCEPT ![o] = "open"]
  /\ buyer' = [buyer EXCEPT ![o] = u]
  /\ product' = [product EXCEPT ![o] = p]
  /\ pc' = [pc EXCEPT ![w] = "insert"]
  /\ ord' = [ord EXCEPT ![w] = o]
  /\ UNCHANGED <<hook, refunds, status, recorded, promised, enr, bundle, items,
                 deleted, job, todo, done, amt, emitted, histVars, faults>>

BuyCourse(w, u, c, o) ==
  /\ c \notin deleted
  /\ ~ HasUserBoughtCourse(u, c)
  /\ CreateOrder(w, u, c, o)
  /\ UNCHANGED sub

BuyBundle(w, u, b, o) ==
  /\ bundle[b] = "active"
  /\ CreateOrder(w, u, b, o)
  /\ UNCHANGED sub

\* The pending subscription is inserted before the Razorpay order is asked for.
StartCheckout(w, u, p, o) ==
  /\ CreateOrder(w, u, p, o)
  /\ sub' = [sub EXCEPT ![o] = "pending"]

\* The INSERT.  The foreign key rejects a course deleted in the meantime.
InsertOrder(w) ==
  LET o == ord[w]
      p == product[o]
  IN /\ pc[w] = "insert"
     /\ p \notin deleted
     /\ status' = [status EXCEPT ![o] = "created"]
     /\ promised' = [promised EXCEPT ![o] =
                       IF p \in Courses THEN {p}
                       ELSE IF p \in Bundles THEN items[p] ELSE {}]
     /\ Return(w)
     /\ UNCHANGED <<rzpVars, buyer, product, recorded, tableVars, emitted, histVars, faults>>

\* The customer completes the checkout with the order id Buy returned.
CustomerPays(o) ==
  /\ provider[o] = "open" /\ status[o] # "absent"
  /\ provider' = [provider EXCEPT ![o] = "captured"]
  /\ hook' = [hook EXCEPT ![o] = "pending"]
  /\ UNCHANGED <<refunds, rowVars, tableVars, reqVars, emitted, histVars, faults>>

-----------------------------------------------------------------------------
(* Settling an order *)

\* Mutant of Settle: the status check forgets 'refunded'.
SettleRefunded(w, o, j, cs) ==
  /\ pc[w] = "idle"
  /\ ~ RowLocked(o)
  /\ status[o] \notin {"absent", "paid"}
  /\ pc' = [pc EXCEPT ![w] = "settle"]
  /\ job' = [job EXCEPT ![w] = j]
  /\ ord' = [ord EXCEPT ![w] = o]
  /\ todo' = [todo EXCEPT ![w] = cs]
  /\ UNCHANGED <<rzpVars, rowVars, tableVars, done, amt, emitted, histVars, faults>>

\* Lock the row, find it unsettled, mark it paid, and have courses cs to enroll into.
Settle(w, o, j, cs) ==
  /\ pc[w] = "idle"
  /\ ~ RowLocked(o)
  /\ status[o] \notin {"absent", "paid", "refunded"}
  /\ pc' = [pc EXCEPT ![w] = "settle"]
  /\ job' = [job EXCEPT ![w] = j]
  /\ ord' = [ord EXCEPT ![w] = o]
  /\ todo' = [todo EXCEPT ![w] = cs]
  /\ UNCHANGED <<rzpVars, rowVars, tableVars, done, amt, emitted, histVars, faults>>

\* Mutant of Verify: the signature is not checked.
VerifyUnsigned(w, o) ==
  /\ Settle(w, o, "verify", {CourseId(o)})

\* The signature is one Razorpay hands out for a captured payment.
Verify(w, o) ==
  /\ provider[o] = "captured"
  /\ Settle(w, o, "verify", {CourseId(o)})

VerifyBundle(w, o) ==
  /\ provider[o] = "captured"
  /\ product[o] \in Bundles
  /\ Settle(w, o, "bundle", items[product[o]])

\* A delivery of payment.captured; a duplicate may come after the first was answered.
Webhook(w, o) ==
  /\ hook[o] # "none"
  /\ Settle(w, o, "webhook", {CourseId(o)})

\* Mutant of WebhookSkip: the delivery is answered 200 before the order is settled.
WebhookSkipUnsettled(o) ==
  /\ hook[o] = "pending"
  /\ ~ RowLocked(o)
  /\ status[o] # "absent"
  /\ hook' = [hook EXCEPT ![o] = "acked"]
  /\ UNCHANGED <<provider, refunds, rowVars, tableVars, reqVars, emitted, histVars, faults>>

\* The delivery finds the order settled and is answered 200.
WebhookSkip(o) ==
  /\ hook[o] = "pending"
  /\ ~ RowLocked(o)
  /\ status[o] \in {"paid", "refunded"}
  /\ hook' = [hook EXCEPT ![o] = "acked"]
  /\ UNCHANGED <<provider, refunds, rowVars, tableVars, reqVars, emitted, histVars, faults>>

\* The locked SELECT fails for whatever reason (a lost connection, a timeout): the handler
\* takes it for an order that is not its own and answers 200, so there is no next delivery.
WebhookLookupFails(o) ==
  /\ hook[o] = "pending"
  /\ faults < MaxFaults
  /\ faults' = faults + 1
  /\ hook' = [hook EXCEPT ![o] = "acked"]
  /\ swallowed' = swallowed \cup {o}
  /\ UNCHANGED <<provider, refunds, rowVars, tableVars, reqVars, emitted,
                 settlements, resets, withdrawn>>

\* Mutant of Enroll: the loop over the bundle's courses stops after the first.
EnrollFirst(w, c) ==
  /\ pc[w] = "settle"
  /\ c \in todo[w] \ (deleted \cup {NoCourse})
  /\ ~ EnrollmentLocked(w, buyer[ord[w]], c)
  /\ todo' = [todo EXCEPT ![w] = {}]
  /\ done' = [done EXCEPT ![w] = @ \cup {c}]
  /\ UNCHANGED <<rzpVars, rowVars, tableVars, pc, job, ord, amt, emitted, histVars, faults>>

\* CreateEnrollment for one of the courses left; the rows come in no order.
Enroll(w, c) ==
  /\ pc[w] = "settle"
  /\ c \in todo[w] \ (deleted \cup {NoCourse})
  /\ ~ EnrollmentLocked(w, buyer[ord[w]], c)
  /\ todo' = [todo EXCEPT ![w] = @ \ {c}]
  /\ done' = [done EXCEPT ![w] = @ \cup {c}]
  /\ UNCHANGED <<rzpVars, rowVars, tableVars, pc, job, ord, amt, emitted, histVars, faults>>

\* CreateEnrollment violates NOT NULL or the foreign key: rollback, 4xx/5xx.
EnrollRejected(w) ==
  /\ pc[w] = "settle"
  /\ todo[w] \cap (deleted \cup {NoCourse}) # {}
  /\ Return(w)
  /\ UNCHANGED <<rzpVars, rowVars, tableVars, emitted, histVars, faults>>

\* Workers waiting for each other's enrollment rows; the database aborts one.
Deadlocked(w) ==
  \E S \in SUBSET Workers :
    /\ w \in S
    /\ \A v \in S :
         /\ pc[v] = "settle" /\ todo[v] # {}
         /\ \A c \in todo[v] : \E x \in S \ {v} :
              pc[x] = "settle" /\ buyer[ord[x]] = buyer[ord[v]] /\ c \in done[x]

DeadlockVictim(w) ==
  /\ Deadlocked(w)
  /\ Return(w)
  /\ UNCHANGED <<rzpVars, rowVars, tableVars, emitted, histVars, faults>>

\* The status column the settlement leaves in the enrollment: the parameter is not set.
SettledEnrollment == "null"

\* Mutant of Commit: the order is marked paid outside the enrollment's transaction.
CommitEarly(w) ==
  /\ pc[w] = "settle"
  /\ status' = [status EXCEPT ![ord[w]] = "paid"]
  /\ settlements' = [settlements EXCEPT ![ord[w]] = @ + 1]
  /\ Return(w)
  /\ UNCHANGED <<rzpVars, buyer, product, recorded, promised, tableVars, emitted,
                 resets, withdrawn, swallowed, faults>>

Commit(w) ==
  LET o == ord[w]
      u == buyer[o]
  IN /\ pc[w] = "settle" /\ todo[w] = {}
     /\ status' = [status EXCEPT ![o] = "paid"]
     /\ settlements' = [settlements EXCEPT ![o] = @ + 1]
     /\ enr' = [uc \in Users \X Courses |->
                  IF uc[1] = u /\ uc[2] \in done[w] THEN SettledEnrollment ELSE enr[uc]]
     /\ IF job[w] = "webhook"
        THEN /\ hook' = [hook EXCEPT ![o] = "acked"]
             /\ Return(w)
        ELSE /\ pc' = [pc EXCEPT ![w] = "notify"]
             /\ done' = [done EXCEPT ![w] = {}]
             /\ UNCHANGED <<hook, job, ord, todo, amt>>
     /\ UNCHANGED <<provider, refunds, buyer, product, recorded, promised,
                    bundle, items, deleted, sub, emitted, resets, withdrawn, swallowed, faults>>

\* After the commit, best effort: the purchase event (and the referral reward).
Notify(w) ==
  /\ pc[w] = "notify"
  /\ emitted' = [emitted EXCEPT ![ord[w]] = @ + 1]
  /\ Return(w)
  /\ UNCHANGED <<rzpVars, rowVars, tableVars, histVars, faults>>

-----------------------------------------------------------------------------
(* Subscriptions and installments: the same rows, no transaction, and no check of *)
(* the row's status or of what it was paid for                                    *)

\* UpdatePaymentStatus: the row of a captured payment, whatever it was before.
MarkCaptured(o) ==
  /\ provider[o] = "captured"
  /\ status[o] # "absent" /\ ~ RowLocked(o)
  /\ status' = [status EXCEPT ![o] = "captured"]
  /\ IF Settled(o)
     THEN resets[o] < MaxResets /\ resets' = [resets EXCEPT ![o] = @ + 1]
     ELSE UNCHANGED resets

\* Any order of the user; one without a subscription is answered with an error, afterwards.
VerifyCheckout(w, o) ==
  /\ pc[w] = "idle"
  /\ MarkCaptured(o)
  /\ IF product[o] \in Plans
     THEN /\ pc' = [pc EXCEPT ![w] = "activate"]
          /\ ord' = [ord EXCEPT ![w] = o]
     ELSE UNCHANGED <<pc, ord>>
  /\ UNCHANGED <<rzpVars, buyer, product, recorded, promised, tableVars, job, todo, done, amt,
                 emitted, settlements, withdrawn, swallowed, faults>>

\* Any order of the user, next to the id of an installment (which Fees marks paid).
VerifyInstallmentPayment(o) ==
  /\ MarkCaptured(o)
  /\ UNCHANGED <<rzpVars, buyer, product, recorded, promised, tableVars, reqVars,
                 emitted, settlements, withdrawn, swallowed, faults>>

ActivateSubscription(w) ==
  /\ pc[w] = "activate"
  /\ sub' = [sub EXCEPT ![ord[w]] = "active"]
  /\ Return(w)
  /\ UNCHANGED <<rzpVars, rowVars, enr, bundle, items, deleted, emitted, histVars, faults>>

-----------------------------------------------------------------------------
(* Refunds: read the row, ask Razorpay, patch the row *)

IssueRefund(w, o, a) ==
  /\ pc[w] = "idle"
  /\ status[o] = "paid"
  /\ pc' = [pc EXCEPT ![w] = "refund"]
  /\ ord' = [ord EXCEPT ![w] = o]
  /\ amt' = [amt EXCEPT ![w] = a]
  /\ UNCHANGED <<rzpVars, rowVars, tableVars, job, todo, done, emitted, histVars, faults>>

\* Mutant of IdempotencyKey: a fresh key for every request.
RequestKey(w) == w

\* The Idempotency-Key header: the payment row's id.
IdempotencyKey(w) == ord[w]

\* Razorpay answers a repeated key with the refund it already made.
CreateRefund(w) ==
  LET o == ord[w]
      earlier == {r \in refunds[o] : r[1] = IdempotencyKey(w)}
  IN /\ pc[w] = "refund"
     /\ IF earlier = {}
        THEN /\ refunds' = [refunds EXCEPT ![o] = @ \cup {<<IdempotencyKey(w), amt[w]>>}]
             /\ UNCHANGED amt
        ELSE /\ \E r \in earlier : amt' = [amt EXCEPT ![w] = r[2]]
             /\ UNCHANGED refunds
     /\ pc' = [pc EXCEPT ![w] = "patch"]
     /\ UNCHANGED <<provider, hook, rowVars, tableVars, job, ord, todo, done, emitted, histVars, faults>>

MarkPaymentRefunded(w) ==
  LET o == ord[w]
  IN /\ pc[w] = "patch"
     /\ ~ RowLocked(o)
     /\ status' = [status EXCEPT ![o] = "refunded"]
     /\ recorded' = [recorded EXCEPT ![o] = amt[w]]
     /\ Return(w)
     /\ UNCHANGED <<rzpVars, buyer, product, promised, tableVars, emitted, histVars, faults>>

-----------------------------------------------------------------------------
(* The tables around *)

\* POST /enrollments: a free or manual enrollment, one upsert.
EnrollDirect(u, c) ==
  /\ c \notin deleted
  /\ \A w \in Workers : ~ (pc[w] = "settle" /\ buyer[ord[w]] = u /\ c \in done[w])
  /\ enr' = [enr EXCEPT ![<<u, c>>] = "active"]
  /\ UNCHANGED <<rzpVars, rowVars, bundle, items, deleted, sub, reqVars, emitted, histVars, faults>>

AdminCreateBundle(b) ==
  /\ bundle[b] = "absent"
  /\ bundle' = [bundle EXCEPT ![b] = "active"]
  /\ UNCHANGED <<rzpVars, rowVars, enr, items, deleted, sub, reqVars, emitted, histVars, faults>>

\* AdminCreate adds its courses one by one after the row and ignores failures.
AddCourseToBundle(b, c) ==
  /\ bundle[b] \in {"active", "paused"}
  /\ c \in BundleCourses[b] \ (items[b] \cup deleted)
  /\ items' = [items EXCEPT ![b] = @ \cup {c}]
  /\ UNCHANGED <<rzpVars, rowVars, enr, bundle, deleted, sub, reqVars, emitted, histVars, faults>>

AdminSetActive(b, s) ==
  /\ bundle[b] \in {"active", "paused"} \ {s}
  /\ bundle' = [bundle EXCEPT ![b] = s]
  /\ UNCHANGED <<rzpVars, rowVars, enr, items, deleted, sub, reqVars, emitted, histVars, faults>>

\* The item rows go with the bundle (ON DELETE CASCADE), and orders are not looked at.
AdminDeleteBundle(b) ==
  /\ bundle[b] \in {"active", "paused"}
  /\ bundle' = [bundle EXCEPT ![b] = "deleted"]
  /\ items' = [items EXCEPT ![b] = {}]
  /\ withdrawn' = withdrawn \cup
       {o \in Orders : product[o] = b /\ status[o] # "absent" /\ settlements[o] = 0}
  /\ UNCHANGED <<rzpVars, rowVars, enr, deleted, sub, reqVars, emitted,
                 settlements, resets, swallowed, faults>>

\* Cascades to enrollments and bundle items and nulls payments.course_id, so it
\* waits for transactions that hold such a payments row or enrollment row.
DeleteCourse(c) ==
  /\ c \notin deleted
  /\ \A w \in Workers : pc[w] = "settle" => product[ord[w]] # c /\ c \notin done[w]
  /\ deleted' = deleted \cup {c}
  /\ enr' = [uc \in Users \X Courses |-> IF uc[2] = c THEN "absent" ELSE enr[uc]]
  /\ items' = [b \in Bundles |-> items[b] \ {c}]
  /\ UNCHANGED <<rzpVars, rowVars, bundle, sub, reqVars, emitted, histVars, faults>>

\* The request dies where it is (crash, lost connection, failed call); an open transaction
\* is rolled back, and a webhook that has its row is not answered with 200.
Fail(w) ==
  /\ pc[w] # "idle"
  /\ faults < MaxFaults
  /\ faults' = faults + 1
  /\ Return(w)
  /\ UNCHANGED <<rzpVars, rowVars, tableVars, emitted, histVars>>

-----------------------------------------------------------------------------

Place(w, u, o) ==
  \/ \E c \in Courses : BuyCourse(w, u, c, o)
  \/ \E b \in Bundles : BuyBundle(w, u, b, o)
  \/ \E p \in Plans : StartCheckout(w, u, p, o)

\* What a request that has begun does next.
Continue(w) ==
  \/ InsertOrder(w)
  \/ \E c \in Courses : Enroll(w, c)
  \/ EnrollRejected(w) \/ DeadlockVictim(w) \/ Commit(w) \/ Notify(w)
  \/ ActivateSubscription(w)
  \/ CreateRefund(w) \/ MarkPaymentRefunded(w)

Request(w, o) ==
  \/ \E u \in Users : Place(w, u, o)
  \/ Verify(w, o) \/ VerifyBundle(w, o) \/ Webhook(w, o) \/ VerifyCheckout(w, o)
  \/ \E a \in Amounts : IssueRefund(w, o, a)

Admin ==
  \/ \E u \in Users, c \in Courses : EnrollDirect(u, c)
  \/ \E b \in Bundles : AdminCreateBundle(b) \/ AdminDeleteBundle(b)
  \/ \E b \in Bundles, c \in Courses : AddCourseToBundle(b, c)
  \/ \E b \in Bundles, s \in {"active", "paused"} : AdminSetActive(b, s)
  \/ \E c \in Courses : DeleteCourse(c)

Next ==
  \/ \E w \in Workers, o \in Orders : Request(w, o)
  \/ \E w \in Workers : Continue(w) \/ Fail(w)
  \/ \E o \in Orders :
       \/ CustomerPays(o) \/ VerifyInstallmentPayment(o)
       \/ WebhookSkip(o) \/ WebhookLookupFails(o)
  \/ Admin

Spec == Init /\ [][Next]_vars
-----------------------------------------------------------------------------
(* Correctness *)

\* An order that was settled has given its buyer an enrollment row for every course that
\* was on offer when it was placed and still exists, however verify calls, webhooks,
\* refunds and resets of the row interleaved (courseorders.Verify: 'No more "paid but not
\* enrolled" silent gap').  The exception is an order of a bundle that was deleted between
\* the order and its settlement: it is settled all the same and gives nothing at all.
PaidImpliesEnrolled ==
  \A o \in Orders : settlements[o] > 0 /\ o \notin withdrawn =>
    \A c \in promised[o] \ deleted : enr[<<buyer[o], c>>] # "absent"

\* An enrollment row made by a settlement is backed by a captured payment of that user
\* for the course or for a bundle sold with it: nothing short of a capture grants access.
EnrollmentBacked ==
  \A u \in Users, c \in Courses : enr[<<u, c>>] = "null" =>
    \E o \in Orders :
      /\ buyer[o] = u /\ provider[o] = "captured" /\ status[o] # "created"
      /\ product[o] = c \/ (product[o] \in Bundles /\ c \in BundleCourses[product[o]])

\* However often verify is repeated and the webhook redelivered, the purchase is
\* announced (and the referral rewarded) once for the order and once more for every time
\* the verify call of a subscription or an installment has captured the settled row again,
\* at the most: a row nobody resets is announced at most once.
AnnouncedPerSettlement == \A o \in Orders : emitted[o] <= 1 + resets[o]

\* Razorpay executes at most one refund of an order, only of an order that was settled, and
\* the amount kept in the row is the amount refunded: also when two admins ask for
\* different amounts, a request dies between Razorpay and the row, or the refunded row is
\* captured, settled and refunded again.
RefundsAgree ==
  \A o \in Orders :
    /\ \A r, s \in refunds[o] : r = s
    /\ refunds[o] # {} => settlements[o] > 0
    /\ status[o] = "refunded" => recorded[o] # 0
    /\ recorded[o] # 0 => \E r \in refunds[o] : r[2] = recorded[o]

\* The table implements the order lifecycle: created -> paid -> refunded, and the way back
\* to captured which the verify calls of subscriptions and installments leave open.
Lifecycle ==
  INSTANCE OrderLifecycle WITH stage <- status, settled <- settlements, announced <- emitted

LifecycleSpec == Lifecycle!Spec

-----------------------------------------------------------------------------
(* Progress.  A request that has begun runs on, the database hands a lock to   *)
(* whoever waits for it, and Razorpay delivers an unanswered webhook again.    *)

Deliver(o) ==
  /\ hook[o] = "pending"
  /\ WebhookSkip(o) \/ \E w \in Workers : Webhook(w, o)

Fairness ==
  /\ \A w \in Workers : WF_vars(Continue(w))
  /\ \A w \in Workers, c \in Courses : SF_vars(Enroll(w, c))
  /\ \A o \in Orders : SF_vars(Deliver(o))

LiveSpec == Spec /\ Fairness

\* A captured course order is settled in the end even if the client never calls verify
\* and requests die on the way, unless the course itself is deleted first or the webhook's
\* look-up of the row failed once: that delivery is answered 200 and was the last.
CapturedCourseSettles ==
  \A o \in Orders :
    (provider[o] = "captured" /\ product[o] \in Courses)
      ~> (settlements[o] > 0 \/ product[o] \in deleted \/ o \in swallowed)

-----------------------------------------------------------------------------
(* What the code's comments and schema say and the code does not do *)

\* coursebundles.Verify: a failed settlement is completed by "a retry (client verify or
\* webhook)", so a captured bundle order is settled even if the client never comes back.
CapturedBundleSettles ==
  \A o \in Orders : (provider[o] = "captured" /\ product[o] \in Bundles) ~> Settled(o)
=============================================================================
