------------------------ MODULE PaymentLedgerProofs ------------------------
(***************************************************************************)
(* Proofs about PaymentLedger for every number of users, products, orders, *)
(* concurrent requests and faults.                                         *)
(***************************************************************************)
EXTENDS PaymentLedger, FiniteSetTheorems, TLAPS

(***************************************************************************)
(* The inductive invariant.  Each part says what a request may rely on at  *)
(* the point where it waits.                                               *)
(***************************************************************************)

\* A row belongs to an order Razorpay knows, with its buyer and product; money and
\* webhooks come after the row; and a row was settled once more than it was reset, at most.
RowInv ==
  \A o \in Orders :
    /\ provider[o] # "unused" => buyer[o] \in Users /\ product[o] \in Products
    /\ provider[o] = "unused" => status[o] = "absent"
    /\ provider[o] = "captured" => status[o] # "absent"
    /\ hook[o] # "none" => provider[o] = "captured"
    /\ status[o] \notin {"absent", "created"} => provider[o] = "captured"
    /\ Settled(o) => settlements[o] > 0
    /\ settlements[o] > 0 => status[o] \notin {"absent", "created"} /\ product[o] \notin Plans
    /\ settlements[o] <= resets[o] + (IF Settled(o) THEN 1 ELSE 0)

\* A request under way has an order Razorpay knows; between Razorpay's order and its own
\* INSERT it owns an order without a row.
RequestInv ==
  \A w \in Workers :
    /\ pc[w] # "idle" => ord[w] \in Orders /\ provider[ord[w]] # "unused"
    /\ pc[w] # "settle" => done[w] = {}
    /\ pc[w] = "insert" =>
         /\ status[ord[w]] = "absent"
         /\ provider[ord[w]] = "open"
         /\ \A v \in Workers : pc[v] = "insert" /\ ord[v] = ord[w] => v = w

\* Settlements of one order exclude each other, and one that could not have come from
\* a course or a bundle still has the NULL course in front of it.
SettleInv ==
  \A w \in Workers : pc[w] = "settle" =>
    /\ provider[ord[w]] = "captured"
    /\ status[ord[w]] \in {"created", "captured"}
    /\ \A v \in Workers : pc[v] = "settle" /\ ord[v] = ord[w] => v = w
    /\ product[ord[w]] \in Plans => NoCourse \in todo[w]

\* The requests that have committed a settlement of o and not yet announced it.
Owing(o) == {w \in Workers : pc[w] = "notify" /\ ord[w] = o}

\* Every settlement is announced already, owed by one request, or lost with its request.
OwedInv == \A o \in Orders : emitted[o] + Cardinality(Owing(o)) <= settlements[o]

\* Every refund carries the row's own key, and a request past Razorpay knows it.
RefundInv ==
  /\ \A o \in Orders : \A r \in refunds[o] : r[1] = o
  /\ \A w \in Workers : pc[w] \in {"refund", "patch"} => 
       amt[w] \in Amounts /\ settlements[ord[w]] > 0
  /\ \A w \in Workers : pc[w] = "patch" => \E r \in refunds[ord[w]] : r[2] = amt[w]

\* What was on offer is still on the list a settlement works through, or behind it.
PromiseInv ==
  /\ \A o \in Orders : status[o] # "absent" =>
       /\ product[o] \in Courses => promised[o] = {product[o]}
       /\ product[o] \in Bundles /\ o \notin withdrawn /\ settlements[o] = 0 =>
            promised[o] \ deleted \subseteq items[product[o]]
       /\ product[o] \in Plans => promised[o] = {}
  /\ \A w \in Workers : pc[w] = "settle" =>
       /\ done[w] \cap deleted = {}
       /\ NoCourse \notin todo[w] /\ ord[w] \notin withdrawn /\ settlements[ord[w]] = 0 =>
            promised[ord[w]] \ deleted \subseteq todo[w] \cup done[w]

\* The course is the product of the order or among those its bundle was created for.
Sells(p, c) == p = c \/ (p \in Bundles /\ c \in BundleCourses[p])

BackedInv ==
  /\ \A b \in Bundles : items[b] \subseteq BundleCourses[b]
  /\ \A w \in Workers : pc[w] = "settle" =>
       \A c \in Courses : c \in todo[w] \cup done[w] => Sells(product[ord[w]], c)

IInv ==
  /\ TypeOK
  /\ RowInv /\ RequestInv /\ SettleInv /\ OwedInv /\ RefundInv /\ PromiseInv /\ BackedInv
  /\ PaidImpliesEnrolled /\ EnrollmentBacked /\ RefundsAgree
-----------------------------------------------------------------------------
(* Every step preserves the inductive invariant *)

\* A product is of one kind.
LEMMA KindsDisjoint ==
  \A p : /\ p \in Courses => p \notin Bundles /\ p \notin Plans
         /\ p \in Bundles => p \notin Courses /\ p \notin Plans
  BY LedgerAssumptions

\* Who owes an announcement is a finite set, whatever they owe.
LEMMA OwingFinite ==
  \A o : IsFiniteSet(Owing(o)) /\ Cardinality(Owing(o)) \in Nat
<1> TAKE o
<1>1. Owing(o) \subseteq Workers
  BY DEF Owing
<1>2. IsFiniteSet(Owing(o))
  BY <1>1, LedgerAssumptions, FS_Subset
<1> QED
  BY <1>2, FS_CardinalityType

\* A step after which nobody owes an announcement who did not owe it before.
LEMMA OwedKept ==
  ASSUME IInv, TypeOK',
         \A w \in Workers : pc'[w] = "notify" => pc[w] = "notify" /\ ord'[w] = ord[w],
         UNCHANGED emitted,
         \A o \in Orders : settlements[o] <= settlements'[o]
  PROVE  OwedInv'
<1> SUFFICES ASSUME NEW o \in Orders
             PROVE  emitted'[o] + Cardinality(Owing(o)') <= settlements'[o]
  BY DEF OwedInv
<1>1. Owing(o)' \subseteq Owing(o)
  BY DEF Owing
<1>2. IsFiniteSet(Owing(o)') /\ Cardinality(Owing(o)') <= Cardinality(Owing(o))
  BY <1>1, OwingFinite, FS_Subset
<1>3. IsFiniteSet(Owing(o)') => Cardinality(Owing(o)') \in Nat
  BY FS_CardinalityType
<1>4. emitted[o] + Cardinality(Owing(o)) <= settlements[o]
  BY DEF IInv, OwedInv
<1>5. emitted[o] \in Nat /\ settlements[o] \in Nat /\ settlements'[o] \in Nat
  BY DEF IInv, TypeOK
<1> QED
  BY <1>2, <1>3, <1>4, <1>5, OwingFinite

\* Steps that touch neither Razorpay, nor the payments rows, nor a request.
LEMMA TablesOnly ==
  ASSUME IInv, UNCHANGED <<rzpVars, rowVars, reqVars, emitted, settlements, resets>>
  PROVE  RowInv' /\ RequestInv' /\ SettleInv' /\ OwedInv' /\ RefundInv' /\ RefundsAgree'
<1> USE DEF IInv, rzpVars, rowVars, reqVars, Settled
<1>1. RowInv' /\ RequestInv' /\ SettleInv'
  BY DEF RowInv, RequestInv, SettleInv
<1>2. OwedInv'
  BY DEF OwedInv, Owing
<1>3. RefundInv' /\ RefundsAgree'
  BY DEF RefundInv, RefundsAgree
<1> QED
  BY <1>1, <1>2, <1>3

\* A fresh Razorpay order: nobody refers to it yet.
LEMMA PlaceStep ==
  ASSUME IInv, NEW w \in Workers, NEW u \in Users, NEW p \in Products, NEW o \in Orders,
         CreateOrder(w, u, p, o), sub' = sub \/ sub' = [sub EXCEPT ![o] = "pending"]
  PROVE  IInv'
<1> USE LedgerAssumptions DEF IInv, CreateOrder, rzpVars, rowVars, tableVars, reqVars, histVars
<1>1. TypeOK'
  <2>1. sub' \in [Orders -> {"absent", "pending", "active"}]
    BY DEF TypeOK
  <2>2. /\ provider' \in [Orders -> {"unused", "open", "captured"}]
        /\ buyer' \in [Orders -> Users \cup {NoUser}]
        /\ product' \in [Orders -> Products \cup {NoProduct}]
        /\ pc' \in [Workers -> PCs]
        /\ ord' \in [Workers -> Orders \cup {NoOrder}]
    BY DEF TypeOK, PCs
  <2> QED
    BY <2>1, <2>2 DEF TypeOK
<1>2. RowInv'
  BY <1>1 DEF TypeOK, RowInv, Settled
<1>3. RequestInv'
  BY <1>1 DEF TypeOK, RequestInv, RowInv
<1>4. SettleInv'
  BY <1>1 DEF TypeOK, SettleInv, RequestInv
<1>5. OwedInv'
  BY <1>1, OwedKept DEF TypeOK
<1>6. RefundInv'
  BY <1>1 DEF TypeOK, RefundInv, RequestInv, Settled, RowInv
<1>7. PromiseInv'
  BY <1>1 DEF TypeOK, PromiseInv, RequestInv, RowInv, SettleInv
<1>8. BackedInv'
  BY <1>1 DEF TypeOK, BackedInv, RequestInv, Sells, SettleInv
<1>9. PaidImpliesEnrolled'
  BY <1>1 DEF TypeOK, PaidImpliesEnrolled, Settled, RowInv
<1>10. EnrollmentBacked'
  BY <1>1 DEF TypeOK, EnrollmentBacked
<1>11. RefundsAgree'
  BY <1>1 DEF TypeOK, RefundsAgree, Settled
<1> QED
  BY <1>1, <1>2, <1>3, <1>4, <1>5, <1>6, <1>7, <1>8, <1>9, <1>10, <1>11

\* The row of the order the request owns, with what is on offer now.
LEMMA InsertStep ==
  ASSUME IInv, NEW w \in Workers, InsertOrder(w)
  PROVE  IInv'
<1> USE LedgerAssumptions DEF IInv, InsertOrder, Return, rzpVars, rowVars, tableVars, reqVars, histVars
<1>1. TypeOK'
  BY DEF TypeOK, RequestInv, Products, Statuses, PCs
<1>2. RowInv'
  BY <1>1 DEF TypeOK, RowInv, Settled, RequestInv
<1>3. RequestInv'
  BY <1>1 DEF TypeOK, RequestInv
<1>4. SettleInv'
  BY <1>1 DEF TypeOK, SettleInv, RequestInv
<1>5. OwedInv'
  BY <1>1, OwedKept DEF TypeOK
<1>6. RefundInv'
  <2>1. \A v \in Workers : pc[v] \in {"refund", "patch"} => ord[v] # ord[w]
    BY DEF TypeOK, RequestInv, RefundInv, RowInv
  <2> QED
    BY <1>1, <2>1 DEF TypeOK, RefundInv, RequestInv, Settled
<1>7. PromiseInv'
  BY <1>1 DEF TypeOK, PromiseInv, RequestInv, RowInv, SettleInv, Products
<1>8. BackedInv'
  BY <1>1 DEF TypeOK, BackedInv, RequestInv, Sells
<1>9. PaidImpliesEnrolled'
  <2>1. ord[w] \in Orders /\ settlements[ord[w]] = 0
    BY DEF TypeOK, RequestInv, RowInv
  <2> QED
    BY <2>1 DEF TypeOK, PaidImpliesEnrolled
<1>10. EnrollmentBacked'
  BY <1>1 DEF TypeOK, EnrollmentBacked, RowInv, RequestInv
<1>11. RefundsAgree'
  BY <1>1 DEF TypeOK, RefundsAgree, Settled, RequestInv
<1> QED
  BY <1>1, <1>2, <1>3, <1>4, <1>5, <1>6, <1>7, <1>8, <1>9, <1>10, <1>11

\* The payment is captured and its webhook scheduled.
LEMMA PaysStep ==
  ASSUME IInv, NEW o \in Orders, CustomerPays(o)
  PROVE  IInv'
<1> USE LedgerAssumptions DEF IInv, CustomerPays, rzpVars, rowVars, tableVars, reqVars, histVars
<1>1. TypeOK'
  BY DEF TypeOK, RequestInv, Products, Statuses, PCs
<1>2. RowInv'
  BY <1>1 DEF TypeOK, RowInv, Settled
<1>3. RequestInv'
  BY <1>1 DEF TypeOK, RequestInv
<1>4. SettleInv'
  BY <1>1 DEF TypeOK, SettleInv, RequestInv
<1>5. OwedInv'
  BY <1>1, OwedKept DEF TypeOK
<1>6. RefundInv'
  BY <1>1 DEF TypeOK, RefundInv, RequestInv, Settled
<1>7. PromiseInv'
  BY <1>1 DEF TypeOK, PromiseInv, RequestInv
<1>8. BackedInv'
  BY <1>1 DEF TypeOK, BackedInv, RequestInv, Sells
<1>9. PaidImpliesEnrolled'
  BY <1>1 DEF TypeOK, PaidImpliesEnrolled, Settled
<1>10. EnrollmentBacked'
  BY <1>1 DEF TypeOK, EnrollmentBacked
<1>11. RefundsAgree'
  BY <1>1 DEF TypeOK, RefundsAgree, Settled
<1> QED
  BY <1>1, <1>2, <1>3, <1>4, <1>5, <1>6, <1>7, <1>8, <1>9, <1>10, <1>11

\* A settlement takes the row lock; verify, bundle verify and webhook alike.
LEMMA SettleStep ==
  ASSUME IInv, NEW w \in Workers, NEW o \in Orders, NEW j \in {"verify", "bundle", "webhook"}, NEW cs,
         Settle(w, o, j, cs), provider[o] = "captured",
         \/ cs = {CourseId(o)}
         \/ product[o] \in Bundles /\ cs = items[product[o]]
  PROVE  IInv'
<1> USE LedgerAssumptions DEF IInv, Settle, RowLocked, CourseId, rzpVars, rowVars, tableVars, reqVars, histVars
<1>1. TypeOK'
  BY DEF TypeOK, RequestInv, Products, Statuses, PCs
<1>2. RowInv'
  BY <1>1 DEF TypeOK, RowInv, Settled
<1>3. RequestInv'
  BY <1>1 DEF TypeOK, RequestInv
<1>4. SettleInv'
  <2>1. product[o] \in Plans => NoCourse \in cs
    BY KindsDisjoint DEF TypeOK
  <2>2. status[o] \in {"created", "captured"}
    BY DEF TypeOK, Statuses
  <2> QED
    BY <1>1, <2>1, <2>2 DEF TypeOK, SettleInv, RequestInv
<1>5. OwedInv'
  BY <1>1, OwedKept DEF TypeOK
<1>6. RefundInv'
  BY <1>1 DEF TypeOK, RefundInv, RequestInv, Settled
<1>7. PromiseInv'
  <2>1. NoCourse \notin cs /\ o \notin withdrawn /\ settlements[o] = 0 =>
          promised[o] \ deleted \subseteq cs
    <3>1. status[o] # "absent" /\ product[o] \in Products
      BY DEF TypeOK, RowInv
    <3>2. CASE product[o] \in Courses
      BY <3>1, <3>2, KindsDisjoint DEF PromiseInv
    <3>3. CASE product[o] \in Bundles
      BY <3>1, <3>3, KindsDisjoint DEF PromiseInv
    <3>4. CASE product[o] \in Plans
      BY <3>1, <3>4, KindsDisjoint DEF PromiseInv
    <3> QED
      BY <3>1, <3>2, <3>3, <3>4 DEF Products
  <2>2. done[w] \cap deleted = {}
    BY DEF RequestInv
  <2> QED
    BY <1>1, <2>1, <2>2 DEF TypeOK, PromiseInv, RequestInv
<1>8. BackedInv'
  <2>1. \A c \in Courses : c \in cs \cup done[w] => Sells(product[o], c)
    <3>1. done[w] = {}
      BY DEF RequestInv
    <3>2. CASE cs = {CourseId(o)}
      BY <3>1, <3>2, KindsDisjoint DEF Sells
    <3>3. CASE product[o] \in Bundles /\ cs = items[product[o]]
      BY <3>1, <3>3 DEF BackedInv, Sells
    <3> QED
      BY <3>1, <3>2, <3>3
  <2>2. \A b \in Bundles : items'[b] \subseteq BundleCourses[b]
    BY DEF BackedInv
  <2>3. ASSUME NEW v \in Workers, pc'[v] = "settle", NEW c \in Courses,
               c \in todo'[v] \cup done'[v]
        PROVE  Sells(product'[ord'[v]], c)
    <3>1. CASE v = w
      BY <2>1, <2>3, <3>1 DEF TypeOK
    <3>2. CASE v # w
      BY <2>3, <3>2 DEF TypeOK, BackedInv
    <3> QED
      BY <3>1, <3>2
  <2> QED
    BY <2>2, <2>3 DEF BackedInv, Sells
<1>9. PaidImpliesEnrolled'
  BY <1>1 DEF TypeOK, PaidImpliesEnrolled, Settled
<1>10. EnrollmentBacked'
  BY <1>1 DEF TypeOK, EnrollmentBacked
<1>11. RefundsAgree'
  BY <1>1 DEF TypeOK, RefundsAgree, Settled
<1> QED
  BY <1>1, <1>2, <1>3, <1>4, <1>5, <1>6, <1>7, <1>8, <1>9, <1>10, <1>11

\* A webhook is acknowledged, with its order settled or its row not found.
LEMMA WebhookAckedStep ==
  ASSUME IInv, NEW o \in Orders, WebhookSkip(o) \/ WebhookLookupFails(o)
  PROVE  IInv'
<1> USE LedgerAssumptions
    DEF IInv, WebhookSkip, WebhookLookupFails, rzpVars, rowVars, tableVars, reqVars, histVars
<1>1. TypeOK'
  <2>1. /\ hook' \in [Orders -> {"none", "pending", "acked"}]
        /\ swallowed' \subseteq Orders /\ faults' \in 0..MaxFaults
    <3>1. hook' = [hook EXCEPT ![o] = "acked"]
      OBVIOUS
    <3>2. swallowed' \in {swallowed, swallowed \cup {o}}
      OBVIOUS
    <3>3. faults' = faults \/ (faults < MaxFaults /\ faults' = faults + 1)
      OBVIOUS
    <3> QED
      BY <3>1, <3>2, <3>3 DEF TypeOK
  <2> QED
    BY <2>1 DEF TypeOK
<1>2. RowInv'
  BY <1>1 DEF TypeOK, RowInv, Settled
<1>3. RequestInv'
  BY <1>1 DEF TypeOK, RequestInv
<1>4. SettleInv'
  BY <1>1 DEF TypeOK, SettleInv, RequestInv
<1>5. OwedInv'
  BY <1>1, OwedKept DEF TypeOK
<1>6. RefundInv'
  BY <1>1 DEF TypeOK, RefundInv, RequestInv, Settled
<1>7. PromiseInv'
  BY <1>1 DEF TypeOK, PromiseInv, RequestInv
<1>8. BackedInv'
  BY <1>1 DEF TypeOK, BackedInv, RequestInv, Sells
<1>9. PaidImpliesEnrolled'
  BY <1>1 DEF TypeOK, PaidImpliesEnrolled, Settled
<1>10. EnrollmentBacked'
  BY <1>1 DEF TypeOK, EnrollmentBacked
<1>11. RefundsAgree'
  BY <1>1 DEF TypeOK, RefundsAgree, Settled
<1> QED
  BY <1>1, <1>2, <1>3, <1>4, <1>5, <1>6, <1>7, <1>8, <1>9, <1>10, <1>11

\* One enrollment of a settlement moves from what is left to what is done.
LEMMA EnrollStep ==
  ASSUME IInv, NEW w \in Workers, NEW c \in Courses, Enroll(w, c)
  PROVE  IInv'
<1> USE LedgerAssumptions DEF IInv, Enroll, rzpVars, rowVars, tableVars, reqVars, histVars
<1>1. TypeOK'
  BY DEF TypeOK, RequestInv, Products, Statuses, PCs
<1>2. RowInv'
  BY <1>1 DEF TypeOK, RowInv, Settled
<1>3. RequestInv'
  BY <1>1 DEF TypeOK, RequestInv
<1>4. SettleInv'
  BY <1>1 DEF TypeOK, SettleInv, RequestInv
<1>5. OwedInv'
  BY <1>1, OwedKept DEF TypeOK
<1>6. RefundInv'
  BY <1>1 DEF TypeOK, RefundInv, RequestInv, Settled
<1>7. PromiseInv'
  BY <1>1 DEF TypeOK, PromiseInv, RequestInv
<1>8. BackedInv'
  BY <1>1 DEF TypeOK, BackedInv, RequestInv, Sells
<1>9. PaidImpliesEnrolled'
  BY <1>1 DEF TypeOK, PaidImpliesEnrolled, Settled
<1>10. EnrollmentBacked'
  BY <1>1 DEF TypeOK, EnrollmentBacked
<1>11. RefundsAgree'
  BY <1>1 DEF TypeOK, RefundsAgree, Settled
<1> QED
  BY <1>1, <1>2, <1>3, <1>4, <1>5, <1>6, <1>7, <1>8, <1>9, <1>10, <1>11

\* A rolled back or dead request leaves no trace.
LEMMA AbandonStep ==
  ASSUME IInv, NEW w \in Workers, Return(w),
         UNCHANGED <<rzpVars, rowVars, tableVars, emitted, histVars>>, faults' \in 0..MaxFaults
  PROVE  IInv'
<1> USE LedgerAssumptions DEF IInv, Return, rzpVars, rowVars, tableVars, reqVars, histVars
<1>1. TypeOK'
  BY DEF TypeOK, RequestInv, Products, Statuses, PCs
<1>2. RowInv'
  BY <1>1 DEF TypeOK, RowInv, Settled
<1>3. RequestInv'
  BY <1>1 DEF TypeOK, RequestInv
<1>4. SettleInv'
  BY <1>1 DEF TypeOK, SettleInv, RequestInv
<1>5. OwedInv'
  BY <1>1, OwedKept DEF TypeOK
<1>6. RefundInv'
  BY <1>1 DEF TypeOK, RefundInv, RequestInv, Settled
<1>7. PromiseInv'
  BY <1>1 DEF TypeOK, PromiseInv, RequestInv
<1>8. BackedInv'
  BY <1>1 DEF TypeOK, BackedInv, RequestInv, Sells
<1>9. PaidImpliesEnrolled'
  BY <1>1 DEF TypeOK, PaidImpliesEnrolled, Settled
<1>10. EnrollmentBacked'
  BY <1>1 DEF TypeOK, EnrollmentBacked
<1>11. RefundsAgree'
  BY <1>1 DEF TypeOK, RefundsAgree, Settled
<1> QED
  BY <1>1, <1>2, <1>3, <1>4, <1>5, <1>6, <1>7, <1>8, <1>9, <1>10, <1>11

\* The commit settles an order nobody else is settling, because it holds the row.
LEMMA CommitStep ==
  ASSUME IInv, NEW w \in Workers, Commit(w)
  PROVE  IInv'
<1> DEFINE o == ord[w]
<1> USE LedgerAssumptions DEF IInv
<1>a. /\ o \in Orders /\ provider[o] = "captured" /\ status[o] \in {"created", "captured"}
      /\ product[o] \in Products \ Plans /\ buyer[o] \in Users
      /\ \A v \in Workers : pc[v] = "settle" /\ ord[v] = o => v = w
  BY DEF Commit, TypeOK, RequestInv, SettleInv, RowInv
<1>b. /\ pc[w] = "settle" /\ todo[w] = {}
      /\ status' = [status EXCEPT ![o] = "paid"]
      /\ settlements' = [settlements EXCEPT ![o] = @ + 1]
      /\ enr' = [uc \in Users \X Courses |->
                   IF uc[1] = buyer[o] /\ uc[2] \in done[w] THEN "null" ELSE enr[uc]]
      /\ UNCHANGED <<provider, refunds, buyer, product, recorded, promised,
                     bundle, items, deleted, sub, emitted, resets, withdrawn,
                     swallowed, faults>>
  BY DEF Commit, SettledEnrollment
<1>c. /\ hook' \in [Orders -> {"none", "pending", "acked"}]
      /\ \A p \in Orders : hook'[p] = hook[p] \/ (p = o /\ hook'[p] = "acked")
  <2>1. hook' = hook \/ hook' = [hook EXCEPT ![o] = "acked"]
    BY DEF Commit
  <2> QED
    BY <1>a, <2>1 DEF TypeOK
<1>d. /\ pc' = [pc EXCEPT ![w] = "idle"] \/ pc' = [pc EXCEPT ![w] = "notify"]
      /\ job' = job \/ job' = [job EXCEPT ![w] = "none"]
      /\ \/ ord' = ord
         \/ ord' = [ord EXCEPT ![w] = NoOrder] /\ pc' = [pc EXCEPT ![w] = "idle"]
      /\ todo' = todo \/ todo' = [todo EXCEPT ![w] = {}]
      /\ done' = [done EXCEPT ![w] = {}]
      /\ amt' = amt \/ amt' = [amt EXCEPT ![w] = 0]
  BY DEF Commit, Return
<1>e. ASSUME NEW v \in Workers, v # w
      PROVE  /\ pc'[v] = pc[v] /\ ord'[v] = ord[v] /\ todo'[v] = todo[v]
             /\ done'[v] = done[v] /\ amt'[v] = amt[v]
  BY <1>d, <1>e DEF TypeOK
<1>f. pc'[w] \in {"idle", "notify"} /\ done'[w] = {} /\ (pc'[w] = "notify" => ord'[w] = o)
  BY <1>d DEF TypeOK
<1> HIDE DEF o
<1>g. \A p \in Orders : /\ status'[p] = IF p = o THEN "paid" ELSE status[p]
                       /\ settlements[p] \in Nat /\ settlements'[p] \in Nat
                       /\ settlements'[p] = IF p = o THEN settlements[p] + 1 ELSE settlements[p]
  BY <1>a, <1>b DEF TypeOK
<1>1. TypeOK'
  <2>1. status' \in [Orders -> Statuses] /\ enr' \in [Users \X Courses -> {"absent", "null", "active"}]
    BY <1>a, <1>b DEF TypeOK, Statuses
  <2>2. pc' \in [Workers -> PCs]
    BY <1>d DEF TypeOK, PCs
  <2>3. job' \in [Workers -> {"none", "verify", "bundle", "webhook"}]
    BY <1>d DEF TypeOK
  <2>4. ord' \in [Workers -> Orders \cup {NoOrder}]
    BY <1>d DEF TypeOK
  <2>5. todo' \in [Workers -> SUBSET (Courses \cup {NoCourse})]
    BY <1>d DEF TypeOK
  <2>6. done' \in [Workers -> SUBSET Courses]
    BY <1>d DEF TypeOK
  <2>7. amt' \in [Workers -> Amounts \cup {0}]
    BY <1>d DEF TypeOK
  <2>8. settlements' \in [Orders -> Nat]
    BY <1>a, <1>b DEF TypeOK
  <2> QED
    BY <1>b, <1>c, <2>1, <2>2, <2>3, <2>4, <2>5, <2>6, <2>7, <2>8 DEF TypeOK
<1>2. RowInv'
  BY <1>a, <1>b, <1>c, <1>g DEF TypeOK, RowInv, Settled
<1>3. RequestInv'
  <2>1. ASSUME NEW v \in Workers, pc'[v] = "insert"
        PROVE  v # w /\ pc[v] = "insert" /\ ord'[v] = ord[v] /\ ord[v] # o /\ ord[v] \in Orders
    BY <1>a, <1>e, <1>f, <2>1 DEF RequestInv
  <2>2. ASSUME NEW v \in Workers, pc'[v] # "idle"
        PROVE  ord'[v] \in Orders /\ provider[ord'[v]] # "unused"
    BY <1>a, <1>e, <1>f, <2>2 DEF RequestInv
  <2>3. \A v \in Workers : pc'[v] # "settle" => done'[v] = {}
    BY <1>e, <1>f DEF RequestInv
  <2> QED
    BY <1>b, <1>g, <2>1, <2>2, <2>3 DEF RequestInv
<1>4. SettleInv'
  <2>1. ASSUME NEW v \in Workers, pc'[v] = "settle"
        PROVE  /\ v # w /\ pc[v] = "settle" /\ ord'[v] = ord[v] /\ todo'[v] = todo[v]
               /\ ord[v] # o /\ ord[v] \in Orders
    BY <1>a, <1>e, <1>f, <2>1 DEF RequestInv
  <2> QED
    BY <1>b, <1>g, <2>1 DEF SettleInv
<1>5. OwedInv'
  <2> SUFFICES ASSUME NEW p \in Orders
               PROVE  emitted[p] + Cardinality(Owing(p)') <= settlements'[p]
    BY <1>b DEF OwedInv
  <2>1. emitted[p] + Cardinality(Owing(p)) <= settlements[p] /\ emitted[p] \in Nat
    BY DEF OwedInv, TypeOK
  <2>2. Owing(p)' \subseteq Owing(p) \cup {w} /\ (p # o => Owing(p)' \subseteq Owing(p))
    BY <1>e, <1>f DEF Owing
  <2>3. IsFiniteSet(Owing(p)') /\ Cardinality(Owing(p)') \in Nat
    <3>1. Owing(p)' \subseteq Workers
      BY DEF Owing
    <3> QED
      BY <3>1, FS_Subset, FS_CardinalityType
  <2>4. CASE p = o
    <3>0. /\ IsFiniteSet(Owing(p) \cup {w})
          /\ Cardinality(Owing(p) \cup {w}) =
               IF w \in Owing(p) THEN Cardinality(Owing(p)) ELSE Cardinality(Owing(p)) + 1
      BY OwingFinite, FS_AddElement
    <3>1. IsFiniteSet(Owing(p) \cup {w}) /\ Cardinality(Owing(p) \cup {w}) <= Cardinality(Owing(p)) + 1
      BY <3>0, OwingFinite
    <3>2. Cardinality(Owing(p)') <= Cardinality(Owing(p) \cup {w})
      BY <2>2, <3>1, FS_Subset
    <3>3. Cardinality(Owing(p) \cup {w}) \in Nat
      BY <3>1, FS_CardinalityType
    <3> QED
      BY <1>g, <2>1, <2>3, <2>4, <3>1, <3>2, <3>3, OwingFinite
  <2>5. CASE p # o
    <3>1. Cardinality(Owing(p)') <= Cardinality(Owing(p))
      BY <2>2, <2>5, OwingFinite, FS_Subset
    <3> QED
      BY <1>g, <2>1, <2>3, <2>5, <3>1, OwingFinite
  <2> QED
    BY <2>4, <2>5
<1>6. RefundInv'
  <2>1. ASSUME NEW v \in Workers, pc'[v] \in {"refund", "patch"}
        PROVE  /\ v # w /\ pc[v] = pc'[v] /\ ord'[v] = ord[v] /\ amt'[v] = amt[v]
               /\ ord[v] \in Orders
    BY <1>a, <1>e, <1>f, <2>1 DEF RequestInv
  <2>2. \A p \in Orders : settlements[p] > 0 => settlements'[p] > 0
    BY <1>g
  <2> QED
    BY <1>b, <2>1, <2>2 DEF RefundInv
<1>7. PromiseInv'
  <2>0. UNCHANGED <<product, promised, deleted, items, withdrawn>>
    BY <1>b
  <2>1. /\ \A p \in Orders : settlements'[p] = 0 => settlements[p] = 0
        /\ \A p \in Orders : status'[p] # "absent" => status[p] # "absent"
    BY <1>a, <1>g
  <2>2. \A v \in Workers : pc'[v] = "settle" =>
          /\ pc[v] = "settle" /\ ord'[v] = ord[v] /\ ord[v] \in Orders
          /\ todo'[v] = todo[v] /\ done'[v] = done[v]
    BY <1>e, <1>f DEF RequestInv
  <2>3. ASSUME NEW p \in Orders, status'[p] # "absent"
        PROVE  /\ product'[p] \in Courses => promised'[p] = {product'[p]}
               /\ product'[p] \in Bundles /\ p \notin withdrawn' /\ settlements'[p] = 0 =>
                    promised'[p] \ deleted' \subseteq items'[product'[p]]
               /\ product'[p] \in Plans => promised'[p] = {}
    BY <2>0, <2>1, <2>3 DEF PromiseInv
  <2>4. ASSUME NEW v \in Workers, pc'[v] = "settle"
        PROVE  /\ done'[v] \cap deleted' = {}
               /\ NoCourse \notin todo'[v] /\ ord'[v] \notin withdrawn' /\ settlements'[ord'[v]] = 0 =>
                    promised'[ord'[v]] \ deleted' \subseteq todo'[v] \cup done'[v]
    BY <2>0, <2>1, <2>2, <2>4 DEF PromiseInv
  <2> QED
    BY <2>3, <2>4 DEF PromiseInv
<1>8. BackedInv'
  BY <1>a, <1>b, <1>e, <1>f DEF TypeOK, BackedInv, RequestInv, Sells
<1>9. PaidImpliesEnrolled'
  <2>1. o \notin withdrawn /\ settlements[o] = 0 => promised[o] \ deleted \subseteq done[w]
    BY <1>a, <1>b DEF PromiseInv, TypeOK, o
  <2> SUFFICES ASSUME NEW p \in Orders, settlements'[p] > 0, p \notin withdrawn,
                      NEW c \in promised[p] \ deleted
               PROVE  enr'[<<buyer[p], c>>] # "absent"
    BY <1>b DEF PaidImpliesEnrolled
  <2>2. <<buyer[p], c>> \in Users \X Courses
    <3>1. buyer[p] \in Users
      BY <1>a, <1>g DEF RowInv
    <3> QED
      BY <3>1 DEF TypeOK
  <2>3. CASE settlements[p] > 0
    BY <1>b, <2>2, <2>3 DEF PaidImpliesEnrolled
  <2>4. CASE ~ (settlements[p] > 0)
    <3>1. p = o /\ settlements[o] = 0
      BY <1>g, <2>4
    <3> QED
      BY <1>b, <2>1, <2>2, <3>1
  <2> QED
    BY <2>3, <2>4
<1>10. EnrollmentBacked'
  <2>1. \A c \in done[w] : c \in Courses /\ Sells(product[o], c)
    BY <1>b DEF BackedInv, TypeOK, o
  <2> QED
    BY <1>a, <1>b, <2>1 DEF TypeOK, EnrollmentBacked, Sells
<1>11. RefundsAgree'
  BY <1>a, <1>b, <1>g DEF TypeOK, RefundsAgree
<1> QED
  BY <1>1, <1>2, <1>3, <1>4, <1>5, <1>6, <1>7, <1>8, <1>9, <1>10, <1>11

\* The one request that owes the announcement makes it.
LEMMA NotifyStep ==
  ASSUME IInv, NEW w \in Workers, Notify(w)
  PROVE  IInv'
<1> USE LedgerAssumptions DEF IInv, Notify, Return, rzpVars, rowVars, tableVars, reqVars, histVars
<1>1. TypeOK'
  BY DEF TypeOK, RequestInv, Products, Statuses, PCs
<1>2. RowInv'
  BY <1>1 DEF TypeOK, RowInv, Settled
<1>3. RequestInv'
  BY <1>1 DEF TypeOK, RequestInv
<1>4. SettleInv'
  BY <1>1 DEF TypeOK, SettleInv, RequestInv
<1>5. OwedInv'
  <2> SUFFICES ASSUME NEW p \in Orders
               PROVE  emitted'[p] + Cardinality(Owing(p)') <= settlements[p]
    BY DEF OwedInv
  <2>1. emitted[p] + Cardinality(Owing(p)) <= settlements[p] /\ emitted[p] \in Nat /\ settlements[p] \in Nat
    BY DEF OwedInv, TypeOK
  <2>2. Owing(p)' = Owing(p) \ {w}
    BY DEF Owing, TypeOK
  <2>3. IsFiniteSet(Owing(p)) /\ Cardinality(Owing(p)) \in Nat
    BY OwingFinite
  <2>4. CASE p = ord[w]
    <3>1. w \in Owing(p)
      BY <2>4 DEF Owing
    <3>2. Cardinality(Owing(p)') = Cardinality(Owing(p)) - 1
      BY <2>2, <2>3, <3>1, FS_RemoveElement
    <3>3. emitted'[p] = emitted[p] + 1
      BY <2>4 DEF TypeOK
    <3> QED
      BY <2>1, <2>3, <3>2, <3>3
  <2>5. CASE p # ord[w]
    <3>1. Owing(p)' = Owing(p)
      BY <2>2, <2>5 DEF Owing
    <3>2. emitted'[p] = emitted[p]
      BY <2>5 DEF TypeOK
    <3> QED
      BY <2>1, <3>1, <3>2
  <2> QED
    BY <2>4, <2>5
<1>6. RefundInv'
  BY <1>1 DEF TypeOK, RefundInv, RequestInv, Settled
<1>7. PromiseInv'
  BY <1>1 DEF TypeOK, PromiseInv, RequestInv
<1>8. BackedInv'
  BY <1>1 DEF TypeOK, BackedInv, RequestInv, Sells
<1>9. PaidImpliesEnrolled'
  BY <1>1 DEF TypeOK, PaidImpliesEnrolled, Settled
<1>10. EnrollmentBacked'
  BY <1>1 DEF TypeOK, EnrollmentBacked
<1>11. RefundsAgree'
  BY <1>1 DEF TypeOK, RefundsAgree, Settled
<1> QED
  BY <1>1, <1>2, <1>3, <1>4, <1>5, <1>6, <1>7, <1>8, <1>9, <1>10, <1>11

\* A row is captured, once more perhaps, by the verify call of a subscription or an
\* installment, of which the first may go on to activate.
LEMMA CapturedStep ==
  ASSUME IInv, NEW o \in Orders,
         VerifyInstallmentPayment(o) \/ \E w \in Workers : VerifyCheckout(w, o)
  PROVE  IInv'
<1> USE LedgerAssumptions DEF IInv
<1>a. /\ provider[o] = "captured" /\ status[o] # "absent"
      /\ \A v \in Workers : pc[v] = "settle" => ord[v] # o
      /\ status' = [status EXCEPT ![o] = "captured"]
      /\ IF Settled(o)
           THEN resets[o] < MaxResets /\ resets' = [resets EXCEPT ![o] = @ + 1]
           ELSE UNCHANGED resets
  BY DEF VerifyInstallmentPayment, VerifyCheckout, MarkCaptured, RowLocked
<1>b. /\ UNCHANGED <<provider, hook, refunds, buyer, product, recorded, promised, enr, bundle,
                     items, deleted, sub, job, todo, done, amt, emitted, settlements, withdrawn,
                     swallowed, faults>>
      /\ \/ UNCHANGED <<pc, ord>>
         \/ \E w \in Workers : /\ pc[w] = "idle"
                               /\ pc' = [pc EXCEPT ![w] = "activate"]
                               /\ ord' = [ord EXCEPT ![w] = o]
  BY DEF VerifyInstallmentPayment, VerifyCheckout, rzpVars, tableVars, reqVars
<1>c. \A v \in Workers :
        \/ pc'[v] = pc[v] /\ ord'[v] = ord[v]
        \/ pc[v] = "idle" /\ pc'[v] = "activate" /\ ord'[v] = o
  <2>1. CASE UNCHANGED <<pc, ord>>
    BY <2>1
  <2>2. ASSUME NEW w \in Workers, pc[w] = "idle", pc' = [pc EXCEPT ![w] = "activate"],
               ord' = [ord EXCEPT ![w] = o], NEW v \in Workers
        PROVE  \/ pc'[v] = pc[v] /\ ord'[v] = ord[v]
               \/ pc[v] = "idle" /\ pc'[v] = "activate" /\ ord'[v] = o
    BY <2>2 DEF TypeOK
  <2> QED
    BY <1>b, <2>1, <2>2
<1>d. /\ status' \in [Orders -> Statuses] /\ resets' \in [Orders -> 0..MaxResets]
      /\ \A p \in Orders : /\ status'[p] = IF p = o THEN "captured" ELSE status[p]
                          /\ resets'[p] = IF p = o /\ Settled(o) THEN resets[p] + 1 ELSE resets[p]
  BY <1>a DEF TypeOK, Statuses
<1>1. TypeOK'
  <2>1. pc' \in [Workers -> PCs] /\ ord' \in [Workers -> Orders \cup {NoOrder}]
    <3>1. CASE UNCHANGED <<pc, ord>>
      BY <3>1 DEF TypeOK
    <3>2. ASSUME NEW w \in Workers, pc' = [pc EXCEPT ![w] = "activate"], ord' = [ord EXCEPT ![w] = o]
          PROVE  pc' \in [Workers -> PCs] /\ ord' \in [Workers -> Orders \cup {NoOrder}]
      BY <3>2 DEF TypeOK, PCs
    <3> QED
      BY <1>b, <3>1, <3>2
  <2> QED
    BY <1>b, <1>d, <2>1 DEF TypeOK
<1>2. RowInv'
  <2>1. \A p \in Orders \ {o} : Settled(p)' <=> Settled(p)
    BY <1>d DEF Settled
  <2>2. ~ Settled(o)'
    BY <1>d DEF Settled
  <2>3. \A p \in Orders : resets[p] \in Nat /\ settlements[p] \in Nat
    BY DEF TypeOK
  <2>4. settlements[o] <= resets'[o]
    BY <1>d, <2>3 DEF RowInv
  <2>5. ASSUME NEW p \in Orders
        PROVE  /\ Settled(p)' => settlements'[p] > 0
               /\ settlements'[p] > 0 => status'[p] \notin {"absent", "created"} /\ product'[p] \notin Plans
               /\ settlements'[p] <= resets'[p] + (IF Settled(p)' THEN 1 ELSE 0)
    BY <1>b, <1>d, <2>1, <2>2, <2>3, <2>4 DEF RowInv
  <2>6. ASSUME NEW p \in Orders
        PROVE  /\ provider'[p] # "unused" => buyer'[p] \in Users /\ product'[p] \in Products
               /\ provider'[p] = "unused" => status'[p] = "absent"
               /\ provider'[p] = "captured" => status'[p] # "absent"
               /\ hook'[p] # "none" => provider'[p] = "captured"
               /\ status'[p] \notin {"absent", "created"} => provider'[p] = "captured"
    BY <1>a, <1>b, <1>d DEF RowInv
  <2> QED
    BY <2>5, <2>6 DEF RowInv, Settled
<1>3. RequestInv'
  BY <1>a, <1>b, <1>c, <1>d DEF RequestInv
<1>4. SettleInv'
  BY <1>a, <1>b, <1>c, <1>d DEF SettleInv
<1>5. OwedInv'
  BY <1>1, <1>b, <1>c, OwedKept DEF TypeOK
<1>6. RefundInv'
  BY <1>b, <1>c DEF RefundInv
<1>7. PromiseInv'
  BY <1>a, <1>b, <1>c, <1>d DEF PromiseInv
<1>8. BackedInv'
  BY <1>b, <1>c DEF BackedInv, Sells
<1>9. PaidImpliesEnrolled'
  BY <1>b DEF PaidImpliesEnrolled
<1>10. EnrollmentBacked'
  BY <1>b, <1>d DEF EnrollmentBacked
<1>11. RefundsAgree'
  BY <1>b, <1>d DEF RefundsAgree
<1> QED
  BY <1>1, <1>2, <1>3, <1>4, <1>5, <1>6, <1>7, <1>8, <1>9, <1>10, <1>11

\* The subscription of a verified checkout becomes active.
LEMMA ActivateStep ==
  ASSUME IInv, NEW w \in Workers, ActivateSubscription(w)
  PROVE  IInv'
<1> USE LedgerAssumptions DEF IInv, ActivateSubscription, Return, rzpVars, rowVars, tableVars, reqVars, histVars
<1>1. TypeOK'
  BY DEF TypeOK, RequestInv, Products, Statuses, PCs
<1>2. RowInv'
  BY <1>1 DEF TypeOK, RowInv, Settled
<1>3. RequestInv'
  BY <1>1 DEF TypeOK, RequestInv
<1>4. SettleInv'
  BY <1>1 DEF TypeOK, SettleInv, RequestInv
<1>5. OwedInv'
  BY <1>1, OwedKept DEF TypeOK
<1>6. RefundInv'
  <2>1. \A v \in Workers : pc'[v] \in {"refund", "patch"} =>
          pc'[v] = pc[v] /\ ord'[v] = ord[v] /\ amt'[v] = amt[v]
    BY DEF TypeOK
  <2> QED
    BY <2>1 DEF RefundInv
<1>7. PromiseInv'
  BY <1>1 DEF TypeOK, PromiseInv, RequestInv
<1>8. BackedInv'
  BY <1>1 DEF TypeOK, BackedInv, RequestInv, Sells
<1>9. PaidImpliesEnrolled'
  BY <1>1 DEF TypeOK, PaidImpliesEnrolled, Settled
<1>10. EnrollmentBacked'
  BY <1>1 DEF TypeOK, EnrollmentBacked
<1>11. RefundsAgree'
  BY <1>1 DEF TypeOK, RefundsAgree, Settled
<1> QED
  BY <1>1, <1>2, <1>3, <1>4, <1>5, <1>6, <1>7, <1>8, <1>9, <1>10, <1>11

\* A refund request has read a paid row.
LEMMA IssueRefundStep ==
  ASSUME IInv, NEW w \in Workers, NEW o \in Orders, NEW a \in Amounts, IssueRefund(w, o, a)
  PROVE  IInv'
<1> USE LedgerAssumptions DEF IInv, IssueRefund, rzpVars, rowVars, tableVars, reqVars, histVars
<1>1. TypeOK'
  BY DEF TypeOK, RequestInv, Products, Statuses, PCs
<1>2. RowInv'
  BY <1>1 DEF TypeOK, RowInv, Settled
<1>3. RequestInv'
  BY <1>1 DEF TypeOK, RequestInv, RowInv
<1>4. SettleInv'
  BY <1>1 DEF TypeOK, SettleInv, RequestInv
<1>5. OwedInv'
  BY <1>1, OwedKept DEF TypeOK
<1>6. RefundInv'
  BY <1>1 DEF TypeOK, RefundInv, RequestInv, Settled, RowInv
<1>7. PromiseInv'
  BY <1>1 DEF TypeOK, PromiseInv, RequestInv
<1>8. BackedInv'
  BY <1>1 DEF TypeOK, BackedInv, RequestInv, Sells
<1>9. PaidImpliesEnrolled'
  BY <1>1 DEF TypeOK, PaidImpliesEnrolled, Settled
<1>10. EnrollmentBacked'
  BY <1>1 DEF TypeOK, EnrollmentBacked
<1>11. RefundsAgree'
  BY <1>1 DEF TypeOK, RefundsAgree, Settled
<1> QED
  BY <1>1, <1>2, <1>3, <1>4, <1>5, <1>6, <1>7, <1>8, <1>9, <1>10, <1>11

\* Razorpay makes the first refund under the row's key and repeats it afterwards.
LEMMA CreateRefundStep ==
  ASSUME IInv, NEW w \in Workers, CreateRefund(w)
  PROVE  IInv'
<1> DEFINE o == ord[w]
<1> USE LedgerAssumptions DEF IInv, rowVars, tableVars
<1>a. o \in Orders /\ pc[w] = "refund" /\ amt[w] \in Amounts /\ settlements[o] > 0
  BY DEF CreateRefund, RequestInv, RefundInv
<1>b. /\ pc' = [pc EXCEPT ![w] = "patch"]
      /\ UNCHANGED <<provider, hook, status, buyer, product, recorded, promised, enr, bundle,
                     items, deleted, sub, job, ord, todo, done, emitted, settlements, resets,
                     withdrawn, swallowed, faults>>
  BY DEF CreateRefund, histVars
<1>c. PICK r : /\ r \in Orders \X Amounts /\ r[1] = o
               /\ refunds[o] \in {{}, {r}}
               /\ refunds' = [refunds EXCEPT ![o] = {r}]
               /\ amt' = [amt EXCEPT ![w] = r[2]]
  <2>1. CASE refunds[o] = {}
    <3>1. /\ refunds' = [refunds EXCEPT ![o] = {<<o, amt[w]>>}]
          /\ amt' = [amt EXCEPT ![w] = amt[w]]
      BY <1>a, <2>1 DEF CreateRefund, IdempotencyKey, TypeOK
    <3>2. <<o, amt[w]>> \in Orders \X Amounts
      BY <1>a
    <3>3. <<o, amt[w]>>[1] = o /\ <<o, amt[w]>>[2] = amt[w]
      OBVIOUS
    <3> QED
      BY <2>1, <3>1, <3>2, <3>3
  <2>2. CASE refunds[o] # {}
    <3>1. PICK r \in refunds[o] : TRUE
      BY <2>2
    <3>2. r \in Orders \X Amounts /\ r[1] = o /\ refunds[o] = {r}
      BY <1>a, <3>1 DEF TypeOK, RefundInv, RefundsAgree
    <3>3. {s \in refunds[o] : s[1] = IdempotencyKey(w)} = {r}
      BY <3>2 DEF IdempotencyKey
    <3>4. refunds' = refunds /\ amt' = [amt EXCEPT ![w] = r[2]]
      BY <3>3 DEF CreateRefund
    <3>5. refunds' = [refunds EXCEPT ![o] = {r}]
      BY <1>a, <3>2, <3>4 DEF TypeOK
    <3> QED
      BY <3>2, <3>4, <3>5
  <2> QED
    BY <2>1, <2>2
<1> HIDE DEF o
<1>1. TypeOK'
  BY <1>a, <1>b, <1>c DEF TypeOK, PCs
<1>2. RowInv'
  BY <1>b DEF RowInv, Settled
<1>3. RequestInv'
  BY <1>a, <1>b DEF TypeOK, RequestInv, o
<1>4. SettleInv'
  BY <1>b DEF TypeOK, SettleInv
<1>5. OwedInv'
  BY <1>b, <1>1, OwedKept DEF TypeOK
<1>6. RefundInv'
  BY <1>a, <1>b, <1>c DEF TypeOK, RefundInv, RequestInv, Settled, o
<1>7. PromiseInv'
  BY <1>b DEF TypeOK, PromiseInv
<1>8. BackedInv'
  BY <1>b DEF TypeOK, BackedInv, Sells
<1>9. PaidImpliesEnrolled'
  BY <1>b DEF PaidImpliesEnrolled, Settled
<1>10. EnrollmentBacked'
  BY <1>b DEF EnrollmentBacked
<1>11. RefundsAgree'
  BY <1>a, <1>b, <1>c DEF TypeOK, RefundsAgree, Settled
<1> QED
  BY <1>1, <1>2, <1>3, <1>4, <1>5, <1>6, <1>7, <1>8, <1>9, <1>10, <1>11

\* The row is patched with the refund Razorpay made.
LEMMA MarkRefundedStep ==
  ASSUME IInv, NEW w \in Workers, MarkPaymentRefunded(w)
  PROVE  IInv'
<1> USE LedgerAssumptions DEF IInv, MarkPaymentRefunded, Return, RowLocked, rzpVars, rowVars, tableVars, reqVars, histVars
<1>1. TypeOK'
  BY DEF TypeOK, RequestInv, Products, Statuses, PCs
<1>2. RowInv'
  <2>1. ord[w] \in Orders /\ settlements[ord[w]] > 0
    BY DEF RequestInv, RefundInv
  <2>2. \A p \in Orders : status'[p] = IF p = ord[w] THEN "refunded" ELSE status[p]
    BY <2>1 DEF TypeOK
  <2>3. \A p \in Orders : settlements[p] \in Nat /\ resets[p] \in Nat
    BY DEF TypeOK
  <2> QED
    BY <2>1, <2>2, <2>3 DEF RowInv, Settled
<1>3. RequestInv'
  <2>1. ord[w] \in Orders /\ status[ord[w]] \notin {"absent", "created"}
    BY DEF RequestInv, RefundInv, RowInv
  <2>2. \A v \in Workers : pc'[v] = (IF v = w THEN "idle" ELSE pc[v])
                           /\ done'[v] = (IF v = w THEN {} ELSE done[v])
                           /\ (v # w => ord'[v] = ord[v])
    BY DEF TypeOK
  <2>3. \A p \in Orders : status'[p] = IF p = ord[w] THEN "refunded" ELSE status[p]
    BY <2>1 DEF TypeOK
  <2> QED
    BY <2>1, <2>2, <2>3 DEF RequestInv
<1>4. SettleInv'
  BY <1>1 DEF TypeOK, SettleInv, RequestInv
<1>5. OwedInv'
  BY <1>1, OwedKept DEF TypeOK
<1>6. RefundInv'
  BY <1>1 DEF TypeOK, RefundInv, RequestInv, Settled
<1>7. PromiseInv'
  <2>1. \A p \in Orders : status'[p] # "absent" => status[p] # "absent"
    BY DEF TypeOK, RequestInv, RefundInv, RowInv
  <2>2. \A v \in Workers : pc'[v] = "settle" =>
          pc[v] = "settle" /\ ord'[v] = ord[v] /\ todo'[v] = todo[v] /\ done'[v] = done[v]
    BY DEF TypeOK
  <2> QED
    BY <2>1, <2>2 DEF PromiseInv, RequestInv
<1>8. BackedInv'
  BY <1>1 DEF TypeOK, BackedInv, RequestInv, Sells
<1>9. PaidImpliesEnrolled'
  BY <1>1 DEF TypeOK, PaidImpliesEnrolled, Settled, RefundInv, RequestInv
<1>10. EnrollmentBacked'
  BY <1>1 DEF TypeOK, EnrollmentBacked
<1>11. RefundsAgree'
  <2>1. /\ ord[w] \in Orders /\ status' = [status EXCEPT ![ord[w]] = "refunded"]
        /\ recorded' = [recorded EXCEPT ![ord[w]] = amt[w]]
        /\ amt[w] \in Amounts /\ \E r \in refunds[ord[w]] : r[2] = amt[w]
        /\ UNCHANGED <<refunds, settlements>>
    BY DEF RequestInv, RefundInv
  <2>2. amt[w] # 0
    BY <2>1
  <2> QED
    BY <2>1, <2>2 DEF TypeOK, RefundsAgree
<1> QED
  BY <1>1, <1>2, <1>3, <1>4, <1>5, <1>6, <1>7, <1>8, <1>9, <1>10, <1>11

\* An enrollment outside any order.
LEMMA EnrollDirectStep ==
  ASSUME IInv, NEW u \in Users, NEW c \in Courses, EnrollDirect(u, c)
  PROVE  IInv'
<1> USE LedgerAssumptions DEF IInv, EnrollDirect, rzpVars, rowVars, tableVars, reqVars, histVars
<1>1. TypeOK'
  BY DEF TypeOK, RequestInv, Products
<1>2. RowInv' /\ RequestInv' /\ SettleInv' /\ OwedInv' /\ RefundInv' /\ RefundsAgree'
  BY TablesOnly
<1>3. PromiseInv'
  BY <1>1 DEF TypeOK, PromiseInv, RequestInv
<1>4. BackedInv'
  BY <1>1 DEF TypeOK, BackedInv, RequestInv, Sells
<1>5. PaidImpliesEnrolled'
  BY <1>1 DEF TypeOK, PaidImpliesEnrolled, Settled
<1>6. EnrollmentBacked'
  BY <1>1 DEF TypeOK, EnrollmentBacked
<1> QED
  BY <1>1, <1>2, <1>3, <1>4, <1>5, <1>6

\* A bundle is created, paused or resumed: none is deleted.
LEMMA BundleRowStep ==
  ASSUME IInv, NEW b \in Bundles, NEW s \in {"active", "paused"}, AdminCreateBundle(b) \/ AdminSetActive(b, s)
  PROVE  IInv'
<1> USE LedgerAssumptions DEF IInv, AdminCreateBundle, AdminSetActive, rzpVars, rowVars, tableVars, reqVars, histVars
<1>1. TypeOK'
  BY DEF TypeOK, RequestInv, Products
<1>2. RowInv' /\ RequestInv' /\ SettleInv' /\ OwedInv' /\ RefundInv' /\ RefundsAgree'
  BY TablesOnly
<1>3. PromiseInv'
  <2>1. /\ UNCHANGED <<status, product, promised, deleted, items, pc, ord, todo, done>>
        /\ \A p \in Bundles : bundle'[p] # "deleted" => bundle[p] # "deleted"
    BY DEF AdminCreateBundle, AdminSetActive, TypeOK
  <2> QED
    BY <2>1 DEF PromiseInv
<1>4. BackedInv'
  BY <1>1 DEF TypeOK, BackedInv, RequestInv, Sells
<1>5. PaidImpliesEnrolled'
  BY <1>1 DEF TypeOK, PaidImpliesEnrolled, Settled
<1>6. EnrollmentBacked'
  BY <1>1 DEF TypeOK, EnrollmentBacked
<1> QED
  BY <1>1, <1>2, <1>3, <1>4, <1>5, <1>6

\* A bundle gains a course it was created for.
LEMMA AddCourseStep ==
  ASSUME IInv, NEW b \in Bundles, NEW c \in Courses, AddCourseToBundle(b, c)
  PROVE  IInv'
<1> USE LedgerAssumptions DEF IInv, AddCourseToBundle, rzpVars, rowVars, tableVars, reqVars, histVars
<1>1. TypeOK'
  BY DEF TypeOK, RequestInv, Products
<1>2. RowInv' /\ RequestInv' /\ SettleInv' /\ OwedInv' /\ RefundInv' /\ RefundsAgree'
  BY TablesOnly
<1>3. PromiseInv'
  BY <1>1 DEF TypeOK, PromiseInv, RequestInv
<1>4. BackedInv'
  BY <1>1 DEF TypeOK, BackedInv, RequestInv, Sells
<1>5. PaidImpliesEnrolled'
  BY <1>1 DEF TypeOK, PaidImpliesEnrolled, Settled
<1>6. EnrollmentBacked'
  BY <1>1 DEF TypeOK, EnrollmentBacked
<1> QED
  BY <1>1, <1>2, <1>3, <1>4, <1>5, <1>6

\* A deleted bundle promises nothing any more.
LEMMA DeleteBundleStep ==
  ASSUME IInv, NEW b \in Bundles, AdminDeleteBundle(b)
  PROVE  IInv'
<1> USE LedgerAssumptions DEF IInv, AdminDeleteBundle, rzpVars, rowVars, tableVars, reqVars, histVars
<1>1. TypeOK'
  BY DEF TypeOK, RequestInv, Products
<1>2. RowInv' /\ RequestInv' /\ SettleInv' /\ OwedInv' /\ RefundInv' /\ RefundsAgree'
  BY TablesOnly
<1>3. PromiseInv'
  BY <1>1 DEF TypeOK, PromiseInv, RequestInv
<1>4. BackedInv'
  BY <1>1 DEF TypeOK, BackedInv, RequestInv, Sells
<1>5. PaidImpliesEnrolled'
  BY <1>1 DEF TypeOK, PaidImpliesEnrolled, Settled
<1>6. EnrollmentBacked'
  BY <1>1 DEF TypeOK, EnrollmentBacked
<1> QED
  BY <1>1, <1>2, <1>3, <1>4, <1>5, <1>6

\* A deleted course disappears from every list at once.
LEMMA DeleteCourseStep ==
  ASSUME IInv, NEW c \in Courses, DeleteCourse(c)
  PROVE  IInv'
<1> USE LedgerAssumptions DEF IInv, DeleteCourse, rzpVars, rowVars, tableVars, reqVars, histVars
<1>1. TypeOK'
  BY DEF TypeOK, RequestInv, Products
<1>2. RowInv' /\ RequestInv' /\ SettleInv' /\ OwedInv' /\ RefundInv' /\ RefundsAgree'
  BY TablesOnly
<1>3. PromiseInv'
  BY <1>1 DEF TypeOK, PromiseInv, RequestInv
<1>4. BackedInv'
  BY <1>1 DEF TypeOK, BackedInv, RequestInv, Sells
<1>5. PaidImpliesEnrolled'
  <2> SUFFICES ASSUME NEW o \in Orders, settlements[o] > 0, o \notin withdrawn,
                      NEW x \in promised[o] \ deleted, x # c
               PROVE  enr'[<<buyer[o], x>>] # "absent"
    BY DEF PaidImpliesEnrolled
  <2>1. <<buyer[o], x>> \in Users \X Courses
    BY DEF TypeOK, RowInv
  <2> QED
    BY <2>1 DEF PaidImpliesEnrolled
<1>6. EnrollmentBacked'
  BY <1>1 DEF TypeOK, EnrollmentBacked
<1> QED
  BY <1>1, <1>2, <1>3, <1>4, <1>5, <1>6

\* Nothing happens.
LEMMA StutterStep ==
  ASSUME IInv, UNCHANGED vars
  PROVE  IInv'
<1> USE LedgerAssumptions DEF IInv, vars, rzpVars, rowVars, tableVars, reqVars, histVars
<1>1. TypeOK'
  BY DEF TypeOK, RequestInv, Products, Statuses, PCs
<1>2. RowInv'
  BY <1>1 DEF TypeOK, RowInv, Settled
<1>3. RequestInv'
  BY <1>1 DEF TypeOK, RequestInv
<1>4. SettleInv'
  BY <1>1 DEF TypeOK, SettleInv, RequestInv
<1>5. OwedInv'
  BY <1>1, OwedKept DEF TypeOK
<1>6. RefundInv'
  BY <1>1 DEF TypeOK, RefundInv, RequestInv, Settled
<1>7. PromiseInv'
  BY <1>1 DEF TypeOK, PromiseInv, RequestInv
<1>8. BackedInv'
  BY <1>1 DEF TypeOK, BackedInv, RequestInv, Sells
<1>9. PaidImpliesEnrolled'
  BY <1>1 DEF TypeOK, PaidImpliesEnrolled, Settled
<1>10. EnrollmentBacked'
  BY <1>1 DEF TypeOK, EnrollmentBacked
<1>11. RefundsAgree'
  BY <1>1 DEF TypeOK, RefundsAgree, Settled
<1> QED
  BY <1>1, <1>2, <1>3, <1>4, <1>5, <1>6, <1>7, <1>8, <1>9, <1>10, <1>11

\* Nothing has happened yet.
LEMMA InitEstablishes == Init => IInv
<1> SUFFICES ASSUME Init PROVE IInv
  OBVIOUS
<1> USE LedgerAssumptions DEF Init
<1>1. TypeOK
  BY DEF TypeOK, Statuses, PCs
<1>2. RowInv /\ RequestInv /\ SettleInv
  BY DEF RowInv, RequestInv, SettleInv, Settled
<1>3. OwedInv /\ RefundInv
  <2>1. \A o \in Orders : Owing(o) = {}
    BY DEF Owing
  <2>2. \A o \in Orders : Cardinality(Owing(o)) = 0
    BY <2>1, FS_EmptySet
  <2> QED
    BY <2>2 DEF OwedInv, RefundInv
<1>4. PromiseInv /\ BackedInv
  BY DEF PromiseInv, BackedInv
<1>5. PaidImpliesEnrolled /\ EnrollmentBacked /\ RefundsAgree
  BY DEF PaidImpliesEnrolled, EnrollmentBacked, RefundsAgree, Settled
<1> QED
  BY <1>1, <1>2, <1>3, <1>4, <1>5 DEF IInv

\* A new request: an order, a verify call, a webhook delivery or a refund.
LEMMA RequestStep ==
  ASSUME IInv, NEW w \in Workers, NEW o \in Orders, Request(w, o)
  PROVE  IInv'
<1>1. CASE \E u \in Users : Place(w, u, o)
  <2>1. PICK u \in Users : Place(w, u, o)
    BY <1>1
  <2>2. CASE \E p \in Courses \cup Bundles : CreateOrder(w, u, p, o) /\ UNCHANGED sub
    BY <2>2, PlaceStep DEF Products
  <2>3. CASE \E p \in Plans : StartCheckout(w, u, p, o)
    BY <2>3, PlaceStep DEF Products, StartCheckout
  <2> QED
    BY <2>1, <2>2, <2>3 DEF Place, BuyCourse, BuyBundle
<1>2. CASE Verify(w, o)
  BY <1>2, SettleStep DEF Verify
<1>3. CASE VerifyBundle(w, o)
  BY <1>3, SettleStep DEF VerifyBundle
<1>4. CASE Webhook(w, o)
  <2>1. provider[o] = "captured"
    BY <1>4 DEF Webhook, IInv, RowInv
  <2> QED
    BY <1>4, <2>1, SettleStep DEF Webhook
<1>5. CASE VerifyCheckout(w, o)
  BY <1>5, CapturedStep
<1>6. CASE \E a \in Amounts : IssueRefund(w, o, a)
  BY <1>6, IssueRefundStep
<1> QED
  BY <1>1, <1>2, <1>3, <1>4, <1>5, <1>6 DEF Request

\* A request goes on, or dies.
LEMMA ContinueStep ==
  ASSUME IInv, NEW w \in Workers, Continue(w) \/ Fail(w)
  PROVE  IInv'
<1>1. CASE EnrollRejected(w) \/ DeadlockVictim(w) \/ Fail(w)
  <2>1. faults' \in 0..MaxFaults
    BY <1>1, LedgerAssumptions DEF EnrollRejected, DeadlockVictim, Fail, IInv, TypeOK
  <2>2. Return(w) /\ UNCHANGED <<rzpVars, rowVars, tableVars, emitted, histVars>>
    BY <1>1 DEF EnrollRejected, DeadlockVictim, Fail
  <2> QED
    BY <2>1, <2>2, AbandonStep
<1>2. CASE Continue(w) /\ ~ (EnrollRejected(w) \/ DeadlockVictim(w))
  BY <1>2, InsertStep, EnrollStep, CommitStep, NotifyStep, ActivateStep, CreateRefundStep,
     MarkRefundedStep DEF Continue
<1> QED
  BY <1>1, <1>2

\* Every step the program takes leaves the inductive invariant true.
LEMMA NextPreserves == IInv /\ [Next]_vars => IInv'
<1> SUFFICES ASSUME IInv, [Next]_vars PROVE IInv'
  OBVIOUS
<1>1. ASSUME NEW w \in Workers, NEW o \in Orders, Request(w, o) PROVE IInv'
  BY <1>1, RequestStep
<1>2. ASSUME NEW w \in Workers, Continue(w) \/ Fail(w) PROVE IInv'
  BY <1>2, ContinueStep
<1>3. ASSUME NEW o \in Orders,
             CustomerPays(o) \/ VerifyInstallmentPayment(o) \/ WebhookSkip(o) \/ WebhookLookupFails(o)
      PROVE  IInv'
  BY <1>3, PaysStep, CapturedStep, WebhookAckedStep
<1>4. CASE Admin
  BY <1>4, EnrollDirectStep, BundleRowStep, AddCourseStep, DeleteBundleStep, DeleteCourseStep
     DEF Admin
<1>5. CASE UNCHANGED vars
  BY <1>5, StutterStep
<1> QED
  BY <1>1, <1>2, <1>3, <1>4, <1>5 DEF Next

\* The inductive invariant holds throughout, whichever verify endpoint an order is sent to.
THEOREM InvariantHolds == Spec => []IInv
<1>1. Init => IInv
  BY InitEstablishes
<1>2. IInv /\ [Next]_vars => IInv'
  BY NextPreserves
<1> QED
  BY <1>1, <1>2, PTL DEF Spec

\* Every variable keeps its type: in particular the status column only ever holds one of
\* the five values the code compares it with.
THEOREM TypeCorrect == Spec => []TypeOK
<1>1. IInv => TypeOK
  BY DEF IInv
<1> QED
  BY <1>1, InvariantHolds, PTL

\* An order that was settled has enrolled its buyer in every course on offer when it was
\* placed that still exists, for any number of concurrent verify calls, webhook deliveries,
\* rollbacks, resets and deletions; unless its bundle was deleted before the settlement.
THEOREM PaidOrdersEnroll == Spec => []PaidImpliesEnrolled
<1>1. IInv => PaidImpliesEnrolled
  BY DEF IInv
<1> QED
  BY <1>1, InvariantHolds, PTL

\* No enrollment is made by a settlement without a captured payment for it.
THEOREM EnrollmentsAreBacked == Spec => []EnrollmentBacked
<1>1. IInv => EnrollmentBacked
  BY DEF IInv
<1> QED
  BY <1>1, InvariantHolds, PTL

\* A purchase is announced, and its referral rewarded, at most once, and once more for each
\* time the settled row was captured again.
THEOREM AnnouncedOncePerSettlement == Spec => []AnnouncedPerSettlement
<1>1. ASSUME IInv PROVE AnnouncedPerSettlement
  <2> SUFFICES ASSUME NEW o \in Orders PROVE emitted[o] <= 1 + resets[o]
    BY DEF AnnouncedPerSettlement
  <2>1. emitted[o] + Cardinality(Owing(o)) <= settlements[o]
    BY <1>1 DEF IInv, OwedInv
  <2>2. settlements[o] <= resets[o] + (IF Settled(o) THEN 1 ELSE 0)
    BY <1>1 DEF IInv, RowInv
  <2>3. emitted[o] \in Nat /\ settlements[o] \in Nat /\ resets[o] \in Nat
    BY <1>1, LedgerAssumptions DEF IInv, TypeOK
  <2> QED
    BY <2>1, <2>2, <2>3, OwingFinite
<1> QED
  BY <1>1, InvariantHolds, PTL

\* Razorpay executes at most one refund of an order, of one that was settled, and the row
\* keeps its amount, whatever resets and settlements come after it.
THEOREM RefundsAlwaysAgree == Spec => []RefundsAgree
<1>1. IInv => RefundsAgree
  BY DEF IInv
<1> QED
  BY <1>1, InvariantHolds, PTL

-----------------------------------------------------------------------------
(* The payments table implements OrderLifecycle *)

\* The variables of OrderLifecycle, as this table keeps them.
lifeVars == <<status, settlements, resets, emitted>>

\* Steps that leave them alone.
LEMMA QuietStep ==
  ASSUME UNCHANGED lifeVars
  PROVE  [Lifecycle!Next]_lifeVars
  OBVIOUS

\* A row captured by the verify call of a subscription or an installment.
LEMMA CapturedRefines ==
  ASSUME IInv, NEW o \in Orders,
         VerifyInstallmentPayment(o) \/ \E w \in Workers : VerifyCheckout(w, o)
  PROVE  [Lifecycle!Next]_lifeVars
<1>1. MarkCaptured(o) /\ UNCHANGED <<settlements, emitted>>
  BY DEF VerifyInstallmentPayment, VerifyCheckout
<1>2. status[o] \in {"created", "captured", "paid", "refunded"} /\ status' = [status EXCEPT ![o] = "captured"]
  BY <1>1 DEF MarkCaptured, IInv, TypeOK, Statuses
<1>3. CASE status[o] = "created"
  BY <1>1, <1>2, <1>3 DEF MarkCaptured, Settled, Lifecycle!Next, Lifecycle!Capture, Lifecycle!Move
<1>4. CASE status[o] = "captured"
  <2>1. status' = status
    BY <1>2, <1>4 DEF IInv, TypeOK
  <2>2. UNCHANGED resets
    BY <1>1, <1>4 DEF MarkCaptured, Settled
  <2> QED
    BY <1>1, <2>1, <2>2, QuietStep DEF lifeVars
<1>5. CASE status[o] \in {"paid", "refunded"}
  BY <1>1, <1>2, <1>5 DEF MarkCaptured, Settled, Lifecycle!Next, Lifecycle!Reset, Lifecycle!Move
<1> QED
  BY <1>2, <1>3, <1>4, <1>5

\* Of the first steps of requests only a subscription verify changes a row.
LEMMA RequestRefines ==
  ASSUME IInv, NEW w \in Workers, NEW o \in Orders, Request(w, o)
  PROVE  [Lifecycle!Next]_lifeVars
<1>1. CASE VerifyCheckout(w, o)
  BY <1>1, CapturedRefines
<1>2. CASE ~ VerifyCheckout(w, o)
  BY <1>2, QuietStep DEF Request, Place, BuyCourse, BuyBundle, StartCheckout, CreateOrder, Verify,
     VerifyBundle, Webhook, Settle, IssueRefund, rowVars, histVars, lifeVars
<1> QED
  BY <1>1, <1>2

\* The INSERT places, the commit settles, the patch refunds, and the event announces.
LEMMA ContinueRefines ==
  ASSUME IInv, NEW w \in Workers, Continue(w) \/ Fail(w)
  PROVE  [Lifecycle!Next]_lifeVars
<1>a. pc[w] # "idle" => ord[w] \in Orders
  BY DEF IInv, RequestInv
<1>1. CASE InsertOrder(w)
  <2>1. status[ord[w]] = "absent" /\ ord[w] \in Orders
    BY <1>a, <1>1 DEF InsertOrder, IInv, RequestInv
  <2>2. status' = [status EXCEPT ![ord[w]] = "created"] /\ UNCHANGED <<settlements, resets, emitted>>
    BY <1>1 DEF InsertOrder, histVars
  <2> QED
    BY <2>1, <2>2 DEF Lifecycle!Next, Lifecycle!Place, Lifecycle!Move
<1>2. CASE Commit(w)
  <2>1. status[ord[w]] \in {"created", "captured"} /\ ord[w] \in Orders
    BY <1>a, <1>2 DEF Commit, IInv, SettleInv
  <2>2. /\ status' = [status EXCEPT ![ord[w]] = "paid"]
        /\ settlements' = [settlements EXCEPT ![ord[w]] = @ + 1]
        /\ UNCHANGED <<resets, emitted>>
    BY <1>2 DEF Commit
  <2> QED
    BY <2>1, <2>2 DEF Lifecycle!Next, Lifecycle!Settle, Lifecycle!Move
<1>3. CASE Notify(w)
  <2>1. ord[w] \in Orders /\ w \in Owing(ord[w])
    BY <1>a, <1>3 DEF Notify, Owing
  <2>2. Cardinality(Owing(ord[w])) # 0
    BY <2>1, OwingFinite, FS_EmptySet
  <2>3. emitted[ord[w]] < settlements[ord[w]]
    <3>1. emitted[ord[w]] + Cardinality(Owing(ord[w])) <= settlements[ord[w]]
      BY <2>1 DEF IInv, OwedInv
    <3>2. emitted[ord[w]] \in Nat /\ settlements[ord[w]] \in Nat
      BY <2>1 DEF IInv, TypeOK
    <3> QED
      BY <2>2, <3>1, <3>2, OwingFinite
  <2>4. emitted' = [emitted EXCEPT ![ord[w]] = @ + 1] /\ UNCHANGED <<status, settlements, resets>>
    BY <1>3 DEF Notify, rowVars, histVars
  <2> QED
    BY <2>1, <2>3, <2>4 DEF Lifecycle!Next, Lifecycle!Announce
<1>4. CASE MarkPaymentRefunded(w)
  <2>1. settlements[ord[w]] > 0 /\ ord[w] \in Orders
    BY <1>a, <1>4 DEF MarkPaymentRefunded, IInv, RefundInv
  <2>2. status[ord[w]] \in {"paid", "captured", "refunded"}
    BY <2>1 DEF IInv, TypeOK, Statuses, RowInv
  <2>3. status' = [status EXCEPT ![ord[w]] = "refunded"] /\ UNCHANGED <<settlements, resets, emitted>>
    BY <1>4 DEF MarkPaymentRefunded, histVars
  <2>4. CASE status[ord[w]] \in {"paid", "captured"}
    BY <2>1, <2>3, <2>4 DEF Lifecycle!Next, Lifecycle!Refund, Lifecycle!Move
  <2>5. CASE status[ord[w]] = "refunded"
    <3>1. status' = status
      BY <2>1, <2>3, <2>5 DEF IInv, TypeOK
    <3> QED
      BY <2>3, <3>1, QuietStep DEF lifeVars
  <2> QED
    BY <2>2, <2>4, <2>5
<1>5. CASE ~ (InsertOrder(w) \/ Commit(w) \/ Notify(w) \/ MarkPaymentRefunded(w))
  BY <1>5, QuietStep DEF Continue, Fail, Enroll, EnrollRejected, DeadlockVictim,
     ActivateSubscription, CreateRefund, rowVars, histVars, lifeVars
<1> QED
  BY <1>1, <1>2, <1>3, <1>4, <1>5

\* Whatever verify calls, webhooks, refunds and failures do, and whichever verify endpoint an
\* order is sent to, each order goes through the abstract lifecycle: settled only while it is
\* open, announced at most once per settlement, refunded only after a settlement, and open
\* again after one only by being captured again.
THEOREM ImplementsLifecycle == Spec => LifecycleSpec
<1>1. Init => Lifecycle!Init
  BY DEF Init, Lifecycle!Init
<1>2. IInv /\ [Next]_vars => [Lifecycle!Next]_lifeVars
  <2> SUFFICES ASSUME IInv, [Next]_vars PROVE [Lifecycle!Next]_lifeVars
    OBVIOUS
  <2>1. CASE \E w \in Workers, o \in Orders : Request(w, o)
    BY <2>1, RequestRefines
  <2>2. CASE \E w \in Workers : Continue(w) \/ Fail(w)
    BY <2>2, ContinueRefines
  <2>3. CASE \E o \in Orders : CustomerPays(o) \/ WebhookSkip(o) \/ WebhookLookupFails(o)
    BY <2>3, QuietStep DEF CustomerPays, WebhookSkip, WebhookLookupFails, rowVars, histVars, lifeVars
  <2>4. CASE \E o \in Orders : VerifyInstallmentPayment(o)
    BY <2>4, CapturedRefines
  <2>5. CASE Admin
    BY <2>5, QuietStep DEF Admin, EnrollDirect, AdminCreateBundle, AdminDeleteBundle,
       AddCourseToBundle, AdminSetActive, DeleteCourse, rowVars, histVars, lifeVars
  <2>6. CASE UNCHANGED vars
    BY <2>6, QuietStep DEF vars, rowVars, histVars, lifeVars
  <2> QED
    BY <2>1, <2>2, <2>3, <2>4, <2>5, <2>6 DEF Next
<1>3. Spec => []IInv
  BY InvariantHolds
<1> QED
  BY <1>1, <1>2, <1>3, PTL DEF Spec, LifecycleSpec, Lifecycle!Spec, lifeVars

=============================================================================
