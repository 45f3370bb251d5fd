--------------------------- MODULE Subscriptions ---------------------------
(***************************************************************************)
(* Plans that a student subscribes to: free ones, active from the          *)
(* checkout, and paid ones, active from the verified payment, for a number *)
(* of days.  A checkout and a verification are sequences of statements in  *)
(* no transaction, so that the payment and the subscription it pays for    *)
(* change one after the other; students cancel, days pass, and Razorpay    *)
(* calls the webhook of this package whenever it likes, late and twice.    *)
(***************************************************************************)
EXTENDS Integers, FiniteSets

CONSTANTS
  Subs,        \* rows of user_subscriptions there is room for, each with its payment
  FreePlans, PaidPlans,
  Checkouts,   \* requests in flight at one time
  Days,        \* duration_days of the plans
  LastDay,     \* bound of the run: days it lasts
  MaxLosses    \* bound of the run: statements that fail, and crashes

ASSUME SubscriptionAssumptions ==
  /\ FreePlans \cap PaidPlans = {}
  /\ Days \in Nat \ {0} /\ LastDay \in Nat /\ MaxLosses \in Nat

VARIABLES
  today,
  subs,     \* rows of user_subscriptions
  pays,     \* rows of payments, by the subscription they are for
  rzp,      \* external: what became of the Razorpay order of each subscription
  checkout, \* where each request is, and the subscription it is about
  losses

subscriptionVars == <<today, subs, pays, rzp, checkout, losses>>

Plans == FreePlans \cup PaidPlans
NoPlan == "none"
NoSub == [status |-> "none", plan |-> NoPlan, ends |-> 0]
NoCheckout == [at |-> "idle", sub |-> NoPlan]

SubscriptionTypeOK ==
  /\ today \in 0 .. LastDay
  /\ subs \in [Subs -> [status : {"none", "pending", "active", "cancelled"},
                        plan : Plans \cup {NoPlan}, ends : 0 .. LastDay + Days]]
  /\ pays \in [Subs -> {"none", "created", "captured", "failed"}]
  \* attempted: an attempt to pay has failed, and Razorpay says so; an order may be tried again
  /\ rzp \in [Subs -> [order : BOOLEAN, paid : BOOLEAN, attempted : BOOLEAN]]
  /\ checkout \in [Checkouts -> [at : {"idle", "price", "payment", "capture", "activate", "cancel"},
                                 sub : Subs \cup {NoPlan}]]
  /\ losses \in 0 .. MaxLosses

SubscriptionInit ==
  /\ today = 0
  /\ subs = [s \in Subs |-> NoSub]
  /\ pays = [s \in Subs |-> "none"]
  /\ rzp = [s \in Subs |-> [order |-> FALSE, paid |-> FALSE, attempted |-> FALSE]]
  /\ checkout = [c \in Checkouts |-> NoCheckout]
  /\ losses = 0

-----------------------------------------------------------------------------
At(c, pc) == checkout[c].at = pc
Go(c, pc) == checkout' = [checkout EXCEPT ![c].at = pc]
Done(c) == checkout' = [checkout EXCEPT ![c] = NoCheckout]
Activated(s) == [subs EXCEPT ![s].status = "active", ![s].ends = today + Days]

\* A statement fails or the server stops: the request ends where it is.
Lose(c) ==
  /\ ~At(c, "idle") /\ losses < MaxLosses
  /\ losses' = losses + 1 /\ Done(c)
  /\ UNCHANGED <<today, subs, pays, rzp>>

\* POST /subscriptions/checkout of plan p: a pending row.
Checkout(c, s, p) ==
  /\ At(c, "idle") /\ subs[s].status = "none"
  /\ subs' = [subs EXCEPT ![s] = [NoSub EXCEPT !.status = "pending", !.plan = p]]
  /\ checkout' = [checkout EXCEPT ![c] = [at |-> "price", sub |-> s]]
  /\ UNCHANGED <<today, pays, rzp, losses>>

\* A free plan is active at once, a paid one gets an order at Razorpay.
StartCheckout(c) ==
  /\ At(c, "price")
  /\ LET s == checkout[c].sub IN
       \/ /\ subs[s].plan \in FreePlans
          /\ subs' = Activated(s) /\ Done(c) /\ UNCHANGED rzp
       \/ /\ subs[s].plan \in PaidPlans
          /\ rzp' = [rzp EXCEPT ![s].order = TRUE] /\ Go(c, "payment") /\ UNCHANGED subs
  /\ UNCHANGED <<today, pays, losses>>

CreatePayment(c) ==
  /\ At(c, "payment")
  /\ pays' = [pays EXCEPT ![checkout[c].sub] = "created"]
  /\ Done(c)
  /\ UNCHANGED <<today, subs, rzp, losses>>

\* External: the student tries to pay an order the checkout answered with.
Attempt(s, success) ==
  /\ pays[s] # "none" /\ ~rzp[s].paid
  /\ rzp' = IF success THEN [rzp EXCEPT ![s].paid = TRUE] ELSE [rzp EXCEPT ![s].attempted = TRUE]
  /\ UNCHANGED <<today, subs, pays, checkout, losses>>

\* POST /subscriptions/verify: Razorpay signs what has been paid, and the payment is found.
Verify(c, s) ==
  /\ At(c, "idle") /\ rzp[s].paid /\ pays[s] # "none"
  /\ checkout' = [checkout EXCEPT ![c] = [at |-> "capture", sub |-> s]]
  /\ UNCHANGED <<today, subs, pays, rzp, losses>>

\* VerifyCheckout, whatever the status of the payment and of the subscription are.
Capture(c) ==
  /\ At(c, "capture")
  /\ pays' = [pays EXCEPT ![checkout[c].sub] = "captured"]
  /\ Go(c, "activate")
  /\ UNCHANGED <<today, subs, rzp, losses>>

Activate(c) ==
  /\ At(c, "activate")
  /\ subs' = Activated(checkout[c].sub)
  /\ Done(c)
  /\ UNCHANGED <<today, pays, rzp, losses>>

\* POST /subscriptions/:id/cancel: the row is read, and then cancelled.
Cancel(c, s) ==
  /\ At(c, "idle") /\ subs[s].status # "none"
  /\ checkout' = [checkout EXCEPT ![c] = [at |-> "cancel", sub |-> s]]
  /\ UNCHANGED <<today, subs, pays, rzp, losses>>

CancelSubscription(c) ==
  /\ At(c, "cancel")
  /\ subs' = [subs EXCEPT ![checkout[c].sub].status = "cancelled"]
  /\ Done(c)
  /\ UNCHANGED <<today, pays, rzp, losses>>

\* Mutant of HookSees: the webhook runs as a super admin.
HookSeesAll == {s \in Subs : pays[s] # "none"}
\* The payments the webhook of this package finds: its session carries no tenant, and the
\* policies show such a session no row.
HookSees == {}

\* POST /subscriptions/webhook, with payment.captured or payment.failed.
HandleWebhook(s, event) ==
  /\ event = "captured" => rzp[s].paid
  /\ event = "failed" => rzp[s].attempted
  /\ pays' = IF s \in HookSees THEN [pays EXCEPT ![s] = event] ELSE pays
  /\ UNCHANGED <<today, subs, rzp, checkout, losses>>

Midnight ==
  /\ today < LastDay
  /\ today' = today + 1
  /\ UNCHANGED <<subs, pays, rzp, checkout, losses>>

SubscriptionNext ==
  \/ Midnight
  \/ \E c \in Checkouts :
       \/ StartCheckout(c) \/ CreatePayment(c) \/ Capture(c) \/ Activate(c)
       \/ CancelSubscription(c) \/ Lose(c)
  \/ \E c \in Checkouts, s \in Subs : Verify(c, s) \/ Cancel(c, s) \/ \E p \in Plans : Checkout(c, s, p)
  \/ \E s \in Subs : \E success \in BOOLEAN : Attempt(s, success)
  \/ \E s \in Subs, event \in {"captured", "failed"} : HandleWebhook(s, event)

SubscriptionSpec == SubscriptionInit /\ [][SubscriptionNext]_subscriptionVars

-----------------------------------------------------------------------------
\* What GET /subscriptions/me finds among the rows of the student.
GetActiveSubscription == {s \in Subs : subs[s].status = "active" /\ subs[s].ends > today}

\* Who has access by a paid plan has paid, and the books say so: neither a verification that
\* stops half-way, nor a cancellation, nor what the webhook hears of an earlier attempt to pay,
\* separates the access from a captured payment.
AccessIsPaidFor ==
  \A s \in GetActiveSubscription :
    subs[s].plan \in PaidPlans => rzp[s].paid /\ pays[s] = "captured"
=============================================================================
