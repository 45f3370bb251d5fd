---------------------------- MODULE CampusProofs ----------------------------
(***************************************************************************)
(* Proofs about what is paid for (Subscriptions, Referrals, Coupons, Fees), *)
(* what is shown and built (Showcase, AppBuilds) and who may ask for it    *)
(* (Gateway), for any number of requests and rows, and about the           *)
(* composition of all modules of the campus (MCCampus).                    *)
(*                                                                         *)
(* Fees speak of a sum over the installments.  What a sum is worth is shown *)
(* by induction over the number of summands, as a property of the set of   *)
(* those numbers for which the recursion has a solution.  Of Gateway they  *)
(* show who comes through the table of routes, for any paths.              *)
(***************************************************************************)
EXTENDS MCCampus, LearningProofs, TLAPS, FiniteSetTheorems, WellFoundedInduction

-----------------------------------------------------------------------------
(* Subscriptions *)

SubRows ==
  [status : {"none", "pending", "active", "cancelled"}, plan : Plans \cup {NoPlan}, ends : 0 .. LastDay + Days]
OrderRows == [order : BOOLEAN, paid : BOOLEAN, attempted : BOOLEAN]
CheckoutRows ==
  [at : {"idle", "price", "payment", "capture", "activate", "cancel"}, sub : Subs \cup {NoPlan}]

\* What a request knows of the subscription it is about.
CheckoutKnows(c) ==
  checkout[c].at # "idle" =>
    /\ checkout[c].sub \in Subs /\ subs[checkout[c].sub].status # "none"
    /\ checkout[c].at \in {"price", "payment"} => pays[checkout[c].sub] = "none"
    /\ checkout[c].at = "capture" => rzp[checkout[c].sub].paid /\ pays[checkout[c].sub] # "none"
    /\ checkout[c].at = "activate" => rzp[checkout[c].sub].paid /\ pays[checkout[c].sub] = "captured"

\* A row is bought once: by the request that has made it.
OneBuyer ==
  \A c, d \in Checkouts :
    /\ checkout[c].at \in {"price", "payment"} /\ checkout[d].at \in {"price", "payment"}
    /\ checkout[c].sub = checkout[d].sub
    => c = d

SubSound(s) ==
  /\ pays[s] # "none" => subs[s].status # "none"
  /\ subs[s].status = "active" /\ subs[s].plan \in PaidPlans => rzp[s].paid /\ pays[s] = "captured"

SubscriptionInv ==
  /\ SubscriptionTypeOK /\ OneBuyer
  /\ \A c \in Checkouts : CheckoutKnows(c)
  /\ \A s \in Subs : SubSound(s)

LEMMA SubscriptionTypes ==
  SubscriptionTypeOK <=>
    /\ today \in 0 .. LastDay /\ subs \in [Subs -> SubRows] /\ pays \in [Subs -> {"none", "created", "captured", "failed"}]
    /\ rzp \in [Subs -> OrderRows] /\ checkout \in [Checkouts -> CheckoutRows] /\ losses \in 0 .. MaxLosses
BY DEF SubscriptionTypeOK, SubRows, OrderRows, CheckoutRows

LEMMA SubscriptionTyped ==
  ASSUME SubscriptionInv
  PROVE  /\ today \in 0 .. LastDay /\ subs \in [Subs -> SubRows] /\ pays \in [Subs -> {"none", "created", "captured", "failed"}]
         /\ rzp \in [Subs -> OrderRows] /\ checkout \in [Checkouts -> CheckoutRows] /\ losses \in 0 .. MaxLosses
BY SubscriptionTypes DEF SubscriptionInv

\* A request that goes on or ends, while no row changes.
LEMMA CheckoutMoves ==
  ASSUME SubscriptionInv, NEW c \in Checkouts, NEW row \in CheckoutRows, checkout' = [checkout EXCEPT ![c] = row],
         UNCHANGED <<today, subs, pays, rzp>>, losses' \in 0 .. MaxLosses,
         \/ row.at = "idle"
         \/ /\ row.sub \in Subs /\ subs[row.sub].status # "none" /\ row.at \in {"capture", "activate", "cancel"}
            /\ row.at = "capture" => rzp[row.sub].paid /\ pays[row.sub] # "none"
            /\ row.at = "activate" => rzp[row.sub].paid /\ pays[row.sub] = "captured"
  PROVE  SubscriptionInv'
<1>1. \A d \in Checkouts : checkout'[d] = IF d = c THEN row ELSE checkout[d]
    BY SubscriptionTyped
<1>2. SubscriptionTypeOK'
    BY SubscriptionTyped DEF SubscriptionTypeOK, SubRows, OrderRows, CheckoutRows
<1>3. \A d \in Checkouts : CheckoutKnows(d)'
    BY <1>1 DEF SubscriptionInv, CheckoutKnows
<1>4. OneBuyer'
    BY <1>1 DEF SubscriptionInv, OneBuyer
<1>5. \A s \in Subs : SubSound(s)'
    BY DEF SubscriptionInv, SubSound
<1> QED  BY <1>2, <1>3, <1>4, <1>5 DEF SubscriptionInv

LEMMA IdleTyped == NoCheckout \in CheckoutRows /\ NoCheckout.at = "idle"
BY DEF NoCheckout, CheckoutRows

LEMMA LoseStep == ASSUME SubscriptionInv, NEW c \in Checkouts, Lose(c) PROVE SubscriptionInv'
<1>1. losses' \in 0 .. MaxLosses
    BY SubscriptionTyped, SubscriptionAssumptions DEF Lose
<1> QED  BY <1>1, IdleTyped, CheckoutMoves DEF Lose, Done

LEMMA CheckoutStep ==
  ASSUME SubscriptionInv, NEW c \in Checkouts, NEW s \in Subs, NEW p \in Plans, Checkout(c, s, p)
  PROVE  SubscriptionInv'
<1> DEFINE row == [NoSub EXCEPT !.status = "pending", !.plan = p]
           new == [at |-> "price", sub |-> s]
<1>1. row \in SubRows /\ row.status = "pending" /\ new \in CheckoutRows
  <2>1. NoSub \in SubRows
      BY SubscriptionAssumptions DEF NoSub, SubRows
  <2>2. row \in SubRows /\ row.status = "pending"
      BY <2>1 DEF SubRows
  <2> QED  BY <2>2 DEF CheckoutRows
<1>2. /\ subs' = [subs EXCEPT ![s] = row] /\ checkout' = [checkout EXCEPT ![c] = new]
      /\ UNCHANGED <<today, pays, rzp, losses>> /\ subs[s].status = "none"
    BY DEF Checkout
<1> HIDE DEF row
<1>3. /\ \A d \in Checkouts : checkout'[d] = IF d = c THEN new ELSE checkout[d]
      /\ \A t \in Subs : subs'[t] = IF t = s THEN row ELSE subs[t]
    BY <1>2, SubscriptionTyped
<1>4. SubscriptionTypeOK'
    BY <1>1, <1>2, SubscriptionTyped DEF SubscriptionTypeOK, SubRows, OrderRows, CheckoutRows
<1>5. pays[s] = "none" /\ \A d \in Checkouts : checkout[d].at # "idle" => checkout[d].sub # s
    BY <1>2 DEF SubscriptionInv, SubSound, CheckoutKnows
<1>6. \A d \in Checkouts : CheckoutKnows(d)'
    BY <1>1, <1>2, <1>3, <1>5 DEF SubscriptionInv, CheckoutKnows
<1>7. OneBuyer'
    BY <1>3, <1>5 DEF SubscriptionInv, OneBuyer
<1>8. \A t \in Subs : SubSound(t)'
    BY <1>1, <1>2, <1>3 DEF SubscriptionInv, SubSound
<1> QED  BY <1>4, <1>6, <1>7, <1>8 DEF SubscriptionInv

\* A row that becomes active is one that may.
LEMMA Activation ==
  ASSUME SubscriptionInv, NEW c \in Checkouts, NEW s \in Subs, subs' = Activated(s), Done(c),
         UNCHANGED <<today, pays, rzp, losses>>, subs[s].status # "none",
         subs[s].plan \in PaidPlans => rzp[s].paid /\ pays[s] = "captured"
  PROVE  SubscriptionInv'
<1> DEFINE row == [subs[s] EXCEPT !.status = "active", !.ends = today + Days]
<1>1. subs' = [subs EXCEPT ![s] = row]
    BY SubscriptionTyped DEF Activated
<1>2. row \in SubRows /\ row.status = "active" /\ row.plan = subs[s].plan
  <2>1. subs[s] \in SubRows /\ today + Days \in 0 .. LastDay + Days
      BY SubscriptionTyped, SubscriptionAssumptions
  <2> QED  BY <2>1 DEF SubRows
<1> HIDE DEF row
<1>3. /\ \A d \in Checkouts : checkout'[d] = IF d = c THEN NoCheckout ELSE checkout[d]
      /\ \A t \in Subs : subs'[t] = IF t = s THEN row ELSE subs[t]
    BY <1>1, SubscriptionTyped DEF Done
<1>4. SubscriptionTypeOK'
    BY <1>1, <1>2, IdleTyped, SubscriptionTyped DEF SubscriptionTypeOK, SubRows, OrderRows, CheckoutRows, Done
<1>5. \A d \in Checkouts : CheckoutKnows(d)'
    BY <1>2, <1>3, IdleTyped DEF SubscriptionInv, CheckoutKnows
<1>6. OneBuyer'
    BY <1>3, IdleTyped DEF SubscriptionInv, OneBuyer
<1>7. \A t \in Subs : SubSound(t)'
    BY <1>2, <1>3 DEF SubscriptionInv, SubSound
<1> QED  BY <1>4, <1>5, <1>6, <1>7 DEF SubscriptionInv

LEMMA StartCheckoutStep == ASSUME SubscriptionInv, NEW c \in Checkouts, StartCheckout(c) PROVE SubscriptionInv'
<1> DEFINE s == checkout[c].sub
<1>1. s \in Subs /\ subs[s].status # "none" /\ pays[s] = "none" /\ checkout[c].at = "price" /\ UNCHANGED <<today, pays, losses>>
    BY DEF StartCheckout, SubscriptionInv, CheckoutKnows, At
<1>2. CASE subs[s].plan \in FreePlans /\ subs' = Activated(s) /\ Done(c) /\ UNCHANGED rzp
    BY <1>1, <1>2, Activation, SubscriptionAssumptions
<1>3. CASE rzp' = [rzp EXCEPT ![s].order = TRUE] /\ Go(c, "payment") /\ UNCHANGED subs
  <2> DEFINE new == [checkout[c] EXCEPT !.at = "payment"]
  <2>1. checkout' = [checkout EXCEPT ![c] = new] /\ new \in CheckoutRows /\ new.at = "payment" /\ new.sub = s
    <3>1. checkout[c] \in CheckoutRows
        BY SubscriptionTyped
    <3> QED  BY <1>3, <3>1, SubscriptionTyped DEF Go, CheckoutRows
  <2>2. rzp' \in [Subs -> OrderRows] /\ \A t \in Subs : rzp'[t].paid = rzp[t].paid
    <3>1. [rzp[s] EXCEPT !.order = TRUE] \in OrderRows /\ [rzp[s] EXCEPT !.order = TRUE].paid = rzp[s].paid
        BY <1>1, SubscriptionTyped DEF OrderRows
    <3> QED  BY <1>1, <1>3, <3>1, SubscriptionTyped
  <2> HIDE DEF new, s
  <2>3. \A d \in Checkouts : checkout'[d] = IF d = c THEN new ELSE checkout[d]
      BY <2>1, SubscriptionTyped
  <2>4. SubscriptionTypeOK'
      BY <1>1, <1>3, <2>1, <2>2, SubscriptionTyped DEF SubscriptionTypeOK, SubRows, OrderRows, CheckoutRows
  <2>5. \A d \in Checkouts : CheckoutKnows(d)'
      BY <1>1, <1>3, <2>1, <2>2, <2>3 DEF SubscriptionInv, CheckoutKnows
  <2>6. OneBuyer'
      BY <1>1, <2>1, <2>3 DEF SubscriptionInv, OneBuyer, s
  <2>7. \A t \in Subs : SubSound(t)'
      BY <1>1, <1>3, <2>2 DEF SubscriptionInv, SubSound
  <2> QED  BY <2>4, <2>5, <2>6, <2>7 DEF SubscriptionInv
<1> QED  BY <1>2, <1>3 DEF StartCheckout

LEMMA CreatePaymentStep == ASSUME SubscriptionInv, NEW c \in Checkouts, CreatePayment(c) PROVE SubscriptionInv'
<1> DEFINE s == checkout[c].sub
<1>1. /\ s \in Subs /\ subs[s].status # "none" /\ pays[s] = "none" /\ checkout[c].at = "payment"
      /\ UNCHANGED <<today, subs, rzp, losses>> /\ pays' = [pays EXCEPT ![s] = "created"] /\ Done(c)
    BY DEF CreatePayment, SubscriptionInv, CheckoutKnows, At
<1>2. /\ \A d \in Checkouts : checkout'[d] = IF d = c THEN NoCheckout ELSE checkout[d]
      /\ \A t \in Subs : pays'[t] = IF t = s THEN "created" ELSE pays[t]
    BY <1>1, SubscriptionTyped DEF Done
<1>3. SubscriptionTypeOK'
    BY <1>1, IdleTyped, SubscriptionTyped DEF SubscriptionTypeOK, SubRows, OrderRows, CheckoutRows, Done
<1>4. ASSUME NEW d \in Checkouts, d # c, checkout[d].at \in {"price", "payment"} PROVE checkout[d].sub # s
    BY <1>1, <1>4 DEF SubscriptionInv, OneBuyer
<1> HIDE DEF s
<1>5. \A d \in Checkouts : CheckoutKnows(d)'
    BY <1>1, <1>2, <1>4, IdleTyped DEF SubscriptionInv, CheckoutKnows
<1>6. OneBuyer'
    BY <1>2, IdleTyped DEF SubscriptionInv, OneBuyer
<1>7. \A t \in Subs : SubSound(t)'
    BY <1>1, <1>2 DEF SubscriptionInv, SubSound
<1> QED  BY <1>3, <1>5, <1>6, <1>7 DEF SubscriptionInv

LEMMA PaymentAttemptStep ==
  ASSUME SubscriptionInv, NEW s \in Subs, NEW success \in BOOLEAN, Attempt(s, success) PROVE SubscriptionInv'
<1>1. UNCHANGED <<today, subs, pays, checkout, losses>>
    BY DEF Attempt
<1>2. rzp' \in [Subs -> OrderRows] /\ \A t \in Subs : rzp[t].paid => rzp'[t].paid
  <2>1. rzp[s] \in OrderRows
      BY SubscriptionTyped
  <2>2. /\ [rzp[s] EXCEPT !.paid = TRUE] \in OrderRows /\ [rzp[s] EXCEPT !.paid = TRUE].paid
        /\ [rzp[s] EXCEPT !.attempted = TRUE] \in OrderRows /\ [rzp[s] EXCEPT !.attempted = TRUE].paid = rzp[s].paid
      BY <2>1 DEF OrderRows
  <2>3. \/ rzp' = [rzp EXCEPT ![s] = [rzp[s] EXCEPT !.paid = TRUE]]
        \/ rzp' = [rzp EXCEPT ![s] = [rzp[s] EXCEPT !.attempted = TRUE]]
      BY SubscriptionTyped DEF Attempt
  <2> QED  BY <2>2, <2>3, SubscriptionTyped
<1>3. SubscriptionTypeOK'
    BY <1>1, <1>2, SubscriptionTyped DEF SubscriptionTypeOK, SubRows, OrderRows, CheckoutRows
<1>4. (\A d \in Checkouts : CheckoutKnows(d)') /\ OneBuyer' /\ (\A t \in Subs : SubSound(t)')
    BY <1>1, <1>2 DEF SubscriptionInv, CheckoutKnows, OneBuyer, SubSound
<1> QED  BY <1>3, <1>4 DEF SubscriptionInv

LEMMA CheckoutCaptureStep == ASSUME SubscriptionInv, NEW c \in Checkouts, Capture(c) PROVE SubscriptionInv'
<1> DEFINE s == checkout[c].sub
           new == [checkout[c] EXCEPT !.at = "activate"]
<1>1. /\ s \in Subs /\ subs[s].status # "none" /\ pays[s] # "none" /\ rzp[s].paid
      /\ UNCHANGED <<today, subs, rzp, losses>> /\ pays' = [pays EXCEPT ![s] = "captured"]
    BY DEF Capture, SubscriptionInv, CheckoutKnows, At
<1>2. checkout' = [checkout EXCEPT ![c] = new] /\ new \in CheckoutRows /\ new.at = "activate" /\ new.sub = s
  <2>1. checkout[c] \in CheckoutRows
      BY SubscriptionTyped
  <2> QED  BY <2>1, SubscriptionTyped DEF Capture, Go, CheckoutRows
<1> HIDE DEF new, s
<1>3. /\ \A d \in Checkouts : checkout'[d] = IF d = c THEN new ELSE checkout[d]
      /\ \A t \in Subs : pays'[t] = IF t = s THEN "captured" ELSE pays[t]
    BY <1>1, <1>2, SubscriptionTyped
<1>4. SubscriptionTypeOK'
    BY <1>1, <1>2, SubscriptionTyped DEF SubscriptionTypeOK, SubRows, OrderRows, CheckoutRows
<1>5. \A d \in Checkouts : CheckoutKnows(d)'
    BY <1>1, <1>2, <1>3 DEF SubscriptionInv, CheckoutKnows
<1>6. OneBuyer'
    BY <1>2, <1>3 DEF SubscriptionInv, OneBuyer
<1>7. \A t \in Subs : SubSound(t)'
    BY <1>1, <1>3 DEF SubscriptionInv, SubSound
<1> QED  BY <1>4, <1>5, <1>6, <1>7 DEF SubscriptionInv

LEMMA ActivateStep == ASSUME SubscriptionInv, NEW c \in Checkouts, Activate(c) PROVE SubscriptionInv'
<1>1. /\ checkout[c].sub \in Subs /\ subs[checkout[c].sub].status # "none"
      /\ rzp[checkout[c].sub].paid /\ pays[checkout[c].sub] = "captured"
    BY DEF Activate, SubscriptionInv, CheckoutKnows, At
<1> QED  BY <1>1, Activation DEF Activate

LEMMA VerifyCancelStep ==
  ASSUME SubscriptionInv, NEW c \in Checkouts, NEW s \in Subs, Verify(c, s) \/ Cancel(c, s) PROVE SubscriptionInv'
<1>1. CASE Verify(c, s)
  <2> DEFINE new == [at |-> "capture", sub |-> s]
  <2>1. new \in CheckoutRows
      BY DEF CheckoutRows
  <2>2. subs[s].status # "none"
      BY <1>1 DEF Verify, SubscriptionInv, SubSound
  <2> QED  BY <1>1, <2>1, <2>2, CheckoutMoves, SubscriptionTyped DEF Verify
<1>2. CASE Cancel(c, s)
  <2> DEFINE new == [at |-> "cancel", sub |-> s]
  <2>1. new \in CheckoutRows
      BY DEF CheckoutRows
  <2> QED  BY <1>2, <2>1, CheckoutMoves, SubscriptionTyped DEF Cancel
<1> QED  BY <1>1, <1>2

LEMMA CancelSubscriptionStep ==
  ASSUME SubscriptionInv, NEW c \in Checkouts, CancelSubscription(c) PROVE SubscriptionInv'
<1> DEFINE s == checkout[c].sub
           row == [subs[s] EXCEPT !.status = "cancelled"]
<1>1. s \in Subs /\ UNCHANGED <<today, pays, rzp, losses>> /\ Done(c)
    BY DEF CancelSubscription, SubscriptionInv, CheckoutKnows, At
<1>2. subs' = [subs EXCEPT ![s] = row]
    BY <1>1, SubscriptionTyped DEF CancelSubscription
<1>3. row \in SubRows /\ row.status = "cancelled"
  <2>1. subs[s] \in SubRows
      BY <1>1, SubscriptionTyped
  <2> QED  BY <2>1 DEF SubRows
<1> HIDE DEF row
<1>4. /\ \A d \in Checkouts : checkout'[d] = IF d = c THEN NoCheckout ELSE checkout[d]
      /\ \A t \in Subs : subs'[t] = IF t = s THEN row ELSE subs[t]
    BY <1>1, <1>2, SubscriptionTyped DEF Done
<1>5. SubscriptionTypeOK'
    BY <1>1, <1>2, <1>3, IdleTyped, SubscriptionTyped DEF SubscriptionTypeOK, SubRows, OrderRows, CheckoutRows, Done
<1> HIDE DEF s
<1>6. \A d \in Checkouts : CheckoutKnows(d)'
    BY <1>1, <1>3, <1>4, IdleTyped DEF SubscriptionInv, CheckoutKnows
<1>7. OneBuyer'
    BY <1>4, IdleTyped DEF SubscriptionInv, OneBuyer
<1>8. \A t \in Subs : SubSound(t)'
    BY <1>1, <1>3, <1>4 DEF SubscriptionInv, SubSound
<1> QED  BY <1>5, <1>6, <1>7, <1>8 DEF SubscriptionInv

LEMMA SubscriptionNextStep == SubscriptionInv /\ [SubscriptionNext]_subscriptionVars => SubscriptionInv'
<1> SUFFICES ASSUME SubscriptionInv, [SubscriptionNext]_subscriptionVars PROVE SubscriptionInv'
    OBVIOUS
<1>1. ASSUME UNCHANGED <<subs, pays, rzp, checkout, losses>>, today' \in 0 .. LastDay
      PROVE  SubscriptionInv'
    BY <1>1 DEF SubscriptionInv, SubscriptionTypeOK, CheckoutKnows, OneBuyer, SubSound
<1>2. CASE Midnight
    BY <1>1, <1>2, SubscriptionTyped, SubscriptionAssumptions DEF Midnight
<1>3. CASE UNCHANGED subscriptionVars
    BY <1>1, <1>3, SubscriptionTyped DEF subscriptionVars
<1>4. CASE \E s \in Subs, event \in {"captured", "failed"} : HandleWebhook(s, event)
    BY <1>1, <1>4, SubscriptionTyped DEF HandleWebhook, HookSees
<1> QED
    BY <1>2, <1>3, <1>4, LoseStep, CheckoutStep, StartCheckoutStep, CreatePaymentStep, PaymentAttemptStep, CheckoutCaptureStep,
       ActivateStep, VerifyCancelStep, CancelSubscriptionStep DEF SubscriptionNext

LEMMA SubscriptionInitHolds == SubscriptionInit => SubscriptionInv
<1> SUFFICES ASSUME SubscriptionInit PROVE SubscriptionInv
    OBVIOUS
<1>1. NoSub \in SubRows /\ NoSub.status = "none"
    BY SubscriptionAssumptions DEF NoSub, SubRows
<1>2. SubscriptionTypeOK
    BY <1>1, IdleTyped, SubscriptionTypes, SubscriptionAssumptions DEF SubscriptionInit, OrderRows
<1> QED  BY <1>1, <1>2, IdleTyped DEF SubscriptionInit, SubscriptionInv, CheckoutKnows, OneBuyer, SubSound

\* Every reachable state satisfies the invariant, and with it the type invariant.
THEOREM SubscriptionInvariant == SubscriptionSpec => []SubscriptionInv
BY SubscriptionInitHolds, SubscriptionNextStep, PTL DEF SubscriptionSpec

\* Whoever has access by a plan that costs has paid for it, for any number of plans, checkouts and
\* lost requests.
THEOREM AccessAlwaysPaidFor == SubscriptionSpec => []AccessIsPaidFor
<1>1. SubscriptionInv => AccessIsPaidFor
    BY DEF SubscriptionInv, SubSound, AccessIsPaidFor, GetActiveSubscription
<1> QED  BY <1>1, SubscriptionInvariant, PTL

-----------------------------------------------------------------------------
(* Referrals *)

EventRows == [referrer : Referrers, user : Newcomers, status : {"signed_up", "rewarded"}]
VisitRows ==
  [at : {"idle", "record", "count", "list"}, user : Newcomers \cup {Nobody}, code : Referrers \cup {Nobody}, seen : Nat]
EventsOf(s, c) == {i \in DOMAIN s : s[i].referrer = c}
CountingUse(c) == {v \in Visits : visit[v].at = "count" /\ visit[v].code = c}

\* A code that is not there has brought nobody, and no code goes.
UseCounted(c) ==
  /\ uses[c] # NoCode => Cardinality(EventsOf(events, c)) <= uses[c] + Cardinality(CountingUse(c)) + mishaps
  /\ uses[c] = NoCode => EventsOf(events, c) = {}

\* A request has what its step asks for.
VisitReady(row) ==
  /\ row.at \in {"record", "count"} => row.user \in Newcomers /\ row.code \in Referrers /\ uses[row.code] # NoCode
  /\ row.at = "list" => row.user \in Newcomers

ReferralsInv ==
  /\ ReferralTypeOK
  /\ \A v \in Visits : VisitReady(visit[v])
  /\ \A c \in Referrers : UseCounted(c)

LEMMA ReferralTypes ==
  ReferralTypeOK <=>
    /\ uses \in [Referrers -> Nat \cup {NoCode}] /\ events \in Seq(EventRows)
    /\ visit \in [Visits -> VisitRows] /\ bought \in SUBSET Newcomers /\ mishaps \in 0 .. MaxMishaps
BY DEF ReferralTypeOK, EventRows, VisitRows

LEMMA ReferralsTyped ==
  ASSUME ReferralsInv
  PROVE  /\ uses \in [Referrers -> Nat \cup {NoCode}] /\ events \in Seq(EventRows)
         /\ visit \in [Visits -> VisitRows] /\ bought \in SUBSET Newcomers
         /\ mishaps \in Nat /\ mishaps <= MaxMishaps /\ MaxMishaps \in Nat
BY ReferralTypes, ReferralAssumptions DEF ReferralsInv

LEMMA EventsFinite ==
  ASSUME NEW s \in Seq(EventRows), NEW c
  PROVE  IsFiniteSet(EventsOf(s, c)) /\ Cardinality(EventsOf(s, c)) \in Nat
<1>1. EventsOf(s, c) \subseteq 1 .. Len(s) /\ IsFiniteSet(1 .. Len(s))
    BY FS_Interval DEF EventsOf
<1> QED  BY <1>1, FS_Subset, FS_CardinalityType

LEMMA CountingUseFinite ==
  ASSUME NEW c
  PROVE  IsFiniteSet(CountingUse(c)) /\ Cardinality(CountingUse(c)) \in Nat
<1>1. CountingUse(c) \subseteq Visits
    BY DEF CountingUse
<1> QED  BY <1>1, FS_Subset, FS_CardinalityType, ReferralAssumptions

LEMMA VisitMoves ==
  ASSUME ReferralsInv, NEW v \in Visits, NEW row \in VisitRows, visit' = [visit EXCEPT ![v] = row]
  PROVE  /\ visit' \in [Visits -> VisitRows]
         /\ \A w \in Visits : visit'[w] = IF w = v THEN row ELSE visit[w]
         /\ \A c : (visit[v].at = "count" /\ visit[v].code = c) <=> v \in CountingUse(c)
         /\ \A c : CountingUse(c)' = IF row.at = "count" /\ row.code = c THEN CountingUse(c) \cup {v} ELSE CountingUse(c) \ {v}
<1>1. /\ visit' \in [Visits -> VisitRows]
      /\ \A w \in Visits : visit'[w] = IF w = v THEN row ELSE visit[w]
    BY ReferralsTyped
<1> QED  BY <1>1 DEF CountingUse

\* One use of a code is on its way less: it has been counted, or was never to be, or a failure took it.
LEMMA VisitLeaves ==
  ASSUME ReferralsInv, NEW v \in Visits, NEW row \in VisitRows, visit' = [visit EXCEPT ![v] = row],
         row.at \notin {"record", "count"}, row.at = "list" => row.user \in Newcomers,
         events' \in Seq(EventRows), \A c : EventsOf(events', c) = EventsOf(events, c),
         uses' \in [Referrers -> Nat \cup {NoCode}], bought' \in SUBSET Newcomers, mishaps' \in 0 .. MaxMishaps,
         \A c \in Referrers : uses[c] # NoCode => uses'[c] # NoCode /\ uses'[c] >= uses[c],
         \A c \in Referrers : uses[c] = NoCode => uses'[c] = NoCode,
         mishaps' >= mishaps,
         visit[v].at = "count" => uses'[visit[v].code] = uses[visit[v].code] + 1 \/ mishaps' = mishaps + 1
  PROVE  ReferralsInv'
<1>1. /\ visit' \in [Visits -> VisitRows]
      /\ \A w \in Visits : visit'[w] = IF w = v THEN row ELSE visit[w]
      /\ \A c : (visit[v].at = "count" /\ visit[v].code = c) <=> v \in CountingUse(c)
      /\ \A c : CountingUse(c)' = CountingUse(c) \ {v}
    BY VisitMoves
<1>2. ReferralTypeOK'
    BY <1>1 DEF ReferralTypeOK, EventRows, VisitRows
<1>3. ASSUME NEW w \in Visits PROVE VisitReady(visit[w])'
    BY <1>1 DEF VisitReady, ReferralsInv
<1>4. ASSUME NEW c \in Referrers PROVE UseCounted(c)'
  <2>1. UseCounted(c)
      BY DEF ReferralsInv
  <2>2. CASE uses[c] = NoCode
      BY <2>1, <2>2 DEF UseCounted
  <2>3. CASE uses[c] # NoCode
    <3>1. /\ uses[c] \in Nat /\ uses'[c] \in Nat /\ uses'[c] >= uses[c] /\ mishaps \in Nat /\ mishaps' \in Nat
          /\ Cardinality(EventsOf(events, c)) \in Nat
        BY <2>3, ReferralsTyped, EventsFinite
    <3>2. Cardinality(EventsOf(events', c)) = Cardinality(EventsOf(events, c)) /\ uses'[c] # NoCode
        BY <2>3
    <3>3. Cardinality(EventsOf(events, c)) <= uses[c] + Cardinality(CountingUse(c)) + mishaps
        BY <2>1, <2>3 DEF UseCounted
    <3>4. IsFiniteSet(CountingUse(c)) /\ Cardinality(CountingUse(c)) \in Nat
        BY CountingUseFinite
    <3>5. Cardinality(EventsOf(events', c)) <= uses'[c] + Cardinality(CountingUse(c)') + mishaps'
      <4>1. CASE v \notin CountingUse(c)
        <5>1. CountingUse(c)' = CountingUse(c)
            BY <1>1, <4>1
        <5> QED  BY <3>1, <3>2, <3>3, <3>4, <5>1
      <4>2. CASE v \in CountingUse(c)
        <5>1. Cardinality(CountingUse(c)') = Cardinality(CountingUse(c)) - 1
            BY <1>1, <3>4, <4>2, FS_RemoveElement
        <5>2. uses'[c] = uses[c] + 1 \/ mishaps' = mishaps + 1
            BY <1>1, <4>2
        <5>3. \A e, u, u1, n, m, m1 \in Nat :
                e <= u + n + m /\ u1 >= u /\ m1 >= m /\ (u1 = u + 1 \/ m1 = m + 1) => e <= u1 + (n - 1) + m1
            OBVIOUS
        <5>4. mishaps' >= mishaps
            OBVIOUS
        <5> QED  BY <3>1, <3>2, <3>3, <3>4, <5>1, <5>2, <5>3, <5>4
      <4> QED  BY <4>1, <4>2
    <3> QED  BY <3>2, <3>5 DEF UseCounted
  <2> QED  BY <2>2, <2>3
<1> QED  BY <1>2, <1>3, <1>4 DEF ReferralsInv

LEMMA NobodyVisits ==
  NoVisit \in VisitRows /\ NoVisit.at = "idle"
BY DEF NoVisit, VisitRows

LEMMA MyCodeStep ==
  ASSUME ReferralsInv, NEW u \in Referrers, MyCode(u)
  PROVE  ReferralsInv'
<1>1. UNCHANGED <<events, visit, bought, mishaps>> /\ uses' = [uses EXCEPT ![u] = IF @ = NoCode THEN 0 ELSE @]
    BY DEF MyCode
<1>2. /\ uses' \in [Referrers -> Nat \cup {NoCode}]
      /\ \A c \in Referrers : uses'[c] = uses[c] \/ (uses[c] = NoCode /\ uses'[c] = 0)
    BY <1>1, ReferralsTyped
<1>3. ReferralTypeOK'
    BY <1>1, <1>2, ReferralsTyped DEF ReferralTypeOK, EventRows, VisitRows, ReferralsInv
<1>4. 0 # NoCode
    BY DEF NoCode
<1>5. ASSUME NEW w \in Visits PROVE VisitReady(visit[w])'
    BY <1>1, <1>2, <1>4 DEF VisitReady, ReferralsInv
<1>6. ASSUME NEW c \in Referrers PROVE UseCounted(c)'
  <2>1. UseCounted(c) /\ CountingUse(c)' = CountingUse(c)
      BY <1>1 DEF ReferralsInv, CountingUse
  <2>2. CASE uses'[c] = uses[c]
      BY <1>1, <2>1, <2>2 DEF UseCounted
  <2>3. CASE uses[c] = NoCode /\ uses'[c] = 0
    <3>1. Cardinality(EventsOf(events, c)) = 0
        BY <2>1, <2>3, FS_EmptySet DEF UseCounted
    <3> QED  BY <1>1, <1>4, <2>1, <2>3, <3>1, CountingUseFinite, ReferralsTyped DEF UseCounted
  <2> QED  BY <1>2, <2>2, <2>3
<1> QED  BY <1>3, <1>5, <1>6 DEF ReferralsInv

LEMMA AttachStep ==
  ASSUME ReferralsInv, NEW v \in Visits, NEW u \in Newcomers, NEW c \in Referrers, AttachToSignup(v, u, c)
  PROVE  ReferralsInv'
<1> DEFINE row == [NoVisit EXCEPT !.at = "record", !.user = u, !.code = c, !.seen = uses[c]]
<1>1. /\ visit[v].at = "idle" /\ uses[c] # NoCode /\ UNCHANGED <<uses, events, bought, mishaps>>
      /\ visit' = [visit EXCEPT ![v] = row]
    BY DEF AttachToSignup
<1>2. uses[c] \in Nat
    BY <1>1, ReferralsTyped
<1>3. row \in VisitRows /\ row.at = "record" /\ row.user = u /\ row.code = c
    BY <1>2 DEF NoVisit, VisitRows
<1> HIDE DEF row
<1>4. /\ visit' \in [Visits -> VisitRows]
      /\ \A w \in Visits : visit'[w] = IF w = v THEN row ELSE visit[w]
      /\ \A d : CountingUse(d)' = CountingUse(d)
  <2>1. /\ visit' \in [Visits -> VisitRows]
        /\ \A w \in Visits : visit'[w] = IF w = v THEN row ELSE visit[w]
      BY <1>1, <1>3, VisitMoves
  <2> QED  BY <1>1, <1>3, <2>1 DEF CountingUse
<1>5. ReferralTypeOK'
    BY <1>1, <1>4, ReferralsTyped DEF ReferralTypeOK, EventRows, VisitRows, ReferralsInv
<1>6. ASSUME NEW w \in Visits PROVE VisitReady(visit[w])'
    BY <1>1, <1>3, <1>4 DEF VisitReady, ReferralsInv
<1>7. ASSUME NEW d \in Referrers PROVE UseCounted(d)'
    BY <1>1, <1>4 DEF UseCounted, ReferralsInv
<1> QED  BY <1>5, <1>6, <1>7 DEF ReferralsInv

\* The event is stored, and its use is on its way from then on.
LEMMA RecordStep ==
  ASSUME ReferralsInv, NEW v \in Visits, RecordReferralEvent(v)
  PROVE  ReferralsInv'
<1> DEFINE row == [visit[v] EXCEPT !.at = "count"]
           event == [referrer |-> visit[v].code, user |-> visit[v].user, status |-> "signed_up"]
<1>1. /\ visit[v].at = "record" /\ UNCHANGED <<uses, bought>>
      /\ \/ events' = Append(events, event) /\ UNCHANGED mishaps
         \/ Mishap /\ UNCHANGED events
    BY DEF RecordReferralEvent
<1>2. visit' = [visit EXCEPT ![v] = row]
    BY Zenon DEF RecordReferralEvent
<1>0. visit[v].code \in Referrers
    BY <1>1 DEF ReferralsInv, VisitReady
<1> PICK c \in Referrers : c = visit[v].code
    BY <1>0
<1>3. visit[v] \in VisitRows /\ visit[v].user \in Newcomers /\ uses[c] # NoCode
    BY <1>1, ReferralsTyped DEF ReferralsInv, VisitReady
<1>4. row \in VisitRows /\ row.at = "count" /\ row.code = c /\ row.user = visit[v].user
    BY <1>3 DEF VisitRows
<1>5. event \in EventRows /\ event.referrer = c
    BY <1>3 DEF EventRows
<1> HIDE DEF row, event
<1>6. /\ visit' \in [Visits -> VisitRows]
      /\ \A w \in Visits : visit'[w] = IF w = v THEN row ELSE visit[w]
      /\ v \notin CountingUse(c)
      /\ CountingUse(c)' = CountingUse(c) \cup {v}
      /\ \A d : d # c => CountingUse(d)' = CountingUse(d)
  <2>1. /\ visit' \in [Visits -> VisitRows]
        /\ \A w \in Visits : visit'[w] = IF w = v THEN row ELSE visit[w]
      BY <1>2, <1>4, VisitMoves
  <2>2. \A d : CountingUse(d)' = {w \in Visits : visit'[w].at = "count" /\ visit'[w].code = d}
      BY DEF CountingUse
  <2>3. \A w \in Visits : \A d : visit'[w].at = "count" /\ visit'[w].code = d
                                <=> (w = v /\ d = c) \/ (visit[w].at = "count" /\ visit[w].code = d)
      BY <1>1, <1>4, <2>1
  <2>4. v \notin CountingUse(c)
      BY <1>1 DEF CountingUse
  <2>5. CountingUse(c)' = CountingUse(c) \cup {v}
      BY <2>2, <2>3 DEF CountingUse
  <2>6. ASSUME NEW d, d # c PROVE CountingUse(d)' = CountingUse(d)
      BY <2>2, <2>3, <2>6 DEF CountingUse
  <2> QED  BY <2>1, <2>4, <2>5, <2>6
<1>7. events' \in Seq(EventRows) /\ mishaps' \in 0 .. MaxMishaps /\ mishaps' >= mishaps
  <2>1. events \in Seq(EventRows) /\ mishaps \in Nat /\ mishaps <= MaxMishaps /\ MaxMishaps \in Nat
      BY ReferralsTyped
  <2>2. events' \in Seq(EventRows)
    <3>1. Append(events, event) \in Seq(EventRows)
        BY <1>5, <2>1
    <3> QED  BY <1>1, <2>1, <3>1
  <2>3. mishaps' = mishaps \/ (mishaps' = mishaps + 1 /\ mishaps < MaxMishaps)
      BY <1>1 DEF Mishap
  <2>4. mishaps' \in 0 .. MaxMishaps /\ mishaps' >= mishaps
      BY <2>1, <2>3
  <2> QED  BY <2>2, <2>4
<1>8. ReferralTypeOK'
    BY <1>1, <1>6, <1>7, ReferralsTyped DEF ReferralTypeOK, EventRows, VisitRows, ReferralsInv
<1>9. ASSUME NEW w \in Visits PROVE VisitReady(visit[w])'
    BY <1>1, <1>3, <1>4, <1>6 DEF VisitReady, ReferralsInv
<1>10. /\ \A d : d # c => EventsOf(events', d) = EventsOf(events, d)
       /\ EventsOf(events', c) \subseteq EventsOf(events, c) \cup {Len(events) + 1}
  <2>1. CASE UNCHANGED events
      BY <2>1
  <2>2. CASE events' = Append(events, event)
    <3>1. /\ DOMAIN events' = DOMAIN events \cup {Len(events) + 1} /\ Len(events) + 1 \notin DOMAIN events
          /\ events'[Len(events) + 1] = event /\ \A i \in DOMAIN events : events'[i] = events[i]
        BY <2>2, ReferralsTyped
    <3> QED  BY <1>5, <3>1 DEF EventsOf
  <2> QED  BY <1>1, <2>1, <2>2
<1>11. ASSUME NEW d \in Referrers, d # c PROVE UseCounted(d)'
  <2>1. UseCounted(d) /\ mishaps \in Nat /\ mishaps' \in Nat
      BY <1>7, ReferralsTyped, ReferralAssumptions DEF ReferralsInv
  <2>2. EventsOf(events', d) = EventsOf(events, d) /\ CountingUse(d)' = CountingUse(d) /\ uses' = uses
      BY <1>1, <1>6, <1>10, <1>11
  <2>3. /\ Cardinality(EventsOf(events, d)) \in Nat /\ Cardinality(CountingUse(d)) \in Nat
        /\ uses[d] # NoCode => uses[d] \in Nat
      BY ReferralsTyped, EventsFinite, CountingUseFinite
  <2> QED  BY <1>7, <2>1, <2>2, <2>3 DEF UseCounted
<1>12. UseCounted(c)'
  <2>7. UseCounted(c) /\ uses' = uses /\ uses[c] \in Nat /\ mishaps \in Nat /\ mishaps' \in Nat
      BY <1>1, <1>3, <1>7, ReferralsTyped, ReferralAssumptions DEF ReferralsInv
  <2>8. /\ Cardinality(CountingUse(c)) \in Nat
        /\ Cardinality(CountingUse(c)') = Cardinality(CountingUse(c)) + 1
      BY <1>6, CountingUseFinite, FS_AddElement
  <2>1. /\ UseCounted(c) /\ uses' = uses /\ uses[c] \in Nat /\ mishaps \in Nat /\ mishaps' \in Nat
        /\ Cardinality(CountingUse(c)) \in Nat
        /\ Cardinality(CountingUse(c)') = Cardinality(CountingUse(c)) + 1
      BY <2>7, <2>8
  <2> DEFINE T == EventsOf(events, c)
             n == Len(events) + 1
  <2>2. IsFiniteSet(T) /\ Cardinality(T) \in Nat /\ Cardinality(T) <= uses[c] + Cardinality(CountingUse(c)) + mishaps
      BY <1>3, <2>1, ReferralsTyped, EventsFinite DEF UseCounted
  <2>3. IsFiniteSet(EventsOf(events', c)) /\ Cardinality(EventsOf(events', c)) \in Nat
      BY <1>7, EventsFinite
  <2> HIDE DEF T, n
  <2>4. /\ IsFiniteSet(T \cup {n})
        /\ Cardinality(T \cup {n}) = Cardinality(T) \/ Cardinality(T \cup {n}) = Cardinality(T) + 1
      BY <2>2, FS_AddElement
  <2>5. Cardinality(EventsOf(events', c)) <= Cardinality(T \cup {n})
      BY <1>10, <2>4, FS_Subset DEF T, n
  <2>6. Cardinality(EventsOf(events', c)) <= uses[c] + Cardinality(CountingUse(c)') + mishaps'
    <3>1. \A e, s, t, u, q, m, m1 \in Nat :
            t <= u + q + m /\ (s = t \/ s = t + 1) /\ e <= s /\ m1 >= m => e <= u + (q + 1) + m1
        OBVIOUS
    <3>2. Cardinality(T \cup {n}) \in Nat
        BY <2>2, <2>4
    <3> QED  BY <1>7, <2>1, <2>2, <2>3, <2>4, <2>5, <3>1, <3>2
  <2> QED  BY <1>3, <2>1, <2>6 DEF UseCounted
<1> QED  BY <1>8, <1>9, <1>11, <1>12 DEF ReferralsInv

LEMMA CountUseStep ==
  ASSUME ReferralsInv, NEW v \in Visits, CountUse(v)
  PROVE  ReferralsInv'
<1> DEFINE c == visit[v].code
<1>1. /\ visit[v].at = "count" /\ UNCHANGED <<events, bought>> /\ visit' = [visit EXCEPT ![v] = NoVisit]
      /\ \/ uses' = [uses EXCEPT ![c] = @ + 1] /\ UNCHANGED mishaps
         \/ mishaps < MaxMishaps /\ mishaps' = mishaps + 1 /\ UNCHANGED uses
    BY DEF CountUse, Leave, Mishap, IncrementReferralCodeUses
<1>2. c \in Referrers /\ uses[c] # NoCode /\ uses[c] \in Nat
    BY <1>1, ReferralsTyped DEF ReferralsInv, VisitReady
<1> HIDE DEF c
<1>3. /\ uses' \in [Referrers -> Nat \cup {NoCode}] /\ mishaps' \in 0 .. MaxMishaps /\ mishaps' >= mishaps
      /\ \A d \in Referrers : uses[d] # NoCode => uses'[d] # NoCode /\ uses'[d] >= uses[d]
      /\ \A d \in Referrers : uses[d] = NoCode => uses'[d] = NoCode
      /\ uses'[c] = uses[c] + 1 \/ mishaps' = mishaps + 1
  <2>1. \A d \in Referrers : uses[d] # NoCode => uses[d] \in Nat
      BY ReferralsTyped
  <2> QED  BY <1>1, <1>2, <2>1, ReferralsTyped DEF NoCode
<1>4. events' \in Seq(EventRows) /\ (\A d : EventsOf(events', d) = EventsOf(events, d)) /\ bought' \in SUBSET Newcomers
    BY <1>1, ReferralsTyped
<1> QED  BY <1>1, <1>3, <1>4, NobodyVisits, VisitLeaves DEF c

LEMMA RewardStep ==
  ASSUME ReferralsInv, NEW v \in Visits, NEW u \in Newcomers, RewardOnPurchase(v, u)
  PROVE  ReferralsInv'
<1> DEFINE row == [NoVisit EXCEPT !.at = "list", !.user = u]
<1>1. /\ visit[v].at = "idle" /\ UNCHANGED <<uses, events, bought, mishaps>> /\ visit' = [visit EXCEPT ![v] = row]
    BY DEF RewardOnPurchase
<1>2. row \in VisitRows /\ row.at = "list" /\ row.user = u
    BY DEF NoVisit, VisitRows
<1> HIDE DEF row
<1>3. \A d \in Referrers : uses[d] # NoCode => uses[d] >= uses[d]
    BY ReferralsTyped
<1>4. mishaps' \in 0 .. MaxMishaps /\ mishaps' >= mishaps
    BY <1>1, ReferralsTyped
<1>5. /\ events' \in Seq(EventRows) /\ \A d : EventsOf(events', d) = EventsOf(events, d)
      /\ uses' \in [Referrers -> Nat \cup {NoCode}] /\ bought' \in SUBSET Newcomers
    BY <1>1, ReferralsTyped
<1> QED  BY <1>1, <1>2, <1>3, <1>4, <1>5, VisitLeaves

\* The rows that are rewarded stay those of their referrers.
LEMMA MarkStep ==
  ASSUME ReferralsInv, NEW v \in Visits, MarkReferralRewarded(v)
  PROVE  ReferralsInv'
<1> DEFINE match == {i \in EventsForReferrer(Nobody) : events[i].user = visit[v].user /\ events[i].status = "signed_up"}
           rewarded(i) == i \in match /\ \A j \in match : i <= j
<1>1. /\ visit[v].at = "list" /\ UNCHANGED <<uses, mishaps>> /\ visit' = [visit EXCEPT ![v] = NoVisit]
      /\ bought' = bought \cup {visit[v].user}
      /\ events' = [i \in DOMAIN events |-> [events[i] EXCEPT !.status = IF rewarded(i) THEN "rewarded" ELSE @]]
    BY DEF MarkReferralRewarded, Leave
<1> HIDE DEF match, rewarded
<1>2. ASSUME NEW i \in DOMAIN events PROVE events'[i] \in EventRows /\ events'[i].referrer = events[i].referrer
  <2>1. events[i] \in EventRows
      BY ReferralsTyped
  <2>2. events'[i] = [events[i] EXCEPT !.status = IF rewarded(i) THEN "rewarded" ELSE @]
      BY <1>1
  <2> QED  BY <2>1, <2>2 DEF EventRows
<1>3. DOMAIN events' = 1 .. Len(events) /\ Len(events) \in Nat /\ DOMAIN events = 1 .. Len(events)
    BY <1>1, ReferralsTyped
<1>4. events' \in [1 .. Len(events) -> EventRows]
    BY <1>1, <1>2, <1>3
<1>5. events' \in Seq(EventRows)
    BY <1>3, <1>4
<1>6. \A c : EventsOf(events', c) = EventsOf(events, c)
    BY <1>2, <1>3 DEF EventsOf
<1>7. bought' \in SUBSET Newcomers
    BY <1>1, ReferralsTyped DEF ReferralsInv, VisitReady
<1>8. \A d \in Referrers : uses[d] # NoCode => uses[d] >= uses[d]
    BY ReferralsTyped
<1>9. mishaps' \in 0 .. MaxMishaps /\ mishaps' >= mishaps /\ uses' \in [Referrers -> Nat \cup {NoCode}]
    BY <1>1, ReferralsTyped
<1> QED  BY <1>1, <1>5, <1>6, <1>7, <1>8, <1>9, NobodyVisits, VisitLeaves

LEMMA StopStep ==
  ASSUME ReferralsInv, NEW v \in Visits, StopVisit(v)
  PROVE  ReferralsInv'
<1>1. /\ UNCHANGED <<uses, events, bought>> /\ visit' = [visit EXCEPT ![v] = NoVisit]
      /\ mishaps < MaxMishaps /\ mishaps' = mishaps + 1
    BY DEF StopVisit, Leave, Mishap
<1>2. \A d \in Referrers : uses[d] # NoCode => uses[d] >= uses[d]
    BY ReferralsTyped
<1>3. mishaps' \in 0 .. MaxMishaps /\ mishaps' >= mishaps
    BY <1>1, ReferralsTyped
<1> QED  BY <1>1, <1>2, <1>3, NobodyVisits, ReferralsTyped, VisitLeaves

LEMMA ReferralInits == ReferralInit => ReferralsInv
<1> SUFFICES ASSUME ReferralInit PROVE ReferralsInv
    OBVIOUS
<1>1. ReferralTypeOK
    BY NobodyVisits, ReferralTypes, ReferralAssumptions DEF ReferralInit
<1>2. \A v \in Visits : VisitReady(visit[v])
    BY NobodyVisits DEF ReferralInit, VisitReady
<1>3. \A c \in Referrers : uses[c] = NoCode /\ EventsOf(events, c) = {}
    BY DEF ReferralInit, EventsOf
<1> QED  BY <1>1, <1>2, <1>3 DEF ReferralsInv, UseCounted

LEMMA ReferralSteps == ReferralsInv /\ [ReferralNext]_referralVars => ReferralsInv'
<1> SUFFICES ASSUME ReferralsInv, [ReferralNext]_referralVars PROVE ReferralsInv'
    OBVIOUS
<1>1. CASE UNCHANGED referralVars
  <2>1. UNCHANGED <<uses, events, visit, bought, mishaps>>
      BY <1>1 DEF referralVars
  <2> QED  BY <2>1 DEF ReferralsInv, ReferralTypeOK, VisitReady, UseCounted, CountingUse
<1> QED  BY <1>1, MyCodeStep, RecordStep, CountUseStep, MarkStep, StopStep, RewardStep, AttachStep DEF ReferralNext

\* Every reachable state satisfies the invariant, and with it the type invariant.
THEOREM ReferralsInvariant == ReferralSpec => []ReferralsInv
BY ReferralInits, ReferralSteps, PTL DEF ReferralSpec

\* The uses of a code fall behind the events that name it by no more than the visits that are to
\* count theirs and the mishaps there were.
THEOREM UsesAlwaysCountEvents == ReferralSpec => []UsesCountEvents
<1>1. ReferralsInv => UsesCountEvents
    BY DEF ReferralsInv, UseCounted, UsesCountEvents, EventsOf, CountingUse
<1> QED  BY <1>1, ReferralsInvariant, PTL

-----------------------------------------------------------------------------
(* Quotes for discount codes *)

CouponRows == Coupon \cup {NoCoupon, Deleted}
QuoteRows ==
  [at : {"idle", "courses", "prior", "quoted"}, coupon : Codes \cup {"none"}, amount : OfEitherSign(Amounts) \cup {0},
   good : Goods \cup {NoGood}, off : Int]

CouponsInv ==
  /\ coupons \in [Codes -> CouponRows]
  /\ attached \in [Codes -> SUBSET Goods] /\ toAttach \in [Codes -> SUBSET Goods]
  /\ quoting \in [Quoting -> QuoteRows]
  /\ \A r \in Quoting : quoting[r].off <= quoting[r].amount

LEMMA SignedInt ==
  ASSUME NEW S, S \subseteq Nat, NEW n \in OfEitherSign(S)
  PROVE  n \in Int
BY DEF OfEitherSign

LEMMA LeastOfTwo ==
  ASSUME NEW a \in Int, NEW b \in Int
  PROVE  Min({a, b}) \in Int /\ Min({a, b}) <= a /\ Min({a, b}) <= b
<1>1. \E x \in {a, b} : \A y \in {a, b} : x <= y
  <2>1. CASE a <= b
      BY <2>1
  <2>2. CASE b <= a
      BY <2>2
  <2> QED  BY <2>1, <2>2
<1>2. Min({a, b}) \in {a, b} /\ \A y \in {a, b} : Min({a, b}) <= y
    BY <1>1 DEF Min
<1> QED  BY <1>2

LEMMA StoredRow ==
  ASSUME CouponsInv, NEW c \in Codes, Stored(c)
  PROVE  coupons[c] \in Coupon
BY DEF CouponsInv, CouponRows, Stored, NoCoupon, Deleted

\* What a code takes off is a number, and no more than the amount.
LEMMA OffAtMostAmount ==
  ASSUME NEW row \in Coupon, NEW amount \in Int
  PROVE  AmountOff(row, amount) \in Int /\ AmountOff(row, amount) <= amount
<1>1. row.kind \in {"percent", "flat"} /\ row.value \in OfEitherSign(Discounts) /\ row.cap \in Caps \cup {Uncapped}
    BY DEF Coupon
<1>7. row.value \in Int
    BY <1>1, SignedInt, CouponAssumptions
<1>9. Uncapped \in Int /\ \A n \in Caps : n \in Int
    BY CouponAssumptions DEF Uncapped
<1>8. row.cap \in Int
  <2>1. row.cap \in Caps \/ row.cap = Uncapped
      BY <1>1
  <2> QED  BY <1>9, <2>1
<1>2. row.value \in Int /\ row.cap \in Int
    BY <1>7, <1>8
<1> DEFINE product == amount * row.value
<1>3. product \in Int
    BY <1>2
<1> HIDE DEF product
<1>4. Hundredth(product) \in Int
    BY <1>3 DEF Hundredth
<1>5. Capped(row, Hundredth(product)) \in Int
    BY <1>2, <1>4, LeastOfTwo DEF Capped
<1>6. Discount(row, amount) \in Int
    BY <1>2, <1>5 DEF Discount, product
<1> QED  BY <1>6, LeastOfTwo DEF AmountOff

\* A step of the admins: the quotes stay as they are.
LEMMA AdminStep ==
  ASSUME CouponsInv, UNCHANGED quoting, coupons' \in [Codes -> CouponRows],
         attached' \in [Codes -> SUBSET Goods], toAttach' \in [Codes -> SUBSET Goods]
  PROVE  CouponsInv'
BY DEF CouponsInv

LEMMA AdminSteps ==
  ASSUME CouponsInv, NEW c \in Codes,
         \/ \E row \in Coupon, goods \in SUBSET Goods : CreateCoupon(c, row, goods)
         \/ \E active \in BOOLEAN : SetCouponActive(c, active)
         \/ DeleteCoupon(c) \/ WindowMoves(c) \/ \E g \in Goods : AttachCouponToCourse(c, g)
  PROVE  CouponsInv'
<1>1. ASSUME NEW row \in Coupon, NEW goods \in SUBSET Goods, CreateCoupon(c, row, goods) PROVE CouponsInv'
  <2>1. row \in CouponRows
      BY DEF CouponRows
  <2> HIDE DEF CouponRows
  <2> QED  BY <1>1, <2>1, AdminStep DEF CreateCoupon, CouponsInv
<1>2. ASSUME NEW row \in CouponRows, coupons' = [coupons EXCEPT ![c] = row], UNCHANGED <<toAttach, quoting>>,
             attached' \in [Codes -> SUBSET Goods]
      PROVE  CouponsInv'
  <2>1. coupons' \in [Codes -> CouponRows]
      BY <1>2 DEF CouponsInv
  <2> QED  BY <1>2, <2>1, AdminStep DEF CouponsInv
<1>3. ASSUME NEW active \in BOOLEAN, SetCouponActive(c, active) PROVE CouponsInv'
  <2> DEFINE row == [coupons[c] EXCEPT !.active = active]
  <2>1. coupons[c] \in Coupon
      BY <1>3, StoredRow DEF SetCouponActive
  <2>2. row \in Coupon
      BY <2>1 DEF Coupon
  <2>3. coupons' = [coupons EXCEPT ![c] = row]
      BY <1>3, Zenon DEF SetCouponActive
  <2> HIDE DEF row
  <2>4. row \in CouponRows
      BY <2>2 DEF CouponRows
  <2> QED  BY <1>2, <1>3, <2>3, <2>4 DEF SetCouponActive, CouponsInv
<1>4. ASSUME DeleteCoupon(c) PROVE CouponsInv'
  <2>1. Deleted \in CouponRows
      BY DEF CouponRows
  <2>2. attached' \in [Codes -> SUBSET Goods]
      BY <1>4 DEF DeleteCoupon, CouponsInv
  <2> QED  BY <1>2, <1>4, <2>1, <2>2 DEF DeleteCoupon
<1>5. ASSUME WindowMoves(c) PROVE CouponsInv'
  <2> DEFINE phase == IF coupons[c].phase = "early" THEN "on" ELSE "over"
             row == [coupons[c] EXCEPT !.phase = phase]
  <2>1. coupons[c] \in Coupon
      BY <1>5, StoredRow DEF WindowMoves
  <2>2. phase \in Phases
      BY DEF Phases
  <2>3. coupons' = [coupons EXCEPT ![c] = row]
      BY <1>5, <2>1 DEF WindowMoves, CouponsInv
  <2> HIDE DEF phase
  <2>4. row \in Coupon
      BY <2>1, <2>2 DEF Coupon
  <2> HIDE DEF row
  <2>5. row \in CouponRows
      BY <2>4 DEF CouponRows
  <2> QED  BY <1>2, <1>5, <2>3, <2>5 DEF WindowMoves, CouponsInv
<1>6. ASSUME NEW g \in Goods, AttachCouponToCourse(c, g) PROVE CouponsInv'
  <2>1. toAttach' \in [Codes -> SUBSET Goods] /\ UNCHANGED <<coupons, quoting>>
      BY <1>6 DEF AttachCouponToCourse, CouponsInv
  <2>2. attached' \in [Codes -> SUBSET Goods]
      BY <1>6 DEF AttachCouponToCourse, CouponsInv
  <2> QED  BY <2>1, <2>2, AdminStep DEF CouponsInv
<1> QED  BY <1>1, <1>3, <1>4, <1>5, <1>6

\* A step of a quote.
LEMMA QuoteStep ==
  ASSUME CouponsInv, NEW r \in Quoting, NEW row \in QuoteRows, row.off <= row.amount,
         quoting' = [quoting EXCEPT ![r] = row], UNCHANGED <<coupons, attached, toAttach>>
  PROVE  CouponsInv'
<1>1. quoting' \in [Quoting -> QuoteRows] /\ \A q \in Quoting : quoting'[q] = IF q = r THEN row ELSE quoting[q]
    BY DEF CouponsInv
<1> QED  BY <1>1 DEF CouponsInv

LEMMA ApplyStep ==
  ASSUME CouponsInv, HandleApply
  PROVE  CouponsInv'
<1>1. PICK r \in Quoting, c \in Codes, amount \in OfEitherSign(Amounts), good \in Goods \cup {NoGood},
           subscription \in BOOLEAN : Apply(r, c, amount, good, subscription)
    BY DEF HandleApply
<1> DEFINE at == IF coupons[c].scope = "course" THEN "courses" ELSE "prior"
           off == AmountOff(coupons[c], amount)
           row == [at |-> at, coupon |-> c, amount |-> amount, good |-> good, off |-> off]
<1>2. quoting' = [quoting EXCEPT ![r] = row] /\ UNCHANGED <<coupons, attached, toAttach>>
    BY <1>1 DEF Apply
<1>3. coupons[c] \in Coupon /\ amount \in Int
    BY <1>1, StoredRow, SignedInt, CouponAssumptions DEF Apply, GetCouponByCode
<1>4. at \in {"courses", "prior"} /\ off \in Int /\ off <= amount
    BY <1>3, OffAtMostAmount
<1> HIDE DEF at, off
<1>5. row \in QuoteRows /\ row.off = off /\ row.amount = amount
    BY <1>4 DEF QuoteRows
<1> HIDE DEF row
<1> QED  BY <1>2, <1>4, <1>5, QuoteStep

LEMMA QuoteSteps ==
  ASSUME CouponsInv, NEW r \in Quoting, ListCouponCourses(r) \/ CountCouponRedemptionsByUser(r)
  PROVE  CouponsInv'
<1>1. quoting[r] \in QuoteRows /\ quoting[r].off <= quoting[r].amount
    BY DEF CouponsInv
<1>2. ASSUME NEW at \in {"prior", "quoted"}
      PROVE  /\ [quoting[r] EXCEPT !.at = at] \in QuoteRows
             /\ [quoting[r] EXCEPT !.at = at].off <= [quoting[r] EXCEPT !.at = at].amount
    BY <1>1 DEF QuoteRows
<1>3. NotQuoting \in QuoteRows /\ NotQuoting.off <= NotQuoting.amount
    BY DEF NotQuoting, QuoteRows
<1>4. CASE ListCouponCourses(r)
  <2>1. UNCHANGED <<coupons, attached, toAttach>>
      BY <1>4 DEF ListCouponCourses
  <2>2. \/ quoting' = [quoting EXCEPT ![r] = [quoting[r] EXCEPT !.at = "prior"]]
        \/ quoting' = [quoting EXCEPT ![r] = NotQuoting]
    <3>1. CASE quoting[r].good \in attached[quoting[r].coupon]
        BY <1>4, <3>1 DEF ListCouponCourses, CouponsInv
    <3>2. CASE quoting[r].good \notin attached[quoting[r].coupon]
        BY <1>4, <3>2 DEF ListCouponCourses, CouponsInv
    <3> QED  BY <3>1, <3>2
  <2> QED  BY <1>2, <1>3, <2>1, <2>2, QuoteStep
<1>5. CASE CountCouponRedemptionsByUser(r)
  <2>1. UNCHANGED <<coupons, attached, toAttach>>
      BY <1>5 DEF CountCouponRedemptionsByUser
  <2>2. quoting' = [quoting EXCEPT ![r] = [quoting[r] EXCEPT !.at = "quoted"]]
      BY <1>5, Zenon DEF CountCouponRedemptionsByUser
  <2> QED  BY <1>2, <2>1, <2>2, QuoteStep
<1> QED  BY <1>4, <1>5

LEMMA CouponInits == CouponInit => CouponsInv
<1> SUFFICES ASSUME CouponInit PROVE CouponsInv
    OBVIOUS
<1>1. NoCoupon \in CouponRows /\ NotQuoting \in QuoteRows /\ NotQuoting.off <= NotQuoting.amount
    BY DEF NotQuoting, QuoteRows, CouponRows
<1> QED  BY <1>1 DEF CouponInit, CouponsInv

LEMMA CouponSteps == CouponsInv /\ [CouponNext]_couponVars => CouponsInv'
<1> SUFFICES ASSUME CouponsInv, [CouponNext]_couponVars PROVE CouponsInv'
    OBVIOUS
<1>1. ASSUME NEW c \in Codes, NEW g \in Goods, AttachCouponToCourse(c, g) PROVE CouponsInv'
    BY <1>1, AdminSteps
<1>2. CASE UNCHANGED couponVars
    BY <1>2 DEF couponVars, CouponsInv
<1>3. CASE AdminCreate
    BY <1>3, AdminSteps DEF AdminCreate
<1>4. CASE AdminSetActive
    BY <1>4, AdminSteps DEF AdminSetActive
<1>5. CASE AdminDelete
    BY <1>5, AdminSteps DEF AdminDelete
<1>6. ASSUME NEW c \in Codes, WindowMoves(c) PROVE CouponsInv'
    BY <1>6, AdminSteps
<1> QED  BY <1>1, <1>2, <1>3, <1>4, <1>5, <1>6, ApplyStep, QuoteSteps DEF CouponNext

LEMMA CouponsInvTypes == CouponsInv => CouponTypeOK /\ QuotesNeverPay
<1> SUFFICES ASSUME CouponsInv PROVE CouponTypeOK /\ QuotesNeverPay
    OBVIOUS
<1>1. ASSUME NEW r \in Quoting
      PROVE  /\ quoting[r].at \in {"idle", "courses", "prior", "quoted"}
             /\ quoting[r].coupon \in Codes \cup {"none"} /\ quoting[r].good \in Goods \cup {NoGood}
             /\ quoting[r].amount \in OfEitherSign(Amounts) \cup {0} /\ quoting[r].off \in Int
             /\ quoting[r].amount \in Int
  <2>1. quoting[r] \in QuoteRows
      BY DEF CouponsInv
  <2>2. /\ quoting[r].at \in {"idle", "courses", "prior", "quoted"}
        /\ quoting[r].coupon \in Codes \cup {"none"} /\ quoting[r].good \in Goods \cup {NoGood}
        /\ quoting[r].amount \in OfEitherSign(Amounts) \cup {0} /\ quoting[r].off \in Int
      BY <2>1 DEF QuoteRows
  <2>4. \A n \in OfEitherSign(Amounts) : n \in Int
      BY SignedInt, CouponAssumptions
  <2>3. quoting[r].amount \in Int
      BY <2>2, <2>4
  <2> QED  BY <2>2, <2>3
<1>2. CouponTypeOK
    BY <1>1 DEF CouponTypeOK, CouponsInv, CouponRows
<1>3. ASSUME NEW r \in Quoting PROVE quoting[r].amount - quoting[r].off >= 0
  <2>1. quoting[r].off <= quoting[r].amount /\ quoting[r].amount \in Int /\ quoting[r].off \in Int
      BY <1>1 DEF CouponsInv
  <2> QED  BY <2>1
<1> QED  BY <1>2, <1>3 DEF QuotesNeverPay

\* Every reachable state satisfies the invariant, and with it the type invariant.
THEOREM CouponsInvariant == CouponSpec => []CouponsInv
BY CouponInits, CouponSteps, PTL DEF CouponSpec

\* No quote takes off more than the amount, for any discounts, caps, minima and amounts.
THEOREM QuotesNeverEverPay == CouponSpec => []QuotesNeverPay
BY CouponsInvariant, CouponsInvTypes, PTL

-----------------------------------------------------------------------------
(* Sums *)

LEMMA SetInduction ==
  ASSUME NEW S \in SUBSET Nat, 0 \in S, \A n \in S : n + 1 \in S
  PROVE  S = Nat
<1> DEFINE T == Nat \ S
           R == OpToRel(<, Nat)
<1> SUFFICES ASSUME T # {} PROVE FALSE
    OBVIOUS
<1>1. IsWellFoundedOn(R, Nat)
    BY NatLessThanWellFounded, Zenon
<1> HIDE DEF R
<1>2. PICK x \in T : \A y \in T : ~ (<<y, x>> \in R)
    BY <1>1, WFMin
<1>3. \A a, b \in Nat : a < b => <<a, b>> \in R
    BY DEF R, OpToRel
<1>4. x # 0 /\ x - 1 \in Nat /\ x - 1 < x
    OBVIOUS
<1>5. x - 1 \notin T
    BY <1>2, <1>3, <1>4
<1>6. x - 1 \in S /\ (x - 1) + 1 = x
    BY <1>4, <1>5
<1> QED  BY <1>6

\* The element a fold takes first.
Chosen(s) == CHOOSE x \in s : TRUE

\* What the recursion of a sum computes, for each part of what is summed.
Sums(h, f, S) == h = [s \in SUBSET S |-> IF s = {} THEN 0 ELSE f[Chosen(s)] + h[s \ {Chosen(s)}]]

LEMMA SumIsOfSums ==
  ASSUME NEW f, NEW S
  PROVE  SumFunctionOnSet(f, S) = (CHOOSE h : Sums(h, f, S))[S]
BY DEF SumFunctionOnSet, FoldFunctionOnSet, MapThenFoldSet, Sums, Chosen

LEMMA ChosenIn == \A s : s # {} => Chosen(s) \in s
BY DEF Chosen

\* A finite set without an element of it has one element less.
LEMMA OneLess ==
  ASSUME NEW s, IsFiniteSet(s), NEW x \in s
  PROVE  /\ IsFiniteSet(s \ {x}) /\ Cardinality(s) \in Nat /\ Cardinality(s \ {x}) \in Nat
         /\ Cardinality(s) = Cardinality(s \ {x}) + 1
<1>1. IsFiniteSet(s \ {x}) /\ Cardinality(s \ {x}) = Cardinality(s) - 1
    BY FS_RemoveElement
<1>2. Cardinality(s) \in Nat /\ Cardinality(s \ {x}) \in Nat
    BY <1>1, FS_CardinalityType
<1> QED  BY <1>1, <1>2

\* The recursion has a solution on the parts with n elements and less, and so on all.
Small(S, n) == {s \in SUBSET S : Cardinality(s) <= n}
SolvedTo(f, S) ==
  {n \in Nat : \E h \in [Small(S, n) -> Int] :
     \A s \in Small(S, n) : h[s] = IF s = {} THEN 0 ELSE f[Chosen(s)] + h[s \ {Chosen(s)}]}

LEMMA SmallStep ==
  ASSUME NEW S, IsFiniteSet(S), NEW n \in Nat, NEW s \in Small(S, n + 1), s # {}
  PROVE  Chosen(s) \in S /\ s \ {Chosen(s)} \in Small(S, n)
<1>1. s \subseteq S /\ IsFiniteSet(s) /\ Cardinality(s) <= n + 1
    BY FS_Subset DEF Small
<1>2. Chosen(s) \in s
    BY ChosenIn
<1>3. Cardinality(s) \in Nat /\ Cardinality(s \ {Chosen(s)}) \in Nat /\ Cardinality(s) = Cardinality(s \ {Chosen(s)}) + 1
    BY <1>1, <1>2, OneLess
<1>4. Cardinality(s \ {Chosen(s)}) <= n
    BY <1>1, <1>3
<1> QED  BY <1>1, <1>2, <1>4 DEF Small

LEMMA AllSolved ==
  ASSUME NEW S, IsFiniteSet(S), NEW f \in [S -> Int]
  PROVE  SolvedTo(f, S) = Nat
<1>1. 0 \in SolvedTo(f, S)
  <2> DEFINE h == [s \in Small(S, 0) |-> 0]
  <2>1. \A s \in Small(S, 0) : s = {}
    <3>1. \A s \in Small(S, 0) : IsFiniteSet(s) /\ Cardinality(s) <= 0
        BY FS_Subset DEF Small
    <3>2. \A s \in Small(S, 0) : Cardinality(s) = 0
        BY <3>1, FS_CardinalityType
    <3> QED  BY <3>1, <3>2, FS_EmptySet
  <2>2. h \in [Small(S, 0) -> Int]
      OBVIOUS
  <2>3. \A s \in Small(S, 0) : h[s] = 0
      OBVIOUS
  <2> HIDE DEF h
  <2>4. \A s \in Small(S, 0) : h[s] = IF s = {} THEN 0 ELSE f[Chosen(s)] + h[s \ {Chosen(s)}]
      BY <2>1, <2>3
  <2> QED  BY <2>2, <2>4 DEF SolvedTo
<1>2. ASSUME NEW n \in SolvedTo(f, S) PROVE n + 1 \in SolvedTo(f, S)
  <2>1. PICK h \in [Small(S, n) -> Int] :
          \A s \in Small(S, n) : h[s] = IF s = {} THEN 0 ELSE f[Chosen(s)] + h[s \ {Chosen(s)}]
      BY DEF SolvedTo
  <2>2. n \in Nat
      BY DEF SolvedTo
  <2> DEFINE g == [s \in Small(S, n + 1) |-> IF s = {} THEN 0 ELSE f[Chosen(s)] + h[s \ {Chosen(s)}]]
  <2>3. ASSUME NEW s \in Small(S, n + 1), s # {}
        PROVE  Chosen(s) \in S /\ s \ {Chosen(s)} \in Small(S, n)
      BY <2>2, <2>3, SmallStep
  <2>4. \A s \in Small(S, n + 1) : g[s] \in Int
      BY <2>1, <2>3
  <2>5. g \in [Small(S, n + 1) -> Int]
      BY <2>4
  <2>6. \A s \in Small(S, n) : s \in Small(S, n + 1) /\ g[s] = h[s]
    <3>1. \A s \in Small(S, n) : s \in Small(S, n + 1)
      <4> TAKE s \in Small(S, n)
      <4>1. IsFiniteSet(s) /\ Cardinality(s) <= n
          BY FS_Subset DEF Small
      <4>2. Cardinality(s) <= n + 1
          BY <4>1, <2>2, FS_CardinalityType
      <4> QED  BY <4>2 DEF Small
    <3> QED  BY <3>1, <2>1
  <2>7. \A s \in Small(S, n + 1) : g[s] = IF s = {} THEN 0 ELSE f[Chosen(s)] + h[s \ {Chosen(s)}]
      OBVIOUS
  <2> HIDE DEF g
  <2>8. \A s \in Small(S, n + 1) : g[s] = IF s = {} THEN 0 ELSE f[Chosen(s)] + g[s \ {Chosen(s)}]
      BY <2>3, <2>6, <2>7
  <2>9. n + 1 \in Nat
      BY <2>2
  <2> QED  BY <2>5, <2>8, <2>9 DEF SolvedTo
<1>3. SolvedTo(f, S) \in SUBSET Nat
    BY DEF SolvedTo
<1> QED  BY <1>1, <1>2, <1>3, SetInduction

LEMMA SumsExist ==
  ASSUME NEW S, IsFiniteSet(S), NEW f \in [S -> Int]
  PROVE  \E h \in [SUBSET S -> Int] : Sums(h, f, S)
<1>1. Cardinality(S) \in Nat
    BY FS_CardinalityType
<1>2. Small(S, Cardinality(S)) = SUBSET S
    BY FS_Subset DEF Small
<1>3. Cardinality(S) \in SolvedTo(f, S)
    BY <1>1, AllSolved
<1>4. PICK h \in [SUBSET S -> Int] :
        \A s \in SUBSET S : h[s] = IF s = {} THEN 0 ELSE f[Chosen(s)] + h[s \ {Chosen(s)}]
    BY <1>2, <1>3 DEF SolvedTo
<1>5. Sums(h, f, S)
    BY <1>4 DEF Sums
<1> QED  BY <1>5

\* Two solutions agree on the parts where what they sum agrees.
LEMMA SumsAgree ==
  ASSUME NEW S, IsFiniteSet(S), NEW T, IsFiniteSet(T), NEW f, NEW g, NEW h, NEW k, Sums(h, f, S), Sums(k, g, T),
         NEW s \in SUBSET S, s \in SUBSET T, \A x \in s : f[x] = g[x]
  PROVE  h[s] = k[s]
<1> DEFINE Same == {n \in Nat : \A r \in SUBSET s : Cardinality(r) = n => h[r] = k[r]}
<1>1. \A r \in SUBSET s : IsFiniteSet(r) /\ Cardinality(r) \in Nat
  <2>1. IsFiniteSet(s)
      BY FS_Subset
  <2> QED  BY <2>1, FS_Subset, FS_CardinalityType
<1>2. \A r \in SUBSET s : /\ h[r] = (IF r = {} THEN 0 ELSE f[Chosen(r)] + h[r \ {Chosen(r)}])
                          /\ k[r] = (IF r = {} THEN 0 ELSE g[Chosen(r)] + k[r \ {Chosen(r)}])
    BY DEF Sums
<1>3. 0 \in Same
  <2>1. \A r \in SUBSET s : Cardinality(r) = 0 => r = {}
      BY <1>1, FS_EmptySet
  <2>2. \A r \in SUBSET s : r = {} => h[r] = 0 /\ k[r] = 0
      BY <1>2
  <2> QED  BY <2>1, <2>2
<1>4. ASSUME NEW n \in Same PROVE n + 1 \in Same
  <2>1. ASSUME NEW r \in SUBSET s, Cardinality(r) = n + 1 PROVE h[r] = k[r]
    <3>1. r # {}
      <4>1. n \in Nat
          OBVIOUS
      <4>2. Cardinality({}) = 0
          BY FS_EmptySet
      <4> HIDE DEF Same
      <4> QED  BY <2>1, <4>1, <4>2
    <3>2. Chosen(r) \in r
        BY <3>1, ChosenIn
    <3>3. Cardinality(r \ {Chosen(r)}) = n
      <4>1. /\ Cardinality(r \ {Chosen(r)}) \in Nat
            /\ Cardinality(r) = Cardinality(r \ {Chosen(r)}) + 1
          BY <1>1, <3>2, OneLess
      <4>2. n \in Nat
          OBVIOUS
      <4> QED  BY <2>1, <4>1, <4>2
    <3>4. h[r \ {Chosen(r)}] = k[r \ {Chosen(r)}]
        BY <3>3
    <3>5. f[Chosen(r)] = g[Chosen(r)]
        BY <3>2
    <3> QED  BY <1>2, <3>1, <3>4, <3>5
  <2> QED  BY <2>1
<1>5. Same = Nat
  <2>1. Same \in SUBSET Nat
      OBVIOUS
  <2> HIDE DEF Same
  <2> QED  BY <1>3, <1>4, <2>1, SetInduction
<1>6. Cardinality(s) \in Same
    BY <1>1, <1>5
<1> QED  BY <1>6

\* Whatever is taken first, a sum is the same.
SumsOfNumbers(h, f, S) == f \in [S -> Int] /\ h \in [SUBSET S -> Int] /\ Sums(h, f, S)

LEMMA AnyFirst ==
  ASSUME NEW S, IsFiniteSet(S), NEW f, NEW h, SumsOfNumbers(h, f, S), NEW x \in S
  PROVE  h[S] = f[x] + h[S \ {x}]
<1>0. f \in [S -> Int] /\ h \in [SUBSET S -> Int] /\ Sums(h, f, S)
    BY DEF SumsOfNumbers
<1> DEFINE Splits(s) == \A y \in s : h[s] = f[y] + h[s \ {y}]
           Sizes == {n \in Nat : \A s \in SUBSET S : Cardinality(s) = n => Splits(s)}
<1>1. \A s \in SUBSET S : IsFiniteSet(s) /\ Cardinality(s) \in Nat
    BY FS_Subset, FS_CardinalityType
<1>2. \A s \in SUBSET S : s # {} => Chosen(s) \in s /\ h[s] = f[Chosen(s)] + h[s \ {Chosen(s)}]
    BY <1>0, ChosenIn DEF Sums
<1>3. 0 \in Sizes
    BY <1>1, FS_EmptySet
<1>4. ASSUME NEW n \in Sizes PROVE n + 1 \in Sizes
  <2>1. ASSUME NEW s \in SUBSET S, Cardinality(s) = n + 1, NEW y \in s PROVE h[s] = f[y] + h[s \ {y}]
    <3> DEFINE c == Chosen(s)
               both == s \ {c, y}
    <3>1. c \in s /\ h[s] = f[c] + h[s \ {c}]
        BY <1>2
    <3>2. CASE c = y
        BY <3>1, <3>2
    <3>3. CASE c # y
      <4>1. Cardinality(s \ {c}) = n /\ Cardinality(s \ {y}) = n
          BY <1>1, <2>1, <3>1, OneLess
      <4>2. y \in s \ {c} /\ c \in s \ {y} /\ (s \ {c}) \ {y} = both /\ (s \ {y}) \ {c} = both
          BY <3>1, <3>3
      <4>3. s \ {c} \in SUBSET S /\ s \ {y} \in SUBSET S /\ both \in SUBSET S
          OBVIOUS
      <4>4. \A r \in SUBSET S : Cardinality(r) = n => \A z \in r : h[r] = f[z] + h[r \ {z}]
          OBVIOUS
      <4>5. h[s \ {c}] = f[y] + h[(s \ {c}) \ {y}] /\ h[s \ {y}] = f[c] + h[(s \ {y}) \ {c}]
        <5> HIDE DEF c, Sizes
        <5> QED  BY <4>1, <4>2, <4>3, <4>4
      <4>6. h[s \ {c}] = f[y] + h[both] /\ h[s \ {y}] = f[c] + h[both]
          BY <4>2, <4>5
      <4>7. f[c] \in Int /\ f[y] \in Int /\ h[both] \in Int
          BY <1>0, <3>1, <4>3
      <4> QED  BY <1>0, <3>1, <4>6, <4>7
    <3> QED  BY <3>2, <3>3
  <2>2. \A s \in SUBSET S : Cardinality(s) = n + 1 => Splits(s)
      BY <2>1
  <2> HIDE DEF Splits
  <2> QED  BY <2>2
<1>5. Sizes = Nat
  <2>1. Sizes \in SUBSET Nat
      OBVIOUS
  <2> HIDE DEF Sizes
  <2> QED  BY <1>3, <1>4, <2>1, SetInduction
<1>6. Cardinality(S) \in Sizes
    BY <1>1, <1>5
<1> QED  BY <1>6

LEMMA SumSolved ==
  ASSUME NEW S, IsFiniteSet(S), NEW f \in [S -> Int]
  PROVE  \E h \in [SUBSET S -> Int] : Sums(h, f, S) /\ SumFunctionOnSet(f, S) = h[S]
<1> DEFINE k == CHOOSE h : Sums(h, f, S)
<1>1. PICK h \in [SUBSET S -> Int] : Sums(h, f, S)
    BY SumsExist
<1>2. Sums(k, f, S)
    BY <1>1
<1>3. SumFunctionOnSet(f, S) = k[S]
    BY SumIsOfSums
<1> HIDE DEF k
<1>4. k[S] = h[S]
    BY <1>1, <1>2, SumsAgree
<1> QED  BY <1>1, <1>3, <1>4

\* A sum over a finite set is a number, and a single summand can be taken out of it.
LEMMA SumTakesOut ==
  ASSUME NEW S, IsFiniteSet(S), NEW f \in [S -> Int]
  PROVE  /\ SumFunctionOnSet(f, S) \in Int
         /\ \A x \in S : \A g \in [S \ {x} -> Int] :
              (\A y \in S \ {x} : g[y] = f[y]) => SumFunctionOnSet(f, S) = f[x] + SumFunctionOnSet(g, S \ {x})
<1>1. PICK h \in [SUBSET S -> Int] : Sums(h, f, S) /\ SumFunctionOnSet(f, S) = h[S]
    BY SumSolved
<1>0. SumsOfNumbers(h, f, S)
    BY <1>1 DEF SumsOfNumbers
<1>2. ASSUME NEW x \in S, NEW g \in [S \ {x} -> Int], \A y \in S \ {x} : g[y] = f[y]
      PROVE  SumFunctionOnSet(f, S) = f[x] + SumFunctionOnSet(g, S \ {x})
  <2>1. IsFiniteSet(S \ {x})
      BY FS_RemoveElement
  <2>2. PICK k \in [SUBSET (S \ {x}) -> Int] : Sums(k, g, S \ {x}) /\ SumFunctionOnSet(g, S \ {x}) = k[S \ {x}]
      BY <2>1, SumSolved
  <2>3. h[S \ {x}] = k[S \ {x}]
    <3>1. S \ {x} \in SUBSET S /\ S \ {x} \in SUBSET (S \ {x}) /\ \A y \in S \ {x} : f[y] = g[y]
        BY <1>2
    <3>2. Sums(h, f, S) /\ Sums(k, g, S \ {x}) /\ IsFiniteSet(S \ {x})
        BY <1>1, <2>1, <2>2
    <3> DEFINE T == S \ {x}
    <3>3. T \in SUBSET S /\ T \in SUBSET T /\ (\A y \in T : f[y] = g[y]) /\ Sums(k, g, T) /\ IsFiniteSet(T)
        BY <3>1, <3>2
    <3> HIDE DEF T
    <3>4. h[T] = k[T]
        BY <3>2, <3>3, SumsAgree
    <3> QED  BY <3>4 DEF T
  <2>4. h[S] = f[x] + h[S \ {x}]
      BY <1>0, AnyFirst
  <2> QED  BY <1>1, <2>2, <2>3, <2>4
<1>3. SumFunctionOnSet(f, S) \in Int
    BY <1>1
<1> QED  BY <1>2, <1>3

\* One summand changes, and the sum by as much.
LEMMA SumChanges ==
  ASSUME NEW S, IsFiniteSet(S), NEW f \in [S -> Int], NEW g \in [S -> Int], NEW x \in S,
         \A y \in S \ {x} : g[y] = f[y]
  PROVE  /\ SumFunctionOnSet(f, S) \in Int /\ SumFunctionOnSet(g, S) \in Int
         /\ SumFunctionOnSet(g, S) = SumFunctionOnSet(f, S) - f[x] + g[x]
<1> DEFINE r == [y \in S \ {x} |-> f[y]]
<1>1. r \in [S \ {x} -> Int] /\ \A y \in S \ {x} : r[y] = f[y] /\ r[y] = g[y]
    OBVIOUS
<1> HIDE DEF r
<1>2. SumFunctionOnSet(f, S) = f[x] + SumFunctionOnSet(r, S \ {x})
    BY <1>1, SumTakesOut
<1>3. SumFunctionOnSet(g, S) = g[x] + SumFunctionOnSet(r, S \ {x})
    BY <1>1, SumTakesOut
<1>4. IsFiniteSet(S \ {x})
    BY FS_RemoveElement
<1>5. SumFunctionOnSet(r, S \ {x}) \in Int /\ SumFunctionOnSet(f, S) \in Int /\ SumFunctionOnSet(g, S) \in Int
    BY <1>1, <1>4, SumTakesOut
<1>6. f[x] \in Int /\ g[x] \in Int
    OBVIOUS
<1> QED  BY <1>2, <1>3, <1>5, <1>6

\* A sum of as many summands, and of the same ones, is the same; one more adds to it.
Numbers(f, S) == f \in [S -> Int]
OneMore(g, T, f, S, x) ==
  /\ IsFiniteSet(S) /\ x \notin S /\ T = S \cup {x}
  /\ Numbers(f, S) /\ Numbers(g, T) /\ \A y \in S : g[y] = f[y]

LEMMA SumGrows ==
  ASSUME NEW g, NEW T, NEW f, NEW S, NEW x, OneMore(g, T, f, S, x)
  PROVE  /\ SumFunctionOnSet(f, S) \in Int /\ SumFunctionOnSet(g, T) \in Int
         /\ SumFunctionOnSet(g, T) = SumFunctionOnSet(f, S) + g[x]
<1>0. /\ IsFiniteSet(S) /\ x \notin S /\ T = S \cup {x} /\ f \in [S -> Int] /\ g \in [T -> Int]
      /\ \A y \in S : g[y] = f[y]
    BY DEF Numbers, OneMore
<1>1. IsFiniteSet(T) /\ T \ {x} = S /\ x \in T
    BY <1>0, FS_AddElement
<1>2. f \in [T \ {x} -> Int] /\ \A y \in T \ {x} : f[y] = g[y]
    BY <1>0, <1>1
<1>3. SumFunctionOnSet(g, T) = g[x] + SumFunctionOnSet(f, T \ {x})
    BY <1>0, <1>1, <1>2, SumTakesOut
<1>4. SumFunctionOnSet(f, S) \in Int /\ SumFunctionOnSet(g, T) \in Int
    BY <1>0, <1>1, SumTakesOut
<1>5. g[x] \in Int
    BY <1>0, <1>1
<1>6. SumFunctionOnSet(f, T \ {x}) = SumFunctionOnSet(f, S)
    BY <1>1, Zenon
<1> QED  BY <1>3, <1>4, <1>5, <1>6

\* A sum of nothings is nothing.
LEMMA SumOfZeros ==
  ASSUME NEW S, IsFiniteSet(S), NEW f \in [S -> Int], \A x \in S : f[x] = 0
  PROVE  SumFunctionOnSet(f, S) = 0
<1> DEFINE h == [s \in SUBSET S |-> 0]
<1>1. \A s \in SUBSET S : h[s] = 0 /\ h \in [SUBSET S -> Int]
    OBVIOUS
<1>2. h = [s \in SUBSET S |-> IF s = {} THEN 0 ELSE f[Chosen(s)] + h[s \ {Chosen(s)}]]
  <2>1. \A s \in SUBSET S : (IF s = {} THEN 0 ELSE f[Chosen(s)] + h[s \ {Chosen(s)}]) = 0
      BY ChosenIn
  <2> QED  BY <2>1
<1>3. Sums(h, f, S)
    BY <1>2 DEF Sums
<1> HIDE DEF h
<1>4. PICK k \in [SUBSET S -> Int] : Sums(k, f, S) /\ SumFunctionOnSet(f, S) = k[S]
    BY SumSolved
<1>5. k[S] = h[S]
    BY <1>3, <1>4, SumsAgree
<1> QED  BY <1>1, <1>4, <1>5

-----------------------------------------------------------------------------
(* Fees *)

FeeCallRows == [at : {"idle", "divide", "capture", "mark", "credit"}, number : Nat, count : Nat]
InstallmentRows == [amount : Nat, paid : BOOLEAN]
FeeRows == [total : FeeTotals \cup {0}, paid : Nat, status : {"none", "pending", "partial", "paid"}]

\* A request divides by a number, and what is paid is an installment there is.
FeeCallInv(c) ==
  /\ feeCall[c].at = "divide" => feeCall[c].count # 0
  /\ feeCall[c].at \in {"capture", "mark", "credit"} => feeCall[c].number \in DOMAIN installments

FeeInv == FeeTypeOK /\ \A c \in FeeCalls : FeeCallInv(c)

LEMMA FeeTypes ==
  FeeTypeOK <=>
    /\ structures \subseteq [total : FeeTotals, count : Nat \ {0}]
    /\ fee \in FeeRows /\ installments \in Seq(InstallmentRows)
    /\ order \in [pay : {"none", "created", "captured"}, paid : BOOLEAN]
    /\ strays \subseteq Nat
    /\ feeCall \in [FeeCalls -> FeeCallRows]
    /\ lost \in [glitches : 0 .. MaxGlitches, paise : Nat]
BY DEF FeeTypeOK, FeeCallRows, InstallmentRows, FeeRows

LEMMA SharesAreNat == \A t \in FeeTotals \cup {0}, n \in Nat \ {0} : Share(t, n) \in Nat
<1>1. \A a \in Nat, b \in Nat \ {0} : a \div b \in Nat
    OBVIOUS
<1> TAKE t \in FeeTotals \cup {0}, n \in Nat \ {0}
<1>2. 2 * t + n \in Nat /\ 2 * n \in Nat \ {0}
    BY FeeAssumptions
<1> QED  BY <1>1, <1>2 DEF Share

LEMMA CountsAreNat == \A n \in FeeCounts : AtLeastOne(n) \in Nat \ {0}
BY FeeAssumptions DEF AtLeastOne

LEMMA FeeStart == FeeInit => FeeInv
<1> SUFFICES ASSUME FeeInit PROVE FeeInv
    OBVIOUS
<1>1. NoFeeCall \in FeeCallRows
    BY DEF NoFeeCall, FeeCallRows
<1>2. feeCall \in [FeeCalls -> FeeCallRows]
    BY <1>1 DEF FeeInit
<1>3. lost \in [glitches : 0 .. MaxGlitches, paise : Nat] /\ structures = {} /\ strays = {}
    BY FeeAssumptions DEF FeeInit
<1>4. fee \in FeeRows /\ installments \in Seq(InstallmentRows)
      /\ order \in [pay : {"none", "created", "captured"}, paid : BOOLEAN]
  <2>1. CASE fee = NoFee /\ installments = << >> /\ order = NoOrder
      BY <2>1 DEF NoFee, NoOrder, FeeRows
  <2>2. ASSUME NEW t \in FeeTotals, NEW n \in FeeCounts,
               fee = [total |-> t, paid |-> 0, status |-> "pending"],
               installments = [i \in 1 .. AtLeastOne(n) |-> [amount |-> Share(t, AtLeastOne(n)), paid |-> FALSE]],
               order = [pay |-> "created", paid |-> FALSE]
        PROVE  /\ fee \in FeeRows /\ installments \in Seq(InstallmentRows)
               /\ order \in [pay : {"none", "created", "captured"}, paid : BOOLEAN]
    <3>1. AtLeastOne(n) \in Nat \ {0} /\ Share(t, AtLeastOne(n)) \in Nat
        BY CountsAreNat, SharesAreNat
    <3>2. [amount |-> Share(t, AtLeastOne(n)), paid |-> FALSE] \in InstallmentRows
        BY <3>1 DEF InstallmentRows
    <3>3. installments \in [1 .. AtLeastOne(n) -> InstallmentRows]
        BY <2>2, <3>2
    <3>4. installments \in Seq(InstallmentRows)
        BY <3>1, <3>3
    <3> QED  BY <2>2, <3>4 DEF FeeRows
  <2> QED  BY <2>1, <2>2 DEF FeeInit
<1>5. \A c \in FeeCalls : FeeCallInv(c)
    BY DEF FeeInit, FeeCallInv, NoFeeCall
<1> QED  BY <1>2, <1>3, <1>4, <1>5, FeeTypes DEF FeeInv

\* A request goes on; installments may be added, and none goes.
LEMMA FeeCallMoves ==
  ASSUME FeeInv, NEW c \in FeeCalls, NEW new \in FeeCallRows, feeCall' = [feeCall EXCEPT ![c] = new],
         installments' \in Seq(InstallmentRows), DOMAIN installments \subseteq DOMAIN installments',
         new.at = "divide" => new.count # 0,
         new.at \in {"capture", "mark", "credit"} => new.number \in DOMAIN installments,
         structures' = structures, strays' = strays, fee' \in FeeRows,
         order' \in [pay : {"none", "created", "captured"}, paid : BOOLEAN],
         lost' \in [glitches : 0 .. MaxGlitches, paise : Nat]
  PROVE  FeeInv'
<1>1. \A x \in FeeCalls : feeCall'[x] = IF x = c THEN new ELSE feeCall[x]
    BY FeeTypes DEF FeeInv
<1>2. feeCall' \in [FeeCalls -> FeeCallRows]
    BY FeeTypes DEF FeeInv
<1>3. structures' \subseteq [total : FeeTotals, count : Nat \ {0}] /\ strays' \subseteq Nat
    BY FeeTypes DEF FeeInv
<1>4. FeeTypeOK'
    BY <1>2, <1>3 DEF FeeTypeOK, FeeCallRows, InstallmentRows, FeeRows
<1>5. ASSUME NEW x \in FeeCalls PROVE FeeCallInv(x)'
    BY <1>1 DEF FeeCallInv, FeeInv
<1> QED  BY <1>4, <1>5 DEF FeeInv

\* A step of no request.
LEMMA FeeOutside ==
  ASSUME FeeInv, UNCHANGED <<installments, feeCall, lost, fee>>,
         structures' \subseteq [total : FeeTotals, count : Nat \ {0}], strays' \subseteq Nat,
         order' \in [pay : {"none", "created", "captured"}, paid : BOOLEAN]
  PROVE  FeeInv'
<1>1. FeeTypeOK'
    BY DEF FeeTypeOK, FeeInv
<1> QED  BY <1>1 DEF FeeInv, FeeCallInv

LEMMA FeeOutsideSteps ==
  ASSUME FeeInv, HandleCreateStructure \/ PayInstallment \/ PayOrder \/ UNCHANGED feeVars
  PROVE  FeeInv'
<1>1. CASE HandleCreateStructure
    BY <1>1, CountsAreNat, FeeOutside, FeeTypes DEF HandleCreateStructure, CreateStructure, FeeInv
<1>2. CASE PayInstallment
  <2>1. PICK i \in DOMAIN installments : StartInstallmentCheckout(i)
      BY <1>2 DEF PayInstallment
  <2>2. i \in Nat
      BY FeeTypes DEF FeeInv
  <2> QED  BY <2>1, <2>2, FeeOutside, FeeTypes DEF StartInstallmentCheckout, FeeInv
<1>3. CASE PayOrder
    BY <1>3, FeeOutside, FeeTypes DEF PayOrder, FeeInv
<1>4. CASE UNCHANGED feeVars
    BY <1>4, FeeOutside, FeeTypes DEF feeVars, FeeInv
<1> QED  BY <1>1, <1>2, <1>3, <1>4

LEMMA AssignStep ==
  ASSUME FeeInv, NEW c \in FeeCalls, NEW t \in FeeTotals, NEW n \in FeeCounts, AssignFee(c, t, n)
  PROVE  FeeInv'
<1> DEFINE new == [at |-> "divide", number |-> 1, count |-> AtLeastOne(n)]
<1>1. new \in FeeCallRows /\ new.at = "divide" /\ new.count # 0
    BY CountsAreNat DEF FeeCallRows
<1>2. fee' \in FeeRows /\ feeCall' = [feeCall EXCEPT ![c] = new]
      /\ UNCHANGED <<structures, installments, order, strays, lost>>
    BY DEF AssignFee, FeeRows
<1> HIDE DEF new
<1> QED  BY <1>1, <1>2, FeeTypes, FeeCallMoves DEF FeeInv

LEMMA CreateFeeInstallmentStep ==
  ASSUME FeeInv, NEW c \in FeeCalls, CreateFeeInstallment(c)
  PROVE  FeeInv'
<1> DEFINE share == Share(fee.total, feeCall[c].count)
           new == IF feeCall[c].number = feeCall[c].count THEN NoFeeCall
                  ELSE [feeCall[c] EXCEPT !.number = feeCall[c].number + 1]
<1>1. feeCall[c] \in FeeCallRows /\ feeCall[c].at = "divide" /\ FeeCallInv(c)
    BY FeeTypes DEF CreateFeeInstallment, FeeInv
<1>2. share \in Nat
    BY <1>1, FeeTypes, SharesAreNat DEF FeeInv, FeeCallInv, FeeRows, FeeCallRows
<1>3. /\ feeCall' = [feeCall EXCEPT ![c] = new] /\ UNCHANGED <<structures, fee, order, strays, lost>>
      /\ installments' = Append(installments, [amount |-> share, paid |-> FALSE])
    BY DEF CreateFeeInstallment
<1>4. new \in FeeCallRows /\ (new.at = "divide" => new.count # 0) /\ new.at \in {"idle", "divide"}
    BY <1>1 DEF FeeCallRows, NoFeeCall, FeeCallInv
<1>5. [amount |-> share, paid |-> FALSE] \in InstallmentRows
    BY <1>2 DEF InstallmentRows
<1> HIDE DEF new, share
<1>6. installments' \in Seq(InstallmentRows) /\ DOMAIN installments \subseteq DOMAIN installments'
    BY <1>3, <1>5, FeeTypes DEF FeeInv
<1>7. new.at \in {"capture", "mark", "credit"} => new.number \in DOMAIN installments
    BY <1>4
<1>8. fee' \in FeeRows /\ order' \in [pay : {"none", "created", "captured"}, paid : BOOLEAN]
      /\ lost' \in [glitches : 0 .. MaxGlitches, paise : Nat] /\ structures' = structures /\ strays' = strays
    BY <1>3, FeeTypes DEF FeeInv
<1> QED  BY <1>3, <1>4, <1>6, <1>7, <1>8, FeeCallMoves

LEMMA VerifyInstallmentStep ==
  ASSUME FeeInv, NEW c \in FeeCalls, NEW i \in DOMAIN installments, VerifyInstallment(c, i)
  PROVE  FeeInv'
<1> DEFINE new == [NoFeeCall EXCEPT !.at = "capture", !.number = i]
<1>1. i \in Nat
    BY FeeTypes DEF FeeInv
<1>2. new \in FeeCallRows /\ new.at = "capture" /\ new.number = i
    BY <1>1 DEF FeeCallRows, NoFeeCall
<1>3. feeCall' = [feeCall EXCEPT ![c] = new] /\ UNCHANGED <<structures, fee, installments, order, strays, lost>>
    BY DEF VerifyInstallment
<1> HIDE DEF new
<1> QED  BY <1>2, <1>3, FeeTypes, FeeCallMoves DEF FeeInv

\* A request comes to the statement after the one that it makes.
LEMMA FeeStepMoves ==
  ASSUME FeeInv, NEW c \in FeeCalls, NEW pc \in {"mark", "credit"}, FeeStep(c, pc),
         feeCall[c].at \in {"capture", "mark", "credit"},
         installments' \in Seq(InstallmentRows), DOMAIN installments' = DOMAIN installments,
         UNCHANGED <<structures, strays, fee, lost>>,
         order' \in [pay : {"none", "created", "captured"}, paid : BOOLEAN]
  PROVE  FeeInv'
<1> DEFINE new == [feeCall[c] EXCEPT !.at = pc]
<1>1. feeCall[c] \in FeeCallRows /\ FeeCallInv(c)
    BY FeeTypes DEF FeeInv
<1>2. new \in FeeCallRows /\ new.at = pc /\ new.number = feeCall[c].number
    BY <1>1 DEF FeeCallRows
<1>3. feeCall' = [feeCall EXCEPT ![c] = new]
    BY <1>1, FeeTypes, Zenon DEF FeeStep, FeeInv
<1>4. new.number \in DOMAIN installments
    BY <1>1, <1>2 DEF FeeCallInv
<1> HIDE DEF new
<1> QED  BY <1>2, <1>3, <1>4, FeeTypes, FeeCallMoves DEF FeeInv

LEMMA CaptureStep ==
  ASSUME FeeInv, NEW c \in FeeCalls, VerifyInstallmentPayment(c)
  PROVE  FeeInv'
<1>1. order' \in [pay : {"none", "created", "captured"}, paid : BOOLEAN]
    BY FeeTypes DEF FeeInv, VerifyInstallmentPayment
<1>2. installments' \in Seq(InstallmentRows) /\ DOMAIN installments' = DOMAIN installments
    BY FeeTypes DEF FeeInv, VerifyInstallmentPayment
<1> QED  BY <1>1, <1>2, FeeStepMoves DEF VerifyInstallmentPayment

\* The installments with one of them paid.
LEMMA MarkedTyped ==
  ASSUME installments \in Seq(InstallmentRows), NEW n
  PROVE  /\ [installments EXCEPT ![n].paid = TRUE] \in Seq(InstallmentRows)
         /\ DOMAIN [installments EXCEPT ![n].paid = TRUE] = DOMAIN installments
<1> DEFINE marked == [installments EXCEPT ![n].paid = TRUE]
<1>1. /\ installments \in [1 .. Len(installments) -> InstallmentRows] /\ Len(installments) \in Nat
      /\ DOMAIN installments = 1 .. Len(installments)
    OBVIOUS
<1>2. DOMAIN marked = DOMAIN installments
    OBVIOUS
<1>3. \A i \in 1 .. Len(installments) : marked[i] \in InstallmentRows
    BY <1>1 DEF InstallmentRows
<1>4. marked = [i \in DOMAIN installments |-> marked[i]]
    OBVIOUS
<1> HIDE DEF marked
<1>5. marked \in [1 .. Len(installments) -> InstallmentRows]
    BY <1>1, <1>3, <1>4
<1>6. marked \in Seq(InstallmentRows)
    BY <1>1, <1>5
<1> QED  BY <1>2, <1>6 DEF marked

LEMMA MarkInstallmentPaidStep ==
  ASSUME FeeInv, NEW c \in FeeCalls, MarkInstallmentPaid(c)
  PROVE  FeeInv'
<1>1. installments' \in Seq(InstallmentRows) /\ DOMAIN installments' = DOMAIN installments
    BY MarkedTyped, FeeTypes DEF FeeInv, MarkInstallmentPaid
<1>2. order' \in [pay : {"none", "created", "captured"}, paid : BOOLEAN]
    BY FeeTypes DEF FeeInv, MarkInstallmentPaid
<1> QED  BY <1>1, <1>2, FeeStepMoves DEF MarkInstallmentPaid

\* The request is answered, or ends.
LEMMA FeeAnswered ==
  ASSUME FeeInv, NEW c \in FeeCalls, FeeAnswer(c), UNCHANGED <<structures, installments, order, strays>>,
         fee' \in FeeRows, lost' \in [glitches : 0 .. MaxGlitches, paise : Nat]
  PROVE  FeeInv'
<1>1. NoFeeCall \in FeeCallRows /\ NoFeeCall.at = "idle"
    BY DEF NoFeeCall, FeeCallRows
<1> QED  BY <1>1, FeeTypes, FeeCallMoves DEF FeeInv, FeeAnswer

LEMMA AmountsAreNat ==
  ASSUME FeeInv, NEW c \in FeeCalls, feeCall[c].at = "credit"
  PROVE  installments[feeCall[c].number].amount \in Nat
<1>1. feeCall[c].number \in DOMAIN installments
    BY DEF FeeInv, FeeCallInv
<1>2. installments[feeCall[c].number] \in InstallmentRows
    BY <1>1, FeeTypes DEF FeeInv
<1> QED  BY <1>2 DEF InstallmentRows

LEMMA UpdateFeePaidAmountStep ==
  ASSUME FeeInv, NEW c \in FeeCalls, UpdateFeePaidAmount(c)
  PROVE  FeeInv'
<1> DEFINE sum == fee.paid + Credited(feeCall[c].number)
<1>1. fee \in FeeRows /\ fee.paid \in Nat
    BY FeeTypes DEF FeeInv, FeeRows
<1>2. sum \in Nat
    BY <1>1, AmountsAreNat DEF UpdateFeePaidAmount, Credited
<1>3. fee' = [fee EXCEPT !.paid = sum,
                !.status = IF sum >= fee.total THEN "paid" ELSE IF sum > 0 THEN "partial" ELSE fee.status]
    BY DEF UpdateFeePaidAmount
<1> HIDE DEF sum
<1>4. fee' \in FeeRows
    BY <1>1, <1>2, <1>3 DEF FeeRows
<1> QED  BY <1>4, FeeAnswered, FeeTypes DEF UpdateFeePaidAmount, FeeInv

LEMMA FeeGlitchStep ==
  ASSUME FeeInv, NEW c \in FeeCalls, FeeGlitch(c)
  PROVE  FeeInv'
<1>1. lost.glitches \in 0 .. MaxGlitches /\ lost.paise \in Nat /\ lost.glitches < MaxGlitches
    BY FeeTypes DEF FeeInv, FeeGlitch
<1>2. lost.glitches + 1 \in 0 .. MaxGlitches
    BY <1>1, FeeAssumptions
<1>3. (lost.paise + IF feeCall[c].at = "credit" THEN installments[feeCall[c].number].amount ELSE 0) \in Nat
    BY <1>1, AmountsAreNat
<1>4. lost' \in [glitches : 0 .. MaxGlitches, paise : Nat]
    BY <1>2, <1>3 DEF FeeGlitch
<1> QED  BY <1>4, FeeAnswered, FeeTypes DEF FeeGlitch, FeeInv

LEMMA FeeInvStep == FeeInv /\ [FeeNext]_feeVars => FeeInv'
<1> SUFFICES ASSUME FeeInv, [FeeNext]_feeVars PROVE FeeInv'
    OBVIOUS
<1>1. CASE HandleCreateStructure \/ PayInstallment \/ PayOrder \/ UNCHANGED feeVars
    BY <1>1, FeeOutsideSteps
<1>2. CASE Assign
    BY <1>2, AssignStep DEF Assign
<1>3. ASSUME NEW c \in FeeCalls,
             \/ CreateFeeInstallment(c) \/ VerifyInstallmentPayment(c) \/ MarkInstallmentPaid(c)
             \/ UpdateFeePaidAmount(c) \/ FeeGlitch(c)
      PROVE  FeeInv'
    BY <1>3, CreateFeeInstallmentStep, CaptureStep, MarkInstallmentPaidStep, UpdateFeePaidAmountStep, FeeGlitchStep
<1>4. ASSUME NEW c \in FeeCalls, NEW i \in DOMAIN installments, VerifyInstallment(c, i) PROVE FeeInv'
    BY <1>4, VerifyInstallmentStep
<1> QED  BY <1>1, <1>2, <1>3, <1>4 DEF FeeNext


-----------------------------------------------------------------------------
\* Credits

LEMMA PaidOffTyped ==
  ASSUME FeeInv
  PROVE  PaidOff \in [DOMAIN installments -> Int] /\ IsFiniteSet(DOMAIN installments)
<1>1. installments \in Seq(InstallmentRows)
    BY FeeTypes DEF FeeInv
<1>2. \A i \in DOMAIN installments : installments[i].amount \in Nat
  <2>1. \A i \in DOMAIN installments : installments[i] \in InstallmentRows
      BY <1>1
  <2> QED  BY <2>1 DEF InstallmentRows
<1>3. DOMAIN installments = 1 .. Len(installments) /\ Len(installments) \in Nat
    BY <1>1
<1>4. IsFiniteSet(1 .. Len(installments))
    BY <1>3, FS_Interval
<1> QED  BY <1>2, <1>3, <1>4 DEF PaidOff

LEMMA UncreditedTyped ==
  ASSUME FeeInv
  PROVE  Uncredited \in [FeeCalls -> Int]
<1>1. \A c \in FeeCalls : feeCall[c].at = "credit" => installments[feeCall[c].number].amount \in Int
    BY AmountsAreNat
<1> QED  BY <1>1 DEF Uncredited

\* A request moves: what it has to credit changes the sum, as the amounts stay.
LEMMA UncreditedMoves ==
  ASSUME FeeInv, FeeInv', NEW c \in FeeCalls, \A x \in FeeCalls \ {c} : feeCall'[x] = feeCall[x],
         \A i \in DOMAIN installments : installments'[i].amount = installments[i].amount
  PROVE  /\ SumFunction(Uncredited) \in Int /\ SumFunction(Uncredited)' \in Int
         /\ SumFunction(Uncredited)' = SumFunction(Uncredited) - Uncredited[c] + Uncredited'[c]
<1>1. Uncredited \in [FeeCalls -> Int]
    BY UncreditedTyped
<1>2. Uncredited' \in [FeeCalls -> Int]
  <2>1. \A x \in FeeCalls : feeCall'[x].at = "credit" => installments'[feeCall'[x].number].amount \in Int
    <3> TAKE x \in FeeCalls
    <3> SUFFICES ASSUME feeCall'[x].at = "credit" PROVE installments'[feeCall'[x].number].amount \in Int
        OBVIOUS
    <3>1. feeCall'[x].number \in DOMAIN installments' /\ installments' \in Seq(InstallmentRows)
        BY DEF FeeInv, FeeCallInv, FeeTypeOK, InstallmentRows
    <3>2. installments'[feeCall'[x].number] \in InstallmentRows
        BY <3>1
    <3> QED  BY <3>2 DEF InstallmentRows
  <2> QED  BY <2>1 DEF Uncredited
<1>3. \A x \in FeeCalls \ {c} : Uncredited'[x] = Uncredited[x]
  <2> TAKE x \in FeeCalls \ {c}
  <2>1. feeCall'[x] = feeCall[x]
      OBVIOUS
  <2>2. feeCall[x].at = "credit" => feeCall[x].number \in DOMAIN installments
      BY DEF FeeInv, FeeCallInv
  <2> QED  BY <2>1, <2>2 DEF Uncredited
<1>4. IsFiniteSet(FeeCalls)
    BY FeeAssumptions
<1>5. /\ SumFunctionOnSet(Uncredited, FeeCalls) \in Int /\ SumFunctionOnSet(Uncredited', FeeCalls) \in Int
      /\ SumFunctionOnSet(Uncredited', FeeCalls) = SumFunctionOnSet(Uncredited, FeeCalls) - Uncredited[c] + Uncredited'[c]
    BY <1>1, <1>2, <1>3, <1>4, SumChanges
<1>6. DOMAIN Uncredited = FeeCalls /\ DOMAIN Uncredited' = FeeCalls
    BY DEF Uncredited
<1> QED  BY <1>5, <1>6 DEF SumFunction

\* An installment more, of which nothing is paid.
LEMMA PaidOffGrows ==
  ASSUME FeeInv, FeeInv', NEW share, installments' = Append(installments, [amount |-> share, paid |-> FALSE])
  PROVE  /\ SumFunction(PaidOff) \in Int /\ SumFunction(PaidOff)' = SumFunction(PaidOff)
         /\ \A i \in DOMAIN installments : installments'[i].amount = installments[i].amount
<1>1. PICK x, S, T, f, g :
        x = Len(installments) + 1 /\ S = DOMAIN installments /\ T = DOMAIN installments' /\ f = PaidOff /\ g = PaidOff'
    OBVIOUS
<1>2. installments \in Seq(InstallmentRows)
    BY FeeTypes DEF FeeInv
<1>3. /\ x \notin S /\ T = S \cup {x}
      /\ \A i \in S : installments'[i] = installments[i]
      /\ installments'[x] = [amount |-> share, paid |-> FALSE]
    BY <1>1, <1>2
<1>4. f \in [S -> Int] /\ IsFiniteSet(S)
    BY <1>1, PaidOffTyped
<1>5. g = [i \in T |-> IF installments'[i].paid THEN installments'[i].amount ELSE 0]
    BY <1>1 DEF PaidOff
<1>6. installments'[x].paid = FALSE
  <2>1. [amount |-> share, paid |-> FALSE].paid = FALSE
      OBVIOUS
  <2>2. installments'[x] = [amount |-> share, paid |-> FALSE]
      BY <1>3
  <2> QED  BY <2>1, <2>2, Zenon
<1>7. g[x] = 0
  <2>1. x \in T
      BY <1>3
  <2> QED  BY <1>5, <1>6, <2>1
<1>8. \A i \in S : g[i] = f[i]
  <2>1. \A i \in S : f[i] = IF installments[i].paid THEN installments[i].amount ELSE 0
      BY <1>1 DEF PaidOff
  <2> QED  BY <1>3, <1>5, <2>1
<1>9. g \in [T -> Int]
  <2>1. \A i \in T : g[i] \in Int
      BY <1>3, <1>4, <1>7, <1>8
  <2>2. g = [i \in T |-> g[i]]
      BY <1>5
  <2> QED  BY <2>1, <2>2
<1>10. OneMore(g, T, f, S, x)
    BY <1>3, <1>4, <1>8, <1>9 DEF Numbers, OneMore
<1>11. SumFunctionOnSet(f, S) \in Int /\ SumFunctionOnSet(g, T) = SumFunctionOnSet(f, S) + g[x]
    BY <1>10, SumGrows
<1>12. DOMAIN f = S /\ DOMAIN g = T
    BY <1>4, <1>9
<1>13. SumFunction(PaidOff) = SumFunctionOnSet(f, S) /\ SumFunction(PaidOff)' = SumFunctionOnSet(g, T)
    BY <1>1, <1>12 DEF SumFunction
<1>14. \A i \in DOMAIN installments : installments'[i].amount = installments[i].amount
    BY <1>1, <1>3
<1> QED  BY <1>7, <1>11, <1>13, <1>14

\* An installment is marked: no more is paid off than it is worth.
LEMMA PaidOffMarked ==
  ASSUME FeeInv, NEW n \in DOMAIN installments, installments' = [installments EXCEPT ![n].paid = TRUE]
  PROVE  /\ SumFunction(PaidOff) \in Int /\ SumFunction(PaidOff)' \in Int
         /\ SumFunction(PaidOff)' <= SumFunction(PaidOff) + installments[n].amount
         /\ \A i \in DOMAIN installments : installments'[i].amount = installments[i].amount
<1> DEFINE S == DOMAIN installments
<1>1. installments \in Seq(InstallmentRows)
    BY FeeTypes DEF FeeInv
<1>2. \A i \in S : installments[i] \in InstallmentRows
    BY <1>1
<1>3. /\ DOMAIN installments' = S
      /\ \A i \in S : i # n => installments'[i] = installments[i]
      /\ installments'[n].paid = TRUE /\ installments'[n].amount = installments[n].amount
    BY <1>2 DEF InstallmentRows
<1>4. PaidOff \in [S -> Int] /\ IsFiniteSet(S)
    BY PaidOffTyped
<1>5. PaidOff' = [i \in S |-> IF installments'[i].paid THEN installments'[i].amount ELSE 0]
    BY <1>3 DEF PaidOff
<1>6. installments[n].amount \in Nat
    BY <1>2 DEF InstallmentRows
<1>7. PaidOff'[n] = installments[n].amount /\ PaidOff[n] \in {0, installments[n].amount}
    BY <1>3, <1>5 DEF PaidOff
<1>8. \A i \in S \ {n} : PaidOff'[i] = PaidOff[i]
    BY <1>3, <1>5 DEF PaidOff
<1>9. PaidOff' \in [S -> Int]
    BY <1>4, <1>5, <1>6, <1>7, <1>8
<1>10. /\ SumFunctionOnSet(PaidOff, S) \in Int /\ SumFunctionOnSet(PaidOff', S) \in Int
       /\ SumFunctionOnSet(PaidOff', S) = SumFunctionOnSet(PaidOff, S) - PaidOff[n] + PaidOff'[n]
    BY <1>4, <1>8, <1>9, SumChanges
<1>11. DOMAIN PaidOff = S /\ DOMAIN PaidOff' = S
    BY <1>4, <1>9
<1>12. SumFunction(PaidOff) = SumFunctionOnSet(PaidOff, S) /\ SumFunction(PaidOff)' = SumFunctionOnSet(PaidOff', S)
    BY <1>11 DEF SumFunction
<1>13. \A i \in S : installments'[i].amount = installments[i].amount
    BY <1>3
<1> QED  BY <1>6, <1>7, <1>10, <1>12, <1>13

LEMMA PaidOffStays ==
  ASSUME FeeInv, UNCHANGED installments
  PROVE  /\ SumFunction(PaidOff) \in Int /\ SumFunction(PaidOff)' = SumFunction(PaidOff)
         /\ \A i \in DOMAIN installments : installments'[i].amount = installments[i].amount
<1>1. SumFunction(PaidOff)' = SumFunction(PaidOff)
    BY DEF SumFunction, PaidOff
<1>2. PaidOff \in [DOMAIN installments -> Int] /\ IsFiniteSet(DOMAIN installments)
    BY PaidOffTyped
<1>3. SumFunctionOnSet(PaidOff, DOMAIN installments) \in Int
    BY <1>2, SumTakesOut
<1>4. DOMAIN PaidOff = DOMAIN installments
    BY <1>2
<1>5. SumFunction(PaidOff) \in Int
    BY <1>3, <1>4 DEF SumFunction
<1> QED  BY <1>1, <1>5

LEMMA MoneyTyped ==
  ASSUME FeeInv
  PROVE  fee.paid \in Nat /\ lost.paise \in Nat
BY FeeTypes DEF FeeInv, FeeRows

LEMMA NothingLostAtFirst == FeeInit => NoCreditLost
<1> SUFFICES ASSUME FeeInit PROVE NoCreditLost
    OBVIOUS
<1>1. FeeInv
    BY FeeStart
<1>2. \A i \in DOMAIN installments : PaidOff[i] = 0
  <2> TAKE i \in DOMAIN installments
  <2>1. ~ installments[i].paid
    <3>1. CASE installments = << >>
        BY <3>1
    <3>2. ASSUME NEW t \in FeeTotals, NEW n \in FeeCounts,
                 installments = [k \in 1 .. AtLeastOne(n) |-> [amount |-> Share(t, AtLeastOne(n)), paid |-> FALSE]]
          PROVE  ~ installments[i].paid
        BY <3>2
    <3> QED  BY <3>1, <3>2 DEF FeeInit
  <2> QED  BY <2>1 DEF PaidOff
<1>3. \A c \in FeeCalls : Uncredited[c] = 0
    BY DEF FeeInit, NoFeeCall, Uncredited
<1>4. PaidOff \in [DOMAIN installments -> Int] /\ IsFiniteSet(DOMAIN installments) /\ Uncredited \in [FeeCalls -> Int]
    BY <1>1, PaidOffTyped, UncreditedTyped
<1>5. SumFunctionOnSet(PaidOff, DOMAIN installments) = 0
    BY <1>2, <1>4, SumOfZeros
<1>6. SumFunctionOnSet(Uncredited, FeeCalls) = 0
    BY <1>3, <1>4, SumOfZeros, FeeAssumptions
<1>7. DOMAIN PaidOff = DOMAIN installments /\ DOMAIN Uncredited = FeeCalls
    BY <1>4
<1>8. SumFunction(PaidOff) = 0 /\ SumFunction(Uncredited) = 0
    BY <1>5, <1>6, <1>7 DEF SumFunction
<1> QED  BY <1>1, <1>8, MoneyTyped DEF NoCreditLost

\* The books after a step of one request.
LEMMA Balance ==
  ASSUME FeeInv, FeeInv', NoCreditLost, NEW c \in FeeCalls,
         \A x \in FeeCalls \ {c} : feeCall'[x] = feeCall[x],
         \A i \in DOMAIN installments : installments'[i].amount = installments[i].amount,
         SumFunction(PaidOff) \in Int, SumFunction(PaidOff)' \in Int,
         SumFunction(PaidOff)' - SumFunction(PaidOff)
           <= (fee'.paid - fee.paid) + (lost'.paise - lost.paise) + (Uncredited'[c] - Uncredited[c])
  PROVE  NoCreditLost'
<1>1. /\ SumFunction(Uncredited) \in Int /\ SumFunction(Uncredited)' \in Int
      /\ SumFunction(Uncredited)' = SumFunction(Uncredited) - Uncredited[c] + Uncredited'[c]
    BY UncreditedMoves
<1>2. fee.paid \in Nat /\ lost.paise \in Nat
    BY MoneyTyped
<1>3. fee'.paid \in Nat /\ lost'.paise \in Nat
    BY DEF FeeInv, FeeTypeOK
<1>4. Uncredited[c] \in Int /\ Uncredited'[c] \in Int
  <2>1. Uncredited[c] \in Int
      BY UncreditedTyped
  <2>2. feeCall'[c].at = "credit" => installments'[feeCall'[c].number].amount \in Int
    <3> SUFFICES ASSUME feeCall'[c].at = "credit" PROVE installments'[feeCall'[c].number].amount \in Int
        OBVIOUS
    <3>1. feeCall'[c].number \in DOMAIN installments' /\ installments' \in Seq(InstallmentRows)
        BY DEF FeeInv, FeeCallInv, FeeTypeOK, InstallmentRows
    <3>2. installments'[feeCall'[c].number] \in InstallmentRows
        BY <3>1
    <3> QED  BY <3>2 DEF InstallmentRows
  <2> QED  BY <2>1, <2>2 DEF Uncredited
<1> DEFINE p == SumFunction(PaidOff)
           u == SumFunction(Uncredited)
<1>5. p <= fee.paid + lost.paise + u
    BY DEF NoCreditLost
<1>6. p' <= fee'.paid + lost'.paise + u'
  <2> HIDE DEF p, u
  <2>1. /\ p \in Int /\ p' \in Int /\ u \in Int /\ u' \in Int /\ u' = u - Uncredited[c] + Uncredited'[c]
        /\ p' - p <= (fee'.paid - fee.paid) + (lost'.paise - lost.paise) + (Uncredited'[c] - Uncredited[c])
      BY <1>1 DEF p, u
  <2> QED  BY <1>2, <1>3, <1>4, <1>5, <2>1
<1> QED  BY <1>6 DEF NoCreditLost

\* A step that no credit is in.
LEMMA NoCreditInStep ==
  ASSUME FeeInv, FeeInv', NoCreditLost, NEW c \in FeeCalls,
         \A x \in FeeCalls \ {c} : feeCall'[x] = feeCall[x],
         \A i \in DOMAIN installments : installments'[i].amount = installments[i].amount,
         SumFunction(PaidOff) \in Int, SumFunction(PaidOff)' = SumFunction(PaidOff),
         fee'.paid = fee.paid, lost'.paise = lost.paise, feeCall[c].at # "credit", feeCall'[c].at # "credit"
  PROVE  NoCreditLost'
<1>1. Uncredited[c] = 0 /\ Uncredited'[c] = 0
    BY DEF Uncredited
<1>2. fee.paid \in Nat /\ lost.paise \in Nat
    BY MoneyTyped
<1>3. SumFunction(PaidOff)' - SumFunction(PaidOff)
        <= (fee'.paid - fee.paid) + (lost'.paise - lost.paise) + (Uncredited'[c] - Uncredited[c])
    BY <1>1, <1>2
<1>4. SumFunction(PaidOff)' \in Int
    OBVIOUS
<1> QED  BY <1>3, <1>4, Balance

\* A step at which no request, no fee and no installment changes.
LEMMA BooksStay ==
  ASSUME NoCreditLost, UNCHANGED <<fee, installments, feeCall, lost>>
  PROVE  NoCreditLost'
BY DEF NoCreditLost, SumFunction, PaidOff, Uncredited

LEMMA Others ==
  ASSUME FeeInv, NEW c \in FeeCalls, NEW new, feeCall' = [feeCall EXCEPT ![c] = new]
  PROVE  feeCall'[c] = new /\ \A x \in FeeCalls \ {c} : feeCall'[x] = feeCall[x]
BY FeeTypes DEF FeeInv

LEMMA NoCreditLostStep ==
  ASSUME FeeInv, FeeInv', NoCreditLost, [FeeNext]_feeVars
  PROVE  NoCreditLost'
<1>1. CASE HandleCreateStructure \/ PayInstallment \/ PayOrder \/ UNCHANGED feeVars
    BY <1>1, BooksStay DEF HandleCreateStructure, CreateStructure, PayInstallment, StartInstallmentCheckout, PayOrder, feeVars
<1>2. ASSUME NEW c \in FeeCalls, NEW t \in FeeTotals, NEW n \in FeeCounts, AssignFee(c, t, n) PROVE NoCreditLost'
  <2>1. /\ feeCall' = [feeCall EXCEPT ![c] = [at |-> "divide", number |-> 1, count |-> AtLeastOne(n)]]
        /\ fee'.paid = fee.paid /\ feeCall[c].at # "credit" /\ UNCHANGED <<installments, lost>>
      BY <1>2 DEF AssignFee, NoFee
  <2>2. feeCall'[c].at # "credit" /\ \A x \in FeeCalls \ {c} : feeCall'[x] = feeCall[x]
      BY <2>1, Others
  <2> QED  BY <2>1, <2>2, PaidOffStays, NoCreditInStep
<1>3. ASSUME NEW c \in FeeCalls, CreateFeeInstallment(c) PROVE NoCreditLost'
  <2>1. /\ feeCall[c].at = "divide" /\ UNCHANGED <<fee, lost>>
        /\ feeCall' = [feeCall EXCEPT ![c] = IF feeCall[c].number = feeCall[c].count THEN NoFeeCall
                                             ELSE [feeCall[c] EXCEPT !.number = feeCall[c].number + 1]]
        /\ \E share : installments' = Append(installments, [amount |-> share, paid |-> FALSE])
      BY <1>3 DEF CreateFeeInstallment
  <2>2. feeCall'[c].at # "credit"
    <3>1. feeCall[c] \in FeeCallRows
        BY FeeTypes DEF FeeInv
    <3> QED  BY <2>1, <3>1, Others DEF NoFeeCall, FeeCallRows
  <2>3. \A x \in FeeCalls \ {c} : feeCall'[x] = feeCall[x]
      BY <2>1, Others
  <2> QED  BY <2>1, <2>2, <2>3, PaidOffGrows, NoCreditInStep
<1>4. ASSUME NEW c \in FeeCalls, NEW i \in DOMAIN installments, VerifyInstallment(c, i) PROVE NoCreditLost'
  <2>1. /\ feeCall' = [feeCall EXCEPT ![c] = [NoFeeCall EXCEPT !.at = "capture", !.number = i]]
        /\ feeCall[c].at = "idle" /\ UNCHANGED <<fee, installments, lost>>
      BY <1>4 DEF VerifyInstallment
  <2>2. feeCall'[c].at # "credit" /\ \A x \in FeeCalls \ {c} : feeCall'[x] = feeCall[x]
      BY <2>1, Others DEF NoFeeCall
  <2> QED  BY <2>1, <2>2, PaidOffStays, NoCreditInStep
<1>5. ASSUME NEW c \in FeeCalls, VerifyInstallmentPayment(c) PROVE NoCreditLost'
  <2>1. /\ feeCall' = [feeCall EXCEPT ![c].at = "mark"] /\ feeCall[c].at = "capture" /\ UNCHANGED <<fee, installments, lost>>
      BY <1>5 DEF VerifyInstallmentPayment, FeeStep
  <2>2. feeCall[c] \in FeeCallRows
      BY FeeTypes DEF FeeInv
  <2>3. feeCall'[c].at # "credit" /\ \A x \in FeeCalls \ {c} : feeCall'[x] = feeCall[x]
      BY <2>1, <2>2, FeeTypes DEF FeeInv, FeeCallRows
  <2> QED  BY <2>1, <2>3, PaidOffStays, NoCreditInStep
<1>6. ASSUME NEW c \in FeeCalls, MarkInstallmentPaid(c) PROVE NoCreditLost'
  <2> DEFINE n == feeCall[c].number
  <2>1. /\ feeCall' = [feeCall EXCEPT ![c].at = "credit"] /\ feeCall[c].at = "mark" /\ UNCHANGED <<fee, lost>>
        /\ installments' = [installments EXCEPT ![n].paid = TRUE]
      BY <1>6 DEF MarkInstallmentPaid, FeeStep
  <2>2. feeCall[c] \in FeeCallRows /\ n \in DOMAIN installments
      BY <2>1, FeeTypes DEF FeeInv, FeeCallInv
  <2>3. feeCall'[c].at = "credit" /\ feeCall'[c].number = n /\ \A x \in FeeCalls \ {c} : feeCall'[x] = feeCall[x]
      BY <2>1, <2>2, FeeTypes DEF FeeInv, FeeCallRows
  <2>4. /\ SumFunction(PaidOff) \in Int /\ SumFunction(PaidOff)' \in Int
        /\ SumFunction(PaidOff)' <= SumFunction(PaidOff) + installments[n].amount
        /\ \A i \in DOMAIN installments : installments'[i].amount = installments[i].amount
      BY <2>1, <2>2, PaidOffMarked
  <2>5. Uncredited[c] = 0 /\ Uncredited'[c] = installments[n].amount
      BY <2>1, <2>2, <2>3, <2>4 DEF Uncredited
  <2>6. installments[n].amount \in Nat /\ fee.paid \in Nat /\ lost.paise \in Nat
    <3>1. installments[n] \in InstallmentRows
        BY <2>2, FeeTypes DEF FeeInv
    <3> QED  BY <3>1, MoneyTyped DEF InstallmentRows
  <2>7. SumFunction(PaidOff)' - SumFunction(PaidOff)
          <= (fee'.paid - fee.paid) + (lost'.paise - lost.paise) + (Uncredited'[c] - Uncredited[c])
      BY <2>1, <2>4, <2>5, <2>6
  <2> QED  BY <2>3, <2>4, <2>7, Balance
<1>7. ASSUME NEW c \in FeeCalls, UpdateFeePaidAmount(c) \/ FeeGlitch(c) PROVE NoCreditLost'
  <2> DEFINE due == IF feeCall[c].at = "credit" THEN installments[feeCall[c].number].amount ELSE 0
  <2>1. feeCall' = [feeCall EXCEPT ![c] = NoFeeCall] /\ UNCHANGED installments
      BY <1>7 DEF UpdateFeePaidAmount, FeeGlitch, FeeAnswer
  <2>2. feeCall'[c] = NoFeeCall /\ \A x \in FeeCalls \ {c} : feeCall'[x] = feeCall[x]
      BY <2>1, Others
  <2>3. Uncredited[c] = due /\ Uncredited'[c] = 0
      BY <2>2 DEF Uncredited, NoFeeCall
  <2>4. fee.paid \in Nat /\ lost.paise \in Nat /\ due \in Nat
      BY MoneyTyped, AmountsAreNat
  <2>5. (fee'.paid - fee.paid) + (lost'.paise - lost.paise) = due
    <3>1. CASE UpdateFeePaidAmount(c)
      <4>1. fee'.paid = fee.paid + due /\ lost' = lost
          BY <3>1, FeeTypes DEF UpdateFeePaidAmount, Credited, FeeInv, FeeRows
      <4> HIDE DEF due
      <4> QED  BY <2>4, <4>1
    <3>2. CASE FeeGlitch(c)
      <4>1. lost'.paise = lost.paise + due /\ fee' = fee
          BY <3>2 DEF FeeGlitch
      <4> HIDE DEF due
      <4> QED  BY <2>4, <4>1
    <3> QED  BY <1>7, <3>1, <3>2
  <2>6. /\ SumFunction(PaidOff) \in Int /\ SumFunction(PaidOff)' = SumFunction(PaidOff)
        /\ \A i \in DOMAIN installments : installments'[i].amount = installments[i].amount
      BY <2>1, PaidOffStays
  <2> HIDE DEF due
  <2>7. SumFunction(PaidOff)' - SumFunction(PaidOff)
          <= (fee'.paid - fee.paid) + (lost'.paise - lost.paise) + (Uncredited'[c] - Uncredited[c])
      BY <2>3, <2>4, <2>5, <2>6
  <2>8. SumFunction(PaidOff)' \in Int
      BY <2>6
  <2> QED  BY <2>2, <2>6, <2>7, <2>8, Balance
<1> QED  BY <1>1, <1>2, <1>3, <1>4, <1>5, <1>6, <1>7 DEF FeeNext, Assign

\* Every reachable state satisfies the invariant, and no paid installment is without its credit.
THEOREM FeeInvariant == FeeSpec => [](FeeInv /\ NoCreditLost)
<1>1. FeeInit => FeeInv /\ NoCreditLost
    BY FeeStart, NothingLostAtFirst
<1>2. (FeeInv /\ NoCreditLost) /\ [FeeNext]_feeVars => (FeeInv /\ NoCreditLost)'
    BY FeeInvStep, NoCreditLostStep
<1> QED  BY <1>1, <1>2, PTL DEF FeeSpec

\* What was paid off is credited, about to be, or told of as lost: for any number of requests and
\* installments, however they cross.
THEOREM NoCreditEverLost == FeeSpec => []NoCreditLost
BY FeeInvariant, PTL

-----------------------------------------------------------------------------
(* The pages of the site *)

ArticleRows == [state : States, dated : BOOLEAN]
FaqRows == [state : States \cup {"gone"}, active : BOOLEAN]
EditRows == [faq : Faqs \cup {"none"}, active : BOOLEAN, asks : BOOLEAN, stale : BOOLEAN]
PageRows == [state : States, published : BOOLEAN]
BannerRows == [state : States, active : BOOLEAN]
LeadRows == [state : States, status : {"new", "demo", "lost"}, slots : BOOLEAN]

\* An edit is of a question that has been there, and what it is about to put back, if nobody has
\* asked for a switch since it read the rows, is the switch asked for last.
EditReady(edit) ==
  edit # NotEditing =>
    /\ edit.faq \in Faqs /\ faqs[edit.faq].state # "none"
    /\ ~edit.asks /\ ~edit.stale /\ edit.faq \notin crossed => edit.active = asked[edit.faq]

ShowcaseInv == ShowcaseTypeOK /\ SwitchesHold /\ \A e \in Editors : EditReady(editing[e])

LEMMA ShowcaseTypes ==
  ShowcaseTypeOK <=>
    /\ articles \in [Articles -> ArticleRows] /\ faqs \in [Faqs -> FaqRows] /\ editing \in [Editors -> EditRows]
    /\ asked \in [Faqs -> BOOLEAN] /\ crossed \in SUBSET Faqs
    /\ pages \in [Pages -> PageRows] /\ banners \in [Banners -> BannerRows] /\ leads \in [Leads -> LeadRows]
BY DEF ShowcaseTypeOK, ArticleRows, FaqRows, EditRows, PageRows, BannerRows, LeadRows

LEMMA ShowcaseTyped ==
  ASSUME ShowcaseInv
  PROVE  /\ articles \in [Articles -> ArticleRows] /\ faqs \in [Faqs -> FaqRows] /\ editing \in [Editors -> EditRows]
         /\ asked \in [Faqs -> BOOLEAN] /\ crossed \in SUBSET Faqs
         /\ pages \in [Pages -> PageRows] /\ banners \in [Banners -> BannerRows] /\ leads \in [Leads -> LeadRows]
BY ShowcaseTypes DEF ShowcaseInv

\* A step at other tables than the questions.
LEMMA NoQuestionStep ==
  ASSUME ShowcaseInv, UNCHANGED questionVars,
         articles' \in [Articles -> ArticleRows], pages' \in [Pages -> PageRows],
         banners' \in [Banners -> BannerRows], leads' \in [Leads -> LeadRows]
  PROVE  ShowcaseInv'
<1>1. UNCHANGED <<faqs, editing, asked, crossed>>
    BY DEF questionVars
<1>2. ShowcaseTypeOK'
    BY <1>1, ShowcaseTyped DEF ShowcaseTypeOK, ArticleRows, FaqRows, EditRows, PageRows, BannerRows, LeadRows
<1>3. SwitchesHold'
    BY <1>1 DEF SwitchesHold, ShowcaseInv
<1>4. ASSUME NEW e \in Editors PROVE EditReady(editing[e])'
    BY <1>1 DEF EditReady, ShowcaseInv
<1> QED  BY <1>2, <1>3, <1>4 DEF ShowcaseInv

LEMMA ArticleSteps ==
  ASSUME ShowcaseInv, HandlePosts
  PROVE  articles' \in [Articles -> ArticleRows]
<1>1. PICK a \in Articles : DeletePost(a) \/ \E dated \in BOOLEAN : CreatePost(a, dated) \/ UpdatePost(a, dated)
    BY DEF HandlePosts
<1>2. articles[a] \in ArticleRows /\ NoArticle \in ArticleRows
    BY ShowcaseTyped DEF NoArticle, ArticleRows, States
<1>3. CASE DeletePost(a)
    BY <1>2, <1>3, ShowcaseTyped DEF DeletePost
<1>4. ASSUME NEW dated \in BOOLEAN, CreatePost(a, dated) PROVE articles' \in [Articles -> ArticleRows]
  <2>1. [state |-> "there", dated |-> dated] \in ArticleRows
      BY DEF ArticleRows, States
  <2> QED  BY <1>4, <2>1, ShowcaseTyped DEF CreatePost
<1>5. ASSUME NEW dated \in BOOLEAN, UpdatePost(a, dated) PROVE articles' \in [Articles -> ArticleRows]
  <2> DEFINE row == [articles[a] EXCEPT !.dated = dated]
  <2>1. row \in ArticleRows
      BY <1>2 DEF ArticleRows
  <2>2. articles' = [articles EXCEPT ![a] = row]
      BY <1>5, Zenon DEF UpdatePost
  <2> HIDE DEF row
  <2> QED  BY <2>1, <2>2, ShowcaseTyped
<1> QED  BY <1>1, <1>3, <1>4, <1>5

LEMMA PageSteps ==
  ASSUME ShowcaseInv, HandleUpsertCmsPage
  PROVE  pages' \in [Pages -> PageRows]
<1>1. PICK s \in Pages, published \in Flags : UpsertCmsPage(s, published)
    BY DEF HandleUpsertCmsPage
<1> DEFINE row == [state |-> "there", published |-> BoolPtrToBool(published, TRUE)]
<1>2. BoolPtrToBool(published, TRUE) \in BOOLEAN
    BY DEF BoolPtrToBool
<1>3. row \in PageRows
    BY <1>2 DEF PageRows, States
<1>4. pages' = [pages EXCEPT ![s] = row]
    BY <1>1 DEF UpsertCmsPage
<1> HIDE DEF row
<1> QED  BY <1>3, <1>4, ShowcaseTyped

LEMMA BannerSteps ==
  ASSUME ShowcaseInv, HandleCreateBanner \/ HandleUpdateBanner \/ HandleSetBannerActive \/ HandleDeleteBanner
  PROVE  banners' \in [Banners -> BannerRows]
<1>1. ASSUME NEW b \in Banners, NEW row \in BannerRows, banners' = [banners EXCEPT ![b] = row]
      PROVE  banners' \in [Banners -> BannerRows]
    BY <1>1, ShowcaseTyped
<1>2. ASSUME NEW b \in Banners, NEW on \in BOOLEAN, banners' = [banners EXCEPT ![b].active = on]
      PROVE  banners' \in [Banners -> BannerRows]
  <2> DEFINE row == [banners[b] EXCEPT !.active = on]
  <2>1. banners[b] \in BannerRows
      BY ShowcaseTyped
  <2>2. row \in BannerRows
      BY <2>1 DEF BannerRows
  <2>3. banners' = [banners EXCEPT ![b] = row]
      BY <1>2, Zenon
  <2> HIDE DEF row
  <2> QED  BY <1>1, <2>2, <2>3
<1>3. [state |-> "there", active |-> TRUE] \in BannerRows /\ NoBanner \in BannerRows
    BY DEF NoBanner, BannerRows, States
<1>4. \A flag : BoolPtrToBool(flag, FALSE) \in BOOLEAN
    BY DEF BoolPtrToBool
<1>5. CASE HandleCreateBanner
    BY <1>1, <1>3, <1>5 DEF HandleCreateBanner, CreateBanner
<1>6. CASE HandleUpdateBanner
    BY <1>2, <1>4, <1>6 DEF HandleUpdateBanner, UpdateBanner
<1>7. CASE HandleSetBannerActive
    BY <1>2, <1>7 DEF HandleSetBannerActive, SetBannerActive
<1>8. CASE HandleDeleteBanner
    BY <1>1, <1>3, <1>8 DEF HandleDeleteBanner, DeleteBanner
<1> QED  BY <1>5, <1>6, <1>7, <1>8

LEMMA LeadSteps ==
  ASSUME ShowcaseInv, HandleLeads
  PROVE  leads' \in [Leads -> LeadRows]
<1>1. PICK l \in Leads : \/ CreateLead(l) \/ MarkBookingIntent(l)
                         \/ \E status \in {"new", "lost"}, noted \in BOOLEAN : UpdateLeadStatus(l, status, noted)
    BY DEF HandleLeads
<1>2. leads[l] \in LeadRows
    BY ShowcaseTyped
<1>3. ASSUME NEW row \in LeadRows, leads' = [leads EXCEPT ![l] = row]
      PROVE  leads' \in [Leads -> LeadRows]
    BY <1>3, ShowcaseTyped
<1>4. CASE CreateLead(l)
  <2>1. [NoLead EXCEPT !.state = "there"] \in LeadRows
      BY DEF NoLead, LeadRows, States
  <2> QED  BY <1>3, <1>4, <2>1 DEF CreateLead
<1>5. CASE MarkBookingIntent(l)
  <2> DEFINE row == [[leads[l] EXCEPT !.status = "demo"] EXCEPT !.slots = TRUE]
  <2>1. row \in LeadRows
      BY <1>2 DEF LeadRows
  <2>2. leads' = [leads EXCEPT ![l] = row]
      BY <1>2, <1>5, ShowcaseTyped DEF MarkBookingIntent
  <2> HIDE DEF row
  <2> QED  BY <1>3, <2>1, <2>2
<1>6. ASSUME NEW status \in {"new", "lost"}, NEW noted \in BOOLEAN, UpdateLeadStatus(l, status, noted)
      PROVE  leads' \in [Leads -> LeadRows]
  <2> DEFINE slots == leads[l].slots /\ ~noted
             row == [leads[l] EXCEPT !.status = status, !.slots = slots]
  <2>1. slots \in BOOLEAN
      OBVIOUS
  <2>2. leads' = [leads EXCEPT ![l].status = status, ![l].slots = slots]
      BY <1>6, <1>2, ShowcaseTyped DEF UpdateLeadStatus
  <2> HIDE DEF slots
  <2>3. row \in LeadRows
      BY <1>2, <2>1 DEF LeadRows
  <2>4. leads' = [leads EXCEPT ![l] = row]
      BY <2>2, <1>2, ShowcaseTyped
  <2> HIDE DEF row
  <2> QED  BY <1>3, <2>3, <2>4
<1> QED  BY <1>1, <1>4, <1>5, <1>6

\* A step at the questions: of one question, or of one edit.
LEMMA QuestionStep ==
  ASSUME ShowcaseInv, UNCHANGED <<articles, pages, banners, leads>>,
         faqs' \in [Faqs -> FaqRows], editing' \in [Editors -> EditRows], asked' \in [Faqs -> BOOLEAN],
         crossed' \in SUBSET Faqs, SwitchesHold', \A e \in Editors : EditReady(editing[e])'
  PROVE  ShowcaseInv'
<1>1. ShowcaseTypeOK'
    BY ShowcaseTyped DEF ShowcaseTypeOK, ArticleRows, FaqRows, EditRows, PageRows, BannerRows, LeadRows
<1> QED  BY <1>1 DEF ShowcaseInv

LEMMA CreateFaqStep ==
  ASSUME ShowcaseInv, UNCHANGED <<articles, pages, banners, leads>>, NEW f \in Faqs, CreateFaq(f)
  PROVE  ShowcaseInv'
<1> DEFINE row == [state |-> "there", active |-> TRUE]
<1>1. row \in FaqRows /\ row.active = TRUE /\ row.state = "there"
    BY DEF FaqRows, States
<1>2. /\ faqs[f].state = "none" /\ faqs' = [faqs EXCEPT ![f] = row] /\ asked' = [asked EXCEPT ![f] = TRUE]
      /\ UNCHANGED <<editing, crossed>>
    BY DEF CreateFaq
<1> HIDE DEF row
<1>3. /\ faqs' \in [Faqs -> FaqRows] /\ \A g \in Faqs : faqs'[g] = IF g = f THEN row ELSE faqs[g]
      /\ asked' \in [Faqs -> BOOLEAN] /\ \A g \in Faqs : asked'[g] = IF g = f THEN TRUE ELSE asked[g]
    BY <1>1, <1>2, ShowcaseTyped
<1>4. SwitchesHold'
    BY <1>1, <1>2, <1>3 DEF SwitchesHold, ShowcaseInv
<1>5. ASSUME NEW e \in Editors PROVE EditReady(editing[e])'
    BY <1>2, <1>3 DEF EditReady, ShowcaseInv
<1> QED  BY <1>2, <1>3, <1>4, <1>5, ShowcaseTyped, QuestionStep

LEMMA ReadFaqsStep ==
  ASSUME ShowcaseInv, UNCHANGED <<articles, pages, banners, leads>>, NEW e \in Editors, NEW f \in Faqs,
         NEW active \in Flags, ReadFaqs(e, f, active)
  PROVE  ShowcaseInv'
<1> DEFINE on == BoolPtrToBool(active, faqs[f].active)
           asks == active # "omitted"
           row == [faq |-> f, active |-> on, asks |-> asks, stale |-> FALSE]
<1>1. faqs[f] \in FaqRows /\ faqs[f].state = "there" /\ (f \notin crossed => faqs[f].active = asked[f])
    BY ShowcaseTyped DEF ReadFaqs, ShowcaseInv, SwitchesHold
<1>2. faqs[f].active \in BOOLEAN
    BY <1>1 DEF FaqRows
<1>3. on \in BOOLEAN /\ asks \in BOOLEAN /\ (~asks => on = faqs[f].active)
    BY <1>2 DEF BoolPtrToBool
<1>4. UNCHANGED <<faqs, asked, crossed>> /\ editing' = [editing EXCEPT ![e] = row]
    BY DEF ReadFaqs
<1> HIDE DEF on, asks
<1>5. row \in EditRows /\ row.faq = f /\ row.active = on /\ row.asks = asks
    BY <1>3 DEF EditRows
<1> HIDE DEF row
<1>6. editing' \in [Editors -> EditRows] /\ \A d \in Editors : editing'[d] = IF d = e THEN row ELSE editing[d]
    BY <1>4, <1>5, ShowcaseTyped
<1>7. SwitchesHold'
    BY <1>4 DEF SwitchesHold, ShowcaseInv
<1>8. ASSUME NEW d \in Editors PROVE EditReady(editing[d])'
    BY <1>1, <1>3, <1>4, <1>5, <1>6 DEF EditReady, ShowcaseInv
<1> QED  BY <1>4, <1>6, <1>7, <1>8, ShowcaseTyped, QuestionStep

LEMMA UpdateFaqStep ==
  ASSUME ShowcaseInv, UNCHANGED <<articles, pages, banners, leads>>, NEW e \in Editors, UpdateFaq(e)
  PROVE  ShowcaseInv'
<1> DEFINE mine == editing[e]
           f == mine.faq
           written == faqs[f].state = "there"
           Later(d) == IF d = e THEN NotEditing
                       ELSE IF mine.asks /\ editing[d].faq = f /\ ~editing[d].asks
                            THEN [editing[d] EXCEPT !.stale = TRUE] ELSE editing[d]
<1>1. /\ mine \in EditRows /\ f \in Faqs /\ faqs[f].state # "none"
      /\ ~mine.asks /\ ~mine.stale /\ f \notin crossed => mine.active = asked[f]
    BY ShowcaseTyped DEF UpdateFaq, ShowcaseInv, EditReady
<1>2. mine.active \in BOOLEAN /\ faqs[f] \in FaqRows
    BY <1>1, ShowcaseTyped DEF EditRows
<1>3. /\ faqs' = IF written THEN [faqs EXCEPT ![f].active = mine.active] ELSE faqs
      /\ asked' = IF written /\ mine.asks THEN [asked EXCEPT ![f] = mine.active] ELSE asked
      /\ crossed' = IF mine.asks THEN crossed \ {f} ELSE IF mine.stale THEN crossed \cup {f} ELSE crossed
      /\ editing' = [d \in Editors |-> Later(d)]
    BY DEF UpdateFaq
<1>4. ASSUME NEW d \in Editors PROVE Later(d) \in EditRows
    BY ShowcaseTyped DEF NotEditing, EditRows
<1>5. editing' \in [Editors -> EditRows] /\ \A d \in Editors : editing'[d] = Later(d)
    BY <1>3, <1>4
<1>6. asked' \in [Faqs -> BOOLEAN] /\ crossed' \in SUBSET Faqs
      /\ \A g \in Faqs : asked'[g] = IF g = f /\ written /\ mine.asks THEN mine.active ELSE asked[g]
    BY <1>1, <1>2, <1>3, ShowcaseTyped
<1>7. /\ faqs' \in [Faqs -> FaqRows] /\ \A g \in Faqs : g # f => faqs'[g] = faqs[g]
      /\ faqs'[f].state = faqs[f].state /\ (written => faqs'[f].active = mine.active)
  <2>1. CASE ~written
      BY <1>3, <2>1, ShowcaseTyped
  <2>2. CASE written
    <3> DEFINE row == [faqs[f] EXCEPT !.active = mine.active]
    <3>1. row \in FaqRows /\ row.state = faqs[f].state /\ row.active = mine.active
        BY <1>2 DEF FaqRows
    <3>2. faqs' = [faqs EXCEPT ![f] = row]
        BY <1>1, <1>3, <2>2, ShowcaseTyped DEF FaqRows
    <3> HIDE DEF row
    <3> QED  BY <1>1, <3>1, <3>2, ShowcaseTyped
  <2> QED  BY <2>1, <2>2
<1>8. SwitchesHold'
  <2> SUFFICES ASSUME NEW g \in Faqs, g \notin crossed', faqs'[g].state = "there"
               PROVE  faqs'[g].active = asked'[g]
      BY DEF SwitchesHold
  <2>1. CASE g # f
      BY <1>3, <1>6, <1>7, <2>1 DEF SwitchesHold, ShowcaseInv
  <2>2. CASE g = f
      BY <1>1, <1>3, <1>6, <1>7, <2>2
  <2> QED  BY <2>1, <2>2
<1>9. ASSUME NEW d \in Editors, editing'[d] # NotEditing PROVE EditReady(editing[d])'
  <2>1. d # e /\ editing[d] \in EditRows
      BY <1>5, <1>9, ShowcaseTyped
  <2>2. CASE mine.asks /\ editing[d].faq = f /\ ~editing[d].asks
    <3>1. editing'[d] = [editing[d] EXCEPT !.stale = TRUE]
        BY <1>5, <2>1, <2>2
    <3>2. editing'[d].stale /\ editing'[d].faq = f
        BY <2>1, <2>2, <3>1 DEF EditRows
    <3> QED  BY <1>1, <1>7, <3>2 DEF EditReady
  <2>3. CASE ~(mine.asks /\ editing[d].faq = f /\ ~editing[d].asks)
    <3>1. editing'[d] = editing[d]
        BY <1>5, <2>1, <2>3
    <3> DEFINE g == editing[d].faq
    <3>2. g \in Faqs /\ faqs[g].state # "none"
          /\ (~editing[d].asks /\ ~editing[d].stale /\ g \notin crossed => editing[d].active = asked[g])
        BY <1>9, <3>1 DEF EditReady, ShowcaseInv
    <3>3. faqs'[g].state # "none"
        BY <1>7, <3>2
    <3>4. ASSUME ~editing[d].asks, ~editing[d].stale, g \notin crossed' PROVE editing[d].active = asked'[g]
      <4>1. ~mine.asks \/ g # f
          BY <2>3, <3>4
      <4>2. asked'[g] = asked[g]
          BY <1>6, <3>2, <4>1
      <4>3. g \notin crossed
          BY <1>3, <3>4, <4>1
      <4> QED  BY <3>2, <3>4, <4>2, <4>3
    <3> QED  BY <3>1, <3>2, <3>3, <3>4 DEF EditReady
  <2> QED  BY <2>2, <2>3
<1>10. \A d \in Editors : EditReady(editing[d])'
    BY <1>9 DEF EditReady
<1> QED  BY <1>5, <1>6, <1>7, <1>8, <1>10, QuestionStep

LEMMA DeleteFaqStep ==
  ASSUME ShowcaseInv, UNCHANGED <<articles, pages, banners, leads>>, NEW f \in Faqs, DeleteFaq(f)
  PROVE  ShowcaseInv'
<1> DEFINE row == [NoFaq EXCEPT !.state = "gone"]
<1>1. row \in FaqRows /\ row.state = "gone"
    BY DEF NoFaq, FaqRows
<1>2. faqs' = [faqs EXCEPT ![f] = row] /\ UNCHANGED <<editing, asked, crossed>>
    BY DEF DeleteFaq
<1> HIDE DEF row
<1>3. faqs' \in [Faqs -> FaqRows] /\ \A g \in Faqs : faqs'[g] = IF g = f THEN row ELSE faqs[g]
    BY <1>1, <1>2, ShowcaseTyped
<1>4. SwitchesHold'
    BY <1>1, <1>2, <1>3 DEF SwitchesHold, ShowcaseInv
<1>5. ASSUME NEW d \in Editors PROVE EditReady(editing[d])'
    BY <1>1, <1>2, <1>3 DEF EditReady, ShowcaseInv
<1> QED  BY <1>2, <1>3, <1>4, <1>5, ShowcaseTyped, QuestionStep

LEMMA ShowcaseInits == ShowcaseInit => ShowcaseInv
<1> SUFFICES ASSUME ShowcaseInit PROVE ShowcaseInv
    OBVIOUS
<1>1. /\ NoArticle \in ArticleRows /\ NoFaq \in FaqRows /\ NotEditing \in EditRows /\ NoPage \in PageRows
      /\ NoBanner \in BannerRows /\ NoLead \in LeadRows /\ NoFaq.state = "none"
    BY DEF NoArticle, NoFaq, NotEditing, NoPage, NoBanner, NoLead, ArticleRows, FaqRows, EditRows, PageRows, BannerRows,
           LeadRows, States
<1>2. ShowcaseTypeOK
    BY <1>1, ShowcaseTypes DEF ShowcaseInit
<1> QED  BY <1>1, <1>2 DEF ShowcaseInit, ShowcaseInv, SwitchesHold, EditReady

LEMMA ShowcaseSteps == ShowcaseInv /\ [ShowcaseNext]_showcaseVars => ShowcaseInv'
<1> SUFFICES ASSUME ShowcaseInv, [ShowcaseNext]_showcaseVars PROVE ShowcaseInv'
    OBVIOUS
<1>1. CASE HandlePosts /\ UNCHANGED <<questionVars, pages, banners, leads>>
    BY <1>1, ArticleSteps, NoQuestionStep, ShowcaseTyped
<1>2. CASE HandleFaqs /\ UNCHANGED <<articles, pages, banners, leads>>
    BY <1>2, CreateFaqStep, ReadFaqsStep, UpdateFaqStep, DeleteFaqStep DEF HandleFaqs
<1>3. CASE HandleUpsertCmsPage /\ UNCHANGED <<articles, questionVars, banners, leads>>
    BY <1>3, PageSteps, NoQuestionStep, ShowcaseTyped
<1>4. CASE /\ HandleCreateBanner \/ HandleUpdateBanner \/ HandleSetBannerActive \/ HandleDeleteBanner
           /\ UNCHANGED <<articles, questionVars, pages, leads>>
    BY <1>4, BannerSteps, NoQuestionStep, ShowcaseTyped
<1>5. CASE HandleLeads /\ UNCHANGED <<articles, questionVars, pages, banners>>
    BY <1>5, LeadSteps, NoQuestionStep, ShowcaseTyped
<1>6. CASE UNCHANGED showcaseVars
    BY <1>6, NoQuestionStep, ShowcaseTyped DEF showcaseVars, questionVars
<1> QED  BY <1>1, <1>2, <1>3, <1>4, <1>5, <1>6 DEF ShowcaseNext

\* Every reachable state satisfies the invariant, and with it the type invariant.
THEOREM ShowcaseInvariant == ShowcaseSpec => []ShowcaseInv
BY ShowcaseInits, ShowcaseSteps, PTL DEF ShowcaseSpec

\* A question stays shown or hidden as it was last asked for, unless an edit that read it before that
\* request was written after it, for any number of questions, editors and edits.
THEOREM SwitchesAlwaysHold == ShowcaseSpec => []SwitchesHold
BY ShowcaseInvariant, PTL DEF ShowcaseInv

-----------------------------------------------------------------------------
(* The apps of tenants *)

BuildRows == [status : StaffStatuses \cup {"none"}, url : BOOLEAN, completed : BOOLEAN]

\* What has been posted of a build was so when it was posted, and a finished build stays finished.
PostsAreTrue ==
  \A b \in Builds :
    /\ posts[b] # {} => jobs[b] # "none"
    /\ "finished" \in posts[b] => jobs[b] = "finished"

BuildsInv == BuildTypeOK /\ PostsAreTrue /\ PublishedIsBuilt

LEMMA BuildsTyped ==
  ASSUME BuildsInv
  PROVE  /\ builds \in [Builds -> BuildRows] /\ triggering \in SUBSET Builds /\ byHand \in SUBSET Builds
         /\ jobs \in [Builds -> JobStatuses \cup {"none"}] /\ posts \in [Builds -> SUBSET JobStatuses]
BY DEF BuildsInv, BuildTypeOK, BuildRows

\* A step at the rows only.
LEMMA RowsChange ==
  ASSUME BuildsInv, UNCHANGED <<jobs, posts>>, triggering' \in SUBSET Builds,
         byHand \subseteq byHand', byHand' \in SUBSET Builds, builds' \in [Builds -> BuildRows],
         \A b \in Builds \ byHand' :
           \/ builds'[b] = builds[b]
           \/ builds'[b].status = "published" /\ jobs[b] = "finished"
           \/ builds'[b].status = "building" /\ jobs[b] # "none"
           \/ builds'[b].status \notin {"published", "building"}
  PROVE  BuildsInv'
<1>1. BuildTypeOK'
    BY BuildsTyped DEF BuildTypeOK, BuildRows
<1>2. PostsAreTrue'
    BY DEF PostsAreTrue, BuildsInv
<1>3. PublishedIsBuilt'
    BY DEF PublishedIsBuilt, BuildsInv
<1> QED  BY <1>1, <1>2, <1>3 DEF BuildsInv

\* The row after its status has been written.
LEMMA StatusWritten ==
  ASSUME BuildsInv, NEW b \in Builds, NEW status \in StaffStatuses, NEW url \in BOOLEAN, SetAppBuildStatus(b, status, url)
  PROVE  /\ builds' \in [Builds -> BuildRows]
         /\ builds'[b].status = status
         /\ \A c \in Builds : c # b => builds'[c] = builds[c]
<1> DEFINE link == builds[b].url \/ url
           done == builds[b].completed \/ status \in {"published", "failed"}
           row == [status |-> status, url |-> link, completed |-> done]
<1>1. builds[b] \in BuildRows
    BY BuildsTyped
<1>2. link \in BOOLEAN /\ done \in BOOLEAN
    OBVIOUS
<1>3. builds' = [builds EXCEPT ![b] = row]
    BY BuildsTyped DEF SetAppBuildStatus
<1> HIDE DEF link, done
<1>4. row \in BuildRows /\ row.status = status
    BY <1>2 DEF BuildRows
<1> HIDE DEF row
<1> QED  BY <1>3, <1>4, BuildsTyped

LEMMA JobSteps ==
  ASSUME BuildsInv, NEW b \in Builds, NEW status \in JobStatuses, JobStarts(b) \/ JobMoves(b, status) \/ JobPosts(b)
  PROVE  BuildsInv'
<1>1. CASE JobPosts(b)
  <2>1. /\ jobs[b] # "none" /\ jobs[b] \in JobStatuses /\ UNCHANGED <<builds, triggering, jobs, byHand>>
        /\ posts' = [posts EXCEPT ![b] = @ \cup {jobs[b]}]
      BY <1>1, BuildsTyped DEF JobPosts
  <2>2. /\ posts' \in [Builds -> SUBSET JobStatuses] /\ posts'[b] = posts[b] \cup {jobs[b]}
        /\ \A c \in Builds : c # b => posts'[c] = posts[c]
      BY <2>1, BuildsTyped
  <2>3. BuildTypeOK'
      BY <2>1, <2>2, BuildsTyped DEF BuildTypeOK, BuildRows
  <2>4. PostsAreTrue'
      BY <2>1, <2>2 DEF PostsAreTrue, BuildsInv
  <2>5. PublishedIsBuilt'
      BY <2>1 DEF PublishedIsBuilt, BuildsInv
  <2> QED  BY <2>3, <2>4, <2>5 DEF BuildsInv
<1>2. ASSUME NEW next \in JobStatuses, jobs' = [jobs EXCEPT ![b] = next], jobs[b] # "finished",
             UNCHANGED <<builds, triggering, posts, byHand>>
      PROVE  BuildsInv'
  <2>1. /\ jobs' \in [Builds -> JobStatuses \cup {"none"}] /\ jobs'[b] = next /\ next # "none"
        /\ \A c \in Builds : c # b => jobs'[c] = jobs[c]
      BY <1>2, BuildsTyped DEF JobStatuses
  <2>2. BuildTypeOK'
      BY <1>2, <2>1, BuildsTyped DEF BuildTypeOK, BuildRows
  <2>3. PostsAreTrue'
      BY <1>2, <2>1 DEF PostsAreTrue, BuildsInv
  <2>4. PublishedIsBuilt'
      BY <1>2, <2>1 DEF PublishedIsBuilt, BuildsInv
  <2> QED  BY <2>2, <2>3, <2>4 DEF BuildsInv
<1>3. CASE JobStarts(b)
    BY <1>2, <1>3 DEF JobStarts, JobStatuses
<1>4. CASE JobMoves(b, status)
    BY <1>2, <1>4 DEF JobMoves
<1> QED  BY <1>1, <1>3, <1>4

LEMMA RowSteps ==
  ASSUME BuildsInv, NEW b \in Builds,
         \/ \E configured \in BOOLEAN : CreateAppBuild(b, configured)
         \/ Dispatched(b) \/ DispatchFails(b)
         \/ \E status \in JobStatuses, url \in BOOLEAN : ReceiveCodemagic(b, status, url)
         \/ \E status \in StaffStatuses, url \in BOOLEAN : PatchStatus(b, status, url)
  PROVE  BuildsInv'
<1>1. ASSUME NEW configured \in BOOLEAN, CreateAppBuild(b, configured) PROVE BuildsInv'
  <2> DEFINE row == [builds[b] EXCEPT !.status = "queued"]
  <2>1. builds[b] \in BuildRows
      BY BuildsTyped
  <2>2. row \in BuildRows /\ row.status = "queued"
      BY <2>1 DEF BuildRows, StaffStatuses, BuildStatuses
  <2>3. builds' = [builds EXCEPT ![b] = row]
      BY <1>1, Zenon DEF CreateAppBuild
  <2> HIDE DEF row
  <2>4. builds' \in [Builds -> BuildRows] /\ \A c \in Builds : builds'[c] = IF c = b THEN row ELSE builds[c]
      BY <2>2, <2>3, BuildsTyped
  <2>5. UNCHANGED <<jobs, posts, byHand>> /\ triggering' \in SUBSET Builds
      BY <1>1, BuildsTyped DEF CreateAppBuild
  <2> QED  BY <2>2, <2>4, <2>5, BuildsTyped, RowsChange
<1>2. CASE Dispatched(b)
  <2>1. UNCHANGED <<builds, jobs, posts, byHand>> /\ triggering' \in SUBSET Builds
      BY <1>2, BuildsTyped DEF Dispatched
  <2> QED  BY <2>1, BuildsTyped, RowsChange
<1>3. CASE DispatchFails(b)
  <2>1. UNCHANGED <<jobs, posts, byHand>> /\ triggering' \in SUBSET Builds
      BY <1>3, BuildsTyped DEF DispatchFails
  <2>2. CASE UNCHANGED builds
      BY <2>1, <2>2, BuildsTyped, RowsChange
  <2>3. CASE SetAppBuildStatus(b, "failed", FALSE)
    <3>1. "failed" \in StaffStatuses
        BY DEF StaffStatuses, BuildStatuses
    <3>2. /\ builds' \in [Builds -> BuildRows] /\ builds'[b].status = "failed"
          /\ \A c \in Builds : c # b => builds'[c] = builds[c]
        BY <2>3, <3>1, StatusWritten
    <3> QED  BY <2>1, <3>2, BuildsTyped, RowsChange
  <2> QED  BY <1>3, <2>2, <2>3 DEF DispatchFails
<1>4. ASSUME NEW status \in JobStatuses, NEW url \in BOOLEAN, ReceiveCodemagic(b, status, url) PROVE BuildsInv'
  <2>1. /\ StatusOf(status) \in StaffStatuses
        /\ StatusOf(status) = "published" => status = "finished"
      BY DEF StatusOf, StaffStatuses, BuildStatuses
  <2>2. SetAppBuildStatus(b, StatusOf(status), url) /\ UNCHANGED <<triggering, jobs, posts, byHand>> /\ status \in posts[b]
      BY <1>4 DEF ReceiveCodemagic
  <2>3. /\ builds' \in [Builds -> BuildRows] /\ builds'[b].status = StatusOf(status)
        /\ \A c \in Builds : c # b => builds'[c] = builds[c]
      BY <2>1, <2>2, StatusWritten
  <2>4. jobs[b] # "none" /\ (status = "finished" => jobs[b] = "finished")
      BY <2>2 DEF BuildsInv, PostsAreTrue
  <2> QED  BY <2>1, <2>2, <2>3, <2>4, BuildsTyped, RowsChange
<1>5. ASSUME NEW status \in StaffStatuses, NEW url \in BOOLEAN, PatchStatus(b, status, url) PROVE BuildsInv'
  <2>1. SetAppBuildStatus(b, status, url) /\ byHand' = byHand \cup {b} /\ UNCHANGED <<triggering, jobs, posts>>
      BY <1>5 DEF PatchStatus
  <2>2. builds' \in [Builds -> BuildRows] /\ \A c \in Builds : c # b => builds'[c] = builds[c]
      BY <2>1, StatusWritten
  <2> QED  BY <2>1, <2>2, BuildsTyped, RowsChange
<1> QED  BY <1>1, <1>2, <1>3, <1>4, <1>5

LEMMA BuildInits == BuildInit => BuildsInv
<1> SUFFICES ASSUME BuildInit PROVE BuildsInv
    OBVIOUS
<1>1. NoBuild \in BuildRows /\ NoBuild.status = "none"
    BY DEF NoBuild, BuildRows
<1> QED  BY <1>1 DEF BuildInit, BuildsInv, BuildTypeOK, BuildRows, PostsAreTrue, PublishedIsBuilt

LEMMA BuildSteps == BuildsInv /\ [BuildNext]_buildVars => BuildsInv'
<1> SUFFICES ASSUME BuildsInv, [BuildNext]_buildVars PROVE BuildsInv'
    OBVIOUS
<1>1. CASE Trigger
    BY <1>1, RowSteps DEF Trigger
<1>2. ASSUME NEW b \in Builds, JobStarts(b) \/ JobPosts(b) PROVE BuildsInv'
  <2>1. "queued" \in JobStatuses
      BY DEF JobStatuses
  <2> QED  BY <1>2, <2>1, JobSteps
<1>3. ASSUME NEW b \in Builds, NEW status \in JobStatuses, JobMoves(b, status) PROVE BuildsInv'
    BY <1>3, JobSteps
<1>4. CASE UNCHANGED buildVars
    BY <1>4, BuildsTyped, RowsChange DEF buildVars
<1> QED  BY <1>1, <1>2, <1>3, <1>4, RowSteps DEF BuildNext

\* Every reachable state satisfies the invariant, and with it the type invariant.
THEOREM BuildsInvariant == BuildSpec => []BuildsInv
BY BuildInits, BuildSteps, PTL DEF BuildSpec

\* What was published without a hand has been built, for any number of builds and whatever comes in
\* whatever order from Codemagic.
THEOREM PublishedAlwaysBuilt == BuildSpec => []PublishedIsBuilt
BY BuildsInvariant, PTL DEF BuildsInv

-----------------------------------------------------------------------------
(* The way of a request through the middleware *)

(* Of the table, two things matter for /admin.  Whatever is registered below it is shielded: a      *)
(* route asks for the role itself, or a group in front of it does, by a prefix that the route has.  *)
(* And it is orderly: nothing up to the last route of the platform's desk turns its staff away.     *)
(* Both are shown of each section of main, and kept when sections are put one after the other.      *)

RowsOf(S) == {S[i] : i \in DOMAIN S}
IsList(S) == S \in Seq(RowsOf(S))

\* The guards that may stand before what lies below /admin/k.
DoorsFor(k) == IF k \in {"platform", "cms"} THEN {Platform} ELSE {Platform, Trading, Managing}
Closed(e) ==
  /\ e.guards \in {Platform, Trading, Managing, NoGuards, <<"audit">>}
  /\ e.verb # "USE" =>
       \A p \in e.paths : /\ Len(p) \in Nat /\ Len(p) > 0 /\ DOMAIN p = 1 .. Len(p) /\ p[1] # ":"
                          /\ e.guards = NoGuards \/ e.guards \in DoorsFor(p[1])
Houses(e, k) ==
  e.verb = "USE" /\ e.root = "admin" /\ e.guards \in DoorsFor(k) /\ e.paths \in {{<<>>}, {<<k>>}}
Shielded(S) ==
  /\ IsList(S) /\ \A e \in RowsOf(S) : e.root = "admin" => Closed(e)
  /\ \A i \in DOMAIN S :
       S[i].root = "admin" /\ S[i].verb # "USE" /\ S[i].guards = NoGuards =>
         \A p \in S[i].paths : \E j \in DOMAIN S : j < i /\ Houses(S[j], p[1])

\* Routes below /admin without guards of their own, for the words of a desk,
Desk(W, S) ==
  /\ IsList(S)
  /\ \A e \in RowsOf(S) : /\ e.root = "admin" /\ e.verb # "USE" /\ e.guards = NoGuards
                          /\ \A p \in e.paths :
                               Len(p) \in Nat /\ Len(p) > 0 /\ DOMAIN p = 1 .. Len(p) /\ p[1] \in W \ {":"}
\* and such routes behind a group that houses them.
Opened(W, S) ==
  /\ IsList(S) /\ 1 \in DOMAIN S /\ \A k \in W : Houses(S[1], k)
  /\ \A e \in RowsOf(S) : e.root = "admin" /\ Closed(e) /\ (e.verb # "USE" => \A p \in e.paths : p[1] \in W)

\* What platform staff may meet on the way to their desk, and what is no part of it.
Mild(e) ==
  e.root = "admin" => \/ e.guards \in {Platform, NoGuards}
                      \/ \A p \in e.paths : 1 \in DOMAIN p /\ p[1] \notin {":", "platform"}
Plain(e) == e.root = "admin" /\ e.verb # "USE" => \A p \in e.paths : p[1] # "platform"
Milds(S) == IsList(S) /\ \A e \in RowsOf(S) : Mild(e)
Plains(S) == IsList(S) /\ \A e \in RowsOf(S) : Plain(e)
Orderly(S) == IsList(S) /\ \A i, j \in DOMAIN S : j <= i /\ ~ Plain(S[i]) => Mild(S[j])

LEMMA ListsJoined ==
  ASSUME NEW S, NEW T, IsList(S), IsList(T)
  PROVE  /\ IsList(S \o T) /\ RowsOf(S \o T) = RowsOf(S) \cup RowsOf(T)
         /\ Len(S) \in Nat /\ Len(T) \in Nat /\ DOMAIN S = 1 .. Len(S) /\ DOMAIN T = 1 .. Len(T)
         /\ DOMAIN (S \o T) = 1 .. (Len(S) + Len(T)) /\ Len(S \o T) = Len(S) + Len(T)
         /\ \A i \in DOMAIN S : (S \o T)[i] = S[i]
         /\ \A i \in DOMAIN T : (S \o T)[Len(S) + i] = T[i]
<1> DEFINE U == RowsOf(S) \cup RowsOf(T)
<1>1. S \in Seq(U) /\ T \in Seq(U)
    BY DEF IsList
<1>2. /\ S \o T \in Seq(U) /\ Len(S \o T) = Len(S) + Len(T)
      /\ Len(S) \in Nat /\ Len(T) \in Nat /\ DOMAIN S = 1 .. Len(S) /\ DOMAIN T = 1 .. Len(T)
      /\ DOMAIN (S \o T) = 1 .. Len(S \o T)
    BY <1>1
<1>3. /\ \A i \in DOMAIN S : (S \o T)[i] = S[i]
      /\ \A i \in DOMAIN T : (S \o T)[Len(S) + i] = T[i]
    BY <1>1, <1>2
<1>4. \A i \in DOMAIN (S \o T) : (S \o T)[i] \in U
    BY <1>2
<1>5. \A i \in DOMAIN S : S[i] \in RowsOf(S \o T)
    BY <1>2, <1>3 DEF RowsOf
<1>6. \A i \in DOMAIN T : T[i] \in RowsOf(S \o T)
  <2> SUFFICES ASSUME NEW i \in DOMAIN T PROVE T[i] \in RowsOf(S \o T)
      OBVIOUS
  <2>1. Len(S) + i \in DOMAIN (S \o T)
      BY <1>2
  <2> QED  BY <2>1, <1>3 DEF RowsOf
<1>7. RowsOf(S \o T) = U
    BY <1>4, <1>5, <1>6 DEF RowsOf
<1>8. S \o T \in Seq(U)
    BY <1>2
<1> QED  BY <1>2, <1>3, <1>7, <1>8 DEF IsList

LEMMA OneRow ==
  ASSUME NEW e
  PROVE  IsList(<<e>>) /\ RowsOf(<<e>>) = {e} /\ Len(<<e>>) = 1 /\ <<e>>[1] = e /\ DOMAIN <<e>> = {1}
<1>1. RowsOf(<<e>>) = {e}
    BY DEF RowsOf
<1>2. <<e>> \in Seq({e})
    OBVIOUS
<1> QED  BY <1>1, <1>2 DEF IsList

LEMMA BothShielded ==
  ASSUME NEW S, NEW T, Shielded(S), Shielded(T)
  PROVE  Shielded(S \o T)
<1>1. IsList(S) /\ IsList(T)
    BY DEF Shielded
<1> DEFINE U == S \o T
           n == Len(S)
<1>2. /\ IsList(U) /\ RowsOf(U) = RowsOf(S) \cup RowsOf(T)
      /\ n \in Nat /\ Len(T) \in Nat /\ DOMAIN S = 1 .. n /\ DOMAIN T = 1 .. Len(T)
      /\ DOMAIN U = 1 .. (n + Len(T))
      /\ \A i \in DOMAIN S : U[i] = S[i]
      /\ \A i \in DOMAIN T : U[n + i] = T[i]
    BY <1>1, ListsJoined
<1>3. \A e \in RowsOf(U) : e.root = "admin" => Closed(e)
    BY <1>2 DEF Shielded
<1> HIDE DEF U, n
<1>4. ASSUME NEW i \in DOMAIN U, U[i].root = "admin" /\ U[i].verb # "USE" /\ U[i].guards = NoGuards,
             NEW p \in U[i].paths
      PROVE  \E j \in DOMAIN U : j < i /\ Houses(U[j], p[1])
  <2>1. CASE i \in DOMAIN S
    <3>1. U[i] = S[i]
        BY <2>1, <1>2
    <3>2. PICK j \in DOMAIN S : j < i /\ Houses(S[j], p[1])
        BY <3>1, <2>1, <1>4 DEF Shielded
    <3>3. U[j] = S[j] /\ j \in DOMAIN U
        BY <1>2
    <3> QED  BY <3>2, <3>3
  <2>2. CASE i \notin DOMAIN S
    <3> DEFINE h == i - n
    <3>1. h \in DOMAIN T /\ i = n + h
        BY <2>2, <1>2
    <3> HIDE DEF h
    <3>2. U[i] = T[h]
        BY <3>1, <1>2
    <3>3. PICK j \in DOMAIN T : j < h /\ Houses(T[j], p[1])
        BY <3>1, <3>2, <1>4 DEF Shielded
    <3>4. U[n + j] = T[j] /\ n + j \in DOMAIN U /\ n + j < i
        BY <3>3, <3>1, <1>2
    <3> QED  BY <3>3, <3>4
  <2> QED  BY <2>1, <2>2
<1> QED  BY <1>2, <1>3, <1>4 DEF Shielded, U

LEMMA GroupOpens ==
  ASSUME NEW W, NEW prefix, NEW g, g \in {Platform, Trading, Managing}, Head(prefix) = "admin",
         \A k \in W : k # ":" /\ g \in DoorsFor(k) /\ Tail(prefix) \o <<>> \in {<<>>, <<k>>}
  PROVE  Opened(W, Group(prefix, g))
<1> DEFINE e == [verb |-> "USE", root |-> Head(prefix), paths |-> {Tail(prefix) \o <<>>}, guards |-> g]
<1>1. Group(prefix, g) = <<e>>
    BY DEF Group, At1, On
<1>2. e.verb = "USE" /\ e.root = "admin" /\ e.guards = g /\ e.paths = {Tail(prefix) \o <<>>}
    OBVIOUS
<1> HIDE DEF e
<1>3. Closed(e)
    BY <1>2 DEF Closed
<1>4. \A k \in W : Houses(e, k)
    BY <1>2 DEF Houses
<1> QED  BY <1>1, <1>2, <1>3, <1>4, OneRow DEF Opened

LEMMA DeskOpens ==
  ASSUME NEW W, NEW S, NEW T, Opened(W, S), Desk(W, T)
  PROVE  Opened(W, S \o T)
<1> DEFINE U == S \o T
<1>1. /\ IsList(U) /\ RowsOf(U) = RowsOf(S) \cup RowsOf(T)
      /\ Len(S) \in Nat /\ Len(T) \in Nat /\ DOMAIN S = 1 .. Len(S) /\ DOMAIN U = 1 .. (Len(S) + Len(T))
      /\ \A i \in DOMAIN S : U[i] = S[i]
    BY ListsJoined DEF Opened, Desk
<1> HIDE DEF U
<1>2. 1 \in DOMAIN S /\ 1 \in DOMAIN U
    BY <1>1 DEF Opened
<1>3. \A k \in W : Houses(U[1], k)
    BY <1>1, <1>2 DEF Opened
<1>4. \A e \in RowsOf(T) : e.root = "admin" /\ Closed(e) /\ (e.verb # "USE" => \A p \in e.paths : p[1] \in W)
    BY DEF Desk, Closed
<1> QED  BY <1>1, <1>2, <1>3, <1>4 DEF Opened, U

LEMMA OpenedShielded ==
  ASSUME NEW W, NEW S, Opened(W, S)
  PROVE  Shielded(S)
<1>1. ASSUME NEW i \in DOMAIN S, S[i].root = "admin" /\ S[i].verb # "USE" /\ S[i].guards = NoGuards,
             NEW p \in S[i].paths
      PROVE  1 \in DOMAIN S /\ 1 < i /\ Houses(S[1], p[1])
  <2>1. S[i] \in RowsOf(S)
      BY DEF RowsOf
  <2>2. p[1] \in W
      BY <1>1, <2>1 DEF Opened
  <2>3. Houses(S[1], p[1])
      BY <2>2 DEF Opened
  <2>4. i # 1
      BY <1>1, <2>3 DEF Houses
  <2>5. DOMAIN S = 1 .. Len(S) /\ Len(S) \in Nat
      BY DEF Opened, IsList
  <2> QED  BY <2>3, <2>4, <2>5 DEF Opened
<1> QED  BY <1>1 DEF Shielded, Opened

LEMMA OwnShielded ==
  ASSUME NEW verb, NEW prefix, NEW tails, NEW guards, verb # "USE", guards \in {Platform, Trading, Managing},
         \A t \in tails : LET p == Tail(prefix) \o t IN
           Len(p) \in Nat /\ Len(p) > 0 /\ DOMAIN p = 1 .. Len(p) /\ p[1] # ":" /\ guards \in DoorsFor(p[1])
  PROVE  Shielded(On(verb, prefix, tails, guards))
<1> DEFINE e == [verb |-> verb, root |-> Head(prefix), paths |-> {Tail(prefix) \o t : t \in tails}, guards |-> guards]
<1>1. On(verb, prefix, tails, guards) = <<e>>
    BY DEF On
<1>2. Closed(e)
    BY DEF Closed
<1>3. e.guards # NoGuards
  <2>1. Len(Platform) = 2 /\ Len(Trading) = 4 /\ Len(Managing) = 3 /\ Len(NoGuards) = 0
      BY DEF Platform, Trading, Managing, NoGuards
  <2>2. e.guards = guards
      OBVIOUS
  <2> HIDE DEF e
  <2> QED  BY <2>1, <2>2
<1> HIDE DEF e
<1>4. IsList(<<e>>) /\ RowsOf(<<e>>) = {e} /\ DOMAIN <<e>> = {1} /\ <<e>>[1] = e
    BY OneRow
<1> QED  BY <1>1, <1>2, <1>3, <1>4 DEF Shielded

LEMMA RoutesOfDesk ==
  ASSUME NEW W, NEW verb, NEW prefix, NEW tails, verb # "USE", Head(prefix) = "admin",
         \A t \in tails : LET p == Tail(prefix) \o t IN
           Len(p) \in Nat /\ Len(p) > 0 /\ DOMAIN p = 1 .. Len(p) /\ p[1] \in W \ {":"}
  PROVE  Desk(W, On(verb, prefix, tails, NoGuards))
BY OneRow DEF Desk, On

LEMMA AdminShielded == Shielded(AdminRoutes)
<1> DEFINE W == {"dashboard", "users", "attendance", "courses", "audit", "banners", "notifications"}
<1>1. Opened(W, Group(<<"admin">>, Managing))
  <2>1. \A k \in W : k # ":" /\ Managing \in DoorsFor(k)
      BY DEF DoorsFor
  <2>2. Head(<<"admin">>) = "admin" /\ Tail(<<"admin">>) \o <<>> = <<>>
      OBVIOUS
  <2> QED  BY <2>1, <2>2, GroupOpens
<1>2. Desk(W, On("GET", <<"admin">>,
        {<<"dashboard">>, <<"users">>, <<"users", "export">>, <<"attendance", "batches">>,
        <<"courses", "pending">>, <<"audit">>, <<"banners">>}, NoGuards))
    BY RoutesOfDesk
<1>3. Desk(W, On("PUT", <<"admin">>, {<<"users", ":">>, <<"banners", ":">>}, NoGuards))
    BY RoutesOfDesk
<1>4. Desk(W, On("POST", <<"admin">>,
        {<<"users", ":", "role">>, <<"users", ":", "active">>, <<"users", ":", "password">>,
        <<"courses", ":", "approve">>, <<"courses", ":", "reject">>, <<"notifications", "send">>, <<"banners">>,
        <<"banners", ":", "active">>}, NoGuards))
    BY RoutesOfDesk
<1>5. Desk(W, On("DELETE", <<"admin">>, {<<"users", ":">>, <<"banners", ":">>}, NoGuards))
    BY RoutesOfDesk
<1>6. Shielded(Group(<<"admin">>, <<"audit">>))
  <2> DEFINE e == [verb |-> "USE", root |-> Head(<<"admin">>), paths |-> {Tail(<<"admin">>) \o t : t \in {<<>>}},
                  guards |-> <<"audit">>]
  <2>1. Group(<<"admin">>, <<"audit">>) = <<e>>
      BY DEF Group, At1, On
  <2>2. Closed(e) /\ e.verb = "USE"
      BY DEF Closed
  <2> HIDE DEF e
  <2> QED  BY <2>1, <2>2, OneRow DEF Shielded
<1> HIDE DEF W
<1> QED  BY <1>1, <1>2, <1>3, <1>4, <1>5, <1>6, DeskOpens, OpenedShielded, BothShielded DEF AdminRoutes

LEMMA MoneyShielded == Shielded(MoneyDesk)
<1>1. Shielded(On("POST", <<"admin">>, {<<"users", "bulk-import">>, <<"refunds">>}, Trading))
    BY OwnShielded DEF DoorsFor
<1>2. Shielded(At1("GET", <<"admin", "payments">>, Trading))
    BY OwnShielded DEF DoorsFor, At1
<1> QED  BY <1>1, <1>2, BothShielded DEF MoneyDesk

LEMMA CouponShielded == Shielded(CouponDesk)
<1> DEFINE W == {"coupons"}
<1>1. Opened(W, Group(<<"admin", "coupons">>, Trading))
  <2>1. "coupons" # ":" /\ Trading \in DoorsFor("coupons") /\ Trading \in {Platform, Trading, Managing}
      BY DEF DoorsFor
  <2>2. Head(<<"admin", "coupons">>) = "admin" /\ Tail(<<"admin", "coupons">>) \o <<>> = <<"coupons">>
      OBVIOUS
  <2> QED  BY <2>1, <2>2, GroupOpens
<1>2. Desk(W, On("POST", <<"admin", "coupons">>, {<<>>}, NoGuards))
    BY RoutesOfDesk DEF At1
<1>3. Desk(W, At1("GET", <<"admin", "coupons">>, NoGuards))
    BY RoutesOfDesk DEF At1
<1>4. Desk(W, At1("PATCH", <<"admin", "coupons", ":", "active">>, NoGuards))
    BY OneRow DEF Desk, On, At1
<1>5. Desk(W, At1("DELETE", <<"admin", "coupons", ":">>, NoGuards))
    BY RoutesOfDesk DEF At1
<1> HIDE DEF W
<1>6. Opened(W, CouponDesk)
    BY <1>1, <1>2, <1>3, <1>4, <1>5, DeskOpens DEF CouponDesk
<1> QED  BY <1>6, OpenedShielded

LEMMA BundleShielded == Shielded(BundleDesk)
<1> DEFINE W == {"bundles"}
<1>1. Opened(W, Group(<<"admin", "bundles">>, Trading))
  <2>1. "bundles" # ":" /\ Trading \in DoorsFor("bundles") /\ Trading \in {Platform, Trading, Managing}
      BY DEF DoorsFor
  <2>2. Head(<<"admin", "bundles">>) = "admin" /\ Tail(<<"admin", "bundles">>) \o <<>> = <<"bundles">>
      OBVIOUS
  <2> QED  BY <2>1, <2>2, GroupOpens
<1>2. Desk(W, At1("GET", <<"admin", "bundles">>, NoGuards))
    BY RoutesOfDesk DEF At1
<1>3. Desk(W, At1("POST", <<"admin", "bundles">>, NoGuards))
    BY RoutesOfDesk DEF At1
<1>4. Desk(W, At1("PATCH", <<"admin", "bundles", ":", "active">>, NoGuards))
    BY OneRow DEF Desk, On, At1
<1>5. Desk(W, At1("DELETE", <<"admin", "bundles", ":">>, NoGuards))
    BY RoutesOfDesk DEF At1
<1> HIDE DEF W
<1>6. Opened(W, BundleDesk)
    BY <1>1, <1>2, <1>3, <1>4, <1>5, DeskOpens DEF BundleDesk
<1> QED  BY <1>6, OpenedShielded

LEMMA ScheduleShielded == Shielded(ScheduleDesk)
<1> DEFINE W == {"class-schedules"}
<1>1. Opened(W, Group(<<"admin", "class-schedules">>, Trading))
  <2>1. /\ "class-schedules" # ":" /\ Trading \in DoorsFor("class-schedules")
        /\ Trading \in {Platform, Trading, Managing}
      BY DEF DoorsFor
  <2>2. /\ Head(<<"admin", "class-schedules">>) = "admin"
        /\ Tail(<<"admin", "class-schedules">>) \o <<>> = <<"class-schedules">>
      OBVIOUS
  <2> QED  BY <2>1, <2>2, GroupOpens
<1>2. Desk(W, At1("POST", <<"admin", "class-schedules">>, NoGuards))
    BY RoutesOfDesk DEF At1
<1>3. Desk(W, At1("GET", <<"admin", "class-schedules">>, NoGuards))
    BY RoutesOfDesk DEF At1
<1>4. Desk(W, At1("PATCH", <<"admin", "class-schedules", ":", "active">>, NoGuards))
    BY OneRow DEF Desk, On, At1
<1>5. Desk(W, At1("DELETE", <<"admin", "class-schedules", ":">>, NoGuards))
    BY RoutesOfDesk DEF At1
<1> HIDE DEF W
<1>6. Opened(W, ScheduleDesk)
    BY <1>1, <1>2, <1>3, <1>4, <1>5, DeskOpens DEF ScheduleDesk
<1> QED  BY <1>6, OpenedShielded

LEMMA PlatformDeskShielded == Shielded(PlatformDesk)
<1> DEFINE W == {"platform"}
<1>1. Opened(W, Group(<<"admin", "platform">>, Platform))
  <2>1. "platform" # ":" /\ Platform \in DoorsFor("platform") /\ Platform \in {Platform, Trading, Managing}
      BY DEF DoorsFor
  <2>2. Head(<<"admin", "platform">>) = "admin" /\ Tail(<<"admin", "platform">>) \o <<>> = <<"platform">>
      OBVIOUS
  <2> QED  BY <2>1, <2>2, GroupOpens
<1>2. Desk(W, On("GET", <<"admin", "platform">>,
        {<<"stats">>, <<"audit">>, <<"tenants">>, <<"tenants", ":", "features">>,
        <<"tenants", ":", "build-config">>, <<"builds">>}, NoGuards))
    BY RoutesOfDesk DEF At1
<1>3. Desk(W, On("POST", <<"admin", "platform">>, {<<"tenants", ":", "suspend">>, <<"tenants", ":", "reactivate">>,
        <<"tenants", ":", "impersonate">>, <<"tenants", ":", "razorpay", "create">>, <<"tenants", ":", "build">>,
        <<"whatsapp", "broadcast">>}, NoGuards))
    BY RoutesOfDesk DEF At1
<1>4. Desk(W, On("PUT", <<"admin", "platform", "tenants", ":">>,
        {<<"plan">>, <<"features">>, <<"razorpay">>, <<"domain">>}, NoGuards))
    BY RoutesOfDesk DEF At1
<1>5. Desk(W, At1("PATCH", <<"admin", "platform", "builds", ":">>, NoGuards))
    BY OneRow DEF Desk, On, At1
<1> HIDE DEF W
<1>6. Opened(W, PlatformDesk)
    BY <1>1, <1>2, <1>3, <1>4, <1>5, DeskOpens DEF PlatformDesk
<1> QED  BY <1>6, OpenedShielded

LEMMA CmsShielded == Shielded(CmsDesk)
<1> DEFINE W == {"cms"}
<1>1. Opened(W, Group(<<"admin", "cms">>, Platform))
  <2>1. "cms" # ":" /\ Platform \in DoorsFor("cms") /\ Platform \in {Platform, Trading, Managing}
      BY DEF DoorsFor
  <2>2. Head(<<"admin", "cms">>) = "admin" /\ Tail(<<"admin", "cms">>) \o <<>> = <<"cms">>
      OBVIOUS
  <2> QED  BY <2>1, <2>2, GroupOpens
<1>2. Desk(W, On("GET", <<"admin", "cms">>, {<<"posts">>, <<"faqs">>, <<"pages">>, <<"pages", ":">>}, NoGuards))
    BY RoutesOfDesk DEF At1
<1>3. Desk(W, On("POST", <<"admin", "cms">>, {<<"posts">>, <<"faqs">>}, NoGuards))
    BY RoutesOfDesk DEF At1
<1>4. Desk(W, On("PATCH", <<"admin", "cms">>, {<<"posts", ":">>, <<"faqs", ":">>}, NoGuards))
    BY RoutesOfDesk DEF At1
<1>5. Desk(W, On("DELETE", <<"admin", "cms">>, {<<"posts", ":">>, <<"faqs", ":">>}, NoGuards))
    BY RoutesOfDesk DEF At1
<1>6. Desk(W, At1("PUT", <<"admin", "cms", "pages", ":">>, NoGuards))
    BY OneRow DEF Desk, On, At1
<1> HIDE DEF W
<1>7. Opened(W, CmsDesk)
    BY <1>1, <1>2, <1>3, <1>4, <1>5, <1>6, DeskOpens DEF CmsDesk
<1> QED  BY <1>7, OpenedShielded

\* What is not below /admin.
LEMMA OnApart ==
  ASSUME NEW verb, NEW prefix, NEW tails, NEW guards, Head(prefix) # "admin"
  PROVE  Shielded(On(verb, prefix, tails, guards))
<1> DEFINE e == [verb |-> verb, root |-> Head(prefix), paths |-> {Tail(prefix) \o t : t \in tails}, guards |-> guards]
<1>1. On(verb, prefix, tails, guards) = <<e>> /\ e.root # "admin"
    BY DEF On
<1> HIDE DEF e
<1> QED  BY <1>1, OneRow DEF Shielded

LEMMA PublicShielded == Shielded(PublicRoutes)
BY OnApart, BothShielded DEF PublicRoutes, At1

LEMMA PurchaseShielded == Shielded(PurchaseRoutes)
<1>1. Shielded(At1("GET", <<"admin", "leads">>, Platform))
    BY OwnShielded DEF DoorsFor, At1
<1> QED  BY <1>1, OnApart, BothShielded DEF PurchaseRoutes, At1, Group

LEMMA ShopAdminShielded == Shielded(ShopAdminRoutes)
<1>1. Shielded(At1("POST", <<"admin", "notifications">>, Trading))
    BY OwnShielded DEF DoorsFor, At1
<1> QED  BY <1>1, CouponShielded, MoneyShielded, BundleShielded, ScheduleShielded, OnApart, BothShielded
     DEF ShopAdminRoutes, At1

LEMMA PlatformShielded == Shielded(PlatformRoutes)
<1>1. /\ Shielded(At1("POST", <<"admin", "tenants">>, Platform))
      /\ Shielded(At1("PATCH", <<"admin", "leads", ":">>, Platform))
    BY OwnShielded DEF DoorsFor, At1
<1> QED  BY <1>1, PlatformDeskShielded, CmsShielded, OnApart, BothShielded DEF PlatformRoutes, At1, Group

LEMMA AccountShielded == Shielded(AccountRoutes)
BY OnApart, BothShielded DEF AccountRoutes, At1, Group

LEMMA ResourceShielded ==
  ASSUME NEW name, NEW reads, NEW deleters, name # "admin"
  PROVE  Shielded(Resource(name, reads, deleters))
BY OnApart, BothShielded DEF Resource, At1

LEMMA CourseShielded == Shielded(CourseRoutes)
<1>1. Shielded(At1("POST", <<"admin", "enrollments">>, Trading))
    BY OwnShielded DEF DoorsFor, At1
<1> QED  BY <1>1, OnApart, ResourceShielded, BothShielded DEF CourseRoutes, At1, Group

LEMMA TestShielded == Shielded(TestRoutes)
BY OnApart, BothShielded DEF TestRoutes, At1, Group

LEMMA ClassroomShielded == Shielded(ClassroomRoutes)
BY OnApart, BothShielded DEF ClassroomRoutes, At1, Group

LEMMA RtmpShielded == Shielded(RtmpRoutes)
BY OnApart, BothShielded DEF RtmpRoutes, At1, Group

LEMMA TableShielded == Shielded(Table)
BY PublicShielded, PurchaseShielded, ShopAdminShielded, PlatformShielded, AccountShielded, CourseShielded,
   TestShielded, ClassroomShielded, AdminShielded, RtmpShielded, BothShielded DEF Table

LEMMA OnMild ==
  ASSUME NEW verb, NEW prefix, NEW tails, NEW guards,
         \/ Head(prefix) # "admin" \/ guards \in {Platform, NoGuards}
         \/ \A t \in tails : LET p == Tail(prefix) \o t IN 1 \in DOMAIN p /\ p[1] \notin {":", "platform"}
  PROVE  Milds(On(verb, prefix, tails, guards))
<1> DEFINE e == [verb |-> verb, root |-> Head(prefix), paths |-> {Tail(prefix) \o t : t \in tails}, guards |-> guards]
<1>1. On(verb, prefix, tails, guards) = <<e>>
    BY DEF On
<1>2. Mild(e)
    BY DEF Mild
<1> HIDE DEF e
<1> QED  BY <1>1, <1>2, OneRow DEF Milds

LEMMA BothMild ==
  ASSUME NEW S, NEW T, Milds(S), Milds(T)
  PROVE  Milds(S \o T)
BY ListsJoined DEF Milds

LEMMA BothPlain ==
  ASSUME NEW S, NEW T, Plains(S), Plains(T)
  PROVE  Plains(S \o T)
BY ListsJoined DEF Plains

LEMMA OnPlain ==
  ASSUME NEW verb, NEW prefix, NEW tails, NEW guards,
         \/ Head(prefix) # "admin" \/ verb = "USE"
         \/ \A t \in tails : (Tail(prefix) \o t)[1] # "platform"
  PROVE  Plains(On(verb, prefix, tails, guards))
<1> DEFINE e == [verb |-> verb, root |-> Head(prefix), paths |-> {Tail(prefix) \o t : t \in tails}, guards |-> guards]
<1>1. On(verb, prefix, tails, guards) = <<e>>
    BY DEF On
<1>2. Plain(e)
    BY DEF Plain
<1> HIDE DEF e
<1> QED  BY <1>1, <1>2, OneRow DEF Plains

LEMMA OnMildApart ==
  ASSUME NEW verb, NEW prefix, NEW tails, NEW guards, Head(prefix) # "admin"
  PROVE  Milds(On(verb, prefix, tails, guards))
BY OnMild

LEMMA SectionsMild ==
  /\ Milds(PublicRoutes) /\ Milds(AccountRoutes) /\ Milds(TestRoutes) /\ Milds(ClassroomRoutes)
<1>1. Milds(PublicRoutes)
    BY OnMild, BothMild DEF PublicRoutes, At1
<1>2. Milds(AccountRoutes)
    BY OnMild, BothMild DEF AccountRoutes, At1, Group
<1>3. Milds(TestRoutes)
    BY OnMild, BothMild DEF TestRoutes, At1, Group
<1>4. Milds(ClassroomRoutes)
    BY OnMildApart, BothMild DEF ClassroomRoutes, At1, Group
<1> QED  BY <1>1, <1>2, <1>3, <1>4

LEMMA PurchaseMild == Milds(PurchaseRoutes)
BY OnMild, BothMild DEF PurchaseRoutes, At1, Group

LEMMA CourseMild == Milds(CourseRoutes)
<1>1. \A name, reads, deleters : name # "admin" => Milds(Resource(name, reads, deleters))
    BY OnMild, BothMild DEF Resource, At1
<1>2. Milds(At1("POST", <<"admin", "enrollments">>, Trading))
    BY OnMild DEF At1
<1> QED  BY <1>1, <1>2, OnMild, BothMild DEF CourseRoutes, At1, Group

LEMMA CouponMild == Milds(CouponDesk)
BY OnMild, BothMild DEF CouponDesk, At1, Group

LEMMA MoneyMild == Milds(MoneyDesk)
BY OnMild, BothMild DEF MoneyDesk, At1, Group

LEMMA BundleMild == Milds(BundleDesk)
BY OnMild, BothMild DEF BundleDesk, At1, Group

LEMMA ScheduleMild == Milds(ScheduleDesk)
BY OnMild, BothMild DEF ScheduleDesk, At1, Group

LEMMA PlatformDeskMild == Milds(PlatformDesk)
BY OnMild, BothMild DEF PlatformDesk, At1, Group

LEMMA CmsMild == Milds(CmsDesk)
BY OnMild, BothMild DEF CmsDesk, At1, Group

LEMMA ShopAdminMild == Milds(ShopAdminRoutes)
<1>1. Milds(At1("POST", <<"admin", "notifications">>, Trading))
    BY OnMild DEF At1
<1> QED  BY <1>1, CouponMild, MoneyMild, BundleMild, ScheduleMild, OnMildApart, BothMild DEF ShopAdminRoutes, At1

LEMMA PlatformMild == Milds(PlatformRoutes)
BY PlatformDeskMild, CmsMild, OnMild, BothMild DEF PlatformRoutes, At1, Group

LEMMA RtmpPlain == Plains(RtmpRoutes)
BY OnPlain, BothPlain DEF RtmpRoutes

LEMMA AdminPlain == Plains(AdminRoutes)
BY OnPlain, BothPlain DEF AdminRoutes, Group, At1

LEMMA MildOrderly ==
  ASSUME NEW S, Milds(S)
  PROVE  Orderly(S)
BY DEF Milds, Orderly, RowsOf

LEMMA PlainFollows ==
  ASSUME NEW S, NEW T, Orderly(S), Plains(T)
  PROVE  Orderly(S \o T)
<1> DEFINE U == S \o T
<1>1. /\ Len(S) \in Nat /\ Len(T) \in Nat /\ DOMAIN S = 1 .. Len(S) /\ DOMAIN T = 1 .. Len(T)
      /\ IsList(U) /\ DOMAIN U = 1 .. (Len(S) + Len(T))
      /\ \A i \in DOMAIN S : U[i] = S[i]
      /\ \A i \in DOMAIN T : U[Len(S) + i] = T[i]
  <2>1. IsList(S) /\ IsList(T)
      BY DEF Orderly, Plains
  <2>2. U = S \o T
      OBVIOUS
  <2> HIDE DEF U
  <2> QED  BY <2>1, <2>2, ListsJoined
<1> HIDE DEF U
<1>2. ASSUME NEW i \in DOMAIN U, NEW j \in DOMAIN U, j <= i, ~ Plain(U[i])
      PROVE  Mild(U[j])
  <2>1. i \in DOMAIN S
    <3> SUFFICES ASSUME i \notin DOMAIN S PROVE FALSE
        OBVIOUS
    <3>1. i - Len(S) \in DOMAIN T /\ i = Len(S) + (i - Len(S))
        BY <1>1
    <3>2. U[i] = T[i - Len(S)]
        BY <1>1, <3>1
    <3> QED  BY <1>2, <3>1, <3>2 DEF Plains, RowsOf
  <2>2. j \in DOMAIN S
      BY <1>1, <1>2, <2>1
  <2> QED  BY <1>1, <1>2, <2>1, <2>2 DEF Orderly
<1> QED  BY <1>1, <1>2 DEF Orderly, U

LEMMA TableOrderly == Orderly(Table)
<1> DEFINE S == PublicRoutes \o PurchaseRoutes \o ShopAdminRoutes \o PlatformRoutes \o AccountRoutes \o CourseRoutes
                  \o TestRoutes \o ClassroomRoutes
<1>1. Milds(S)
    BY SectionsMild, PurchaseMild, CourseMild, ShopAdminMild, PlatformMild, BothMild
<1>2. Table = (S \o AdminRoutes) \o RtmpRoutes
    BY DEF Table
<1> HIDE DEF S
<1> QED  BY <1>1, <1>2, RtmpPlain, AdminPlain, MildOrderly, PlainFollows

(* Of the request, that it has passed the doors behind it: the one of each entry it has met says    *)
(* who it comes from, and its session is the one that goes with who sent it.                        *)

Meets(q, i) == Answers(i, q.verb, q.root, q.path)
Due(q) == IF q.who = "super_admin" THEN "super" ELSE "tenant"
\* It has been through the guards of an entry.
Behind(q, i) ==
  /\ Table[i].guards = Platform => q.who = "super_admin" /\ q.session # "none"
  /\ Table[i].guards \in {Trading, Managing} => q.who = "admin" /\ q.session # "none"
\* How far it is through the guards of an entry.
Way(q, guards, left) ==
  \/ guards = NoGuards /\ left = <<>>
  \/ guards = <<"audit">> /\ left \in {<<"audit">>, <<>>}
  \/ /\ guards \in {Platform, Trading, Managing}
     /\ \/ left = guards
        \/ guards = Platform /\ left = <<"super">> /\ q.role # "none"
        \/ guards = Trading /\ left = <<"tenant", "rate", "admin">>
        \/ guards = Managing /\ left = <<"tenant", "admin">>
        \/ guards = Trading /\ left = <<"rate", "admin">> /\ q.session = "tenant"
        \/ guards # Platform /\ left = <<"admin">> /\ q.session = "tenant"
        \/ left = <<>> /\ Behind(q, q.entry)
UnderWay == {"walking", "guarded", "handled"}
Checked(q) ==
  q.root = "admin" /\ q.status \in UnderWay =>
  /\ q.role \in {"none", q.who}
  /\ q.session \in {"none", Due(q)} \/ q.guards \in {<<"rate", "admin">>, <<"admin">>}
  /\ \A i \in DOMAIN Table : Meets(q, i) /\ (i < q.entry \/ (i = q.entry /\ q.status # "guarded")) => Behind(q, i)
  /\ q.entry = 0 \/ (q.entry \in DOMAIN Table /\ Meets(q, q.entry))
  /\ IF q.status = "guarded" THEN q.entry # 0 /\ Way(q, Table[q.entry].guards, q.guards) ELSE q.guards = <<>>
  /\ q.status = "handled" => q.entry # 0 /\ Table[q.entry].verb # "USE"
\* Sent to a route of the platform's desk, it does not come past that route.
ToPlatform(q) == q.root = "admin" /\ q.aim # 0 /\ Len(q.path) > 0 /\ q.path[1] = "platform"
Aimed(q) ==
  ToPlatform(q) =>
  /\ q.aim \in DOMAIN Table /\ Table[q.aim].verb # "USE" /\ Meets(q, q.aim) /\ ~ Plain(Table[q.aim])
  /\ q.status \in UnderWay => q.entry <= q.aim
  /\ q.status = "walking" => q.entry < q.aim
  /\ q.who = "super_admin" => q.status # "refused"

LEMMA TableIsList == Len(Table) \in Nat /\ DOMAIN Table = 1 .. Len(Table)
<1>1. IsList(Table)
    BY TableShielded DEF Shielded
<1> QED  BY <1>1 DEF IsList

LEMMA NextIsFirst ==
  ASSUME NEW i \in Nat, NEW verb, NEW root, NEW path, NEW n, n = NextEntry(i, verb, root, path), n # 0
  PROVE  /\ n \in DOMAIN Table /\ n > i /\ Answers(n, verb, root, path)
         /\ \A j \in DOMAIN Table : j > i /\ Answers(j, verb, root, path) => n <= j
<1> DEFINE left == {j \in DOMAIN Table : j > i /\ Answers(j, verb, root, path)}
           R == OpToRel(<, Nat)
<1>1. left # {} /\ n = CHOOSE j \in left : \A k \in left : j <= k
    BY DEF NextEntry
<1>2. left \subseteq Nat
    BY TableIsList
<1>3. IsWellFoundedOn(R, Nat)
    BY NatLessThanWellFounded, Zenon
<1>5. \A a, b \in Nat : a < b => <<a, b>> \in R
    BY DEF R, OpToRel
<1> HIDE DEF R, left
<1>4. PICK x \in left : \A y \in left : ~ (<<y, x>> \in R)
    BY <1>1, <1>2, <1>3, WFMin
<1>6. ASSUME NEW k \in left PROVE x <= k
  <2>1. k \in Nat /\ x \in Nat /\ ~ (<<k, x>> \in R)
      BY <1>2, <1>4
  <2>2. ~ (k < x)
      BY <2>1, <1>5
  <2> QED  BY <2>1, <2>2
<1>7. n \in left /\ \A k \in left : n <= k
    BY <1>1, <1>6
<1> QED  BY <1>7 DEF left

LEMMA FilledMatches ==
  ASSUME NEW p, NEW id, Len(p) \in Nat, DOMAIN p = 1 .. Len(p)
  PROVE  /\ Len(Filled(p, id)) = Len(p) /\ MatchesHere(p, Filled(p, id))
         /\ Len(p) > 0 /\ p[1] # ":" => Filled(p, id)[1] = p[1]
<1> DEFINE f == Filled(p, id)
<1>1. DOMAIN f = 1 .. Len(p) /\ \A k \in 1 .. Len(p) : f[k] = IF p[k] = ":" THEN id ELSE p[k]
    BY DEF Filled
<1>2. f \in [1 .. Len(p) -> {f[k] : k \in DOMAIN f}]
    BY DEF Filled
<1>3. Len(f) = Len(p)
    BY <1>2
<1> QED  BY <1>1, <1>3 DEF MatchesHere

Same(q, r) == /\ r.who = q.who /\ r.verb = q.verb /\ r.root = q.root /\ r.path = q.path /\ r.aim = q.aim
\* What each guard asks for, and does to the request.
LetThrough(q, r, h) ==
  \/ h = "auth" /\ q.who \in Roles /\ r.role = q.who /\ r.session = q.session
  \/ h \in {"admin", "staff", "student"} /\ q.role \in Allowed[h] /\ r.role = q.role /\ r.session = q.session
  \/ h = "tenant" /\ q.role # "none" /\ r.role = q.role /\ r.session = "tenant"
  \/ h = "super" /\ q.role = "super_admin" /\ r.role = q.role /\ r.session = "super"
  \/ h \in {"rate", "audit"} /\ r.role = q.role /\ r.session = q.session
  \/ h \in {"optional", "lookup"}

LEMMA Steps ==
 /\ Head(<<"audit">>) = "audit" /\ Tail(<<"audit">>) = <<>>
 /\ Head(<<"super">>) = "super" /\ Tail(<<"super">>) = <<>>
 /\ Head(<<"admin">>) = "admin" /\ Tail(<<"admin">>) = <<>>
 /\ Head(<<"auth", "super">>) = "auth" /\ Tail(<<"auth", "super">>) = <<"super">>
 /\ Head(<<"rate", "admin">>) = "rate" /\ Tail(<<"rate", "admin">>) = <<"admin">>
 /\ Head(<<"tenant", "admin">>) = "tenant" /\ Tail(<<"tenant", "admin">>) = <<"admin">>
 /\ Head(<<"auth", "tenant", "admin">>) = "auth" /\ Tail(<<"auth", "tenant", "admin">>) = <<"tenant", "admin">>
 /\ Head(<<"tenant", "rate", "admin">>) = "tenant" /\ Tail(<<"tenant", "rate", "admin">>) = <<"rate", "admin">>
 /\ Head(<<"auth", "tenant", "rate", "admin">>) = "auth"
 /\ Tail(<<"auth", "tenant", "rate", "admin">>) = <<"tenant", "rate", "admin">>
OBVIOUS

LEMMA Differ ==
  \A left \in {<<"audit">>, <<"auth", "super">>, <<"super">>, <<"auth", "tenant", "admin">>,
               <<"auth", "tenant", "rate", "admin">>, <<"tenant", "admin">>, <<"tenant", "rate", "admin">>, <<>>} :
    left \notin {<<"rate", "admin">>, <<"admin">>}
OBVIOUS

LEMMA GuardLists ==
  /\ Platform = <<"auth", "super">> /\ Trading = <<"auth", "tenant", "rate", "admin">>
  /\ Managing = <<"auth", "tenant", "admin">> /\ NoGuards = <<>>
BY DEF Platform, Trading, Managing, NoGuards

LEMMA GuardsDiffer ==
  /\ Platform \notin {Trading, Managing, <<"audit">>, NoGuards}
  /\ NoGuards \notin {Trading, Managing, <<"audit">>} /\ <<"audit">> \notin {Trading, Managing}
<1>1. Len(Platform) = 2 /\ Len(Trading) = 4 /\ Len(Managing) = 3 /\ Len(NoGuards) = 0 /\ Len(<<"audit">>) = 1
    BY DEF Platform, Trading, Managing, NoGuards
<1>2. \A a, b : a = b => Len(a) = Len(b)
    OBVIOUS
<1>3. 2 # 4 /\ 2 # 3 /\ 2 # 1 /\ 2 # 0 /\ 0 # 4 /\ 0 # 3 /\ 0 # 1 /\ 1 # 4 /\ 1 # 3
    OBVIOUS
<1> QED  BY <1>1, <1>2, <1>3, Zenon

LEMMA GuardPassed ==
  ASSUME NEW q, NEW r, NEW h, Same(q, r), q.who \in Callers, q.status = "guarded", r.status = "guarded",
         r.entry = q.entry, q.guards # <<>>, h = Head(q.guards), r.guards = Tail(q.guards),
         LetThrough(q, r, h), Checked(q)
  PROVE  Checked(r)
<1> SUFFICES ASSUME q.root = "admin" PROVE Checked(r)
    BY DEF Checked, Same
<1> DEFINE g == Table[q.entry].guards
           left == q.guards
<1>1. /\ q.role \in {"none", q.who}
      /\ q.session \in {"none", Due(q)} \/ left \in {<<"rate", "admin">>, <<"admin">>}
      /\ \A i \in DOMAIN Table : Meets(q, i) /\ i < q.entry => Behind(q, i)
      /\ q.entry \in DOMAIN Table /\ Meets(q, q.entry) /\ q.entry # 0
      /\ Way(q, g, left)
    BY DEF Checked, UnderWay
<1>2. \A i : Meets(r, i) <=> Meets(q, i)
    BY DEF Meets, Same
<1>3. r.session # "none" \/ r.session = q.session \/ h \in {"optional", "lookup"}
    BY DEF LetThrough
<1>4. Due(r) = Due(q) /\ r.who = q.who
    BY DEF Due, Same
<1>5. SUFFICES /\ r.role \in {"none", q.who}
               /\ r.session \in {"none", Due(q)} \/ r.guards \in {<<"rate", "admin">>, <<"admin">>}
               /\ Way(r, g, r.guards)
               /\ h \notin {"optional", "lookup"}
  <2>1. \A i \in DOMAIN Table : Meets(r, i) /\ i < r.entry => Behind(r, i)
      BY <1>1, <1>2, <1>3, <1>4, <1>5 DEF Behind
  <2> QED  BY <1>1, <1>2, <1>4, <1>5, <2>1 DEF Checked, UnderWay
<1> HIDE DEF g, left
<1>6. Way(q, g, left) /\ left # <<>> /\ h = Head(left) /\ r.guards = Tail(left)
    BY <1>1 DEF left
<1>7. \/ g = <<"audit">> /\ left = <<"audit">>
      \/ g = Platform /\ left = <<"auth", "super">>
      \/ g = Trading /\ left = <<"auth", "tenant", "rate", "admin">>
      \/ g = Managing /\ left = <<"auth", "tenant", "admin">>
      \/ g = Platform /\ left = <<"super">> /\ q.role # "none"
      \/ g = Trading /\ left = <<"tenant", "rate", "admin">>
      \/ g = Managing /\ left = <<"tenant", "admin">>
      \/ g = Trading /\ left = <<"rate", "admin">> /\ q.session = "tenant"
      \/ g \in {Trading, Managing} /\ left = <<"admin">> /\ q.session = "tenant"
    BY <1>6, GuardLists, Zenon DEF Way
<1>8. q.session \in {"none", Due(q)} \/ left \in {<<"rate", "admin">>, <<"admin">>}
    BY <1>1 DEF left
<1>9. CASE g = <<"audit">> /\ left = <<"audit">>
  <2>1. h = "audit" /\ r.guards = <<>> /\ left \notin {<<"rate", "admin">>, <<"admin">>}
      BY <1>6, <1>9, Steps, Differ, Zenon
  <2> QED  BY <2>1, <1>1, <1>8, <1>9 DEF LetThrough, Way
<1>10. CASE g = Platform /\ left = <<"auth", "super">>
  <2>1. h = "auth" /\ r.guards = <<"super">> /\ left \notin {<<"rate", "admin">>, <<"admin">>}
      BY <1>6, <1>10, Steps, Differ, Zenon
  <2> QED  BY <2>1, <1>1, <1>8, <1>10, <1>4 DEF LetThrough, Way, Roles
<1>11. CASE g = Trading /\ left = <<"auth", "tenant", "rate", "admin">>
  <2>1. h = "auth" /\ r.guards = <<"tenant", "rate", "admin">> /\ left \notin {<<"rate", "admin">>, <<"admin">>}
      BY <1>6, <1>11, Steps, Differ, Zenon
  <2> QED  BY <2>1, <1>1, <1>8, <1>11, <1>4 DEF LetThrough, Way
<1>12. CASE g = Managing /\ left = <<"auth", "tenant", "admin">>
  <2>1. h = "auth" /\ r.guards = <<"tenant", "admin">> /\ left \notin {<<"rate", "admin">>, <<"admin">>}
      BY <1>6, <1>12, Steps, Differ, Zenon
  <2> QED  BY <2>1, <1>1, <1>8, <1>12, <1>4 DEF LetThrough, Way
<1>13. CASE g = Platform /\ left = <<"super">> /\ q.role # "none"
  <2>1. h = "super" /\ r.guards = <<>>
      BY <1>6, <1>13, Steps, Differ, Zenon
  <2>2. q.who = "super_admin" /\ r.session = "super" /\ r.role = q.role
      BY <2>1, <1>1, <1>13 DEF LetThrough
  <2>3. Behind(r, r.entry)
      BY <1>13, <2>2, <1>4, GuardLists DEF Behind, g
  <2> QED  BY <2>1, <2>2, <2>3, <1>1, <1>13 DEF Way, Due
<1>14. CASE g = Trading /\ left = <<"tenant", "rate", "admin">>
  <2>1. h = "tenant" /\ r.guards = <<"rate", "admin">>
      BY <1>6, <1>14, Steps, Differ, Zenon
  <2> QED  BY <2>1, <1>1, <1>14 DEF LetThrough, Way
<1>15. CASE g = Managing /\ left = <<"tenant", "admin">>
  <2>1. h = "tenant" /\ r.guards = <<"admin">>
      BY <1>6, <1>15, Steps, Differ, Zenon
  <2>2. g # Platform
      BY <1>15, GuardLists
  <2> QED  BY <2>1, <2>2, <1>1, <1>15 DEF LetThrough, Way
<1>16. CASE g = Trading /\ left = <<"rate", "admin">> /\ q.session = "tenant"
  <2>1. h = "rate" /\ r.guards = <<"admin">>
      BY <1>6, <1>16, Steps, Differ, Zenon
  <2>2. g # Platform
      BY <1>16, GuardLists
  <2> QED  BY <2>1, <2>2, <1>1, <1>16 DEF LetThrough, Way
<1>17. CASE g \in {Trading, Managing} /\ left = <<"admin">> /\ q.session = "tenant"
  <2>1. h = "admin" /\ r.guards = <<>>
      BY <1>6, <1>17, Steps, Differ, Zenon
  <2>2. q.who = "admin" /\ r.session = "tenant" /\ r.role = q.role
      BY <2>1, <1>1, <1>17 DEF LetThrough, Allowed
  <2>3. g # Platform
      BY <1>17, GuardLists
  <2>4. Behind(r, r.entry)
      BY <1>17, <2>2, <2>3, <1>4 DEF Behind, g
  <2> QED  BY <2>1, <2>2, <2>4, <1>1, <1>17 DEF Way, Due
<1> QED  BY <1>7, <1>9, <1>10, <1>11, <1>12, <1>13, <1>14, <1>15, <1>16, <1>17

Sessions == {"none", "tenant", "super", "lookup"}
RequestStates == {"idle", "walking", "guarded", "refused", "throttled", "handled", "missing"}
Fields ==
  {"who", "verb", "root", "path", "aim", "entry", "guards", "role", "session", "audited", "status"}

\* A request has the fields of Fresh, and those of the type are in range.
Shaped(q) ==
  /\ q = [f \in Fields |-> q[f]]
  /\ q.who \in Callers /\ q.role \in Roles \cup {"none"}
  /\ q.session \in Sessions /\ q.status \in RequestStates

GatewayInv == Shaped(request) /\ audits \in BOOLEAN

LEMMA GatewayTyped == GatewayInv => GatewayTypeOK
BY DEF GatewayInv, Shaped, GatewayTypeOK, Sessions, RequestStates

LEMMA FreshShaped ==
  ASSUME NEW who \in Callers, NEW verb, NEW root, NEW path, NEW aim
  PROVE  Shaped(Fresh(who, verb, root, path, aim))
BY DEF Shaped, Fresh, Sessions, RequestStates, Fields

\* One field of a request changes.
LEMMA FieldChanges ==
  ASSUME NEW q, Shaped(q), NEW f \in Fields, NEW v,
         f = "who" => v \in Callers,
         f = "role" => v \in Roles \cup {"none"},
         f = "session" => v \in Sessions,
         f = "status" => v \in RequestStates
  PROVE  Shaped([q EXCEPT ![f] = v])
BY DEF Shaped, Fields

\* What the server does to a request keeps its shape.
LEMMA StillShaped ==
  ASSUME NEW q, Shaped(q)
  PROVE  /\ \A status \in RequestStates : Shaped([q EXCEPT !.status = status])
         /\ \A role \in Roles \cup {"none"} : Shaped([q EXCEPT !.role = role])
         /\ \A session \in Sessions : Shaped([q EXCEPT !.session = session])
         /\ \A guards : Shaped([q EXCEPT !.guards = guards])
         /\ \A audited : Shaped([q EXCEPT !.audited = audited])
         /\ \A entry : Shaped([q EXCEPT !.entry = entry])
<1>1. {"status", "role", "session", "guards", "audited", "entry"} \subseteq Fields
    BY DEF Fields
<1> QED  BY <1>1, FieldChanges

LEMMA NoRequestShaped == Shaped(NoRequest)
<1>1. Shaped(Fresh("none", "GET", "none", <<>>, 0))
    BY FreshShaped DEF Callers
<1> QED  BY <1>1, StillShaped DEF NoRequest, RequestStates

LEMMA PassedShaped ==
  ASSUME Shaped(request)
  PROVE  /\ Shaped(Passed) /\ Shaped(Refused) /\ Shaped([Passed EXCEPT !.audited = TRUE])
         /\ request.who \in Roles => Shaped([Passed EXCEPT !.role = request.who])
         /\ \A session \in Sessions : Shaped([Passed EXCEPT !.session = session])
<1>1. Shaped(Passed)
    BY StillShaped, Zenon DEF Passed
<1>2. Shaped(Refused)
    BY StillShaped DEF Refused, RequestStates
<1>3. \A p : Shaped(p) =>
        /\ Shaped([p EXCEPT !.audited = TRUE])
        /\ request.who \in Roles => Shaped([p EXCEPT !.role = request.who])
        /\ \A session \in Sessions : Shaped([p EXCEPT !.session = session])
    BY StillShaped
<1> QED  BY <1>1, <1>2, <1>3

LEMMA ArrivesStep ==
  ASSUME GatewayInv, NEW who \in Callers, Arrives(who)
  PROVE  GatewayInv'
<1>1. \E verb, root, path, aim : request' = Fresh(who, verb, root, path, aim)
    BY Zenon DEF Arrives
<1>2. Shaped(request')
    BY <1>1, FreshShaped
<1> QED  BY <1>2 DEF GatewayInv, Arrives, Shaped

LEMMA WalkStep ==
  ASSUME GatewayInv, Walk \/ Through
  PROVE  GatewayInv'
<1>1. Shaped(request')
  <2>1. CASE request' = [request EXCEPT !.status = "missing"] \/ request' = [request EXCEPT !.status = "walking"]
             \/ request' = [request EXCEPT !.status = "handled"]
      BY <2>1, StillShaped DEF GatewayInv, RequestStates
  <2>2. ASSUME NEW entry, NEW guards,
               request' = [request EXCEPT !.entry = entry, !.guards = guards, !.status = "guarded"]
        PROVE  Shaped(request')
    <3> DEFINE one == [request EXCEPT !.entry = entry]
               two == [one EXCEPT !.guards = guards]
    <3>1. Shaped(one)
        BY StillShaped DEF GatewayInv
    <3>2. Shaped(two)
        BY <3>1, StillShaped
    <3>3. Shaped([two EXCEPT !.status = "guarded"])
        BY <3>2, StillShaped DEF RequestStates
    <3>4. request' = [two EXCEPT !.status = "guarded"]
        BY <2>2
    <3> QED  BY <3>3, <3>4
  <2> QED  BY <2>1, <2>2, Zenon DEF Walk, Through
<1> QED  BY <1>1 DEF GatewayInv, Walk, Through, Shaped

LEMMA GuardSteps ==
  ASSUME GatewayInv,
         \/ AuthMiddleware \/ OptionalAuthMiddleware \/ RoleMiddleware \/ TenantContext
         \/ SuperAdminContext \/ PublicLookupContext \/ TenantRateLimit \/ Audit
  PROVE  GatewayInv'
<1>1. Shaped(request) /\ UNCHANGED audits
    BY DEF GatewayInv, AuthMiddleware, OptionalAuthMiddleware, RoleMiddleware, TenantContext,
       SuperAdminContext, PublicLookupContext, TenantRateLimit, Audit
<1>2. Shaped([request EXCEPT !.status = "throttled"])
    BY <1>1, StillShaped DEF RequestStates
<1>3. {"tenant", "super", "lookup"} \subseteq Sessions
    BY DEF Sessions
<1>4. Shaped(request')
    BY <1>1, <1>2, <1>3, PassedShaped DEF AuthMiddleware, OptionalAuthMiddleware, RoleMiddleware, TenantContext,
       SuperAdminContext, PublicLookupContext, TenantRateLimit, Audit
<1> QED  BY <1>1, <1>4 DEF GatewayInv, Shaped

LEMMA ReturnSteps ==
  ASSUME GatewayInv, AuditReturns \/ Answer
  PROVE  GatewayInv'
<1>1. Shaped([request EXCEPT !.audited = FALSE])
    BY StillShaped DEF GatewayInv
<1>2. Shaped(request')
    BY <1>1, NoRequestShaped DEF AuditReturns, Answer
<1>3. audits' \in BOOLEAN
    BY DEF AuditReturns, Answer
<1> QED  BY <1>2, <1>3 DEF GatewayInv, Shaped

LEMMA GatewayStep == GatewayInv /\ [GatewayNext]_gatewayVars => GatewayInv'
<1> SUFFICES ASSUME GatewayInv, [GatewayNext]_gatewayVars PROVE GatewayInv'
    OBVIOUS
<1>1. CASE UNCHANGED gatewayVars
    BY <1>1 DEF GatewayInv, Shaped, gatewayVars
<1> QED  BY <1>1, ArrivesStep, WalkStep, GuardSteps, ReturnSteps DEF GatewayNext

LEMMA GatewayStart == GatewayInit => GatewayInv
BY NoRequestShaped DEF GatewayInit, GatewayInv

\* Every reachable state satisfies the invariant, and with it the type invariant.
THEOREM GatewayInvariant == GatewaySpec => []GatewayInv
BY GatewayStart, GatewayStep, PTL DEF GatewaySpec

Stays(q, r) == Same(q, r) /\ r.entry = q.entry
Refusable(q, h) ==
  \/ h = "auth" /\ q.who \notin Roles
  \/ h \in {"admin", "staff", "student"} /\ q.role \notin Allowed[h]
  \/ h = "tenant" /\ q.role = "none"
  \/ h = "super" /\ q.role # "super_admin"

LEMMA GuardsOnly ==
  ASSUME NEW q, Shaped(q), NEW v, NEW r, r = [q EXCEPT !.guards = v]
  PROVE  Stays(q, r) /\ r.status = q.status /\ r.guards = v /\ r.role = q.role /\ r.session = q.session
BY DEF Shaped, Fields, Stays, Same

LEMMA RoleOnly ==
  ASSUME NEW q, Shaped(q), NEW v, NEW r, r = [q EXCEPT !.role = v]
  PROVE  Stays(q, r) /\ r.status = q.status /\ r.guards = q.guards /\ r.role = v /\ r.session = q.session
BY DEF Shaped, Fields, Stays, Same

LEMMA SessionOnly ==
  ASSUME NEW q, Shaped(q), NEW v, NEW r, r = [q EXCEPT !.session = v]
  PROVE  Stays(q, r) /\ r.status = q.status /\ r.guards = q.guards /\ r.role = q.role /\ r.session = v
BY DEF Shaped, Fields, Stays, Same

LEMMA AuditedOnly ==
  ASSUME NEW q, Shaped(q), NEW v, NEW r, r = [q EXCEPT !.audited = v]
  PROVE  Stays(q, r) /\ r.status = q.status /\ r.guards = q.guards /\ r.role = q.role /\ r.session = q.session
BY DEF Shaped, Fields, Stays, Same

LEMMA StatusOnly ==
  ASSUME NEW q, Shaped(q), NEW v, NEW r, r = [q EXCEPT !.status = v]
  PROVE  Stays(q, r) /\ r.status = v /\ r.guards = q.guards /\ r.role = q.role /\ r.session = q.session
BY DEF Shaped, Fields, Stays, Same

LEMMA GuardMoves ==
  ASSUME GatewayInv,
         \/ AuthMiddleware \/ OptionalAuthMiddleware \/ RoleMiddleware \/ TenantContext
         \/ SuperAdminContext \/ PublicLookupContext \/ TenantRateLimit \/ Audit
  PROVE  \E h : /\ request.status = "guarded" /\ request.guards # <<>> /\ h = Head(request.guards)
                /\ Stays(request, request')
                /\ \/ /\ request'.status = "guarded" /\ request'.guards = Tail(request.guards)
                      /\ LetThrough(request, request', h)
                   \/ request'.status = "refused" /\ Refusable(request, h)
                   \/ request'.status = "throttled"
<1> DEFINE q == request
           p == Passed
           Pass(h) == request'.status = "guarded" /\ request'.guards = Tail(q.guards) /\ LetThrough(q, request', h)
           Stop(h) == (request'.status = "refused" /\ Refusable(q, h)) \/ request'.status = "throttled"
<1>1. Shaped(q) /\ Shaped(p)
    BY PassedShaped DEF GatewayInv
<1>2. p = [q EXCEPT !.guards = Tail(q.guards)]
    BY DEF Passed
<1> HIDE DEF p
<1>3. /\ p.guards = Tail(q.guards) /\ Stays(q, p)
      /\ p.status = q.status /\ p.role = q.role /\ p.session = q.session
  <2>1. ASSUME NEW v, p = [q EXCEPT !.guards = v]
        PROVE  Stays(q, p) /\ p.status = q.status /\ p.guards = v /\ p.role = q.role /\ p.session = q.session
      BY <1>1, <2>1, GuardsOnly
  <2> QED  BY <2>1, <1>2, Zenon
<1>4. /\ Refused.status = "refused" /\ Stays(q, Refused)
      /\ [q EXCEPT !.status = "throttled"].status = "throttled" /\ Stays(q, [q EXCEPT !.status = "throttled"])
    BY <1>1, StatusOnly DEF Refused
<1>5. \A r : Stays(p, r) => Stays(q, r)
    BY <1>3 DEF Stays, Same
<1> SUFFICES \E h : Guard(h) /\ Stays(q, request') /\ (Pass(h) \/ Stop(h))
    BY DEF Guard
<1>6. CASE AuthMiddleware
  <2>1. Guard("auth") /\ request' = IF q.who \in Roles THEN [p EXCEPT !.role = q.who] ELSE Refused
      BY <1>6 DEF AuthMiddleware, p
  <2>2. ASSUME q.who \in Roles PROVE Stays(q, request') /\ Pass("auth")
    <3>1. request' = [p EXCEPT !.role = q.who] /\ q.status = "guarded"
        BY <2>1, <2>2 DEF Guard
    <3> QED  BY <3>1, <2>2, <1>1, <1>3, <1>5, RoleOnly DEF LetThrough
  <2>3. q.who \notin Roles => Stays(q, request') /\ Stop("auth")
      BY <2>1, <1>4 DEF Refusable
  <2> QED  BY <2>1, <2>2, <2>3
<1>7. CASE OptionalAuthMiddleware
  <2>1. Guard("optional") /\ request' = IF q.who \in Roles THEN [p EXCEPT !.role = q.who] ELSE p
      BY <1>7 DEF OptionalAuthMiddleware, p
  <2>2. q.status = "guarded" /\ (request' = [p EXCEPT !.role = q.who] \/ request' = p)
      BY <2>1, Zenon DEF Guard
  <2>3. Stays(q, request') /\ request'.status = "guarded" /\ request'.guards = Tail(q.guards)
      BY <2>2, <1>1, <1>3, <1>5, RoleOnly
  <2>4. Stays(q, request') /\ Pass("optional")
      BY <2>3 DEF LetThrough
  <2> QED  BY <2>1, <2>4
<1>8. CASE RoleMiddleware
  <2>1. PICK kind \in {"admin", "staff", "student"} :
          Guard(kind) /\ request' = IF q.role \in Allowed[kind] THEN p ELSE Refused
      BY <1>8 DEF RoleMiddleware, p, Allowed
  <2>2. q.role \in Allowed[kind] => Stays(q, request') /\ Pass(kind)
      BY <2>1, <1>3 DEF LetThrough, Guard
  <2>3. q.role \notin Allowed[kind] => Stays(q, request') /\ Stop(kind)
      BY <2>1, <1>4 DEF Refusable
  <2> QED  BY <2>1, <2>2, <2>3
<1>9. CASE TenantContext
  <2>1. Guard("tenant") /\ request' = IF q.role = "none" THEN Refused ELSE [p EXCEPT !.session = "tenant"]
      BY <1>9 DEF TenantContext, p
  <2>2. ASSUME q.role # "none" PROVE  Stays(q, request') /\ Pass("tenant")
    <3>1. request' = [p EXCEPT !.session = "tenant"] /\ q.status = "guarded"
        BY <2>1, <2>2 DEF Guard
    <3> QED  BY <3>1, <2>2, <1>1, <1>3, <1>5, SessionOnly DEF LetThrough
  <2>3. q.role = "none" => Stays(q, request') /\ Stop("tenant")
      BY <2>1, <1>4 DEF Refusable
  <2> QED  BY <2>1, <2>2, <2>3
<1>10. CASE SuperAdminContext
  <2>1. Guard("super") /\ request' = IF q.role = "super_admin" THEN [p EXCEPT !.session = "super"] ELSE Refused
      BY <1>10 DEF SuperAdminContext, p
  <2>2. ASSUME q.role = "super_admin" PROVE  Stays(q, request') /\ Pass("super")
    <3>1. request' = [p EXCEPT !.session = "super"] /\ q.status = "guarded"
        BY <2>1, <2>2 DEF Guard
    <3> QED  BY <3>1, <2>2, <1>1, <1>3, <1>5, SessionOnly DEF LetThrough
  <2>3. q.role # "super_admin" => Stays(q, request') /\ Stop("super")
      BY <2>1, <1>4 DEF Refusable
  <2> QED  BY <2>1, <2>2, <2>3
<1>11. CASE PublicLookupContext
  <2>1. Guard("lookup") /\ request' = [p EXCEPT !.session = "lookup"]
      BY <1>11 DEF PublicLookupContext, p
  <2>2. Stays(q, request') /\ Pass("lookup")
    <3>1. request' = [p EXCEPT !.session = "lookup"] /\ q.status = "guarded"
        BY <2>1 DEF Guard
    <3> QED  BY <3>1, <1>1, <1>3, <1>5, SessionOnly DEF LetThrough
  <2> QED  BY <2>1, <2>2
<1>12. CASE TenantRateLimit
  <2>1. Guard("rate") /\ request' \in {p, [q EXCEPT !.status = "throttled"]}
      BY <1>12 DEF TenantRateLimit, p
  <2>2. Stays(q, request') /\ (Pass("rate") \/ Stop("rate"))
      BY <2>1, <1>3, <1>4 DEF LetThrough, Guard
  <2> QED  BY <2>1, <2>2
<1>13. CASE Audit
  <2>1. Guard("audit") /\ request' = [p EXCEPT !.audited = TRUE]
      BY <1>13 DEF Audit, p
  <2>2. Stays(q, request') /\ Pass("audit")
    <3>1. request' = [p EXCEPT !.audited = TRUE] /\ q.status = "guarded"
        BY <2>1 DEF Guard
    <3> QED  BY <3>1, <1>1, <1>3, <1>5, AuditedOnly DEF LetThrough
  <2> QED  BY <2>1, <2>2
<1> QED  BY <1>6, <1>7, <1>8, <1>9, <1>10, <1>11, <1>12, <1>13

LEMMA NotTurnedAway ==
  ASSUME NEW q, NEW h, Checked(q), Aimed(q), ToPlatform(q), q.who = "super_admin", q.status = "guarded",
         q.guards # <<>>, h = Head(q.guards)
  PROVE  ~ Refusable(q, h)
<1> DEFINE g == Table[q.entry].guards
<1>1. /\ q.root = "admin" /\ Len(q.path) > 0 /\ q.path[1] = "platform"
      /\ q.role \in {"none", "super_admin"} /\ q.entry \in DOMAIN Table /\ Meets(q, q.entry) /\ Way(q, g, q.guards)
      /\ q.aim \in DOMAIN Table /\ q.entry <= q.aim /\ ~ Plain(Table[q.aim])
    BY DEF Checked, Aimed, ToPlatform, UnderWay
<1>2. Mild(Table[q.entry])
    BY <1>1, TableOrderly DEF Orderly
<1>3. PICK p \in Table[q.entry].paths : MatchesHere(p, q.path)
    BY <1>1, Zenon DEF Meets, Answers
<1>4. Table[q.entry].root = "admin"
    BY <1>1 DEF Meets, Answers
<1>5. g \in {Platform, NoGuards}
    BY <1>1, <1>2, <1>3, <1>4 DEF Mild, MatchesHere
<1> HIDE DEF g
<1>7. q.guards = Platform \/ (q.guards = <<"super">> /\ q.role # "none")
    BY <1>1, <1>5, GuardsDiffer, Zenon DEF Way
<1>8. h = "auth" \/ (h = "super" /\ q.role # "none")
    BY <1>7, Steps, GuardLists, Zenon
<1> QED  BY <1>1, <1>8 DEF Refusable, Roles

\* The inductive invariant.
DoorsInv == GatewayInv /\ Checked(request) /\ Aimed(request)

LEMMA GuardsKeep ==
  ASSUME DoorsInv,
         \/ AuthMiddleware \/ OptionalAuthMiddleware \/ RoleMiddleware \/ TenantContext
         \/ SuperAdminContext \/ PublicLookupContext \/ TenantRateLimit \/ Audit
  PROVE  Checked(request') /\ Aimed(request')
<1>1. PICK q : q = request
    OBVIOUS
<1>2. PICK r : r = request'
    OBVIOUS
<1>3. Shaped(q) /\ Checked(q) /\ Aimed(q) /\ q.who \in Callers
    BY <1>1 DEF DoorsInv, GatewayInv, Shaped
<1>4. PICK h : /\ q.status = "guarded" /\ q.guards # <<>> /\ h = Head(q.guards) /\ Stays(q, r)
               /\ \/ r.status = "guarded" /\ r.guards = Tail(q.guards) /\ LetThrough(q, r, h)
                  \/ r.status = "refused" /\ Refusable(q, h)
                  \/ r.status = "throttled"
    BY <1>1, <1>2, GuardMoves, Zenon DEF DoorsInv
<1>5. Same(q, r) /\ r.entry = q.entry
    BY <1>4 DEF Stays
<1>6. Checked(r)
  <2>1. CASE r.status = "guarded" /\ r.guards = Tail(q.guards) /\ LetThrough(q, r, h)
      BY <2>1, <1>3, <1>4, <1>5, GuardPassed
  <2>2. CASE r.status \in {"refused", "throttled"}
      BY <2>2 DEF Checked, UnderWay
  <2> QED  BY <2>1, <2>2, <1>4
<1>7. Aimed(r)
  <2> SUFFICES ASSUME ToPlatform(r) PROVE Aimed(r)
      BY DEF Aimed
  <2>1. ToPlatform(q)
      BY <1>5 DEF ToPlatform, Same
  <2>2. Meets(r, r.aim) <=> Meets(q, q.aim)
      BY <1>5 DEF Meets, Same
  <2>3. q.who = "super_admin" => ~ Refusable(q, h)
      BY <2>1, <1>3, <1>4, NotTurnedAway
  <2> QED  BY <2>1, <2>2, <2>3, <1>3, <1>4, <1>5 DEF Aimed, Same, UnderWay
<1> QED  BY <1>2, <1>6, <1>7

LEMMA WalkKeeps ==
  ASSUME DoorsInv, Walk
  PROVE  Checked(request') /\ Aimed(request')
<1>1. PICK q : q = request
    OBVIOUS
<1>2. PICK r : r = request'
    OBVIOUS
<1>3. Shaped(q) /\ Checked(q) /\ Aimed(q) /\ q.status = "walking"
    BY <1>1 DEF DoorsInv, GatewayInv, Walk
<1>4. PICK n : n = NextEntry(q.entry, q.verb, q.root, q.path)
    OBVIOUS
<1>5. r = IF n = 0 THEN [q EXCEPT !.status = "missing"]
          ELSE [q EXCEPT !.entry = n, !.guards = Table[n].guards, !.status = "guarded"]
    BY <1>1, <1>2, <1>4 DEF Walk
<1>6. CASE n = 0
  <2>1. Stays(q, r) /\ r.status = "missing"
      BY <1>3, <1>5, <1>6, StatusOnly
  <2> QED  BY <2>1, <1>3, <1>2 DEF Checked, Aimed, UnderWay, Stays, Same, ToPlatform, Meets
<1>7. CASE n # 0
  <2>1. /\ Same(q, r) /\ r.entry = n /\ r.guards = Table[n].guards /\ r.status = "guarded"
        /\ r.role = q.role /\ r.session = q.session
      BY <1>3, <1>5, <1>7 DEF Shaped, Fields, Same
  <2>2. \A i : Meets(r, i) <=> Meets(q, i)
      BY <2>1 DEF Same, Meets
  <2>3. CASE q.root = "admin"
    <3>1. q.entry \in Nat
        BY <1>3, <2>3, TableIsList DEF Checked, UnderWay
    <3>2. /\ n \in DOMAIN Table /\ n > q.entry /\ Meets(q, n)
          /\ \A j \in DOMAIN Table : j > q.entry /\ Meets(q, j) => n <= j
        BY <3>1, <1>4, <1>7, NextIsFirst DEF Meets
    <3>3. Table[n].root = "admin" /\ Table[n] \in RowsOf(Table)
        BY <3>2, <2>3 DEF Meets, Answers, RowsOf
    <3>4. Table[n].guards \in {Platform, Trading, Managing, NoGuards, <<"audit">>}
        BY <3>3, TableShielded DEF Shielded, Closed
    <3>5. Way(r, Table[n].guards, Table[n].guards)
        BY <3>4, GuardLists, Zenon DEF Way
    <3>6. /\ q.role \in {"none", q.who} /\ q.guards = <<>>
          /\ q.session \in {"none", Due(q)} \/ q.guards \in {<<"rate", "admin">>, <<"admin">>}
          /\ \A i \in DOMAIN Table : Meets(q, i) /\ i <= q.entry => Behind(q, i)
        BY <1>3, <2>3, <3>1, TableIsList DEF Checked, UnderWay
    <3>7. q.session \in {"none", Due(q)}
        BY <3>6, Differ, Zenon
    <3>8. \A i \in DOMAIN Table : Meets(r, i) /\ i < n => Behind(r, i)
      <4> SUFFICES ASSUME NEW i \in DOMAIN Table, Meets(q, i), i < n PROVE Behind(q, i)
          BY <2>1, <2>2 DEF Behind, Same
      <4>1. i <= q.entry
          BY <3>1, <3>2, TableIsList
      <4> QED  BY <4>1, <3>6
    <3>9. Checked(r)
      <4>1. r.role \in {"none", r.who} /\ r.session \in {"none", Due(r)} /\ r.guards = Table[r.entry].guards
          BY <2>1, <3>6, <3>7 DEF Due, Same
      <4>2. r.entry \in DOMAIN Table /\ Meets(r, r.entry) /\ r.entry # 0 /\ Way(r, Table[r.entry].guards, r.guards)
          BY <1>7, <2>1, <2>2, <3>2, <3>5
      <4> QED  BY <4>1, <4>2, <2>1, <3>8 DEF Checked
    <3>10. Aimed(r)
      <4> SUFFICES ASSUME ToPlatform(r) PROVE Aimed(r)
          BY DEF Aimed
      <4>1. ToPlatform(q)
          BY <2>1 DEF ToPlatform, Same
      <4>2. n <= q.aim
          BY <4>1, <1>3, <3>1, <3>2, TableIsList DEF Aimed, UnderWay
      <4> QED  BY <4>1, <4>2, <2>1, <2>2, <1>3 DEF Aimed, Same
    <3> QED  BY <3>9, <3>10, <1>2
  <2> QED  BY <2>1, <2>3, <1>2 DEF Checked, Aimed, ToPlatform, Same
<1> QED  BY <1>6, <1>7

LEMMA ThroughKeeps ==
  ASSUME DoorsInv, Through
  PROVE  Checked(request') /\ Aimed(request')
<1>1. PICK q : q = request
    OBVIOUS
<1>2. PICK r : r = request'
    OBVIOUS
<1>3. Shaped(q) /\ Checked(q) /\ Aimed(q) /\ q.status = "guarded" /\ q.guards = <<>>
  <2>1. /\ Shaped(request) /\ Checked(request) /\ Aimed(request)
        /\ request.status = "guarded" /\ request.guards = <<>>
      BY Zenon DEF DoorsInv, GatewayInv, Through
  <2> QED  BY <1>1, <2>1, Zenon
<1>4. PICK s : s = IF Table[q.entry].verb = "USE" THEN "walking" ELSE "handled"
    OBVIOUS
<1>5. r = [q EXCEPT !.status = s]
  <2>1. request' = [request EXCEPT !.status = IF Table[request.entry].verb = "USE" THEN "walking" ELSE "handled"]
      BY Zenon DEF Through
  <2> QED  BY <1>1, <1>2, <1>4, <2>1, Zenon
<1>6. Stays(q, r) /\ r.status = s /\ r.guards = <<>> /\ r.role = q.role /\ r.session = q.session
  <2>1. Shaped(q) /\ q.guards = <<>>
      BY <1>3
  <2> QED  BY <2>1, <1>5, StatusOnly
<1>7. Same(q, r) /\ r.entry = q.entry
    BY <1>6 DEF Stays
<1>8. \A i : (Meets(r, i) <=> Meets(q, i)) /\ (Behind(q, i) => Behind(r, i))
    BY <1>6, <1>7 DEF Same, Meets, Behind
<1>9. ASSUME q.root = "admin" PROVE Checked(r)
  <2>1. /\ q.role \in {"none", q.who}
        /\ q.session \in {"none", Due(q)} \/ q.guards \in {<<"rate", "admin">>, <<"admin">>}
        /\ \A i \in DOMAIN Table : Meets(q, i) /\ i < q.entry => Behind(q, i)
        /\ q.entry \in DOMAIN Table /\ q.entry # 0 /\ Meets(q, q.entry)
        /\ Way(q, Table[q.entry].guards, <<>>)
      BY <1>3, <1>9 DEF Checked, UnderWay
  <2>2. q.session \in {"none", Due(q)}
      BY <2>1, <1>3, Differ, Zenon
  <2>3. Behind(q, q.entry)
    <3>1. CASE Table[q.entry].guards \in {NoGuards, <<"audit">>}
      <4>1. Table[q.entry].guards \notin {Platform, Trading, Managing}
          BY <3>1, GuardsDiffer, Zenon
      <4> QED  BY <4>1 DEF Behind
    <3>2. CASE Table[q.entry].guards \notin {NoGuards, <<"audit">>}
        BY <3>2, <2>1, GuardLists, Zenon DEF Way
    <3> QED  BY <3>1, <3>2
  <2>4. \A i \in DOMAIN Table : Meets(r, i) /\ (i < r.entry \/ i = r.entry) => Behind(r, i)
      BY <2>1, <2>3, <1>7, <1>8
  <2>5. r.role \in {"none", r.who} /\ r.session \in {"none", Due(r)} /\ r.status # "guarded"
      BY <2>1, <2>2, <1>4, <1>6, <1>7 DEF Due, Same
  <2> QED  BY <2>1, <2>4, <2>5, <1>4, <1>6, <1>7, <1>8 DEF Checked
<1>10. Aimed(r)
  <2> SUFFICES ASSUME ToPlatform(r) PROVE Aimed(r)
      BY DEF Aimed
  <2>1. ToPlatform(q) /\ q.root = "admin"
      BY <1>7 DEF ToPlatform, Same
  <2>2. /\ q.aim \in DOMAIN Table /\ Table[q.aim].verb # "USE" /\ Meets(q, q.aim) /\ ~ Plain(Table[q.aim])
        /\ q.entry <= q.aim /\ q.entry \in DOMAIN Table
      BY <2>1, <1>3 DEF Aimed, Checked, UnderWay
  <2>3. s = "walking" => q.entry < q.aim
      BY <2>2, <1>4, TableIsList
  <2>4. s # "refused" /\ (s = "handled" \/ s = "walking")
      BY <1>4
  <2> QED  BY <2>2, <2>3, <2>4, <1>6, <1>7, <1>8 DEF Aimed, Same
<1> QED  BY <1>2, <1>7, <1>9, <1>10 DEF Checked, Same

LEMMA FreshKeeps ==
  ASSUME NEW who \in Callers, NEW verb, NEW root, NEW path, NEW aim, NEW r, r = Fresh(who, verb, root, path, aim)
  PROVE  /\ Checked(r)
         /\ ~ ToPlatform(r) => Aimed(r)
         /\ r.root = root /\ r.path = path /\ r.aim = aim /\ r.verb = verb /\ r.entry = 0 /\ r.status = "walking"
<1>1. /\ r.who = who /\ r.root = root /\ r.path = path /\ r.aim = aim /\ r.verb = verb /\ r.entry = 0
      /\ r.status = "walking" /\ r.guards = <<>> /\ r.role = "none" /\ r.session = "none"
    BY DEF Fresh
<1>2. \A i \in DOMAIN Table : ~ (i < 0 \/ i = 0)
    BY TableIsList
<1> QED  BY <1>1, <1>2 DEF Checked, Aimed

LEMMA ArrivesKeeps ==
  ASSUME NEW who \in Callers, Arrives(who)
  PROVE  Checked(request') /\ Aimed(request')
<1>1. PICK r : r = request'
    OBVIOUS
<1>2. CASE \E verb, path : r = Fresh(who, verb, "admin", path, 0)
    BY <1>1, <1>2, FreshKeeps DEF ToPlatform
<1>3. CASE \E i \in Routes : \E pattern \in Table[i].paths, id \in Ids :
             r = Fresh(who, Table[i].verb, Table[i].root, Filled(pattern, id), i)
  <2>1. PICK i \in Routes : \E p \in Table[i].paths, id \in Ids :
               r = Fresh(who, Table[i].verb, Table[i].root, Filled(p, id), i)
      BY <1>3
  <2>2. PICK p \in Table[i].paths, id \in Ids : r = Fresh(who, Table[i].verb, Table[i].root, Filled(p, id), i)
      BY <2>1
  <2>3. /\ Checked(r) /\ (~ ToPlatform(r) => Aimed(r))
        /\ r.root = Table[i].root /\ r.path = Filled(p, id) /\ r.aim = i /\ r.verb = Table[i].verb
        /\ r.entry = 0 /\ r.status = "walking"
      BY <2>2, FreshKeeps
  <2>4. ASSUME ToPlatform(r) PROVE Aimed(r)
    <3>1. i \in DOMAIN Table /\ Table[i].verb # "USE" /\ Table[i] \in RowsOf(Table) /\ Table[i].root = "admin"
        BY <2>3, <2>4 DEF Routes, RowsOf, ToPlatform
    <3>2. Len(p) \in Nat /\ Len(p) > 0 /\ DOMAIN p = 1 .. Len(p) /\ p[1] # ":"
      <4>1. Closed(Table[i])
          BY <3>1, TableShielded DEF Shielded
      <4>2. \A x \in Table[i].paths : Len(x) \in Nat /\ Len(x) > 0 /\ DOMAIN x = 1 .. Len(x) /\ x[1] # ":"
          BY <3>1, <4>1, Zenon DEF Closed
      <4> QED  BY <4>2, Zenon
    <3>3. Len(r.path) = Len(p) /\ MatchesHere(p, r.path) /\ r.path[1] = p[1]
        BY <3>2, <2>3, FilledMatches
    <3>4. p[1] = "platform"
        BY <3>3, <2>4 DEF ToPlatform
    <3>5. ~ Plain(Table[i])
        BY <3>1, <3>4 DEF Plain
    <3>6. Meets(r, i)
        BY <3>1, <3>3, <2>3 DEF Meets, Answers
    <3>7. 0 < i /\ 0 <= i
        BY <3>1, TableIsList
    <3> QED  BY <3>1, <3>5, <3>6, <3>7, <2>3 DEF Aimed
  <2> QED  BY <1>1, <2>3, <2>4
<1> QED  BY <1>1, <1>2, <1>3, Zenon DEF Arrives

LEMMA IdleKept == Checked(NoRequest) /\ Aimed(NoRequest) /\ NoRequest.root = "none"
<1> DEFINE f == Fresh("none", "GET", "none", <<>>, 0)
<1>1. Shaped(f) /\ f.root = "none"
    BY FreshShaped DEF Callers, Fresh
<1>2. NoRequest = [f EXCEPT !.status = "idle"]
    BY DEF NoRequest
<1> HIDE DEF f
<1>3. NoRequest.root = "none"
    BY <1>1, <1>2, StatusOnly DEF Stays, Same
<1> QED  BY <1>3 DEF Checked, Aimed, ToPlatform

LEMMA ReturnsKeep ==
  ASSUME DoorsInv, AuditReturns \/ Answer
  PROVE  Checked(request') /\ Aimed(request')
<1>1. CASE Answer
    BY <1>1, IdleKept DEF Answer
<1>2. CASE AuditReturns
  <2>1. PICK q : q = request
      OBVIOUS
  <2>2. PICK r : r = request'
      OBVIOUS
  <2>3. Shaped(q) /\ Checked(q) /\ Aimed(q) /\ q.status \in {"missing", "handled"} /\ r = [q EXCEPT !.audited = FALSE]
      BY <2>1, <2>2, <1>2 DEF DoorsInv, GatewayInv, AuditReturns
  <2>4. Stays(q, r) /\ r.status = q.status /\ r.guards = q.guards /\ r.role = q.role /\ r.session = q.session
      BY <2>3, AuditedOnly
  <2>5. \A i : (Meets(r, i) <=> Meets(q, i)) /\ (Behind(q, i) => Behind(r, i))
      BY <2>4 DEF Stays, Same, Meets, Behind
  <2>6. Checked(r)
      BY <2>3, <2>4, <2>5 DEF Checked, Stays, Same, Due, UnderWay
  <2>7. Aimed(r)
      BY <2>3, <2>4, <2>5 DEF Aimed, ToPlatform, Stays, Same, UnderWay
  <2> QED  BY <2>2, <2>6, <2>7
<1> QED  BY <1>1, <1>2

LEMMA DoorsStart == GatewayInit => DoorsInv
BY GatewayStart, IdleKept DEF GatewayInit, DoorsInv

LEMMA DoorsStep == DoorsInv /\ [GatewayNext]_gatewayVars => DoorsInv'
<1> SUFFICES ASSUME DoorsInv, [GatewayNext]_gatewayVars PROVE DoorsInv'
    OBVIOUS
<1>1. GatewayInv'
    BY GatewayStep DEF DoorsInv
<1>2. Checked(request') /\ Aimed(request')
  <2>1. CASE UNCHANGED gatewayVars
      BY <2>1 DEF DoorsInv, gatewayVars
  <2> QED  BY <2>1, ArrivesKeeps, WalkKeeps, ThroughKeeps, GuardsKeep, ReturnsKeep DEF GatewayNext
<1> QED  BY <1>1, <1>2 DEF DoorsInv

LEMMA HandledBehindDoor ==
  ASSUME NEW q, Checked(q), q.status = "handled", q.root = "admin"
  PROVE  \E i \in DOMAIN Table : Behind(q, i) /\ Len(q.path) > 0 /\ Table[i].guards \in DoorsFor(q.path[1])
<1> DEFINE e == Table[q.entry]
<1>1. /\ q.entry \in DOMAIN Table /\ Meets(q, q.entry) /\ e.verb # "USE"
      /\ \A i \in DOMAIN Table : Meets(q, i) /\ i <= q.entry => Behind(q, i)
  <2>1. /\ q.entry \in DOMAIN Table /\ Meets(q, q.entry) /\ e.verb # "USE"
        /\ \A i \in DOMAIN Table : Meets(q, i) /\ (i < q.entry \/ i = q.entry) => Behind(q, i)
      BY DEF Checked, UnderWay
  <2> QED  BY <2>1, TableIsList
<1>2. PICK p \in e.paths : Len(p) = Len(q.path) /\ MatchesHere(p, q.path)
    BY <1>1, Zenon DEF Meets, Answers
<1>3. e.root = "admin" /\ e \in RowsOf(Table)
    BY <1>1 DEF Meets, Answers, RowsOf
<1>4. /\ Len(p) \in Nat /\ Len(p) > 0 /\ DOMAIN p = 1 .. Len(p) /\ p[1] # ":"
      /\ e.guards = NoGuards \/ e.guards \in DoorsFor(p[1])
  <2>1. Closed(e)
      BY <1>3, TableShielded DEF Shielded
  <2>2. \A x \in e.paths : /\ Len(x) \in Nat /\ Len(x) > 0 /\ DOMAIN x = 1 .. Len(x) /\ x[1] # ":"
                           /\ e.guards = NoGuards \/ e.guards \in DoorsFor(x[1])
      BY <1>1, <2>1, Zenon DEF Closed
  <2> QED  BY <1>2, <2>2, Zenon
<1>5. p[1] = q.path[1] /\ Len(q.path) > 0
    BY <1>2, <1>4 DEF MatchesHere
<1>6. CASE e.guards \in DoorsFor(p[1])
    BY <1>1, <1>5, <1>6, TableIsList
<1>7. CASE e.guards = NoGuards
  <2>1. PICK j \in DOMAIN Table : j < q.entry /\ Houses(Table[j], p[1])
      BY <1>1, <1>2, <1>3, <1>7, TableShielded DEF Shielded
  <2>2. Meets(q, j)
    <3>1. Table[j].verb = "USE" /\ Table[j].root = q.root /\ Table[j].paths \in {{<<>>}, {<<p[1]>>}}
        BY <2>1 DEF Houses
    <3>2. Len(<<>>) <= Len(q.path) /\ MatchesHere(<<>>, q.path)
        BY <1>2, <1>4 DEF MatchesHere
    <3>3. Len(<<p[1]>>) <= Len(q.path) /\ MatchesHere(<<p[1]>>, q.path)
        BY <1>2, <1>4, <1>5 DEF MatchesHere
    <3> QED  BY <3>1, <3>2, <3>3 DEF Meets, Answers
  <2>3. j <= q.entry
      BY <2>1, <1>1, TableIsList
  <2> QED  BY <2>1, <2>2, <2>3, <1>1, <1>5 DEF Houses
<1> QED  BY <1>4, <1>6, <1>7

LEMMA DoorsImply == DoorsInv => AdminDoors
<1> SUFFICES ASSUME DoorsInv PROVE AdminDoors
    OBVIOUS
<1>1. ASSUME request.status = "handled", InAdmin
      PROVE  \/ request.who = "admin" /\ request.session = "tenant" /\ ~ Below("platform") /\ ~ Below("cms")
             \/ request.who = "super_admin" /\ request.session = "super"
  <2>1. PICK i \in DOMAIN Table : /\ Behind(request, i) /\ Len(request.path) > 0
                                  /\ Table[i].guards \in DoorsFor(request.path[1])
      BY <1>1, HandledBehindDoor DEF DoorsInv, InAdmin
  <2>2. request.session \in {"none", Due(request)}
    <3>1. request.session \in {"none", Due(request)} \/ request.guards \in {<<"rate", "admin">>, <<"admin">>}
        BY <1>1 DEF DoorsInv, Checked, UnderWay, InAdmin
    <3>2. request.guards = <<>>
        BY <1>1 DEF DoorsInv, Checked, UnderWay, InAdmin
    <3> QED  BY <3>1, <3>2, Differ, Zenon
  <2>3. CASE Table[i].guards = Platform
      BY <2>1, <2>2, <2>3 DEF Behind, Due
  <2>4. CASE Table[i].guards # Platform
      BY <2>1, <2>2, <2>4 DEF Behind, Due, DoorsFor, Below
  <2> QED  BY <2>3, <2>4
<1>2. request.who = "super_admin" /\ request.aim # 0 /\ Below("platform") => request.status # "refused"
    BY DEF DoorsInv, Aimed, ToPlatform, Below, InAdmin
<1> QED  BY <1>1, <1>2 DEF AdminDoors

\* Whoever reaches a handler below /admin is staff of the tenant or of the platform, as the route
\* asks for, with the session that goes with it, and no group turns platform staff away from their
\* desk, whatever clients write for the parameters of a route and below /admin besides routes.
THEOREM DoorsAlwaysKept == GatewaySpec => []AdminDoors
<1>1. GatewaySpec => []DoorsInv
    BY DoorsStart, DoorsStep, PTL DEF GatewaySpec
<1> QED  BY <1>1, DoorsImply, PTL

-----------------------------------------------------------------------------
(* The composition that the run checks *)

\* The steps of one module are steps of its own specification, and stutter for the others.
LEMMA SubscriptionPart == Spec => SubscriptionSpec
<1>1. Init => SubscriptionInit
    BY DEF Init
<1>2. [Next]_campusVars => [SubscriptionNext]_subscriptionVars
    BY Zenon DEF Next, campusVars
<1> QED  BY <1>1, <1>2, PTL DEF Spec, SubscriptionSpec

LEMMA ReferralPart == Spec => ReferralSpec
<1>1. Init => ReferralInit
    BY DEF Init
<1>2. [Next]_campusVars => [ReferralNext]_referralVars
    BY Zenon DEF Next, campusVars
<1> QED  BY <1>1, <1>2, PTL DEF Spec, ReferralSpec

LEMMA AttemptPart == Spec => AttemptSpec
<1>1. Init => AttemptInit
    BY DEF Init
<1>2. [Next]_campusVars => [AttemptNext]_attemptVars
    BY Zenon DEF Next, campusVars
<1> QED  BY <1>1, <1>2, PTL DEF Spec, AttemptSpec

LEMMA FeePart == Spec => FeeSpec
<1>1. Init => FeeInit
    BY DEF Init
<1>2. [Next]_campusVars => [FeeNext]_feeVars
    BY Zenon DEF Next, campusVars
<1> QED  BY <1>1, <1>2, PTL DEF Spec, FeeSpec

LEMMA AttendancePart == Spec => AttendanceSpec
<1>1. Init => AttendanceInit
    BY DEF Init
<1>2. [Next]_campusVars => [AttendanceNext]_attendanceVars
    BY Zenon DEF Next, campusVars
<1> QED  BY <1>1, <1>2, PTL DEF Spec, AttendanceSpec

LEMMA HomeworkPart == Spec => HomeworkSpec
<1>1. Init => HomeworkInit
    BY DEF Init
<1>2. [Next]_campusVars => [HomeworkNext]_homeworkVars
    BY Zenon DEF Next, campusVars
<1> QED  BY <1>1, <1>2, PTL DEF Spec, HomeworkSpec

LEMMA DevicePart == Spec => DeviceSpec
<1>1. Init => DeviceInit
    BY DEF Init
<1>2. [Next]_campusVars => [DeviceNext]_deviceVars
    BY Zenon DEF Next, campusVars
<1> QED  BY <1>1, <1>2, PTL DEF Spec, DeviceSpec

LEMMA EnrolmentPart == Spec => EnrolmentSpec
<1>1. Init => EnrolmentInit
    BY DEF Init
<1>2. [Next]_campusVars => [EnrolmentNext]_enrolmentVars
    BY Zenon DEF Next, campusVars
<1> QED  BY <1>1, <1>2, PTL DEF Spec, EnrolmentSpec

LEMMA CurriculumPart == Spec => CurriculumSpec
<1>1. Init => CurriculumInit
    BY DEF Init
<1>2. [Next]_campusVars => [CurriculumNext]_curriculumVars
    BY Zenon DEF Next, campusVars
<1> QED  BY <1>1, <1>2, PTL DEF Spec, CurriculumSpec

LEMMA MediaPart == Spec => MediaSpec
<1>1. Init => MediaInit
    BY DEF Init
<1>2. [Next]_campusVars => [MediaNext]_mediaVars
    BY Zenon DEF Next, campusVars
<1> QED  BY <1>1, <1>2, PTL DEF Spec, MediaSpec

LEMMA GatewayPart == Spec => GatewaySpec
<1>1. Init => GatewayInit
    BY DEF Init
<1>2. [Next]_campusVars => [GatewayNext]_gatewayVars
    BY Zenon DEF Next, campusVars
<1> QED  BY <1>1, <1>2, PTL DEF Spec, GatewaySpec

LEMMA NoticePart == Spec => NoticeSpec
<1>1. Init => NoticeInit
    BY DEF Init
<1>2. [Next]_campusVars => [NoticeNext]_noticeVars
    BY Zenon DEF Next, campusVars
<1> QED  BY <1>1, <1>2, PTL DEF Spec, NoticeSpec

LEMMA ShowcasePart == Spec => ShowcaseSpec
<1>1. Init => ShowcaseInit
    BY DEF Init
<1>2. [Next]_campusVars => [ShowcaseNext]_showcaseVars
    BY Zenon DEF Next, campusVars
<1> QED  BY <1>1, <1>2, PTL DEF Spec, ShowcaseSpec

LEMMA CouponPart == Spec => CouponSpec
<1>1. Init => CouponInit
    BY DEF Init
<1>2. [Next]_campusVars => [CouponNext]_couponVars
    BY Zenon DEF Next, campusVars
<1> QED  BY <1>1, <1>2, PTL DEF Spec, CouponSpec

LEMMA BuildPart == Spec => BuildSpec
<1>1. Init => BuildInit
    BY DEF Init
<1>2. [Next]_campusVars => [BuildNext]_buildVars
    BY Zenon DEF Next, campusVars
<1> QED  BY <1>1, <1>2, PTL DEF Spec, BuildSpec

\* Whichever module is on the scene, its type invariant holds.
THEOREM CampusTyped == Spec => []TypeOK
<1>1. /\ SubscriptionInv => SubscriptionTypeOK
      /\ ReferralsInv => ReferralTypeOK
      /\ AttemptInv => AttemptTypeOK
      /\ FeeInv => FeeTypeOK
      /\ AttendanceInv => AttendanceTypeOK
      /\ HomeworkInv => HomeworkTypeOK
      /\ DevicesInv => DeviceTypeOK
      /\ EnrolmentsInv => EnrolmentTypeOK
      /\ CurriculumInv => CurriculumTypeOK
      /\ MediaInv => MediaTypeOK
      /\ GatewayInv => GatewayTypeOK
      /\ NoticeInv => NoticeTypeOK
      /\ ShowcaseInv => ShowcaseTypeOK
      /\ CouponsInv => CouponTypeOK
      /\ BuildsInv => BuildTypeOK
    BY GatewayTyped, CouponsInvTypes
       DEF SubscriptionInv, ReferralsInv, AttemptInv, FeeInv, AttendanceInv, HomeworkInv, DevicesInv,
           EnrolmentsInv, CurriculumInv, MediaInv, NoticeInv, ShowcaseInv, BuildsInv
<1>2. /\ SubscriptionTypeOK /\ ReferralTypeOK /\ AttemptTypeOK /\ FeeTypeOK
      /\ AttendanceTypeOK /\ HomeworkTypeOK /\ DeviceTypeOK /\ EnrolmentTypeOK
      /\ CurriculumTypeOK /\ MediaTypeOK /\ GatewayTypeOK /\ NoticeTypeOK
      /\ ShowcaseTypeOK /\ CouponTypeOK /\ BuildTypeOK
      => TypeOK
    BY Zenon DEF TypeOK
<1> QED
    BY <1>1, <1>2, SubscriptionPart, ReferralPart, AttemptPart, FeePart, AttendancePart, HomeworkPart,
       DevicePart, EnrolmentPart, CurriculumPart, MediaPart, GatewayPart, NoticePart,
       ShowcasePart, CouponPart, BuildPart, SubscriptionInvariant, ReferralsInvariant,
       AttemptInvariant, FeeInvariant, AttendanceInvariant, HomeworkInvariant, DevicesInvariant,
       EnrolmentsInvariant, CurriculumInvariant, MediaInvariant, GatewayInvariant,
       NoticeInvariant, ShowcaseInvariant, CouponsInvariant, BuildsInvariant, PTL

\* What the run checks of the composition, for every value of the constants, and that quotes never
\* owe the student money: what each module promises it also promises beside the others.
THEOREM CampusKeepsItsWord ==
  Spec => [](/\ AccessIsPaidFor /\ UsesCountEvents /\ ResultIsOfAnswers /\ NoCreditLost
             /\ NothingSlipsOffTheDesk /\ DevicesBounded /\ NobodyUncounted /\ ProgressIsFurthest
             /\ RowsHaveFiles /\ AdminDoors /\ NoticesStayHome /\ SwitchesHold /\ QuotesNeverPay
             /\ PublishedIsBuilt /\ EvidenceStays)
BY SubscriptionPart, ReferralPart, AttemptPart, FeePart, HomeworkPart, DevicePart, EnrolmentPart, CurriculumPart,
   MediaPart, GatewayPart, NoticePart, AttendancePart, ShowcasePart, CouponPart, BuildPart,
   AccessAlwaysPaidFor, UsesAlwaysCountEvents, ResultsAlwaysOfAnswers,
   NoCreditEverLost, NothingEverSlips, DevicesAlwaysBounded, NobodyEverUncounted, ProgressAlwaysFurthest,
   RowsAlwaysHaveFiles, DoorsAlwaysKept, NoticesAlwaysStayHome, EvidenceAlwaysStays, SwitchesAlwaysHold, QuotesNeverEverPay,
   PublishedAlwaysBuilt, PTL
=============================================================================
