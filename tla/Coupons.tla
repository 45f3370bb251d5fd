------------------------------ MODULE Coupons ------------------------------
(***************************************************************************)
(* Discount codes: admins make, switch and delete them, and a student's    *)
(* checkout asks what a code is worth before it pays.  Nothing of what an  *)
(* admin or a checkout sends is validated, and a quote is put together     *)
(* from several reads.  Redeem is called by nobody: used_count stays 0 and *)
(* there are no redemptions.                                               *)
(***************************************************************************)
EXTENDS Integers, FiniteSets, FiniteSetsExt

CONSTANTS
  Codes,      \* ids of coupons
  Discounts,  \* sizes of discount_value, which may be of either sign
  Caps,       \* max_discount
  Minima,     \* sizes of min_amount, likewise
  Amounts,    \* sizes of amount_paise, which may be of either sign
  Goods,      \* courses
  Quoting     \* calls of Apply in flight at one time

ASSUME CouponAssumptions ==
  Discounts \subseteq Nat /\ Caps \subseteq Nat /\ Minima \subseteq Nat /\ Amounts \subseteq Nat

VARIABLES
  coupons,   \* rows of coupons
  attached,  \* rows of coupon_courses, per coupon
  toAttach,  \* the courses CreateCoupon has still to attach
  quoting    \* each call of Apply: where it is, what it was asked, what it has worked out

couponVars == <<coupons, attached, toAttach, quoting>>

OfEitherSign(sizes) == sizes \cup {-n : n \in sizes}
Uncapped == -1
Scopes == {"all", "course", "subscription"}
NoGood == "none"
Phases == {"early", "on", "over"}   \* of the window from starts_at to ends_at
NoCoupon == [state |-> "none"]
Deleted == [state |-> "gone"]
Coupon ==
  [state : {"there"},
   upper : BOOLEAN,   \* the code as stored is in capitals
   kind : {"percent", "flat"}, value : OfEitherSign(Discounts), cap : Caps \cup {Uncapped},
   scope : Scopes, least : OfEitherSign(Minima),
   spent : BOOLEAN,   \* usage_limit is there and not above used_count, which is 0
   phase : Phases, active : BOOLEAN]
NotQuoting == [at |-> "idle", coupon |-> "none", amount |-> 0, good |-> NoGood, off |-> 0]

CouponTypeOK ==
  /\ coupons \in [Codes -> Coupon \cup {NoCoupon, Deleted}]
  /\ attached \in [Codes -> SUBSET Goods] /\ toAttach \in [Codes -> SUBSET Goods]
  /\ \A r \in Quoting :
       /\ quoting[r].at \in {"idle", "courses", "prior", "quoted"}
       /\ quoting[r].coupon \in Codes \cup {"none"} /\ quoting[r].good \in Goods \cup {NoGood}
       /\ quoting[r].amount \in OfEitherSign(Amounts) \cup {0} /\ quoting[r].off \in Int

CouponInit ==
  /\ coupons = [c \in Codes |-> NoCoupon]
  /\ attached = [c \in Codes |-> {}] /\ toAttach = [c \in Codes |-> {}]
  /\ quoting = [r \in Quoting |-> NotQuoting]

-----------------------------------------------------------------------------
(* What admins do *)

Stored(c) == coupons[c].state = "there"

\* The code is stored as it comes.
CreateCoupon(c, row, goods) ==
  /\ coupons[c] = NoCoupon
  /\ coupons' = [coupons EXCEPT ![c] = row] /\ toAttach' = [toAttach EXCEPT ![c] = goods]
  /\ UNCHANGED <<attached, quoting>>
\* A course that cannot be attached is passed over.
AttachCouponToCourse(c, g) ==
  /\ g \in toAttach[c]
  /\ toAttach' = [toAttach EXCEPT ![c] = @ \ {g}]
  /\ \/ Stored(c) /\ attached' = [attached EXCEPT ![c] = @ \cup {g}]
     \/ UNCHANGED attached
  /\ UNCHANGED <<coupons, quoting>>
SetCouponActive(c, active) ==
  /\ Stored(c)
  /\ coupons' = [coupons EXCEPT ![c].active = active]
  /\ UNCHANGED <<attached, toAttach, quoting>>
DeleteCoupon(c) ==
  /\ Stored(c)
  /\ coupons' = [coupons EXCEPT ![c] = Deleted] /\ attached' = [attached EXCEPT ![c] = {}]
  /\ UNCHANGED <<toAttach, quoting>>
WindowMoves(c) ==
  /\ Stored(c) /\ coupons[c].phase # "over"
  /\ coupons' = [coupons EXCEPT ![c].phase = IF @ = "early" THEN "on" ELSE "over"]
  /\ UNCHANGED <<attached, toAttach, quoting>>

\* Of a coupon that is not for courses no course is looked at.
AdminCreate ==
  \E c \in Codes, row \in Coupon, goods \in SUBSET Goods :
    row.active /\ (row.scope # "course" => goods = {}) /\ CreateCoupon(c, row, goods)
AdminSetActive == \E c \in Codes, active \in BOOLEAN : SetCouponActive(c, active)
AdminDelete == \E c \in Codes : DeleteCoupon(c)

-----------------------------------------------------------------------------
(* What a code is worth *)

\* The quotient of the machine: towards zero.
Hundredth(n) == IF n >= 0 THEN n \div 100 ELSE -((-n) \div 100)
Capped(row, off) == IF row.cap # Uncapped THEN Min({off, row.cap}) ELSE off
Discount(row, amount) ==
  IF row.kind = "percent" THEN Capped(row, Hundredth(amount * row.value)) ELSE row.value
\* Mutant of AmountOff: the discount is not held to the amount.
AnyDiscount(row, amount) == Discount(row, amount)
AmountOff(row, amount) == Min({Discount(row, amount), amount})

\* The code asked for is put in capitals, so only codes stored in capitals are found.
GetCouponByCode(c) == Stored(c) /\ coupons[c].upper /\ coupons[c].active
Usable(row, amount) == row.phase = "on" /\ amount >= row.least /\ ~row.spent

Apply(r, c, amount, good, subscription) ==
  /\ quoting[r].at \in {"idle", "quoted"}
  /\ GetCouponByCode(c) /\ Usable(coupons[c], amount)
  /\ coupons[c].scope = "course" => good # NoGood
  /\ coupons[c].scope = "subscription" => subscription
  /\ quoting' = [quoting EXCEPT ![r] =
       [at |-> IF coupons[c].scope = "course" THEN "courses" ELSE "prior",
        coupon |-> c, amount |-> amount, good |-> good, off |-> AmountOff(coupons[c], amount)]]
  /\ UNCHANGED <<coupons, attached, toAttach>>
\* The courses are read later than the row; none are found of a coupon deleted meanwhile.
ListCouponCourses(r) ==
  /\ quoting[r].at = "courses"
  /\ quoting' = [quoting EXCEPT ![r] =
       IF quoting[r].good \in attached[quoting[r].coupon] THEN [@ EXCEPT !.at = "prior"] ELSE NotQuoting]
  /\ UNCHANGED <<coupons, attached, toAttach>>
\* There are no redemptions to count: the quote is given.
CountCouponRedemptionsByUser(r) ==
  /\ quoting[r].at = "prior"
  /\ quoting' = [quoting EXCEPT ![r].at = "quoted"]
  /\ UNCHANGED <<coupons, attached, toAttach>>

HandleApply ==
  \E r \in Quoting, c \in Codes, amount \in OfEitherSign(Amounts), good \in Goods \cup {NoGood}, subscription \in BOOLEAN :
    Apply(r, c, amount, good, subscription)

CouponNext ==
  \/ AdminCreate \/ AdminSetActive \/ AdminDelete \/ HandleApply
  \/ \E c \in Codes : WindowMoves(c) \/ \E g \in Goods : AttachCouponToCourse(c, g)
  \/ \E r \in Quoting : ListCouponCourses(r) \/ CountCouponRedemptionsByUser(r)

CouponSpec == CouponInit /\ [][CouponNext]_couponVars

-----------------------------------------------------------------------------
\* Whatever was stored and whatever was asked, the student is not owed money: the final amount of
\* a quote is never below zero (coupons/service.go:179-198).
QuotesNeverPay == \A r \in Quoting : quoting[r].at = "quoted" => quoting[r].amount - quoting[r].off >= 0
=============================================================================
