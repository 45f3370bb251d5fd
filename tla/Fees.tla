-------------------------------- MODULE Fees --------------------------------
(***************************************************************************)
(* Fees that an admin assigns to a student, in installments, and their     *)
(* payment.  Amounts are paise: columns are NUMERIC(10,2), and a share of  *)
(* a total is rounded when it is stored.  Assigning and verifying are      *)
(* statements one after the other in no transaction; the verifications of  *)
(* two installments, and of one installment sent twice, overlap.           *)
(***************************************************************************)
EXTENDS Integers, Sequences, FiniteSets, Functions

CONSTANTS
  FeeCalls,      \* requests in flight at one time
  FeeTotals,     \* totals an admin enters, in paise
  FeeCounts,     \* numbers of installments an admin enters, 0 when left out
  MaxPaid,       \* bound of the run: a fee credited with as much is not verified again
  MaxGlitches    \* bound of the run: statements that fail, and crashes

ASSUME FeeAssumptions ==
  /\ IsFiniteSet(FeeCalls) /\ FeeTotals \subseteq Nat \ {0} /\ FeeCounts \subseteq Nat
  /\ MaxPaid \in Nat /\ MaxGlitches \in Nat

VARIABLES
  structures,    \* rows of fee_structures: a price list that Assign does not look at
  fee,           \* the row of student_fees
  installments,  \* rows of fee_installments by their number
  order,         \* an order of an earlier release: its row of payments, and whether it is paid
  strays,        \* external: installments with an order at Razorpay that no row knows
  feeCall,       \* where each request is
  lost           \* glitches, and the paise a glitch kept from the fee

feeVars == <<structures, fee, installments, order, strays, feeCall, lost>>

NoFee == [total |-> 0, paid |-> 0, status |-> "none"]
NoFeeCall == [at |-> "idle", number |-> 0, count |-> 0]
NoOrder == [pay |-> "none", paid |-> FALSE]

FeeTypeOK ==
  /\ structures \subseteq [total : FeeTotals, count : Nat \ {0}]
  /\ fee \in [total : FeeTotals \cup {0}, paid : Nat, status : {"none", "pending", "partial", "paid"}]
  /\ installments \in Seq([amount : Nat, paid : BOOLEAN])
  /\ order \in [pay : {"none", "created", "captured"}, paid : BOOLEAN]
  /\ strays \subseteq Nat
  /\ feeCall \in [FeeCalls -> [at : {"idle", "divide", "capture", "mark", "credit"}, number : Nat, count : Nat]]
  /\ lost \in [glitches : 0 .. MaxGlitches, paise : Nat]

\* A share of a total, as NUMERIC(10,2) rounds it.
Share(total, n) == (2 * total + n) \div (2 * n)
AtLeastOne(n) == IF n < 1 THEN 1 ELSE n

\* Checkouts of a release before payments had a tenant left orders that can be paid.
FeeInit ==
  /\ structures = {} /\ strays = {}
  /\ \/ fee = NoFee /\ installments = << >> /\ order = NoOrder
     \/ \E t \in FeeTotals, n \in FeeCounts :
          /\ fee = [total |-> t, paid |-> 0, status |-> "pending"]
          /\ installments = [i \in 1 .. AtLeastOne(n) |-> [amount |-> Share(t, AtLeastOne(n)), paid |-> FALSE]]
          /\ order = [pay |-> "created", paid |-> FALSE]
  /\ feeCall = [c \in FeeCalls |-> NoFeeCall]
  /\ lost = [glitches |-> 0, paise |-> 0]

-----------------------------------------------------------------------------
FeeStep(c, pc) == feeCall' = [feeCall EXCEPT ![c].at = pc]
FeeAnswer(c) == feeCall' = [feeCall EXCEPT ![c] = NoFeeCall]

\* POST /fees/structures
CreateStructure(t, n) ==
  /\ structures' = structures \cup {[total |-> t, count |-> AtLeastOne(n)]}
  /\ UNCHANGED <<fee, installments, order, strays, feeCall, lost>>

\* POST /fees/assign: the fee, and then its installments one by one.
AssignFee(c, t, n) ==
  /\ feeCall[c].at = "idle" /\ fee = NoFee
  /\ fee' = [total |-> t, paid |-> 0, status |-> "pending"]
  /\ feeCall' = [feeCall EXCEPT ![c] = [at |-> "divide", number |-> 1, count |-> AtLeastOne(n)]]
  /\ UNCHANGED <<structures, installments, order, strays, lost>>

CreateFeeInstallment(c) ==
  /\ feeCall[c].at = "divide"
  /\ installments' = Append(installments, [amount |-> Share(fee.total, feeCall[c].count), paid |-> FALSE])
  /\ feeCall' = [feeCall EXCEPT ![c] = IF @.number = @.count THEN NoFeeCall ELSE [@ EXCEPT !.number = feeCall[c].number + 1]]
  /\ UNCHANGED <<structures, fee, order, strays, lost>>

\* POST /fees/installments/pay: the order is made at Razorpay, and then CreatePayment, which
\* gives the row no tenant, is refused by payments.tenant_id NOT NULL.
StartInstallmentCheckout(i) ==
  /\ ~installments[i].paid
  /\ strays' = strays \cup {i}
  /\ UNCHANGED <<structures, fee, installments, order, feeCall, lost>>

\* External: the student pays the order.
PayOrder ==
  /\ order.pay # "none" /\ order' = [order EXCEPT !.paid = TRUE]
  /\ UNCHANGED <<structures, fee, installments, strays, feeCall, lost>>

\* POST /fees/installments/verify: a signature of the order, and the number of an installment.
VerifyInstallment(c, i) ==
  /\ feeCall[c].at = "idle" /\ order.paid
  /\ fee.paid < MaxPaid
  /\ feeCall' = [feeCall EXCEPT ![c] = [NoFeeCall EXCEPT !.at = "capture", !.number = i]]
  /\ UNCHANGED <<structures, fee, installments, order, strays, lost>>

VerifyInstallmentPayment(c) ==
  /\ feeCall[c].at = "capture"
  /\ order' = [order EXCEPT !.pay = "captured"]
  /\ FeeStep(c, "mark")
  /\ UNCHANGED <<structures, fee, installments, strays, lost>>

\* The status is not looked at: an installment is paid as often as this is called.
MarkInstallmentPaid(c) ==
  /\ feeCall[c].at = "mark"
  /\ installments' = [installments EXCEPT ![feeCall[c].number].paid = TRUE]
  /\ FeeStep(c, "credit")
  /\ UNCHANGED <<structures, fee, order, strays, lost>>

\* Mutant of Credited: the share of the total anew, and not what the installment says.
ShareOfTotal(i) == fee.total \div Len(installments)
Credited(i) == installments[i].amount

\* One statement adds to paid_amount and derives the status from the sum.
UpdateFeePaidAmount(c) ==
  /\ feeCall[c].at = "credit"
  /\ LET sum == fee.paid + Credited(feeCall[c].number) IN
       fee' = [fee EXCEPT !.paid = sum,
                 !.status = IF sum >= fee.total THEN "paid" ELSE IF sum > 0 THEN "partial" ELSE fee.status]
  /\ FeeAnswer(c)
  /\ UNCHANGED <<structures, installments, order, strays, lost>>

\* A statement fails, or the server stops: the request ends where it is.
FeeGlitch(c) ==
  /\ feeCall[c].at # "idle" /\ lost.glitches < MaxGlitches
  /\ lost' = [glitches |-> lost.glitches + 1,
              paise |-> lost.paise + IF feeCall[c].at = "credit" THEN installments[feeCall[c].number].amount ELSE 0]
  /\ FeeAnswer(c)
  /\ UNCHANGED <<structures, fee, installments, order, strays>>

\* The routes of the admin and of the student: a body that lacks something changes nothing.
HandleCreateStructure == \E t \in FeeTotals, n \in FeeCounts : CreateStructure(t, n)
Assign == \E c \in FeeCalls, t \in FeeTotals, n \in FeeCounts : AssignFee(c, t, n)
PayInstallment == \E i \in DOMAIN installments : StartInstallmentCheckout(i)

FeeNext ==
  \/ HandleCreateStructure \/ Assign \/ PayInstallment \/ PayOrder
  \/ \E c \in FeeCalls :
       \/ CreateFeeInstallment(c) \/ VerifyInstallmentPayment(c) \/ MarkInstallmentPaid(c)
       \/ UpdateFeePaidAmount(c) \/ FeeGlitch(c)
  \/ \E c \in FeeCalls, i \in DOMAIN installments : VerifyInstallment(c, i)

FeeSpec == FeeInit /\ [][FeeNext]_feeVars

-----------------------------------------------------------------------------
\* What each installment says is paid, and what each request has yet to credit.
PaidOff == [i \in DOMAIN installments |-> IF installments[i].paid THEN installments[i].amount ELSE 0]
Uncredited ==
  [c \in FeeCalls |-> IF feeCall[c].at = "credit" THEN installments[feeCall[c].number].amount ELSE 0]

\* What GET /fees/my and GET /fees/installments/:id show agrees: the installments marked paid
\* are credited to the fee to the paisa, but for requests between the two statements and what
\* a failure between them took; overlapping and repeated verifications never lose a credit.
NoCreditLost == SumFunction(PaidOff) <= fee.paid + lost.paise + SumFunction(Uncredited)
=============================================================================
