----------------------------- MODULE PlanAmounts -----------------------------
(***************************************************************************)
(* The cents of one installment plan: how ActivateInstallmentPlanUseCase   *)
(* splits a payment into installments, and how AdjustInstallmentPlanUseCase*)
(* shrinks the ones still open after every partial refund.  Module         *)
(* InstallmentPlans has the statuses and the events; here only amounts     *)
(* change.                                                                 *)
(***************************************************************************)
EXTENDS Integers

CONSTANT Totals   \* amountCents a captured payment may have

ASSUME TotalsAssumption == Totals \subseteq Nat \ {0}

VARIABLES
  total,      \* totalCents of the plan, 0 before it exists
  refunded,   \* refundedAmountCents of the plan
  original,   \* originalAmountCents of each installment
  amount,     \* amountCents of each installment
  open        \* installments that are PENDING or DUE

amountVars == <<total, refunded, original, amount, open>>

INSTALLMENTS_COUNT == 3
Number == 1 .. INSTALLMENTS_COUNT

Sum(f) == f[1] + f[2] + f[3]

AmountsTypeOK ==
  /\ total \in Totals \cup {0}
  /\ refunded \in Nat
  /\ original \in [Number -> Nat] /\ amount \in [Number -> Nat]
  /\ open \subseteq Number

AmountsInit ==
  /\ total = 0 /\ refunded = 0 /\ open = {}
  /\ original = [n \in Number |-> 0] /\ amount = [n \in Number |-> 0]
-----------------------------------------------------------------------------
(* Seeded bug: the remainder is dropped. *)
SplitEvenly(t) == [n \in Number |-> t \div INSTALLMENTS_COUNT]

(* Equal installments, the last one takes the remainder as well. *)
Split(t) ==
  LET perInstallment == t \div INSTALLMENTS_COUNT
      remainder == t - perInstallment * INSTALLMENTS_COUNT IN
  [n \in Number |-> IF n = INSTALLMENTS_COUNT THEN perInstallment + remainder
                                              ELSE perInstallment]

ActivateAmounts(t) ==
  /\ total = 0
  /\ total' = t
  /\ original' = Split(t) /\ amount' = Split(t)
  /\ open' = Number
  /\ UNCHANGED refunded

(* Math.max(0, total - refunded), the numerator of the shrink factor. *)
Rest(t, r) == IF r >= t THEN 0 ELSE t - r

(* The values Math.round(whole * (rest / t)) may have.  In exact arithmetic it
   is the nearest integer, in floating point half a cent may fall either way.  *)
Rounded(whole, rest, t) ==
  {k \in 0 .. whole : /\ 2 * (k * t) <= 2 * (whole * rest) + t
                      /\ 2 * (whole * rest) <= 2 * (k * t) + t}

(* Seeded bug: what was shrunk before is shrunk again. *)
ShrinkAgain(n, r) ==
  IF n \in open THEN Rounded(amount[n], Rest(total, r), total) ELSE {amount[n]}

(* Seeded bug: the factor comes from the latest refund alone. *)
ShrinkForThisRefund(n, r) ==
  IF n \in open THEN Rounded(original[n], Rest(total, r - refunded), total) ELSE {amount[n]}

(* What installment n may cost once r was refunded in total. *)
NewAmount(n, r) ==
  IF n \in open THEN Rounded(original[n], Rest(total, r), total) ELSE {amount[n]}

Repriced(r) ==
  {f \in [Number -> UNION {NewAmount(n, r) : n \in Number}] :
     \A n \in Number : f[n] \in NewAmount(n, r)}

(* Bound: once as much as the total was refunded, nothing is left to shrink. *)
PartialRefund(a) ==
  /\ total # 0 /\ refunded <= total
  /\ refunded' = refunded + a
  /\ amount' \in Repriced(refunded + a)
  /\ UNCHANGED <<total, original, open>>

(* The installment is paid, defaulted or cancelled. *)
Settle(n) ==
  /\ n \in open
  /\ open' = open \ {n}
  /\ UNCHANGED <<total, refunded, original, amount>>

AmountsNext == \/ \E t \in Totals : ActivateAmounts(t)
               \/ \E a \in 1 .. total : PartialRefund(a)
               \/ \E n \in Number : Settle(n)

AmountsSpec == AmountsInit /\ [][AmountsNext]_amountVars
-----------------------------------------------------------------------------
(* "They always sum exactly": no cent of the payment is lost or invented by
   the split, whatever the total.                                           *)
SplitIsExact == Sum(original) = total

(* "A second partial refund correctly reflects the combined total instead of
   compounding": after any sequence of refunds the installments of a plan with
   nothing settled yet add up to what is left of the total, give or take a cent. *)
BalanceWithinOneCent ==
  open = Number => Sum(amount) - Rest(total, refunded) \in -1 .. 1

(* A refund never makes an installment more expensive. *)
RefundsOnlyShrink == [][total # 0 => \A n \in Number : amount'[n] <= amount[n]]_amountVars
=============================================================================
