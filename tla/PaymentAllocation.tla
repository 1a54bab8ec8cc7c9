------------------------- MODULE PaymentAllocation -------------------------
(***************************************************************************)
(* How one payment is spread over a loan's repayment schedule.             *)
(*                                                                         *)
(* payment-allocation.ts splits money over one installment: principal      *)
(* first, then penalty, then interest.  The loop of postManualPayment      *)
(* walks the open installments in due-date order and hands what one leaves *)
(* over to the next; only what the last one leaves is an overpayment.      *)
(*                                                                         *)
(* A schedule is a sequence of installments, in the order the query        *)
(* ORDER BY due_on, id returns them.  Amounts are whole shillings.         *)
(***************************************************************************)
EXTENDS Summation

(* A row of repayment_schedules.  The charge columns are those of rows     *)
(* written before penalty and interest had columns of their own.           *)
Installment ==
  [principalDue : Nat, penaltyDue : Nat, interestDue : Nat, chargeDue : Nat,
   principalPaid : Nat, penaltyPaid : Nat, interestPaid : Nat,
   chargePaid : Nat, status : {"open", "paid"}]

(* A row of payment_installments, with the status its installment will be  *)
(* given (nowPaid, in the loop).                                           *)
Share ==
  [principal : Nat, penalty : Nat, interest : Nat, status : {"open", "paid"}]

NoShare == [principal |-> 0, penalty |-> 0, interest |-> 0, status |-> "open"]

Lesser(a, b) == IF a <= b THEN a ELSE b

Positive(n) == IF n > 0 THEN n ELSE 0

-----------------------------------------------------------------------------
(* What an installment still owes. *)

PrincipalRemaining(i) == Positive(i.principalDue - i.principalPaid)

PenaltyRemaining(i) == Positive(i.penaltyDue - i.penaltyPaid)

InterestRemaining(i) ==
  IF i.penaltyDue > 0 \/ i.interestDue > 0
  THEN Positive(i.interestDue - i.interestPaid)
  ELSE Positive(i.chargeDue - i.chargePaid)

Owed(i) == PrincipalRemaining(i) + PenaltyRemaining(i) + InterestRemaining(i)

-----------------------------------------------------------------------------
(* allocatePaymentWaterfall for one installment. *)

PrincipalPart(i, amount) == Lesser(amount, PrincipalRemaining(i))

PenaltyPart(i, amount) ==
  Lesser(amount - PrincipalPart(i, amount), PenaltyRemaining(i))

InterestPart(i, amount) ==
  Lesser(amount - PrincipalPart(i, amount) - PenaltyPart(i, amount),
         InterestRemaining(i))

(* Seeded fault: an installment is closed as soon as its principal is      *)
(* covered.                                                                *)
WaterfallClosingOnPrincipal(i, amount) ==
  [principal |-> PrincipalPart(i, amount),
   penalty   |-> PenaltyPart(i, amount),
   interest  |-> InterestPart(i, amount),
   status    |-> IF PrincipalPart(i, amount) >= PrincipalRemaining(i)
                 THEN "paid" ELSE "open"]

Waterfall(i, amount) ==
  [principal |-> PrincipalPart(i, amount),
   penalty   |-> PenaltyPart(i, amount),
   interest  |-> InterestPart(i, amount),
   status    |-> IF /\ PrincipalPart(i, amount) >= PrincipalRemaining(i)
                    /\ PenaltyPart(i, amount) >= PenaltyRemaining(i)
                    /\ InterestPart(i, amount) >= InterestRemaining(i)
                 THEN "paid" ELSE "open"]

Taken(s) == s.principal + s.penalty + s.interest

-----------------------------------------------------------------------------
(* The walk over the schedule. *)

(* Seeded fault: an installment whose principal is paid is passed over,    *)
(* whatever charges it still owes.                                         *)
ShareOfPrincipalOwed(i, amount) ==
  IF i.status = "open" /\ amount > 0 /\ PrincipalRemaining(i) > 0
  THEN Waterfall(i, amount)
  ELSE NoShare

(* The loop only spends on an open installment that owes something. *)
ShareOf(i, amount) ==
  IF i.status = "open" /\ amount > 0 /\ Owed(i) > 0
  THEN Waterfall(i, amount)
  ELSE NoShare

(* Seeded fault: an installment takes all it owes, whatever is there. *)
LeftAfterFullDues(sched, amount) ==
  LET left[n \in 0..Len(sched)] ==
        CASE n = 0 -> amount
          [] n > 0 /\ left[n - 1] > 0 /\ sched[n].status = "open" ->
               left[n - 1] - Owed(sched[n])
          [] OTHER -> left[n - 1]
  IN  left

(* Left(sched, amount)[n]: the money left after the first n installments. *)
Left(sched, amount) ==
  LET left[n \in 0..Len(sched)] ==
        IF n = 0 THEN amount
        ELSE left[n - 1] - Taken(ShareOf(sched[n], left[n - 1]))
  IN  left

(* The share of each installment, NoShare for those the walk passes over. *)
SharesOf(sched, amount) ==
  [n \in 1..Len(sched) |-> ShareOf(sched[n], Left(sched, amount)[n - 1])]

PrincipalOf(shares) == Total([n \in 1..Len(shares) |-> shares[n].principal])
PenaltyOf(shares)   == Total([n \in 1..Len(shares) |-> shares[n].penalty])
InterestOf(shares)  == Total([n \in 1..Len(shares) |-> shares[n].interest])

(* What postManualPayment knows of a payment before it inserts the row. *)
Allocation(sched, amount) ==
  [shares      |-> SharesOf(sched, amount),
   overpayment |-> Left(sched, amount)[Len(sched)]]

-----------------------------------------------------------------------------
(* Seeded fault: what is paid replaces what was paid before. *)
CreditAnew(i, s) ==
  IF Taken(s) = 0 THEN i
  ELSE [i EXCEPT !.principalPaid = s.principal,
                 !.penaltyPaid   = s.penalty,
                 !.interestPaid  = s.interest,
                 !.chargePaid    = s.penalty + s.interest,
                 !.status        = s.status]

(* The UPDATE of one installment: relative increments, and a status that   *)
(* was decided when the schedule was read.  The charge column collects     *)
(* both penalty and interest.                                              *)
Credit(i, s) ==
  IF Taken(s) = 0 THEN i
  ELSE [i EXCEPT !.principalPaid = @ + s.principal,
                 !.penaltyPaid   = @ + s.penalty,
                 !.interestPaid  = @ + s.interest,
                 !.chargePaid    = @ + s.penalty + s.interest,
                 !.status        = s.status]

CreditAll(sched, shares) ==
  [n \in 1..Len(sched) |-> Credit(sched[n], shares[n])]
=============================================================================
