------------------------- MODULE RepaymentSchedule -------------------------
(***************************************************************************)
(* The schedule a loan is approved with (schedule.ts): principal and       *)
(* interest divided over the installments of the product, one due date a   *)
(* month or a fortnight apart.                                             *)
(*                                                                         *)
(* A rate is in hundredths of a percent a year, the precision of           *)
(* annual_rate_percent.  The rounding errors of floating point are left    *)
(* out.  A date is a month, counted from a January of a leap year, and a   *)
(* day.                                                                    *)
(***************************************************************************)
EXTENDS PaymentAllocation

ProductTerms ==
  [annualRate : Nat, installments : Nat \ {0}, cycle : {"monthly", "biweekly"}]

Date == [month : Nat, day : 1..31]

ScheduleRow == [dueOn : Date, principalDue : Nat, interestDue : Nat]

-----------------------------------------------------------------------------
(* setMonth and setDate of a Date of JavaScript. *)

MonthLength(month) ==
  CASE month % 12 \in {3, 5, 8, 10} -> 30
    [] month % 48 = 1               -> 29
    [] month % 12 = 1 /\ month % 48 # 1 -> 28
    [] OTHER                        -> 31

(* A day past the end of its month is one of the next month. *)
Carried(d) ==
  IF d.day <= MonthLength(d.month)
  THEN d
  ELSE [month |-> d.month + 1, day |-> d.day - MonthLength(d.month)]

NextDue(cycle, d) ==
  IF cycle = "monthly"
  THEN Carried([d EXCEPT !.month = @ + 1])
  ELSE Carried([d EXCEPT !.day = @ + 14])

Before(d, e) == d.month < e.month \/ (d.month = e.month /\ d.day < e.day)

-----------------------------------------------------------------------------
(* Math.round rounds halves up. *)
Rounded(a, b) == (2 * a + b) \div (2 * b)

(* A month counts 30 days, a year 365. *)
TotalInterest(principal, terms) ==
  LET days == terms.installments * (IF terms.cycle = "monthly" THEN 30 ELSE 14)
  IN  Rounded(principal * terms.annualRate * days, 3650000)

(* Seeded fault: the last installment is like the others. *)
PortionWithoutRest(amount, n, i) == amount \div n

(* Seeded fault: installments are rounded up. *)
PortionRoundedUp(amount, n, i) ==
  LET base == (amount + n - 1) \div n
  IN  IF i = n THEN amount - (n - 1) * base ELSE base

(* What installment i of n bears of an amount: the whole part, and the     *)
(* last one what the others leave.                                         *)
Portion(amount, n, i) ==
  IF i = n THEN amount - (n - 1) * (amount \div n) ELSE amount \div n

Portions(amount, n) == [i \in 1..n |-> Portion(amount, n, i)]

DueDates(terms, anchor) ==
  LET due[i \in 0..terms.installments] ==
        IF i = 0 THEN anchor ELSE NextDue(terms.cycle, due[i - 1])
  IN  due

BuildRepaymentSchedule(principal, terms, anchor) ==
  LET n   == terms.installments
      due == DueDates(terms, anchor)
  IN  [i \in 1..n |->
         [dueOn        |-> due[i],
          principalDue |-> Portions(principal, n)[i],
          interestDue  |-> Portions(TotalInterest(principal, terms), n)[i]]]

(* With the defaults of the columns it leaves out. *)
PersistRepaymentSchedule(rows) ==
  [i \in 1..Len(rows) |->
     [principalDue |-> rows[i].principalDue, principalPaid |-> 0,
      penaltyDue   |-> 0,                    penaltyPaid   |-> 0,
      interestDue  |-> rows[i].interestDue,  interestPaid  |-> 0,
      chargeDue    |-> 0,                    chargePaid    |-> 0,
      status       |-> "open"]]
=============================================================================
