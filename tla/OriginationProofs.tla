------------------------- MODULE OriginationProofs -------------------------
(***************************************************************************)
(* That a schedule repays its loan whatever the principal and the terms,   *)
(* and that no interleaving of requests gives a loan to a client whose     *)
(* review, assessment or decision is missing.                              *)
(***************************************************************************)
EXTENDS Origination, SummationProofs

-----------------------------------------------------------------------------
(* Schedules. *)

LEMMA Quotient ==
  ASSUME NEW a \in Nat, NEW n \in Nat \ {0}
  PROVE  /\ a \div n \in Nat
         /\ n * (a \div n) <= a
PROOF
  OBVIOUS

(* Each portion is a natural, the last one the largest. *)
LEMMA PortionsGrow ==
  ASSUME NEW amount \in Nat, NEW n \in Nat \ {0}
  PROVE  /\ Portions(amount, n) \in Seq(Nat)
         /\ Len(Portions(amount, n)) = n
         /\ \A i, j \in 1..n :
              i < j => Portions(amount, n)[i] <= Portions(amount, n)[j]
PROOF
<1>1. PICK q \in Nat : q = amount \div n /\ n * q <= amount
  BY Quotient
<1>2. n * q = (n - 1) * q + q
  OBVIOUS
<1>3. PICK m \in Nat : m = (n - 1) * q
  OBVIOUS
<1>4. m + q <= amount
  BY <1>1, <1>2, <1>3
<1>5. ASSUME NEW i \in 1..n
      PROVE  Portion(amount, n, i) = IF i = n THEN amount - m ELSE q
  BY <1>1, <1>3 DEF Portion
<1>6. \A i \in 1..n : Portions(amount, n)[i] = IF i = n THEN amount - m ELSE q
  BY <1>5 DEF Portions
<1>7. \A i \in 1..n : Portions(amount, n)[i] \in Nat
  BY <1>4, <1>6
<1>8. PICK f : f = Portions(amount, n)
  OBVIOUS
<1>9. f \in [1..n -> Nat]
  <2>1. f = [i \in 1..n |-> f[i]]
    BY <1>8 DEF Portions
  <2> QED
    BY <1>7, <1>8, <2>1
<1>10. f \in Seq(Nat) /\ Len(f) = n
  BY <1>9
<1>11. ASSUME NEW i \in 1..n, NEW j \in 1..n, i < j
       PROVE  f[i] <= f[j]
  <2>1. f[i] = q
    BY <1>6, <1>8, <1>11
  <2>2. f[j] = q \/ f[j] = amount - m
    BY <1>6, <1>8
  <2> QED
    BY <1>4, <2>1, <2>2
<1> QED
  BY <1>8, <1>10, <1>11

(* The portions add up to the amount. *)
LEMMA PortionsAddUp ==
  ASSUME NEW amount \in Nat, NEW n \in Nat \ {0}
  PROVE  Total(Portions(amount, n)) = amount
PROOF
<1>1. PICK q \in Nat : q = amount \div n
  BY Quotient
<1>2. PICK f : f = Portions(amount, n)
  OBVIOUS
<1>3. f \in Seq(Int) /\ Len(f) = n
  BY <1>2, PortionsGrow
<1>4. /\ \A i \in 1..n : i # n => f[i] = q
      /\ f[n] = amount - (n - 1) * q
  BY <1>1, <1>2 DEF Portions, Portion
<1>5. PICK total \in [0..n -> Int] :
        /\ total = RunningTotals(f)
        /\ total[0] = 0
        /\ \A i \in 1..n : total[i] = total[i - 1] + f[i]
  BY <1>3, RunningTotalsEquation
<1> DEFINE T == {k \in Nat : k < n => total[k] = k * q}
<1>6. T = Nat
  <2>1. 0 \in T
    BY <1>5
  <2>2. ASSUME NEW k \in T
        PROVE  k + 1 \in T
    <3> SUFFICES ASSUME k + 1 < n
                 PROVE  total[k + 1] = (k + 1) * q
      OBVIOUS
    <3>1. total[k] = k * q
      OBVIOUS
    <3>2. total[k + 1] = total[k] + q
      <4>1. k + 1 \in 1..n /\ k + 1 # n /\ (k + 1) - 1 = k
        OBVIOUS
      <4> QED
        BY <1>4, <1>5, <4>1
    <3>3. (k + 1) * q = k * q + q
      OBVIOUS
    <3> QED
      BY <3>1, <3>2, <3>3
  <2>3. T \in SUBSET Nat
    OBVIOUS
  <2> HIDE DEF T
  <2> QED
    BY <2>1, <2>2, <2>3, SetInduction
<1>7. n - 1 \in T /\ n - 1 \in Nat
  BY <1>6
<1>8. total[n - 1] = (n - 1) * q
  BY <1>7
<1>9. total[n] = total[n - 1] + f[n]
  BY <1>5
<1>10. total[n] = amount
  BY <1>4, <1>8, <1>9
<1> QED
  BY <1>2, <1>3, <1>5, <1>10 DEF Total

(* Interest is a natural. *)
LEMMA InterestIsNat ==
  ASSUME NEW principal \in Nat, NEW terms \in ProductTerms
  PROVE  TotalInterest(principal, terms) \in Nat
PROOF
<1>1. terms.annualRate \in Nat /\ terms.installments \in Nat
  BY DEF ProductTerms
<1>2. PICK days \in Nat :
        days = terms.installments *
                 (IF terms.cycle = "monthly" THEN 30 ELSE 14)
  BY <1>1
<1>3. PICK a \in Nat : a = principal * terms.annualRate * days
  BY <1>1, <1>2
<1>4. TotalInterest(principal, terms) = (2 * a + 3650000) \div 7300000
  BY <1>2, <1>3 DEF TotalInterest, Rounded
<1> QED
  BY <1>4

-----------------------------------------------------------------------------
(* Due dates. *)

LEMMA MonthsAreLong ==
  ASSUME NEW month \in Nat
  PROVE  MonthLength(month) \in 28..31
PROOF
<1>1. CASE month % 12 \in {3, 5, 8, 10}
  BY <1>1 DEF MonthLength
<1>2. CASE month % 12 \notin {3, 5, 8, 10}
  BY <1>2 DEF MonthLength
<1> QED
  BY <1>1, <1>2

(* The next due date is a date, and a later one. *)
LEMMA NextDueIsLater ==
  ASSUME NEW cycle, NEW d \in Date
  PROVE  NextDue(cycle, d) \in Date /\ Before(d, NextDue(cycle, d))
PROOF
<1>1. d = [month |-> d.month, day |-> d.day] /\ d.month \in Nat
      /\ d.day \in 1..31
  BY DEF Date
<1>2. CASE cycle = "monthly"
  <2>1. PICK e : e = [d EXCEPT !.month = @ + 1]
    OBVIOUS
  <2>2. e.month = d.month + 1 /\ e.day = d.day
        /\ e = [month |-> d.month + 1, day |-> d.day]
    BY <1>1, <2>1
  <2>3. NextDue(cycle, d) = Carried(e)
    BY <1>2, <2>1 DEF NextDue
  <2>4. MonthLength(e.month) \in 28..31
    BY <1>1, <2>2, MonthsAreLong
  <2> QED
    BY <1>1, <2>2, <2>3, <2>4 DEF Carried, Before, Date
<1>3. CASE cycle # "monthly"
  <2>1. PICK e : e = [d EXCEPT !.day = @ + 14]
    OBVIOUS
  <2>2. e.month = d.month /\ e.day = d.day + 14
        /\ e = [month |-> d.month, day |-> d.day + 14]
    BY <1>1, <2>1
  <2>3. NextDue(cycle, d) = Carried(e)
    BY <1>3, <2>1 DEF NextDue
  <2>4. MonthLength(e.month) \in 28..31
    BY <1>1, <2>2, MonthsAreLong
  <2> QED
    BY <1>1, <2>2, <2>3, <2>4 DEF Carried, Before, Date
<1> QED
  BY <1>2, <1>3

LEMMA BeforeIsTransitive ==
  ASSUME NEW d \in Date, NEW e \in Date, NEW f \in Date,
         Before(d, e), Before(e, f)
  PROVE  Before(d, f)
PROOF
  BY DEF Before, Date

(* Due dates start at the anchor, each the next one of the one before.     *)
LEMMA DueDatesEquation ==
  ASSUME NEW terms \in ProductTerms, NEW anchor \in Date
  PROVE  /\ DueDates(terms, anchor) \in [0..terms.installments -> Date]
         /\ \A i \in 1..terms.installments :
              DueDates(terms, anchor)[i]
                = NextDue(terms.cycle, DueDates(terms, anchor)[i - 1])
PROOF
<1> DEFINE Eq(g) == g = [i \in 0..terms.installments |->
                           IF i = 0 THEN anchor
                           ELSE NextDue(terms.cycle, g[i - 1])]
<1>1. PICK n \in Nat : n = terms.installments
  BY DEF ProductTerms
<1>2. PICK step : step = [i \in 1..n |-> [d \in Date |-> NextDue(terms.cycle, d)]]
  OBVIOUS
<1>3. \A d \in Date : NextDue(terms.cycle, d) \in Date
  BY NextDueIsLater
<1>4. step \in [1..n -> [Date -> Date]]
  BY <1>2, <1>3
<1>5. HasSolution(Date, n, anchor, step)
  BY <1>4, Recursion
<1>6. PICK g \in [0..n -> Date] :
        \A i \in 0..n : g[i] = IF i = 0 THEN anchor ELSE step[i][g[i - 1]]
  BY <1>5 DEF HasSolution
<1>7. ASSUME NEW i \in 0..n
      PROVE  g[i] = IF i = 0 THEN anchor ELSE NextDue(terms.cycle, g[i - 1])
  <2>1. CASE i = 0
    BY <1>6, <2>1
  <2>2. CASE i # 0
    <3>1. i \in 1..n /\ i - 1 \in 0..n
      BY <2>2
    <3>2. g[i - 1] \in Date
      BY <3>1
    <3>3. step[i][g[i - 1]] = NextDue(terms.cycle, g[i - 1])
      BY <1>2, <3>1, <3>2
    <3> QED
      BY <1>6, <2>2, <3>3
  <2> QED
    BY <2>1, <2>2
<1>8. Eq(g)
  BY <1>1, <1>7
<1>9. Eq(DueDates(terms, anchor))
  <2>1. DueDates(terms, anchor) = CHOOSE f : Eq(f)
    BY DEF DueDates
  <2> HIDE DEF Eq
  <2> QED
    BY <1>8, <2>1
<1>10. PICK due : due = DueDates(terms, anchor)
  OBVIOUS
<1>11. due = [i \in 0..n |-> IF i = 0 THEN anchor
                              ELSE NextDue(terms.cycle, due[i - 1])]
  BY <1>1, <1>9, <1>10
<1> DEFINE T == {k \in Nat : k <= n => due[k] \in Date}
<1>12. T = Nat
  <2>1. 0 \in T
    BY <1>11
  <2>2. ASSUME NEW k \in T
        PROVE  k + 1 \in T
    <3> SUFFICES ASSUME k + 1 <= n
                 PROVE  due[k + 1] \in Date
      OBVIOUS
    <3>1. due[k] \in Date
      OBVIOUS
    <3>2. k + 1 \in 0..n /\ k + 1 # 0 /\ (k + 1) - 1 = k
      OBVIOUS
    <3>3. due[k + 1] = NextDue(terms.cycle, due[k])
      BY <1>11, <3>2
    <3> QED
      BY <1>3, <3>1, <3>3
  <2>3. T \in SUBSET Nat
    OBVIOUS
  <2> HIDE DEF T
  <2> QED
    BY <2>1, <2>2, <2>3, SetInduction
<1>13. \A i \in 0..n : due[i] \in Date
  BY <1>12
<1>14. due \in [0..n -> Date]
  BY <1>11, <1>13
<1>15. \A i \in 1..n : due[i] = NextDue(terms.cycle, due[i - 1])
  BY <1>11
<1> QED
  BY <1>1, <1>10, <1>14, <1>15

(* Each installment falls due after those before it.                       *)
LEMMA DueDatesAscend ==
  ASSUME NEW terms \in ProductTerms, NEW anchor \in Date
  PROVE  \A i, j \in 0..terms.installments :
           i < j => Before(DueDates(terms, anchor)[i],
                           DueDates(terms, anchor)[j])
PROOF
<1>1. PICK n \in Nat : n = terms.installments
  BY DEF ProductTerms
<1>2. PICK due \in [0..n -> Date] :
        /\ due = DueDates(terms, anchor)
        /\ \A i \in 1..n : due[i] = NextDue(terms.cycle, due[i - 1])
  BY <1>1, DueDatesEquation
<1> DEFINE T == {k \in Nat : \A i \in 0..n :
                   i < k /\ k <= n => Before(due[i], due[k])}
<1>3. T = Nat
  <2>1. 0 \in T
    OBVIOUS
  <2>2. ASSUME NEW k \in T
        PROVE  k + 1 \in T
    <3> SUFFICES ASSUME NEW i \in 0..n, i < k + 1, k + 1 <= n
                 PROVE  Before(due[i], due[k + 1])
      OBVIOUS
    <3>1. k \in 0..n /\ k + 1 \in 1..n /\ (k + 1) - 1 = k
      OBVIOUS
    <3>2. due[i] \in Date /\ due[k] \in Date /\ due[k + 1] \in Date
      BY <3>1
    <3>3. due[k + 1] = NextDue(terms.cycle, due[k])
      BY <1>2, <3>1
    <3>4. Before(due[k], due[k + 1])
      BY <3>2, <3>3, NextDueIsLater
    <3>5. CASE i = k
      BY <3>4, <3>5
    <3>6. CASE i # k
      <4>1. Before(due[i], due[k])
        BY <3>1, <3>6
      <4> QED
        BY <3>2, <3>4, <4>1, BeforeIsTransitive
    <3> QED
      BY <3>5, <3>6
  <2>3. T \in SUBSET Nat
    OBVIOUS
  <2> HIDE DEF T
  <2> QED
    BY <2>1, <2>2, <2>3, SetInduction
<1>4. \A j \in 0..n : \A i \in 0..n : i < j => Before(due[i], due[j])
  BY <1>3
<1> QED
  BY <1>1, <1>2, <1>4

-----------------------------------------------------------------------------
(* What every field of a schedule is. *)
Divides(s, principal, terms, anchor) ==
  LET n == terms.installments
  IN  /\ s \in Seq(ScheduleRow)
      /\ Len(s) = n
      /\ [i \in 1..n |-> s[i].principalDue] = Portions(principal, n)
      /\ [i \in 1..n |-> s[i].interestDue]
           = Portions(TotalInterest(principal, terms), n)
      /\ \A i \in 1..n : s[i].dueOn = DueDates(terms, anchor)[i]

LEMMA ScheduleFields ==
  ASSUME NEW principal \in Nat, NEW terms \in ProductTerms,
         NEW anchor \in Date
  PROVE  Divides(BuildRepaymentSchedule(principal, terms, anchor),
                 principal, terms, anchor)
PROOF
<1>1. PICK n \in Nat \ {0} : n = terms.installments
  BY DEF ProductTerms
<1>2. PICK due \in [0..n -> Date] : due = DueDates(terms, anchor)
  BY <1>1, DueDatesEquation
<1>3. PICK p \in Seq(Nat) : p = Portions(principal, n) /\ Len(p) = n
  BY PortionsGrow
<1>4. PICK r \in Seq(Nat) :
        r = Portions(TotalInterest(principal, terms), n) /\ Len(r) = n
  BY InterestIsNat, PortionsGrow
<1>5. PICK s : s = BuildRepaymentSchedule(principal, terms, anchor)
  OBVIOUS
<1>6. s = [i \in 1..n |-> [dueOn |-> due[i], principalDue |-> p[i],
                           interestDue |-> r[i]]]
  BY <1>1, <1>2, <1>3, <1>4, <1>5 DEF BuildRepaymentSchedule
<1>7. ASSUME NEW i \in 1..n
      PROVE  /\ s[i] \in ScheduleRow
             /\ s[i].principalDue = p[i]
             /\ s[i].interestDue = r[i]
             /\ s[i].dueOn = due[i]
  <2>1. due[i] \in Date /\ p[i] \in Nat /\ r[i] \in Nat
    BY <1>2, <1>3, <1>4
  <2> QED
    BY <1>6, <2>1 DEF ScheduleRow
<1>8. s \in Seq(ScheduleRow) /\ Len(s) = n
  <2>1. s \in [1..n -> ScheduleRow]
    BY <1>6, <1>7
  <2> QED
    BY <2>1
<1>9. p = [i \in 1..n |-> p[i]] /\ r = [i \in 1..n |-> r[i]]
  BY <1>3, <1>4 DEF Portions
<1>10. /\ [i \in 1..n |-> s[i].principalDue] = p
       /\ [i \in 1..n |-> s[i].interestDue] = r
  BY <1>7, <1>9
<1> QED
  BY <1>1, <1>2, <1>3, <1>4, <1>5, <1>7, <1>8, <1>10 DEF Divides

(* The schedule built for an application repays the loan it becomes: its   *)
(* installments add up to principal and interest, fall due one after the   *)
(* other, and never ask for less than an earlier one.                      *)
THEOREM BuiltScheduleRepays ==
  ASSUME NEW form \in Form, NEW today \in Date
  PROVE  Repays(BuildRepaymentSchedule(form.requestedAmount, form.terms, today),
                form)
PROOF
<1>1. form.requestedAmount \in Nat /\ form.terms \in ProductTerms
  BY DEF Form
<1>2. PICK n \in Nat \ {0} : n = form.terms.installments
  BY <1>1 DEF ProductTerms
<1>3. PICK s : s = BuildRepaymentSchedule(form.requestedAmount, form.terms, today)
  OBVIOUS
<1>4. PICK p \in Seq(Nat) :
        /\ p = Portions(form.requestedAmount, n)
        /\ Total(p) = form.requestedAmount
        /\ \A i, j \in 1..n : i < j => p[i] <= p[j]
  BY <1>1, PortionsGrow, PortionsAddUp
<1>5. PICK r \in Seq(Nat) :
        /\ r = Portions(TotalInterest(form.requestedAmount, form.terms), n)
        /\ Total(r) = TotalInterest(form.requestedAmount, form.terms)
        /\ \A i, j \in 1..n : i < j => r[i] <= r[j]
  BY <1>1, InterestIsNat, PortionsGrow, PortionsAddUp
<1>6. /\ s \in Seq(ScheduleRow) /\ Len(s) = n
      /\ [i \in 1..n |-> s[i].principalDue] = p
      /\ [i \in 1..n |-> s[i].interestDue] = r
      /\ \A i \in 1..n : s[i].dueOn = DueDates(form.terms, today)[i]
  <2>1. Divides(s, form.requestedAmount, form.terms, today)
    BY <1>1, <1>3, ScheduleFields
  <2> QED
    BY <1>2, <1>4, <1>5, <2>1 DEF Divides
<1>7. ASSUME NEW i \in 1..n, NEW j \in 1..n, i < j
      PROVE  /\ Before(s[i].dueOn, s[j].dueOn)
             /\ s[i].principalDue <= s[j].principalDue
             /\ s[i].interestDue <= s[j].interestDue
  <2>1. i \in 0..n /\ j \in 0..n
    OBVIOUS
  <2>2. Before(DueDates(form.terms, today)[i], DueDates(form.terms, today)[j])
    BY <1>1, <1>2, <1>7, <2>1, DueDatesAscend
  <2>3. p[i] = s[i].principalDue /\ p[j] = s[j].principalDue
    BY <1>6
  <2>4. r[i] = s[i].interestDue /\ r[j] = s[j].interestDue
    BY <1>6
  <2> QED
    BY <1>4, <1>5, <1>6, <1>7, <2>2, <2>3, <2>4
<1> HIDE DEF Form, ProductTerms
<1> QED
  BY <1>2, <1>3, <1>4, <1>5, <1>6, <1>7 DEF Repays

(* Persisted, it is what LoanServicing assumes of the schedule of a loan:  *)
(* fresh installments whose principal adds up to the loan's.               *)
Serves(rows, principal) ==
  /\ rows \in Seq(Installment)
  /\ \A i \in 1..Len(rows) :
       /\ rows[i].status = "open"
       /\ rows[i].principalPaid = 0 /\ rows[i].penaltyPaid = 0
       /\ rows[i].interestPaid = 0 /\ rows[i].chargePaid = 0
  /\ Total([i \in 1..Len(rows) |-> rows[i].principalDue]) = principal

THEOREM PersistedScheduleServes ==
  ASSUME NEW principal \in Nat, NEW terms \in ProductTerms, NEW today \in Date
  PROVE  Serves(PersistRepaymentSchedule(
                  BuildRepaymentSchedule(principal, terms, today)), principal)
PROOF
<1>1. PICK n \in Nat \ {0} : n = terms.installments
  BY DEF ProductTerms
<1>2. PICK s : s = BuildRepaymentSchedule(principal, terms, today)
  OBVIOUS
<1>3. /\ s \in Seq(ScheduleRow) /\ Len(s) = n
      /\ [i \in 1..n |-> s[i].principalDue] = Portions(principal, n)
  <2>1. Divides(s, principal, terms, today)
    BY <1>2, ScheduleFields
  <2> QED
    BY <1>1, <2>1 DEF Divides
<1>4. PICK rows : rows = PersistRepaymentSchedule(s)
  OBVIOUS
<1>5. ASSUME NEW i \in 1..n
      PROVE  /\ rows[i] \in Installment
             /\ rows[i].principalDue = s[i].principalDue
             /\ rows[i].status = "open"
             /\ rows[i].principalPaid = 0 /\ rows[i].penaltyPaid = 0
             /\ rows[i].interestPaid = 0 /\ rows[i].chargePaid = 0
  <2>1. s[i] \in ScheduleRow
    BY <1>3
  <2>2. s[i].principalDue \in Nat /\ s[i].interestDue \in Nat
    BY <2>1 DEF ScheduleRow
  <2> QED
    BY <1>3, <1>4, <2>2 DEF PersistRepaymentSchedule, Installment
<1>6. rows \in Seq(Installment) /\ Len(rows) = n
  <2>1. DOMAIN rows = 1..n /\ rows = [i \in 1..n |-> rows[i]]
    BY <1>3, <1>4 DEF PersistRepaymentSchedule
  <2>2. rows \in [1..n -> Installment]
    BY <1>5, <2>1
  <2> QED
    BY <2>2
<1>7. [i \in 1..n |-> rows[i].principalDue]
        = [i \in 1..n |-> s[i].principalDue]
  BY <1>5
<1>8. Total([i \in 1..n |-> rows[i].principalDue]) = principal
  BY <1>3, <1>7, PortionsAddUp
<1> QED
  BY <1>2, <1>4, <1>5, <1>6, <1>8 DEF Serves

-----------------------------------------------------------------------------
(* The inductive invariant: what a request has read is protected by the    *)
(* locks it holds, and each status says what was recorded on the way.      *)

HandlerOk(h) ==
  LET q == request[h]
      a == q.application
      c == ClientOf(a)
  IN  /\ pc[h] # "idle" =>
           /\ q \in Requests /\ Existing(a)
           /\ lock[a] = h
      /\ pc[h] \in {"kyc", "ready"} =>
           /\ lock[c] = h
           /\ seen[h] = applications[a].status
      /\ pc[h] = "ready" /\ q.op = "review" => known[h] = Verdicts(c)

Verified(a) ==
  [client |-> ClientOf(a), application |-> a, status |-> "verified"] \in kyc

ApplicationOk(a) ==
  LET status == applications[a].status
  IN  /\ loans[a] # None <=> Existing(a) /\ status = "approved"
      /\ Existing(a) =>
           /\ status \in {"kyc_verified", "risk_assessed", "approved"} =>
                Verified(a)
           /\ status \in {"risk_assessed", "approved"} => risk[a] = "approved"
           /\ status = "approved" =>
                applications[a].approvedBy \in
                  Users \ {applications[a].form.createdBy}

IInv ==
  /\ TypeOK
  /\ \A h \in Handlers : HandlerOk(h)
  /\ \A a \in Applications : ApplicationOk(a)
  /\ OneVerdict

LEMMA Transitions ==
  ASSUME NEW s \in ApplicationStatus, NEW t \in applicationTransitions[s]
  PROVE  /\ t \in ApplicationStatus
         /\ s \notin {"approved", "rejected"}
         /\ t = "kyc_verified" => s = "submitted"
         /\ t = "risk_assessed" => s = "kyc_verified"
         /\ t = "approved" => s = "risk_assessed"
PROOF
  BY DEF ApplicationStatus, applicationTransitions

LEMMA Requested ==
  ASSUME NEW q \in Requests
  PROVE  /\ q.application \in Applications /\ q.user \in Users
         /\ q.op \in {"submit", "review", "assess", "decide"}
         /\ q.verdict \in {"favourable", "unfavourable"}
PROOF
  BY OriginationAssumption DEF Request

LEMMA Applied ==
  ASSUME TypeOK, NEW a \in Applications, Existing(a)
  PROVE  /\ applications[a] \in Application
         /\ applications[a].form \in Forms /\ applications[a].form \in Form
         /\ applications[a].status \in ApplicationStatus
         /\ ClientOf(a) \in Clients /\ ClientOf(a) \in Rows /\ a \in Rows
PROOF
<1>1. applications[a] \in Application
  BY DEF TypeOK, Existing
<1>2. /\ applications[a].form \in Forms
      /\ applications[a].status \in ApplicationStatus
  BY <1>1 DEF Application
<1>3. applications[a].form \in Form
  BY <1>2, OriginationAssumption
<1>4. ClientOf(a) \in Clients
  BY <1>3 DEF ClientOf, Form
<1> QED
  BY <1>1, <1>2, <1>3, <1>4 DEF Rows

LEMMA InitIInv == Init => IInv
PROOF
<1> SUFFICES ASSUME Init PROVE IInv
  OBVIOUS
<1>1. TypeOK
  <2>1. <<>> \in Seq(Transition)
    OBVIOUS
  <2> QED
    BY <2>1 DEF Init, TypeOK
<1>2. ASSUME NEW h \in Handlers PROVE HandlerOk(h)
  BY DEF Init, HandlerOk
<1>3. ASSUME NEW a \in Applications PROVE ApplicationOk(a)
  BY DEF Init, ApplicationOk, Existing
<1>4. OneVerdict
  BY DEF Init, OneVerdict
<1> QED
  BY <1>1, <1>2, <1>3, <1>4 DEF IInv

-----------------------------------------------------------------------------
(* The end of a transaction, and what a committed one changes. *)

LEMMA ReleasedFacts ==
  ASSUME TypeOK, NEW g \in Handlers, Released(g)
  PROVE  /\ pc' \in [Handlers -> {"idle", "client", "kyc", "ready"}]
         /\ lock' \in [Rows -> Handlers \cup {None}]
         /\ request' \in [Handlers -> Requests \cup {None}]
         /\ seen' \in [Handlers -> ApplicationStatus \cup {None}]
         /\ known' \in [Handlers -> SUBSET {"verified", "rejected"}]
         /\ pc'[g] = "idle"
         /\ \A h \in Handlers \ {g} :
              /\ pc'[h] = pc[h] /\ request'[h] = request[h]
              /\ seen'[h] = seen[h] /\ known'[h] = known[h]
              /\ \A r \in Rows : lock[r] = h => lock'[r] = h
PROOF
  BY DEF TypeOK, Released, Forgotten

Moved(g) ==
  LET q == request[g]
      a == q.application
  IN  /\ q \in Requests
      /\ Existing(a)
      /\ lock[a] = g /\ lock[ClientOf(a)] = g
      /\ seen[g] = applications[a].status
      /\ Target(q) \in applicationTransitions[seen[g]]
      /\ applications' \in [Applications -> Application \cup {None}]
      /\ \A b \in Applications \ {a} : applications'[b] = applications[b]
      /\ applications'[a] # None
      /\ applications'[a].form = applications[a].form
      /\ applications'[a].status = Target(q)
      /\ q.op = "decide" => applications'[a].approvedBy = q.user
      /\ history' \in [Applications -> Seq(Transition)]
      /\ history' = [history EXCEPT ![a] =
           Append(history[a], <<seen[g], Target(q)>>)]

LEMMA AdvanceMoves ==
  ASSUME IInv, NEW g \in Handlers, NEW op, Advance(g, op)
  PROVE  Moved(g) /\ Released(g) /\ Allowed(g) /\ request[g].op = op
PROOF
<1>1. PICK q : q = request[g]
  OBVIOUS
<1>2. PICK a : a = q.application
  OBVIOUS
<1>3. /\ pc[g] = "ready" /\ q.op = op /\ Allowed(g) /\ Released(g)
      /\ applications' = [applications EXCEPT ![a] =
           [form       |-> @.form,
            status     |-> Target(q),
            approvedBy |-> IF op = "decide" THEN q.user ELSE @.approvedBy]]
      /\ history' = [history EXCEPT ![a] = Append(@, <<seen[g], Target(q)>>)]
  BY <1>1, <1>2 DEF Advance
<1>4. /\ q \in Requests /\ Existing(a)
      /\ lock[a] = g /\ lock[ClientOf(a)] = g
      /\ seen[g] = applications[a].status
  BY <1>1, <1>2, <1>3 DEF IInv, HandlerOk
<1>5. Target(q) \in applicationTransitions[seen[g]]
  BY <1>1, <1>3 DEF Allowed
<1>6. /\ a \in Applications /\ q.user \in Users
      /\ applications[a] \in Application
      /\ seen[g] \in ApplicationStatus
  BY <1>2, <1>4, Requested, Applied DEF IInv
<1>7. Target(q) \in ApplicationStatus
  BY <1>5, <1>6, Transitions
<1>8. PICK r : r = [form |-> applications[a].form, status |-> Target(q),
                    approvedBy |-> IF op = "decide" THEN q.user
                                   ELSE applications[a].approvedBy]
  OBVIOUS
<1>9. r \in Application
  BY <1>6, <1>7, <1>8 DEF Application
<1>10. applications \in [Applications -> Application \cup {None}]
  BY DEF IInv, TypeOK
<1>11. applications' = [applications EXCEPT ![a] = r]
  BY <1>3, <1>6, <1>8, <1>10
<1>12. r # None
  BY <1>9, OriginationAssumption
<1>13. /\ applications' \in [Applications -> Application \cup {None}]
       /\ \A b \in Applications \ {a} : applications'[b] = applications[b]
       /\ applications'[a] = r
  BY <1>6, <1>9, <1>10, <1>11
<1>14. history' \in [Applications -> Seq(Transition)]
  <2>1. history \in [Applications -> Seq(Transition)]
    BY DEF IInv, TypeOK
  <2>2. <<seen[g], Target(q)>> \in Transition
    BY <1>6, <1>7 DEF Transition
  <2>3. Append(history[a], <<seen[g], Target(q)>>) \in Seq(Transition)
    BY <1>6, <2>1, <2>2
  <2> QED
    BY <1>3, <1>6, <2>1, <2>3
<1>15. history' = [history EXCEPT ![a] =
         Append(history[a], <<seen[g], Target(q)>>)]
  BY <1>3, <1>6 DEF IInv, TypeOK
<1>16. /\ applications'[a] # None
       /\ applications'[a].form = applications[a].form
       /\ applications'[a].status = Target(q)
       /\ q.op = "decide" => applications'[a].approvedBy = q.user
  BY <1>3, <1>8, <1>12, <1>13
<1>17. Moved(g)
  BY <1>1, <1>2, <1>4, <1>5, <1>13, <1>14, <1>15, <1>16 DEF Moved
<1> QED
  BY <1>1, <1>3, <1>17

(* Whoever holds locks of its own is not disturbed by what another commits *)
(* or gives up, and an application not moved is not either.                *)

LEMMA HandlersAfterRelease ==
  ASSUME IInv, NEW g \in Handlers, Released(g),
         \/ UNCHANGED <<applications, kyc>>
         \/ /\ Moved(g)
            /\ \A k \in kyc' : k \in kyc \/ k.client = ClientOf(request[g].application)
            /\ kyc \subseteq kyc'
  PROVE  \A h \in Handlers : HandlerOk(h)'
PROOF
<1> SUFFICES ASSUME NEW h \in Handlers PROVE HandlerOk(h)'
  OBVIOUS
<1>0. TypeOK /\ HandlerOk(h)
  BY DEF IInv
<1>1. CASE h = g
  BY <1>0, <1>1, ReleasedFacts DEF HandlerOk
<1>2. CASE h # g
  <2>1. /\ pc'[h] = pc[h] /\ request'[h] = request[h]
        /\ seen'[h] = seen[h] /\ known'[h] = known[h]
        /\ \A r \in Rows : lock[r] = h => lock'[r] = h
    BY <1>0, <1>2, ReleasedFacts
  <2> SUFFICES ASSUME pc[h] # "idle" PROVE HandlerOk(h)'
    BY <2>1 DEF HandlerOk
  <2>2. PICK q \in Requests : q = request[h]
    BY <1>0 DEF HandlerOk
  <2>3. PICK a \in Applications : a = q.application
    BY Requested
  <2>4. Existing(a) /\ lock[a] = h
    BY <1>0, <2>2, <2>3 DEF HandlerOk
  <2>5. PICK c \in Clients : c = ClientOf(a) /\ c \in Rows /\ a \in Rows
    BY <1>0, <2>4, Applied
  <2>6. applications'[a] = applications[a]
    <3>1. CASE UNCHANGED <<applications, kyc>>
      BY <3>1
    <3>2. CASE Moved(g)
      <4>1. lock[request[g].application] = g
        BY <3>2 DEF Moved
      <4>2. a # request[g].application
        BY <1>2, <2>4, <4>1
      <4> QED
        BY <3>2, <4>2 DEF Moved
    <3> QED
      BY <3>1, <3>2
  <2>7. lock'[a] = h
    BY <2>1, <2>4, <2>5
  <2>8. CASE pc[h] \notin {"kyc", "ready"}
    BY <2>1, <2>2, <2>3, <2>4, <2>6, <2>7, <2>8 DEF HandlerOk, Existing
  <2>9. CASE pc[h] \in {"kyc", "ready"}
    <3>1. lock[c] = h /\ seen[h] = applications[a].status
      BY <1>0, <2>2, <2>3, <2>5, <2>9 DEF HandlerOk
    <3>2. lock'[c] = h
      BY <2>1, <2>5, <3>1
    <3>3. applications'[a].form.client = c
      BY <2>5, <2>6 DEF ClientOf
    <3>4. {k \in kyc' : k.client = c} = {k \in kyc : k.client = c}
      <4>1. CASE UNCHANGED <<applications, kyc>>
        BY <4>1
      <4>2. CASE /\ Moved(g)
                 /\ \A k \in kyc' :
                      k \in kyc \/ k.client = ClientOf(request[g].application)
                 /\ kyc \subseteq kyc'
        <5>1. lock[ClientOf(request[g].application)] = g
          BY <4>2 DEF Moved
        <5>2. ClientOf(request[g].application) # c
          BY <1>2, <3>1, <5>1
        <5> QED
          BY <4>2, <5>2
      <4> QED
        BY <4>1, <4>2
    <3>5. pc[h] = "ready" /\ q.op = "review" =>
            known[h] = {k.status : k \in {r \in kyc : r.client = c}}
      BY <1>0, <2>2, <2>3, <2>5 DEF HandlerOk, Verdicts
    <3> QED
      BY <2>1, <2>2, <2>3, <2>4, <2>6, <2>7, <3>1, <3>2, <3>3, <3>4, <3>5
      DEF HandlerOk, Existing, ClientOf, Verdicts
  <2> QED
    BY <2>8, <2>9
<1> QED
  BY <1>1, <1>2

LEMMA OthersAfterMove ==
  ASSUME IInv, NEW g \in Handlers, Moved(g), kyc \subseteq kyc',
         NEW a \in Applications, a # request[g].application,
         risk'[a] = risk[a], loans'[a] = loans[a]
  PROVE  ApplicationOk(a)'
PROOF
<1>1. applications'[a] = applications[a]
  BY DEF Moved
<1>2. ApplicationOk(a)
  BY DEF IInv
<1> QED
  BY <1>1, <1>2 DEF ApplicationOk, Existing, Verified, ClientOf

-----------------------------------------------------------------------------
(* Each step keeps the invariant. *)

LEMMA Committed ==
  ASSUME IInv, NEW g \in Handlers, Moved(g), Released(g),
         NEW a \in Applications, a = request[g].application,
         UNCHANGED <<clients, disbursed>>,
         kyc' \subseteq [client : Clients, application : Applications,
                         status : {"verified", "rejected"}],
         kyc \subseteq kyc',
         \A k \in kyc' : k \in kyc \/ k.client = ClientOf(a),
         OneVerdict',
         risk' \in [Applications -> {"approved", "declined", None}],
         DOMAIN loans' = Applications,
         \A b \in Applications :
            loans'[b] # None => loans'[b] \in Seq(ScheduleRow),
         \A b \in Applications \ {a} : risk'[b] = risk[b] /\ loans'[b] = loans[b],
         ApplicationOk(a)'
  PROVE  IInv'
PROOF
<1>1. TypeOK'
  <2>1. TypeOK
    BY DEF IInv
  <2>2. /\ pc' \in [Handlers -> {"idle", "client", "kyc", "ready"}]
        /\ lock' \in [Rows -> Handlers \cup {None}]
        /\ request' \in [Handlers -> Requests \cup {None}]
        /\ seen' \in [Handlers -> ApplicationStatus \cup {None}]
        /\ known' \in [Handlers -> SUBSET {"verified", "rejected"}]
    BY <2>1, ReleasedFacts
  <2>3. /\ applications' \in [Applications -> Application \cup {None}]
        /\ history' \in [Applications -> Seq(Transition)]
    BY DEF Moved
  <2> QED
    BY <2>1, <2>2, <2>3 DEF TypeOK
<1>2. \A h \in Handlers : HandlerOk(h)'
  BY HandlersAfterRelease
<1>3. ASSUME NEW b \in Applications PROVE ApplicationOk(b)'
  <2>1. CASE b = a
    BY <2>1
  <2>2. CASE b # a
    BY <2>2, OthersAfterMove
  <2> QED
    BY <2>1, <2>2
<1> QED
  BY <1>1, <1>2, <1>3 DEF IInv

LEMMA SubmitKeeps ==
  ASSUME IInv, NEW g \in Handlers, SubmitLoanApplication(g)
  PROVE  IInv'
PROOF
<1>1. Advance(g, "submit") /\ UNCHANGED <<clients, kyc, risk, loans, disbursed>>
  BY DEF SubmitLoanApplication
<1>2. Moved(g) /\ Released(g) /\ request[g].op = "submit"
  BY <1>1, AdvanceMoves
<1>3. PICK q \in Requests : q = request[g] /\ q.application \in Applications
  BY <1>2, Requested DEF Moved
<1>4. PICK a \in Applications : a = q.application
  BY <1>3
<1>5. applications'[a].status = "submitted" /\ applications'[a] # None
  BY <1>2, <1>3, <1>4 DEF Moved, Target
<1>6. Existing(a) /\ applications[a].status # "approved"
  <2>1. Existing(a) /\ seen[g] = applications[a].status
        /\ Target(q) \in applicationTransitions[seen[g]]
    BY <1>2, <1>3, <1>4 DEF Moved
  <2>2. applications[a].status \in ApplicationStatus
    BY <2>1, Applied DEF IInv
  <2> QED
    BY <2>1, <2>2, Transitions
<1>7. loans[a] = None
  BY <1>6 DEF IInv, ApplicationOk
<1>8. ApplicationOk(a)'
  BY <1>1, <1>5, <1>7 DEF ApplicationOk, Existing
<1>9. OneVerdict'
  BY <1>1 DEF IInv, OneVerdict
<1> QED
  BY <1>1, <1>2, <1>3, <1>4, <1>8, <1>9, Committed DEF IInv, TypeOK

LEMMA ReviewKeeps ==
  ASSUME IInv, NEW g \in Handlers, ReviewKyc(g)
  PROVE  IInv'
PROOF
<1>1. Advance(g, "review") /\ UNCHANGED <<clients, risk, loans, disbursed>>
  BY DEF ReviewKyc
<1>2. Moved(g) /\ Released(g) /\ Allowed(g) /\ request[g].op = "review"
  BY <1>1, AdvanceMoves
<1>3. PICK q \in Requests : q = request[g]
  BY <1>2 DEF Moved
<1>4. PICK a \in Applications : a = q.application
  BY Requested
<1>5. /\ Existing(a) /\ seen[g] = applications[a].status
      /\ Target(q) \in applicationTransitions[seen[g]]
      /\ applications'[a] # None
      /\ applications'[a].form = applications[a].form
      /\ applications'[a].status = Target(q)
  BY <1>2, <1>3, <1>4 DEF Moved
<1>6. /\ applications[a].status \in ApplicationStatus
      /\ ClientOf(a) \in Clients
  BY <1>5, Applied DEF IInv
<1>7. PICK k : k = [client |-> ClientOf(a), application |-> a,
                    status |-> IF q.verdict = "favourable"
                               THEN "verified" ELSE "rejected"]
  OBVIOUS
<1>8. kyc' = kyc \cup {k}
  BY <1>3, <1>4, <1>7 DEF ReviewKyc
<1>9. /\ k \in [client : Clients, application : Applications,
                status : {"verified", "rejected"}]
      /\ k.client = ClientOf(a)
  BY <1>6, <1>7
<1>10. \A r \in kyc : r.client # ClientOf(a)
  <2>1. known[g] = {}
    BY <1>2, <1>3 DEF Allowed
  <2>2. known[g] = Verdicts(ClientOf(a))
    BY <1>1, <1>2, <1>3, <1>4 DEF IInv, HandlerOk, Advance
  <2> QED
    BY <2>1, <2>2 DEF Verdicts
<1>11. OneVerdict'
  BY <1>8, <1>9, <1>10 DEF IInv, OneVerdict
<1>12. applications[a].status # "approved" /\ loans[a] = None
  BY <1>5, <1>6, Transitions DEF IInv, ApplicationOk
<1>13. ApplicationOk(a)'
  <2>1. CASE q.verdict = "favourable"
    <3>1. applications'[a].status = "kyc_verified"
      BY <1>2, <1>3, <1>5, <2>1 DEF Target
    <3>2. [client |-> applications'[a].form.client, application |-> a,
           status |-> "verified"] \in kyc'
      BY <1>5, <1>7, <1>8, <2>1 DEF ClientOf
    <3> QED
      BY <1>1, <1>12, <3>1, <3>2 DEF ApplicationOk, Existing, Verified, ClientOf
  <2>2. CASE q.verdict # "favourable"
    <3>1. q.verdict = "unfavourable"
      BY <2>2, Requested
    <3>2. applications'[a].status = "rejected"
      BY <1>2, <1>3, <1>5, <3>1 DEF Target
    <3> QED
      BY <1>1, <1>12, <3>2 DEF ApplicationOk, Existing
  <2> QED
    BY <2>1, <2>2
<1> QED
  <2>1. /\ kyc' \subseteq [client : Clients, application : Applications,
                           status : {"verified", "rejected"}]
        /\ kyc \subseteq kyc'
        /\ \A r \in kyc' : r \in kyc \/ r.client = ClientOf(a)
    BY <1>3, <1>4, <1>8, <1>9 DEF IInv, TypeOK
  <2>2. /\ risk' \in [Applications -> {"approved", "declined", None}]
        /\ DOMAIN loans' = Applications
        /\ \A b \in Applications :
             loans'[b] # None => loans'[b] \in Seq(ScheduleRow)
    BY <1>1 DEF IInv, TypeOK
  <2> QED
    BY <1>1, <1>2, <1>3, <1>4, <1>11, <1>13, <2>1, <2>2, Committed

LEMMA AssessKeeps ==
  ASSUME IInv, NEW g \in Handlers, AssessApplicationRisk(g)
  PROVE  IInv'
PROOF
<1>1. Advance(g, "assess") /\ UNCHANGED <<clients, kyc, loans, disbursed>>
  BY DEF AssessApplicationRisk
<1>2. Moved(g) /\ Released(g) /\ request[g].op = "assess"
  BY <1>1, AdvanceMoves
<1>3. PICK q \in Requests : q = request[g]
  BY <1>2 DEF Moved
<1>4. PICK a \in Applications : a = q.application
  BY Requested
<1>5. /\ Existing(a) /\ seen[g] = applications[a].status
      /\ Target(q) \in applicationTransitions[seen[g]]
      /\ applications'[a] # None
      /\ applications'[a].form = applications[a].form
      /\ applications'[a].status = Target(q)
  BY <1>2, <1>3, <1>4 DEF Moved
<1>6. applications[a].status \in ApplicationStatus
  BY <1>5, Applied DEF IInv
<1>7. /\ risk' = [risk EXCEPT ![a] =
           IF q.verdict = "favourable" THEN "approved" ELSE "declined"]
      /\ risk \in [Applications -> {"approved", "declined", None}]
  BY <1>3, <1>4 DEF AssessApplicationRisk, IInv, TypeOK
<1>8. applications[a].status # "approved" /\ loans[a] = None
  BY <1>5, <1>6, Transitions DEF IInv, ApplicationOk
<1>9. ApplicationOk(a)'
  <2>1. CASE q.verdict = "favourable"
    <3>1. applications'[a].status = "risk_assessed"
      BY <1>2, <1>3, <1>5, <2>1 DEF Target
    <3>2. applications[a].status = "kyc_verified"
      BY <1>5, <1>6, <3>1, Transitions
    <3>3. [client |-> applications'[a].form.client, application |-> a,
           status |-> "verified"] \in kyc'
      BY <1>1, <1>5, <3>2 DEF IInv, ApplicationOk, Verified, ClientOf
    <3>4. risk'[a] = "approved"
      BY <1>7, <2>1
    <3> QED
      BY <1>1, <1>8, <3>1, <3>3, <3>4
      DEF ApplicationOk, Existing, Verified, ClientOf
  <2>2. CASE q.verdict # "favourable"
    <3>1. q.verdict = "unfavourable"
      BY <2>2, Requested
    <3>2. applications'[a].status = "rejected"
      BY <1>2, <1>3, <1>5, <3>1 DEF Target
    <3> QED
      BY <1>1, <1>8, <3>2 DEF ApplicationOk, Existing
  <2> QED
    BY <2>1, <2>2
<1>10. /\ risk' \in [Applications -> {"approved", "declined", None}]
       /\ \A b \in Applications \ {a} : risk'[b] = risk[b]
  BY <1>7
<1>11. OneVerdict'
  BY <1>1 DEF IInv, OneVerdict
<1> QED
  BY <1>1, <1>2, <1>3, <1>4, <1>9, <1>10, <1>11, Committed DEF IInv, TypeOK

LEMMA DecideKeeps ==
  ASSUME IInv, NEW g \in Handlers, NEW today \in ApprovalDays,
         DecideApplication(g, today)
  PROVE  IInv'
PROOF
<1>1. Advance(g, "decide") /\ UNCHANGED <<clients, kyc, risk, disbursed>>
  BY DEF DecideApplication
<1>2. Moved(g) /\ Released(g) /\ Allowed(g) /\ request[g].op = "decide"
  BY <1>1, AdvanceMoves
<1>3. PICK q \in Requests : q = request[g]
  BY <1>2 DEF Moved
<1>4. PICK a \in Applications : a = q.application
  BY Requested
<1>5. /\ Existing(a) /\ seen[g] = applications[a].status
      /\ Target(q) \in applicationTransitions[seen[g]]
      /\ applications'[a] # None
      /\ applications'[a].form = applications[a].form
      /\ applications'[a].status = Target(q)
      /\ applications'[a].approvedBy = q.user
  BY <1>2, <1>3, <1>4 DEF Moved
<1>6. /\ applications[a].status \in ApplicationStatus
      /\ applications[a].form \in Form
  BY <1>5, Applied DEF IInv
<1>7. PICK form \in Form : form = applications[a].form
  BY <1>6
<1>8. PICK s : s = BuildRepaymentSchedule(form.requestedAmount, form.terms, today)
  OBVIOUS
<1>9. s \in Seq(ScheduleRow) /\ s # None
  <2>1. form.requestedAmount \in Nat /\ form.terms \in ProductTerms
        /\ today \in Date
    BY OriginationAssumption DEF Form
  <2>2. Divides(s, form.requestedAmount, form.terms, today)
    BY <1>8, <2>1, ScheduleFields
  <2> QED
    BY <2>2, OriginationAssumption DEF Divides
<1>10. loans' = IF q.verdict = "favourable" THEN [loans EXCEPT ![a] = s]
                ELSE loans
  BY <1>3, <1>4, <1>7, <1>8 DEF DecideApplication
<1>11. applications[a].status # "approved" /\ loans[a] = None
  BY <1>5, <1>6, Transitions DEF IInv, ApplicationOk
<1>12. ApplicationOk(a)'
  <2>1. CASE q.verdict = "favourable"
    <3>1. applications'[a].status = "approved"
      BY <1>2, <1>3, <1>5, <2>1 DEF Target
    <3>2. applications[a].status = "risk_assessed"
      BY <1>5, <1>6, <3>1, Transitions
    <3>3. /\ [client |-> applications'[a].form.client, application |-> a,
              status |-> "verified"] \in kyc'
          /\ risk'[a] = "approved"
      BY <1>1, <1>5, <3>2 DEF IInv, ApplicationOk, Verified, ClientOf
    <3>4. loans'[a] # None
      BY <1>9, <1>10, <2>1 DEF IInv, TypeOK
    <3>5. applications'[a].approvedBy
            \in Users \ {applications'[a].form.createdBy}
      BY <1>2, <1>3, <1>4, <1>5, Requested DEF Allowed
    <3> QED
      BY <1>5, <3>1, <3>3, <3>4, <3>5
      DEF ApplicationOk, Existing, Verified, ClientOf
  <2>2. CASE q.verdict # "favourable"
    <3>1. q.verdict = "unfavourable"
      BY <2>2, Requested
    <3>2. applications'[a].status = "rejected"
      BY <1>2, <1>3, <1>5, <3>1 DEF Target
    <3>3. loans'[a] = None
      BY <1>10, <1>11, <2>2
    <3> QED
      BY <3>2, <3>3 DEF ApplicationOk, Existing
  <2> QED
    BY <2>1, <2>2
<1>13. /\ DOMAIN loans' = Applications
       /\ \A b \in Applications :
            loans'[b] # None => loans'[b] \in Seq(ScheduleRow)
       /\ \A b \in Applications \ {a} : loans'[b] = loans[b]
  BY <1>9, <1>10 DEF IInv, TypeOK
<1>14. OneVerdict'
  BY <1>1 DEF IInv, OneVerdict
<1> QED
  BY <1>1, <1>2, <1>3, <1>4, <1>12, <1>13, <1>14, Committed DEF IInv, TypeOK

LEMMA CreateClientKeeps ==
  ASSUME IInv, NEW c \in Clients, CreateClient(c)
  PROVE  IInv'
PROOF
<1>1. /\ clients' = clients \cup {c}
      /\ UNCHANGED <<applications, kyc, risk, loans, disbursed, history, lock,
                     pc, request, seen, known>>
  BY DEF CreateClient, reads
<1>2. TypeOK'
  BY <1>1 DEF IInv, TypeOK
<1>3. \A h \in Handlers : HandlerOk(h)'
  BY <1>1 DEF IInv, HandlerOk, Existing, ClientOf, Verdicts
<1>4. \A a \in Applications : ApplicationOk(a)'
  BY <1>1 DEF IInv, ApplicationOk, Existing, Verified, ClientOf
<1>5. OneVerdict'
  BY <1>1 DEF IInv, OneVerdict
<1> QED
  BY <1>2, <1>3, <1>4, <1>5 DEF IInv

LEMMA CreateApplicationKeeps ==
  ASSUME IInv, NEW a \in Applications, NEW form \in Forms,
         CreateLoanApplication(a, form)
  PROVE  IInv'
PROOF
<1>1. /\ ~Existing(a)
      /\ applications' = [applications EXCEPT ![a] =
           [form |-> form, status |-> "draft", approvedBy |-> None]]
      /\ history' = [history EXCEPT ![a] = <<<<None, "draft">>>>]
      /\ UNCHANGED <<clients, kyc, risk, loans, disbursed, lock, pc, request,
                     seen, known>>
  BY DEF CreateLoanApplication, reads
<1>2. PICK r : r = [form |-> form, status |-> "draft", approvedBy |-> None]
  OBVIOUS
<1>3. r \in Application
  BY <1>2 DEF Application, ApplicationStatus
<1>4. /\ applications \in [Applications -> Application \cup {None}]
      /\ applications' = [applications EXCEPT ![a] = r]
  BY <1>1, <1>2 DEF IInv, TypeOK
<1>5. /\ applications' \in [Applications -> Application \cup {None}]
      /\ applications'[a] = r /\ r.status = "draft"
      /\ \A b \in Applications \ {a} : applications'[b] = applications[b]
  BY <1>2, <1>3, <1>4
<1>6. TypeOK'
  <2>1. history' \in [Applications -> Seq(Transition)]
    <3>1. <<None, "draft">> \in Transition
      BY DEF Transition, ApplicationStatus
    <3>2. <<<<None, "draft">>>> \in Seq(Transition)
      BY <3>1
    <3>3. history \in [Applications -> Seq(Transition)]
      BY DEF IInv, TypeOK
    <3> QED
      BY <1>1, <3>2, <3>3
  <2> QED
    BY <1>1, <1>5, <2>1 DEF IInv, TypeOK
<1>7. ASSUME NEW h \in Handlers PROVE HandlerOk(h)'
  <2>1. HandlerOk(h)
    BY DEF IInv
  <2> SUFFICES ASSUME pc[h] # "idle" PROVE HandlerOk(h)'
    BY <1>1 DEF HandlerOk
  <2>2. PICK q \in Requests : q = request[h] /\ Existing(q.application)
    BY <2>1 DEF HandlerOk
  <2>3. PICK b \in Applications : b = q.application
    BY Requested
  <2>4. applications'[b] = applications[b]
    BY <1>1, <1>5, <2>2, <2>3
  <2> QED
    BY <1>1, <2>1, <2>2, <2>3, <2>4 DEF HandlerOk, Existing, ClientOf, Verdicts
<1>8. ASSUME NEW b \in Applications PROVE ApplicationOk(b)'
  <2>1. ApplicationOk(b)
    BY DEF IInv
  <2>2. CASE b = a
    <3>1. loans[a] = None
      BY <1>1, <2>1, <2>2 DEF ApplicationOk
    <3>2. loans'[a] = None /\ applications'[a].status = "draft"
      BY <1>1, <1>5, <3>1
    <3> QED
      BY <2>2, <3>2 DEF ApplicationOk
  <2>3. CASE b # a
    <3>1. applications'[b] = applications[b]
      BY <1>5, <2>3
    <3> QED
      BY <1>1, <2>1, <3>1 DEF ApplicationOk, Existing, Verified, ClientOf
  <2> QED
    BY <2>2, <2>3
<1>9. OneVerdict'
  BY <1>1 DEF IInv, OneVerdict
<1> QED
  BY <1>6, <1>7, <1>8, <1>9 DEF IInv

LEMMA DisburseLoanKeeps ==
  ASSUME IInv, NEW a \in Applications, DisburseLoan(a)
  PROVE  IInv'
PROOF
<1>1. /\ disbursed' = disbursed \cup {a}
      /\ history' =
           [history EXCEPT ![a] = Append(history[a], <<"approved", "disbursed">>)]
      /\ UNCHANGED <<clients, applications, kyc, risk, loans, lock, pc, request,
                     seen, known>>
  BY DEF DisburseLoan, reads
<1>2. TypeOK'
  <2>1. history \in [Applications -> Seq(Transition)]
    BY DEF IInv, TypeOK
  <2>2. <<"approved", "disbursed">> \in Transition
    BY DEF Transition, ApplicationStatus
  <2>3. Append(history[a], <<"approved", "disbursed">>) \in Seq(Transition)
    BY <2>1, <2>2
  <2>4. history' \in [Applications -> Seq(Transition)]
    BY <1>1, <2>1, <2>3
  <2> QED
    BY <1>1, <2>4 DEF IInv, TypeOK
<1>3. \A h \in Handlers : HandlerOk(h)'
  BY <1>1 DEF IInv, HandlerOk, Existing, ClientOf, Verdicts
<1>4. \A b \in Applications : ApplicationOk(b)'
  BY <1>1 DEF IInv, ApplicationOk, Existing, Verified, ClientOf
<1>5. OneVerdict'
  BY <1>1 DEF IInv, OneVerdict
<1> QED
  BY <1>2, <1>3, <1>4, <1>5 DEF IInv

(* A handler takes a row or reads, the tables stay. *)
LEMMA TablesStay ==
  ASSUME IInv, UNCHANGED tables
  PROVE  (\A a \in Applications : ApplicationOk(a)') /\ OneVerdict'
PROOF
<1>1. \A a \in Applications : ApplicationOk(a)'
  BY DEF IInv, tables, ApplicationOk, Existing, Verified, ClientOf
<1>2. OneVerdict'
  BY DEF IInv, tables, OneVerdict
<1> QED
  BY <1>1, <1>2

LEMMA LockApplicationKeeps ==
  ASSUME IInv, NEW g \in Handlers, NEW q \in Requests, LockApplication(g, q)
  PROVE  IInv'
PROOF
<1>1. PICK a \in Applications : a = q.application
  BY Requested
<1>2. /\ pc[g] = "idle" /\ Existing(a) /\ lock[a] = None
      /\ lock' = [lock EXCEPT ![a] = g]
      /\ request' = [request EXCEPT ![g] = q]
      /\ pc' = [pc EXCEPT ![g] = "client"]
      /\ UNCHANGED <<tables, seen, known>>
  BY <1>1 DEF LockApplication
<1>3. TypeOK
  BY DEF IInv
<1>4. a \in Rows
  BY DEF Rows
<1>5. TypeOK'
  BY <1>2, <1>3, <1>4 DEF TypeOK, tables
<1>6. ASSUME NEW h \in Handlers PROVE HandlerOk(h)'
  <2>1. HandlerOk(h)
    BY DEF IInv
  <2>2. CASE h = g
    <3>1. pc'[h] = "client" /\ request'[h] = q /\ lock'[a] = h
      BY <1>2, <1>3, <1>4, <2>2 DEF TypeOK
    <3>2. Existing(a)'
      BY <1>2 DEF Existing, tables
    <3> QED
      BY <1>1, <3>1, <3>2 DEF HandlerOk, Existing
  <2>3. CASE h # g
    <3>1. pc'[h] = pc[h] /\ request'[h] = request[h]
      BY <1>2, <1>3, <2>3 DEF TypeOK
    <3>2. \A r \in Rows : lock[r] = h => lock'[r] = h
      BY <1>2, <1>3, <1>4, OriginationAssumption DEF TypeOK
    <3> SUFFICES ASSUME pc[h] # "idle" PROVE HandlerOk(h)'
      BY <3>1 DEF HandlerOk
    <3>3. PICK b \in Applications : b = request[h].application
      BY <2>1, Requested DEF HandlerOk
    <3>4. Existing(b) /\ b \in Rows /\ ClientOf(b) \in Rows
      BY <1>3, <2>1, <3>3, Applied DEF HandlerOk
    <3> QED
      BY <1>2, <2>1, <3>1, <3>2, <3>3, <3>4
      DEF HandlerOk, Existing, ClientOf, Verdicts, tables
  <2> QED
    BY <2>2, <2>3
<1> QED
  BY <1>2, <1>5, <1>6, TablesStay DEF IInv

LEMMA LockClientKeeps ==
  ASSUME IInv, NEW g \in Handlers, LockClient(g)
  PROVE  IInv'
PROOF
<1>1. TypeOK /\ HandlerOk(g) /\ pc[g] = "client"
  BY DEF IInv, LockClient
<1>2. PICK q \in Requests : q = request[g]
  BY <1>1 DEF HandlerOk
<1>3. PICK a \in Applications : a = q.application
  BY Requested
<1>4. Existing(a) /\ lock[a] = g
  BY <1>1, <1>2, <1>3 DEF HandlerOk
<1>5. PICK c \in Clients : c = ClientOf(a) /\ c \in Rows /\ a \in Rows
  BY <1>1, <1>4, Applied
<1>6. /\ lock[c] = None
      /\ lock' = [lock EXCEPT ![c] = g]
      /\ seen' = [seen EXCEPT ![g] = applications[a].status]
      /\ pc' = [pc EXCEPT ![g] = IF q.op = "review" THEN "kyc" ELSE "ready"]
      /\ UNCHANGED <<tables, request, known>>
  BY <1>2, <1>3, <1>5 DEF LockClient
<1>7. TypeOK'
  <2>1. applications[a].status \in ApplicationStatus
    BY <1>1, <1>4, Applied
  <2> QED
    BY <1>1, <1>5, <1>6, <2>1 DEF TypeOK, tables
<1>8. \A r \in Rows : \A h \in Handlers : lock[r] = h => lock'[r] = h
  BY <1>1, <1>5, <1>6, OriginationAssumption DEF TypeOK
<1>9. ASSUME NEW h \in Handlers PROVE HandlerOk(h)'
  <2>1. HandlerOk(h)
    BY DEF IInv
  <2>2. CASE h = g
    <3>1. /\ pc'[h] = IF q.op = "review" THEN "kyc" ELSE "ready"
          /\ request'[h] = q
          /\ lock'[c] = h
          /\ seen'[h] = applications[a].status
      BY <1>1, <1>2, <1>5, <1>6, <2>2 DEF TypeOK
    <3>2. lock'[a] = h
      BY <1>4, <1>5, <1>8, <2>2
    <3> QED
      BY <1>3, <1>4, <1>5, <1>6, <3>1, <3>2
      DEF HandlerOk, Existing, ClientOf, Verdicts, tables
  <2>3. CASE h # g
    <3>1. pc'[h] = pc[h] /\ seen'[h] = seen[h]
      BY <1>1, <1>6, <2>3 DEF TypeOK
    <3> SUFFICES ASSUME pc[h] # "idle" PROVE HandlerOk(h)'
      BY <3>1 DEF HandlerOk
    <3>2. PICK b \in Applications : b = request[h].application
      BY <2>1, Requested DEF HandlerOk
    <3>3. Existing(b) /\ b \in Rows /\ ClientOf(b) \in Rows
      BY <1>1, <2>1, <3>2, Applied DEF HandlerOk
    <3> QED
      BY <1>6, <1>8, <2>1, <3>1, <3>2, <3>3
      DEF HandlerOk, Existing, ClientOf, Verdicts, tables
  <2> QED
    BY <2>2, <2>3
<1> QED
  BY <1>6, <1>7, <1>9, TablesStay DEF IInv

LEMMA ReadKycKeeps ==
  ASSUME IInv, NEW g \in Handlers, ReadKyc(g)
  PROVE  IInv'
PROOF
<1>1. PICK v : v = Verdicts(ClientOf(request[g].application))
  OBVIOUS
<1>2. /\ pc[g] = "kyc" /\ known' = [known EXCEPT ![g] = v]
      /\ pc' = [pc EXCEPT ![g] = "ready"]
      /\ UNCHANGED <<tables, lock, request, seen>>
  BY <1>1 DEF ReadKyc
<1>3. TypeOK
  BY DEF IInv
<1>4. TypeOK'
  <2>1. v \in SUBSET {"verified", "rejected"}
    BY <1>1, <1>3 DEF TypeOK, Verdicts
  <2> QED
    BY <1>2, <1>3, <2>1 DEF TypeOK, tables
<1>5. ASSUME NEW h \in Handlers PROVE HandlerOk(h)'
  <2>1. HandlerOk(h)
    BY DEF IInv
  <2>2. CASE h = g
    <3>1. pc'[h] = "ready" /\ known'[h] = v
      BY <1>2, <1>3, <2>2 DEF TypeOK
    <3>2. Verdicts(ClientOf(request[g].application))' = v
      BY <1>1, <1>2 DEF Verdicts, ClientOf, tables
    <3> QED
      BY <1>2, <2>1, <2>2, <3>1, <3>2 DEF HandlerOk, Existing, ClientOf, tables
  <2>3. CASE h # g
    <3>1. pc'[h] = pc[h] /\ known'[h] = known[h]
      BY <1>2, <1>3, <2>3 DEF TypeOK
    <3> QED
      BY <1>2, <2>1, <3>1 DEF HandlerOk, Existing, ClientOf, Verdicts, tables
  <2> QED
    BY <2>2, <2>3
<1> QED
  BY <1>2, <1>4, <1>5, TablesStay DEF IInv

LEMMA RollbackKeeps ==
  ASSUME IInv, NEW g \in Handlers, Released(g), UNCHANGED tables
  PROVE  IInv'
PROOF
<1>1. TypeOK'
  <2>1. TypeOK
    BY DEF IInv
  <2> QED
    BY <2>1, ReleasedFacts DEF TypeOK, tables
<1>2. \A h \in Handlers : HandlerOk(h)'
  BY HandlersAfterRelease DEF tables
<1> QED
  BY <1>1, <1>2, TablesStay DEF IInv

LEMMA NextKeeps ==
  ASSUME IInv, [Next]_vars
  PROVE  IInv'
PROOF
<1>1. CASE UNCHANGED vars
  BY <1>1 DEF vars, tables, reads, IInv, TypeOK, HandlerOk, ApplicationOk,
              OneVerdict, Existing, Verified, ClientOf, Verdicts
<1>2. ASSUME NEW c \in Clients, CreateClient(c) PROVE IInv'
  BY <1>2, CreateClientKeeps
<1>3. ASSUME NEW a \in Applications, NEW form \in Forms,
             CreateLoanApplication(a, form)
      PROVE  IInv'
  BY <1>3, CreateApplicationKeeps
<1>4. ASSUME NEW h \in Handlers, NEW q \in Requests, LockApplication(h, q)
      PROVE  IInv'
  BY <1>4, LockApplicationKeeps
<1>5. ASSUME NEW h \in Handlers, LockClient(h) PROVE IInv'
  BY <1>5, LockClientKeeps
<1>6. ASSUME NEW h \in Handlers, ReadKyc(h) PROVE IInv'
  BY <1>6, ReadKycKeeps
<1>7. ASSUME NEW h \in Handlers, Commit(h) PROVE IInv'
  BY <1>7, SubmitKeeps, ReviewKeeps, AssessKeeps, DecideKeeps DEF Commit
<1>8. ASSUME NEW h \in Handlers, Refuse(h) \/ Break(h) PROVE IInv'
  BY <1>8, RollbackKeeps DEF Refuse, Break
<1>9. ASSUME NEW a \in Applications, DisburseLoan(a) PROVE IInv'
  BY <1>9, DisburseLoanKeeps
<1> QED
  BY <1>1, <1>2, <1>3, <1>4, <1>5, <1>6, <1>7, <1>8, <1>9 DEF Next

(* The invariant, of every behaviour. *)
THEOREM Invariance == Spec => []IInv
PROOF
<1>1. Init => IInv
  BY InitIInv
<1>2. IInv /\ [Next]_vars => IInv'
  BY NextKeeps
<1> QED
  BY <1>1, <1>2, PTL DEF Spec

(* Every variable has its type, and no schedule has an amount below zero.  *)
THEOREM TypesHold == Spec => []TypeOK
PROOF
<1>1. IInv => TypeOK
  BY DEF IInv
<1> QED
  BY <1>1, Invariance, PTL

(* What a request decides by is still so when it writes, however many      *)
(* requests there are for one client.                                      *)
THEOREM ReadsAreCurrent == Spec => []ReadsStayCurrent
PROOF
<1>1. IInv => ReadsStayCurrent
  BY DEF IInv, HandlerOk, ReadsStayCurrent
<1> QED
  BY <1>1, Invariance, PTL

(* No client is reviewed twice. *)
THEOREM ClientsReviewedOnce == Spec => []OneVerdict
PROOF
<1>1. IInv => OneVerdict
  BY DEF IInv
<1> QED
  BY <1>1, Invariance, PTL

(* What becomes a loan went through the review, the assessment and the     *)
(* decision of a second person.                                            *)
THEOREM LoansAreUnderwritten == Spec => []Underwritten
PROOF
<1>1. IInv => Underwritten
  BY DEF IInv, ApplicationOk, Verified, Underwritten
<1> QED
  BY <1>1, Invariance, PTL

-----------------------------------------------------------------------------
(* The timeline and the schedules follow from the invariant, one step at a *)
(* time.                                                                   *)

(* An allowed transition from where a timeline ends leads it on.           *)
LEMMA LeadsOn ==
  ASSUME NEW steps \in Seq(Transition), NEW status,
         NEW next \in timelineTransitions[status], Leads(steps, status)
  PROVE  Leads(Append(steps, <<status, next>>), next)
PROOF
<1>1. PICK n \in Nat : n = Len(steps)
  OBVIOUS
<1>2. PICK t : t = Append(steps, <<status, next>>)
  OBVIOUS
<1>3. /\ n # 0 /\ steps[1] = <<None, "draft">> /\ steps[n][2] = status
      /\ \A i \in 2..n : /\ steps[i][1] = steps[i - 1][2]
                         /\ steps[i][2] \in timelineTransitions[steps[i][1]]
  BY <1>1 DEF Leads
<1>4. /\ Len(t) = n + 1
      /\ \A i \in 1..n : t[i] = steps[i]
      /\ t[n + 1] = <<status, next>>
  BY <1>1, <1>2
<1>5. ASSUME NEW i \in 2..(n + 1)
      PROVE  /\ t[i][1] = t[i - 1][2]
             /\ t[i][2] \in timelineTransitions[t[i][1]]
  <2>1. CASE i = n + 1
    <3>1. t[i] = <<status, next>> /\ t[i - 1] = steps[n]
      BY <1>3, <1>4, <2>1
    <3> QED
      BY <1>3, <3>1
  <2>2. CASE i # n + 1
    <3>1. i \in 2..n /\ i \in 1..n /\ i - 1 \in 1..n
      BY <2>2
    <3>2. t[i] = steps[i] /\ t[i - 1] = steps[i - 1]
      BY <1>4, <3>1
    <3> QED
      BY <1>3, <3>1, <3>2
  <2> QED
    BY <2>1, <2>2
<1>6. t # <<>> /\ t[1] = <<None, "draft">> /\ t[Len(t)][2] = next
  BY <1>3, <1>4
<1> QED
  BY <1>2, <1>4, <1>5, <1>6 DEF Leads

(* What commits has moved one application, under the locks of its client.  *)
LEMMA CommitMoves ==
  ASSUME IInv, NEW g \in Handlers, Commit(g)
  PROVE  Moved(g)
PROOF
  BY AdvanceMoves
  DEF Commit, SubmitLoanApplication, ReviewKyc, AssessApplicationRisk,
      DecideApplication

(* What the timeline of one application tells. *)
Told(a) ==
  /\ a \in disbursed =>
       /\ Existing(a) /\ applications[a].status = "approved"
       /\ Leads(history[a], "disbursed")
  /\ Existing(a) /\ a \notin disbursed =>
       Leads(history[a], applications[a].status)

LEMMA ToldUnmoved ==
  ASSUME NEW b \in Applications, Told(b),
         applications'[b] = applications[b], history'[b] = history[b],
         b \in disbursed' <=> b \in disbursed
  PROVE  Told(b)'
PROOF
  BY DEF Told, Existing

LEMMA CreatedTold ==
  ASSUME IInv, \A b \in Applications : Told(b),
         NEW a \in Applications, NEW form \in Forms,
         CreateLoanApplication(a, form), NEW b \in Applications
  PROVE  Told(b)'
PROOF
<1>1. PICK r : r = [form |-> form, status |-> "draft", approvedBy |-> None]
  OBVIOUS
<1>2. /\ applications' = [applications EXCEPT ![a] = r]
      /\ history' = [history EXCEPT ![a] = <<<<None, "draft">>>>]
      /\ disbursed' = disbursed /\ ~Existing(a)
  BY <1>1 DEF CreateLoanApplication
<1>3. /\ applications \in [Applications -> Application \cup {None}]
      /\ history \in [Applications -> Seq(Transition)]
  BY DEF IInv, TypeOK
<1>4. Leads(<<<<None, "draft">>>>, "draft")
  BY DEF Leads
<1>5. CASE b = a
  <2>1. applications'[b] = r /\ r.status = "draft"
        /\ history'[b] = <<<<None, "draft">>>>
    BY <1>1, <1>2, <1>3, <1>5
  <2>2. b \notin disbursed'
    BY <1>2, <1>5 DEF Told
  <2> QED
    BY <1>4, <2>1, <2>2 DEF Told
<1>6. CASE b # a
  <2>1. applications'[b] = applications[b] /\ history'[b] = history[b]
    BY <1>2, <1>3, <1>6
  <2> QED
    BY <1>2, <2>1, ToldUnmoved
<1> QED
  BY <1>5, <1>6

(* A request moves an application that is not approved yet, so that its    *)
(* timeline has not come to a disbursement.                                *)
LEMMA CommittedTold ==
  ASSUME IInv, \A b \in Applications : Told(b),
         NEW g \in Handlers, Commit(g), NEW b \in Applications
  PROVE  Told(b)'
PROOF
<1>1. Moved(g) /\ disbursed' = disbursed
  BY CommitMoves DEF Commit, SubmitLoanApplication, ReviewKyc,
                     AssessApplicationRisk, DecideApplication
<1>2. PICK q \in Requests : q = request[g]
  BY <1>1 DEF Moved
<1>3. PICK a \in Applications : a = q.application
  BY Requested
<1>4. /\ Existing(a) /\ seen[g] = applications[a].status
      /\ Target(q) \in applicationTransitions[seen[g]]
      /\ \A c \in Applications \ {a} : applications'[c] = applications[c]
      /\ applications'[a].status = Target(q)
      /\ history' = [history EXCEPT ![a] =
           Append(history[a], <<seen[g], Target(q)>>)]
  BY <1>1, <1>2, <1>3 DEF Moved
<1>5. history \in [Applications -> Seq(Transition)]
  BY DEF IInv, TypeOK
<1>6. seen[g] \in ApplicationStatus /\ seen[g] # "approved"
  BY <1>4, Applied, Transitions DEF IInv
<1>7. CASE b = a
  <2>1. a \notin disbursed /\ Leads(history[a], seen[g])
    BY <1>4, <1>6 DEF Told
  <2>2. Target(q) \in timelineTransitions[seen[g]]
    BY <1>4, <1>6
    DEF timelineTransitions, applicationTransitions, ApplicationStatus
  <2>3. Leads(Append(history[a], <<seen[g], Target(q)>>), Target(q))
    BY <1>5, <2>1, <2>2, LeadsOn
  <2>4. history'[b] = Append(history[a], <<seen[g], Target(q)>>)
    BY <1>4, <1>5, <1>7
  <2> QED
    BY <1>1, <1>4, <1>7, <2>1, <2>3, <2>4 DEF Told
<1>8. CASE b # a
  <2>1. applications'[b] = applications[b] /\ history'[b] = history[b]
    BY <1>4, <1>5, <1>8
  <2> QED
    BY <1>1, <2>1, ToldUnmoved
<1> QED
  BY <1>7, <1>8

(* There is a loan to disburse only where the application is approved, and *)
(* that is where its timeline has come to.                                 *)
LEMMA DisbursedTold ==
  ASSUME IInv, \A b \in Applications : Told(b),
         NEW a \in Applications, DisburseLoan(a), NEW b \in Applications
  PROVE  Told(b)'
PROOF
<1>1. /\ loans[a] # None /\ a \notin disbursed
      /\ disbursed' = disbursed \cup {a} /\ applications' = applications
      /\ history' =
           [history EXCEPT ![a] = Append(history[a], <<"approved", "disbursed">>)]
  BY DEF DisburseLoan
<1>2. history \in [Applications -> Seq(Transition)]
  BY DEF IInv, TypeOK
<1>3. Existing(a) /\ applications[a].status = "approved"
  BY <1>1 DEF IInv, ApplicationOk
<1>4. CASE b = a
  <2>1. Leads(history[a], "approved")
    BY <1>1, <1>3 DEF Told
  <2>2. "disbursed" \in timelineTransitions["approved"]
    BY DEF timelineTransitions, applicationTransitions
  <2>3. Leads(Append(history[a], <<"approved", "disbursed">>), "disbursed")
    BY <1>2, <2>1, <2>2, LeadsOn
  <2>4. history'[b] = Append(history[a], <<"approved", "disbursed">>)
    BY <1>1, <1>2, <1>4
  <2> QED
    BY <1>1, <1>3, <1>4, <2>3, <2>4 DEF Told, Existing
<1>5. CASE b # a
  <2>1. history'[b] = history[b] /\ (b \in disbursed' <=> b \in disbursed)
    BY <1>1, <1>2, <1>5
  <2> QED
    BY <1>1, <2>1, ToldUnmoved
<1> QED
  BY <1>4, <1>5

LEMMA TimelineKept ==
  ASSUME IInv, TimelineTellsStatus, [Next]_vars
  PROVE  TimelineTellsStatus'
PROOF
<1>1. \A b \in Applications : Told(b)
  BY DEF TimelineTellsStatus, Told
<1> SUFFICES ASSUME NEW b \in Applications PROVE Told(b)'
  BY DEF TimelineTellsStatus, Told
<1>2. CASE UNCHANGED <<applications, history, disbursed>>
  BY <1>1, <1>2, ToldUnmoved
<1>3. ASSUME NEW a \in Applications, NEW form \in Forms,
             CreateLoanApplication(a, form)
      PROVE  Told(b)'
  BY <1>1, <1>3, CreatedTold
<1>4. ASSUME NEW g \in Handlers, Commit(g) PROVE Told(b)'
  BY <1>1, <1>4, CommittedTold
<1>5. ASSUME NEW a \in Applications, DisburseLoan(a) PROVE Told(b)'
  BY <1>1, <1>5, DisbursedTold
<1>6. CASE UNCHANGED vars
  BY <1>2, <1>6 DEF vars, tables
<1>7. ASSUME NEW c \in Clients, CreateClient(c) PROVE Told(b)'
  BY <1>2, <1>7 DEF CreateClient
<1>8. ASSUME NEW h \in Handlers, NEW q \in Requests, LockApplication(h, q)
      PROVE  Told(b)'
  BY <1>2, <1>8 DEF LockApplication, tables
<1>9. ASSUME NEW h \in Handlers,
             LockClient(h) \/ ReadKyc(h) \/ Refuse(h) \/ Break(h)
      PROVE  Told(b)'
  BY <1>2, <1>9 DEF LockClient, ReadKyc, Refuse, Break, tables
<1> QED
  BY <1>3, <1>4, <1>5, <1>6, <1>7, <1>8, <1>9 DEF Next

(* The timeline of an application is a path of allowed transitions from    *)
(* the draft to the status it has, and from there to the disbursement      *)
(* exactly if disburseLoan disbursed it, whoever else writes at the time.  *)
THEOREM TimelinesLead == Spec => []TimelineTellsStatus
PROOF
<1>1. Init => TimelineTellsStatus
  BY DEF Init, TimelineTellsStatus, Existing
<1>2. IInv /\ TimelineTellsStatus /\ [Next]_vars => TimelineTellsStatus'
  BY TimelineKept
<1> QED
  BY <1>1, <1>2, Invariance, PTL DEF Spec

(* No step but a decision makes a loan, and none changes what was asked.   *)
LEMMA SchedulesKept ==
  ASSUME IInv, SchedulesRepay, [Next]_vars
  PROVE  SchedulesRepay'
PROOF
<1>1. ASSUME UNCHANGED loans,
             \A b \in Applications :
               Existing(b) => applications'[b].form = applications[b].form
      PROVE  SchedulesRepay'
  <2>1. \A b \in Applications : loans[b] # None => Existing(b)
    BY DEF IInv, ApplicationOk
  <2> QED
    BY <1>1, <2>1 DEF SchedulesRepay
<1>2. CASE UNCHANGED <<applications, loans>>
  BY <1>1, <1>2
<1>3. ASSUME NEW a \in Applications, NEW form \in Forms,
             CreateLoanApplication(a, form)
      PROVE  SchedulesRepay'
  <2>1. PICK r : r = [form |-> form, status |-> "draft", approvedBy |-> None]
    OBVIOUS
  <2>2. /\ applications' = [applications EXCEPT ![a] = r]
        /\ ~Existing(a) /\ UNCHANGED loans
    BY <1>3, <2>1 DEF CreateLoanApplication
  <2>3. applications \in [Applications -> Application \cup {None}]
    BY DEF IInv, TypeOK
  <2>4. \A b \in Applications :
          Existing(b) => applications'[b].form = applications[b].form
    BY <2>2, <2>3
  <2> QED
    BY <1>1, <2>2, <2>4
<1>4. ASSUME NEW g \in Handlers, Commit(g)
      PROVE  SchedulesRepay'
  <2>1. Moved(g)
    BY <1>4, CommitMoves
  <2>2. PICK q \in Requests : q = request[g]
    BY <2>1 DEF Moved
  <2>3. PICK a \in Applications : a = q.application
    BY Requested
  <2>4. /\ Existing(a)
        /\ \A b \in Applications \ {a} : applications'[b] = applications[b]
        /\ applications'[a].form = applications[a].form
    BY <2>1, <2>2, <2>3 DEF Moved
  <2>5. \A b \in Applications : applications'[b].form = applications[b].form
    BY <2>4
  <2>6. CASE UNCHANGED loans
    BY <1>1, <2>5, <2>6
  <2>7. ASSUME NEW today \in ApprovalDays, DecideApplication(g, today)
        PROVE  SchedulesRepay'
    <3>1. CASE q.verdict # "favourable"
      BY <2>2, <2>6, <2>7, <3>1 DEF DecideApplication
    <3>2. CASE q.verdict = "favourable"
      <4>1. PICK form \in Form : form = applications[a].form
        BY <2>4, Applied DEF IInv
      <4>2. today \in Date
        BY OriginationAssumption
      <4>3. PICK s : s = BuildRepaymentSchedule(form.requestedAmount,
                                               form.terms, today)
        OBVIOUS
      <4>4. loans' = [loans EXCEPT ![a] = s]
        BY <2>2, <2>3, <2>7, <3>2, <4>1, <4>3 DEF DecideApplication
      <4>5. Repays(s, form)
        BY <4>2, <4>3, BuiltScheduleRepays
      <4>6. DOMAIN loans = Applications
        BY DEF IInv, TypeOK
      <4> SUFFICES ASSUME NEW b \in Applications, loans'[b] # None
                   PROVE  Repays(loans'[b], applications'[b].form)
        BY DEF SchedulesRepay
      <4>7. CASE b = a
        <5>1. loans'[b] = s /\ applications'[b].form = form
          BY <2>5, <4>1, <4>4, <4>6, <4>7
        <5> QED
          BY <4>5, <5>1
      <4>8. CASE b # a
        <5>1. loans'[b] = loans[b] /\ applications'[b].form = applications[b].form
          BY <2>5, <4>4, <4>6, <4>8
        <5> QED
          BY <5>1 DEF SchedulesRepay
      <4> QED
        BY <4>7, <4>8
    <3> QED
      BY <3>1, <3>2
  <2> QED
    BY <1>4, <2>6, <2>7
    DEF Commit, SubmitLoanApplication, ReviewKyc, AssessApplicationRisk
<1>5. CASE UNCHANGED vars
  BY <1>2, <1>5 DEF vars, tables
<1>6. ASSUME NEW c \in Clients, CreateClient(c) PROVE SchedulesRepay'
  BY <1>2, <1>6 DEF CreateClient
<1>7. ASSUME NEW h \in Handlers, NEW q \in Requests, LockApplication(h, q)
      PROVE  SchedulesRepay'
  BY <1>2, <1>7 DEF LockApplication, tables
<1>8. ASSUME NEW h \in Handlers,
             LockClient(h) \/ ReadKyc(h) \/ Refuse(h) \/ Break(h)
      PROVE  SchedulesRepay'
  BY <1>2, <1>8 DEF LockClient, ReadKyc, Refuse, Break, tables
<1>9. ASSUME NEW a \in Applications, DisburseLoan(a) PROVE SchedulesRepay'
  BY <1>2, <1>9 DEF DisburseLoan
<1> QED
  BY <1>3, <1>4, <1>5, <1>6, <1>7, <1>8, <1>9 DEF Next

(* Every loan that any interleaving of requests has approved is repaid by  *)
(* its schedule.                                                           *)
THEOREM LoansAreRepaid == Spec => []SchedulesRepay
PROOF
<1>1. Init => SchedulesRepay
  BY DEF Init, SchedulesRepay
<1>2. IInv /\ SchedulesRepay /\ [Next]_vars => SchedulesRepay'
  BY SchedulesKept
<1> QED
  BY <1>1, <1>2, Invariance, PTL DEF Spec

-----------------------------------------------------------------------------
(* Each commit is one step of Underwriting, everything else a stutter.     *)

(* What the promise speaks of is in three tables. *)
LEMMA PromiseStutters ==
  ASSUME UNCHANGED <<applications, kyc, loans>>
  PROVE  UNCHANGED <<FormOf, StageOf, VerdictsOf, ApproverOf, LentOn>>
PROOF
  BY DEF FormOf, StageOf, VerdictsOf, ApproverOf, LentOn, Existing, Verdicts

(* What a commit moves is the stage of one application, to where the       *)
(* request was meant to take it from where the application was.            *)
LEMMA MoveOfStage ==
  ASSUME IInv, NEW g \in Handlers, Moved(g),
         NEW q \in Requests, q = request[g],
         NEW a \in Applications, a = q.application
  PROVE  /\ FormOf' = FormOf /\ FormOf[a] = applications[a].form
         /\ StageOf' = [StageOf EXCEPT ![a] = Target(q)]
         /\ StageOf[a] = applications[a].status
         /\ StageOf[a] \in ApplicationStatus
         /\ Target(q) \in applicationTransitions[StageOf[a]]
PROOF
<1>1. /\ Existing(a) /\ seen[g] = applications[a].status
      /\ Target(q) \in applicationTransitions[seen[g]]
      /\ \A b \in Applications \ {a} : applications'[b] = applications[b]
      /\ applications'[a] # None
      /\ applications'[a].form = applications[a].form
      /\ applications'[a].status = Target(q)
  BY DEF Moved
<1>2. applications[a].status \in ApplicationStatus
  BY <1>1, Applied DEF IInv
<1>3. FormOf' = FormOf
  BY <1>1 DEF FormOf, Existing
<1>4. StageOf' = [StageOf EXCEPT ![a] = Target(q)]
  BY <1>1 DEF StageOf, Existing
<1> QED
  BY <1>1, <1>2, <1>3, <1>4 DEF FormOf, StageOf

(* The approver stays the same unless the application ends up approved. *)
LEMMA ApproverStays ==
  ASSUME IInv, NEW g \in Handlers, Moved(g),
         Target(request[g]) # "approved"
  PROVE  ApproverOf' = ApproverOf
PROOF
<1>1. PICK q \in Requests : q = request[g]
  BY DEF Moved
<1>2. PICK a \in Applications : a = q.application
  BY Requested
<1>3. /\ Existing(a) /\ seen[g] = applications[a].status
      /\ Target(q) \in applicationTransitions[seen[g]]
      /\ \A b \in Applications \ {a} : applications'[b] = applications[b]
      /\ applications'[a].status # "approved"
  BY <1>1, <1>2 DEF Moved
<1>4. applications[a].status # "approved"
  <2>1. applications[a].status \in ApplicationStatus
    BY <1>3, Applied DEF IInv
  <2> QED
    BY <1>3, <2>1, Transitions
<1> QED
  BY <1>3, <1>4 DEF ApproverOf, Existing

LEMMA SubmitPromised ==
  ASSUME IInv, NEW g \in Handlers, SubmitLoanApplication(g)
  PROVE  Promise!Next
PROOF
<1>1. Advance(g, "submit") /\ UNCHANGED <<clients, kyc, risk, loans, disbursed>>
  BY DEF SubmitLoanApplication
<1>2. Moved(g) /\ request[g].op = "submit"
  BY <1>1, AdvanceMoves
<1>3. PICK q \in Requests : q = request[g]
  BY <1>2 DEF Moved
<1>4. PICK a \in Applications : a = q.application
  BY Requested
<1>5. Target(q) = "submitted"
  BY <1>2, <1>3 DEF Target
<1>6. /\ FormOf' = FormOf /\ StageOf' = [StageOf EXCEPT ![a] = "submitted"]
      /\ StageOf[a] \in ApplicationStatus
      /\ "submitted" \in applicationTransitions[StageOf[a]]
  BY <1>2, <1>3, <1>4, <1>5, MoveOfStage
<1>7. StageOf[a] = "draft"
  BY <1>6 DEF applicationTransitions, ApplicationStatus
<1>8. ApproverOf' = ApproverOf
  BY <1>2, <1>3, <1>5, ApproverStays
<1>9. UNCHANGED <<VerdictsOf, LentOn>>
  BY <1>1 DEF VerdictsOf, LentOn, Verdicts
<1>10. Promise!Submit(a)
  BY <1>6, <1>7, <1>8, <1>9 DEF Promise!Submit, Promise!Step
<1> QED
  BY <1>10 DEF Promise!Next

LEMMA ReviewPromised ==
  ASSUME IInv, NEW g \in Handlers, ReviewKyc(g)
  PROVE  Promise!Next
PROOF
<1>1. Advance(g, "review") /\ UNCHANGED <<clients, risk, loans, disbursed>>
  BY DEF ReviewKyc
<1>2. Moved(g) /\ Allowed(g) /\ request[g].op = "review"
  BY <1>1, AdvanceMoves
<1>3. PICK q \in Requests : q = request[g]
  BY <1>2 DEF Moved
<1>4. PICK a \in Applications : a = q.application
  BY Requested
<1>5. PICK verdict \in {"verified", "rejected"} :
        verdict = IF q.verdict = "favourable" THEN "verified" ELSE "rejected"
  OBVIOUS
<1>6. PICK to : to = IF verdict = "verified" THEN "kyc_verified" ELSE "rejected"
  OBVIOUS
<1>7. Target(q) = to
  BY <1>2, <1>3, <1>5, <1>6, Requested DEF Target
<1>8. Existing(a) /\ ClientOf(a) \in Clients
  BY <1>2, <1>3, <1>4, Applied DEF Moved, IInv
<1>9. /\ FormOf' = FormOf /\ FormOf[a].client = ClientOf(a)
      /\ StageOf' = [StageOf EXCEPT ![a] = to]
      /\ StageOf[a] = applications[a].status
      /\ StageOf[a] \in ApplicationStatus
      /\ to \in applicationTransitions[StageOf[a]]
  BY <1>2, <1>3, <1>4, <1>7, MoveOfStage DEF ClientOf
<1>10. Verdicts(ClientOf(a)) = {}
  BY <1>1, <1>2, <1>3, <1>4 DEF IInv, HandlerOk, Advance, Allowed
<1>11. StageOf[a] = "submitted"
  <2>1. ~ Verified(a)
    BY <1>8, <1>10 DEF Verified, Verdicts
  <2>2. StageOf[a] \notin {"kyc_verified", "risk_assessed"}
    BY <1>8, <1>9, <2>1 DEF IInv, ApplicationOk
  <2> QED
    BY <1>6, <1>9, <2>2 DEF applicationTransitions, ApplicationStatus
<1>12. VerdictsOf' = [VerdictsOf EXCEPT ![ClientOf(a)] = {verdict}]
  <2>1. PICK k : k = [client |-> ClientOf(a), application |-> a, status |-> verdict]
    OBVIOUS
  <2>2. kyc' = kyc \cup {k}
    BY <1>3, <1>4, <1>5, <2>1 DEF ReviewKyc
  <2>3. ASSUME NEW c \in Clients
        PROVE  Verdicts(c)' = IF c = ClientOf(a) THEN {verdict} ELSE Verdicts(c)
    <3>1. Verdicts(c)' = {r.status : r \in {r \in kyc' : r.client = c}}
      BY DEF Verdicts
    <3>2. k.client = ClientOf(a) /\ k.status = verdict
      BY <2>1
    <3>3. CASE c = ClientOf(a)
      <4>1. {r \in kyc' : r.client = c} = {k}
        BY <1>10, <2>2, <3>2, <3>3 DEF Verdicts
      <4> QED
        BY <3>1, <3>2, <3>3, <4>1
    <3>4. CASE c # ClientOf(a)
      <4>1. {r \in kyc' : r.client = c} = {r \in kyc : r.client = c}
        BY <2>2, <3>2, <3>4
      <4> QED
        BY <3>1, <3>4, <4>1 DEF Verdicts
    <3> QED
      BY <3>3, <3>4
  <2> QED
    BY <1>8, <2>3 DEF VerdictsOf
<1>13. ApproverOf' = ApproverOf
  BY <1>2, <1>3, <1>6, <1>7, ApproverStays
<1>14. UNCHANGED LentOn
  BY <1>1 DEF LentOn
<1>15. VerdictsOf[FormOf[a].client] = {}
  BY <1>8, <1>9, <1>10 DEF VerdictsOf
<1>16. Promise!Review(a, verdict)
  BY <1>6, <1>9, <1>11, <1>12, <1>13, <1>14, <1>15
     DEF Promise!Review, Promise!Step
<1> QED
  BY <1>16 DEF Promise!Next

(* A rejection by the assessment or the decision. *)
LEMMA DeclinePromised ==
  ASSUME IInv, NEW g \in Handlers, Moved(g), Target(request[g]) = "rejected",
         UNCHANGED <<kyc, loans>>
  PROVE  Promise!Next
PROOF
<1>1. PICK q \in Requests : q = request[g]
  BY DEF Moved
<1>2. PICK a \in Applications : a = q.application
  BY Requested
<1>3. /\ FormOf' = FormOf /\ StageOf' = [StageOf EXCEPT ![a] = "rejected"]
      /\ StageOf[a] \in ApplicationStatus
      /\ "rejected" \in applicationTransitions[StageOf[a]]
  BY <1>1, <1>2, MoveOfStage
<1>4. StageOf[a] \in {"submitted", "kyc_verified", "risk_assessed"}
  BY <1>3 DEF applicationTransitions, ApplicationStatus
<1>5. ApproverOf' = ApproverOf
  BY ApproverStays
<1>6. UNCHANGED <<VerdictsOf, LentOn>>
  BY DEF VerdictsOf, LentOn, Verdicts
<1>7. Promise!Decline(a)
  BY <1>3, <1>4, <1>5, <1>6 DEF Promise!Decline, Promise!Step
<1> QED
  BY <1>7 DEF Promise!Next

LEMMA AssessPromised ==
  ASSUME IInv, NEW g \in Handlers, AssessApplicationRisk(g)
  PROVE  Promise!Next
PROOF
<1>1. Advance(g, "assess") /\ UNCHANGED <<clients, kyc, loans, disbursed>>
  BY DEF AssessApplicationRisk
<1>2. Moved(g) /\ request[g].op = "assess"
  BY <1>1, AdvanceMoves
<1>3. PICK q \in Requests : q = request[g]
  BY <1>2 DEF Moved
<1>4. PICK a \in Applications : a = q.application
  BY Requested
<1>5. CASE q.verdict = "favourable"
  <2>1. Target(q) = "risk_assessed"
    BY <1>2, <1>3, <1>5 DEF Target
  <2>2. /\ FormOf' = FormOf
        /\ StageOf' = [StageOf EXCEPT ![a] = "risk_assessed"]
        /\ StageOf[a] \in ApplicationStatus
        /\ "risk_assessed" \in applicationTransitions[StageOf[a]]
    BY <1>2, <1>3, <1>4, <2>1, MoveOfStage
  <2>3. StageOf[a] = "kyc_verified"
    BY <2>2, Transitions
  <2>4. ApproverOf' = ApproverOf
    BY <1>2, <1>3, <2>1, ApproverStays
  <2>5. UNCHANGED <<VerdictsOf, LentOn>>
    BY <1>1 DEF VerdictsOf, LentOn, Verdicts
  <2>6. Promise!Assess(a)
    BY <2>2, <2>3, <2>4, <2>5 DEF Promise!Assess, Promise!Step
  <2> QED
    BY <2>6 DEF Promise!Next
<1>6. CASE q.verdict # "favourable"
  <2>1. q.verdict = "unfavourable"
    BY <1>6, Requested
  <2>2. Target(q) = "rejected"
    BY <1>2, <1>3, <2>1 DEF Target
  <2> QED
    BY <1>1, <1>2, <1>3, <2>2, DeclinePromised
<1> QED
  BY <1>5, <1>6

(* What an approval lends is what the schedule it makes adds up to, which  *)
(* is what was asked for.                                                  *)
LEMMA DecidePromised ==
  ASSUME IInv, SchedulesRepay', NEW g \in Handlers, NEW today \in ApprovalDays,
         DecideApplication(g, today)
  PROVE  Promise!Next
PROOF
<1>1. Advance(g, "decide") /\ UNCHANGED <<clients, kyc, risk, disbursed>>
  BY DEF DecideApplication
<1>2. Moved(g) /\ Allowed(g) /\ request[g].op = "decide" /\ IInv'
  BY <1>1, AdvanceMoves, DecideKeeps
<1>3. PICK q \in Requests : q = request[g]
  BY <1>2 DEF Moved
<1>4. PICK a \in Applications : a = q.application
  BY Requested
<1>5. CASE q.verdict = "favourable"
  <2>1. Target(q) = "approved"
    BY <1>2, <1>3, <1>5 DEF Target
  <2>2. /\ FormOf' = FormOf /\ FormOf[a] = applications[a].form
        /\ StageOf' = [StageOf EXCEPT ![a] = "approved"]
        /\ StageOf[a] \in ApplicationStatus
        /\ "approved" \in applicationTransitions[StageOf[a]]
    BY <1>2, <1>3, <1>4, <2>1, MoveOfStage
  <2>3. StageOf[a] = "risk_assessed"
    BY <2>2, Transitions
  <2>4. q.user \in Users /\ q.user # FormOf[a].createdBy
    BY <1>2, <1>3, <1>4, <1>5, <2>2, Requested DEF Allowed
  <2>5. /\ \A b \in Applications \ {a} : applications'[b] = applications[b]
        /\ applications'[a] # None /\ applications'[a].status = "approved"
        /\ applications'[a].approvedBy = q.user
        /\ applications'[a].form = applications[a].form
    BY <1>2, <1>3, <1>4, <2>1 DEF Moved
  <2>6. ApproverOf' = [ApproverOf EXCEPT ![a] = q.user]
    BY <2>5 DEF ApproverOf, Existing
  <2>7. /\ loans'[a] # None
        /\ \A b \in Applications \ {a} : loans'[b] = loans[b]
    <3>1. loans'[a] # None
      BY <1>2, <2>5 DEF IInv, ApplicationOk, Existing
    <3>2. PICK s : loans' = [loans EXCEPT ![a] = s]
      BY <1>3, <1>4, <1>5 DEF DecideApplication
    <3>3. DOMAIN loans = Applications
      BY DEF IInv, TypeOK
    <3> QED
      BY <3>1, <3>2, <3>3
  <2>8. Lent(loans'[a]) = applications[a].form.requestedAmount
    BY <2>5, <2>7 DEF SchedulesRepay, Repays, Lent
  <2>9. LentOn' = [LentOn EXCEPT ![a] = FormOf[a].requestedAmount]
    BY <2>2, <2>7, <2>8 DEF LentOn
  <2>10. UNCHANGED VerdictsOf
    BY <1>1 DEF VerdictsOf, Verdicts
  <2>11. Promise!Approve(a, q.user)
    BY <2>2, <2>3, <2>4, <2>6, <2>9, <2>10 DEF Promise!Approve, Promise!Step
  <2> QED
    BY <2>4, <2>11 DEF Promise!Next
<1>6. CASE q.verdict # "favourable"
  <2>1. q.verdict = "unfavourable"
    BY <1>6, Requested
  <2>2. Target(q) = "rejected"
    BY <1>2, <1>3, <2>1 DEF Target
  <2>3. UNCHANGED loans
    BY <1>3, <1>6 DEF DecideApplication
  <2> QED
    BY <1>1, <1>2, <1>3, <2>2, <2>3, DeclinePromised
<1> QED
  BY <1>5, <1>6

LEMMA CreatePromised ==
  ASSUME IInv, NEW a \in Applications, NEW form \in Forms,
         CreateLoanApplication(a, form)
  PROVE  Promise!Next
PROOF
<1>1. PICK r : r = [form |-> form, status |-> "draft", approvedBy |-> None]
  OBVIOUS
<1>2. applications[a] = None /\ UNCHANGED <<kyc, loans>>
  BY DEF CreateLoanApplication, Existing
<1>3. applications' = [applications EXCEPT ![a] = r]
  BY <1>1 DEF CreateLoanApplication
<1>4. r \in Application /\ r # None
  BY <1>1, OriginationAssumption DEF Application, ApplicationStatus
<1>5. /\ applications'[a] = r
      /\ \A b \in Applications \ {a} : applications'[b] = applications[b]
  BY <1>3 DEF IInv, TypeOK
<1>6. applications'[a] # None /\ r.form = form /\ r.status = "draft"
  BY <1>1, <1>4, <1>5
<1>7. FormOf' = [FormOf EXCEPT ![a] = form]
  BY <1>5, <1>6 DEF FormOf, Existing
<1>8. StageOf' = [StageOf EXCEPT ![a] = "draft"] /\ StageOf[a] = "none"
  BY <1>2, <1>5, <1>6 DEF StageOf, Existing
<1>9. ApproverOf' = ApproverOf
  BY <1>1, <1>2, <1>4, <1>5 DEF ApproverOf, Existing
<1>10. UNCHANGED <<VerdictsOf, LentOn>>
  BY <1>2 DEF VerdictsOf, LentOn, Verdicts
<1>11. Promise!Apply(a, form)
  BY <1>7, <1>8, <1>9, <1>10 DEF Promise!Apply
<1> QED
  BY <1>11 DEF Promise!Next

LEMMA InitPromised == Init => Promise!Init
PROOF
<1> SUFFICES ASSUME Init PROVE Promise!Init
  OBVIOUS
<1>1. \A c \in Clients : Verdicts(c) = {}
  BY DEF Init, Verdicts
<1>2. \A a \in Applications : ~ Existing(a) /\ loans[a] = None
  BY DEF Init, Existing
<1> QED
  BY <1>1, <1>2 DEF Promise!Init, FormOf, StageOf, VerdictsOf, ApproverOf, LentOn

LEMMA StepPromised ==
  IInv /\ SchedulesRepay' /\ [Next]_vars => [Promise!Next]_(Promise!vars)
PROOF
<1> SUFFICES ASSUME IInv, SchedulesRepay', [Next]_vars
             PROVE  Promise!Next \/ UNCHANGED Promise!vars
  OBVIOUS
<1>1. CASE UNCHANGED <<applications, kyc, loans>>
  BY <1>1, PromiseStutters DEF Promise!vars
<1>2. ASSUME NEW a \in Applications, NEW form \in Forms,
             CreateLoanApplication(a, form)
      PROVE  Promise!Next
  BY <1>2, CreatePromised
<1>3. ASSUME NEW g \in Handlers, Commit(g) PROVE Promise!Next
  BY <1>3, SubmitPromised, ReviewPromised, AssessPromised, DecidePromised DEF Commit
<1>4. UNCHANGED vars => UNCHANGED <<applications, kyc, loans>>
  BY DEF vars, tables
<1>5. ASSUME NEW h \in Handlers,
             \/ \E q \in Requests : LockApplication(h, q)
             \/ LockClient(h) \/ ReadKyc(h) \/ Refuse(h) \/ Break(h)
      PROVE  UNCHANGED <<applications, kyc, loans>>
  BY <1>5 DEF LockApplication, LockClient, ReadKyc, Refuse, Break, tables
<1>6. ASSUME NEW c \in Clients, CreateClient(c)
      PROVE  UNCHANGED <<applications, kyc, loans>>
  BY <1>6 DEF CreateClient
<1>7. ASSUME NEW a \in Applications, DisburseLoan(a)
      PROVE  UNCHANGED <<applications, kyc, loans>>
  BY <1>7 DEF DisburseLoan
<1> QED
  BY <1>1, <1>2, <1>3, <1>4, <1>5, <1>6, <1>7 DEF Next

(* Every behaviour of the requests side by side is one of Underwriting:    *)
(* requests come to the same as requests served one at a time.             *)
THEOREM OriginationImplementsUnderwriting == Spec => ImplementsUnderwriting
PROOF
  BY InitPromised, StepPromised, Invariance, LoansAreRepaid, PTL
     DEF Spec, ImplementsUnderwriting, Promise!Spec
=============================================================================
