----------------------- MODULE ServicingBalanceProofs -----------------------
(***************************************************************************)
(* The tables agree, for every value of the constants: what the loans owe, *)
(* what the payments took and what the schedules still have due are one    *)
(* balance, and the errors that would mean otherwise are never answered.   *)
(* The schedules tell what is still owed: an installment is open exactly   *)
(* as long as it owes something, and money is held as an overpayment only  *)
(* when the whole schedule is settled.  The ledger has every payment, and  *)
(* its principal lines tell what each loan has outstanding.  All of it     *)
(* holds beside the overdue job as well.                                   *)
(***************************************************************************)
EXTENDS LoanServicingProofs, OverdueDetection

-----------------------------------------------------------------------------
(* One installment. *)

(* No more principal was paid on an installment than was due, and a closed *)
(* one has no principal left.                                              *)
Sound(i) ==
  /\ i.principalPaid <= i.principalDue
  /\ i.status = "paid" => i.principalPaid = i.principalDue

(* A share raises the principal paid by its own principal. *)
LEMMA CreditPrincipal ==
  ASSUME NEW i \in Installment, NEW s \in Share
  PROVE  /\ Credit(i, s).principalPaid = i.principalPaid + s.principal
         /\ Credit(i, s).principalDue = i.principalDue
         /\ Credit(i, s).status = (IF Taken(s) = 0 THEN i.status ELSE s.status)
PROOF
<1>1. /\ s.principal \in Nat /\ s.penalty \in Nat /\ s.interest \in Nat
      /\ Taken(s) = s.principal + s.penalty + s.interest
  BY ShareParts
<1>2. i.principalPaid \in Nat
  BY DEF Installment
<1>3. CASE Taken(s) = 0
  <2>1. s.principal = 0
    BY <1>1, <1>3
  <2>2. Credit(i, s) = i
    BY <1>3 DEF Credit
  <2> QED
    BY <1>2, <1>3, <2>1, <2>2
<1>4. CASE Taken(s) # 0
  BY <1>4 DEF Credit, Installment
<1> QED
  BY <1>3, <1>4

(* A share of the walk covers the principal of an installment it closes.   *)
LEMMA ShareCloses ==
  ASSUME NEW i \in Installment, NEW amount \in Int,
         ShareOf(i, amount).status = "paid"
  PROVE  ShareOf(i, amount).principal >= PrincipalRemaining(i)
PROOF
<1>1. ShareOf(i, amount) = Waterfall(i, amount)
  BY DEF ShareOf, NoShare
<1> QED
  BY <1>1 DEF Waterfall

(* Crediting a share of the walk keeps an installment sound. *)
LEMMA CreditSound ==
  ASSUME NEW i \in Installment, NEW amount \in Int, Sound(i)
  PROVE  Sound(Credit(i, ShareOf(i, amount)))
PROOF
<1> DEFINE s == ShareOf(i, amount)
<1>1. s \in Share /\ s.principal \in 0..PrincipalRemaining(i)
  BY ShareOfAmount
<1>2. s.status = "paid" => s.principal >= PrincipalRemaining(i)
  BY ShareCloses
<1> HIDE DEF s
<1>3. i.principalPaid \in Nat /\ i.principalDue \in Nat
  BY DEF Installment
<1>4. PrincipalRemaining(i) = i.principalDue - i.principalPaid
  BY <1>3 DEF PrincipalRemaining, Positive, Sound
<1>5. /\ Credit(i, s).principalPaid = i.principalPaid + s.principal
      /\ Credit(i, s).principalDue = i.principalDue
      /\ Credit(i, s).status = (IF Taken(s) = 0 THEN i.status ELSE s.status)
  BY <1>1, CreditPrincipal
<1>6. Taken(s) = 0 => s.principal = 0
  BY <1>1, ShareParts
<1>7. Sound(Credit(i, s))
  BY <1>1, <1>2, <1>3, <1>4, <1>5, <1>6 DEF Sound
<1> QED
  BY <1>7 DEF s

-----------------------------------------------------------------------------
(* One schedule, and the payments of one loan. *)

SoundSchedule(sched) == \A n \in 1..Len(sched) : Sound(sched[n])

DueIn(sched) ==
  Total([n \in 1..Len(sched) |-> sched[n].principalDue - sched[n].principalPaid])

PaidIn(rows, l) ==
  Total([n \in 1..Len(rows) |->
           IF rows[n].loan = l THEN rows[n].principal ELSE 0])

(* Crediting the shares of the walk leaves a sound schedule. *)
LEMMA CreditAllSound ==
  ASSUME NEW sched \in Seq(Installment), NEW amount \in Nat, SoundSchedule(sched)
  PROVE  SoundSchedule(CreditAll(sched, SharesOf(sched, amount)))
PROOF
<1> DEFINE left == Left(sched, amount)
<1>1. /\ Len(sched) \in Nat
      /\ \A n \in 1..Len(sched) : sched[n] \in Installment /\ Sound(sched[n])
  BY DEF SoundSchedule
<1>2. \A n \in 1..Len(sched) : left[n - 1] \in Int
  <2>1. left \in [0..Len(sched) -> Nat]
    BY LeftEquation
  <2> HIDE DEF left
  <2> QED
    BY <1>1, <2>1
<1> HIDE DEF left
<1>3. \A n \in 1..Len(sched) : Sound(Credit(sched[n], ShareOf(sched[n], left[n - 1])))
  BY <1>1, <1>2, CreditSound
<1>4. /\ Len(CreditAll(sched, SharesOf(sched, amount))) = Len(sched)
      /\ \A n \in 1..Len(sched) :
           CreditAll(sched, SharesOf(sched, amount))[n]
             = Credit(sched[n], ShareOf(sched[n], left[n - 1]))
  BY <1>1 DEF CreditAll, SharesOf, left
<1> QED
  BY <1>3, <1>4 DEF SoundSchedule

(* What is still due is an integer, and shares lower it by their principal. *)
LEMMA DueAfterCredit ==
  ASSUME NEW sched \in Seq(Installment), NEW shares \in Seq(Share),
         Len(shares) = Len(sched)
  PROVE  /\ DueIn(sched) \in Int
         /\ DueIn(CreditAll(sched, shares)) = DueIn(sched) - PrincipalOf(shares)
PROOF
<1> DEFINE m == Len(sched)
           dues == [n \in 1..m |-> sched[n].principalDue - sched[n].principalPaid]
           pr == [n \in 1..m |-> shares[n].principal]
           next == CreditAll(sched, shares)
           then == [n \in 1..m |-> next[n].principalDue - next[n].principalPaid]
<1>1. /\ m \in Nat
      /\ \A n \in 1..m : sched[n] \in Installment /\ shares[n] \in Share
  OBVIOUS
<1>2. \A n \in 1..m :
        /\ sched[n].principalDue \in Nat /\ sched[n].principalPaid \in Nat
        /\ shares[n].principal \in Nat
  BY <1>1, ShareParts DEF Installment
<1>3. /\ Len(next) = m
      /\ \A n \in 1..m : next[n] = Credit(sched[n], shares[n])
  BY <1>1 DEF CreditAll
<1>4. \A n \in 1..m :
        /\ next[n].principalPaid = sched[n].principalPaid + shares[n].principal
        /\ next[n].principalDue = sched[n].principalDue
  <2> HIDE DEF next, m
  <2> QED
    BY <1>1, <1>3, CreditPrincipal
<1>5. /\ DueIn(sched) = Total(dues) /\ PrincipalOf(shares) = Total(pr)
      /\ DueIn(next) = Total(then)
  <2> HIDE DEF next
  <2> QED
    BY <1>3 DEF DueIn, PrincipalOf
<1> HIDE DEF next, m
<1>6. /\ dues \in Seq(Int) /\ pr \in Seq(Int) /\ then \in Seq(Int)
      /\ Len(dues) = m /\ Len(pr) = m /\ Len(then) = m
      /\ \A n \in 1..m : dues[n] = then[n] + pr[n]
  <2>1. \A n \in 1..m :
          /\ sched[n].principalDue - sched[n].principalPaid \in Int
          /\ next[n].principalDue - next[n].principalPaid \in Int
          /\ sched[n].principalDue - sched[n].principalPaid
               = (next[n].principalDue - next[n].principalPaid) + shares[n].principal
    BY <1>2, <1>4
  <2>2. dues \in Seq(Int) /\ Len(dues) = m
    BY <1>1, <2>1
  <2>3. pr \in Seq(Int) /\ Len(pr) = m
    <3>1. m \in Nat /\ \A n \in 1..m : shares[n].principal \in Int
      BY <1>1, <1>2
    <3> HIDE DEF dues, then
    <3> QED
      BY <3>1
  <2>4. then \in Seq(Int) /\ Len(then) = m
    BY <1>1, <2>1
  <2>5. \A n \in 1..m : dues[n] = then[n] + pr[n]
    BY <2>1
  <2> QED
    BY <2>2, <2>3, <2>4, <2>5
<1> HIDE DEF dues, pr, then
<1>7. /\ Total(dues) = Total(then) + Total(pr)
      /\ Total(dues) \in Int /\ Total(then) \in Int /\ Total(pr) \in Int
  BY <1>6, TotalOfSums, TotalIsInt
<1> QED
  BY <1>5, <1>7 DEF next

(* The walk never takes more principal than a sound schedule has due.      *)
LEMMA WalkWithinDue ==
  ASSUME NEW sched \in Seq(Installment), NEW amount \in Nat, SoundSchedule(sched)
  PROVE  PrincipalOf(SharesOf(sched, amount)) <= DueIn(sched)
PROOF
<1> DEFINE m == Len(sched)
           shares == SharesOf(sched, amount)
           dues == [n \in 1..m |-> sched[n].principalDue - sched[n].principalPaid]
           pr == [n \in 1..m |-> shares[n].principal]
           slack == [n \in 1..m |-> dues[n] - pr[n]]
<1>1. /\ m \in Nat
      /\ \A n \in 1..m : sched[n] \in Installment /\ Sound(sched[n])
  BY DEF SoundSchedule
<1>2. /\ Len(shares) = m
      /\ \A n \in 1..m : shares[n].principal \in 0..PrincipalRemaining(sched[n])
  BY SharesOfType
<1>3. /\ DueIn(sched) = Total(dues) /\ PrincipalOf(shares) = Total(pr)
  <2> HIDE DEF shares
  <2> QED
    BY <1>2 DEF DueIn, PrincipalOf
<1> HIDE DEF shares, m
<1>4. \A n \in 1..m :
        /\ sched[n].principalDue \in Nat /\ sched[n].principalPaid \in Nat
        /\ PrincipalRemaining(sched[n]) = sched[n].principalDue - sched[n].principalPaid
  <2>1. \A i \in Installment : i.principalDue \in Nat /\ i.principalPaid \in Nat
    BY DEF Installment
  <2>2. \A n \in 1..m : sched[n].principalPaid <= sched[n].principalDue
    BY <1>1 DEF Sound
  <2> QED
    BY <1>1, <2>1, <2>2 DEF PrincipalRemaining, Positive
<1>5. \A n \in 1..m : dues[n] \in Nat /\ pr[n] \in Nat /\ dues[n] - pr[n] \in Nat
  BY <1>2, <1>4
<1>6. dues \in Seq(Int) /\ Len(dues) = m /\ pr \in Seq(Int) /\ Len(pr) = m
  <2>1. dues \in Seq(Int) /\ Len(dues) = m
    BY <1>1, <1>4
  <2>2. pr \in Seq(Int) /\ Len(pr) = m
    <3>1. m \in Nat /\ \A n \in 1..m : shares[n].principal \in Int
      BY <1>1, <1>2
    <3> HIDE DEF dues, slack
    <3> QED
      BY <3>1
  <2> QED
    BY <2>1, <2>2
<1> HIDE DEF dues, pr
<1>7. /\ dues \in Seq(Int) /\ pr \in Seq(Int) /\ slack \in Seq(Nat)
      /\ slack \in Seq(Int) /\ Len(slack) = m
      /\ \A n \in 1..m : dues[n] = slack[n] + pr[n]
  <2>1. slack \in Seq(Nat) /\ Len(slack) = m
    BY <1>1, <1>5
  <2>2. \A n \in 1..m : slack[n] = dues[n] - pr[n]
    OBVIOUS
  <2> HIDE DEF slack
  <2>3. slack \in Seq(Int)
    BY <2>1
  <2>4. \A n \in 1..m : dues[n] = slack[n] + pr[n]
    BY <1>5, <2>2
  <2> QED
    BY <1>6, <2>1, <2>3, <2>4
<1> HIDE DEF slack
<1>8. /\ Total(dues) = Total(slack) + Total(pr)
      /\ Total(slack) \in Nat /\ Total(pr) \in Int
  <2>1. Total(dues) = Total(slack) + Total(pr)
    <3>1. /\ dues \in Seq(Int) /\ Len(dues) = Len(slack)
          /\ pr \in Seq(Int) /\ Len(pr) = Len(slack)
          /\ slack \in Seq(Int)
          /\ \A n \in 1..Len(slack) : dues[n] = slack[n] + pr[n]
      BY <1>6, <1>7
    <3> QED
      BY <3>1, TotalOfSums
  <2>2. Total(slack) \in Nat
    BY <1>7, TotalIsNat
  <2>3. Total(pr) \in Int
    BY <1>7, TotalIsInt
  <2> QED
    BY <2>1, <2>2, <2>3
<1> QED
  BY <1>3, <1>8 DEF shares

(* A sound schedule with principal due has an open installment.            *)
LEMMA DueMeansOpen ==
  ASSUME NEW sched \in Seq(Installment), SoundSchedule(sched), DueIn(sched) > 0
  PROVE  \E n \in 1..Len(sched) : sched[n].status = "open"
PROOF
<1> SUFFICES ASSUME \A n \in 1..Len(sched) : sched[n].status # "open"
             PROVE  DueIn(sched) = 0
  BY DEF SoundSchedule
<1> DEFINE dues == [n \in 1..Len(sched) |->
                     sched[n].principalDue - sched[n].principalPaid]
<1>1. \A n \in 1..Len(sched) :
        /\ sched[n].status = "paid" /\ Sound(sched[n])
        /\ sched[n].principalDue \in Nat /\ sched[n].principalPaid \in Nat
  <2>1. \A n \in 1..Len(sched) : sched[n] \in Installment
    OBVIOUS
  <2> QED
    BY <2>1 DEF Installment, SoundSchedule
<1>2. /\ dues \in Seq(Int)
      /\ \A n \in 1..Len(dues) : dues[n] = dues[n] + dues[n]
  BY <1>1 DEF Sound
<1>3. DueIn(sched) = Total(dues)
  BY DEF DueIn
<1> HIDE DEF dues
<1>4. Total(dues) = Total(dues) + Total(dues) /\ Total(dues) \in Int
  BY <1>2, TotalOfSums, TotalIsInt
<1> QED
  BY <1>3, <1>4

(* A payment adds its principal to what its loan was paid, and to nothing  *)
(* else.                                                                   *)
LEMMA PaidAfterPayment ==
  ASSUME NEW rows \in Seq(Payment), NEW row \in Payment, NEW l
  PROVE  /\ PaidIn(rows, l) \in Int
         /\ PaidIn(Append(rows, row), l)
              = PaidIn(rows, l) + (IF row.loan = l THEN row.principal ELSE 0)
PROOF
<1> DEFINE m == Len(rows)
           Part(r) == IF r.loan = l THEN r.principal ELSE 0
           f == [n \in 1..m |-> Part(rows[n])]
           more == Append(rows, row)
           g == [n \in 1..Len(more) |-> Part(more[n])]
<1>1. \A r \in Payment : Part(r) \in Int
  BY DEF Payment
<1> HIDE DEF Part
<1>2. /\ m \in Nat /\ f \in Seq(Int)
      /\ Len(f) = m /\ \A n \in 1..m : f[n] = Part(rows[n])
  BY <1>1
<1>3. /\ Len(more) = m + 1 /\ more[m + 1] = row
      /\ \A n \in 1..m : more[n] = rows[n]
  OBVIOUS
<1>4. PaidIn(rows, l) = Total(f) /\ PaidIn(more, l) = Total(g)
  BY DEF PaidIn, Part
<1> HIDE DEF m, more
<1>5. g = Append(f, Part(row))
  <2>1. g = [n \in 1..(m + 1) |-> Part(more[n])]
    BY <1>3
  <2> DEFINE a == Append(f, Part(row))
  <2>2. /\ a = [n \in 1..(m + 1) |-> a[n]] /\ a[m + 1] = Part(row)
        /\ \A n \in 1..m : a[n] = Part(rows[n])
    BY <1>1, <1>2
  <2> HIDE DEF a
  <2>3. \A n \in 1..(m + 1) : Part(more[n]) = a[n]
    <3>1. \A n \in 1..m : Part(more[n]) = a[n]
      BY <1>3, <2>2
    <3>2. Part(more[m + 1]) = a[m + 1]
      BY <1>3, <2>2
    <3>3. \A n \in 1..(m + 1) : n \in 1..m \/ n = m + 1
      BY <1>2
    <3> QED
      BY <3>1, <3>2, <3>3
  <2> QED
    BY <2>1, <2>2, <2>3 DEF a
<1> HIDE DEF f, g
<1>6. Total(g) = Total(f) + Part(row) /\ Total(f) \in Int
  BY <1>1, <1>2, <1>5, TotalOfAppend, TotalIsInt
<1> QED
  BY <1>4, <1>6 DEF Part, more

-----------------------------------------------------------------------------
(* The invariants. *)

SchedulesSound == \A l \in Loans : SoundSchedule(schedule[l])

(* PayableOwes needs it of approved loans, which turn payable when they    *)
(* are disbursed.                                                          *)
OwesUntilClosed ==
  \A l \in Loans :
    loan[l].status \in PAYABLE_LOAN_STATUSES \cup {"approved"}
      => loan[l].outstanding > 0

DebtInv == SchedulesSound /\ BalanceAgrees /\ OwesUntilClosed

LEMMA DebtNames ==
  ASSUME NEW l
  PROVE  /\ PrincipalPaid(l) = PaidIn(payments, l)
         /\ PrincipalStillDue(l) = DueIn(schedule[l])
PROOF
  BY DEF PrincipalPaid, PaidIn, PrincipalStillDue, DueIn

LEMMA DebtNamesNext ==
  ASSUME NEW l
  PROVE  /\ PrincipalPaid(l)' = PaidIn(payments', l)
         /\ PrincipalStillDue(l)' = DueIn(schedule'[l])
PROOF
  BY DEF PrincipalPaid, PaidIn, PrincipalStillDue, DueIn

LEMMA InitDebt == Init => DebtInv
PROOF
<1> SUFFICES ASSUME Init PROVE DebtInv
  OBVIOUS
<1>1. /\ loan = [l \in Loans |->
                   [status |-> "approved", outstanding |-> Principal[l]]]
      /\ schedule = NewSchedule /\ payments = <<>>
  BY DEF Init
<1>2. ASSUME NEW l \in Loans
      PROVE  /\ SoundSchedule(schedule[l])
             /\ DueIn(schedule[l]) = Principal[l]
             /\ Principal[l] \in Nat /\ Principal[l] > 0
  <2> DEFINE s == NewSchedule[l]
  <2>1. /\ s \in Seq(Installment)
        /\ \A n \in 1..Len(s) : Fresh(s[n])
        /\ Total([n \in 1..Len(s) |-> s[n].principalDue]) = Principal[l]
        /\ Principal[l] \in Nat /\ Principal[l] > 0
    BY ServicingAssumption
  <2> HIDE DEF s
  <2>2. \A n \in 1..Len(s) : /\ s[n].principalPaid = 0
                              /\ s[n].principalDue \in Nat
                              /\ s[n].status = "open"
    BY <2>1 DEF Fresh, Installment
  <2>3. SoundSchedule(s)
    BY <2>2 DEF SoundSchedule, Sound
  <2>4. \A n \in 1..Len(s) : s[n].principalDue - s[n].principalPaid = s[n].principalDue
    BY <2>2
  <2>5. [n \in 1..Len(s) |-> s[n].principalDue - s[n].principalPaid]
          = [n \in 1..Len(s) |-> s[n].principalDue]
    BY <2>4
  <2> QED
    BY <1>1, <2>1, <2>3, <2>5 DEF DueIn, s
<1>3. ASSUME NEW l \in Loans
      PROVE  PaidIn(payments, l) = 0
  <2> DEFINE f == [n \in 1..Len(payments) |->
                     IF payments[n].loan = l THEN payments[n].principal ELSE 0]
  <2>1. Len(payments) = 0
    BY <1>1
  <2>2. f \in Seq(Int) /\ Len(f) = 0
    BY <2>1
  <2>3. PaidIn(payments, l) = Total(f)
    BY DEF PaidIn
  <2> HIDE DEF f
  <2> QED
    BY <2>2, <2>3, RunningTotalsEquation DEF Total
<1>4. SchedulesSound
  BY <1>2 DEF SchedulesSound
<1>5. BalanceAgrees
  BY <1>1, <1>2, <1>3, DebtNames DEF BalanceAgrees
<1>6. OwesUntilClosed
  BY <1>1, <1>2 DEF OwesUntilClosed
<1> QED
  BY <1>4, <1>5, <1>6 DEF DebtInv

LEMMA CommitKeepsDebt ==
  ASSUME ServicingInv, DebtInv, NEW h \in Handlers, CommitPayment(h)
  PROVE  DebtInv'
PROOF
<1> DEFINE r   == request[h]
           row == PaymentRow(r, plan[h])
<1>1. /\ r \in Requests /\ r.loan \in Loans /\ r.amount \in Nat
      /\ row \in Payment /\ row.loan = r.loan
      /\ Len(row.shares) = Len(schedule[r.loan])
      /\ row.principal <= loan[r.loan].outstanding
  BY CommitFacts, RequestFacts
<1>2. /\ pc[h] = "post"
      /\ payments' = Append(payments, row)
      /\ loan' = [loan EXCEPT ![r.loan] =
                    LoanAfterPayment(loan[r.loan], row.principal)]
      /\ schedule' = [schedule EXCEPT ![r.loan] =
                        CreditAll(schedule[r.loan], row.shares)]
  BY DEF CommitPayment
<1>3. /\ row.shares = SharesOf(schedule[r.loan], r.amount)
      /\ row.principal = PrincipalOf(row.shares)
  <2>1. plan[h] = Allocation(schedule[r.loan], r.amount)
    BY <1>2 DEF ServicingInv, ReadsStayCurrent, Busy
  <2> QED
    BY <2>1 DEF PaymentRow, Allocation
<1> HIDE DEF r, row
<1>4. /\ loan \in [Loans -> [status : LoanStatus, outstanding : Nat]]
      /\ DOMAIN schedule = Loans /\ payments \in Seq(Payment)
      /\ \A l \in Loans : schedule[l] \in Seq(Installment)
  BY DEF ServicingInv, TypeOK
<1>5. row.principal \in Nat /\ row.shares \in Seq(Share)
  BY <1>1 DEF Payment
<1>6. SchedulesSound'
  <2>1. SoundSchedule(CreditAll(schedule[r.loan], row.shares))
    BY <1>1, <1>3, <1>4, CreditAllSound DEF DebtInv, SchedulesSound
  <2>2. \A l \in Loans : SoundSchedule(schedule'[l])
    BY <1>1, <1>2, <1>4, <2>1 DEF DebtInv, SchedulesSound
  <2> QED
    BY <2>2 DEF SchedulesSound, SoundSchedule
<1>7. BalanceAgrees'
  <2>1. ASSUME NEW l \in Loans
        PROVE  /\ loan'[l].outstanding = Principal[l] - PaidIn(payments', l)
               /\ loan'[l].outstanding = DueIn(schedule'[l])
    <3>1. /\ loan[l].outstanding = Principal[l] - PaidIn(payments, l)
          /\ loan[l].outstanding = DueIn(schedule[l])
      BY DebtNames DEF DebtInv, BalanceAgrees
    <3>2. /\ PaidIn(payments, l) \in Int
          /\ PaidIn(payments', l)
               = PaidIn(payments, l) + (IF row.loan = l THEN row.principal ELSE 0)
      BY <1>1, <1>2, <1>4, PaidAfterPayment
    <3>3. Principal[l] \in Int /\ loan[l].outstanding \in Int
      BY <1>4, ServicingAssumption
    <3>4. CASE l # r.loan
      <4>1. loan'[l] = loan[l] /\ schedule'[l] = schedule[l]
        BY <1>2, <1>4, <3>4
      <4> QED
        BY <1>1, <3>1, <3>2, <3>4, <4>1
    <3>5. CASE l = r.loan
      <4>1. loan'[l].outstanding = loan[l].outstanding - row.principal
        BY <1>1, <1>2, <1>4, <3>5 DEF LoanAfterPayment
      <4>2. schedule'[l] = CreditAll(schedule[l], row.shares)
        BY <1>1, <1>2, <1>4, <3>5
      <4>3. DueIn(schedule'[l]) = DueIn(schedule[l]) - row.principal
        BY <1>1, <1>3, <1>4, <1>5, <3>5, <4>2, DueAfterCredit
      <4> QED
        BY <1>1, <1>5, <3>1, <3>2, <3>3, <3>5, <4>1, <4>3
    <3> QED
      BY <3>4, <3>5
  <2> QED
    BY <2>1, DebtNamesNext DEF BalanceAgrees
<1>8. OwesUntilClosed'
  <2>1. ASSUME NEW l \in Loans,
               loan'[l].status \in PAYABLE_LOAN_STATUSES \cup {"approved"}
        PROVE  loan'[l].outstanding > 0
    <3>1. CASE l # r.loan
      BY <1>2, <1>4, <2>1, <3>1 DEF DebtInv, OwesUntilClosed
    <3>2. CASE l = r.loan
      <4>1. loan'[l] = LoanAfterPayment(loan[l], row.principal)
        BY <1>1, <1>2, <1>4, <3>2
      <4>2. loan[l].outstanding \in Nat /\ row.principal <= loan[l].outstanding
        BY <1>1, <1>4, <3>2
      <4> QED
        BY <1>5, <2>1, <4>1, <4>2 DEF LoanAfterPayment, PAYABLE_LOAN_STATUSES
    <3> QED
      BY <3>1, <3>2
  <2> QED
    BY <2>1 DEF OwesUntilClosed
<1> QED
  BY <1>6, <1>7, <1>8 DEF DebtInv

(* Steps that write no payment and no schedule keep the balances, and a    *)
(* change of status never makes a loan payable that owed nothing.          *)
LEMMA StatusKeepsDebt ==
  ASSUME ServicingInv, DebtInv, NEW l \in Loans, NEW s \in LoanStatus,
         s \in loanTransitions[loan[l].status],
         loan' = [loan EXCEPT ![l].status = s],
         schedule' = schedule, payments' = payments
  PROVE  DebtInv'
PROOF
<1>1. loan \in [Loans -> [status : LoanStatus, outstanding : Nat]]
  BY DEF ServicingInv, TypeOK
<1>2. \A m \in Loans : loan'[m].outstanding = loan[m].outstanding
  BY <1>1
<1>3. SchedulesSound'
  BY DEF DebtInv, SchedulesSound, SoundSchedule
<1>4. BalanceAgrees'
  <2>1. \A m \in Loans : /\ loan'[m].outstanding = Principal[m] - PaidIn(payments', m)
                          /\ loan'[m].outstanding = DueIn(schedule'[m])
    BY <1>2, DebtNames DEF DebtInv, BalanceAgrees
  <2> QED
    BY <2>1, DebtNamesNext DEF BalanceAgrees
<1>5. OwesUntilClosed'
  <2>1. ASSUME NEW m \in Loans,
               loan'[m].status \in PAYABLE_LOAN_STATUSES \cup {"approved"}
        PROVE  loan[m].status \in PAYABLE_LOAN_STATUSES \cup {"approved"}
    <3>1. CASE m # l
      BY <1>1, <2>1, <3>1
    <3>2. CASE m = l
      <4>1. loan'[m].status = s /\ loan[m].status \in LoanStatus
        BY <1>1, <3>2
      <4>2. loan[m].status # "completed"
            /\ (loan[m].status = "written_off" => s = "completed")
        BY <3>2, <4>1, Transitions
      <4> QED
        BY <2>1, <4>1, <4>2 DEF LoanStatus, PAYABLE_LOAN_STATUSES
    <3> QED
      BY <3>1, <3>2
  <2> QED
    BY <1>2, <2>1 DEF DebtInv, OwesUntilClosed
<1> QED
  BY <1>3, <1>4, <1>5 DEF DebtInv

LEMMA DebtStutter ==
  ASSUME DebtInv, loan' = loan, schedule' = schedule, payments' = payments
  PROVE  DebtInv'
PROOF
<1>1. SchedulesSound'
  BY DEF DebtInv, SchedulesSound, SoundSchedule
<1>2. BalanceAgrees'
  <2>1. \A m \in Loans : /\ loan'[m].outstanding = Principal[m] - PaidIn(payments', m)
                          /\ loan'[m].outstanding = DueIn(schedule'[m])
    BY DebtNames DEF DebtInv, BalanceAgrees
  <2> QED
    BY <2>1, DebtNamesNext DEF BalanceAgrees
<1>3. OwesUntilClosed'
  BY DEF DebtInv, OwesUntilClosed
<1> QED
  BY <1>1, <1>2, <1>3 DEF DebtInv

LEMMA StepDebt == ServicingInv /\ DebtInv /\ [Next]_vars => DebtInv'
PROOF
<1> SUFFICES ASSUME ServicingInv, DebtInv, [Next]_vars PROVE DebtInv'
  OBVIOUS
<1>1. ASSUME NEW h \in Handlers, CommitPayment(h)
      PROVE  DebtInv'
  BY <1>1, CommitKeepsDebt
<1>2. ASSUME NEW l \in Loans, NEW k \in DisbursementKeys, DisburseLoan(l, k)
      PROVE  DebtInv'
  <2>1. "disbursed" \in LoanStatus
    BY DEF LoanStatus
  <2>2. /\ "disbursed" \in loanTransitions[loan[l].status]
        /\ loan' = [loan EXCEPT ![l].status = "disbursed"]
        /\ schedule' = schedule /\ payments' = payments
    BY <1>2 DEF DisburseLoan
  <2> QED
    BY <2>1, <2>2, StatusKeepsDebt
<1>3. ASSUME NEW l \in Loans, NEW s \in StatusTargets, TransitionLoan(l, s)
      PROVE  DebtInv'
  <2>1. s \in LoanStatus
    BY ServicingAssumption
  <2>2. /\ s \in loanTransitions[loan[l].status]
        /\ loan' = [loan EXCEPT ![l].status = s]
        /\ schedule' = schedule /\ payments' = payments
    BY <1>3 DEF TransitionLoan
  <2> QED
    BY <2>1, <2>2, StatusKeepsDebt
<1>4. ASSUME NEW h \in Handlers,
             \/ \E r \in Requests : Begin(h, r)
             \/ Replay(h) \/ FindNoPayment(h) \/ Refuse(h)
             \/ PlanPayment(h) \/ RejectPosting(h)
             \/ Abort(h) \/ BreakDeadlock(h)
      PROVE  UNCHANGED <<loan, schedule, payments>>
  BY <1>4 DEF Begin, Replay, FindNoPayment, Refuse, PlanPayment, RejectPosting,
              Abort, BreakDeadlock, tables
<1>5. Reassign \/ UNCHANGED vars => UNCHANGED <<loan, schedule, payments>>
  BY DEF Reassign, vars, tables
<1> QED
  BY <1>1, <1>2, <1>3, <1>4, <1>5, DebtStutter DEF Next, Serve, PostNew

(* In every reachable state no installment was paid more principal than it *)
(* was due, the three tables agree, and loans that can still be paid owe.  *)
THEOREM DebtInvariant == Spec => []DebtInv
PROOF
  BY InitDebt, StepDebt, ServicingInvariant, PTL DEF Spec

(* Whatever the requests and however they interleave, the loan rows, the   *)
(* payment rows and the schedule rows tell the same balance.               *)
THEOREM BalanceKept == Spec => []BalanceAgrees
PROOF
<1>1. DebtInv => BalanceAgrees
  BY DEF DebtInv
<1> QED
  BY <1>1, DebtInvariant, PTL

(* A loan that takes payments owes principal.                              *)
THEOREM PayableLoansOwe == Spec => []PayableOwes
PROOF
<1>1. DebtInv => PayableOwes
  BY DEF DebtInv, OwesUntilClosed, PayableOwes
<1> QED
  BY <1>1, DebtInvariant, PTL

-----------------------------------------------------------------------------
(* The guards. *)

(* A handler about to post never meets the balance guard, nor an           *)
(* unbalanced posting.                                                     *)
LEMMA PostingSound ==
  ASSUME ServicingInv, DebtInv, NEW h \in Handlers, pc[h] = "post"
  PROVE  PostingError(request[h], PaymentRow(request[h], plan[h]))
           \notin {"LOAN_BALANCE_GUARD_FAILED", "LEDGER_UNBALANCED"}
PROOF
<1> DEFINE r   == request[h]
           row == PaymentRow(r, plan[h])
<1>1. /\ r \in Requests /\ r.loan \in Loans /\ r.amount \in Nat
      /\ schedule[r.loan] \in Seq(Installment)
      /\ loan[r.loan].outstanding \in Nat
  BY RequestFacts DEF ServicingInv, TypeOK, LocksHeld, Busy
<1>2. plan[h] = Allocation(schedule[r.loan], r.amount)
  BY DEF ServicingInv, ReadsStayCurrent, Busy
<1>3. /\ row.amount = r.amount
      /\ row.principal = PrincipalOf(plan[h].shares)
      /\ row.penalty = PenaltyOf(plan[h].shares)
      /\ row.interest = InterestOf(plan[h].shares)
      /\ row.overpayment = plan[h].overpayment
  BY DEF PaymentRow
<1>4. plan[h].shares = SharesOf(schedule[r.loan], r.amount)
  BY <1>2 DEF Allocation
<1> HIDE DEF r, row
<1>5. Balanced(row)
  <2>1. r.amount = PrincipalOf(plan[h].shares) + PenaltyOf(plan[h].shares)
                     + InterestOf(plan[h].shares) + plan[h].overpayment
    BY <1>1, <1>2, WalkConservesMoney
  <2> QED
    BY <1>3, <2>1 DEF Balanced
<1>6. ~ (loan[r.loan].outstanding < row.principal)
  <2>1. SoundSchedule(schedule[r.loan])
    BY <1>1 DEF DebtInv, SchedulesSound
  <2>2. row.principal <= DueIn(schedule[r.loan])
    BY <1>1, <1>3, <1>4, <2>1, WalkWithinDue
  <2>3. loan[r.loan].outstanding = DueIn(schedule[r.loan])
    BY <1>1, DebtNames DEF DebtInv, BalanceAgrees
  <2>4. row.principal \in Nat
    <3>1. SharesOf(schedule[r.loan], r.amount) \in Seq(Share)
      BY <1>1, SharesOfType
    <3> QED
      BY <1>3, <1>4, <3>1, PartsAreNat
  <2> QED
    BY <1>1, <2>2, <2>3, <2>4
<1> QED
  BY <1>5, <1>6 DEF PostingError, r, row

(* A loan that takes payments has an open installment when a handler looks *)
(* for one.                                                                *)
LEMMA RefusalSound ==
  ASSUME ServicingInv, DebtInv, NEW h \in Handlers, pc[h] = "check"
  PROVE  Refusal(request[h], seen[h], schedule[request[h].loan])
           # "NO_OPEN_REPAYMENT_SCHEDULE"
PROOF
<1> DEFINE r == request[h]
<1>1. /\ r \in Requests /\ r.loan \in Loans
      /\ schedule[r.loan] \in Seq(Installment)
      /\ seen[h] = loan[r.loan].status
  BY RequestFacts DEF ServicingInv, TypeOK, LocksHeld, ReadsStayCurrent, Busy
<1> HIDE DEF r
<1>2. CASE seen[h] \in PAYABLE_LOAN_STATUSES
  <2>1. loan[r.loan].outstanding > 0
    BY <1>1, <1>2 DEF DebtInv, OwesUntilClosed
  <2>2. /\ SoundSchedule(schedule[r.loan])
        /\ loan[r.loan].outstanding = DueIn(schedule[r.loan])
    BY <1>1, DebtNames DEF DebtInv, SchedulesSound, BalanceAgrees
  <2>3. \E n \in 1..Len(schedule[r.loan]) : schedule[r.loan][n].status = "open"
    BY <1>1, <2>1, <2>2, DueMeansOpen
  <2> QED
    BY <2>3 DEF Refusal, r
<1>3. CASE seen[h] \notin PAYABLE_LOAN_STATUSES
  BY <1>3 DEF Refusal
<1> QED
  BY <1>2, <1>3

LEMMA StepSilent ==
  ASSUME ServicingInv, DebtInv, GuardsSilent, [Next]_vars
  PROVE  GuardsSilent'
PROOF
<1> DEFINE Alarms == {"LOAN_BALANCE_GUARD_FAILED", "LEDGER_UNBALANCED",
                      "NO_OPEN_REPAYMENT_SCHEDULE"}
<1> SUFFICES ASSUME NEW h \in Handlers PROVE outcome'[h] \notin Alarms
  BY DEF GuardsSilent
<1>1. outcome \in [Handlers -> Outcomes] /\ outcome[h] \notin Alarms
  BY DEF ServicingInv, TypeOK, GuardsSilent
<1>2. ASSUME NEW g \in Handlers, NEW o, Answer(g, o), o \notin Alarms
      PROVE  outcome'[h] \notin Alarms
  <2>1. outcome' = [outcome EXCEPT ![g] = o]
    BY <1>2 DEF Answer
  <2> QED
    BY <1>1, <1>2, <2>1
<1>3. ASSUME NEW g \in Handlers, NEW r \in Requests, Begin(g, r)
      PROVE  outcome'[h] \notin Alarms
  <2>1. /\ outcome' = [outcome EXCEPT ![g] = Misaddressed(r)]
        /\ Misaddressed(r) \notin Alarms
    BY <1>3 DEF Begin, Misaddressed
  <2> QED
    BY <1>1, <2>1
<1>4. ASSUME NEW g \in Handlers, Replay(g)
      PROVE  outcome'[h] \notin Alarms
  <2>1. PICK o \in {"IDEMPOTENCY_KEY_REUSE_MISMATCH", "replayed",
                    "FIELD_COLLECTION_CONFLICT"} : Answer(g, o)
    BY <1>4 DEF Replay
  <2> QED
    BY <1>2, <2>1
<1>5. ASSUME NEW g \in Handlers, Refuse(g)
      PROVE  outcome'[h] \notin Alarms
  <2>1. PICK o : /\ o = Refusal(request[g], seen[g], schedule[request[g].loan])
                 /\ Answer(g, o) /\ pc[g] = "check"
    BY <1>5 DEF Refuse
  <2>2. o # "NO_OPEN_REPAYMENT_SCHEDULE"
    BY <2>1, RefusalSound
  <2>3. o \notin {"LOAN_BALANCE_GUARD_FAILED", "LEDGER_UNBALANCED"}
    BY <2>1 DEF Refusal
  <2> QED
    BY <1>2, <2>1, <2>2, <2>3
<1>6. ASSUME NEW g \in Handlers, RejectPosting(g)
      PROVE  outcome'[h] \notin Alarms
  <2>1. PICK o : /\ o = PostingError(request[g], PaymentRow(request[g], plan[g]))
                 /\ Answer(g, o) /\ pc[g] = "post"
    BY <1>6 DEF RejectPosting
  <2>2. o \notin {"LOAN_BALANCE_GUARD_FAILED", "LEDGER_UNBALANCED"}
    BY <2>1, PostingSound
  <2>3. o # "NO_OPEN_REPAYMENT_SCHEDULE"
    BY <2>1 DEF PostingError
  <2> QED
    BY <1>2, <2>1, <2>2, <2>3
<1>7. ASSUME NEW g \in Handlers, CommitPayment(g) \/ Abort(g) \/ BreakDeadlock(g)
      PROVE  outcome'[h] \notin Alarms
  <2>1. Answer(g, "created") \/ Answer(g, "aborted")
    BY <1>7 DEF CommitPayment, Abort, BreakDeadlock
  <2> QED
    BY <1>2, <2>1
<1>8. ASSUME \/ \E g \in Handlers : FindNoPayment(g) \/ PlanPayment(g)
             \/ \E l \in Loans, k \in DisbursementKeys : DisburseLoan(l, k)
             \/ \E l \in Loans, s \in StatusTargets : TransitionLoan(l, s)
             \/ Reassign \/ UNCHANGED vars
      PROVE  outcome' = outcome
  BY <1>8 DEF FindNoPayment, PlanPayment, DisburseLoan, TransitionLoan,
              Reassign, vars, handlers
<1> HIDE DEF Alarms
<1> QED
  BY <1>1, <1>3, <1>4, <1>5, <1>6, <1>7, <1>8 DEF Next, Serve, PostNew

(* No request is ever answered with an error that means the tables         *)
(* disagree, whatever requests there are and however they interleave.      *)
THEOREM GuardsNeverFire == Spec => []GuardsSilent
PROOF
<1>1. Init => GuardsSilent
  BY DEF Init, GuardsSilent
<1>2. ServicingInv /\ DebtInv /\ GuardsSilent /\ [Next]_vars => GuardsSilent'
  BY StepSilent
<1> QED
  BY <1>1, <1>2, ServicingInvariant, DebtInvariant, PTL DEF Spec

-----------------------------------------------------------------------------
(* The ledger. *)

Entry ==
  [key : ({"payment-ledger"} \X Keys)
           \cup ({"disbursement-ledger"} \X DisbursementKeys),
   source : Nat \cup Loans,
   debits : [Accounts -> Int]]

(* Entry e of a ledger has exactly the lines of payment row n. *)
Tells(led, e, n, row) ==
  /\ led[e].source = n
  /\ led[e].debits = PaymentEntries(row)
  /\ led[e].debits["cash.manual"] =
       -(led[e].debits["loan.principal"]
         + led[e].debits["realized.penalty"]
         + led[e].debits["realized.interest"]
         + led[e].debits["overpayment.holding"])

(* Transactions posted for payments are keyed by the payments there are,   *)
(* so a new payment's lines are never dropped as already posted.           *)
KeyedByPayment ==
  \A e \in 1..Len(ledger) :
    ledger[e].key[1] = "payment-ledger"
      => \E n \in 1..Len(payments) : payments[n].key = ledger[e].key[2]

LedgerInv == ledger \in Seq(Entry) /\ KeyedByPayment /\ LedgerTellsPayments

LEMMA LedgerTells ==
  LedgerTellsPayments <=>
    \A n \in 1..Len(payments) :
      \E e \in 1..Len(ledger) : Tells(ledger, e, n, payments[n])
PROOF
  BY DEF LedgerTellsPayments, Tells

LEMMA PaymentEntriesBalance ==
  ASSUME NEW row \in Payment, Balanced(row)
  PROVE  LET d == PaymentEntries(row) IN
         /\ d \in [Accounts -> Int]
         /\ d["cash.manual"] =
              -(d["loan.principal"] + d["realized.penalty"]
                + d["realized.interest"] + d["overpayment.holding"])
PROOF
<1>1. /\ row.amount \in Nat /\ row.principal \in Nat /\ row.penalty \in Nat
      /\ row.interest \in Nat /\ row.overpayment \in Nat
  BY DEF Payment
<1> DEFINE d == PaymentEntries(row)
<1>2. /\ d["cash.manual"] = row.amount
      /\ d["loan.principal"] = -row.principal
      /\ d["realized.penalty"] = -row.penalty
      /\ d["realized.interest"] = -row.interest
      /\ d["overpayment.holding"] = -row.overpayment
  BY DEF PaymentEntries, Accounts
<1>3. d \in [Accounts -> Int]
  BY <1>1 DEF PaymentEntries, Accounts
<1> HIDE DEF d
<1>4. row.amount = -(-row.principal + -row.penalty + -row.interest + -row.overpayment)
  BY <1>1 DEF Balanced
<1> QED
  BY <1>2, <1>3, <1>4 DEF d

LEMMA DisbursementEntriesType ==
  ASSUME NEW l \in Loans
  PROVE  DisbursementEntries(l) \in [Accounts -> Int]
PROOF
<1>1. Principal[l] \in Int
  BY ServicingAssumption
<1> QED
  BY <1>1 DEF DisbursementEntries, Accounts

(* A committed payment's lines are posted, never dropped.                  *)
LEMMA CommitAppends ==
  ASSUME ServicingInv, LedgerInv, NEW h \in Handlers, CommitPayment(h)
  PROVE  \E entry \in Entry :
           /\ ledger' = Append(ledger, entry)
           /\ entry.key = <<"payment-ledger", request[h].key>>
           /\ entry.source = Len(payments) + 1
           /\ entry.debits = PaymentEntries(PaymentRow(request[h], plan[h]))
PROOF
<1> DEFINE r   == request[h]
           row == PaymentRow(r, plan[h])
           entry == [key |-> <<"payment-ledger", r.key>>,
                     source |-> Len(payments) + 1,
                     debits |-> PaymentEntries(row)]
<1>1. /\ r \in Requests /\ r.key \in Keys /\ row \in Payment /\ row.key = r.key
      /\ \A n \in 1..Len(payments) : payments[n].key # r.key
      /\ payments \in Seq(Payment)
  BY CommitFacts, RequestFacts DEF ServicingInv, TypeOK
<1>2. Balanced(row)
  <2>1. PostingError(r, row) = "none"
    BY DEF CommitPayment
  <2> QED
    BY <2>1 DEF PostingError
<1>3. ledger' = PostLedger(entry)
  BY DEF CommitPayment
<1>4. /\ entry.key = <<"payment-ledger", r.key>>
      /\ entry.source = Len(payments) + 1
      /\ entry.debits = PaymentEntries(row)
  OBVIOUS
<1> HIDE DEF r, row
<1>5. entry \in Entry
  <2>1. PaymentEntries(row) \in [Accounts -> Int]
    BY <1>1, <1>2, PaymentEntriesBalance
  <2>2. <<"payment-ledger", r.key>> \in {"payment-ledger"} \X Keys
    BY <1>1
  <2>3. Len(payments) + 1 \in Nat
    BY <1>1
  <2> QED
    BY <2>1, <2>2, <2>3 DEF Entry
<1> HIDE DEF entry
<1>6. ledger' = Append(ledger, entry)
  <2>1. \A e \in 1..Len(ledger) : ledger[e].key # entry.key
    BY <1>1, <1>4 DEF LedgerInv, KeyedByPayment
  <2> QED
    BY <1>3, <2>1 DEF PostLedger
<1> QED
  BY <1>4, <1>5, <1>6 DEF r, row

LEMMA CommitKeepsLedger ==
  ASSUME ServicingInv, LedgerInv, NEW h \in Handlers, CommitPayment(h)
  PROVE  LedgerInv'
PROOF
<1> DEFINE r   == request[h]
           row == PaymentRow(r, plan[h])
<1>1. /\ r \in Requests /\ r.key \in Keys /\ row \in Payment /\ row.key = r.key
      /\ payments \in Seq(Payment)
  BY CommitFacts, RequestFacts DEF ServicingInv, TypeOK
<1>2. Balanced(row)
  <2>1. PostingError(r, row) = "none"
    BY DEF CommitPayment
  <2> QED
    BY <2>1 DEF PostingError
<1>3. payments' = Append(payments, row)
  BY DEF CommitPayment
<1>4. PICK entry \in Entry :
        /\ ledger' = Append(ledger, entry)
        /\ entry.key = <<"payment-ledger", r.key>>
        /\ entry.source = Len(payments) + 1
        /\ entry.debits = PaymentEntries(row)
  BY CommitAppends
<1> HIDE DEF r, row
<1>5. entry.key[1] = "payment-ledger" /\ entry.key[2] = r.key
  BY <1>4
<1>6. /\ ledger \in Seq(Entry) /\ Len(ledger') = Len(ledger) + 1
      /\ \A e \in 1..Len(ledger) : ledger'[e] = ledger[e]
      /\ ledger'[Len(ledger) + 1] = entry
      /\ Len(ledger) \in Nat
  BY <1>4 DEF LedgerInv
<1>7. /\ Len(payments') = Len(payments) + 1 /\ Len(payments) \in Nat
      /\ \A n \in 1..Len(payments) : payments'[n] = payments[n]
      /\ payments'[Len(payments) + 1] = row
  BY <1>1, <1>3
<1>8. ledger' \in Seq(Entry)
  BY <1>4, <1>6
<1>9. KeyedByPayment'
  <2>1. ASSUME NEW e \in 1..Len(ledger'), ledger'[e].key[1] = "payment-ledger"
        PROVE  \E n \in 1..Len(payments') : payments'[n].key = ledger'[e].key[2]
    <3>1. CASE e \in 1..Len(ledger)
      <4>1. PICK n \in 1..Len(payments) : payments[n].key = ledger[e].key[2]
        BY <1>6, <2>1, <3>1 DEF LedgerInv, KeyedByPayment
      <4> QED
        BY <1>6, <1>7, <3>1, <4>1
    <3>2. CASE e = Len(ledger) + 1
      BY <1>1, <1>4, <1>5, <1>6, <1>7, <3>2
    <3> QED
      BY <1>6, <3>1, <3>2
  <2> QED
    BY <2>1 DEF KeyedByPayment
<1>10. LedgerTellsPayments'
  <2>1. ASSUME NEW n \in 1..Len(payments')
        PROVE  \E e \in 1..Len(ledger') : Tells(ledger', e, n, payments'[n])
    <3>1. CASE n \in 1..Len(payments)
      <4>1. PICK e \in 1..Len(ledger) : Tells(ledger, e, n, payments[n])
        BY <3>1, LedgerTells DEF LedgerInv
      <4>2. Tells(ledger', e, n, payments'[n])
        BY <1>6, <1>7, <3>1, <4>1 DEF Tells
      <4> QED
        BY <1>6, <4>1, <4>2
    <3>2. CASE n = Len(payments) + 1
      <4>1. Tells(ledger', Len(ledger) + 1, n, row)
        BY <1>1, <1>2, <1>4, <1>5, <1>6, <3>2, PaymentEntriesBalance DEF Tells
      <4> QED
        BY <1>6, <1>7, <3>2, <4>1
    <3> QED
      BY <1>7, <3>1, <3>2
  <2> QED
    BY <2>1 DEF LedgerTellsPayments, Tells
<1> QED
  BY <1>8, <1>9, <1>10 DEF LedgerInv

LEMMA DisburseKeepsLedger ==
  ASSUME LedgerInv, NEW l \in Loans, NEW k \in DisbursementKeys, DisburseLoan(l, k)
  PROVE  LedgerInv'
PROOF
<1> DEFINE entry == [key |-> <<"disbursement-ledger", k>>, source |-> l,
                     debits |-> DisbursementEntries(l)]
<1>1. payments' = payments /\ ledger' = PostLedger(entry)
  BY DEF DisburseLoan
<1>2. entry.key[1] # "payment-ledger"
  OBVIOUS
<1>3. entry \in Entry
  <2>1. <<"disbursement-ledger", k>> \in {"disbursement-ledger"} \X DisbursementKeys
    OBVIOUS
  <2> QED
    BY <2>1, DisbursementEntriesType DEF Entry
<1> HIDE DEF entry
<1>4. ledger' = ledger \/ ledger' = Append(ledger, entry)
  BY <1>1 DEF PostLedger
<1>5. /\ ledger' \in Seq(Entry) /\ Len(ledger') \in Nat /\ Len(ledger) \in Nat
      /\ Len(ledger) <= Len(ledger')
      /\ \A e \in 1..Len(ledger) : ledger'[e] = ledger[e]
      /\ \A e \in 1..Len(ledger') : e \in 1..Len(ledger) \/ ledger'[e] = entry
  BY <1>3, <1>4 DEF LedgerInv
<1>6. KeyedByPayment'
  <2>1. \A e \in 1..Len(ledger') :
          ledger'[e].key[1] = "payment-ledger"
            => \E n \in 1..Len(payments') : payments'[n].key = ledger'[e].key[2]
    BY <1>1, <1>2, <1>5 DEF LedgerInv, KeyedByPayment
  <2> QED
    BY <2>1 DEF KeyedByPayment
<1>7. LedgerTellsPayments'
  <2>1. ASSUME NEW n \in 1..Len(payments)
        PROVE  \E e \in 1..Len(ledger') : Tells(ledger', e, n, payments[n])
    <3>1. PICK e \in 1..Len(ledger) : Tells(ledger, e, n, payments[n])
      BY LedgerTells DEF LedgerInv
    <3>2. Tells(ledger', e, n, payments[n]) /\ e \in 1..Len(ledger')
      BY <1>5, <3>1 DEF Tells
    <3> QED
      BY <3>2
  <2> QED
    BY <1>1, <2>1 DEF LedgerTellsPayments, Tells
<1> QED
  BY <1>5, <1>6, <1>7 DEF LedgerInv

LEMMA StepLedger == ServicingInv /\ LedgerInv /\ [Next]_vars => LedgerInv'
PROOF
<1> SUFFICES ASSUME ServicingInv, LedgerInv, [Next]_vars PROVE LedgerInv'
  OBVIOUS
<1>1. ASSUME NEW h \in Handlers, CommitPayment(h)
      PROVE  LedgerInv'
  BY <1>1, CommitKeepsLedger
<1>2. ASSUME NEW l \in Loans, NEW k \in DisbursementKeys, DisburseLoan(l, k)
      PROVE  LedgerInv'
  BY <1>2, DisburseKeepsLedger
<1>3. ASSUME NEW h \in Handlers,
             \/ \E r \in Requests : Begin(h, r)
             \/ Replay(h) \/ FindNoPayment(h) \/ Refuse(h)
             \/ PlanPayment(h) \/ RejectPosting(h)
             \/ Abort(h) \/ BreakDeadlock(h)
      PROVE  UNCHANGED <<ledger, payments>>
  BY <1>3 DEF Begin, Replay, FindNoPayment, Refuse, PlanPayment, RejectPosting,
              Abort, BreakDeadlock, tables
<1>4. ASSUME \/ \E l \in Loans, s \in StatusTargets : TransitionLoan(l, s)
             \/ Reassign \/ UNCHANGED vars
      PROVE  UNCHANGED <<ledger, payments>>
  BY <1>4 DEF TransitionLoan, Reassign, vars, tables
<1>5. UNCHANGED <<ledger, payments>> => LedgerInv'
  BY DEF LedgerInv, KeyedByPayment, LedgerTellsPayments
<1> QED
  BY <1>1, <1>2, <1>3, <1>4, <1>5 DEF Next, Serve, PostNew

(* In every reachable state the lines of a transaction are kept under a    *)
(* key of its own, and every payment has its lines.                        *)
THEOREM LedgerInvariant == Spec => []LedgerInv
PROOF
<1>1. Init => LedgerInv
  BY DEF Init, LedgerInv, KeyedByPayment, LedgerTellsPayments
<1> QED
  BY <1>1, StepLedger, ServicingInvariant, PTL DEF Spec

(* Every payment has its lines in the ledger, balanced, and no payment is  *)
(* ever committed with its lines dropped as already posted.                *)
THEOREM LedgerKept == Spec => []LedgerTellsPayments
PROOF
<1>1. LedgerInv => LedgerTellsPayments
  BY DEF LedgerInv
<1> QED
  BY <1>1, LedgerInvariant, PTL

-----------------------------------------------------------------------------
(* What the ledger shows of each loan. *)

Debtor(e, rows) ==
  IF e.key[1] = "disbursement-ledger" THEN e.source ELSE rows[e.source].loan

BookedIn(led, rows, account, l) ==
  Total([e \in 1..Len(led) |->
           IF Debtor(led[e], rows) = l THEN led[e].debits[account] ELSE 0])

(* New payments leave the debtors of the entries alone. *)
SameDebtors(led, rows, more) ==
  \A e \in 1..Len(led) : Debtor(led[e], more) = Debtor(led[e], rows)

LEMMA BookedNames ==
  ASSUME NEW account, NEW l
  PROVE  /\ BookedOn(account, l) = BookedIn(ledger, payments, account, l)
         /\ BookedOn(account, l)' = BookedIn(ledger', payments', account, l)
PROOF
  BY DEF BookedOn, BookedIn, LoanOf, Debtor

(* An entry adds its lines to what is booked on its loan, and to nothing   *)
(* else.                                                                   *)
LEMMA BookedAfterEntry ==
  ASSUME NEW led \in Seq(Entry), NEW rows, NEW more, NEW entry \in Entry,
         NEW account \in Accounts, NEW l, SameDebtors(led, rows, more)
  PROVE  /\ BookedIn(led, rows, account, l) \in Int
         /\ BookedIn(Append(led, entry), more, account, l)
              = BookedIn(led, rows, account, l)
                  + (IF Debtor(entry, more) = l THEN entry.debits[account] ELSE 0)
PROOF
<1> DEFINE m == Len(led)
           Line(e) == IF Debtor(e, more) = l THEN e.debits[account] ELSE 0
           f == [e \in 1..m |-> Line(led[e])]
           longer == Append(led, entry)
           g == [e \in 1..Len(longer) |-> Line(longer[e])]
<1>1. \A e \in Entry : Line(e) \in Int
  BY DEF Entry
<1>2. /\ BookedIn(led, rows, account, l) = Total(f)
      /\ BookedIn(longer, more, account, l) = Total(g)
      /\ Line(entry) = IF Debtor(entry, more) = l THEN entry.debits[account] ELSE 0
  <2>1. [e \in 1..Len(led) |->
           IF Debtor(led[e], rows) = l THEN led[e].debits[account] ELSE 0] = f
    BY DEF SameDebtors
  <2> QED
    BY <2>1 DEF BookedIn
<1> HIDE DEF Line
<1>3. /\ m \in Nat /\ f \in Seq(Int)
      /\ Len(f) = m /\ \A e \in 1..m : f[e] = Line(led[e])
  BY <1>1
<1>4. /\ Len(longer) = m + 1 /\ longer[m + 1] = entry
      /\ \A e \in 1..m : longer[e] = led[e]
  OBVIOUS
<1> HIDE DEF m, longer
<1>5. g = Append(f, Line(entry))
  <2>1. g = [e \in 1..(m + 1) |-> Line(longer[e])]
    BY <1>4
  <2> DEFINE a == Append(f, Line(entry))
  <2>2. /\ a = [e \in 1..(m + 1) |-> a[e]] /\ a[m + 1] = Line(entry)
        /\ \A e \in 1..m : a[e] = Line(led[e])
    BY <1>1, <1>3
  <2> HIDE DEF a
  <2>3. \A e \in 1..(m + 1) : Line(longer[e]) = a[e]
    <3>1. \A e \in 1..m : Line(longer[e]) = a[e]
      BY <1>4, <2>2
    <3>2. Line(longer[m + 1]) = a[m + 1]
      BY <1>4, <2>2
    <3>3. \A e \in 1..(m + 1) : e \in 1..m \/ e = m + 1
      BY <1>3
    <3> QED
      BY <3>1, <3>2, <3>3
  <2> QED
    BY <2>1, <2>2, <2>3 DEF a
<1> HIDE DEF f, g
<1>6. Total(g) = Total(f) + Line(entry) /\ Total(f) \in Int
  BY <1>1, <1>3, <1>5, TotalOfAppend, TotalIsInt
<1> QED
  BY <1>2, <1>6 DEF longer

(* Entries refer to payments and disbursements there are, so a key used    *)
(* for a disbursement is found in the table of disbursements too.          *)
Referring ==
  \A e \in 1..Len(ledger) :
    /\ ledger[e].key[1] = "payment-ledger" => ledger[e].source \in 1..Len(payments)
    /\ ledger[e].key[1] = "disbursement-ledger" =>
         \E m \in Loans : disbursements[m] = ledger[e].key[2]
                          /\ disbursements[m] # None

(* An approved loan was not disbursed: what lets a disbursement in keeps a *)
(* second one out.                                                         *)
DisbursedOnce ==
  \A l \in Loans : loan[l].status = "approved" => disbursements[l] = None

(* What each of the two accounts shows of a loan. *)
BookedAsPaid ==
  \A l \in Loans :
    /\ BookedIn(ledger, payments, "loan.receivable", l)
         = IF disbursements[l] = None THEN 0 ELSE Principal[l]
    /\ BookedIn(ledger, payments, "loan.principal", l) = -PaidIn(payments, l)

BooksInv == Referring /\ DisbursedOnce /\ BookedAsPaid

LEMMA BooksTell ==
  ASSUME TypeOK, LedgerInv, DebtInv, BooksInv
  PROVE  LedgerTellsBalance
PROOF
<1> SUFFICES ASSUME NEW l \in Loans, disbursements[l] # None
             PROVE  ReceivableOf(l) + BookedOn("loan.principal", l)
                      = loan[l].outstanding
  BY DEF LedgerTellsBalance
<1>1. /\ ReceivableOf(l) = Principal[l]
      /\ BookedOn("loan.principal", l) = -PaidIn(payments, l)
  BY BookedNames DEF BooksInv, BookedAsPaid, ReceivableOf
<1>2. loan[l].outstanding = Principal[l] - PaidIn(payments, l)
  BY DebtNames DEF DebtInv, BalanceAgrees
<1>3. Principal[l] \in Int /\ loan[l].outstanding \in Int
  BY ServicingAssumption DEF TypeOK
<1>4. PaidIn(payments, l) \in Int
  <2> DEFINE f == [n \in 1..Len(payments) |->
                     IF payments[n].loan = l THEN payments[n].principal ELSE 0]
  <2>1. f \in Seq(Int)
    <3>1. payments \in Seq(Payment) /\ \A row \in Payment : row.principal \in Int
      BY DEF TypeOK, Payment
    <3>2. \A n \in 1..Len(payments) : payments[n].principal \in Int
      BY <3>1
    <3> QED
      BY <3>1, <3>2
  <2>2. PaidIn(payments, l) = Total(f)
    BY DEF PaidIn
  <2> HIDE DEF f
  <2> QED
    BY <2>1, <2>2, TotalIsInt
<1> QED
  BY <1>1, <1>2, <1>3, <1>4

LEMMA InitBooks == Init => BooksInv
PROOF
<1> SUFFICES ASSUME Init PROVE BooksInv
  OBVIOUS
<1>1. /\ ledger = <<>> /\ payments = <<>>
      /\ disbursements = [l \in Loans |-> None]
  BY DEF Init
<1>2. Referring /\ DisbursedOnce
  BY <1>1 DEF Referring, DisbursedOnce
<1>3. ASSUME NEW l, NEW account
      PROVE  BookedIn(ledger, payments, account, l) = 0
  <2> DEFINE f == [e \in 1..Len(ledger) |->
                     IF Debtor(ledger[e], payments) = l
                     THEN ledger[e].debits[account] ELSE 0]
  <2>1. Len(ledger) = 0
    BY <1>1
  <2>2. f \in Seq(Int) /\ Len(f) = 0
    BY <2>1
  <2>3. BookedIn(ledger, payments, account, l) = Total(f)
    BY DEF BookedIn
  <2> HIDE DEF f
  <2> QED
    BY <2>2, <2>3, RunningTotalsEquation DEF Total
<1>4. ASSUME NEW l
      PROVE  PaidIn(payments, l) = 0
  <2> DEFINE f == [n \in 1..Len(payments) |->
                     IF payments[n].loan = l THEN payments[n].principal ELSE 0]
  <2>1. Len(payments) = 0
    BY <1>1
  <2>2. f \in Seq(Int) /\ Len(f) = 0
    BY <2>1
  <2>3. PaidIn(payments, l) = Total(f)
    BY DEF PaidIn
  <2> HIDE DEF f
  <2> QED
    BY <2>2, <2>3, RunningTotalsEquation DEF Total
<1>5. BookedAsPaid
  BY <1>1, <1>3, <1>4 DEF BookedAsPaid
<1> QED
  BY <1>2, <1>5 DEF BooksInv

LEMMA CommitKeepsBooks ==
  ASSUME ServicingInv, LedgerInv, BooksInv, NEW h \in Handlers, CommitPayment(h)
  PROVE  BooksInv'
PROOF
<1> DEFINE r   == request[h]
           row == PaymentRow(r, plan[h])
<1>1. /\ r \in Requests /\ r.loan \in Loans /\ row \in Payment /\ row.loan = r.loan
      /\ payments \in Seq(Payment)
      /\ loan \in [Loans -> [status : LoanStatus, outstanding : Nat]]
      /\ ledger \in Seq(Entry)
  BY CommitFacts, RequestFacts DEF ServicingInv, TypeOK, LedgerInv
<1>2. /\ payments' = Append(payments, row)
      /\ loan' = [loan EXCEPT ![r.loan] =
                    LoanAfterPayment(loan[r.loan], row.principal)]
      /\ disbursements' = disbursements
  BY DEF CommitPayment
<1>3. PICK entry \in Entry :
        /\ ledger' = Append(ledger, entry)
        /\ entry.key[1] = "payment-ledger"
        /\ entry.source = Len(payments) + 1
        /\ entry.debits = PaymentEntries(row)
  BY CommitAppends
<1> HIDE DEF r, row
<1>4. /\ Len(payments') = Len(payments) + 1 /\ Len(payments) \in Nat
      /\ \A n \in 1..Len(payments) : payments'[n] = payments[n]
      /\ payments'[Len(payments) + 1] = row
  BY <1>1, <1>2
<1>5. /\ Len(ledger') = Len(ledger) + 1 /\ Len(ledger) \in Nat
      /\ \A e \in 1..Len(ledger) : ledger'[e] = ledger[e] /\ ledger[e] \in Entry
      /\ ledger'[Len(ledger) + 1] = entry
  BY <1>1, <1>3
<1>6. Referring'
  <2>1. ASSUME NEW e \in 1..Len(ledger')
        PROVE  /\ ledger'[e].key[1] = "payment-ledger" =>
                    ledger'[e].source \in 1..Len(payments')
               /\ ledger'[e].key[1] = "disbursement-ledger" =>
                    \E m \in Loans : disbursements'[m] = ledger'[e].key[2]
                                    /\ disbursements'[m] # None
    <3>1. CASE e \in 1..Len(ledger)
      <4>1. 1..Len(payments) \subseteq 1..Len(payments')
        BY <1>4
      <4> QED
        BY <1>2, <1>5, <3>1, <4>1 DEF BooksInv, Referring
    <3>2. CASE e = Len(ledger) + 1
      BY <1>3, <1>4, <1>5, <3>2
    <3> QED
      BY <1>5, <3>1, <3>2
  <2> QED
    BY <2>1 DEF Referring
<1>7. DisbursedOnce'
  <2>1. ASSUME NEW l \in Loans, loan'[l].status = "approved"
        PROVE  loan[l].status = "approved"
    BY <1>1, <1>2, <2>1 DEF LoanAfterPayment
  <2> QED
    BY <1>2, <2>1 DEF BooksInv, DisbursedOnce
<1>8. SameDebtors(ledger, payments, payments')
  <2>1. ASSUME NEW e \in 1..Len(ledger)
        PROVE  Debtor(ledger[e], payments') = Debtor(ledger[e], payments)
    <3>1. CASE ledger[e].key[1] = "disbursement-ledger"
      BY <3>1 DEF Debtor
    <3>2. CASE ledger[e].key[1] # "disbursement-ledger"
      <4>1. ledger[e].key[1] = "payment-ledger"
        BY <1>5, <3>2 DEF Entry
      <4>2. ledger[e].source \in 1..Len(payments)
        BY <4>1 DEF BooksInv, Referring
      <4> QED
        BY <1>4, <3>2, <4>2 DEF Debtor
    <3> QED
      BY <3>1, <3>2
  <2> QED
    BY <2>1 DEF SameDebtors
<1>9. Debtor(entry, payments') = row.loan
  BY <1>3, <1>4 DEF Debtor
<1>10. ASSUME NEW l \in Loans, NEW account \in Accounts
       PROVE  /\ BookedIn(ledger, payments, account, l) \in Int
              /\ BookedIn(ledger', payments', account, l)
                   = BookedIn(ledger, payments, account, l)
                       + (IF row.loan = l THEN PaymentEntries(row)[account] ELSE 0)
  <2>1. /\ BookedIn(ledger, payments, account, l) \in Int
        /\ BookedIn(Append(ledger, entry), payments', account, l)
             = BookedIn(ledger, payments, account, l)
                 + (IF Debtor(entry, payments') = l THEN entry.debits[account] ELSE 0)
    BY <1>1, <1>8, BookedAfterEntry
  <2> QED
    BY <1>3, <1>9, <2>1
<1>11. /\ "loan.receivable" \in Accounts /\ "loan.principal" \in Accounts
       /\ PaymentEntries(row)["loan.receivable"] = 0
       /\ PaymentEntries(row)["loan.principal"] = -row.principal
       /\ row.principal \in Nat
  BY <1>1 DEF Accounts, PaymentEntries, Payment
<1>12. ASSUME NEW l \in Loans
       PROVE  /\ PaidIn(payments, l) \in Int
              /\ PaidIn(payments', l)
                   = PaidIn(payments, l) + (IF row.loan = l THEN row.principal ELSE 0)
  BY <1>1, <1>2, PaidAfterPayment
<1>13. BookedAsPaid'
  <2>1. ASSUME NEW l \in Loans
        PROVE  BookedIn(ledger', payments', "loan.receivable", l)
                 = IF disbursements'[l] = None THEN 0 ELSE Principal[l]
    BY <1>2, <1>10, <1>11 DEF BooksInv, BookedAsPaid
  <2>2. ASSUME NEW l \in Loans
        PROVE  BookedIn(ledger', payments', "loan.principal", l)
                 = -PaidIn(payments', l)
    <3>1. BookedIn(ledger, payments, "loan.principal", l) = -PaidIn(payments, l)
      BY DEF BooksInv, BookedAsPaid
    <3>2. CASE row.loan = l
      BY <1>10, <1>11, <1>12, <3>1, <3>2
    <3>3. CASE row.loan # l
      BY <1>10, <1>11, <1>12, <3>1, <3>3
    <3> QED
      BY <3>2, <3>3
  <2> QED
    BY <2>1, <2>2 DEF BookedAsPaid
<1> QED
  BY <1>6, <1>7, <1>13 DEF BooksInv

LEMMA DisburseKeepsBooks ==
  ASSUME ServicingInv, LedgerInv, BooksInv,
         NEW l \in Loans, NEW k \in DisbursementKeys, DisburseLoan(l, k)
  PROVE  BooksInv'
PROOF
<1> DEFINE entry == [key |-> <<"disbursement-ledger", k>>, source |-> l,
                     debits |-> DisbursementEntries(l)]
<1>1. /\ loan \in [Loans -> [status : LoanStatus, outstanding : Nat]]
      /\ disbursements \in [Loans -> DisbursementKeys \cup {None}]
      /\ ledger \in Seq(Entry)
  BY DEF ServicingInv, TypeOK, LedgerInv
<1>2. /\ \A m \in Loans : disbursements[m] # k
      /\ "disbursed" \in loanTransitions[loan[l].status]
      /\ loan' = [loan EXCEPT ![l].status = "disbursed"]
      /\ disbursements' = [disbursements EXCEPT ![l] = k]
      /\ ledger' = PostLedger(entry)
      /\ payments' = payments
  BY DEF DisburseLoan
<1>3. loan[l].status = "approved"
  <2>1. loan[l].status \in LoanStatus
    BY <1>1
  <2> QED
    BY <1>2, <2>1 DEF loanTransitions, LoanStatus
<1>4. disbursements[l] = None /\ k # None
  <2>1. disbursements[l] = None
    BY <1>3 DEF BooksInv, DisbursedOnce
  <2> QED
    BY <1>2, <2>1
<1>5. /\ entry.key[1] = "disbursement-ledger" /\ entry.key[2] = k
      /\ entry.source = l /\ entry.debits = DisbursementEntries(l)
      /\ entry \in Entry
  <2>1. <<"disbursement-ledger", k>> \in {"disbursement-ledger"} \X DisbursementKeys
    OBVIOUS
  <2> QED
    BY <2>1, DisbursementEntriesType DEF Entry
<1> HIDE DEF entry
<1>6. ledger' = Append(ledger, entry)
  <2>1. \A e \in 1..Len(ledger) : ledger[e].key # entry.key
    BY <1>2, <1>5 DEF BooksInv, Referring
  <2> QED
    BY <1>2, <2>1 DEF PostLedger
<1>7. /\ Len(ledger') = Len(ledger) + 1 /\ Len(ledger) \in Nat
      /\ \A e \in 1..Len(ledger) : ledger'[e] = ledger[e] /\ ledger[e] \in Entry
      /\ ledger'[Len(ledger) + 1] = entry
  BY <1>1, <1>5, <1>6
<1>8. Referring'
  <2>1. disbursements'[l] = k
    BY <1>1, <1>2
  <2>2. ASSUME NEW e \in 1..Len(ledger')
        PROVE  /\ ledger'[e].key[1] = "payment-ledger" =>
                    ledger'[e].source \in 1..Len(payments')
               /\ ledger'[e].key[1] = "disbursement-ledger" =>
                    \E m \in Loans : disbursements'[m] = ledger'[e].key[2]
                                    /\ disbursements'[m] # None
    <3>1. CASE e \in 1..Len(ledger)
      <4>1. ASSUME ledger[e].key[1] = "disbursement-ledger"
            PROVE  \E m \in Loans : disbursements'[m] = ledger[e].key[2]
                                    /\ disbursements'[m] # None
        <5>1. PICK m \in Loans : disbursements[m] = ledger[e].key[2]
                                 /\ disbursements[m] # None
          BY <3>1, <4>1 DEF BooksInv, Referring
        <5>2. disbursements'[m] = disbursements[m]
          BY <1>1, <1>2, <1>4, <5>1
        <5> QED
          BY <5>1, <5>2
      <4> QED
        BY <1>2, <1>7, <3>1, <4>1 DEF BooksInv, Referring
    <3>2. CASE e = Len(ledger) + 1
      BY <1>4, <1>5, <1>7, <2>1, <3>2
    <3> QED
      BY <1>7, <3>1, <3>2
  <2> QED
    BY <2>2 DEF Referring
<1>9. DisbursedOnce'
  BY <1>1, <1>2 DEF BooksInv, DisbursedOnce
<1>10. /\ "loan.receivable" \in Accounts /\ "loan.principal" \in Accounts
       /\ DisbursementEntries(l)["loan.receivable"] = Principal[l]
       /\ DisbursementEntries(l)["loan.principal"] = 0
       /\ Principal[l] \in Int
  BY ServicingAssumption DEF Accounts, DisbursementEntries
<1>11. ASSUME NEW m \in Loans, NEW account \in Accounts
       PROVE  /\ BookedIn(ledger, payments, account, m) \in Int
              /\ BookedIn(ledger', payments', account, m)
                   = BookedIn(ledger, payments, account, m)
                       + (IF l = m THEN DisbursementEntries(l)[account] ELSE 0)
  <2>1. Debtor(entry, payments) = l
    BY <1>5 DEF Debtor
  <2>2. SameDebtors(ledger, payments, payments)
    BY DEF SameDebtors
  <2>3. /\ BookedIn(ledger, payments, account, m) \in Int
        /\ BookedIn(Append(ledger, entry), payments, account, m)
             = BookedIn(ledger, payments, account, m)
                 + (IF Debtor(entry, payments) = m THEN entry.debits[account] ELSE 0)
    BY <1>1, <1>5, <2>2, BookedAfterEntry
  <2> QED
    BY <1>2, <1>5, <1>6, <2>1, <2>3
<1>12. BookedAsPaid'
  <2>1. ASSUME NEW m \in Loans
        PROVE  BookedIn(ledger', payments', "loan.receivable", m)
                 = IF disbursements'[m] = None THEN 0 ELSE Principal[m]
    <3>1. BookedIn(ledger, payments, "loan.receivable", m)
            = IF disbursements[m] = None THEN 0 ELSE Principal[m]
      BY DEF BooksInv, BookedAsPaid
    <3>2. CASE m = l
      <4>1. disbursements'[m] = k
        BY <1>1, <1>2, <3>2
      <4> QED
        BY <1>4, <1>10, <1>11, <3>1, <3>2, <4>1
    <3>3. CASE m # l
      <4>1. disbursements'[m] = disbursements[m]
        BY <1>1, <1>2, <3>3
      <4> QED
        BY <1>10, <1>11, <3>1, <3>3, <4>1
    <3> QED
      BY <3>2, <3>3
  <2>2. ASSUME NEW m \in Loans
        PROVE  BookedIn(ledger', payments', "loan.principal", m)
                 = -PaidIn(payments', m)
    <3>1. BookedIn(ledger, payments, "loan.principal", m) = -PaidIn(payments, m)
      BY DEF BooksInv, BookedAsPaid
    <3>2. BookedIn(ledger', payments', "loan.principal", m)
            = BookedIn(ledger, payments, "loan.principal", m)
      BY <1>10, <1>11
    <3> QED
      BY <1>2, <3>1, <3>2
  <2> QED
    BY <2>1, <2>2 DEF BookedAsPaid
<1> QED
  BY <1>8, <1>9, <1>12 DEF BooksInv

LEMMA StepBooks ==
  ServicingInv /\ LedgerInv /\ BooksInv /\ [Next]_vars => BooksInv'
PROOF
<1> SUFFICES ASSUME ServicingInv, LedgerInv, BooksInv, [Next]_vars PROVE BooksInv'
  OBVIOUS
<1>1. ASSUME NEW h \in Handlers, CommitPayment(h)
      PROVE  BooksInv'
  BY <1>1, CommitKeepsBooks
<1>2. ASSUME NEW l \in Loans, NEW k \in DisbursementKeys, DisburseLoan(l, k)
      PROVE  BooksInv'
  BY <1>2, DisburseKeepsBooks
<1>3. ASSUME UNCHANGED <<ledger, payments, disbursements>>,
             \A l \in Loans : loan'[l].status = "approved"
                               => loan[l].status = "approved"
      PROVE  BooksInv'
  <2>1. Referring'
    BY <1>3 DEF BooksInv, Referring
  <2>2. DisbursedOnce'
    BY <1>3 DEF BooksInv, DisbursedOnce
  <2>3. BookedAsPaid'
    <3>1. \A l \in Loans :
            /\ BookedIn(ledger', payments', "loan.receivable", l)
                 = IF disbursements'[l] = None THEN 0 ELSE Principal[l]
            /\ BookedIn(ledger', payments', "loan.principal", l)
                 = -PaidIn(payments', l)
      BY <1>3 DEF BooksInv, BookedAsPaid
    <3> QED
      BY <3>1 DEF BookedAsPaid
  <2> QED
    BY <2>1, <2>2, <2>3 DEF BooksInv
<1>4. ASSUME NEW h \in Handlers,
             \/ \E r \in Requests : Begin(h, r)
             \/ Replay(h) \/ FindNoPayment(h) \/ Refuse(h)
             \/ PlanPayment(h) \/ RejectPosting(h)
             \/ Abort(h) \/ BreakDeadlock(h)
      PROVE  UNCHANGED <<loan, ledger, payments, disbursements>>
  BY <1>4 DEF Begin, Replay, FindNoPayment, Refuse, PlanPayment, RejectPosting,
              Abort, BreakDeadlock, tables
<1>5. ASSUME NEW l \in Loans, NEW s \in StatusTargets, TransitionLoan(l, s)
      PROVE  BooksInv'
  <2>1. /\ loan \in [Loans -> [status : LoanStatus, outstanding : Nat]]
        /\ s # "approved"
        /\ loan' = [loan EXCEPT ![l].status = s]
        /\ UNCHANGED <<ledger, payments, disbursements>>
    BY <1>5, ServicingAssumption DEF TransitionLoan, ServicingInv, TypeOK
  <2>2. \A m \in Loans : loan'[m].status = "approved" => loan[m].status = "approved"
    BY <2>1
  <2> QED
    BY <1>3, <2>1, <2>2
<1>6. Reassign \/ UNCHANGED vars
        => UNCHANGED <<loan, ledger, payments, disbursements>>
  BY DEF Reassign, vars, tables
<1> QED
  BY <1>1, <1>2, <1>3, <1>4, <1>5, <1>6 DEF Next, Serve, PostNew

(* The ledger shows of every disbursed loan what the loan row does, though *)
(* nothing ties the two and the handlers write them side by side.          *)
THEOREM LedgerShowsBalance == Spec => []LedgerTellsBalance
PROOF
<1>1. ServicingInv /\ LedgerInv /\ DebtInv /\ BooksInv => LedgerTellsBalance
  BY BooksTell DEF ServicingInv
<1> QED
  BY <1>1, InitBooks, StepBooks, LedgerInvariant, DebtInvariant,
     ServicingInvariant, PTL DEF Spec

-----------------------------------------------------------------------------
(* The device records. *)

(* Record c repeats the facts of its payment in rows. *)
Repeats(c, rows) ==
  /\ c.payment \in 1..Len(rows)
  /\ rows[c.payment].key = c.key
  /\ rows[c.payment].loan = c.loan
  /\ rows[c.payment].amount = c.amount

Separate(cs) ==
  \A c, d \in cs :
    (c.payment = d.payment \/ c.localId = d.localId \/ c.key = d.key) => c = d

LEMMA CapturesTell ==
  CapturesTellPayments <=>
    (\A c \in captures : Repeats(c, payments)) /\ Separate(captures)
PROOF
  BY DEF CapturesTellPayments, Repeats, Separate

LEMMA CapturesTellNext ==
  CapturesTellPayments' <=>
    (\A c \in captures' : Repeats(c, payments')) /\ Separate(captures')
PROOF
  BY DEF CapturesTellPayments, Repeats, Separate

(* A record is only added when none has its local id or its key, which     *)
(* keeps one record per payment because a payment's record has its key.    *)
LEMMA CaptureAdded ==
  ASSUME CapturesTellPayments, NEW r, NEW n, NEW rows,
         \A c \in captures : Repeats(c, rows),
         n \in 1..Len(rows), rows[n].key = r.key, rows[n].loan = r.loan,
         rows[n].amount = r.amount
  PROVE  /\ \A c \in CapturesWith(r, n) : Repeats(c, rows)
         /\ Separate(CapturesWith(r, n))
PROOF
<1> DEFINE new == Capture(r, n)
<1>1. /\ new.payment = n /\ new.localId = r.localId /\ new.key = r.key
      /\ new.loan = r.loan /\ new.amount = r.amount
  BY DEF Capture
<1> HIDE DEF new
<1>2. Separate(captures)
  BY CapturesTell
<1>3. CASE CapturesWith(r, n) = captures
  BY <1>2, <1>3
<1>4. CASE CapturesWith(r, n) # captures
  <2>1. CapturesOf(r) = {} /\ CapturesWith(r, n) = captures \cup {new}
    BY <1>4 DEF CapturesWith, new
  <2>2. Repeats(new, rows)
    BY <1>1 DEF Repeats
  <2>3. \A c \in captures : c.localId # r.localId /\ c.key # r.key
    BY <2>1 DEF CapturesOf
  <2>4. \A c \in captures : c.payment # n
    BY <2>3 DEF Repeats
  <2>5. Separate(captures \cup {new})
    BY <1>1, <1>2, <2>3, <2>4 DEF Separate
  <2> QED
    BY <2>1, <2>2, <2>5
<1> QED
  BY <1>3, <1>4

LEMMA StepCaptures ==
  ServicingInv /\ CapturesTellPayments /\ [Next]_vars => CapturesTellPayments'
PROOF
<1> SUFFICES ASSUME ServicingInv, CapturesTellPayments, [Next]_vars
             PROVE  CapturesTellPayments'
  OBVIOUS
<1>0. /\ payments \in Seq(Payment)
      /\ \A c \in captures : Repeats(c, payments)
  BY CapturesTell DEF ServicingInv, TypeOK
<1>1. ASSUME NEW h \in Handlers, CommitPayment(h)
      PROVE  CapturesTellPayments'
  <2> DEFINE r   == request[h]
             row == PaymentRow(r, plan[h])
  <2>1. /\ row \in Payment
        /\ row.key = r.key /\ row.loan = r.loan /\ row.amount = r.amount
    BY <1>1, CommitFacts
  <2>2. /\ payments' = Append(payments, row)
        /\ captures' = CapturesWith(r, Len(payments) + 1)
    BY <1>1 DEF CommitPayment
  <2> HIDE DEF r, row
  <2>3. /\ Len(payments') = Len(payments) + 1 /\ Len(payments) \in Nat
        /\ \A n \in 1..Len(payments) : payments'[n] = payments[n]
        /\ payments'[Len(payments) + 1] = row
    BY <1>0, <2>1, <2>2
  <2>4. \A c \in captures : Repeats(c, payments')
    BY <1>0, <2>3 DEF Repeats
  <2>5. PICK rows, n : rows = payments' /\ n = Len(payments) + 1
    OBVIOUS
  <2>6. /\ n \in 1..Len(rows) /\ rows[n].key = r.key /\ rows[n].loan = r.loan
        /\ rows[n].amount = r.amount
        /\ \A c \in captures : Repeats(c, rows)
    BY <2>1, <2>3, <2>4, <2>5
  <2>7. /\ \A c \in CapturesWith(r, n) : Repeats(c, rows)
        /\ Separate(CapturesWith(r, n))
    BY <2>6, CaptureAdded
  <2> QED
    BY <2>2, <2>5, <2>7, CapturesTellNext
<1>2. ASSUME NEW h \in Handlers, Replay(h)
      PROVE  CapturesTellPayments'
  <2> DEFINE r == request[h]
  <2>1. PICK n \in Recorded(r) :
          \/ captures' = captures
          \/ /\ payments[n].loan = r.loan /\ payments[n].amount = r.amount
             /\ captures' = CapturesWith(r, n)
    BY <1>2 DEF Replay
  <2>2. payments' = payments
    BY <1>2 DEF Replay
  <2>3. n \in 1..Len(payments) /\ payments[n].key = r.key
    BY <2>1 DEF Recorded
  <2> HIDE DEF r
  <2>4. CASE captures' = captures
    BY <2>2, <2>4, CapturesTell, CapturesTellNext
  <2>5. CASE captures' # captures
    <3>1. /\ \A c \in CapturesWith(r, n) : Repeats(c, payments)
          /\ Separate(CapturesWith(r, n))
      BY <1>0, <2>1, <2>3, <2>5, CaptureAdded
    <3> QED
      BY <2>1, <2>2, <2>5, <3>1, CapturesTellNext
  <2> QED
    BY <2>4, <2>5
<1>3. ASSUME NEW h \in Handlers,
             \/ \E r \in Requests : Begin(h, r)
             \/ FindNoPayment(h) \/ Refuse(h) \/ PlanPayment(h) \/ RejectPosting(h)
             \/ Abort(h) \/ BreakDeadlock(h)
      PROVE  UNCHANGED <<captures, payments>>
  BY <1>3 DEF Begin, FindNoPayment, Refuse, PlanPayment, RejectPosting, Abort,
              BreakDeadlock, tables
<1>4. ASSUME \/ \E l \in Loans, k \in DisbursementKeys : DisburseLoan(l, k)
             \/ \E l \in Loans, s \in StatusTargets : TransitionLoan(l, s)
             \/ Reassign \/ UNCHANGED vars
      PROVE  UNCHANGED <<captures, payments>>
  BY <1>4 DEF DisburseLoan, TransitionLoan, Reassign, vars, tables
<1>5. UNCHANGED <<captures, payments>> => CapturesTellPayments'
  BY CapturesTell, CapturesTellNext
<1> QED
  BY <1>1, <1>2, <1>3, <1>4, <1>5 DEF Next, Serve, PostNew

(* A payment has one device record at most, a device record one payment,   *)
(* and they agree, however retries combine keys and local ids.             *)
THEOREM CapturesKept == Spec => []CapturesTellPayments
PROOF
<1>1. Init => CapturesTellPayments
  BY DEF Init, CapturesTellPayments
<1> QED
  BY <1>1, StepCaptures, ServicingInvariant, PTL DEF Spec

-----------------------------------------------------------------------------
(* What installments owe. *)

(* A share lowers what its installment owes by what it takes, and gives it *)
(* the status "paid" when nothing is left.                                 *)
LEMMA OwedAfterCredit ==
  ASSUME NEW i \in Installment, NEW amount \in Nat, Sound(i)
  PROVE  LET s == ShareOf(i, amount) IN
         /\ Owed(Credit(i, s)) = Owed(i) - Taken(s)
         /\ Taken(s) > 0 =>
              /\ i.status = "open"
              /\ (s.status = "open" <=> Taken(s) < Owed(i))
PROOF
<1> DEFINE s == ShareOf(i, amount)
           j == Credit(i, s)
<1>1. Owed(i) \in Nat
  BY OwedIsNat
<1>2. s \in Share /\ Taken(s) \in Nat
  BY ShareOfAmount
<1>3. CASE Taken(s) = 0
  BY <1>1, <1>3 DEF Credit
<1>4. CASE Taken(s) > 0
  <2>1. i.status = "open" /\ s = Waterfall(i, amount)
    <3>1. Taken(NoShare) = 0
      BY DEF Taken, NoShare
    <3> QED
      BY <1>2, <1>4, <3>1 DEF ShareOf
  <2> DEFINE p == PrincipalRemaining(i)
             q == PenaltyRemaining(i)
             t == InterestRemaining(i)
  <2>2. p \in Nat /\ q \in Nat /\ t \in Nat /\ Owed(i) = p + q + t
    BY OwedIsNat DEF Owed
  <2>3. /\ s.principal = PrincipalPart(i, amount)
        /\ s.penalty = PenaltyPart(i, amount)
        /\ s.interest = InterestPart(i, amount)
        /\ s.status \in {"open", "paid"}
        /\ s.status = "paid" <=> /\ s.principal >= p
                                 /\ s.penalty >= q
                                 /\ s.interest >= t
    BY <2>1 DEF Waterfall
  <2>4. /\ s.principal \in 0..p /\ s.penalty \in 0..q /\ s.interest \in 0..t
    BY <2>2, <2>3 DEF PrincipalPart, PenaltyPart, InterestPart, Lesser
  <2>5. Taken(s) = s.principal + s.penalty + s.interest
    BY DEF Taken
  <2>6. /\ j.principalDue = i.principalDue /\ j.penaltyDue = i.penaltyDue
        /\ j.interestDue = i.interestDue /\ j.chargeDue = i.chargeDue
        /\ j.principalPaid = i.principalPaid + s.principal
        /\ j.penaltyPaid = i.penaltyPaid + s.penalty
        /\ j.interestPaid = i.interestPaid + s.interest
        /\ j.chargePaid = i.chargePaid + s.penalty + s.interest
    BY <1>4 DEF Credit, Installment
  <2> HIDE DEF s, j
  <2>7. /\ i.principalDue \in Nat /\ i.penaltyDue \in Nat
        /\ i.interestDue \in Nat /\ i.chargeDue \in Nat
        /\ i.principalPaid \in Nat /\ i.penaltyPaid \in Nat
        /\ i.interestPaid \in Nat /\ i.chargePaid \in Nat
    BY DEF Installment
  <2>8. PrincipalRemaining(j) = p - s.principal
    BY <2>4, <2>6, <2>7 DEF PrincipalRemaining, Positive
  <2>9. PenaltyRemaining(j) = q - s.penalty
    BY <2>4, <2>6, <2>7 DEF PenaltyRemaining, Positive
  <2>10. InterestRemaining(j) = t - s.interest
    <3>1. CASE i.penaltyDue > 0 \/ i.interestDue > 0
      <4>1. t = Positive(i.interestDue - i.interestPaid)
        BY <3>1 DEF InterestRemaining
      <4>2. InterestRemaining(j) = Positive(j.interestDue - j.interestPaid)
        BY <2>6, <3>1 DEF InterestRemaining
      <4> HIDE DEF p, q, t
      <4> QED
        BY <2>2, <2>4, <2>6, <2>7, <4>1, <4>2 DEF Positive
    <3>2. CASE ~ (i.penaltyDue > 0 \/ i.interestDue > 0)
      <4>1. t = Positive(i.chargeDue - i.chargePaid)
        BY <3>2 DEF InterestRemaining
      <4>2. InterestRemaining(j) = Positive(j.chargeDue - j.chargePaid)
        BY <2>6, <3>2 DEF InterestRemaining
      <4>3. q = 0
        BY <2>7, <3>2 DEF PenaltyRemaining, Positive
      <4> HIDE DEF p, q, t
      <4>4. s.penalty = 0
        BY <2>4, <4>3
      <4> QED
        BY <2>2, <2>4, <2>6, <2>7, <4>1, <4>2, <4>4 DEF Positive
    <3> QED
      BY <3>1, <3>2
  <2>11. Owed(j) = PrincipalRemaining(j) + PenaltyRemaining(j) + InterestRemaining(j)
    BY DEF Owed
  <2> HIDE DEF p, q, t
  <2>12. Owed(j) = Owed(i) - Taken(s)
    BY <2>2, <2>4, <2>5, <2>8, <2>9, <2>10, <2>11
  <2>13. s.status = "open" <=> Taken(s) < Owed(i)
    BY <2>2, <2>3, <2>4, <2>5
  <2> QED
    BY <2>1, <2>12, <2>13 DEF s, j
<1> QED
  BY <1>2, <1>3, <1>4

(* What the walk makes of installment i with share s: installment j.       *)
Walked(i, s, j) ==
  /\ Taken(s) \in Nat /\ Owed(i) \in Nat /\ Owed(j) \in Nat
  /\ Owed(j) = Owed(i) - Taken(s)
  /\ j.status = (IF Taken(s) = 0 THEN i.status ELSE s.status)
  /\ Taken(s) > 0 =>
       /\ i.status = "open"
       /\ (s.status = "open" <=> Taken(s) < Owed(i))

LEMMA OwedAfterWalk ==
  ASSUME NEW sched \in Seq(Installment), NEW amount \in Nat, SoundSchedule(sched),
         NEW n \in 1..Len(sched), NEW next, NEW s,
         next = CreditAll(sched, SharesOf(sched, amount)),
         s = ShareOf(sched[n], Left(sched, amount)[n - 1])
  PROVE  Walked(sched[n], s, next[n])
PROOF
<1> DEFINE i == sched[n]
           a == Left(sched, amount)[n - 1]
<1>0. s = ShareOf(i, a)
  OBVIOUS
<1>1. i \in Installment /\ Sound(i)
  BY DEF SoundSchedule
<1>2. a \in Nat /\ a \in Int
  <2>1. n - 1 \in 0..Len(sched)
    OBVIOUS
  <2>2. Left(sched, amount) \in [0..Len(sched) -> Nat]
    BY LeftEquation
  <2>3. a \in Nat
    BY <2>1, <2>2
  <2> HIDE DEF a
  <2> QED
    BY <2>3
<1>3. next[n] = Credit(i, s)
  BY DEF CreditAll, SharesOf
<1> HIDE DEF i, a
<1>4. s \in Share /\ Taken(s) \in Nat
  BY <1>0, <1>1, <1>2, ShareOfAmount
<1>5. Credit(i, s) \in Installment
  BY <1>1, <1>4, CreditType
<1>6. Owed(i) \in Nat /\ Owed(Credit(i, s)) \in Nat
  BY <1>1, <1>5, OwedIsNat
<1>7. Credit(i, s).status = (IF Taken(s) = 0 THEN i.status ELSE s.status)
  BY <1>1, <1>4, CreditPrincipal
<1>8. /\ Owed(Credit(i, s)) = Owed(i) - Taken(s)
      /\ Taken(s) > 0 =>
           /\ i.status = "open"
           /\ (s.status = "open" <=> Taken(s) < Owed(i))
  BY <1>0, <1>1, <1>2, OwedAfterCredit
<1> QED
  BY <1>3, <1>4, <1>6, <1>7, <1>8 DEF i, Walked

-----------------------------------------------------------------------------
(* A schedule compared with the one the loan was approved with: it has the *)
(* same installments, none owes more, and the open ones are those that owe.*)
OpenAsOwing(sched, approved) ==
  /\ Len(sched) = Len(approved)
  /\ \A n \in 1..Len(sched) :
       /\ Owed(sched[n]) <= Owed(approved[n])
       /\ (sched[n].status = "open")
            <=> (Owed(sched[n]) > 0 \/ Owed(approved[n]) = 0)

LEMMA WalkKeepsOpen ==
  ASSUME NEW sched \in Seq(Installment), NEW approved \in Seq(Installment),
         NEW amount \in Nat, SoundSchedule(sched), OpenAsOwing(sched, approved)
  PROVE  OpenAsOwing(CreditAll(sched, SharesOf(sched, amount)), approved)
PROOF
<1>0. PICK next : next = CreditAll(sched, SharesOf(sched, amount))
  OBVIOUS
<1>1. Len(next) = Len(sched)
  BY <1>0 DEF CreditAll
<1>2. ASSUME NEW n \in 1..Len(sched)
      PROVE  /\ Owed(next[n]) <= Owed(approved[n])
             /\ (next[n].status = "open")
                  <=> (Owed(next[n]) > 0 \/ Owed(approved[n]) = 0)
  <2>0. PICK s : s = ShareOf(sched[n], Left(sched, amount)[n - 1])
    OBVIOUS
  <2>1. Walked(sched[n], s, next[n])
    BY <1>0, <2>0, OwedAfterWalk
  <2>2. /\ Owed(sched[n]) <= Owed(approved[n])
        /\ (sched[n].status = "open")
             <=> (Owed(sched[n]) > 0 \/ Owed(approved[n]) = 0)
        /\ Owed(approved[n]) \in Nat
    <3>1. approved[n] \in Installment
      BY DEF OpenAsOwing
    <3> QED
      BY <3>1, OwedIsNat DEF OpenAsOwing
  <2>3. CASE Taken(s) = 0
    BY <2>1, <2>2, <2>3 DEF Walked
  <2>4. CASE Taken(s) > 0
    BY <2>1, <2>2, <2>4 DEF Walked
  <2> QED
    BY <2>1, <2>3, <2>4 DEF Walked
<1>3. OpenAsOwing(next, approved)
  BY <1>1, <1>2 DEF OpenAsOwing
<1> QED
  BY <1>0, <1>3

(* Money left at the end was left all along the walk. *)
LEMMA LeftAllAlong ==
  ASSUME NEW sched \in Seq(Installment), NEW amount \in Nat,
         Left(sched, amount)[Len(sched)] > 0
  PROVE  \A n \in 0..Len(sched) : Left(sched, amount)[n] > 0
PROOF
<1> DEFINE m == Len(sched)
           left == Left(sched, amount)
<1>1. /\ left \in [0..m -> Nat] /\ m \in Nat
      /\ \A n \in 0..m : left[n] >= left[m]
  <2>1. m \in 0..Len(sched)
    OBVIOUS
  <2> QED
    BY <2>1, LeftEquation, LeftFalls
<1>2. left[m] > 0
  OBVIOUS
<1> HIDE DEF m, left
<1>3. \A n \in 0..m : left[n] > 0
  BY <1>1, <1>2
<1> QED
  BY <1>3 DEF m, left

(* An overpayment leaves nothing owed. *)
LEMMA OverpaymentSettles ==
  ASSUME NEW sched \in Seq(Installment), NEW approved, NEW amount \in Nat,
         SoundSchedule(sched), OpenAsOwing(sched, approved),
         Left(sched, amount)[Len(sched)] > 0, NEW next,
         next = CreditAll(sched, SharesOf(sched, amount))
  PROVE  Len(next) = Len(sched) /\ \A n \in 1..Len(next) : Owed(next[n]) = 0
PROOF
<1>1. Len(next) = Len(sched)
  BY DEF CreditAll
<1>2. ASSUME NEW n \in 1..Len(sched)
      PROVE  Owed(next[n]) = 0
  <2>0. PICK a, s : a = Left(sched, amount)[n - 1] /\ s = ShareOf(sched[n], a)
    OBVIOUS
  <2>1. n - 1 \in 0..Len(sched) /\ n \in 0..Len(sched)
    OBVIOUS
  <2>2. a > 0 /\ a \in Nat /\ a \in Int /\ a - Taken(s) > 0
    <3>1. PICK left : left = Left(sched, amount)
      OBVIOUS
    <3>2. \A k \in 0..Len(sched) : left[k] > 0
      BY <3>1, LeftAllAlong
    <3>3. /\ left \in [0..Len(sched) -> Nat]
          /\ left[n] = left[n - 1] - Taken(ShareOf(sched[n], left[n - 1]))
      BY <3>1, LeftEquation
    <3> QED
      BY <2>0, <2>1, <3>1, <3>2, <3>3
  <2>3. /\ Taken(s) \in Nat
        /\ Owed(sched[n]) \in Nat /\ Owed(next[n]) \in Nat
        /\ Owed(next[n]) = Owed(sched[n]) - Taken(s)
    <3>1. Walked(sched[n], s, next[n])
      BY <2>0, OwedAfterWalk
    <3> QED
      BY <3>1 DEF Walked
  <2>4. sched[n] \in Installment
    OBVIOUS
  <2>5. CASE sched[n].status = "open"
    <3>1. Taken(s) = Owed(sched[n])
      <4>1. a > Taken(s)
        BY <2>2, <2>3
      <4> QED
        BY <2>0, <2>2, <2>4, <2>5, <4>1, ShareOfAmount
    <3> QED
      BY <2>3, <3>1
  <2>6. CASE sched[n].status # "open"
    <3>1. ~ (Owed(sched[n]) > 0)
      BY <2>6 DEF OpenAsOwing
    <3> QED
      BY <2>3, <3>1
  <2> QED
    BY <2>5, <2>6
<1> QED
  BY <1>1, <1>2

(* A sound schedule that owes nothing has no principal due. *)
LEMMA SettledDue ==
  ASSUME NEW sched \in Seq(Installment), SoundSchedule(sched),
         \A n \in 1..Len(sched) : Owed(sched[n]) = 0
  PROVE  DueIn(sched) = 0
PROOF
<1> DEFINE dues == [n \in 1..Len(sched) |->
                     sched[n].principalDue - sched[n].principalPaid]
<1>1. \A i \in Installment :
        Sound(i) /\ Owed(i) = 0 => i.principalDue - i.principalPaid = 0
  <2> SUFFICES ASSUME NEW i \in Installment, Sound(i), Owed(i) = 0
               PROVE  i.principalDue - i.principalPaid = 0
    OBVIOUS
  <2>1. PrincipalRemaining(i) = 0
    BY OwedIsNat DEF Owed
  <2>2. i.principalDue \in Nat /\ i.principalPaid \in Nat
    BY DEF Installment
  <2> QED
    BY <2>1, <2>2 DEF Sound, PrincipalRemaining, Positive
<1>2. \A n \in 1..Len(sched) : sched[n].principalDue - sched[n].principalPaid = 0
  BY <1>1 DEF SoundSchedule
<1>3. /\ dues \in Seq(Int)
      /\ \A n \in 1..Len(dues) : dues[n] = dues[n] + dues[n]
  BY <1>2
<1>4. DueIn(sched) = Total(dues)
  BY DEF DueIn
<1> HIDE DEF dues
<1>5. Total(dues) = Total(dues) + Total(dues) /\ Total(dues) \in Int
  BY <1>3, TotalOfSums, TotalIsInt
<1> QED
  BY <1>4, <1>5

-----------------------------------------------------------------------------
(* The invariants. *)

SchedulesOpen == \A l \in Loans : OpenAsOwing(schedule[l], NewSchedule[l])

(* An overpaid loan is completed and owes nothing. *)
Settled(l) ==
  /\ loan[l].status = "completed"
  /\ \A n \in 1..Len(schedule[l]) : Owed(schedule[l][n]) = 0

ScheduleInv == SchedulesOpen /\ OverpaidMeansSettled

LEMMA OverpaidSettled ==
  OverpaidMeansSettled <=>
    \A n \in 1..Len(payments) :
      payments[n].overpayment > 0 => Settled(payments[n].loan)
PROOF
  BY DEF OverpaidMeansSettled, Settled

LEMMA OverpaidSettledNext ==
  OverpaidMeansSettled' <=>
    \A n \in 1..Len(payments') :
      payments'[n].overpayment > 0 =>
        /\ loan'[payments'[n].loan].status = "completed"
        /\ \A i \in 1..Len(schedule'[payments'[n].loan]) :
             Owed(schedule'[payments'[n].loan][i]) = 0
PROOF
  BY DEF OverpaidMeansSettled

LEMMA InitSchedule == Init => ScheduleInv
PROOF
<1> SUFFICES ASSUME Init PROVE ScheduleInv
  OBVIOUS
<1>1. schedule = NewSchedule /\ payments = <<>>
  BY DEF Init
<1>2. ASSUME NEW l \in Loans
      PROVE  OpenAsOwing(schedule[l], NewSchedule[l])
  <2> DEFINE s == NewSchedule[l]
  <2>1. s \in Seq(Installment) /\ \A n \in 1..Len(s) : Fresh(s[n])
    BY ServicingAssumption
  <2> HIDE DEF s
  <2>2. \A n \in 1..Len(s) : s[n].status = "open" /\ Owed(s[n]) \in Nat
    <3>1. \A n \in 1..Len(s) : s[n] \in Installment
      BY <2>1
    <3> QED
      BY <2>1, <3>1, OwedIsNat DEF Fresh
  <2>3. OpenAsOwing(s, s)
    BY <2>2 DEF OpenAsOwing
  <2> QED
    BY <1>1, <2>3 DEF s
<1>3. OverpaidMeansSettled
  BY <1>1 DEF OverpaidMeansSettled
<1> QED
  BY <1>2, <1>3 DEF ScheduleInv, SchedulesOpen

LEMMA CommitKeepsSchedule ==
  ASSUME ServicingInv, DebtInv, ScheduleInv, NEW h \in Handlers, CommitPayment(h)
  PROVE  ScheduleInv'
PROOF
<1> DEFINE r   == request[h]
           row == PaymentRow(r, plan[h])
<1>0. DebtInv'
  BY CommitKeepsDebt
<1>1. /\ r \in Requests /\ r.loan \in Loans /\ r.amount \in Nat
      /\ loan[r.loan].status \in PAYABLE_LOAN_STATUSES
      /\ row \in Payment /\ row.loan = r.loan
  BY CommitFacts, RequestFacts
<1>2. /\ pc[h] = "post"
      /\ payments' = Append(payments, row)
      /\ loan' = [loan EXCEPT ![r.loan] =
                    LoanAfterPayment(loan[r.loan], row.principal)]
      /\ schedule' = [schedule EXCEPT ![r.loan] =
                        CreditAll(schedule[r.loan], row.shares)]
  BY DEF CommitPayment
<1>3. /\ row.shares = SharesOf(schedule[r.loan], r.amount)
      /\ row.overpayment = Left(schedule[r.loan], r.amount)[Len(schedule[r.loan])]
  <2>1. plan[h] = Allocation(schedule[r.loan], r.amount)
    BY <1>2 DEF ServicingInv, ReadsStayCurrent, Busy
  <2> QED
    BY <2>1 DEF PaymentRow, Allocation
<1> HIDE DEF r, row
<1>4. /\ loan \in [Loans -> [status : LoanStatus, outstanding : Nat]]
      /\ DOMAIN schedule = Loans /\ payments \in Seq(Payment)
      /\ \A l \in Loans : schedule[l] \in Seq(Installment)
      /\ \A l \in Loans : NewSchedule[l] \in Seq(Installment)
  BY ServicingAssumption DEF ServicingInv, TypeOK
<1>5. /\ SoundSchedule(schedule[r.loan])
      /\ OpenAsOwing(schedule[r.loan], NewSchedule[r.loan])
      /\ schedule[r.loan] \in Seq(Installment)
  BY <1>1, <1>4 DEF DebtInv, SchedulesSound, ScheduleInv, SchedulesOpen
<1>6. /\ schedule'[r.loan] = CreditAll(schedule[r.loan], row.shares)
      /\ loan'[r.loan] = LoanAfterPayment(loan[r.loan], row.principal)
      /\ \A l \in Loans : l # r.loan =>
           loan'[l] = loan[l] /\ schedule'[l] = schedule[l]
  BY <1>1, <1>2, <1>4
<1>7. SchedulesOpen'
  <2>1. OpenAsOwing(schedule'[r.loan], NewSchedule[r.loan])
    BY <1>1, <1>3, <1>4, <1>5, <1>6, WalkKeepsOpen
  <2>2. \A l \in Loans : OpenAsOwing(schedule'[l], NewSchedule[l])
    BY <1>6, <2>1 DEF ScheduleInv, SchedulesOpen
  <2> QED
    BY <2>2 DEF SchedulesOpen, OpenAsOwing
<1>8. ASSUME row.overpayment > 0
      PROVE  /\ loan'[r.loan].status = "completed"
             /\ \A i \in 1..Len(schedule'[r.loan]) : Owed(schedule'[r.loan][i]) = 0
  <2>1. \A i \in 1..Len(schedule'[r.loan]) : Owed(schedule'[r.loan][i]) = 0
    BY <1>1, <1>3, <1>5, <1>6, <1>8, OverpaymentSettles
  <2>2. PICK next : next = schedule'[r.loan]
    OBVIOUS
  <2>3. SoundSchedule(next) /\ loan'[r.loan].outstanding = DueIn(next)
    <3>1. \A l \in Loans : SoundSchedule(schedule'[l])
      BY <1>0 DEF DebtInv, SchedulesSound, SoundSchedule
    <3>2. \A l \in Loans : loan'[l].outstanding = DueIn(schedule'[l])
      BY <1>0, DebtNamesNext DEF DebtInv, BalanceAgrees
    <3> QED
      BY <1>1, <2>2, <3>1, <3>2
  <2>4. next \in Seq(Installment)
    <3>1. SharesOf(schedule[r.loan], r.amount) \in Seq(Share)
          /\ Len(SharesOf(schedule[r.loan], r.amount)) = Len(schedule[r.loan])
      BY <1>1, <1>5, SharesOfType
    <3> QED
      BY <1>3, <1>5, <1>6, <2>2, <3>1, CreditAllType
  <2>5. DueIn(next) = 0
    BY <2>1, <2>2, <2>3, <2>4, SettledDue
  <2>6. loan'[r.loan].outstanding = 0
    BY <2>3, <2>5
  <2>7. loan'[r.loan].status = "completed"
    BY <1>6, <2>6 DEF LoanAfterPayment
  <2> QED
    BY <2>1, <2>7
<1>9. OverpaidMeansSettled'
  <2>1. ASSUME NEW n \in 1..Len(payments'), payments'[n].overpayment > 0
        PROVE  /\ loan'[payments'[n].loan].status = "completed"
               /\ \A i \in 1..Len(schedule'[payments'[n].loan]) :
                    Owed(schedule'[payments'[n].loan][i]) = 0
    <3>1. CASE n = Len(payments) + 1
      <4>1. payments'[n] = row
        BY <1>1, <1>2, <1>4, <3>1
      <4> QED
        BY <1>1, <1>8, <2>1, <4>1
    <3>2. CASE n # Len(payments) + 1
      <4>1. n \in 1..Len(payments) /\ payments'[n] = payments[n]
            /\ payments[n].loan \in Loans
        <5>1. n \in 1..Len(payments) /\ payments'[n] = payments[n]
          BY <1>1, <1>2, <1>4, <3>2
        <5>2. payments[n] \in Payment
          BY <1>4, <5>1
        <5> QED
          BY <5>1, <5>2 DEF Payment
      <4>2. Settled(payments[n].loan)
        BY <2>1, <4>1, OverpaidSettled DEF ScheduleInv
      <4>3. payments[n].loan # r.loan
        BY <1>1, <4>2 DEF Settled, PAYABLE_LOAN_STATUSES
      <4> QED
        BY <1>6, <4>1, <4>2, <4>3 DEF Settled
    <3> QED
      BY <3>1, <3>2
  <2> QED
    BY <2>1, OverpaidSettledNext
<1> QED
  BY <1>7, <1>9 DEF ScheduleInv

(* The other steps write no schedule and no payment, and leave completed   *)
(* loans alone.                                                            *)
LEMMA QuietKeepsSchedule ==
  ASSUME ServicingInv, ScheduleInv, [Next]_vars,
         schedule' = schedule, payments' = payments
  PROVE  ScheduleInv'
PROOF
<1>1. SchedulesOpen'
  BY DEF ScheduleInv, SchedulesOpen, OpenAsOwing
<1>2. ASSUME NEW n \in 1..Len(payments), payments[n].overpayment > 0
      PROVE  /\ loan'[payments[n].loan].status = "completed"
             /\ \A i \in 1..Len(schedule[payments[n].loan]) :
                  Owed(schedule[payments[n].loan][i]) = 0
  <2>1. payments[n].loan \in Loans
    <3>1. payments[n] \in Payment
      BY DEF ServicingInv, TypeOK
    <3> QED
      BY <3>1 DEF Payment
  <2>2. Settled(payments[n].loan)
    BY <1>2, OverpaidSettled DEF ScheduleInv
  <2>3. loan'[payments[n].loan] = loan[payments[n].loan]
    BY <2>1, <2>2, StepKeepsClosed DEF Settled
  <2> QED
    BY <2>2, <2>3 DEF Settled
<1>3. OverpaidMeansSettled'
  BY <1>2, OverpaidSettledNext
<1> QED
  BY <1>1, <1>3 DEF ScheduleInv

LEMMA StepSchedule == ServicingInv /\ DebtInv /\ ScheduleInv /\ [Next]_vars => ScheduleInv'
PROOF
<1> SUFFICES ASSUME ServicingInv, DebtInv, ScheduleInv, [Next]_vars
             PROVE  ScheduleInv'
  OBVIOUS
<1>1. ASSUME NEW h \in Handlers, CommitPayment(h)
      PROVE  ScheduleInv'
  BY <1>1, CommitKeepsSchedule
<1>2. ASSUME NEW h \in Handlers,
             \/ \E r \in Requests : Begin(h, r)
             \/ Replay(h) \/ FindNoPayment(h) \/ Refuse(h)
             \/ PlanPayment(h) \/ RejectPosting(h)
             \/ Abort(h) \/ BreakDeadlock(h)
      PROVE  UNCHANGED <<schedule, payments>>
  BY <1>2 DEF Begin, Replay, FindNoPayment, Refuse, PlanPayment, RejectPosting,
              Abort, BreakDeadlock, tables
<1>3. ASSUME \/ \E l \in Loans, k \in DisbursementKeys : DisburseLoan(l, k)
             \/ \E l \in Loans, s \in StatusTargets : TransitionLoan(l, s)
             \/ Reassign \/ UNCHANGED vars
      PROVE  UNCHANGED <<schedule, payments>>
  BY <1>3 DEF DisburseLoan, TransitionLoan, Reassign, vars, tables
<1> QED
  BY <1>1, <1>2, <1>3, QuietKeepsSchedule DEF Next, Serve, PostNew

(* In every reachable state schedules are open as they owe and overpaid    *)
(* loans are settled.                                                      *)
THEOREM ScheduleInvariant == Spec => []ScheduleInv
PROOF
  BY InitSchedule, StepSchedule, ServicingInvariant, DebtInvariant, PTL DEF Spec

(* The status of an installment, decided before the commit from what was   *)
(* read, never disagrees with what the installment owes.                   *)
THEOREM OpenAsOwed == Spec => []OpenIffOwing
PROOF
<1>1. ScheduleInv => OpenIffOwing
  BY DEF ScheduleInv, SchedulesOpen, OpenAsOwing, OpenIffOwing
<1> QED
  BY <1>1, ScheduleInvariant, PTL

(* Nothing is put aside as an overpayment while the loan owes anything,    *)
(* then or later.                                                          *)
THEOREM OverpaidOnlySettled == Spec => []OverpaidMeansSettled
PROOF
<1>1. ScheduleInv => OverpaidMeansSettled
  BY DEF ScheduleInv
<1> QED
  BY <1>1, ScheduleInvariant, PTL

-----------------------------------------------------------------------------
(* What completed loans still owe. *)

PrincipalSettled(sched) ==
  \A n \in 1..Len(sched) : PrincipalRemaining(sched[n]) = 0

(* A sound schedule with nothing due in all has nothing due anywhere.      *)
LEMMA NothingDue ==
  ASSUME NEW sched \in Seq(Installment), SoundSchedule(sched), DueIn(sched) = 0
  PROVE  PrincipalSettled(sched)
PROOF
<1> SUFFICES ASSUME NEW k \in 1..Len(sched)
             PROVE  PrincipalRemaining(sched[k]) = 0
  BY DEF PrincipalSettled
<1> DEFINE m == Len(sched)
           dues == [n \in 1..m |-> sched[n].principalDue - sched[n].principalPaid]
<1>1. \A i \in Installment :
        Sound(i) => /\ i.principalDue - i.principalPaid \in Nat
                    /\ PrincipalRemaining(i) = i.principalDue - i.principalPaid
  <2> SUFFICES ASSUME NEW i \in Installment, Sound(i)
               PROVE  /\ i.principalDue - i.principalPaid \in Nat
                      /\ PrincipalRemaining(i) = i.principalDue - i.principalPaid
    OBVIOUS
  <2>1. i.principalDue \in Nat /\ i.principalPaid \in Nat
    BY DEF Installment
  <2> QED
    BY <2>1 DEF Sound, PrincipalRemaining, Positive
<1>2. /\ m \in Nat /\ k \in 1..m
      /\ \A n \in 1..m : dues[n] \in Nat /\ PrincipalRemaining(sched[n]) = dues[n]
  BY <1>1 DEF SoundSchedule
<1>3. dues \in Seq(Nat) /\ Len(dues) = m
  <2> DEFINE d(n) == sched[n].principalDue - sched[n].principalPaid
  <2>1. \A n \in 1..m : d(n) \in Nat
    BY <1>2
  <2> HIDE DEF d, m
  <2>2. [n \in 1..m |-> d(n)] \in Seq(Nat) /\ Len([n \in 1..m |-> d(n)]) = m
    BY <1>2, <2>1
  <2> QED
    BY <2>2 DEF d
<1>4. DueIn(sched) = Total(dues)
  BY DEF DueIn
<1> HIDE DEF m, dues
<1>5. Total(dues) >= dues[k]
  BY <1>2, <1>3, TermInTotal
<1> QED
  BY <1>2, <1>4, <1>5

(* Unless staff complete loans by hand, a loan is completed by the payment *)
(* that brings its balance to zero.                                        *)
CompletedAtZero ==
  \A l \in Loans : loan[l].status = "completed" => loan[l].outstanding = 0

LEMMA StepCompleted ==
  ASSUME "completed" \notin StatusTargets,
         ServicingInv, CompletedAtZero, [Next]_vars
  PROVE  CompletedAtZero'
PROOF
<1>1. loan \in [Loans -> [status : LoanStatus, outstanding : Nat]]
  BY DEF ServicingInv, TypeOK
<1>2. ASSUME NEW h \in Handlers, CommitPayment(h)
      PROVE  CompletedAtZero'
  <2> DEFINE l == request[h].loan
             p == PaymentRow(request[h], plan[h]).principal
  <2>1. l \in Loans
    BY <1>2, CommitFacts, RequestFacts
  <2>2. loan' = [loan EXCEPT ![l] = LoanAfterPayment(loan[l], p)]
    BY <1>2 DEF CommitPayment
  <2> HIDE DEF l, p
  <2> QED
    BY <1>1, <2>1, <2>2 DEF LoanAfterPayment, CompletedAtZero
<1>3. ASSUME NEW l \in Loans, NEW k \in DisbursementKeys, DisburseLoan(l, k)
      PROVE  CompletedAtZero'
  BY <1>1, <1>3 DEF DisburseLoan, CompletedAtZero
<1>4. ASSUME NEW l \in Loans, NEW s \in StatusTargets, TransitionLoan(l, s)
      PROVE  CompletedAtZero'
  BY <1>1, <1>4 DEF TransitionLoan, CompletedAtZero
<1>5. ASSUME NEW h \in Handlers,
             \/ \E r \in Requests : Begin(h, r)
             \/ Replay(h) \/ FindNoPayment(h) \/ Refuse(h)
             \/ PlanPayment(h) \/ RejectPosting(h)
             \/ Abort(h) \/ BreakDeadlock(h)
      PROVE  UNCHANGED loan
  BY <1>5 DEF Begin, Replay, FindNoPayment, Refuse, PlanPayment, RejectPosting,
              Abort, BreakDeadlock, tables
<1>6. Reassign \/ UNCHANGED vars => UNCHANGED loan
  BY DEF Reassign, vars, tables
<1>7. UNCHANGED loan => CompletedAtZero'
  BY DEF CompletedAtZero
<1> QED
  BY <1>2, <1>3, <1>4, <1>5, <1>6, <1>7 DEF Next, Serve, PostNew

(* DebtStaysPayable fails for charges only: a loan that payments completed *)
(* may refuse penalties and interest still owed, never principal.          *)
THEOREM CompletedOwesNoPrincipal ==
  ASSUME "completed" \notin StatusTargets
  PROVE  Spec => [](\A l \in Loans :
                      loan[l].status = "completed" => PrincipalSettled(schedule[l]))
PROOF
<1>1. Init => CompletedAtZero
  BY DEF Init, CompletedAtZero
<1>2. ServicingInv /\ CompletedAtZero /\ [Next]_vars => CompletedAtZero'
  BY StepCompleted
<1>3. ServicingInv /\ DebtInv /\ CompletedAtZero
        => \A l \in Loans :
             loan[l].status = "completed" => PrincipalSettled(schedule[l])
  <2> SUFFICES ASSUME ServicingInv, DebtInv, CompletedAtZero,
                      NEW l \in Loans, loan[l].status = "completed"
               PROVE  PrincipalSettled(schedule[l])
    OBVIOUS
  <2>1. /\ schedule[l] \in Seq(Installment) /\ SoundSchedule(schedule[l])
        /\ DueIn(schedule[l]) = 0
    BY DebtNames DEF ServicingInv, TypeOK, DebtInv, SchedulesSound,
                     BalanceAgrees, CompletedAtZero
  <2> QED
    BY <2>1, NothingDue
<1> QED
  BY <1>1, <1>2, <1>3, ServicingInvariant, DebtInvariant, PTL DEF Spec

-----------------------------------------------------------------------------
(* The overdue job. *)

ListedLoans == due \subseteq Loans

(* Every step of the job is one of the status route or changes no table,   *)
(* if the route may be asked for "overdue".                                *)
LEMMA StepDetects ==
  ASSUME "overdue" \in StatusTargets, ListedLoans, [DetectNext]_allVars
  PROVE  ListedLoans' /\ [Next]_vars
PROOF
<1>1. ASSUME NEW l \in due, MarkOverdue(l)
      PROVE  ListedLoans' /\ Next
  <2>1. TransitionLoan(l, "overdue") /\ due' = due \ {l} /\ l \in Loans
    BY <1>1 DEF MarkOverdue, ListedLoans
  <2> QED
    BY <2>1 DEF Next, ListedLoans
<1>2. StartCycle \/ StopCycle => ListedLoans' /\ UNCHANGED vars
  BY DEF StartCycle, StopCycle, ListedLoans
<1>3. ASSUME NEW l \in due, LoseCycle(l)
      PROVE  ListedLoans' /\ UNCHANGED vars
  BY <1>3 DEF LoseCycle, ListedLoans
<1>4. CASE Next /\ UNCHANGED due
  BY <1>4 DEF ListedLoans
<1>5. CASE UNCHANGED allVars
  BY <1>5 DEF allVars, ListedLoans
<1> QED
  BY <1>1, <1>2, <1>3, <1>4, <1>5 DEF DetectNext

(* The job, its cycles lost or stopped half way included, does nothing to  *)
(* the tables that staff could not do by hand: beside it the servicing     *)
(* keeps all it promises, above all the book of payments.                  *)
THEOREM DetectionServes ==
  ASSUME "overdue" \in StatusTargets
  PROVE  DetectSpec => Spec /\ ImplementsBook
PROOF
<1>1. DetectInit => Init /\ ListedLoans
  BY DEF DetectInit, ListedLoans
<1>2. ListedLoans /\ [DetectNext]_allVars => ListedLoans' /\ [Next]_vars
  BY StepDetects
<1>3. DetectSpec => Spec
  BY <1>1, <1>2, PTL DEF DetectSpec, Spec
<1> QED
  BY <1>3, ServicingImplementsBook, PTL
=============================================================================
