------------------------ MODULE LoanServicingProofs -------------------------
(***************************************************************************)
(* LoanServicing proved for every set of loans, handlers and requests:     *)
(* the walk of a payment over a schedule conserves money and keeps to its  *)
(* order; types, row locks and the currency of what handlers read are      *)
(* inductive together, and from them follow the promise of PaymentBook and *)
(* the action properties.                                                  *)
(***************************************************************************)
EXTENDS LoanServicing, SummationProofs

-----------------------------------------------------------------------------
(* The walk over a schedule, for every schedule and amount: what it takes  *)
(* from each installment, in which order, what it leaves, and that no      *)
(* shilling is lost or made on the way.                                    *)

(* An installment never owes a negative amount. *)
LEMMA OwedIsNat ==
  ASSUME NEW i \in Installment
  PROVE  /\ PrincipalRemaining(i) \in Nat
         /\ PenaltyRemaining(i) \in Nat
         /\ InterestRemaining(i) \in Nat
         /\ Owed(i) \in Nat
PROOF
  BY DEF Installment, PrincipalRemaining, PenaltyRemaining,
         InterestRemaining, Owed, Positive

(* The waterfall gives each component at most what it is owed, and takes   *)
(* either all the money or all that is owed.                               *)
LEMMA WaterfallParts ==
  ASSUME NEW i \in Installment, NEW amount \in Nat
  PROVE  /\ Waterfall(i, amount) \in Share
         /\ Waterfall(i, amount).principal \in 0..PrincipalRemaining(i)
         /\ Taken(Waterfall(i, amount)) = Lesser(amount, Owed(i))
PROOF
<1> DEFINE p == PrincipalRemaining(i)
           q == PenaltyRemaining(i)
           r == InterestRemaining(i)
<1>1. p \in Nat /\ q \in Nat /\ r \in Nat /\ Owed(i) = p + q + r
  BY OwedIsNat DEF Owed
<1> HIDE DEF p, q, r
<1>2. /\ PrincipalPart(i, amount) \in 0..p
      /\ PenaltyPart(i, amount) \in 0..q
      /\ InterestPart(i, amount) \in 0..r
      /\ PrincipalPart(i, amount) + PenaltyPart(i, amount)
           + InterestPart(i, amount) = Lesser(amount, p + q + r)
  BY <1>1 DEF PrincipalPart, PenaltyPart, InterestPart, Lesser, p, q, r
<1>3. /\ Waterfall(i, amount).principal = PrincipalPart(i, amount)
      /\ Waterfall(i, amount).penalty = PenaltyPart(i, amount)
      /\ Waterfall(i, amount).interest = InterestPart(i, amount)
  BY DEF Waterfall
<1>4. Waterfall(i, amount) \in Share
  BY <1>1, <1>2 DEF Waterfall, Share
<1> QED
  BY <1>1, <1>2, <1>3, <1>4 DEF Taken, p

(* A share takes no more than the money there is, and money is left only   *)
(* when the installment was settled, or was not open.                      *)
LEMMA ShareOfAmount ==
  ASSUME NEW i \in Installment, NEW amount \in Int
  PROVE  /\ ShareOf(i, amount) \in Share
         /\ Taken(ShareOf(i, amount)) \in Nat
         /\ ShareOf(i, amount).principal \in 0..PrincipalRemaining(i)
         /\ amount >= 0 => Taken(ShareOf(i, amount)) <= amount
         /\ amount > Taken(ShareOf(i, amount)) /\ amount > 0 /\ i.status = "open"
              => Taken(ShareOf(i, amount)) = Owed(i)
PROOF
<1>1. /\ NoShare \in Share /\ Taken(NoShare) = 0 /\ NoShare.principal = 0
  BY DEF NoShare, Share, Taken
<1>2. Owed(i) \in Nat /\ PrincipalRemaining(i) \in Nat
  BY OwedIsNat
<1>3. CASE ~ (i.status = "open" /\ amount > 0 /\ Owed(i) > 0)
  BY <1>1, <1>2, <1>3 DEF ShareOf
<1>4. CASE i.status = "open" /\ amount > 0 /\ Owed(i) > 0
  <2>1. ShareOf(i, amount) = Waterfall(i, amount) /\ amount \in Nat
    BY <1>4 DEF ShareOf
  <2>2. /\ Waterfall(i, amount) \in Share
        /\ Waterfall(i, amount).principal \in 0..PrincipalRemaining(i)
        /\ Taken(Waterfall(i, amount)) = Lesser(amount, Owed(i))
    BY <2>1, WaterfallParts
  <2> QED
    BY <1>2, <1>4, <2>1, <2>2 DEF Lesser
<1> QED
  BY <1>3, <1>4

-----------------------------------------------------------------------------
(* Left satisfies its equation, and there is never a negative amount left. *)
LEMMA LeftEquation ==
  ASSUME NEW sched \in Seq(Installment), NEW amount \in Nat
  PROVE  /\ Left(sched, amount) \in [0..Len(sched) -> Nat]
         /\ Left(sched, amount)[0] = amount
         /\ \A n \in 1..Len(sched) :
              Left(sched, amount)[n] =
                Left(sched, amount)[n - 1]
                  - Taken(ShareOf(sched[n], Left(sched, amount)[n - 1]))
PROOF
<1> DEFINE m == Len(sched)
           Took(n, x) == Taken(ShareOf(sched[n], x))
           Eq(g) == g = [n \in 0..m |-> IF n = 0 THEN amount
                                        ELSE g[n - 1] - Took(n, g[n - 1])]
           step == [n \in 1..m |-> [x \in Int |-> x - Took(n, x)]]
<1>1. m \in Nat /\ \A n \in 1..m : sched[n] \in Installment
  OBVIOUS
<1>2. \A n \in 1..m, x \in Int :
        Took(n, x) \in Nat /\ (x >= 0 => Took(n, x) <= x)
  <2> HIDE DEF m
  <2> QED
    BY <1>1, ShareOfAmount
<1>3. Left(sched, amount) = CHOOSE g : Eq(g)
  BY DEF Left
<1> HIDE DEF m, Took
<1>4. \E g \in [0..m -> Int] : Eq(g)
  <2>1. step \in [1..m -> [Int -> Int]]
    BY <1>1, <1>2
  <2>2. PICK g \in [0..m -> Int] :
          \A n \in 0..m : g[n] = IF n = 0 THEN amount ELSE step[n][g[n - 1]]
    <3> HIDE DEF step
    <3>1. amount \in Int
      OBVIOUS
    <3>2. HasSolution(Int, m, amount, step)
      BY <1>1, <2>1, <3>1, Recursion
    <3> QED
      BY <3>2 DEF HasSolution
  <2>3. ASSUME NEW n \in 0..m
        PROVE  g[n] = IF n = 0 THEN amount ELSE g[n - 1] - Took(n, g[n - 1])
    <3>1. CASE n = 0
      BY <2>2, <3>1
    <3>2. CASE n # 0
      <4>1. n \in 1..m /\ n - 1 \in 0..m
        BY <1>1, <3>2
      <4>2. step[n][g[n - 1]] = g[n - 1] - Took(n, g[n - 1])
        BY <4>1
      <4> QED
        BY <2>2, <3>2, <4>2
    <3> QED
      BY <3>1, <3>2
  <2> QED
    BY <2>3
<1> HIDE DEF step
<1> DEFINE left == Left(sched, amount)
           T == {n \in Nat : n <= m => left[n] \in Nat}
<1>5. left = [n \in 0..m |-> IF n = 0 THEN amount
                             ELSE left[n - 1] - Took(n, left[n - 1])]
  BY <1>3, <1>4
<1> HIDE DEF left
<1>6. left[0] = amount
  BY <1>1, <1>5
<1>7. \A n \in 1..m : left[n] = left[n - 1] - Took(n, left[n - 1])
  BY <1>1, <1>5
<1>8. T = Nat
  <2>1. 0 \in T
    BY <1>6
  <2>2. ASSUME NEW n \in T, n + 1 <= m
        PROVE  left[n + 1] \in Nat
    <3>1. n + 1 \in 1..m /\ (n + 1) - 1 = n /\ left[n] \in Nat
      BY <1>1, <2>2
    <3>2. left[n + 1] = left[n] - Took(n + 1, left[n])
      BY <1>7, <3>1
    <3>3. left[n] \in Int /\ left[n] >= 0
      BY <3>1
    <3>4. Took(n + 1, left[n]) \in Nat /\ Took(n + 1, left[n]) <= left[n]
      BY <1>2, <3>1, <3>3
    <3> QED
      BY <3>1, <3>2, <3>4
  <2>3. \A n \in T : n + 1 \in T
    BY <2>2
  <2>4. T \in SUBSET Nat
    OBVIOUS
  <2> HIDE DEF T
  <2> QED
    BY <2>1, <2>3, <2>4, SetInduction
<1>9. \A n \in 0..m : left[n] \in Nat
  BY <1>1, <1>8
<1>10. left \in [0..m -> Nat]
  BY <1>5, <1>9
<1> QED
  BY <1>6, <1>7, <1>10 DEF left, m, Took

(* The walk records a share for every installment, none of them negative   *)
(* and none above what the installment owes of principal.                  *)
LEMMA SharesOfType ==
  ASSUME NEW sched \in Seq(Installment), NEW amount \in Nat
  PROVE  /\ SharesOf(sched, amount) \in Seq(Share)
         /\ Len(SharesOf(sched, amount)) = Len(sched)
         /\ \A n \in 1..Len(sched) :
              SharesOf(sched, amount)[n].principal
                \in 0..PrincipalRemaining(sched[n])
PROOF
<1> DEFINE m == Len(sched)
           left == Left(sched, amount)
           shares == SharesOf(sched, amount)
<1>1. m \in Nat /\ \A n \in 1..m : sched[n] \in Installment
  OBVIOUS
<1>2. left \in [0..m -> Nat]
  BY LeftEquation
<1>3. shares = [n \in 1..m |-> ShareOf(sched[n], left[n - 1])]
  BY DEF SharesOf
<1> HIDE DEF m, left, shares
<1>4. \A n \in 1..m : /\ shares[n] \in Share
                      /\ shares[n].principal \in 0..PrincipalRemaining(sched[n])
  <2> SUFFICES ASSUME NEW n \in 1..m
               PROVE  /\ shares[n] \in Share
                      /\ shares[n].principal \in 0..PrincipalRemaining(sched[n])
    OBVIOUS
  <2>1. n - 1 \in 0..m
    BY <1>1
  <2>2. left[n - 1] \in Int
    BY <1>2, <2>1
  <2>3. shares[n] = ShareOf(sched[n], left[n - 1])
    BY <1>3
  <2> QED
    BY <1>1, <2>2, <2>3, ShareOfAmount
<1>5. shares \in Seq(Share) /\ Len(shares) = m
  BY <1>1, <1>3, <1>4
<1> QED
  BY <1>4, <1>5 DEF m, shares

LEMMA ShareParts ==
  ASSUME NEW s \in Share
  PROVE  /\ s.principal \in Nat /\ s.penalty \in Nat /\ s.interest \in Nat
         /\ Taken(s) \in Nat
         /\ Taken(s) = s.principal + s.penalty + s.interest
PROOF
<1>1. s.principal \in Nat /\ s.penalty \in Nat /\ s.interest \in Nat
  BY DEF Share
<1> QED
  BY <1>1 DEF Taken

(* What a payment row adds up of its shares is never negative. *)
LEMMA PartsAreNat ==
  ASSUME NEW shares \in Seq(Share)
  PROVE  /\ PrincipalOf(shares) \in Nat
         /\ PenaltyOf(shares) \in Nat
         /\ InterestOf(shares) \in Nat
PROOF
<1>1. /\ [n \in 1..Len(shares) |-> shares[n].principal] \in Seq(Nat)
      /\ [n \in 1..Len(shares) |-> shares[n].penalty] \in Seq(Nat)
      /\ [n \in 1..Len(shares) |-> shares[n].interest] \in Seq(Nat)
  <2>1. \A n \in 1..Len(shares) : shares[n] \in Share
    OBVIOUS
  <2>2. \A n \in 1..Len(shares) : /\ shares[n].principal \in Nat
                                  /\ shares[n].penalty \in Nat
                                  /\ shares[n].interest \in Nat
    BY <2>1, ShareParts
  <2> QED
    BY <2>2
<1> QED
  BY <1>1, TotalIsNat DEF PrincipalOf, PenaltyOf, InterestOf

LEMMA CreditType ==
  ASSUME NEW i \in Installment, NEW s \in Share
  PROVE  Credit(i, s) \in Installment
PROOF
<1>1. /\ s.principal \in Nat /\ s.penalty \in Nat /\ s.interest \in Nat
      /\ s.status \in {"open", "paid"}
  BY DEF Share
<1>2. /\ i.principalPaid + s.principal \in Nat
      /\ i.penaltyPaid + s.penalty \in Nat
      /\ i.interestPaid + s.interest \in Nat
      /\ i.chargePaid + s.penalty + s.interest \in Nat
  BY <1>1 DEF Installment
<1> DEFINE i1 == [i  EXCEPT !.principalPaid = i.principalPaid + s.principal]
           i2 == [i1 EXCEPT !.penaltyPaid = i.penaltyPaid + s.penalty]
           i3 == [i2 EXCEPT !.interestPaid = i.interestPaid + s.interest]
           i4 == [i3 EXCEPT !.chargePaid = i.chargePaid + s.penalty + s.interest]
           i5 == [i4 EXCEPT !.status = s.status]
<1>3. CASE Taken(s) # 0
  <2>1. Credit(i, s) = i5
    BY <1>3, Zenon DEF Credit
  <2>2. i1 \in Installment
    BY <1>2 DEF Installment
  <2> HIDE DEF i1
  <2>3. i2 \in Installment
    BY <1>2, <2>2 DEF Installment
  <2> HIDE DEF i2
  <2>4. i3 \in Installment
    BY <1>2, <2>3 DEF Installment
  <2> HIDE DEF i3
  <2>5. i4 \in Installment
    BY <1>2, <2>4 DEF Installment
  <2> HIDE DEF i4
  <2>6. i5 \in Installment
    BY <1>1, <2>5 DEF Installment
  <2> QED
    BY <2>1, <2>6
<1>4. CASE Taken(s) = 0
  BY <1>4 DEF Credit
<1> QED
  BY <1>3, <1>4

(* Crediting shares keeps a schedule a schedule of the same length.        *)
LEMMA CreditAllType ==
  ASSUME NEW sched \in Seq(Installment), NEW shares \in Seq(Share),
         Len(shares) = Len(sched)
  PROVE  /\ CreditAll(sched, shares) \in Seq(Installment)
         /\ Len(CreditAll(sched, shares)) = Len(sched)
PROOF
<1>1. \A n \in 1..Len(sched) : Credit(sched[n], shares[n]) \in Installment
  <2>1. \A n \in 1..Len(sched) :
          sched[n] \in Installment /\ shares[n] \in Share
    OBVIOUS
  <2> QED
    BY <2>1, CreditType
<1> QED
  BY <1>1 DEF CreditAll

-----------------------------------------------------------------------------
(* No shilling is lost or made: what the payment row books as principal,   *)
(* penalty and interest and what it holds as an overpayment add up to the  *)
(* amount paid, for every schedule and amount.                             *)
THEOREM WalkConservesMoney ==
  ASSUME NEW sched \in Seq(Installment), NEW amount \in Nat
  PROVE  LET a == Allocation(sched, amount) IN
         amount = PrincipalOf(a.shares) + PenaltyOf(a.shares)
                    + InterestOf(a.shares) + a.overpayment
PROOF
<1> DEFINE m == Len(sched)
           left == Left(sched, amount)
           shares == SharesOf(sched, amount)
           pr == [n \in 1..m |-> shares[n].principal]
           pe == [n \in 1..m |-> shares[n].penalty]
           in == [n \in 1..m |-> shares[n].interest]
           pp == [n \in 1..m |-> shares[n].principal + shares[n].penalty]
           taken == [n \in 1..m |-> Taken(shares[n])]
<1>1. m \in Nat
  OBVIOUS
<1>2. shares \in Seq(Share) /\ Len(shares) = m
  BY SharesOfType
<1>3. /\ left \in [0..m -> Nat] /\ left[0] = amount
      /\ \A n \in 1..m : left[n] = left[n - 1] - Taken(shares[n])
  BY LeftEquation DEF SharesOf
<1>4. /\ PrincipalOf(shares) = Total(pr)
      /\ PenaltyOf(shares) = Total(pe)
      /\ InterestOf(shares) = Total(in)
  BY <1>2 DEF PrincipalOf, PenaltyOf, InterestOf
<1> HIDE DEF m, left, shares
<1>5. \A n \in 1..m : /\ shares[n].principal \in Int
                      /\ shares[n].penalty \in Int
                      /\ shares[n].interest \in Int
                      /\ Taken(shares[n]) = shares[n].principal
                           + shares[n].penalty + shares[n].interest
  <2>1. \A n \in 1..m : shares[n] \in Share
    BY <1>2
  <2> QED
    BY <2>1, ShareParts
<1>6. /\ pr \in Seq(Int) /\ Len(pr) = m
      /\ pe \in Seq(Int) /\ Len(pe) = m
      /\ in \in Seq(Int) /\ Len(in) = m
      /\ pp \in Seq(Int) /\ Len(pp) = m
      /\ taken \in Seq(Int) /\ Len(taken) = m
  BY <1>1, <1>5
<1>7. Total(pp) = Total(pr) + Total(pe)
  <2>1. \A n \in 1..Len(pr) : pp[n] = pr[n] + pe[n]
    BY <1>6
  <2>2. Len(pe) = Len(pr) /\ Len(pp) = Len(pr)
    BY <1>6
  <2> HIDE DEF pp, pr, pe
  <2> QED
    BY <1>6, <2>1, <2>2, TotalOfSums
<1>8. Total(taken) = Total(pp) + Total(in)
  <2>1. \A n \in 1..Len(pp) : taken[n] = pp[n] + in[n]
    BY <1>5, <1>6
  <2>2. Len(in) = Len(pp) /\ Len(taken) = Len(pp)
    BY <1>6
  <2> HIDE DEF taken, pp, in
  <2> QED
    BY <1>6, <2>1, <2>2, TotalOfSums
<1>9. Total(taken) = amount - left[m]
  <2> DEFINE total == RunningTotals(taken)
             T == {n \in Nat : n <= m => total[n] = amount - left[n]}
  <2>1. \A n \in 1..m : taken[n] = left[n - 1] - left[n] /\ taken[n] \in Int
    <3> SUFFICES ASSUME NEW n \in 1..m
                 PROVE  taken[n] = left[n - 1] - left[n] /\ taken[n] \in Int
      OBVIOUS
    <3>1. n - 1 \in 0..m /\ n \in 0..m
      BY <1>1
    <3>2. taken[n] = Taken(shares[n]) /\ taken[n] \in Int
      BY <1>5
    <3> HIDE DEF taken
    <3>3. left[n - 1] \in Int /\ left[n] = left[n - 1] - Taken(shares[n])
      BY <1>3, <3>1
    <3> QED
      BY <3>2, <3>3
  <2> HIDE DEF taken
  <2>2. /\ total \in [0..m -> Int] /\ total[0] = 0
        /\ \A n \in 1..m : total[n] = total[n - 1] + taken[n]
    BY <1>6, RunningTotalsEquation
  <2> HIDE DEF total
  <2>3. 0 \in T
    BY <1>3, <2>2
  <2>4. ASSUME NEW n \in T, n + 1 <= m
        PROVE  total[n + 1] = amount - left[n + 1]
    <3>1. n + 1 \in 1..m /\ (n + 1) - 1 = n /\ n \in 0..m /\ n + 1 \in 0..m
      BY <1>1, <2>4
    <3>2. total[n] = amount - left[n]
      BY <1>1, <3>1
    <3>3. total[n + 1] = total[n] + taken[n + 1]
      BY <2>2, <3>1
    <3>4. taken[n + 1] = left[n] - left[n + 1]
      BY <2>1, <3>1
    <3>5. left[n] \in Int /\ left[n + 1] \in Int
      BY <1>3, <3>1
    <3> QED
      BY <3>2, <3>3, <3>4, <3>5
  <2>5. T = Nat
    <3>1. \A n \in T : n + 1 \in T
      BY <2>4
    <3>2. T \in SUBSET Nat
      OBVIOUS
    <3> HIDE DEF T
    <3> QED
      BY <2>3, <3>1, <3>2, SetInduction
  <2>6. total[m] = amount - left[m]
    BY <1>1, <2>5
  <2> QED
    BY <1>6, <2>6 DEF Total, total
<1>10. /\ Total(pr) \in Int /\ Total(pe) \in Int
       /\ Total(in) \in Int /\ left[m] \in Int
  <2>1. left[m] \in Int
    BY <1>1, <1>3
  <2> HIDE DEF pr, pe, in
  <2> QED
    BY <1>6, <2>1, TotalIsInt
<1>11. /\ Allocation(sched, amount).shares = shares
       /\ Allocation(sched, amount).overpayment = left[m]
  BY DEF Allocation, shares, left, m
<1> HIDE DEF pr, pe, in, pp, taken
<1> QED
  BY <1>4, <1>7, <1>8, <1>9, <1>10, <1>11

-----------------------------------------------------------------------------
(* The money left never grows along the walk. *)
LEMMA LeftFalls ==
  ASSUME NEW sched \in Seq(Installment), NEW amount \in Nat,
         NEW n \in 0..Len(sched)
  PROVE  \A j \in 0..n : Left(sched, amount)[j] >= Left(sched, amount)[n]
PROOF
<1> DEFINE m == Len(sched)
           left == Left(sched, amount)
           T == {k \in Nat : k <= n => left[n - k] >= left[n]}
<1>1. /\ m \in Nat /\ left \in [0..m -> Nat] /\ n \in 0..m
      /\ \A j \in 1..m : left[j] = left[j - 1] - Taken(ShareOf(sched[j], left[j - 1]))
  BY LeftEquation
<1>2. \A j \in 1..m : left[j - 1] >= left[j]
  <2>1. \A j \in 1..m : sched[j] \in Installment
    OBVIOUS
  <2> HIDE DEF m, left
  <2>2. \A j \in 1..m : left[j - 1] \in Nat /\ left[j] \in Nat
    BY <1>1
  <2>3. ASSUME NEW j \in 1..m
        PROVE  Taken(ShareOf(sched[j], left[j - 1])) \in Nat
    <3>1. sched[j] \in Installment /\ left[j - 1] \in Int
      BY <2>1, <2>2
    <3> QED
      BY <3>1, ShareOfAmount
  <2> QED
    BY <1>1, <2>2, <2>3
<1> HIDE DEF m, left
<1>3. T = Nat
  <2>1. 0 \in T
    BY <1>1
  <2>2. ASSUME NEW k \in T, k + 1 <= n
        PROVE  left[n - (k + 1)] >= left[n]
    <3>1. n - k \in 1..m /\ (n - k) - 1 = n - (k + 1) /\ n - (k + 1) \in 0..m
      BY <1>1, <2>2
    <3>2. left[n - k] >= left[n] /\ left[(n - k) - 1] >= left[n - k]
      BY <1>1, <1>2, <2>2, <3>1
    <3> QED
      BY <1>1, <3>1, <3>2
  <2>3. \A k \in T : k + 1 \in T
    BY <2>2
  <2>4. T \in SUBSET Nat
    OBVIOUS
  <2> HIDE DEF T
  <2> QED
    BY <2>1, <2>3, <2>4, SetInduction
<1>4. \A j \in 0..n : left[j] >= left[n]
  <2> SUFFICES ASSUME NEW j \in 0..n PROVE left[j] >= left[n]
    OBVIOUS
  <2>1. n - j \in Nat /\ n - j <= n /\ n - (n - j) = j
    BY <1>1
  <2>2. n - j \in T
    BY <1>3, <2>1
  <2> QED
    BY <2>1, <2>2
<1> QED
  BY <1>4 DEF left

(* Of one installment the principal is paid first, then the penalty, then  *)
(* the interest; and an installment only gets a share once every open one  *)
(* before it is settled, whatever the schedule looks like by then: rows    *)
(* closed early, partly paid or due nothing, and rows from before          *)
(* migration 006.                                                          *)
THEOREM WalkPaysInOrder ==
  ASSUME NEW sched \in Seq(Installment), NEW amount \in Nat,
         NEW n \in 1..Len(sched),
         NEW s, s = SharesOf(sched, amount)[n], Taken(s) > 0
  PROVE  /\ s.penalty > 0 => s.principal = PrincipalRemaining(sched[n])
         /\ s.interest > 0 => /\ s.principal = PrincipalRemaining(sched[n])
                              /\ s.penalty = PenaltyRemaining(sched[n])
         /\ \A j \in 1..(n - 1) :
              sched[j].status = "open"
                => Taken(SharesOf(sched, amount)[j]) = Owed(sched[j])
PROOF
<1> DEFINE m == Len(sched)
           left == Left(sched, amount)
<1>1. /\ m \in Nat /\ left \in [0..m -> Nat]
      /\ \A j \in 1..m : left[j] = left[j - 1] - Taken(ShareOf(sched[j], left[j - 1]))
      /\ \A j \in 1..m : sched[j] \in Installment
      /\ \A j \in 1..m : SharesOf(sched, amount)[j] = ShareOf(sched[j], left[j - 1])
      /\ \A j \in 0..(n - 1) : left[j] >= left[n - 1]
  <2>1. n - 1 \in 0..Len(sched)
    OBVIOUS
  <2> QED
    BY <2>1, LeftEquation, LeftFalls DEF SharesOf
<1> HIDE DEF m, left
<1>2. n \in 1..m /\ n - 1 \in 0..m
  BY DEF m
<1>3. /\ s = ShareOf(sched[n], left[n - 1]) /\ left[n - 1] \in Nat
      /\ sched[n] \in Installment
  BY <1>1, <1>2
<1>4. s = Waterfall(sched[n], left[n - 1]) /\ left[n - 1] > 0
  <2>1. Taken(NoShare) = 0
    BY DEF NoShare, Taken
  <2> QED
    BY <1>3, <2>1 DEF ShareOf
<1>5. /\ s.penalty > 0 => s.principal = PrincipalRemaining(sched[n])
      /\ s.interest > 0 => /\ s.principal = PrincipalRemaining(sched[n])
                           /\ s.penalty = PenaltyRemaining(sched[n])
  <2>1. /\ PrincipalRemaining(sched[n]) \in Nat
        /\ PenaltyRemaining(sched[n]) \in Nat
        /\ InterestRemaining(sched[n]) \in Nat
    BY <1>3, OwedIsNat
  <2>2. /\ s.principal = PrincipalPart(sched[n], left[n - 1])
        /\ s.penalty = PenaltyPart(sched[n], left[n - 1])
        /\ s.interest = InterestPart(sched[n], left[n - 1])
    BY <1>4 DEF Waterfall
  <2> QED
    BY <1>3, <2>1, <2>2 DEF PrincipalPart, PenaltyPart, InterestPart, Lesser
<1>6. ASSUME NEW j \in 1..(n - 1), sched[j].status = "open"
      PROVE  Taken(SharesOf(sched, amount)[j]) = Owed(sched[j])
  <2>1. j \in 1..m /\ j \in 0..(n - 1) /\ j - 1 \in 0..m
    BY <1>1, <1>2
  <2>2. left[j] > 0 /\ left[j] \in Nat /\ left[j - 1] \in Nat
    BY <1>1, <1>3, <1>4, <2>1
  <2>3. /\ sched[j] \in Installment /\ left[j - 1] \in Int
        /\ left[j] = left[j - 1] - Taken(ShareOf(sched[j], left[j - 1]))
    BY <1>1, <2>1, <2>2
  <2>4. left[j - 1] > Taken(ShareOf(sched[j], left[j - 1])) /\ left[j - 1] > 0
    <3>1. Taken(ShareOf(sched[j], left[j - 1])) \in Nat
      BY <2>3, ShareOfAmount
    <3> QED
      BY <2>2, <2>3, <3>1
  <2>5. Taken(ShareOf(sched[j], left[j - 1])) = Owed(sched[j])
    BY <1>6, <2>3, <2>4, ShareOfAmount
  <2> QED
    BY <1>1, <2>1, <2>5
<1> QED
  BY <1>5, <1>6

-----------------------------------------------------------------------------
(* The inductive invariant. *)
ServicingInv == TypeOK /\ LocksHeld /\ ReadsStayCurrent

(* Every request names a loan and a positive amount. *)
LEMMA RequestFacts ==
  ASSUME NEW r \in Requests
  PROVE  /\ r.loan \in Loans /\ r.amount \in Nat /\ r.amount > 0
         /\ r.key \in Keys /\ r.amount \in Amounts
PROOF
  BY RequestAssumption DEF Keys, Amounts

LEMMA RefusalIsOutcome ==
  ASSUME NEW r, NEW status, NEW sched
  PROVE  Refusal(r, status, sched) \in Outcomes
PROOF
  BY DEF Refusal, Outcomes

LEMMA PostingErrorIsOutcome ==
  ASSUME NEW r, NEW row
  PROVE  PostingError(r, row) \in Outcomes
PROOF
  BY DEF PostingError, Outcomes

(* A request is planned only on a loan that takes payments. *)
LEMMA UnrefusedIsPayable ==
  ASSUME NEW r, NEW status, NEW sched, Refusal(r, status, sched) = "none"
  PROVE  status \in PAYABLE_LOAN_STATUSES
PROOF
  BY DEF Refusal

(* What a handler plans is well typed. *)
LEMMA PlanType ==
  ASSUME NEW r \in Requests, NEW sched \in Seq(Installment)
  PROVE  LET a == Allocation(sched, r.amount) IN
         /\ a.shares \in Seq(Share)
         /\ Len(a.shares) = Len(sched)
         /\ a.overpayment \in Nat
PROOF
<1>1. r.amount \in Nat
  BY RequestFacts
<1>2. Left(sched, r.amount)[Len(sched)] \in Nat
  <2>1. Len(sched) \in 0..Len(sched)
    OBVIOUS
  <2> QED
    BY <1>1, <2>1, LeftEquation
<1>3. /\ SharesOf(sched, r.amount) \in Seq(Share)
      /\ Len(SharesOf(sched, r.amount)) = Len(sched)
  BY <1>1, SharesOfType
<1> QED
  BY <1>2, <1>3 DEF Allocation

(* The row it inserts is well typed. *)
LEMMA PaymentRowType ==
  ASSUME NEW r \in Requests, NEW p, p.shares \in Seq(Share), p.overpayment \in Nat
  PROVE  PaymentRow(r, p) \in Payment
PROOF
<1>1. /\ PrincipalOf(p.shares) \in Nat
      /\ PenaltyOf(p.shares) \in Nat
      /\ InterestOf(p.shares) \in Nat
  BY PartsAreNat
<1> QED
  BY <1>1, RequestFacts DEF PaymentRow, Payment

-----------------------------------------------------------------------------
LEMMA InitInv == Init => ServicingInv
PROOF
<1> SUFFICES ASSUME Init PROVE ServicingInv
  OBVIOUS
<1> USE ServicingAssumption DEF Init
<1>1. TypeOK
  <2>1. loan \in [Loans -> [status : LoanStatus, outstanding : Nat]]
    BY DEF LoanStatus
  <2>2. DOMAIN schedule = Loans /\ \A l \in Loans : schedule[l] \in Seq(Installment)
    OBVIOUS
  <2>3. payments \in Seq(Payment)
    OBVIOUS
  <2>4. assigned \subseteq Officers \X Clients
    OBVIOUS
  <2>5. /\ disbursements \in [Loans -> DisbursementKeys \cup {None}]
        /\ lock \in [Loans -> Handlers \cup {None}]
        /\ pc \in [Handlers -> {"idle", "lookup", "check", "post", "answered"}]
        /\ request \in [Handlers -> Requests \cup {None}]
        /\ seen \in [Handlers -> LoanStatus]
        /\ outcome \in [Handlers -> Outcomes]
    BY DEF LoanStatus, Outcomes
  <2>6. plan \in [Handlers -> [shares : Seq(Share), overpayment : Nat]]
    BY DEF Unplanned
  <2> QED
    BY <2>1, <2>2, <2>3, <2>4, <2>5, <2>6 DEF TypeOK
<1>2. LocksHeld
  BY DEF LocksHeld, Busy
<1>3. ReadsStayCurrent
  BY DEF ReadsStayCurrent, Busy
<1> QED
  BY <1>1, <1>2, <1>3 DEF ServicingInv

(* The end of a transaction releases the locks of its handler and of no    *)
(* other.                                                                  *)
LEMMA AnswerLocks ==
  ASSUME ServicingInv, NEW h \in Handlers, NEW o \in Outcomes, Answer(h, o)
  PROVE  LocksHeld'
PROOF
<1> USE ServicingAssumption DEF ServicingInv, Answer
<1>1. /\ pc' = [pc EXCEPT ![h] = "answered"] /\ request' = request
      /\ \A l \in Loans : lock'[l] = IF lock[l] = h THEN None ELSE lock[l]
  OBVIOUS
<1> SUFFICES ASSUME NEW g \in Handlers
             PROVE  /\ Busy(g)' =>
                         /\ request[g] \in Requests
                         /\ lock'[request[g].loan] = g
                    /\ \A l \in Loans :
                         lock'[l] = g => Busy(g)' /\ request[g].loan = l
  BY <1>1 DEF LocksHeld
<1>2. CASE g = h
  BY <1>1, <1>2 DEF TypeOK, Busy
<1>3. CASE g # h
  <2>1. Busy(g)' <=> Busy(g)
    BY <1>1, <1>3 DEF TypeOK, Busy
  <2>2. \A l \in Loans : lock'[l] = g <=> lock[l] = g
    BY <1>1, <1>3
  <2> QED
    BY <2>1, <2>2, RequestFacts DEF LocksHeld
<1> QED
  BY <1>2, <1>3

(* A handler that answers without touching loans, schedules and payments   *)
(* disturbs nothing: it gives up its own locks only.                       *)
LEMMA AnswerInv ==
  ASSUME ServicingInv, NEW h \in Handlers, NEW o \in Outcomes,
         Answer(h, o),
         UNCHANGED <<loan, schedule, payments, disbursements, assigned>>
  PROVE  ServicingInv'
PROOF
<1> USE ServicingAssumption DEF ServicingInv, Answer
<1>1. TypeOK'
  BY DEF TypeOK, Unplanned, LoanStatus
<1>2. LocksHeld'
  BY AnswerLocks
<1>3. ReadsStayCurrent'
  BY DEF TypeOK, ReadsStayCurrent, Busy
<1> QED
  BY <1>1, <1>2, <1>3

LEMMA BeginInv ==
  ASSUME ServicingInv, NEW h \in Handlers, NEW r \in Requests, Begin(h, r)
  PROVE  ServicingInv'
PROOF
<1> USE ServicingAssumption, RequestFacts DEF ServicingInv
<1>1. ~ Busy(h) /\ UNCHANGED <<tables, assigned, plan>> /\ lock[r.loan] = None
  BY DEF Begin, Busy, LockFree
<1>2. CASE Misaddressed(r) = "none"
  <2>1. /\ request' = [request EXCEPT ![h] = r]
        /\ outcome' = [outcome EXCEPT ![h] = "none"]
        /\ pc' = [pc EXCEPT ![h] = "lookup"]
        /\ lock' = [lock EXCEPT ![r.loan] = h]
        /\ seen' = [seen EXCEPT ![h] = loan[r.loan].status]
    BY <1>2 DEF Begin
  <2>2. TypeOK'
    BY <1>1, <2>1 DEF TypeOK, tables, Outcomes
  <2>3. LocksHeld'
    <3> SUFFICES ASSUME NEW g \in Handlers
                 PROVE  /\ Busy(g)' =>
                             /\ request'[g] \in Requests
                             /\ lock'[request'[g].loan] = g
                        /\ \A l \in Loans :
                             lock'[l] = g => Busy(g)' /\ request'[g].loan = l
      BY DEF LocksHeld
    <3>1. CASE g = h
      BY <1>1, <2>1, <3>1 DEF TypeOK, LocksHeld, Busy
    <3>2. CASE g # h
      <4>1. (Busy(g)' <=> Busy(g)) /\ request'[g] = request[g]
        BY <2>1, <3>2 DEF TypeOK, Busy
      <4>2. \A l \in Loans : lock'[l] = g <=> lock[l] = g
        BY <1>1, <2>1, <3>2 DEF TypeOK
      <4> QED
        BY <4>1, <4>2 DEF LocksHeld
    <3> QED
      BY <3>1, <3>2
  <2>4. ReadsStayCurrent'
    BY <1>1, <2>1 DEF TypeOK, ReadsStayCurrent, Busy, tables
  <2> QED
    BY <2>2, <2>3, <2>4
<1>3. CASE Misaddressed(r) # "none"
  <2>1. /\ request' = [request EXCEPT ![h] = r]
        /\ outcome' = [outcome EXCEPT ![h] = Misaddressed(r)]
        /\ pc' = [pc EXCEPT ![h] = "answered"]
        /\ UNCHANGED <<lock, seen>>
    BY <1>3 DEF Begin
  <2>2. Misaddressed(r) \in Outcomes
    BY DEF Misaddressed, Outcomes
  <2>3. TypeOK'
    BY <1>1, <2>1, <2>2 DEF TypeOK, tables
  <2>4. LocksHeld'
    BY <1>1, <2>1 DEF TypeOK, LocksHeld, Busy
  <2>5. ReadsStayCurrent'
    BY <1>1, <2>1 DEF TypeOK, ReadsStayCurrent, Busy, tables
  <2> QED
    BY <2>3, <2>4, <2>5
<1> QED
  BY <1>2, <1>3

(* A handler that found no payment goes on with what it read and holds.    *)
LEMMA FindNoPaymentInv ==
  ASSUME ServicingInv, NEW h \in Handlers, FindNoPayment(h)
  PROVE  ServicingInv'
PROOF
<1> USE DEF ServicingInv
<1>1. /\ pc[h] = "lookup" /\ pc' = [pc EXCEPT ![h] = "check"]
      /\ UNCHANGED <<tables, assigned, lock, request, seen, plan, outcome>>
  BY DEF FindNoPayment
<1>2. TypeOK'
  BY <1>1 DEF TypeOK, tables
<1>3. LocksHeld'
  BY <1>1 DEF TypeOK, LocksHeld, Busy
<1>4. ReadsStayCurrent'
  BY <1>1 DEF TypeOK, ReadsStayCurrent, Busy, tables
<1> QED
  BY <1>2, <1>3, <1>4

LEMMA PlanPaymentInv ==
  ASSUME ServicingInv, NEW h \in Handlers, PlanPayment(h)
  PROVE  ServicingInv'
PROOF
<1> DEFINE r == request[h]
<1> USE DEF ServicingInv
<1>1. /\ pc[h] = "check" /\ Busy(h) /\ r \in Requests
      /\ r.loan \in Loans /\ schedule[r.loan] \in Seq(Installment)
  BY RequestFacts DEF PlanPayment, TypeOK, LocksHeld, Busy
<1>2. seen[h] \in PAYABLE_LOAN_STATUSES
  BY UnrefusedIsPayable DEF PlanPayment
<1>3. /\ plan' = [plan EXCEPT ![h] = Allocation(schedule[r.loan], r.amount)]
      /\ pc' = [pc EXCEPT ![h] = "post"]
      /\ UNCHANGED <<tables, assigned, lock, request, seen, outcome>>
  BY DEF PlanPayment
<1>4. /\ Allocation(schedule[r.loan], r.amount).shares \in Seq(Share)
      /\ Allocation(schedule[r.loan], r.amount).overpayment \in Nat
  BY <1>1, PlanType
<1>5. Allocation(schedule[r.loan], r.amount) \in [shares : Seq(Share), overpayment : Nat]
  BY <1>4 DEF Allocation
<1>6. TypeOK'
  BY <1>3, <1>5 DEF TypeOK, tables
<1>7. LocksHeld'
  BY <1>1, <1>3 DEF TypeOK, LocksHeld, Busy
<1>8. ReadsStayCurrent'
  BY <1>1, <1>2, <1>3 DEF TypeOK, ReadsStayCurrent, Busy, tables
<1> QED
  BY <1>6, <1>7, <1>8

(* What CommitPayment knows of the payment it inserts: its row is well     *)
(* typed, the balance guard held, and it is for the schedule as it stands. *)
LEMMA CommitFacts ==
  ASSUME ServicingInv, NEW h \in Handlers, CommitPayment(h)
  PROVE  LET r   == request[h]
             row == PaymentRow(r, plan[h])
         IN  /\ Busy(h) /\ r \in Requests /\ lock[r.loan] = h
             /\ loan[r.loan].status \in PAYABLE_LOAN_STATUSES
             /\ row \in Payment
             /\ row.key = r.key /\ row.loan = r.loan /\ row.amount = r.amount
             /\ Len(row.shares) = Len(schedule[r.loan])
             /\ \A n \in 1..Len(payments) : payments[n].key # r.key
             /\ row.principal <= loan[r.loan].outstanding
             /\ row.principal <= r.amount
PROOF
<1> DEFINE r   == request[h]
           row == PaymentRow(r, plan[h])
<1> USE DEF ServicingInv
<1>1. /\ pc[h] = "post" /\ Busy(h) /\ r \in Requests /\ lock[r.loan] = h
      /\ r.loan \in Loans /\ schedule[r.loan] \in Seq(Installment)
  BY RequestFacts DEF CommitPayment, TypeOK, LocksHeld, Busy
<1>2. /\ loan[r.loan].status \in PAYABLE_LOAN_STATUSES
      /\ plan[h] = Allocation(schedule[r.loan], r.amount)
  BY <1>1 DEF ReadsStayCurrent
<1>3. /\ plan[h].shares \in Seq(Share)
      /\ Len(plan[h].shares) = Len(schedule[r.loan])
      /\ plan[h].overpayment \in Nat
  BY <1>1, <1>2, PlanType
<1>4. row \in Payment
  BY <1>1, <1>3, PaymentRowType
<1>5. /\ row.key = r.key /\ row.loan = r.loan /\ row.amount = r.amount
      /\ row.shares = plan[h].shares
  BY DEF PaymentRow
<1>6. /\ \A n \in 1..Len(payments) : payments[n].key # row.key
      /\ ~ (loan[r.loan].outstanding < row.principal)
      /\ Balanced(row)
  <2>1. PostingError(r, row) = "none"
    BY DEF CommitPayment
  <2> QED
    BY <2>1 DEF PostingError
<1>7. /\ row.principal \in Nat /\ row.penalty \in Nat /\ row.interest \in Nat
      /\ row.overpayment \in Nat /\ row.amount \in Nat
  BY <1>4 DEF Payment
<1>8. loan[r.loan].outstanding \in Nat
  BY <1>1 DEF TypeOK
<1>9. row.principal <= loan[r.loan].outstanding
  BY <1>6, <1>7, <1>8
<1>10. row.principal <= r.amount
  BY <1>5, <1>6, <1>7 DEF Balanced
<1> QED
  BY <1>1, <1>2, <1>3, <1>4, <1>5, <1>6, <1>9, <1>10

LEMMA CommitPaymentInv ==
  ASSUME ServicingInv, NEW h \in Handlers, CommitPayment(h)
  PROVE  ServicingInv'
PROOF
<1> DEFINE r   == request[h]
           row == PaymentRow(r, plan[h])
<1> USE ServicingAssumption DEF ServicingInv
<1>1. /\ Busy(h) /\ r \in Requests /\ r.loan \in Loans /\ lock[r.loan] = h
      /\ row \in Payment /\ Len(row.shares) = Len(schedule[r.loan])
      /\ row.principal <= loan[r.loan].outstanding
  BY CommitFacts, RequestFacts
<1>2. /\ payments' = Append(payments, row)
      /\ loan' = [loan EXCEPT ![r.loan] =
                    LoanAfterPayment(loan[r.loan], row.principal)]
      /\ schedule' = [schedule EXCEPT ![r.loan] =
                        CreditAll(schedule[r.loan], row.shares)]
      /\ Answer(h, "created")
      /\ UNCHANGED <<disbursements, assigned>>
  BY DEF CommitPayment
<1>3. row.principal \in Nat /\ row.shares \in Seq(Share)
  BY <1>1 DEF Payment
<1> HIDE DEF r, row
<1>4. LoanAfterPayment(loan[r.loan], row.principal)
        \in [status : LoanStatus, outstanding : Nat]
  BY <1>1, <1>3 DEF TypeOK, LoanAfterPayment, LoanStatus
<1>5. CreditAll(schedule[r.loan], row.shares) \in Seq(Installment)
  BY <1>1, <1>3, CreditAllType DEF TypeOK
<1>6. TypeOK'
  <2>1. loan' \in [Loans -> [status : LoanStatus, outstanding : Nat]]
    BY <1>2, <1>4 DEF TypeOK
  <2>2. /\ DOMAIN schedule' = Loans
        /\ \A l \in Loans : schedule'[l] \in Seq(Installment)
    BY <1>2, <1>5 DEF TypeOK
  <2>3. payments' \in Seq(Payment)
    BY <1>1, <1>2 DEF TypeOK
  <2>4. /\ lock' \in [Loans -> Handlers \cup {None}]
        /\ pc' \in [Handlers -> {"idle", "lookup", "check", "post", "answered"}]
        /\ request' \in [Handlers -> Requests \cup {None}]
        /\ seen' \in [Handlers -> LoanStatus]
        /\ plan' \in [Handlers -> [shares : Seq(Share), overpayment : Nat]]
        /\ outcome' \in [Handlers -> Outcomes]
    BY <1>2 DEF TypeOK, Answer, Unplanned, LoanStatus, Outcomes
  <2> QED
    BY <1>2, <2>1, <2>2, <2>3, <2>4 DEF TypeOK
<1>7. LocksHeld'
  <2>1. "created" \in Outcomes
    BY DEF Outcomes
  <2> QED
    BY <1>2, <2>1, AnswerLocks
<1>8. ReadsStayCurrent'
  <2> SUFFICES ASSUME NEW g \in Handlers, Busy(g)'
               PROVE  /\ seen'[g] = loan'[request'[g].loan].status
                      /\ pc'[g] = "post" =>
                           /\ seen'[g] \in PAYABLE_LOAN_STATUSES
                           /\ plan'[g] = Allocation(schedule'[request'[g].loan],
                                                    request'[g].amount)
    BY DEF ReadsStayCurrent, Busy
  <2>1. /\ g # h /\ Busy(g)
        /\ pc'[g] = pc[g] /\ request'[g] = request[g]
        /\ seen'[g] = seen[g] /\ plan'[g] = plan[g]
    BY <1>2 DEF Answer, TypeOK, Busy
  <2>2. request[g].loan \in Loans /\ request[g].loan # r.loan
    BY <1>1, <2>1, RequestFacts DEF LocksHeld
  <2>3. /\ loan'[request[g].loan] = loan[request[g].loan]
        /\ schedule'[request[g].loan] = schedule[request[g].loan]
    BY <1>2, <2>2 DEF TypeOK
  <2> QED
    BY <2>1, <2>3 DEF ReadsStayCurrent
<1> QED
  BY <1>6, <1>7, <1>8

-----------------------------------------------------------------------------
(* The transactions that write loans without serving a payment only write  *)
(* a row nobody holds.                                                     *)
LEMMA DisburseLoanInv ==
  ASSUME ServicingInv, NEW l \in Loans, NEW k \in DisbursementKeys,
         DisburseLoan(l, k)
  PROVE  ServicingInv'
PROOF
<1> USE ServicingAssumption DEF ServicingInv
<1>1. /\ lock[l] = None
      /\ loan' = [loan EXCEPT ![l].status = "disbursed"]
      /\ disbursements' = [disbursements EXCEPT ![l] = k]
      /\ UNCHANGED <<schedule, payments, captures, assigned, lock, handlers>>
  BY DEF DisburseLoan, LockFree
<1>2. TypeOK'
  <2>1. loan' \in [Loans -> [status : LoanStatus, outstanding : Nat]]
    <3>1. "disbursed" \in LoanStatus
      BY DEF LoanStatus
    <3> QED
      BY <1>1, <3>1 DEF TypeOK
  <2>2. disbursements' \in [Loans -> DisbursementKeys \cup {None}]
    BY <1>1 DEF TypeOK
  <2> QED
    BY <1>1, <2>1, <2>2 DEF TypeOK, handlers
<1>3. LocksHeld'
  BY <1>1 DEF LocksHeld, Busy, handlers
<1>4. ReadsStayCurrent'
  BY <1>1, RequestFacts DEF TypeOK, LocksHeld, ReadsStayCurrent, Busy, handlers
<1> QED
  BY <1>2, <1>3, <1>4

LEMMA TransitionLoanInv ==
  ASSUME ServicingInv, NEW l \in Loans, NEW s \in StatusTargets,
         TransitionLoan(l, s)
  PROVE  ServicingInv'
PROOF
<1> USE ServicingAssumption DEF ServicingInv
<1>1. /\ lock[l] = None
      /\ loan' = [loan EXCEPT ![l].status = s]
      /\ UNCHANGED <<schedule, payments, ledger, captures, disbursements,
                     assigned, lock, handlers>>
  BY DEF TransitionLoan, LockFree
<1>2. TypeOK'
  BY <1>1 DEF TypeOK, handlers
<1>3. LocksHeld'
  BY <1>1 DEF LocksHeld, Busy, handlers
<1>4. ReadsStayCurrent'
  BY <1>1, RequestFacts DEF TypeOK, LocksHeld, ReadsStayCurrent, Busy, handlers
<1> QED
  BY <1>2, <1>3, <1>4

LEMMA ReassignInv ==
  ASSUME ServicingInv, Reassign
  PROVE  ServicingInv'
PROOF
<1> USE DEF ServicingInv, Reassign, tables, handlers
<1>1. TypeOK'
  BY DEF TypeOK
<1>2. LocksHeld'
  BY DEF LocksHeld, Busy
<1>3. ReadsStayCurrent'
  BY DEF ReadsStayCurrent, Busy
<1> QED
  BY <1>1, <1>2, <1>3

LEMMA StutterInv ==
  ASSUME ServicingInv, UNCHANGED vars
  PROVE  ServicingInv'
PROOF
<1> USE DEF ServicingInv, vars, tables, handlers
<1>1. TypeOK'
  BY DEF TypeOK
<1>2. LocksHeld'
  BY DEF LocksHeld, Busy
<1>3. ReadsStayCurrent'
  BY DEF ReadsStayCurrent, Busy
<1> QED
  BY <1>1, <1>2, <1>3

-----------------------------------------------------------------------------
LEMMA StepInv == ServicingInv /\ [Next]_vars => ServicingInv'
PROOF
<1> SUFFICES ASSUME ServicingInv, [Next]_vars PROVE ServicingInv'
  OBVIOUS
<1>1. ASSUME NEW h \in Handlers, NEW r \in Requests, Begin(h, r)
      PROVE  ServicingInv'
  BY <1>1, BeginInv
<1>2. ASSUME NEW h \in Handlers, Replay(h)
      PROVE  ServicingInv'
  <2>1. PICK o \in {"IDEMPOTENCY_KEY_REUSE_MISMATCH", "replayed",
                    "FIELD_COLLECTION_CONFLICT"} : Answer(h, o)
    BY <1>2 DEF Replay
  <2>2. o \in Outcomes
    BY DEF Outcomes
  <2>3. UNCHANGED <<loan, schedule, payments, disbursements, assigned>>
    BY <1>2 DEF Replay
  <2> QED
    BY <2>1, <2>2, <2>3, AnswerInv
<1>3. ASSUME NEW h \in Handlers, Refuse(h)
      PROVE  ServicingInv'
  BY <1>3, RefusalIsOutcome, AnswerInv DEF Refuse, tables
<1>4. ASSUME NEW h \in Handlers, FindNoPayment(h) \/ PlanPayment(h)
      PROVE  ServicingInv'
  BY <1>4, FindNoPaymentInv, PlanPaymentInv
<1>5. ASSUME NEW h \in Handlers, RejectPosting(h)
      PROVE  ServicingInv'
  BY <1>5, PostingErrorIsOutcome, AnswerInv DEF RejectPosting, tables
<1>6. ASSUME NEW h \in Handlers, CommitPayment(h)
      PROVE  ServicingInv'
  BY <1>6, CommitPaymentInv
<1>7. ASSUME NEW h \in Handlers, Abort(h) \/ BreakDeadlock(h)
      PROVE  ServicingInv'
  <2>1. "aborted" \in Outcomes
    BY DEF Outcomes
  <2>2. Answer(h, "aborted") /\ UNCHANGED <<tables, assigned>>
    BY <1>7 DEF Abort, BreakDeadlock
  <2> QED
    BY <2>1, <2>2, AnswerInv DEF tables
<1>8. ASSUME NEW l \in Loans, NEW k \in DisbursementKeys, DisburseLoan(l, k)
      PROVE  ServicingInv'
  BY <1>8, DisburseLoanInv
<1>9. ASSUME NEW l \in Loans, NEW s \in StatusTargets, TransitionLoan(l, s)
      PROVE  ServicingInv'
  BY <1>9, TransitionLoanInv
<1>10. CASE Reassign
  BY <1>10, ReassignInv
<1>11. CASE UNCHANGED vars
  BY <1>11, StutterInv
<1> QED
  BY <1>1, <1>2, <1>3, <1>4, <1>5, <1>6, <1>7, <1>8, <1>9, <1>10, <1>11
  DEF Next, Serve, PostNew

(* The inductive invariant holds of every behaviour. *)
THEOREM ServicingInvariant == Spec => []ServicingInv
PROOF
  BY InitInv, StepInv, PTL DEF Spec

(* Types: no balance, amount or part of a payment is ever negative.        *)
THEOREM TypeCorrect == Spec => []TypeOK
PROOF
  BY ServicingInvariant, PTL DEF ServicingInv

(* A row lock is held from the first read of a request to its answer.      *)
THEOREM LocksCorrect == Spec => []LocksHeld
PROOF
  BY ServicingInvariant, PTL DEF ServicingInv

(* No handler acts on a status or a schedule that has changed since it     *)
(* read it.                                                                *)
THEOREM ReadsCorrect == Spec => []ReadsStayCurrent
PROOF
  BY ServicingInvariant, PTL DEF ServicingInv

-----------------------------------------------------------------------------
(* What loanTransitions allows. *)
LEMMA Transitions ==
  ASSUME NEW old \in LoanStatus, NEW new, new \in loanTransitions[old]
  PROVE  /\ new \in LoanStatus
         /\ new = "disbursed" <=> old = "approved"
         /\ old # "completed"
         /\ old = "written_off" => new = "completed"
PROOF
<1>1. /\ loanTransitions["approved"] = {"disbursed"}
      /\ loanTransitions["disbursed"] = {"active"}
      /\ loanTransitions["active"] = {"overdue", "completed"}
      /\ loanTransitions["overdue"] = {"active", "defaulted", "completed"}
      /\ loanTransitions["defaulted"] = {"written_off", "active"}
      /\ loanTransitions["written_off"] = {"completed"}
      /\ loanTransitions["completed"] = {}
  BY DEF loanTransitions
<1> QED
  BY <1>1 DEF LoanStatus

LEMMA PhaseOfStatus ==
  /\ Phase("approved") = "new"
  /\ Phase("disbursed") = "collecting" /\ Phase("active") = "collecting"
  /\ Phase("overdue") = "collecting" /\ Phase("defaulted") = "collecting"
  /\ Phase("written_off") = "closed" /\ Phase("completed") = "closed"
PROOF
  BY DEF Phase, PAYABLE_LOAN_STATUSES

(* Answers alone leave the book as it is. *)
LEMMA BookUnchanged ==
  ASSUME UNCHANGED <<loan, payments>>
  PROVE  UNCHANGED Book!vars
PROOF
  BY DEF Book!vars, Booked, Debts, Phases

LEMMA CommitEnters ==
  ASSUME ServicingInv, NEW h \in Handlers, CommitPayment(h)
  PROVE  Book!Next
PROOF
<1> DEFINE r   == request[h]
           l   == r.loan
           row == PaymentRow(r, plan[h])
           p   == row.principal
           entry == [key |-> r.key, loan |-> l, amount |-> r.amount]
<1>1. /\ r \in Requests /\ l \in Loans
      /\ r.key \in Keys /\ r.amount \in Amounts /\ r.amount \in Nat
      /\ loan[l].status \in PAYABLE_LOAN_STATUSES
      /\ row \in Payment
      /\ row.key = r.key /\ row.loan = l /\ row.amount = r.amount
      /\ \A n \in 1..Len(payments) : payments[n].key # r.key
      /\ p <= loan[l].outstanding /\ p <= r.amount
  BY CommitFacts, RequestFacts
<1>2. /\ payments' = Append(payments, row)
      /\ loan' = [loan EXCEPT ![l] = LoanAfterPayment(loan[l], p)]
  BY DEF CommitPayment
<1>3. p \in Nat
  BY <1>1 DEF Payment
<1>4. /\ payments \in Seq(Payment)
      /\ loan \in [Loans -> [status : LoanStatus, outstanding : Nat]]
  BY DEF ServicingInv, TypeOK
<1> HIDE DEF r, l, row, p
<1>5. Booked' = Booked \cup {entry}
  <2>1. /\ Len(payments') = Len(payments) + 1
        /\ Len(payments) \in Nat
        /\ payments'[Len(payments) + 1] = row
        /\ \A n \in 1..Len(payments) : payments'[n] = payments[n]
    BY <1>1, <1>2, <1>4
  <2>2. 1..Len(payments') = 1..Len(payments) \cup {Len(payments) + 1}
    BY <2>1
  <2> QED
    BY <1>1, <2>1, <2>2 DEF Booked
<1>6. \A e \in Booked : e.key # r.key
  BY <1>1 DEF Booked
<1>7. Phases[l] = "collecting" /\ Debts[l] = loan[l].outstanding
  BY <1>1 DEF Phases, Phase, Debts, PAYABLE_LOAN_STATUSES
<1>8. p \in 0..r.amount /\ p <= Debts[l]
  BY <1>1, <1>3, <1>7
<1>9. Debts' = [Debts EXCEPT ![l] = Debts[l] - p]
  BY <1>1, <1>2, <1>3, <1>4 DEF Debts, LoanAfterPayment
<1>10. Phases' = [Phases EXCEPT ![l] =
                    IF Debts[l] - p = 0 THEN "closed" ELSE "collecting"]
  <2>1. Phase(LoanAfterPayment(loan[l], p).status) =
          IF Debts[l] - p = 0 THEN "closed" ELSE "collecting"
    BY <1>7 DEF Phase, LoanAfterPayment, PAYABLE_LOAN_STATUSES
  <2>2. \A m \in Loans : loan'[m] = IF m = l THEN LoanAfterPayment(loan[l], p)
                                             ELSE loan[m]
    BY <1>2, <1>4
  <2> QED
    BY <2>1, <2>2 DEF Phases
<1>11. Book!Enter(r.key, l, r.amount)
  BY <1>5, <1>6, <1>7, <1>8, <1>9, <1>10 DEF Book!Enter, entry
<1> QED
  BY <1>1, <1>11 DEF Book!Next

LEMMA DisburseOpens ==
  ASSUME ServicingInv, NEW l \in Loans, NEW k \in DisbursementKeys,
         DisburseLoan(l, k)
  PROVE  Book!Next
PROOF
<1>1. /\ loan \in [Loans -> [status : LoanStatus, outstanding : Nat]]
      /\ "disbursed" \in loanTransitions[loan[l].status]
      /\ loan' = [loan EXCEPT ![l].status = "disbursed"]
      /\ payments' = payments
  BY DEF DisburseLoan, ServicingInv, TypeOK
<1>2. loan[l].status = "approved"
  BY <1>1, Transitions
<1>3. Booked' = Booked
  BY <1>1 DEF Booked
<1>4. /\ \A m \in Loans : loan'[m].outstanding = loan[m].outstanding
      /\ \A m \in Loans : loan'[m].status = IF m = l THEN "disbursed"
                                                   ELSE loan[m].status
  BY <1>1
<1>5. Debts' = Debts
  BY <1>4 DEF Debts
<1>6. Phases[l] = "new" /\ Phases' = [Phases EXCEPT ![l] = "collecting"]
  BY <1>2, <1>4 DEF Phases, Phase, PAYABLE_LOAN_STATUSES
<1> QED
  BY <1>3, <1>5, <1>6 DEF Book!Next, Book!Open

LEMMA TransitionCloses ==
  ASSUME ServicingInv, NEW l \in Loans, NEW s \in StatusTargets,
         TransitionLoan(l, s)
  PROVE  Book!Next \/ UNCHANGED Book!vars
PROOF
<1> DEFINE old == loan[l].status
<1>1. /\ loan \in [Loans -> [status : LoanStatus, outstanding : Nat]]
      /\ s \in loanTransitions[old]
      /\ loan' = [loan EXCEPT ![l].status = s]
      /\ payments' = payments
  BY DEF TransitionLoan, ServicingInv, TypeOK
<1>2. /\ old \in LoanStatus /\ s \in LoanStatus
      /\ s \notin {"approved", "disbursed"} /\ old # "approved"
      /\ old # "completed"
      /\ old = "written_off" => s = "completed"
  BY <1>1, Transitions, ServicingAssumption
<1>3. Booked' = Booked
  BY <1>1 DEF Booked
<1>4. /\ \A m \in Loans : loan'[m].outstanding = loan[m].outstanding
      /\ \A m \in Loans : loan'[m].status = IF m = l THEN s ELSE loan[m].status
  BY <1>1
<1>5. Debts' = Debts
  BY <1>4 DEF Debts
<1>6. Phases' = [Phases EXCEPT ![l] = Phase(s)] /\ Phases[l] = Phase(old)
  BY <1>4 DEF Phases
<1>7. CASE Phase(s) = Phase(old)
  <2>1. Phases' = Phases
    BY <1>6, <1>7 DEF Phases
  <2> QED
    BY <1>3, <1>5, <2>1 DEF Book!vars
<1>8. CASE Phase(s) # Phase(old)
  <2>1. Phase(old) = "collecting" /\ Phase(s) = "closed"
    BY <1>2, <1>8, PhaseOfStatus DEF LoanStatus
  <2> QED
    BY <1>3, <1>5, <1>6, <2>1 DEF Book!Next, Book!Close
<1> QED
  BY <1>7, <1>8

(* Every step of the handlers, the disbursements and the status changes is *)
(* a step of the book, or leaves it as it is.                              *)
LEMMA StepImplementsBook ==
  ServicingInv /\ [Next]_vars => [Book!Next]_(Book!vars)
PROOF
<1> SUFFICES ASSUME ServicingInv, [Next]_vars
             PROVE  Book!Next \/ UNCHANGED Book!vars
  OBVIOUS
<1>1. CASE \E h \in Handlers : CommitPayment(h)
  BY <1>1, CommitEnters
<1>2. CASE \E l \in Loans, k \in DisbursementKeys : DisburseLoan(l, k)
  BY <1>2, DisburseOpens
<1>3. CASE \E l \in Loans, s \in StatusTargets : TransitionLoan(l, s)
  BY <1>3, TransitionCloses
<1>4. CASE UNCHANGED <<loan, payments>>
  BY <1>4, BookUnchanged
<1>5. ASSUME NEW h \in Handlers,
             \/ \E r \in Requests : Begin(h, r)
             \/ Replay(h) \/ FindNoPayment(h) \/ Refuse(h)
             \/ PlanPayment(h) \/ RejectPosting(h)
             \/ Abort(h) \/ BreakDeadlock(h)
      PROVE  UNCHANGED <<loan, payments>>
  BY <1>5 DEF Begin, Replay, FindNoPayment, Refuse, PlanPayment, RejectPosting,
              Abort, BreakDeadlock, tables
<1>6. Reassign \/ UNCHANGED vars => UNCHANGED <<loan, payments>>
  BY DEF Reassign, vars, tables
<1> QED
  BY <1>1, <1>2, <1>3, <1>4, <1>5, <1>6 DEF Next, Serve, PostNew

LEMMA InitImplementsBook == Init => Book!Init
PROOF
<1> SUFFICES ASSUME Init PROVE Book!Init
  OBVIOUS
<1>1. Booked = {}
  BY DEF Init, Booked
<1>2. Debts = Principal
  BY ServicingAssumption DEF Init, Debts
<1>3. Phases = [l \in Loans |-> "new"]
  <2>1. \A l \in Loans : loan[l].status = "approved"
    BY DEF Init
  <2> QED
    BY <2>1, PhaseOfStatus DEF Phases
<1> QED
  BY <1>1, <1>2, <1>3 DEF Book!Init

(* Whatever requests, retries, deadlocks and status changes come, payments *)
(* are entered once per key, on a loan being collected, for the amount     *)
(* asked, and never beyond its debt.                                       *)
THEOREM ServicingImplementsBook == Spec => ImplementsBook
PROOF
  BY ServicingInvariant, InitImplementsBook, StepImplementsBook, PTL
  DEF Spec, ImplementsBook, Book!Spec

-----------------------------------------------------------------------------
(* Closed loans. *)
LEMMA StepKeepsClosed ==
  ASSUME ServicingInv, [Next]_vars, NEW l \in Loans,
         loan[l].status \in {"completed", "written_off"}
  PROVE  \/ loan'[l] = loan[l] /\ schedule'[l] = schedule[l]
         \/ /\ loan[l].status = "written_off" /\ loan'[l].status = "completed"
            /\ loan'[l].outstanding = loan[l].outstanding
PROOF
<1>1. /\ loan \in [Loans -> [status : LoanStatus, outstanding : Nat]]
      /\ DOMAIN schedule = Loans
  BY DEF ServicingInv, TypeOK
<1>2. ASSUME NEW h \in Handlers, CommitPayment(h)
      PROVE  loan'[l] = loan[l] /\ schedule'[l] = schedule[l]
  <2>1. request[h].loan # l
    BY <1>2, CommitFacts DEF PAYABLE_LOAN_STATUSES
  <2> QED
    BY <1>1, <1>2, <2>1 DEF CommitPayment
<1>3. ASSUME NEW m \in Loans, NEW k \in DisbursementKeys, DisburseLoan(m, k)
      PROVE  loan'[l] = loan[l] /\ schedule'[l] = schedule[l]
  <2>1. m # l
    BY <1>1, <1>3, Transitions DEF DisburseLoan
  <2> QED
    BY <1>1, <1>3, <2>1 DEF DisburseLoan
<1>4. ASSUME NEW m \in Loans, NEW s \in StatusTargets, TransitionLoan(m, s)
      PROVE  \/ loan'[l] = loan[l] /\ schedule'[l] = schedule[l]
             \/ /\ loan[l].status = "written_off" /\ loan'[l].status = "completed"
                /\ loan'[l].outstanding = loan[l].outstanding
  <2>1. /\ s \in loanTransitions[loan[m].status]
        /\ loan' = [loan EXCEPT ![m].status = s]
        /\ schedule' = schedule
    BY <1>4 DEF TransitionLoan
  <2>2. CASE m # l
    BY <1>1, <2>1, <2>2
  <2>3. CASE m = l
    <3>1. loan[l].status = "written_off" /\ s = "completed"
      BY <1>1, <2>1, <2>3, Transitions
    <3> QED
      BY <1>1, <2>1, <2>3, <3>1
  <2> QED
    BY <2>2, <2>3
<1>5. ASSUME NEW h \in Handlers,
             \/ \E r \in Requests : Begin(h, r)
             \/ Replay(h) \/ FindNoPayment(h) \/ Refuse(h)
             \/ PlanPayment(h) \/ RejectPosting(h)
             \/ Abort(h) \/ BreakDeadlock(h)
      PROVE  UNCHANGED <<loan, schedule>>
  BY <1>5 DEF Begin, Replay, FindNoPayment, Refuse, PlanPayment, RejectPosting,
              Abort, BreakDeadlock, tables
<1>6. Reassign \/ UNCHANGED vars => UNCHANGED <<loan, schedule>>
  BY DEF Reassign, vars, tables
<1> QED
  BY <1>2, <1>3, <1>4, <1>5, <1>6 DEF Next, Serve, PostNew

(* Neither a payment under way nor a retry ever touches a completed loan,  *)
(* and a written-off one can only be completed, with its debt unchanged.   *)
THEOREM ClosedLoans == Spec => ClosedLoansStayClosed
PROOF
<1>1. ServicingInv /\ [Next]_vars =>
        [\A l \in Loans :
           /\ loan[l].status = "completed" =>
                loan'[l] = loan[l] /\ schedule'[l] = schedule[l]
           /\ loan[l].status = "written_off" =>
                /\ loan'[l].status \in {"written_off", "completed"}
                /\ loan'[l].outstanding = loan[l].outstanding]_vars
  BY StepKeepsClosed
<1> QED
  BY <1>1, ServicingInvariant, PTL DEF Spec, ClosedLoansStayClosed

-----------------------------------------------------------------------------
(* Retries. *)

(* No key is posted twice, and a handler that has found no payment of its  *)
(* key can rely on that for its own loan until it answers, since it holds  *)
(* the row of that loan.                                                   *)
KeysPostedOnce ==
  \A m, n \in 1..Len(payments) : payments[m].key = payments[n].key => m = n

PostedOn(r) ==
  \E n \in 1..Len(payments) : payments[n].key = r.key /\ payments[n].loan = r.loan

StillUnposted ==
  \A h \in Handlers : pc[h] \in {"check", "post"} => ~ PostedOn(request[h])

RetryInv == KeysPostedOnce /\ StillUnposted

(* A step of handler h that leaves the payments alone and h short of       *)
(* "check" and "post" disturbs no handler.                                 *)
LEMMA AnswerUnposted ==
  ASSUME ServicingInv, RetryInv, NEW h \in Handlers, NEW o, Answer(h, o),
         payments' = payments
  PROVE  RetryInv'
PROOF
  BY DEF Answer, ServicingInv, TypeOK, RetryInv, KeysPostedOnce, StillUnposted,
         PostedOn

LEMMA CommitUnposted ==
  ASSUME ServicingInv, RetryInv, NEW h \in Handlers, CommitPayment(h)
  PROVE  RetryInv'
PROOF
<1> DEFINE r   == request[h]
           row == PaymentRow(r, plan[h])
<1>1. /\ Busy(h) /\ r \in Requests /\ lock[r.loan] = h
      /\ row \in Payment /\ row.key = r.key /\ row.loan = r.loan
      /\ \A n \in 1..Len(payments) : payments[n].key # r.key
  BY CommitFacts
<1>2. /\ payments' = Append(payments, row)
      /\ pc' = [pc EXCEPT ![h] = "answered"] /\ request' = request
  BY DEF CommitPayment, Answer
<1>3. payments \in Seq(Payment) /\ pc \in [Handlers ->
        {"idle", "lookup", "check", "post", "answered"}]
  BY DEF ServicingInv, TypeOK
<1> HIDE DEF row
<1>4. /\ Len(payments') = Len(payments) + 1 /\ Len(payments) \in Nat
      /\ payments'[Len(payments) + 1] = row
      /\ \A n \in 1..Len(payments) : payments'[n] = payments[n]
  BY <1>1, <1>2, <1>3
<1>5. KeysPostedOnce'
  BY <1>1, <1>4 DEF RetryInv, KeysPostedOnce
<1>6. ASSUME NEW g \in Handlers, pc'[g] \in {"check", "post"}
      PROVE  ~ PostedOn(request[g])'
  <2>1. g # h /\ pc[g] \in {"check", "post"} /\ Busy(g)
    BY <1>2, <1>3, <1>6 DEF Busy
  <2>2. request[g].loan # r.loan
    BY <1>1, <2>1 DEF ServicingInv, LocksHeld
  <2>3. ~ PostedOn(request[g])
    BY <2>1 DEF RetryInv, StillUnposted
  <2> QED
    BY <1>1, <1>2, <1>4, <2>2, <2>3 DEF PostedOn
<1> QED
  BY <1>2, <1>5, <1>6 DEF RetryInv, StillUnposted

LEMMA StepUnposted == ServicingInv /\ RetryInv /\ [Next]_vars => RetryInv'
PROOF
<1> SUFFICES ASSUME ServicingInv, RetryInv, [Next]_vars PROVE RetryInv'
  OBVIOUS
<1>1. pc \in [Handlers -> {"idle", "lookup", "check", "post", "answered"}]
  BY DEF ServicingInv, TypeOK
<1>2. ASSUME NEW h \in Handlers,
             \/ Replay(h) \/ Refuse(h) \/ RejectPosting(h)
             \/ Abort(h) \/ BreakDeadlock(h)
      PROVE  RetryInv'
  <2>1. payments' = payments /\ \E o : Answer(h, o)
    BY <1>2 DEF Replay, Refuse, RejectPosting, Abort, BreakDeadlock, tables
  <2> QED
    BY <2>1, AnswerUnposted
<1>3. ASSUME NEW h \in Handlers, CommitPayment(h)
      PROVE  RetryInv'
  BY <1>3, CommitUnposted
<1>4. ASSUME NEW h \in Handlers, NEW r \in Requests, Begin(h, r)
      PROVE  RetryInv'
  <2>1. /\ payments' = payments /\ request' = [request EXCEPT ![h] = r]
        /\ \E s \in {"lookup", "answered"} : pc' = [pc EXCEPT ![h] = s]
    BY <1>4 DEF Begin, tables
  <2> QED
    BY <1>1, <2>1 DEF RetryInv, KeysPostedOnce, StillUnposted, PostedOn,
                      ServicingInv, TypeOK
<1>5. ASSUME NEW h \in Handlers, FindNoPayment(h)
      PROVE  RetryInv'
  BY <1>1, <1>5 DEF FindNoPayment, Recorded, RetryInv, KeysPostedOnce,
                    StillUnposted, PostedOn, tables
<1>6. ASSUME NEW h \in Handlers, PlanPayment(h)
      PROVE  RetryInv'
  BY <1>1, <1>6 DEF PlanPayment, RetryInv, KeysPostedOnce, StillUnposted,
                    PostedOn, tables
<1>7. ASSUME \/ \E l \in Loans, k \in DisbursementKeys : DisburseLoan(l, k)
             \/ \E l \in Loans, s \in StatusTargets : TransitionLoan(l, s)
             \/ Reassign \/ UNCHANGED vars
      PROVE  UNCHANGED <<payments, pc, request>>
  BY <1>7 DEF DisburseLoan, TransitionLoan, Reassign, vars, tables, handlers
<1>8. ASSUME UNCHANGED <<payments, pc, request>>
      PROVE  RetryInv'
  BY <1>8 DEF RetryInv, KeysPostedOnce, StillUnposted, PostedOn
<1> QED
  BY <1>2, <1>3, <1>4, <1>5, <1>6, <1>7, <1>8 DEF Next, Serve, PostNew

(* What handler h may tell a client whose payment is in the books.         *)
LEMMA StepAcceptsRetries ==
  ASSUME ServicingInv, RetryInv, [Next]_vars, NEW h \in Handlers,
         outcome'[h] # outcome[h],
         PostedAs(request'[h]),
         Misaddressed(request'[h]) = "none"
  PROVE  outcome'[h] \in {"none", "replayed", "FIELD_COLLECTION_CONFLICT",
                          "aborted"}
PROOF
<1>1. /\ outcome \in [Handlers -> Outcomes]
      /\ request \in [Handlers -> Requests \cup {None}]
  BY DEF ServicingInv, TypeOK
<1>2. ASSUME NEW g \in Handlers, NEW o, Answer(g, o)
      PROVE  g = h /\ outcome'[h] = o /\ PostedAs(request[h])
  BY <1>1, <1>2 DEF Answer
<1>3. ASSUME PostedAs(request[h])
      PROVE  pc[h] \notin {"check", "post"}
  <2>1. PostedOn(request[h])
    BY <1>3 DEF PostedAs, PostedOn, Recorded
  <2> QED
    BY <2>1 DEF RetryInv, StillUnposted
<1>4. ASSUME NEW g \in Handlers, NEW r \in Requests, Begin(g, r)
      PROVE  outcome'[h] = "none"
  BY <1>1, <1>4 DEF Begin
<1>5. ASSUME NEW g \in Handlers, Replay(g)
      PROVE  outcome'[h] \in {"replayed", "FIELD_COLLECTION_CONFLICT"}
  <2>1. PICK n \in Recorded(request[g]) :
          \/ Answer(g, "replayed") \/ Answer(g, "FIELD_COLLECTION_CONFLICT")
          \/ /\ payments[n].loan # request[g].loan
               \/ payments[n].amount # request[g].amount
             /\ Answer(g, "IDEMPOTENCY_KEY_REUSE_MISMATCH")
    BY <1>5 DEF Replay
  <2>2. g = h /\ PostedAs(request[h])
    BY <1>2, <2>1
  <2>3. PICK m \in Recorded(request[h]) :
          /\ payments[m].loan = request[h].loan
          /\ payments[m].amount = request[h].amount
    BY <2>2 DEF PostedAs
  <2>4. m = n
    BY <2>1, <2>2, <2>3 DEF Recorded, RetryInv, KeysPostedOnce
  <2> QED
    BY <1>2, <2>1, <2>2, <2>3, <2>4
<1>6. ASSUME NEW g \in Handlers, Refuse(g) \/ RejectPosting(g) \/ CommitPayment(g)
      PROVE  FALSE
  <2>1. pc[g] \in {"check", "post"} /\ \E o : Answer(g, o)
    BY <1>6 DEF Refuse, RejectPosting, CommitPayment
  <2> QED
    BY <1>2, <1>3, <2>1
<1>7. ASSUME NEW g \in Handlers, Abort(g) \/ BreakDeadlock(g)
      PROVE  outcome'[h] = "aborted"
  BY <1>2, <1>7 DEF Abort, BreakDeadlock
<1>8. ASSUME \/ \E g \in Handlers : FindNoPayment(g) \/ PlanPayment(g)
             \/ \E l \in Loans, k \in DisbursementKeys : DisburseLoan(l, k)
             \/ \E l \in Loans, s \in StatusTargets : TransitionLoan(l, s)
             \/ Reassign \/ UNCHANGED vars
      PROVE  FALSE
  BY <1>8 DEF FindNoPayment, PlanPayment, DisburseLoan, TransitionLoan,
              Reassign, vars, handlers
<1> QED
  BY <1>4, <1>5, <1>6, <1>7, <1>8 DEF Next, Serve, PostNew

(* A payment that is in the books is never refused to the client that      *)
(* sends it again, whatever became of its loan or its collector, whenever  *)
(* it was posted in the course of the retry, and never posted once more.   *)
THEOREM RetriesAccepted == Spec => RetriesNotRefused
PROOF
<1>1. Init => RetryInv
  BY DEF Init, RetryInv, KeysPostedOnce, StillUnposted
<1>2. ServicingInv /\ RetryInv /\ [Next]_vars =>
        [\A h \in Handlers :
           /\ outcome'[h] # outcome[h]
           /\ PostedAs(request'[h])
           /\ Misaddressed(request'[h]) = "none"
           => outcome'[h] \in {"none", "replayed", "FIELD_COLLECTION_CONFLICT",
                               "aborted"}]_vars
  BY StepAcceptsRetries
<1> QED
  BY <1>1, <1>2, StepUnposted, ServicingInvariant, PTL
  DEF Spec, RetriesNotRefused

-----------------------------------------------------------------------------
(* Acknowledgements. *)

(* Payment n is the one request r asks for, with its device record.        *)
Posted(r, n) ==
  /\ n \in Recorded(r)
  /\ payments[n].loan = r.loan
  /\ payments[n].amount = r.amount
  /\ r.localId # None => \E c \in captures : c.payment = n

(* What is posted stays posted: payments and device records only grow.     *)
LEMMA PostedStays ==
  ASSUME NEW r, NEW n, Posted(r, n), payments \in Seq(Payment),
         captures \subseteq captures',
         payments' = payments \/ \E row \in Payment : payments' = Append(payments, row)
  PROVE  Posted(r, n)'
PROOF
<1>1. n \in 1..Len(payments) /\ payments[n].key = r.key
  BY DEF Posted, Recorded
<1>2. n \in 1..Len(payments') /\ payments'[n] = payments[n]
  BY <1>1
<1> QED
  BY <1>1, <1>2 DEF Posted, Recorded

(* Once persistFieldCollectionSource has succeeded, payment n has the      *)
(* device record of the request, if it sent one.                           *)
LEMMA CaptureStored ==
  ASSUME NEW r, NEW n, r.localId # None, captures' = CapturesWith(r, n),
         CaptureAccepted(r, n) \/ ~ CaptureRefused(r, n)
  PROVE  \E c \in captures' : c.payment = n
PROOF
<1>1. Capture(r, n).payment = n
  BY DEF Capture
<1>2. CASE CapturesOf(r) = {}
  BY <1>1, <1>2 DEF CapturesWith
<1>3. CASE CapturesOf(r) # {}
  <2>1. PICK c \in CapturesOf(r) : SameCapture(c, r, n)
    BY <1>3 DEF CaptureAccepted, CaptureRefused
  <2>2. c["payment"] = Capture(r, n)["payment"]
    BY <2>1 DEF SameCapture
  <2>3. c \in captures'
    BY <1>3 DEF CapturesWith, CapturesOf
  <2> QED
    BY <1>1, <2>2, <2>3
<1> QED
  BY <1>2, <1>3

LEMMA CapturesGrow ==
  ASSUME NEW r, NEW n
  PROVE  captures \subseteq CapturesWith(r, n)
PROOF
  BY DEF CapturesWith

(* An acknowledgement is of a posted payment. *)
AckInv == \A h \in Handlers : Acked(h) => \E n \in Nat : Posted(request[h], n)

LEMMA ReplayPosted ==
  ASSUME ServicingInv, NEW h \in Handlers, NEW q, q = request[h], Replay(h), Acked(h)'
  PROVE  /\ request' = request
         /\ \E n \in Nat : Posted(q, n)'
PROOF
<1>1. outcome \in [Handlers -> Outcomes]
  BY DEF ServicingInv, TypeOK
<1>2. PICK n \in Recorded(q) :
        /\ payments[n].loan = q.loan /\ payments[n].amount = q.amount
        /\ CaptureAccepted(q, n)
        /\ captures' = CapturesWith(q, n)
        /\ Answer(h, "replayed")
  BY <1>1 DEF Replay, Answer, Acked
<1>3. payments' = payments /\ request' = request
  BY <1>2 DEF Replay, Answer
<1>4. q.localId # None => \E c \in captures' : c.payment = n
  BY <1>2, CaptureStored
<1>5. n \in 1..Len(payments) /\ payments[n].key = q.key
  BY <1>2 DEF Recorded
<1>6. n \in Nat
  BY <1>5
<1>7. Posted(q, n)'
  BY <1>2, <1>3, <1>4, <1>5 DEF Posted, Recorded
<1> QED
  BY <1>3, <1>6, <1>7

LEMMA CommitPosted ==
  ASSUME ServicingInv, NEW h \in Handlers, NEW q, q = request[h], CommitPayment(h)
  PROVE  /\ request' = request
         /\ \E n \in Nat : Posted(q, n)'
PROOF
<1> DEFINE row == PaymentRow(q, plan[h])
<1>0. PICK n : n = Len(payments) + 1
  OBVIOUS
<1>1. payments \in Seq(Payment) /\ row \in Payment
  BY CommitFacts DEF ServicingInv, TypeOK
<1>2. row.key = q.key /\ row.loan = q.loan /\ row.amount = q.amount
  BY DEF PaymentRow
<1>3. /\ payments' = Append(payments, row)
      /\ captures' = CapturesWith(q, n)
      /\ request' = request
  BY <1>0 DEF CommitPayment, Answer
<1>4. PostingError(q, row) = "none"
  BY DEF CommitPayment
<1>5. ~ CaptureRefused(q, n)
  BY <1>0, <1>4 DEF PostingError
<1>6. q.localId # None => \E c \in captures' : c.payment = n
  BY <1>3, <1>5, CaptureStored
<1> HIDE DEF row
<1>7. n \in 1..Len(payments') /\ payments'[n] = row /\ n \in Nat
  BY <1>0, <1>1, <1>3
<1>8. Posted(q, n)'
  BY <1>2, <1>6, <1>7 DEF Posted, Recorded
<1> QED
  BY <1>3, <1>7, <1>8

(* A step either leaves handler h and its request alone, or is one of the  *)
(* two that acknowledge, or leaves h without an acknowledgement.           *)
LEMMA StepOfHandler ==
  ASSUME ServicingInv, [Next]_vars, NEW h \in Handlers
  PROVE  \/ outcome'[h] = outcome[h] /\ request'[h] = request[h]
         \/ ~ Acked(h)'
         \/ Replay(h)
         \/ CommitPayment(h)
PROOF
<1>1. outcome \in [Handlers -> Outcomes] /\ request \in [Handlers -> Requests \cup {None}]
  BY DEF ServicingInv, TypeOK
<1>2. ASSUME NEW g \in Handlers, NEW o, Answer(g, o),
             g # h \/ o \notin {"created", "replayed"}
      PROVE  \/ outcome'[h] = outcome[h] /\ request'[h] = request[h]
             \/ ~ Acked(h)'
  BY <1>1, <1>2 DEF Answer, Acked
<1>3. ASSUME NEW g \in Handlers, NEW r \in Requests, Begin(g, r)
      PROVE  \/ outcome'[h] = outcome[h] /\ request'[h] = request[h]
             \/ ~ Acked(h)'
  BY <1>1, <1>3 DEF Begin, Misaddressed, Acked
<1>4. ASSUME NEW g \in Handlers, g # h, Replay(g) \/ CommitPayment(g)
      PROVE  \/ outcome'[h] = outcome[h] /\ request'[h] = request[h]
             \/ ~ Acked(h)'
  BY <1>2, <1>4 DEF Replay, CommitPayment
<1>5. ASSUME NEW g \in Handlers, Refuse(g)
      PROVE  \/ outcome'[h] = outcome[h] /\ request'[h] = request[h]
             \/ ~ Acked(h)'
  BY <1>2, <1>5 DEF Refuse, Refusal
<1>6. ASSUME NEW g \in Handlers, RejectPosting(g)
      PROVE  \/ outcome'[h] = outcome[h] /\ request'[h] = request[h]
             \/ ~ Acked(h)'
  <2>1. PostingError(request[g], PaymentRow(request[g], plan[g]))
          \notin {"created", "replayed"}
    BY DEF PostingError
  <2> QED
    BY <1>2, <1>6, <2>1 DEF RejectPosting
<1>7. ASSUME NEW g \in Handlers, Abort(g) \/ BreakDeadlock(g)
      PROVE  \/ outcome'[h] = outcome[h] /\ request'[h] = request[h]
             \/ ~ Acked(h)'
  BY <1>2, <1>7 DEF Abort, BreakDeadlock
<1>8. ASSUME \/ \E g \in Handlers : FindNoPayment(g) \/ PlanPayment(g)
             \/ \E l \in Loans, k \in DisbursementKeys : DisburseLoan(l, k)
             \/ \E l \in Loans, s \in StatusTargets : TransitionLoan(l, s)
             \/ Reassign \/ UNCHANGED vars
      PROVE  outcome' = outcome /\ request' = request
  BY <1>8 DEF FindNoPayment, PlanPayment, DisburseLoan, TransitionLoan,
              Reassign, vars, handlers
<1> QED
  BY <1>3, <1>4, <1>5, <1>6, <1>7, <1>8 DEF Next, Serve, PostNew

LEMMA StepAcked ==
  ASSUME ServicingInv, AckInv, [Next]_vars
  PROVE  AckInv'
PROOF
<1>1. payments \in Seq(Payment)
  BY DEF ServicingInv, TypeOK
<1>2. /\ captures \subseteq captures'
      /\ payments' = payments \/ \E row \in Payment : payments' = Append(payments, row)
  <2>1. ASSUME NEW h \in Handlers, CommitPayment(h)
        PROVE  /\ captures \subseteq captures'
               /\ \E row \in Payment : payments' = Append(payments, row)
    BY <2>1, CommitFacts, CapturesGrow DEF CommitPayment
  <2>2. ASSUME NEW h \in Handlers, Replay(h)
        PROVE  captures \subseteq captures' /\ payments' = payments
    BY <2>2, CapturesGrow DEF Replay
  <2>3. ASSUME NEW h \in Handlers,
               \/ \E r \in Requests : Begin(h, r)
               \/ FindNoPayment(h) \/ Refuse(h) \/ PlanPayment(h) \/ RejectPosting(h)
               \/ Abort(h) \/ BreakDeadlock(h)
        PROVE  captures' = captures /\ payments' = payments
    BY <2>3 DEF Begin, FindNoPayment, Refuse, PlanPayment, RejectPosting, Abort,
                BreakDeadlock, tables
  <2>4. ASSUME \/ \E l \in Loans, k \in DisbursementKeys : DisburseLoan(l, k)
               \/ \E l \in Loans, s \in StatusTargets : TransitionLoan(l, s)
               \/ Reassign \/ UNCHANGED vars
        PROVE  captures' = captures /\ payments' = payments
    BY <2>4 DEF DisburseLoan, TransitionLoan, Reassign, vars, tables
  <2> QED
    BY <2>1, <2>2, <2>3, <2>4 DEF Next, Serve, PostNew
<1>3. ASSUME NEW h \in Handlers, Acked(h)', NEW q, q = request[h]
      PROVE  request'[h] = q /\ \E n \in Nat : Posted(q, n)'
  <2>1. CASE outcome'[h] = outcome[h] /\ request'[h] = request[h]
    <3>1. Acked(h)
      BY <1>3, <2>1 DEF Acked
    <3>2. PICK n \in Nat : Posted(q, n)
      BY <1>3, <3>1 DEF AckInv
    <3>3. Posted(q, n)'
      BY <1>1, <1>2, <3>2, PostedStays
    <3> QED
      BY <1>3, <2>1, <3>3
  <2>2. CASE Replay(h)
    BY <1>3, <2>2, ReplayPosted
  <2>3. CASE CommitPayment(h)
    BY <1>3, <2>3, CommitPosted
  <2> QED
    BY <1>3, <2>1, <2>2, <2>3, StepOfHandler
<1>4. ASSUME NEW h \in Handlers, Acked(h)'
      PROVE  \E n \in Nat : Posted(request[h], n)'
  <2>1. PICK q : q = request[h]
    OBVIOUS
  <2>2. request'[h] = q /\ \E n \in Nat : Posted(q, n)'
    BY <1>3, <1>4, <2>1
  <2> QED
    BY <2>2 DEF Posted, Recorded
<1> QED
  BY <1>4 DEF AckInv

(* A client that was told its payment is in the books finds it there for   *)
(* as long as the tables exist, with the device record if it sent one.     *)
THEOREM Acknowledged == Spec => []AckedMeansPosted
PROOF
<1>1. Init => AckInv
  BY DEF Init, AckInv, Acked
<1>2. ServicingInv /\ AckInv /\ [Next]_vars => AckInv'
  BY StepAcked
<1>3. AckInv => AckedMeansPosted
  BY DEF AckInv, AckedMeansPosted, Posted
<1> QED
  BY <1>1, <1>2, <1>3, ServicingInvariant, PTL DEF Spec
=============================================================================
