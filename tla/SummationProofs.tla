-------------------------- MODULE SummationProofs --------------------------
(***************************************************************************)
(* What sums of sequences of integers are, proved for every length.        *)
(*                                                                         *)
(* The induction theorems of the library take an operator, so induction is *)
(* stated here over a set of naturals: one that holds 0 and the successor  *)
(* of each of its elements is Nat.  A recursive function on 0..n is then   *)
(* shown to satisfy its equation, and facts about it follow by applying    *)
(* SetInduction to the set of lengths at which they hold.                  *)
(***************************************************************************)
EXTENDS Summation, WellFoundedInduction, TLAPS

(* A set of naturals that is not empty has a least element. *)
LEMMA LeastNat ==
  ASSUME NEW T \in SUBSET Nat, T # {}
  PROVE  \E x \in T : \A y \in T : x <= y
PROOF
<1> DEFINE R == OpToRel(<, Nat)
<1>1. IsWellFoundedOn(R, Nat)
  BY NatLessThanWellFounded
<1>2. \A x, y \in Nat : (y < x) => <<y, x>> \in R
  BY DEF OpToRel
<1> HIDE DEF R
<1>3. PICK x \in T : \A y \in Nat : <<y, x>> \in R => ~ (y \in T)
  BY <1>1, WFMin
<1>4. \A y \in T : ~ (y < x)
  BY <1>2, <1>3
<1> QED
  BY <1>4

(* Induction over the naturals. *)
LEMMA SetInduction ==
  ASSUME NEW S \in SUBSET Nat, 0 \in S, \A n \in S : n + 1 \in S
  PROVE  S = Nat
PROOF
<1> SUFFICES ASSUME Nat \ S # {} PROVE FALSE
  OBVIOUS
<1>1. PICK x \in Nat \ S : \A y \in Nat \ S : x <= y
  BY LeastNat
<1>2. x # 0 /\ x - 1 \in Nat /\ x - 1 < x
  BY <1>1
<1>3. x - 1 \in S
  BY <1>1, <1>2
<1>4. (x - 1) + 1 \in S
  BY <1>3
<1> QED
  BY <1>1, <1>4

(* A function on 0..n can be defined by its value at 0 and by              *)
(* how each value follows from the one before.                             *)
HasSolution(S, n, a, step) ==
  \E g \in [0..n -> S] :
     \A i \in 0..n : g[i] = IF i = 0 THEN a ELSE step[i][g[i - 1]]

LEMMA Recursion ==
  ASSUME NEW S, NEW n \in Nat, NEW a \in S, NEW step \in [1..n -> [S -> S]]
  PROVE  HasSolution(S, n, a, step)
PROOF
<1> DEFINE Solves(g, k) ==
             \A i \in 0..k : g[i] = IF i = 0 THEN a ELSE step[i][g[i - 1]]
           Solvable(k) == \E g \in [0..k -> S] : Solves(g, k)
           T == {k \in Nat : k <= n => Solvable(k)}
<1>1. 0 \in T
  <2>1. [i \in 0..0 |-> a] \in [0..0 -> S] /\ Solves([i \in 0..0 |-> a], 0)
    OBVIOUS
  <2> QED
    BY <2>1
<1>2. ASSUME NEW k \in Nat, k + 1 <= n, Solvable(k)
      PROVE  Solvable(k + 1)
  <2> PICK g \in [0..k -> S] : Solves(g, k)
    BY <1>2
  <2> DEFINE h == [i \in 0..(k + 1) |->
                     IF i = k + 1 THEN step[k + 1][g[k]] ELSE g[i]]
  <2>1. k + 1 \in 1..n /\ g[k] \in S
    BY <1>2
  <2>2. step[k + 1][g[k]] \in S
    BY <2>1
  <2>3. h \in [0..(k + 1) -> S]
    BY <2>2
  <2>4. ASSUME NEW i \in 0..(k + 1)
        PROVE  h[i] = IF i = 0 THEN a ELSE step[i][h[i - 1]]
    <3>1. CASE i = k + 1
      BY <3>1
    <3>2. CASE i # k + 1
      <4>1. i \in 0..k /\ h[i] = g[i]
        BY <3>2
      <4>2. i # 0 => i - 1 \in 0..k /\ h[i - 1] = g[i - 1]
        BY <4>1
      <4> QED
        BY <1>2, <4>1, <4>2
    <3> QED
      BY <3>1, <3>2
  <2>5. Solves(h, k + 1)
    BY <2>4
  <2> HIDE DEF h
  <2> QED
    BY <2>3, <2>5
<1> HIDE DEF Solvable
<1>3. \A k \in T : k + 1 \in T
  BY <1>2
<1>4. T = Nat
  <2>1. T \in SUBSET Nat
    OBVIOUS
  <2> HIDE DEF T
  <2> QED
    BY <1>1, <1>3, <2>1, SetInduction
<1>5. n \in T
  BY <1>4
<1>6. Solvable(n)
  BY <1>5
<1> QED
  BY <1>6 DEF Solvable, HasSolution

(* RunningTotals satisfies its equation, and its values are integers.      *)
LEMMA RunningTotalsEquation ==
  ASSUME NEW f \in Seq(Int)
  PROVE  /\ RunningTotals(f) \in [0..Len(f) -> Int]
         /\ RunningTotals(f)[0] = 0
         /\ \A i \in 1..Len(f) : RunningTotals(f)[i] = RunningTotals(f)[i - 1] + f[i]
PROOF
<1> DEFINE n == Len(f)
           Eq(g) == g = [i \in 0..n |-> IF i = 0 THEN 0 ELSE g[i - 1] + f[i]]
           step == [i \in 1..n |-> [x \in Int |-> x + f[i]]]
<1>1. n \in Nat /\ \A i \in 1..n : f[i] \in Int
  OBVIOUS
<1> HIDE DEF n
<1>2. \E g \in [0..n -> Int] : Eq(g)
  <2>1. step \in [1..n -> [Int -> Int]]
    BY <1>1
  <2>2. PICK g \in [0..n -> Int] :
          \A i \in 0..n : g[i] = IF i = 0 THEN 0 ELSE step[i][g[i - 1]]
    <3> HIDE DEF step
    <3>1. PICK S : S = Int
      OBVIOUS
    <3>2. 0 \in S /\ step \in [1..n -> [S -> S]]
      BY <2>1, <3>1
    <3>3. HasSolution(S, n, 0, step)
      BY <1>1, <3>2, Recursion
    <3> QED
      BY <3>1, <3>3 DEF HasSolution
  <2>3. ASSUME NEW i \in 0..n
        PROVE  g[i] = IF i = 0 THEN 0 ELSE g[i - 1] + f[i]
    <3>1. CASE i = 0
      BY <2>2, <3>1
    <3>2. CASE i # 0
      <4>1. i \in 1..n /\ i - 1 \in 0..n
        BY <1>1, <3>2
      <4>2. g[i - 1] \in Int
        BY <4>1
      <4>3. step[i][g[i - 1]] = g[i - 1] + f[i]
        BY <4>1, <4>2
      <4> QED
        BY <2>2, <3>2, <4>3
    <3> QED
      BY <3>1, <3>2
  <2> QED
    BY <2>3
<1> HIDE DEF step
<1>3. Eq(RunningTotals(f))
  <2>1. RunningTotals(f) = CHOOSE g : Eq(g)
    BY DEF RunningTotals, n
  <2> QED
    BY <1>2, <2>1
<1> DEFINE total == RunningTotals(f)
           T == {k \in Nat : k <= n => total[k] \in Int}
<1>4. total = [i \in 0..n |-> IF i = 0 THEN 0 ELSE total[i - 1] + f[i]]
  BY <1>3
<1> HIDE DEF total
<1>5. total[0] = 0
  BY <1>1, <1>4
<1>6. \A i \in 1..n : total[i] = total[i - 1] + f[i]
  BY <1>1, <1>4
<1>7. T = Nat
  <2>1. 0 \in T
    BY <1>5
  <2>2. \A k \in T : k + 1 \in T
    BY <1>1, <1>6
  <2>3. T \in SUBSET Nat
    OBVIOUS
  <2> HIDE DEF T
  <2> QED
    BY <2>1, <2>2, <2>3, SetInduction
<1>8. \A i \in 0..n : total[i] \in Int
  BY <1>1, <1>7
<1>9. total \in [0..n -> Int]
  BY <1>4, <1>8
<1> QED
  BY <1>5, <1>6, <1>9 DEF total, n

-----------------------------------------------------------------------------
(* What the other modules use. *)

LEMMA TotalIsInt ==
  ASSUME NEW f \in Seq(Int)
  PROVE  Total(f) \in Int
PROOF
  BY RunningTotalsEquation DEF Total

(* A sum of naturals is a natural. *)
LEMMA TotalIsNat ==
  ASSUME NEW f \in Seq(Nat)
  PROVE  Total(f) \in Nat
PROOF
<1> DEFINE n == Len(f)
           total == RunningTotals(f)
           T == {k \in Nat : k <= n => total[k] \in Nat}
<1>1. n \in Nat /\ f \in Seq(Int) /\ \A i \in 1..n : f[i] \in Nat
  OBVIOUS
<1>2. /\ total[0] = 0
      /\ \A i \in 1..n : total[i] = total[i - 1] + f[i]
  BY <1>1, RunningTotalsEquation
<1> HIDE DEF n, total
<1>3. T = Nat
  <2>1. 0 \in T
    BY <1>2
  <2>2. ASSUME NEW k \in T, k + 1 <= n
        PROVE  total[k + 1] \in Nat
    <3>1. k + 1 \in 1..n /\ (k + 1) - 1 = k /\ total[k] \in Nat
      BY <1>1, <2>2
    <3>2. total[k + 1] = total[k] + f[k + 1] /\ f[k + 1] \in Nat
      BY <1>1, <1>2, <3>1
    <3> HIDE DEF T
    <3> QED
      BY <3>1, <3>2
  <2>3. \A k \in T : k + 1 \in T
    BY <2>2
  <2>4. T \in SUBSET Nat
    OBVIOUS
  <2> HIDE DEF T
  <2> QED
    BY <2>1, <2>3, <2>4, SetInduction
<1>4. total[n] \in Nat
  BY <1>1, <1>3
<1> QED
  BY <1>4 DEF Total, total, n

(* None of the terms of a sum of naturals is above it. *)
LEMMA TermInTotal ==
  ASSUME NEW f \in Seq(Nat), NEW i \in 1..Len(f)
  PROVE  f[i] <= Total(f)
PROOF
<1> DEFINE n == Len(f)
           total == RunningTotals(f)
           T == {k \in Nat : k <= n => /\ total[k] \in Nat
                                       /\ i <= k => f[i] <= total[k]}
<1>1. n \in Nat /\ f \in Seq(Int) /\ i \in 1..n /\ \A j \in 1..n : f[j] \in Nat
  OBVIOUS
<1>2. /\ total[0] = 0
      /\ \A j \in 1..n : total[j] = total[j - 1] + f[j]
  BY <1>1, RunningTotalsEquation
<1> HIDE DEF n, total
<1>3. T = Nat
  <2>1. 0 \in T
    BY <1>1, <1>2
  <2>2. ASSUME NEW k \in T, k + 1 <= n
        PROVE  total[k + 1] \in Nat /\ (i <= k + 1 => f[i] <= total[k + 1])
    <3>1. /\ k + 1 \in 1..n /\ (k + 1) - 1 = k
          /\ total[k] \in Nat /\ (i <= k => f[i] <= total[k])
      BY <1>1, <2>2
    <3>2. total[k + 1] = total[k] + f[k + 1] /\ f[k + 1] \in Nat
      BY <1>1, <1>2, <3>1
    <3>3. i \in Nat /\ f[i] \in Nat /\ (i <= k + 1 => i <= k \/ i = k + 1)
      BY <1>1, <2>2
    <3> HIDE DEF T
    <3> QED
      BY <3>1, <3>2, <3>3
  <2>3. \A k \in T : k + 1 \in T
    BY <2>2
  <2>4. T \in SUBSET Nat
    OBVIOUS
  <2> HIDE DEF T
  <2> QED
    BY <2>1, <2>3, <2>4, SetInduction
<1>4. f[i] <= total[n]
  BY <1>1, <1>3
<1> QED
  BY <1>4 DEF Total, total, n

(* Sequences that agree up to m have the same sum up to m. *)
LEMMA RunningTotalsAgree ==
  ASSUME NEW f \in Seq(Int), NEW g \in Seq(Int), NEW m \in Nat,
         m <= Len(f), m <= Len(g), \A i \in 1..m : f[i] = g[i]
  PROVE  RunningTotals(f)[m] = RunningTotals(g)[m]
PROOF
<1> DEFINE F == RunningTotals(f)
           G == RunningTotals(g)
           T == {k \in Nat : k <= m => F[k] = G[k]}
<1>1. /\ F[0] = 0 /\ \A i \in 1..m : F[i] = F[i - 1] + f[i]
      /\ G[0] = 0 /\ \A i \in 1..m : G[i] = G[i - 1] + g[i]
  BY RunningTotalsEquation
<1> HIDE DEF F, G
<1>2. T = Nat
  <2>1. 0 \in T
    BY <1>1
  <2>2. \A k \in T : k + 1 \in T
    BY <1>1
  <2>3. T \in SUBSET Nat
    OBVIOUS
  <2> HIDE DEF T
  <2> QED
    BY <2>1, <2>2, <2>3, SetInduction
<1>3. F[m] = G[m]
  BY <1>2
<1> QED
  BY <1>3 DEF F, G

LEMMA TotalOfAppend ==
  ASSUME NEW f \in Seq(Int), NEW x \in Int
  PROVE  Total(Append(f, x)) = Total(f) + x
PROOF
<1> DEFINE g == Append(f, x)
           n == Len(f)
<1>1. /\ g \in Seq(Int) /\ n \in Nat /\ Len(g) = n + 1
      /\ g[n + 1] = x
      /\ \A i \in 1..n : f[i] = g[i]
  OBVIOUS
<1>2. RunningTotals(f)[n] = RunningTotals(g)[n]
  <2>1. n <= Len(f) /\ n <= Len(g)
    BY <1>1
  <2> HIDE DEF g, n
  <2> QED
    BY <1>1, <2>1, RunningTotalsAgree
<1>3. RunningTotals(g)[n + 1] = RunningTotals(g)[n] + g[n + 1]
  <2>1. n + 1 \in 1..Len(g) /\ (n + 1) - 1 = n
    BY <1>1
  <2> HIDE DEF g, n
  <2> QED
    BY <1>1, <2>1, RunningTotalsEquation
<1> HIDE DEF g
<1> QED
  BY <1>1, <1>2, <1>3 DEF Total, g

(* The sum of sums, element by element. *)
LEMMA TotalOfSums ==
  ASSUME NEW f \in Seq(Int), NEW g \in Seq(Int), NEW h \in Seq(Int),
         Len(g) = Len(f), Len(h) = Len(f),
         \A i \in 1..Len(f) : h[i] = f[i] + g[i]
  PROVE  Total(h) = Total(f) + Total(g)
PROOF
<1> DEFINE n == Len(f)
           F == RunningTotals(f)
           G == RunningTotals(g)
           H == RunningTotals(h)
           T == {k \in Nat : k <= n => H[k] = F[k] + G[k]}
<1>1. /\ n \in Nat
      /\ \A i \in 1..n : f[i] \in Int /\ g[i] \in Int /\ h[i] = f[i] + g[i]
  OBVIOUS
<1>2. /\ F \in [0..n -> Int] /\ F[0] = 0
      /\ \A i \in 1..n : F[i] = F[i - 1] + f[i]
  BY RunningTotalsEquation
<1>3. /\ G \in [0..n -> Int] /\ G[0] = 0
      /\ \A i \in 1..n : G[i] = G[i - 1] + g[i]
  <2> HIDE DEF F
  <2> QED
    BY RunningTotalsEquation
<1>4. /\ H[0] = 0
      /\ \A i \in 1..n : H[i] = H[i - 1] + h[i]
  <2> HIDE DEF F, G
  <2> QED
    BY RunningTotalsEquation
<1> HIDE DEF n, F, G, H
<1>5. T = Nat
  <2>1. 0 \in T
    BY <1>2, <1>3, <1>4
  <2>2. ASSUME NEW k \in T, k + 1 <= n
        PROVE  H[k + 1] = F[k + 1] + G[k + 1]
    <3>1. k \in 0..n /\ k + 1 \in 1..n /\ (k + 1) - 1 = k
      BY <1>1, <2>2
    <3>2. H[k] = F[k] + G[k]
      BY <1>1, <3>1
    <3>3. /\ F[k + 1] = F[k] + f[k + 1]
          /\ G[k + 1] = G[k] + g[k + 1]
          /\ H[k + 1] = H[k] + h[k + 1]
      BY <1>2, <1>3, <1>4, <3>1
    <3>4. F[k] \in Int /\ G[k] \in Int
      BY <1>2, <1>3, <3>1
    <3>5. h[k + 1] = f[k + 1] + g[k + 1] /\ f[k + 1] \in Int /\ g[k + 1] \in Int
      BY <1>1, <3>1
    <3>6. (F[k] + G[k]) + (f[k + 1] + g[k + 1])
            = (F[k] + f[k + 1]) + (G[k] + g[k + 1])
      BY <3>4, <3>5
    <3> HIDE DEF T
    <3> QED
      BY <3>2, <3>3, <3>5, <3>6
  <2>3. \A k \in T : k + 1 \in T
    BY <2>2
  <2>4. T \in SUBSET Nat
    OBVIOUS
  <2> HIDE DEF T
  <2> QED
    BY <2>1, <2>3, <2>4, SetInduction
<1>6. H[n] = F[n] + G[n]
  <2>1. n \in Nat /\ n <= n
    BY <1>1
  <2>2. n \in T
    <3> HIDE DEF T
    <3> QED
      BY <1>5, <2>1
  <2> QED
    BY <2>1, <2>2
<1> QED
  BY <1>6 DEF Total, n, F, G, H
=============================================================================
