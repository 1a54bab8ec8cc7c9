------------------------ MODULE ReconciliationProofs ------------------------
(***************************************************************************)
(* That concurrent submissions, decisions and job cycles keep the promise  *)
(* of BatchReview, for any payments, branches, requests and workers: what  *)
(* a worker has decided is protected by the row it holds, what it has      *)
(* inserted by the unique key of the payment.                              *)
(***************************************************************************)
EXTENDS ReconciliationPosting, SummationProofs

-----------------------------------------------------------------------------
(* Amounts and shares. *)

LEMMA FactsOf ==
  ASSUME NEW p \in Payments
  PROVE  /\ Facts[p].branch \in Branches
         /\ Facts[p].amount \in Nat /\ Facts[p].penalty \in Nat
         /\ Facts[p].interest \in Nat
PROOF
<1>1. p \in 1..Len(Facts)
  BY DEF Payments
<1>2. PICK F : F = [branch : Branches, amount : Nat, penalty : Nat,
                    interest : Nat]
  OBVIOUS
<1>3. Facts \in Seq(F)
  BY <1>2, FactsAssumption, Zenon
<1>4. Facts[p] \in F
  BY <1>1, <1>3
<1> QED
  BY <1>2, <1>4

LEMMA SumOverPayments ==
  ASSUME NEW f, f = [p \in Payments |-> f[p]], \A p \in Payments : f[p] \in Nat
  PROVE  Total(f) \in Nat
PROOF
<1>1. Len(Facts) \in Nat
  BY FactsAssumption
<1>2. f \in [1..Len(Facts) -> Nat]
  BY DEF Payments
<1>3. f \in Seq(Nat)
  BY <1>1, <1>2
<1> QED
  BY <1>3, TotalIsNat

LEMMA AmountIsNat ==
  ASSUME NEW S \in SUBSET Payments
  PROVE  AmountOf(S) \in Nat
PROOF
<1>1. PICK f : f = [p \in Payments |-> IF p \in S THEN Facts[p].amount ELSE 0]
  OBVIOUS
<1>2. f = [p \in Payments |-> f[p]] /\ \A p \in Payments : f[p] \in Nat
  BY <1>1, FactsOf
<1> QED
  BY <1>1, <1>2, SumOverPayments DEF AmountOf

LEMMA ChargeIsNat ==
  ASSUME NEW S \in SUBSET Payments
  PROVE  ChargeOf(S) \in Nat
PROOF
<1>1. PICK f : f = [p \in Payments |->
                      IF p \in S THEN Facts[p].penalty + Facts[p].interest ELSE 0]
  OBVIOUS
<1>2. f = [p \in Payments |-> f[p]] /\ \A p \in Payments : f[p] \in Nat
  BY <1>1, FactsOf
<1> QED
  BY <1>1, <1>2, SumOverPayments DEF ChargeOf

LEMMA RoundedDown ==
  ASSUME NEW c \in Nat, NEW rate \in 0..BasisPoints
  PROVE  /\ (c * rate) \div BasisPoints \in Nat
         /\ BasisPoints * ((c * rate) \div BasisPoints) <= c * rate
PROOF
<1>1. PICK a \in Nat : a = c * rate
  OBVIOUS
<1>2. a \div BasisPoints \in Nat /\ BasisPoints * (a \div BasisPoints) <= a
  BY DEF BasisPoints
<1> QED
  BY <1>1, <1>2

Fits(m, rate, share) == BasisPoints * share <= m * rate

LEMMA PartsFit ==
  ASSUME NEW m \in Nat,
         NEW a \in Nat, NEW b \in Nat, NEW c \in Nat, NEW d \in Nat,
         NEW w \in Nat, NEW x \in Nat, NEW y \in Nat, NEW z \in Nat,
         a + b + c + d <= BasisPoints,
         Fits(m, a, w), Fits(m, b, x), Fits(m, c, y), Fits(m, d, z)
  PROVE  w + x + y + z <= m
PROOF
<1>1. PICK rest \in Nat : a + b + c + d + rest = BasisPoints
  <2>1. BasisPoints - (a + b + c + d) \in Nat
    BY DEF BasisPoints
  <2> QED
    BY <2>1 DEF BasisPoints
<1>2. m * a + m * b + m * c + m * d + m * rest = m * BasisPoints
  <2>1. m * (a + b + c + d + rest) = m * a + m * b + m * c + m * d + m * rest
    OBVIOUS
  <2> QED
    BY <1>1, <2>1
<1>3. m * rest \in Nat /\ m * a \in Nat /\ m * b \in Nat /\ m * c \in Nat
      /\ m * d \in Nat
  OBVIOUS
<1> QED
  BY <1>2, <1>3 DEF BasisPoints, Fits

(* A function on the pools, pool by pool. *)
HasParts(f, a, b, c, d) ==
  /\ f["credit_loss_reserve"] = a /\ f["operating_reserve"] = b
  /\ f["collection"] = c /\ f["growth"] = d
  /\ SumOfPools(f) = a + b + c + d

LEMMA FourPools ==
  ASSUME NEW S, NEW f, \A k \in Pools : f[k] \in S
  PROVE  \E a, b, c, d \in S : HasParts(f, a, b, c, d)
PROOF
  BY Zenon DEF Pools, SumOfPools, HasParts

(* Four shares rounded down never exceed the charge. *)
LEMMA SharesFit ==
  ASSUME NEW charge \in Nat, NEW policy \in Policies
  PROVE  /\ Shares(charge, policy) \in [Pools -> Nat]
         /\ SumOfPools(Shares(charge, policy)) \in Nat
         /\ SumOfPools(Shares(charge, policy)) <= charge
PROOF
<1>1. PICK R : R = Rates[policy]
  OBVIOUS
<1>2. R \in [Pools -> 0..BasisPoints] /\ SumOfPools(R) <= BasisPoints
  BY <1>1, RatesAssumption, Zenon
<1>3. PICK s : s = [k \in Pools |-> (charge * R[k]) \div BasisPoints]
  OBVIOUS
<1>4. ASSUME NEW k \in Pools
      PROVE  /\ s[k] \in Nat /\ R[k] \in Nat
             /\ BasisPoints * s[k] <= charge * R[k]
  <2>1. PICK rate \in 0..BasisPoints : rate = R[k]
    BY <1>2
  <2>2. s[k] = (charge * rate) \div BasisPoints
    BY <1>3, <2>1, Zenon
  <2>3. /\ (charge * rate) \div BasisPoints \in Nat
        /\ BasisPoints * ((charge * rate) \div BasisPoints) <= charge * rate
    BY RoundedDown
  <2>4. rate \in Nat
    OBVIOUS
  <2> QED
    BY <2>1, <2>2, <2>3, <2>4, Zenon
<1>5. s \in [Pools -> Nat]
  BY <1>3, <1>4, Zenon
<1>6. PICK a, b, c, d \in Nat : HasParts(R, a, b, c, d)
  BY <1>4, FourPools, Zenon
<1>7. PICK w, x, y, z \in Nat : HasParts(s, w, x, y, z)
  BY <1>4, FourPools, Zenon
<1>8. /\ Fits(charge, a, w) /\ Fits(charge, b, x)
      /\ Fits(charge, c, y) /\ Fits(charge, d, z)
  <2>1. \A k \in Pools : Fits(charge, R[k], s[k])
    BY <1>4 DEF Fits
  <2> QED
    BY <1>6, <1>7, <2>1, Zenon DEF Pools, HasParts
<1>9. w + x + y + z <= charge
  <2>1. a + b + c + d <= BasisPoints
    BY <1>2, <1>6, Zenon DEF HasParts
  <2> QED
    BY <1>8, <2>1, PartsFit, Zenon
<1>10. SumOfPools(s) = w + x + y + z
  BY <1>7, Zenon DEF HasParts
<1>11. SumOfPools(s) \in Nat /\ SumOfPools(s) <= charge
  BY <1>9, <1>10
<1> QED
  BY <1>1, <1>3, <1>5, <1>11, Zenon DEF Shares

(* Requests and rows with the same amounts are alike. *)
LEMMA SameVariance ==
  ASSUME NEW r, NEW b, b.expected = r.expected, b.recorded = r.recorded,
         b.submitted = r.submitted
  PROVE  IsVariance(b) <=> IsVariance(r)
PROOF
  BY DEF IsVariance, VarianceOf

-----------------------------------------------------------------------------
(* The inductive invariant. *)

Held(r) ==
  LET b == batch[r.ref]
  IN  /\ b # None /\ b.status = "variance"
      /\ SameFacts(r, b) /\ b.submitter # r.actor
      /\ In(r.ref) = r.payments

(* What a worker goes by, protected by the row it holds. *)
Grounded(w) ==
  LET r == request[w]
  IN  /\ rowLock[r.ref] = w
      /\ IsDecision(r) => Held(r)
      /\ ~ IsDecision(r) => batch[r.ref] = None

AtWork(w) ==
  LET r == request[w]
  IN  /\ pc[w] # "idle" => r \in Request
      /\ pc[w] = "insert" => ~ IsDecision(r)
      /\ pc[w] \in {"check", "attach"} => Grounded(w)
      /\ pc[w] = "attach" => todo[w] \subseteq r.payments
      /\ \A ref \in References :
           rowLock[ref] = w => pc[w] \in {"check", "attach"} /\ r.ref = ref
      /\ \A p \in Payments : claim[p] = w =>
           /\ pc[w] = "attach" /\ p \in r.payments \ todo[w]
           /\ batchOf[p] = None

Reviewed(b) ==
  /\ IsVariance(b) <=> b.status # "matched"
  /\ b.status \in {"approved", "rejected"} <=> b.reviewer # None
  /\ b.reviewer # b.submitter

RowOk(ref) ==
  /\ batch[ref] = None => In(ref) = {}
  /\ batch[ref] # None => Reviewed(batch[ref])
  /\ Accepted(ref) <=> InLedger(ref)

EntryOk(n) ==
  LET e == ledger[n]
  IN  /\ e.branch = batch[e.ref].branch /\ e.cash = batch[e.ref].recorded
      /\ e.charge = ChargeOf(In(e.ref))
      /\ e.charge = SumOfPools(e.shares) + e.profit

Credits(b, k) ==
  [n \in 1..Len(ledger) |->
     IF ledger[n].branch = b THEN ledger[n].shares[k] ELSE 0]

PoolsOk ==
  \A b \in Branches, k \in Pools : pools[b][k] = Total(Credits(b, k))

TablesOk ==
  /\ \A ref \in References : RowOk(ref)
  /\ \A n \in 1..Len(ledger) : EntryOk(n)
  /\ PoolsOk

IInv ==
  /\ TypeOK
  /\ \A w \in Workers : AtWork(w)
  /\ TablesOk

LEMMA Nobody ==
  /\ None \notin Workers /\ None \notin References /\ None \notin Staff
  /\ None \notin BatchRow
PROOF
  BY ReconciliationAssumption, Zenon DEF Workers

LEMMA Requested ==
  ASSUME NEW r \in Request
  PROVE  /\ r.ref \in References /\ r.branch \in Branches /\ r.actor \in Staff
         /\ r.expected \in Nat /\ r.recorded \in Nat /\ r.submitted \in Nat
         /\ r.payments \in SUBSET Payments
         /\ r.decision \in {"none", "approve", "reject"}
PROOF
  BY DEF Request

LEMMA InitIInv == Init => IInv
PROOF
<1> SUFFICES ASSUME Init PROVE IInv
  OBVIOUS
<1>1. ledger = <<>> /\ Len(ledger) = 0
  BY DEF Init
<1>2. TypeOK
  BY <1>1 DEF Init, TypeOK, LedgerEntry
<1>3. ASSUME NEW w \in Workers PROVE AtWork(w)
  BY Nobody DEF Init, AtWork
<1>4. ASSUME NEW ref \in References PROVE RowOk(ref)
  <2>1. batch[ref] = None /\ In(ref) = {}
    BY Nobody DEF Init, In
  <2> QED
    BY <1>1, <2>1 DEF RowOk, Accepted, InLedger
<1>5. ASSUME NEW b \in Branches, NEW k \in Pools
      PROVE  pools[b][k] = Total(Credits(b, k))
  <2>1. pools[b][k] = 0
    BY DEF Init
  <2>2. PICK f : f = Credits(b, k)
    OBVIOUS
  <2>3. f \in Seq(Int) /\ Len(f) = 0
    BY <1>1, <2>2 DEF Credits
  <2>4. Total(f) = 0
    BY <2>3, RunningTotalsEquation DEF Total
  <2> QED
    BY <2>1, <2>2, <2>4
<1>6. TablesOk
  BY <1>1, <1>4, <1>5 DEF TablesOk, PoolsOk
<1> QED
  BY <1>2, <1>3, <1>6 DEF IInv

-----------------------------------------------------------------------------
(* Tables that stay, and workers that are left alone. *)

LEMMA TablesStay ==
  ASSUME TablesOk, UNCHANGED <<batch, batchOf, ledger, pools>>
  PROVE  TablesOk'
PROOF
<1>1. \A ref \in References : RowOk(ref)'
  BY DEF TablesOk, RowOk, Accepted, InLedger, In
<1>2. \A n \in 1..Len(ledger') : EntryOk(n)'
  BY DEF TablesOk, EntryOk, In
<1>3. PoolsOk'
  BY DEF TablesOk, PoolsOk, Credits
<1> QED
  BY <1>1, <1>2, <1>3 DEF TablesOk

Untouched(v) ==
  /\ pc'[v] = pc[v] /\ request'[v] = request[v] /\ todo'[v] = todo[v]
  /\ \A ref \in References : rowLock'[ref] = v <=> rowLock[ref] = v
  /\ \A p \in Payments : claim'[p] = v <=> claim[p] = v

(* What the commit of w does to batches and payments. *)
Commits(w) ==
  LET r == request[w]
  IN  /\ r \in Request
      /\ rowLock[r.ref] = w
      /\ \A ref \in References \ {r.ref} : batch'[ref] = batch[ref]
      /\ batchOf' = BatchOfAfter(w)

LEMMA BatchAfterCommit ==
  ASSUME IInv, NEW w \in Workers, Commits(w)
  PROVE  /\ batchOf' \in [Payments -> References \cup {None}]
         /\ \A p \in Payments : claim[p] # w => batchOf'[p] = batchOf[p]
         /\ \A p \in Payments : claim[p] = w =>
              batchOf[p] = None /\ batchOf'[p] = request[w].ref
         /\ \A ref \in References \ {request[w].ref} : In(ref)' = In(ref)
PROOF
<1>1. PICK ref \in References : ref = request[w].ref
  BY Requested DEF Commits
<1>2. batchOf' = [p \in Payments |-> IF claim[p] = w THEN ref ELSE batchOf[p]]
  BY <1>1 DEF Commits, BatchOfAfter
<1>3. batchOf \in [Payments -> References \cup {None}]
  BY DEF IInv, TypeOK
<1>4. \A p \in Payments : claim[p] = w => batchOf[p] = None
  BY DEF IInv, AtWork
<1>5. ASSUME NEW other \in References \ {ref} PROVE In(other)' = In(other)
  <2>1. other # None
    BY Nobody
  <2> QED
    BY <1>2, <1>3, <1>4, <1>5, <2>1 DEF In
<1> QED
  BY <1>1, <1>2, <1>3, <1>4, <1>5

LEMMA OthersAtWork ==
  ASSUME IInv, NEW v \in Workers, Untouched(v),
         \/ UNCHANGED <<batch, batchOf>>
         \/ \E w \in Workers \ {v} : Commits(w)
  PROVE  AtWork(v)'
PROOF
<1>1. AtWork(v)
  BY DEF IInv
<1>2. PICK r : r = request[v]
  OBVIOUS
<1>3. CASE UNCHANGED <<batch, batchOf>>
  <2>1. pc[v] # "idle" => r.ref \in References
    BY <1>1, <1>2, Requested DEF AtWork
  <2>2. pc[v] \in {"check", "attach"} => Grounded(v)'
    BY <1>1, <1>2, <1>3, <2>1
    DEF AtWork, Untouched, Grounded, Held, In
  <2> QED
    BY <1>1, <1>3, <2>2 DEF AtWork, Untouched
<1>4. ASSUME NEW w \in Workers \ {v}, Commits(w)
      PROVE  AtWork(v)'
  <2>1. \A p \in Payments : claim[p] = v => batchOf'[p] = batchOf[p]
    BY <1>4, BatchAfterCommit
  <2>2. ASSUME pc[v] \in {"check", "attach"}
        PROVE  Grounded(v)'
    <3>1. r.ref \in References /\ Grounded(v)
      BY <1>1, <1>2, <2>2, Requested DEF AtWork
    <3>2. r.ref # request[w].ref
      BY <1>2, <1>4, <3>1 DEF Commits, Grounded
    <3>3. In(r.ref)' = In(r.ref)
      BY <1>4, <3>1, <3>2, BatchAfterCommit
    <3>4. batch'[r.ref] = batch[r.ref]
      BY <1>4, <3>1, <3>2 DEF Commits
    <3>5. PICK S : S = In(r.ref)
      OBVIOUS
    <3>6. rowLock'[r.ref] = v /\ request'[v] = r
      BY <1>2, <3>1 DEF Untouched, Grounded
    <3>7. Held(r) => Held(r)'
      BY <3>3, <3>4, <3>5 DEF Held
    <3> QED
      BY <1>2, <3>1, <3>4, <3>6, <3>7 DEF Grounded
  <2> QED
    BY <1>1, <2>1, <2>2 DEF AtWork, Untouched
<1> QED
  BY <1>3, <1>4

(* The end of a transaction. *)
LEMMA EndFacts ==
  ASSUME IInv, NEW w \in Workers, End(w)
  PROVE  /\ pc' \in [Workers -> {"idle", "select", "insert", "check", "attach"}]
         /\ todo' \in [Workers -> SUBSET Payments]
         /\ rowLock' \in [References -> Workers \cup {None}]
         /\ claim' \in [Payments -> Workers \cup {None}]
         /\ request' \in [Workers -> Request \cup {None}]
         /\ AtWork(w)'
         /\ \A v \in Workers \ {w} : Untouched(v)
PROOF
<1>1. TypeOK
  BY DEF IInv
<1>2. /\ pc' = [pc EXCEPT ![w] = "idle"]
      /\ todo' = [todo EXCEPT ![w] = {}]
      /\ rowLock' = [ref \in References |->
                       IF rowLock[ref] = w THEN None ELSE rowLock[ref]]
      /\ claim' = [p \in Payments |-> IF claim[p] = w THEN None ELSE claim[p]]
      /\ request' = [request EXCEPT ![w] = None]
  BY DEF End
<1>3. /\ pc' \in [Workers -> {"idle", "select", "insert", "check", "attach"}]
      /\ todo' \in [Workers -> SUBSET Payments]
      /\ rowLock' \in [References -> Workers \cup {None}]
      /\ claim' \in [Payments -> Workers \cup {None}]
      /\ request' \in [Workers -> Request \cup {None}]
  BY <1>1, <1>2 DEF TypeOK
<1>4. w # None
  BY Nobody
<1>5. /\ pc'[w] = "idle"
      /\ \A ref \in References : rowLock'[ref] # w
      /\ \A p \in Payments : claim'[p] # w
  BY <1>1, <1>2, <1>4 DEF TypeOK
<1>6. AtWork(w)'
  BY <1>5 DEF AtWork
<1>7. ASSUME NEW v \in Workers \ {w} PROVE Untouched(v)
  <2>1. v # None
    BY Nobody
  <2> QED
    BY <1>1, <1>2, <1>7, <2>1 DEF TypeOK, Untouched
<1> QED
  BY <1>3, <1>6, <1>7

LEMMA EndKeeps ==
  ASSUME IInv, NEW w \in Workers, End(w), UNCHANGED tables, cycle' \subseteq cycle
  PROVE  IInv'
PROOF
<1>1. UNCHANGED <<booked, batch, batchOf, ledger, pools>>
  BY DEF tables
<1>2. TypeOK'
  BY <1>1, EndFacts DEF IInv, TypeOK
<1>3. ASSUME NEW v \in Workers PROVE AtWork(v)'
  BY <1>1, <1>3, EndFacts, OthersAtWork
<1> QED
  BY <1>1, <1>2, <1>3, TablesStay DEF IInv

-----------------------------------------------------------------------------
(* Steps of a worker that write no table. *)

WorkersTyped ==
  /\ rowLock \in [References -> Workers \cup {None}]
  /\ claim \in [Payments -> Workers \cup {None}]
  /\ pc \in [Workers -> {"idle", "select", "insert", "check", "attach"}]
  /\ request \in [Workers -> Request \cup {None}]
  /\ todo \in [Workers -> SUBSET Payments]
  /\ cycle \subseteq [branch : Branches, payments : SUBSET Payments]

LEMMA WorkerMoves ==
  ASSUME IInv, NEW w \in Workers, UNCHANGED tables, WorkersTyped', AtWork(w)',
         \A v \in Workers \ {w} : Untouched(v)
  PROVE  IInv'
PROOF
<1>1. UNCHANGED <<booked, batch, batchOf, ledger, pools>>
  BY DEF tables
<1>2. TypeOK'
  BY <1>1 DEF IInv, TypeOK, WorkersTyped
<1>3. ASSUME NEW v \in Workers PROVE AtWork(v)'
  BY <1>1, <1>3, OthersAtWork
<1> QED
  BY <1>1, <1>2, <1>3, TablesStay DEF IInv

(* A worker that has taken on a request holds nothing yet. *)
LEMMA TakeOn ==
  ASSUME IInv, NEW w \in Workers, NEW r \in Request, NEW step,
         \/ step = "select"
         \/ step = "insert" /\ ~ IsDecision(r),
         pc[w] = "idle",
         pc' = [pc EXCEPT ![w] = step],
         request' = [request EXCEPT ![w] = r],
         cycle' \subseteq cycle,
         UNCHANGED <<tables, rowLock, claim, todo>>
  PROVE  IInv'
PROOF
<1>1. TypeOK /\ AtWork(w)
  BY DEF IInv
<1>2. WorkersTyped'
  BY <1>1 DEF TypeOK, WorkersTyped
<1>3. pc'[w] = step /\ request'[w] = r
  BY <1>1 DEF TypeOK
<1>4. /\ \A ref \in References : rowLock'[ref] # w
      /\ \A p \in Payments : claim'[p] # w
  BY <1>1 DEF AtWork
<1>5. AtWork(w)'
  BY <1>3, <1>4 DEF AtWork, IsDecision, IsVariance, VarianceOf
<1>6. \A v \in Workers \ {w} : Untouched(v)
  BY <1>1 DEF Untouched, TypeOK
<1> QED
  BY <1>2, <1>5, <1>6, WorkerMoves

LEMMA BeginKeeps ==
  ASSUME IInv, NEW h \in Handlers, NEW r \in Requests, Begin(h, r)
  PROVE  IInv'
PROOF
<1>1. h \in Workers /\ r \in Request
  BY ReconciliationAssumption, Zenon DEF Workers
<1> QED
  BY <1>1, TakeOn DEF Begin, Idle

LEMMA NextBatchKeeps ==
  ASSUME IInv, NEW group \in cycle, NEW e \in ExpectedAmounts,
         NextBatch(group, e)
  PROVE  IInv'
PROOF
<1>1. group.branch \in Branches /\ group.payments \in SUBSET Payments
  BY DEF IInv, TypeOK
<1>2. PICK r : r = AutoRequest(group, e)
  OBVIOUS
<1>3. PICK amount \in Nat : amount = AmountOf(group.payments)
  BY <1>1, AmountIsNat
<1>4. /\ e \in Nat /\ AutoReference[group.branch] \in References
      /\ JobActor \in Staff /\ JobPolicy \in STRING
  BY <1>1, ReconciliationAssumption, Zenon
<1>5. r = [ref |-> AutoReference[group.branch], branch |-> group.branch,
           actor |-> JobActor, expected |-> e, recorded |-> amount,
           submitted |-> amount, payments |-> group.payments,
           policy |-> JobPolicy, decision |-> "none", entitled |-> FALSE]
  BY <1>2, <1>3 DEF AutoRequest
<1>6. r \in Request
  BY <1>1, <1>4, <1>5 DEF Request
<1>7. ~ IsDecision(r)
  BY <1>5 DEF IsDecision
<1>8. Job \in Workers
  BY DEF Workers
<1> QED
  BY <1>2, <1>6, <1>7, <1>8, TakeOn DEF NextBatch, Idle

(* The row is there and can be decided: the worker locks it. *)
LEMMA ResumeKeeps ==
  ASSUME IInv, NEW w \in Workers, pc[w] \in {"select", "insert"},
         batch[request[w].ref] # None, rowLock[request[w].ref] = None,
         Resume(w)
  PROVE  IInv'
PROOF
<1>1. PICK r \in Request : r = request[w]
  BY DEF IInv, AtWork
<1>2. PICK ref \in References : ref = r.ref
  BY Requested
<1>3. CASE Fail(w) \/ Replay(w)
  <2>1. cycle' \subseteq cycle
    BY <1>3 DEF Fail, Replay
  <2> QED
    BY <1>3, <2>1, EndKeeps DEF Fail, Replay
<1>4. CASE /\ ~ Refused(r, batch[ref]) /\ ~ Settled(r, batch[ref])
           /\ TakeRow(w) /\ GoTo(w, "check") /\ UNCHANGED todo
  <2>1. TypeOK /\ AtWork(w)
    BY DEF IInv
  <2>2. /\ rowLock' = [rowLock EXCEPT ![ref] = w]
        /\ pc' = [pc EXCEPT ![w] = "check"]
        /\ UNCHANGED <<tables, claim, request, cycle, todo>>
    BY <1>1, <1>2, <1>4 DEF TakeRow, GoTo
  <2>3. WorkersTyped'
    BY <2>1, <2>2 DEF TypeOK, WorkersTyped
  <2>4. PICK b \in BatchRow : b = batch[ref]
    BY <1>1, <1>2, <2>1 DEF TypeOK
  <2>5. /\ IsDecision(r) /\ SameFacts(r, b)
        /\ b.status \notin Terminal /\ b.submitter # r.actor
        /\ In(ref) = r.payments
    BY <1>2, <1>4, <2>4 DEF Refused, Settled
  <2>6. b.status = "variance"
    BY <2>4, <2>5 DEF BatchRow
  <2>7. UNCHANGED <<batch, batchOf>>
    BY <2>2 DEF tables
  <2>8. Held(r)'
    BY <1>1, <1>2, <2>4, <2>5, <2>6, <2>7 DEF Held, In
  <2>9. pc'[w] = "check" /\ rowLock'[ref] = w /\ request'[w] = r
    BY <1>1, <2>1, <2>2 DEF TypeOK
  <2>10. Grounded(w)'
    BY <1>2, <2>5, <2>8, <2>9 DEF Grounded
  <2>11. \A other \in References : rowLock'[other] = w => other = ref
    BY <2>1, <2>2 DEF AtWork, TypeOK
  <2>12. \A p \in Payments : claim'[p] # w
    BY <2>1, <2>2 DEF AtWork
  <2>13. AtWork(w)'
    BY <1>2, <2>9, <2>10, <2>11, <2>12 DEF AtWork
  <2>14. ASSUME NEW v \in Workers \ {w} PROVE Untouched(v)
    <3>1. v # None
      BY Nobody
    <3> QED
      BY <1>1, <1>2, <2>1, <2>2, <3>1 DEF Untouched, TypeOK
  <2> QED
    BY <2>2, <2>3, <2>13, <2>14, WorkerMoves
<1> QED
  BY <1>1, <1>2, <1>3, <1>4 DEF Resume

LEMMA SelectKeeps ==
  ASSUME IInv, NEW w \in Workers, SelectNone(w) \/ SelectRow(w)
  PROVE  IInv'
PROOF
<1>1. CASE SelectRow(w)
  BY <1>1, ResumeKeeps DEF SelectRow
<1>2. CASE SelectNone(w) /\ Fail(w)
  <2>1. cycle' \subseteq cycle
    BY <1>2 DEF Fail
  <2> QED
    BY <1>2, <2>1, EndKeeps DEF Fail
<1>3. CASE /\ pc[w] = "select" /\ ~ IsDecision(request[w])
           /\ GoTo(w, "insert") /\ UNCHANGED <<rowLock, todo>>
  <2>1. TypeOK /\ AtWork(w)
    BY DEF IInv
  <2>2. /\ pc' = [pc EXCEPT ![w] = "insert"]
        /\ UNCHANGED <<tables, claim, request, cycle, rowLock, todo>>
    BY <1>3 DEF GoTo
  <2>3. WorkersTyped'
    BY <2>1, <2>2 DEF TypeOK, WorkersTyped
  <2>4. pc'[w] = "insert" /\ request'[w] = request[w]
    BY <2>1, <2>2 DEF TypeOK
  <2>5. AtWork(w)'
    BY <1>3, <2>1, <2>2, <2>4 DEF AtWork, IsDecision, IsVariance, VarianceOf
  <2>6. \A v \in Workers \ {w} : Untouched(v)
    BY <2>1, <2>2 DEF Untouched, TypeOK
  <2> QED
    BY <2>2, <2>3, <2>5, <2>6, WorkerMoves
<1> QED
  BY <1>1, <1>2, <1>3 DEF SelectNone

GoesOn(w, step, work) ==
  /\ \/ step = "check" /\ work = todo[w]
     \/ step = "attach" /\ work = request[w].payments
  /\ pc' = [pc EXCEPT ![w] = step]
  /\ todo' = [todo EXCEPT ![w] = work]
  /\ UNCHANGED <<tables, claim, request, cycle>>

LEMMA InsertKeeps ==
  ASSUME IInv, NEW w \in Workers, Insert(w)
  PROVE  IInv'
PROOF
<1>1. TypeOK /\ AtWork(w)
  BY DEF IInv
<1>2. PICK r \in Request : r = request[w]
  BY <1>1 DEF AtWork, Insert
<1>3. PICK ref \in References : ref = r.ref
  BY Requested
<1>4. PICK step \in {"check", "attach"}, work \in SUBSET Payments :
        GoesOn(w, step, work)
  <2>1. r.payments \in SUBSET Payments /\ todo[w] \in SUBSET Payments
    BY <1>1, Requested DEF TypeOK
  <2>2. CASE Quarantines(w)
    <3>1. GoesOn(w, "attach", r.payments)
      BY <1>2, <2>2 DEF Insert, GoTo, GoesOn
    <3> QED
      BY <2>1, <3>1
  <2>3. CASE ~ Quarantines(w)
    <3>1. todo' = [todo EXCEPT ![w] = todo[w]]
      BY <1>1, <2>3 DEF Insert, TypeOK
    <3>2. GoesOn(w, "check", todo[w])
      BY <2>3, <3>1 DEF Insert, GoTo, GoesOn
    <3> QED
      BY <2>1, <3>2
  <2> QED
    BY <2>2, <2>3
<1>5. /\ \/ step = "check" /\ work = todo[w]
         \/ step = "attach" /\ work = r.payments
      /\ pc' = [pc EXCEPT ![w] = step]
      /\ todo' = [todo EXCEPT ![w] = work]
      /\ UNCHANGED <<tables, claim, request, cycle>>
  BY <1>2, <1>4, Zenon DEF GoesOn
<1>6. /\ pc[w] = "insert" /\ rowLock[ref] = None /\ batch[ref] = None
      /\ rowLock' = [rowLock EXCEPT ![ref] = w]
  BY <1>2, <1>3 DEF Insert, TakeRow
<1>7. WorkersTyped'
  BY <1>1, <1>5, <1>6 DEF TypeOK, WorkersTyped
<1>8. ~ IsDecision(r)
  BY <1>1, <1>2, <1>6 DEF AtWork
<1>9. /\ pc'[w] = step /\ rowLock'[ref] = w /\ request'[w] = r
      /\ todo'[w] = work /\ batch'[ref] = None
  BY <1>1, <1>2, <1>5, <1>6 DEF TypeOK, tables
<1>10. Grounded(w)'
  BY <1>3, <1>8, <1>9 DEF Grounded
<1>11. \A other \in References : rowLock'[other] = w => other = ref
  BY <1>1, <1>6 DEF AtWork, TypeOK
<1>12. \A p \in Payments : claim'[p] # w
  BY <1>1, <1>5, <1>6 DEF AtWork
<1>13. AtWork(w)'
  BY <1>3, <1>5, <1>9, <1>10, <1>11, <1>12 DEF AtWork
<1>14. ASSUME NEW v \in Workers \ {w} PROVE Untouched(v)
  <2>1. v # None
    BY Nobody
  <2> QED
    BY <1>1, <1>5, <1>6, <2>1 DEF Untouched, TypeOK
<1> QED
  BY <1>5, <1>7, <1>13, <1>14, WorkerMoves

LEMMA InsertTakenKeeps ==
  ASSUME IInv, NEW w \in Workers, InsertTaken(w)
  PROVE  IInv'
PROOF
<1>1. CASE Fail(w)
  <2>1. cycle' \subseteq cycle
    BY <1>1 DEF Fail
  <2> QED
    BY <1>1, <2>1, EndKeeps DEF Fail
<1>2. CASE Resume(w)
  BY <1>2, ResumeKeeps DEF InsertTaken
<1> QED
  BY <1>1, <1>2 DEF InsertTaken

LEMMA CheckKeeps ==
  ASSUME IInv, NEW w \in Workers, Check(w)
  PROVE  IInv'
PROOF
<1>1. CASE Fail(w)
  <2>1. cycle' \subseteq cycle
    BY <1>1 DEF Fail
  <2> QED
    BY <1>1, <2>1, EndKeeps DEF Fail
<1>2. CASE /\ pc[w] = "check" /\ GoTo(w, "attach")
           /\ todo' = [todo EXCEPT ![w] = request[w].payments]
           /\ UNCHANGED rowLock
  <2>1. TypeOK /\ AtWork(w)
    BY DEF IInv
  <2>2. PICK r \in Request : r = request[w]
    BY <1>2, <2>1 DEF AtWork
  <2>3. /\ pc' = [pc EXCEPT ![w] = "attach"]
        /\ todo' = [todo EXCEPT ![w] = r.payments]
        /\ UNCHANGED <<tables, claim, request, cycle, rowLock>>
    BY <1>2, <2>2 DEF GoTo
  <2>4. r.payments \in SUBSET Payments
    BY Requested
  <2>5. WorkersTyped'
    BY <2>1, <2>3, <2>4 DEF TypeOK, WorkersTyped
  <2>6. pc'[w] = "attach" /\ request'[w] = r /\ todo'[w] = r.payments
    BY <2>1, <2>2, <2>3 DEF TypeOK
  <2>7. Grounded(w)'
    BY <1>2, <2>1, <2>2, <2>3, <2>6 DEF AtWork, Grounded, Held, In, tables
  <2>8. /\ \A ref \in References : rowLock'[ref] = w => r.ref = ref
        /\ \A p \in Payments : claim'[p] # w
    BY <1>2, <2>1, <2>2, <2>3 DEF AtWork
  <2>9. AtWork(w)'
    BY <2>6, <2>7, <2>8 DEF AtWork
  <2>10. \A v \in Workers \ {w} : Untouched(v)
    BY <2>1, <2>3 DEF Untouched, TypeOK
  <2> QED
    BY <2>3, <2>5, <2>9, <2>10, WorkerMoves
<1> QED
  BY <1>1, <1>2 DEF Check

LEMMA AttachKeeps ==
  ASSUME IInv, NEW w \in Workers, NEW p \in Payments, Attach(w, p)
  PROVE  IInv'
PROOF
<1>1. CASE Fail(w)
  <2>1. cycle' \subseteq cycle
    BY <1>1 DEF Fail
  <2> QED
    BY <1>1, <2>1, EndKeeps DEF Fail
<1>2. CASE ~ Fail(w)
  <2>1. TypeOK /\ AtWork(w)
    BY DEF IInv
  <2>2. /\ pc[w] = "attach" /\ p \in todo[w] /\ claim[p] = None
        /\ claim' = IF batchOf[p] = None THEN [claim EXCEPT ![p] = w] ELSE claim
        /\ todo' = [todo EXCEPT ![w] = todo[w] \ {p}]
        /\ UNCHANGED <<tables, rowLock, pc, request, cycle>>
    BY <1>2 DEF Attach
  <2>3. WorkersTyped'
    BY <2>1, <2>2 DEF TypeOK, WorkersTyped
  <2>4. PICK r \in Request : r = request[w]
    BY <2>1, <2>2 DEF AtWork
  <2>5. pc'[w] = "attach" /\ request'[w] = r /\ todo'[w] = todo[w] \ {p}
    BY <2>1, <2>2, <2>4 DEF TypeOK
  <2>6. todo[w] \subseteq r.payments
    BY <2>1, <2>2, <2>4 DEF AtWork
  <2>7. ASSUME NEW q \in Payments, claim'[q] = w
        PROVE  q \in r.payments \ (todo[w] \ {p}) /\ batchOf[q] = None
    <3>1. CASE q = p
      <4>1. batchOf[p] = None
        BY <2>1, <2>2, <2>7, <3>1, Nobody DEF TypeOK
      <4> QED
        BY <2>2, <2>6, <3>1, <4>1
    <3>2. CASE q # p
      <4>1. claim[q] = w
        BY <2>1, <2>2, <2>7, <3>2 DEF TypeOK
      <4> QED
        BY <2>1, <2>4, <4>1 DEF AtWork
    <3> QED
      BY <3>1, <3>2
  <2>8. Grounded(w)'
    BY <2>1, <2>2, <2>4, <2>5 DEF AtWork, Grounded, Held, In, tables
  <2>9. AtWork(w)'
    BY <2>1, <2>2, <2>4, <2>5, <2>6, <2>7, <2>8 DEF AtWork, tables
  <2>10. ASSUME NEW v \in Workers \ {w} PROVE Untouched(v)
    <3>1. v # None
      BY Nobody
    <3> QED
      BY <2>1, <2>2, <3>1 DEF Untouched, TypeOK
  <2> QED
    BY <2>2, <2>3, <2>9, <2>10, WorkerMoves
<1> QED
  BY <1>1, <1>2

-----------------------------------------------------------------------------
(* Commits. *)

(* What a worker that has attached its payments goes by. *)
LEMMA Undecided ==
  ASSUME IInv, NEW w \in Workers, Attached(w)
  PROVE  LET r == request[w]
         IN  /\ r \in Request /\ rowLock[r.ref] = w
             /\ IsDecision(r) => Held(r)
             /\ ~ IsDecision(r) => batch[r.ref] = None
             /\ ~ InLedger(r.ref)
PROOF
<1>1. AtWork(w) /\ pc[w] = "attach"
  BY DEF IInv, Attached
<1>2. PICK r \in Request : r = request[w]
  BY <1>1 DEF AtWork
<1>3. Grounded(w)
  BY <1>1 DEF AtWork
<1>4. /\ rowLock[r.ref] = w
      /\ IsDecision(r) => Held(r)
      /\ ~ IsDecision(r) => batch[r.ref] = None
  BY <1>2, <1>3 DEF Grounded
<1>5. ~ Accepted(r.ref)
  BY <1>4 DEF Accepted, Held
<1>6. RowOk(r.ref)
  BY Requested DEF IInv, TablesOk
<1> QED
  BY <1>2, <1>4, <1>5, <1>6, Zenon DEF RowOk

(* A row that a worker with the request r may write. *)
GoodRow(r, row, status) ==
  /\ row \in BatchRow /\ Reviewed(row) /\ row.status = status
  /\ row.branch = r.branch /\ row.recorded = r.recorded

LEMMA DecidedRow ==
  ASSUME IInv, NEW w \in Workers, Attached(w), IsDecision(request[w]),
         NEW status \in {"approved", "rejected"}
  PROVE  GoodRow(request[w], Decided(request[w], status), status)
PROOF
<1>1. PICK r \in Request : r = request[w]
  BY Undecided
<1>2. Held(r)
  BY <1>1, Undecided
<1>3. r.ref \in References /\ r.actor \in Staff
  BY Requested
<1>4. PICK b \in BatchRow : b = batch[r.ref]
  BY <1>2, <1>3 DEF Held, IInv, TypeOK
<1>5. SameFacts(r, b) /\ b.submitter # r.actor
  BY <1>2, <1>4 DEF Held
<1>6. PICK row : row = [branch |-> b.branch, expected |-> b.expected,
                        recorded |-> b.recorded, submitted |-> b.submitted,
                        status |-> status, submitter |-> b.submitter,
                        reviewer |-> r.actor]
  OBVIOUS
<1>7. row \in BatchRow
  BY <1>3, <1>4, <1>6 DEF BatchRow, Terminal
<1>8. row = Decided(r, status)
  <2>1. PICK c : c = [b EXCEPT !.status = status]
    OBVIOUS
  <2>2. Decided(r, status) = [c EXCEPT !.reviewer = r.actor]
    BY <1>4, <2>1 DEF Decided
  <2>3. /\ c \in BatchRow
        /\ c.branch = b.branch /\ c.expected = b.expected
        /\ c.recorded = b.recorded /\ c.submitted = b.submitted
        /\ c.status = status /\ c.submitter = b.submitter
    BY <2>1 DEF BatchRow, Terminal
  <2> QED
    BY <1>6, <2>2, <2>3 DEF BatchRow
<1>9. /\ row.branch = r.branch /\ row.expected = r.expected
      /\ row.recorded = r.recorded /\ row.submitted = r.submitted
      /\ row.status = status /\ row.submitter = b.submitter
      /\ row.reviewer = r.actor
  BY <1>5, <1>6 DEF SameFacts
<1>10. IsVariance(row)
  BY <1>1, <1>9, SameVariance DEF IsDecision
<1>11. Reviewed(row)
  BY <1>3, <1>5, <1>9, <1>10, Nobody DEF Reviewed
<1> QED
  BY <1>1, <1>7, <1>8, <1>9, <1>11 DEF GoodRow

LEMMA InsertedRow ==
  ASSUME NEW r \in Request, NEW status \in {"matched", "variance"},
         IsVariance(r) <=> status # "matched"
  PROVE  GoodRow(r, NewRow(r, status), status)
PROOF
<1>1. PICK row : row = NewRow(r, status)
  OBVIOUS
<1>2. row = [branch |-> r.branch, expected |-> r.expected,
             recorded |-> r.recorded, submitted |-> r.submitted,
             status |-> status, submitter |-> r.actor, reviewer |-> None]
  BY <1>1 DEF NewRow
<1>3. row \in BatchRow
  BY <1>2, Requested DEF BatchRow, Terminal
<1>4. IsVariance(row) <=> IsVariance(r)
  BY <1>2, SameVariance
<1>5. Reviewed(row)
  BY <1>2, <1>4, Requested, Nobody DEF Reviewed
<1> QED
  BY <1>1, <1>2, <1>3, <1>5 DEF GoodRow

(* A commit, but for the ledger and the pools. *)
Writes(w, row) ==
  /\ Attached(w)
  /\ batch' = [batch EXCEPT ![request[w].ref] = row]
  /\ batchOf' = BatchOfAfter(w)
  /\ End(w)
  /\ UNCHANGED <<booked, cycle>>

LEMMA WritesCommit ==
  ASSUME IInv, NEW w \in Workers, NEW row \in BatchRow, Writes(w, row)
  PROVE  /\ Commits(w)
         /\ batch' \in [References -> BatchRow \cup {None}]
         /\ batch'[request[w].ref] = row
PROOF
<1>1. PICK r \in Request : r = request[w]
  BY Undecided DEF Writes
<1>2. r.ref \in References
  BY Requested
<1>3. batch \in [References -> BatchRow \cup {None}]
  BY DEF IInv, TypeOK
<1>4. batch' = [batch EXCEPT ![r.ref] = row]
  BY <1>1 DEF Writes
<1>5. rowLock[r.ref] = w
  BY <1>1, Undecided DEF Writes
<1> QED
  BY <1>1, <1>2, <1>3, <1>4, <1>5 DEF Commits, Writes

LEMMA WritesKeep ==
  ASSUME IInv, NEW w \in Workers, NEW row \in BatchRow, Writes(w, row),
         ledger' \in Seq(LedgerEntry), pools' \in [Branches -> [Pools -> Nat]]
  PROVE  TypeOK' /\ \A v \in Workers : AtWork(v)'
PROOF
<1>1. Commits(w) /\ batch' \in [References -> BatchRow \cup {None}]
  BY WritesCommit
<1>2. batchOf' \in [Payments -> References \cup {None}]
  BY <1>1, BatchAfterCommit
<1>3. End(w) /\ UNCHANGED <<booked, cycle>>
  BY DEF Writes
<1>4. TypeOK'
  BY <1>1, <1>2, <1>3, EndFacts DEF IInv, TypeOK
<1>5. ASSUME NEW v \in Workers PROVE AtWork(v)'
  <2>1. CASE v = w
    BY <1>3, <2>1, EndFacts
  <2>2. CASE v # w
    <3>1. Untouched(v)
      BY <1>3, <2>2, EndFacts
    <3>2. \E u \in Workers \ {v} : Commits(u)
      BY <1>1, <2>2
    <3> QED
      BY <3>1, <3>2, OthersAtWork
  <2> QED
    BY <2>1, <2>2
<1> QED
  BY <1>4, <1>5

(* Rows of other batches, and what the ledger has already. *)
LEMMA OldRows ==
  ASSUME IInv, NEW w \in Workers, NEW row \in BatchRow, Writes(w, row),
         NEW ref \in References \ {request[w].ref},
         InLedger(ref)' <=> InLedger(ref)
  PROVE  RowOk(ref)'
PROOF
<1>1. Commits(w)
  BY WritesCommit
<1>2. batch'[ref] = batch[ref]
  BY <1>1 DEF Commits
<1>3. In(ref)' = In(ref)
  BY <1>1, BatchAfterCommit
<1>4. PICK S : S = In(ref)
  OBVIOUS
<1>5. Accepted(ref)' <=> Accepted(ref)
  BY <1>2 DEF Accepted
<1>6. RowOk(ref)
  BY DEF IInv, TablesOk
<1> QED
  BY <1>2, <1>3, <1>4, <1>5, <1>6 DEF RowOk

LEMMA OldEntries ==
  ASSUME IInv, NEW w \in Workers, NEW row \in BatchRow, Writes(w, row),
         NEW n \in 1..Len(ledger), ledger'[n] = ledger[n]
  PROVE  EntryOk(n)'
PROOF
<1>1. Commits(w) /\ EntryOk(n)
  BY WritesCommit DEF IInv, TablesOk
<1>2. ~ InLedger(request[w].ref)
  BY Undecided DEF Writes
<1>3. ledger \in Seq(LedgerEntry)
  BY DEF IInv, TypeOK
<1>4. PICK ref : ref = ledger[n].ref
  OBVIOUS
<1>5. ledger[n] \in LedgerEntry
  BY <1>3
<1>6. ref \in References
  BY <1>4, <1>5 DEF LedgerEntry
<1>7. ref # request[w].ref
  BY <1>2, <1>4 DEF InLedger
<1>8. batch'[ref] = batch[ref]
  BY <1>1, <1>6, <1>7 DEF Commits
<1>9. In(ref)' = In(ref)
  BY <1>1, <1>6, <1>7, BatchAfterCommit
<1>10. PICK S : S = In(ref)
  OBVIOUS
<1>11. PICK charge : charge = ChargeOf(S)
  OBVIOUS
<1>12. ledger[n].charge = charge
  BY <1>1, <1>4, <1>10, <1>11 DEF EntryOk
<1>13. ledger'[n].charge = ChargeOf(In(ledger[n].ref))'
  BY <1>4, <1>9, <1>10, <1>11, <1>12
<1> QED
  BY <1>1, <1>4, <1>8, <1>13 DEF EntryOk

(* A batch that is held or rejected leaves the ledger alone. *)
LEMMA WritesNoEntry ==
  ASSUME IInv, NEW w \in Workers, NEW row,
         NEW status \in {"variance", "rejected"},
         GoodRow(request[w], row, status), Writes(w, row),
         UNCHANGED <<ledger, pools>>
  PROVE  IInv'
PROOF
<1>1. row \in BatchRow /\ Reviewed(row) /\ row.status = status
  BY DEF GoodRow
<1>2. PICK ref : ref = request[w].ref
  OBVIOUS
<1>3. batch'[ref] = row /\ row # None
  BY <1>1, <1>2, WritesCommit, Nobody
<1>4. ~ InLedger(ref)'
  BY <1>2, Undecided DEF Writes, InLedger
<1>5. ~ Accepted(ref)'
  BY <1>1, <1>3 DEF Accepted
<1>6. RowOk(ref)'
  BY <1>1, <1>3, <1>4, <1>5 DEF RowOk, Reviewed, IsVariance, VarianceOf
<1>7. ASSUME NEW other \in References PROVE RowOk(other)'
  <2>1. InLedger(other)' <=> InLedger(other)
    BY DEF InLedger
  <2> QED
    BY <1>1, <1>2, <1>6, <2>1, OldRows
<1>8. \A n \in 1..Len(ledger) : EntryOk(n)'
  BY <1>1, OldEntries
<1>9. PoolsOk'
  BY DEF IInv, TablesOk, PoolsOk, Credits
<1>10. TablesOk'
  BY <1>7, <1>8, <1>9 DEF TablesOk
<1>11. TypeOK' /\ \A v \in Workers : AtWork(v)'
  BY <1>1, WritesKeep DEF IInv, TypeOK
<1> QED
  BY <1>10, <1>11 DEF IInv

LEMMA HoldKeeps ==
  ASSUME IInv, NEW w \in Workers, Hold(w)
  PROVE  IInv'
PROOF
<1>1. PICK r \in Request : r = request[w]
  BY Undecided DEF Hold
<1>2. GoodRow(r, NewRow(r, "variance"), "variance")
  BY <1>1, InsertedRow DEF Hold
<1>3. Writes(w, NewRow(r, "variance"))
  BY <1>1 DEF Hold, Writes
<1> QED
  BY <1>1, <1>2, <1>3, WritesNoEntry DEF Hold

LEMMA RejectKeeps ==
  ASSUME IInv, NEW w \in Workers, Reject(w)
  PROVE  IInv'
PROOF
<1>1. PICK r : r = request[w]
  OBVIOUS
<1>2. GoodRow(r, Decided(r, "rejected"), "rejected")
  BY <1>1, DecidedRow DEF Reject
<1>3. Writes(w, Decided(r, "rejected"))
  BY <1>1 DEF Reject, Writes
<1> QED
  BY <1>1, <1>2, <1>3, WritesNoEntry DEF Reject

(* The entry of a posted batch. *)
Realizes(r, charge, entry) ==
  /\ entry \in LedgerEntry
  /\ entry.ref = r.ref /\ entry.branch = r.branch /\ entry.cash = r.recorded
  /\ entry.charge = charge
  /\ charge = SumOfPools(entry.shares) + entry.profit

LEMMA EntryRealizes ==
  ASSUME NEW r \in Request, ~ Unpostable(r), NEW charge \in Nat
  PROVE  Realizes(r, charge, Entry(r, charge))
PROOF
<1>1. r.policy \in Policies
  BY DEF Unpostable
<1>2. PICK policy \in Policies : policy = r.policy
  BY <1>1
<1>3. PICK shares : shares = Shares(charge, policy)
  OBVIOUS
<1>4. PICK sum : sum = SumOfPools(shares)
  OBVIOUS
<1>5. shares \in [Pools -> Nat] /\ sum \in Nat /\ sum <= charge
  BY <1>3, <1>4, SharesFit
<1>6. charge - sum \in Nat /\ charge = sum + (charge - sum)
  BY <1>5
<1>7. PICK entry : entry = Entry(r, charge)
  OBVIOUS
<1>8. entry = [ref |-> r.ref, branch |-> r.branch, cash |-> r.recorded,
               charge |-> charge, shares |-> shares, profit |-> charge - sum]
  BY <1>2, <1>3, <1>4, <1>7 DEF Entry
<1>9. entry \in LedgerEntry
  BY <1>5, <1>6, <1>8, Requested DEF LedgerEntry
<1>10. /\ entry.ref = r.ref /\ entry.branch = r.branch
       /\ entry.cash = r.recorded /\ entry.charge = charge
       /\ entry.shares = shares /\ entry.profit = charge - sum
  BY <1>8
<1> QED
  BY <1>4, <1>6, <1>7, <1>9, <1>10 DEF Realizes

(* What Post does, apart from the transaction's end. *)
Posted(w, row, status, entry) ==
  /\ status \in {"matched", "approved"}
  /\ GoodRow(request[w], row, status)
  /\ Writes(w, row)
  /\ entry \in LedgerEntry
  /\ ledger' = Append(ledger, entry)
  /\ pools' = Credited(entry)

ByDecision(r, status) == status = "approved" <=> IsDecision(r)

LEMMA PostFacts ==
  ASSUME IInv, NEW w \in Workers, Post(w), NEW r, r = request[w]
  PROVE  \E row, status, entry :
           /\ Posted(w, row, status, entry)
           /\ Realizes(r, ChargeOf(In(r.ref)'), entry)
           /\ ByDecision(r, status)
PROOF
<1>1. Attached(w)
  BY DEF Post, Posts
<1>2. r \in Request /\ r = request[w]
  BY <1>1, Undecided
<1>3. PICK charge : charge = ChargeOf({p \in Payments : BatchOfAfter(w)[p] = r.ref})
  OBVIOUS
<1>4. batchOf' = BatchOfAfter(w)
  BY DEF Post
<1>5. {p \in Payments : BatchOfAfter(w)[p] = r.ref} = In(r.ref)'
  BY <1>2, <1>4 DEF In
<1>6. charge = ChargeOf(In(r.ref)')
  BY <1>3, <1>5
<1>7. charge \in Nat
  BY <1>3, ChargeIsNat
<1>8. ~ Unpostable(r)
  BY <1>2 DEF Post
<1>9. Realizes(r, charge, Entry(r, charge))
  BY <1>2, <1>7, <1>8, EntryRealizes
<1>10. ~ InLedger(r.ref)
  BY <1>1, <1>2, Undecided
<1>11. ledger' = Append(ledger, Entry(r, charge)) /\ pools' = Credited(Entry(r, charge))
  BY <1>2, <1>3, <1>10 DEF Post
<1>12. Realizes(r, ChargeOf(In(r.ref)'), Entry(r, charge))
  BY <1>6, <1>9, Zenon
<1>13. IsVariance(r) \in BOOLEAN
  BY DEF IsVariance
<1>14. CASE IsVariance(r)
  <2>1. IsDecision(r)
    BY <1>2, <1>14 DEF Post, Posts, IsDecision
  <2>2. GoodRow(r, Decided(r, "approved"), "approved")
    BY <1>1, <1>2, <2>1, DecidedRow
  <2>3. Writes(w, Decided(r, "approved"))
    BY <1>1, <1>2, <1>14 DEF Post, Writes
  <2>4. Posted(w, Decided(r, "approved"), "approved", Entry(r, charge))
    BY <1>2, <1>9, <1>11, <2>2, <2>3 DEF Posted, Realizes
  <2>5. ByDecision(r, "approved")
    BY <2>1 DEF ByDecision
  <2> QED
    BY <1>2, <1>12, <2>4, <2>5, Zenon
<1>15. CASE ~ IsVariance(r)
  <2>1. ~ IsDecision(r)
    BY <1>15 DEF IsDecision
  <2>2. GoodRow(r, NewRow(r, "matched"), "matched")
    BY <1>2, <1>15, InsertedRow
  <2>3. Writes(w, NewRow(r, "matched"))
    BY <1>1, <1>2, <1>15 DEF Post, Writes
  <2>4. Posted(w, NewRow(r, "matched"), "matched", Entry(r, charge))
    BY <1>2, <1>9, <1>11, <2>2, <2>3 DEF Posted, Realizes
  <2>5. ByDecision(r, "matched")
    BY <2>1 DEF ByDecision
  <2> QED
    BY <1>2, <1>12, <2>4, <2>5, Zenon
<1> QED
  BY <1>13, <1>14, <1>15

(* The ledger grows by the entry. *)
LEMMA LedgerGrows ==
  ASSUME IInv, NEW entry \in LedgerEntry, ledger' = Append(ledger, entry)
  PROVE  /\ ledger' \in Seq(LedgerEntry)
         /\ Len(ledger) \in Nat /\ Len(ledger') = Len(ledger) + 1
         /\ ledger'[Len(ledger) + 1] = entry
         /\ \A n \in 1..Len(ledger) : ledger'[n] = ledger[n]
         /\ \A ref : InLedger(ref)' <=> InLedger(ref) \/ ref = entry.ref
PROOF
<1>1. ledger \in Seq(LedgerEntry)
  BY DEF IInv, TypeOK
<1>2. PICK n \in Nat : n = Len(ledger)
  BY <1>1
<1>3. /\ ledger' \in Seq(LedgerEntry) /\ Len(ledger') = n + 1
      /\ ledger'[n + 1] = entry
      /\ \A m \in 1..n : ledger'[m] = ledger[m]
  BY <1>1, <1>2
<1>4. ASSUME NEW ref PROVE InLedger(ref)' <=> InLedger(ref) \/ ref = entry.ref
  <2>1. 1..(n + 1) = 1..n \cup {n + 1}
    OBVIOUS
  <2> QED
    BY <1>2, <1>3, <2>1, Zenon DEF InLedger
<1> QED
  BY <1>2, <1>3, <1>4

LEMMA PoolsGrow ==
  ASSUME IInv, NEW entry \in LedgerEntry, ledger' = Append(ledger, entry),
         pools' = Credited(entry)
  PROVE  PoolsOk' /\ pools' \in [Branches -> [Pools -> Nat]]
PROOF
<1>1. pools \in [Branches -> [Pools -> Nat]] /\ ledger \in Seq(LedgerEntry)
  BY DEF IInv, TypeOK
<1>2. entry.branch \in Branches /\ entry.shares \in [Pools -> Nat]
  BY DEF LedgerEntry
<1>3. ASSUME NEW b \in Branches, NEW k \in Pools
      PROVE  pools'[b][k] = pools[b][k] +
                              (IF entry.branch = b THEN entry.shares[k] ELSE 0)
  <2>1. pools[b][k] \in Nat
    BY <1>1
  <2> QED
    BY <1>1, <1>2, <2>1 DEF Credited
<1>4. pools' \in [Branches -> [Pools -> Nat]]
  <2>1. PICK new : new = [k \in Pools |-> pools[entry.branch][k] + entry.shares[k]]
    OBVIOUS
  <2>2. new \in [Pools -> Nat]
    BY <1>1, <1>2, <2>1
  <2> QED
    BY <1>1, <1>2, <2>1, <2>2 DEF Credited
<1>5. ASSUME NEW b \in Branches, NEW k \in Pools
      PROVE  pools'[b][k] = Total(Credits(b, k)')
  <2>1. PICK n \in Nat : n = Len(ledger)
    BY <1>1
  <2>2. PICK f : f = Credits(b, k)
    OBVIOUS
  <2>3. PICK x : x = IF entry.branch = b THEN entry.shares[k] ELSE 0
    OBVIOUS
  <2>4. x \in Int
    BY <1>2, <2>3
  <2>5. ASSUME NEW m \in 1..n PROVE ledger[m].shares[k] \in Int
    <3>1. ledger[m] \in LedgerEntry
      BY <1>1, <2>1
    <3>2. ledger[m].shares \in [Pools -> Nat]
      BY <3>1 DEF LedgerEntry
    <3> QED
      BY <3>2
  <2>6. f = [m \in 1..n |-> IF ledger[m].branch = b THEN ledger[m].shares[k] ELSE 0]
    BY <2>1, <2>2 DEF Credits
  <2>7. f \in [1..n -> Int]
    BY <2>5, <2>6
  <2>8. f \in Seq(Int) /\ Len(f) = n
    BY <2>1, <2>6, <2>7
  <2>9. Credits(b, k)' =
          [m \in 1..(n + 1) |->
             IF ledger'[m].branch = b THEN ledger'[m].shares[k] ELSE 0]
    BY <2>1, LedgerGrows DEF Credits
  <2>10. /\ \A m \in 1..n : ledger'[m] = ledger[m]
         /\ ledger'[n + 1] = entry
    BY <2>1, LedgerGrows
  <2>11. Append(f, x) = [m \in 1..(n + 1) |-> IF m = n + 1 THEN x ELSE f[m]]
    <3>1. PICK g : g = Append(f, x)
      OBVIOUS
    <3>2. g \in Seq(Int) /\ Len(g) = n + 1
      BY <2>4, <2>8, <3>1
    <3>3. \A m \in 1..(n + 1) : g[m] = IF m = n + 1 THEN x ELSE f[m]
      BY <2>4, <2>8, <3>1
    <3>4. g = [m \in 1..(n + 1) |-> g[m]]
      BY <3>2
    <3> QED
      BY <3>1, <3>3, <3>4
  <2>12. ASSUME NEW m \in 1..(n + 1)
         PROVE  (IF ledger'[m].branch = b THEN ledger'[m].shares[k] ELSE 0)
                  = IF m = n + 1 THEN x ELSE f[m]
    <3>1. m = n + 1 \/ m \in 1..n
      OBVIOUS
    <3>2. m \in 1..n => m # n + 1
      OBVIOUS
    <3> QED
      BY <2>3, <2>6, <2>10, <3>1, <3>2, Zenon
  <2>13. Credits(b, k)' = Append(f, x)
    BY <2>9, <2>11, <2>12, Zenon
  <2>14. Total(Append(f, x)) = Total(f) + x
    BY <2>4, <2>8, TotalOfAppend
  <2>15. pools[b][k] = Total(f)
    BY <2>2 DEF IInv, TablesOk, PoolsOk
  <2>16. pools'[b][k] = Total(f) + x
    BY <1>3, <2>3, <2>15
  <2> QED
    BY <2>13, <2>14, <2>16
<1>6. PoolsOk'
  BY <1>5 DEF PoolsOk
<1> QED
  BY <1>4, <1>6

LEMMA PostKeeps ==
  ASSUME IInv, NEW w \in Workers, Post(w)
  PROVE  IInv'
PROOF
<1>1. PICK r \in Request : r = request[w]
  BY Undecided DEF Post, Posts
<1>2. PICK row, status, entry :
        /\ Posted(w, row, status, entry)
        /\ Realizes(r, ChargeOf(In(r.ref)'), entry)
  BY <1>1, PostFacts
<1>3. PICK ref \in References : ref = r.ref
  BY Requested
<1>4. /\ status \in {"matched", "approved"}
      /\ row \in BatchRow /\ Reviewed(row) /\ row.status = status
      /\ row.branch = r.branch /\ row.recorded = r.recorded
  BY <1>1, <1>2 DEF Posted, GoodRow
<1>5. /\ Writes(w, row) /\ entry \in LedgerEntry
      /\ ledger' = Append(ledger, entry) /\ pools' = Credited(entry)
  BY <1>2 DEF Posted
<1>6. batch'[ref] = row /\ row # None
  BY <1>1, <1>3, <1>4, <1>5, WritesCommit, Nobody
<1>7. PICK S : S = In(ref)'
  OBVIOUS
<1>8. /\ entry.ref = ref /\ entry.branch = r.branch /\ entry.cash = r.recorded
      /\ entry.charge = ChargeOf(S)
      /\ entry.charge = SumOfPools(entry.shares) + entry.profit
  <2>1. Realizes(r, ChargeOf(S), entry)
    BY <1>1, <1>2, <1>3, <1>7, Zenon
  <2> QED
    BY <1>3, <2>1, Zenon DEF Realizes
<1>9. RowOk(ref)'
  <2>1. Accepted(ref)'
    BY <1>4, <1>6 DEF Accepted
  <2>2. InLedger(ref)'
    BY <1>5, <1>8, LedgerGrows
  <2>3. Reviewed(batch[ref])'
    BY <1>4, <1>6 DEF Reviewed, IsVariance, VarianceOf
  <2> QED
    BY <1>6, <2>1, <2>2, <2>3 DEF RowOk
<1>10. ASSUME NEW other \in References PROVE RowOk(other)'
  <2>1. other # ref => (InLedger(other)' <=> InLedger(other))
    BY <1>5, <1>8, LedgerGrows
  <2> QED
    BY <1>1, <1>3, <1>4, <1>5, <1>9, <2>1, OldRows
<1>11. PICK n \in Nat : n = Len(ledger)
  BY <1>5, LedgerGrows
<1>12. EntryOk(n + 1)'
  <2>1. ledger'[n + 1] = entry
    BY <1>5, <1>11, LedgerGrows
  <2>2. ChargeOf(In(ledger[n + 1].ref))' = ChargeOf(S)
    BY <1>7, <1>8, <2>1
  <2> QED
    BY <1>4, <1>6, <1>8, <2>1, <2>2 DEF EntryOk
<1>13. ASSUME NEW m \in 1..Len(ledger') PROVE EntryOk(m)'
  <2>1. Len(ledger') = n + 1
    BY <1>5, <1>11, LedgerGrows
  <2>2. CASE m = n + 1
    BY <1>12, <2>2
  <2>3. CASE m # n + 1
    <3>1. m \in 1..Len(ledger)
      BY <1>11, <2>1, <2>3
    <3>2. ledger'[m] = ledger[m]
      BY <1>5, <3>1, LedgerGrows
    <3> QED
      BY <1>4, <1>5, <3>1, <3>2, OldEntries
  <2> QED
    BY <2>2, <2>3
<1>14. PoolsOk' /\ pools' \in [Branches -> [Pools -> Nat]]
  BY <1>5, PoolsGrow
<1>15. TablesOk'
  BY <1>10, <1>13, <1>14 DEF TablesOk
<1>16. ledger' \in Seq(LedgerEntry)
  BY <1>5, LedgerGrows
<1>17. TypeOK' /\ \A v \in Workers : AtWork(v)'
  BY <1>4, <1>5, <1>14, <1>16, WritesKeep
<1> QED
  BY <1>15, <1>17 DEF IInv

-----------------------------------------------------------------------------
(* The other steps, and the invariant. *)

LEMMA FailKeeps ==
  ASSUME IInv, NEW w \in Workers, Fail(w)
  PROVE  IInv'
PROOF
<1>1. cycle' \subseteq cycle
  BY DEF Fail
<1> QED
  BY <1>1, EndKeeps DEF Fail

LEMMA ServeKeeps ==
  ASSUME IInv, NEW w \in Workers, Serve(w)
  PROVE  IInv'
PROOF
<1>1. ASSUME PostingRefused(w) PROVE IInv'
  BY <1>1, FailKeeps DEF PostingRefused
<1> QED
  BY <1>1, SelectKeeps, InsertKeeps, InsertTakenKeeps, CheckKeeps, AttachKeeps,
     HoldKeeps, RejectKeeps, PostKeeps DEF Serve

(* Payments that come in, and a cycle that starts, touch no worker. *)
LEMMA JobKeeps ==
  ASSUME IInv, (\E p \in Payments : Book(p)) \/ StartCycle
  PROVE  IInv'
PROOF
<1>1. UNCHANGED <<batch, batchOf, ledger, pools, rowLock, claim, pc, request, todo>>
  BY DEF Book, StartCycle, tables, handlers
<1>2. booked' \subseteq Payments
  BY DEF IInv, TypeOK, Book, StartCycle, tables
<1>3. cycle' \subseteq [branch : Branches, payments : SUBSET Payments]
  <2>1. \A b : Candidates(b) \in SUBSET Payments
    BY DEF Candidates, IInv, TypeOK
  <2>2. StartCycle => cycle' \subseteq [branch : Branches, payments : SUBSET Payments]
    BY <2>1 DEF StartCycle
  <2> QED
    BY <2>2 DEF IInv, TypeOK, Book, handlers
<1>4. TypeOK'
  BY <1>1, <1>2, <1>3 DEF IInv, TypeOK
<1>5. ASSUME NEW v \in Workers PROVE AtWork(v)'
  <2>1. Untouched(v)
    BY <1>1 DEF Untouched
  <2> QED
    BY <1>1, <2>1, OthersAtWork
<1> QED
  BY <1>1, <1>4, <1>5, TablesStay DEF IInv

LEMMA StutterKeeps == IInv /\ UNCHANGED vars => IInv'
PROOF
<1> SUFFICES ASSUME IInv, UNCHANGED vars PROVE IInv'
  OBVIOUS
<1>1. UNCHANGED <<booked, batch, batchOf, ledger, pools, rowLock, claim, pc,
                  request, todo, cycle>>
  BY DEF vars, tables, handlers
<1>2. TypeOK'
  BY <1>1 DEF IInv, TypeOK
<1>3. ASSUME NEW v \in Workers PROVE AtWork(v)'
  <2>1. Untouched(v)
    BY <1>1 DEF Untouched
  <2> QED
    BY <1>1, <2>1, OthersAtWork
<1> QED
  BY <1>1, <1>2, <1>3, TablesStay DEF IInv

LEMMA NextKeeps == IInv /\ [Next]_vars => IInv'
PROOF
<1> SUFFICES ASSUME IInv, [Next]_vars PROVE IInv'
  OBVIOUS
<1>1. CASE \E h \in Handlers, r \in Requests : Begin(h, r)
  BY <1>1, BeginKeeps
<1>2. ASSUME NEW w \in Workers, Serve(w) \/ Abort(w) \/ BreakDeadlock(w)
      PROVE  IInv'
  BY <1>2, ServeKeeps, FailKeeps DEF Abort, BreakDeadlock
<1>3. CASE (\E p \in Payments : Book(p)) \/ StartCycle
  BY <1>3, JobKeeps
<1>4. CASE \E group \in cycle, e \in ExpectedAmounts : NextBatch(group, e)
  BY <1>4, NextBatchKeeps
<1>5. CASE UNCHANGED vars
  BY <1>5, StutterKeeps
<1> QED
  BY <1>1, <1>2, <1>3, <1>4, <1>5 DEF Next

(* The inductive invariant: the tables agree with each other, and what a   *)
(* worker has read and inserted stays true while it holds its row.         *)
THEOREM ReconciliationInvariant == Spec => []IInv
PROOF
  BY InitIInv, NextKeeps, PTL DEF Spec

(* Tables and handlers hold values of their types: no pool and no retained *)
(* profit goes below zero.                                                 *)
THEOREM ReconciliationTyped == Spec => []TypeOK
PROOF
<1>1. IInv => TypeOK
  BY DEF IInv
<1> QED
  BY <1>1, ReconciliationInvariant, PTL

(* Rows are locked and payments claimed by workers at work only, and who   *)
(* has decided what to write holds the row it decided on.                  *)
THEOREM DecisionsHoldTheirRow == Spec => []LocksHeld
PROOF
<1>1. IInv => LocksHeld
  BY DEF IInv, AtWork, Grounded, LocksHeld
<1> QED
  BY <1>1, ReconciliationInvariant, PTL

(* A batch is matched or approved exactly when its transaction is in the   *)
(* ledger, with its branch and its cash.                                   *)
THEOREM LedgerAgreesWithBatches == Spec => []LedgerTellsBatches
PROOF
<1>1. IInv => LedgerTellsBatches
  BY DEF IInv, TablesOk, RowOk, EntryOk, LedgerTellsBatches
<1> QED
  BY <1>1, ReconciliationInvariant, PTL

(* What was realized for a batch is the charge of the payments in it; it   *)
(* went to the pools and the profit to the last unit, and the pools hold   *)
(* nothing else.                                                           *)
THEOREM ChargesAreRealizedOnce == Spec => []ChargesRealizedOnce
PROOF
<1>1. IInv => ChargesRealizedOnce
  <2> SUFFICES ASSUME IInv PROVE ChargesRealizedOnce
    OBVIOUS
  <2>1. \A n \in 1..Len(ledger) :
          /\ ledger[n].charge = ChargeOf(In(ledger[n].ref))
          /\ ledger[n].charge = SumOfPools(ledger[n].shares) + ledger[n].profit
    BY DEF IInv, TablesOk, EntryOk
  <2>2. \A b \in Branches, k \in Pools : pools[b][k] = Total(Credits(b, k))
    BY DEF IInv, TablesOk, PoolsOk
  <2> QED
    BY <2>1, <2>2, Zenon DEF ChargesRealizedOnce, Credits
<1> QED
  BY <1>1, ReconciliationInvariant, PTL

(* A batch with a variance is decided by somebody else than its submitter, *)
(* and only such a batch is.                                               *)
THEOREM DecisionsTakeTwo == Spec => []TwoPeople
PROOF
<1>1. IInv => TwoPeople
  BY DEF IInv, TablesOk, RowOk, Reviewed, TwoPeople
<1> QED
  BY <1>1, ReconciliationInvariant, PTL

-----------------------------------------------------------------------------
(* The cash of the batches. *)

(* A request whose batch may be posted without a further decision. *)
MayPost(r) == ~ IsVariance(r) \/ r.decision = "approve"

(* Payments are attached for posting only after their amounts were found   *)
(* to add up to what was recorded.                                         *)
Checked ==
  \A w \in Workers :
    pc[w] = "attach" /\ MayPost(request[w])
      => AmountOf(request[w].payments) = request[w].recorded

(* The cash an entry moved covers the payments of its batch; if a second   *)
(* person decided the batch, it is exactly theirs.                         *)
CashOk(n) ==
  LET e == ledger[n]
  IN  /\ AmountOf(In(e.ref)) <= e.cash
      /\ batch[e.ref].status = "approved" => e.cash = AmountOf(In(e.ref))

CashCoversBatches == \A n \in 1..Len(ledger) : CashOk(n)

(* More payments amount to more. *)
LEMMA AmountGrows ==
  ASSUME NEW T \in SUBSET Payments, NEW S \in SUBSET T
  PROVE  AmountOf(S) <= AmountOf(T)
PROOF
<1> DEFINE f(U) == [p \in Payments |-> IF p \in U THEN Facts[p].amount ELSE 0]
<1>1. \A U \in SUBSET Payments :
        /\ AmountOf(U) = Total(f(U)) /\ AmountOf(U) \in Nat
        /\ f(U) \in Seq(Int) /\ Len(f(U)) = Len(Facts)
        /\ \A p \in 1..Len(Facts) :
             f(U)[p] = IF p \in U THEN Facts[p].amount ELSE 0
  <2> SUFFICES ASSUME NEW U \in SUBSET Payments
               PROVE  /\ AmountOf(U) = Total(f(U)) /\ AmountOf(U) \in Nat
                      /\ f(U) \in Seq(Int) /\ Len(f(U)) = Len(Facts)
                      /\ \A p \in 1..Len(Facts) :
                           f(U)[p] = IF p \in U THEN Facts[p].amount ELSE 0
    OBVIOUS
  <2>1. AmountOf(U) = Total(f(U)) /\ AmountOf(U) \in Nat
    BY AmountIsNat DEF AmountOf
  <2>2. PICK n \in Nat : n = Len(Facts)
    BY FactsAssumption
  <2>3. f(U) = [p \in 1..n |-> IF p \in U THEN Facts[p].amount ELSE 0]
    BY <2>2 DEF Payments
  <2>4. \A p \in 1..n : (IF p \in U THEN Facts[p].amount ELSE 0) \in Int
    BY <2>2, FactsOf DEF Payments
  <2>5. PICK g : g = f(U)
    OBVIOUS
  <2>6. g \in [1..n -> Int]
    BY <2>3, <2>4, <2>5
  <2>7. g \in Seq(Int) /\ Len(g) = n
    BY <2>3, <2>5, <2>6
  <2> QED
    BY <2>1, <2>2, <2>3, <2>5, <2>7
<1>2. PICK rest \in SUBSET Payments : rest = T \ S
  OBVIOUS
<1>3. S \in SUBSET Payments
  OBVIOUS
<1>4. ASSUME NEW p \in 1..Len(Facts)
      PROVE  f(T)[p] = f(S)[p] + f(rest)[p]
  <2>1. p \in Payments /\ Facts[p].amount \in Nat
    BY <1>4, FactsOf DEF Payments
  <2>2. /\ f(T)[p] = IF p \in T THEN Facts[p].amount ELSE 0
        /\ f(S)[p] = IF p \in S THEN Facts[p].amount ELSE 0
        /\ f(rest)[p] = IF p \in rest THEN Facts[p].amount ELSE 0
    BY <1>1, <1>2, <1>3
  <2> QED
    BY <1>2, <2>1, <2>2
<1> HIDE DEF f
<1>5. Total(f(T)) = Total(f(S)) + Total(f(rest))
  <2>1. PICK h : h = f(T)
    OBVIOUS
  <2>2. PICK g : g = f(S)
    OBVIOUS
  <2>3. PICK k : k = f(rest)
    OBVIOUS
  <2>4. /\ h \in Seq(Int) /\ g \in Seq(Int) /\ k \in Seq(Int)
        /\ Len(h) = Len(g) /\ Len(k) = Len(g) /\ Len(g) = Len(Facts)
    BY <1>1, <1>2, <1>3, <2>1, <2>2, <2>3
  <2>5. \A p \in 1..Len(g) : h[p] = g[p] + k[p]
    BY <1>4, <2>1, <2>2, <2>3, <2>4
  <2>6. Total(h) = Total(g) + Total(k)
    BY <2>4, <2>5, TotalOfSums
  <2> QED
    BY <2>1, <2>2, <2>3, <2>6
<1> QED
  BY <1>1, <1>2, <1>3, <1>5

LEMMA OthersChecked ==
  ASSUME Checked, NEW w \in Workers,
         \A v \in Workers \ {w} : pc'[v] = pc[v] /\ request'[v] = request[v],
         pc'[w] = "attach" /\ MayPost(request'[w])
           => AmountOf(request'[w].payments) = request'[w].recorded
  PROVE  Checked'
PROOF
  BY DEF Checked, MayPost, IsVariance, VarianceOf

LEMMA EndChecked ==
  ASSUME IInv, Checked, NEW w \in Workers, End(w)
  PROVE  Checked'
PROOF
<1>1. pc'[w] = "idle" /\ \A v \in Workers \ {w} : Untouched(v)
  BY EndFacts DEF End, IInv, TypeOK
<1> QED
  BY <1>1, OthersChecked DEF Untouched

LEMMA GoToChecked ==
  ASSUME IInv, Checked, NEW w \in Workers, NEW step, GoTo(w, step),
         step = "attach" /\ MayPost(request[w])
           => AmountOf(request[w].payments) = request[w].recorded
  PROVE  Checked'
PROOF
<1>1. /\ pc' = [pc EXCEPT ![w] = step] /\ request' = request
      /\ DOMAIN pc = Workers
  BY DEF GoTo, IInv, TypeOK
<1>2. pc'[w] = step /\ \A v \in Workers \ {w} : pc'[v] = pc[v]
  BY <1>1
<1> QED
  BY <1>1, <1>2, OthersChecked

LEMMA CheckedStays ==
  ASSUME Checked, UNCHANGED <<pc, request>>
  PROVE  Checked'
PROOF
  BY DEF Checked, MayPost, IsVariance, VarianceOf

(* The quarantine attaches without a check, but what it holds it does not  *)
(* post.                                                                   *)
LEMMA ServeChecked ==
  ASSUME IInv, Checked, NEW w \in Workers, Serve(w)
  PROVE  Checked'
PROOF
<1>1. ASSUME Fail(w) \/ Replay(w) PROVE Checked'
  BY <1>1, EndChecked DEF Fail, Replay
<1>2. ASSUME Resume(w) PROVE Checked'
  <2>1. Fail(w) \/ Replay(w) \/ GoTo(w, "check")
    BY <1>2 DEF Resume
  <2> QED
    BY <1>1, <2>1, GoToChecked
<1>3. ASSUME SelectNone(w) PROVE Checked'
  <2>1. Fail(w) \/ GoTo(w, "insert")
    BY <1>3 DEF SelectNone
  <2> QED
    BY <1>1, <2>1, GoToChecked
<1>4. ASSUME SelectRow(w) \/ InsertTaken(w) PROVE Checked'
  BY <1>1, <1>2, <1>4 DEF SelectRow, InsertTaken
<1>5. ASSUME Insert(w) PROVE Checked'
  <2>1. AtWork(w) /\ pc[w] = "insert"
    BY <1>5 DEF IInv, Insert
  <2>2. ~ IsDecision(request[w])
    BY <2>1 DEF AtWork
  <2>3. Quarantines(w) => ~ MayPost(request[w])
    BY <2>2 DEF Quarantines, MayPost, IsDecision
  <2>4. \/ Quarantines(w) /\ GoTo(w, "attach")
        \/ GoTo(w, "check")
    BY <1>5 DEF Insert
  <2> QED
    BY <2>3, <2>4, GoToChecked
<1>6. ASSUME Check(w) PROVE Checked'
  <2>1. Fail(w) \/ (~ Unfit(request[w]) /\ GoTo(w, "attach"))
    BY <1>6 DEF Check
  <2>2. ~ Unfit(request[w]) /\ MayPost(request[w])
          => AmountOf(request[w].payments) = request[w].recorded
    BY DEF Unfit, MayPost
  <2> QED
    BY <1>1, <2>1, <2>2, GoToChecked
<1>7. ASSUME NEW p \in Payments, Attach(w, p) PROVE Checked'
  <2>1. Fail(w) \/ UNCHANGED <<pc, request>>
    BY <1>7 DEF Attach
  <2> QED
    BY <1>1, <2>1, CheckedStays
<1>8. ASSUME Hold(w) \/ Reject(w) \/ PostingRefused(w) \/ Post(w) PROVE Checked'
  BY <1>1, <1>8, EndChecked DEF Hold, Reject, PostingRefused, Post
<1> QED
  BY <1>3, <1>4, <1>5, <1>6, <1>7, <1>8 DEF Serve

LEMMA StepChecked == IInv /\ Checked /\ [Next]_vars => Checked'
PROOF
<1> SUFFICES ASSUME IInv, Checked, [Next]_vars PROVE Checked'
  OBVIOUS
<1>1. ASSUME NEW h \in Handlers, NEW r \in Requests, Begin(h, r) PROVE Checked'
  <2>1. /\ h \in Workers
        /\ pc' = [pc EXCEPT ![h] = "select"] /\ DOMAIN pc = Workers
        /\ request' = [request EXCEPT ![h] = r] /\ DOMAIN request = Workers
    BY <1>1 DEF Begin, Workers, IInv, TypeOK
  <2> QED
    BY <2>1, OthersChecked
<1>2. ASSUME NEW w \in Workers, Serve(w) \/ Abort(w) \/ BreakDeadlock(w)
      PROVE  Checked'
  BY <1>2, ServeChecked, EndChecked DEF Abort, BreakDeadlock, Fail
<1>3. ASSUME NEW group \in cycle, NEW e \in ExpectedAmounts, NextBatch(group, e)
      PROVE  Checked'
  <2>1. PICK r : r = AutoRequest(group, e)
    OBVIOUS
  <2>2. /\ pc' = [pc EXCEPT ![Job] = IF IsVariance(r) THEN "insert" ELSE "select"]
        /\ request' = [request EXCEPT ![Job] = r]
        /\ DOMAIN pc = Workers /\ DOMAIN request = Workers /\ Job \in Workers
    BY <1>3, <2>1 DEF NextBatch, IInv, TypeOK, Workers
  <2>3. /\ pc'[Job] # "attach"
        /\ \A v \in Workers \ {Job} : pc'[v] = pc[v] /\ request'[v] = request[v]
    BY <2>2
  <2> QED
    BY <2>2, <2>3, OthersChecked
<1>4. ASSUME (\E p \in Payments : Book(p)) \/ StartCycle \/ UNCHANGED vars
      PROVE  Checked'
  BY <1>4, CheckedStays DEF Book, StartCycle, vars, handlers
<1> QED
  BY <1>1, <1>2, <1>3, <1>4 DEF Next

(* What a commit puts into its batch are payments its request names, all   *)
(* of them if it is a decision.                                            *)
LEMMA PutsIn ==
  ASSUME IInv, NEW w \in Workers, NEW row \in BatchRow, Writes(w, row),
         NEW r, r = request[w]
  PROVE  /\ In(r.ref)' \subseteq r.payments
         /\ IsDecision(r) => In(r.ref)' = r.payments
PROOF
<1>1. /\ r \in Request
      /\ IsDecision(r) => Held(r)
      /\ ~ IsDecision(r) => batch[r.ref] = None
  BY Undecided DEF Writes
<1>2. PICK ref \in References : ref = r.ref
  BY <1>1, Requested
<1>3. /\ IsDecision(r) => In(ref) = r.payments
      /\ ~ IsDecision(r) => In(ref) = {}
  BY <1>1, <1>2 DEF Held, IInv, TablesOk, RowOk
<1>4. IsDecision(r) \in BOOLEAN
  BY DEF IsDecision
<1>5. \A p \in Payments : claim[p] = w => p \in r.payments /\ batchOf[p] = None
  BY DEF IInv, AtWork
<1>6. \A p \in Payments :
        batchOf'[p] = IF claim[p] = w THEN ref ELSE batchOf[p]
  BY <1>2 DEF Writes, BatchOfAfter
<1>7. ref # None
  BY Nobody
<1>8. In(ref)' = In(ref) \cup {p \in Payments : claim[p] = w}
  BY <1>5, <1>6, <1>7 DEF In
<1>9. \A p \in In(ref) : claim[p] # w
  BY <1>5, <1>7 DEF In
<1>10. r.payments \subseteq Payments
  BY <1>1, Requested
<1>11. IsDecision(r) => In(ref)' = r.payments
  <2> SUFFICES ASSUME IsDecision(r) PROVE In(ref)' = r.payments
    OBVIOUS
  <2> QED
    BY <1>3, <1>5, <1>8
<1>12. In(ref)' \subseteq r.payments
  <2>1. In(ref) \subseteq r.payments
    BY <1>3, <1>4
  <2> QED
    BY <1>5, <1>8, <2>1
<1> QED
  BY <1>2, <1>11, <1>12

(* A commit leaves alone what is in the ledger. *)
LEMMA OldCash ==
  ASSUME IInv, NEW w \in Workers, NEW row \in BatchRow, Writes(w, row),
         NEW n \in 1..Len(ledger), ledger'[n] = ledger[n], CashOk(n)
  PROVE  CashOk(n)'
PROOF
<1>1. Commits(w)
  BY WritesCommit
<1>2. ~ InLedger(request[w].ref)
  BY Undecided DEF Writes
<1>3. ledger \in Seq(LedgerEntry)
  BY DEF IInv, TypeOK
<1>4. PICK e : e = ledger[n]
  OBVIOUS
<1>5. e \in LedgerEntry
  BY <1>3, <1>4
<1>6. PICK ref \in References : ref = e.ref
  BY <1>5 DEF LedgerEntry
<1>7. ref # request[w].ref
  BY <1>2, <1>4, <1>6 DEF InLedger
<1>8. batch'[ref] = batch[ref]
  BY <1>1, <1>6, <1>7 DEF Commits
<1>9. In(ref)' = In(ref)
  BY <1>1, <1>6, <1>7, BatchAfterCommit
<1>10. PICK S : S = In(ref)
  OBVIOUS
<1>11. PICK amount : amount = AmountOf(S)
  OBVIOUS
<1>12. amount <= e.cash /\ (batch[ref].status = "approved" => e.cash = amount)
  BY <1>4, <1>6, <1>10, <1>11 DEF CashOk
<1>13. AmountOf(In(ref))' = amount
  BY <1>9, <1>10, <1>11 DEF AmountOf
<1> QED
  BY <1>4, <1>6, <1>8, <1>12, <1>13 DEF CashOk

LEMMA PostCovers ==
  ASSUME IInv, Checked, CashCoversBatches, NEW w \in Workers, Post(w)
  PROVE  CashCoversBatches'
PROOF
<1>1. PICK r \in Request : r = request[w]
  BY Undecided DEF Post, Posts
<1>2. PICK row, status, entry :
        /\ Posted(w, row, status, entry)
        /\ Realizes(r, ChargeOf(In(r.ref)'), entry)
        /\ ByDecision(r, status)
  BY <1>1, PostFacts
<1>3. /\ entry \in LedgerEntry /\ ledger' = Append(ledger, entry)
      /\ row \in BatchRow /\ row.status = status /\ Writes(w, row)
  BY <1>2 DEF Posted, GoodRow
<1>4. entry.ref = r.ref /\ entry.cash = r.recorded
  BY <1>2 DEF Realizes
<1>5. PICK ref \in References : ref = r.ref
  BY Requested
<1>6. batch'[ref].status = status
  BY <1>1, <1>3, <1>5, WritesCommit
<1>7. PICK T \in SUBSET Payments : T = r.payments
  BY Requested
<1>8. PICK S : S = In(ref)'
  OBVIOUS
<1>9. S \subseteq T /\ (IsDecision(r) => S = T)
  BY <1>1, <1>3, <1>5, <1>7, <1>8, PutsIn
<1>10. AmountOf(T) = r.recorded
  <2>1. pc[w] = "attach" /\ MayPost(r)
    BY <1>1 DEF Post, Posts, Attached, MayPost
  <2> QED
    BY <1>1, <1>7, <2>1 DEF Checked
<1>11. AmountOf(S) <= r.recorded
  BY <1>9, <1>10, AmountGrows
<1>12. status = "approved" => r.recorded = AmountOf(S)
  BY <1>2, <1>9, <1>10 DEF ByDecision
<1>13. AmountOf(In(ref))' = AmountOf(S)
  BY <1>8 DEF AmountOf
<1>14. PICK m \in Nat : m = Len(ledger)
  BY LedgerGrows, <1>3
<1>15. /\ Len(ledger') = m + 1 /\ ledger'[m + 1] = entry
       /\ \A n \in 1..m : ledger'[n] = ledger[n]
  BY <1>3, <1>14, LedgerGrows
<1>16. CashOk(m + 1)'
  BY <1>4, <1>5, <1>6, <1>11, <1>12, <1>13, <1>15 DEF CashOk
<1>17. ASSUME NEW n \in 1..m PROVE CashOk(n)'
  BY <1>3, <1>14, <1>15, <1>17, OldCash DEF CashCoversBatches
<1>18. 1..(m + 1) = 1..m \cup {m + 1}
  OBVIOUS
<1> QED
  BY <1>15, <1>16, <1>17, <1>18 DEF CashCoversBatches

LEMMA CashStays ==
  ASSUME CashCoversBatches, UNCHANGED <<batch, batchOf, ledger>>
  PROVE  CashCoversBatches'
PROOF
  BY DEF CashCoversBatches, CashOk, In, AmountOf

(* Only Post adds to the ledger. *)
LEMMA StepCovers ==
  IInv /\ Checked /\ CashCoversBatches /\ [Next]_vars => CashCoversBatches'
PROOF
<1> SUFFICES ASSUME IInv, Checked, CashCoversBatches, [Next]_vars
             PROVE  CashCoversBatches'
  OBVIOUS
<1>1. ASSUME NEW w \in Workers, NEW row \in BatchRow, Writes(w, row),
             UNCHANGED ledger
      PROVE  CashCoversBatches'
  BY <1>1, OldCash DEF CashCoversBatches
<1>2. ASSUME NEW w \in Workers, Hold(w) PROVE CashCoversBatches'
  <2>1. PICK r \in Request : r = request[w]
    BY <1>2, Undecided DEF Hold
  <2>2. NewRow(r, "variance") \in BatchRow
    BY <1>2, <2>1, InsertedRow DEF Hold, GoodRow
  <2>3. Writes(w, NewRow(r, "variance"))
    BY <1>2, <2>1 DEF Hold, Writes
  <2> QED
    BY <1>1, <1>2, <2>2, <2>3 DEF Hold
<1>3. ASSUME NEW w \in Workers, Reject(w) PROVE CashCoversBatches'
  <2>1. PICK r : r = request[w]
    OBVIOUS
  <2>2. Decided(r, "rejected") \in BatchRow
    BY <1>3, <2>1, DecidedRow DEF Reject, GoodRow
  <2>3. Writes(w, Decided(r, "rejected"))
    BY <1>3, <2>1 DEF Reject, Writes
  <2> QED
    BY <1>1, <1>3, <2>2, <2>3 DEF Reject
<1>4. ASSUME NEW w \in Workers, Serve(w), ~ Hold(w), ~ Reject(w), ~ Post(w)
      PROVE  UNCHANGED <<batch, batchOf, ledger>>
  BY <1>4 DEF Serve, SelectNone, SelectRow, Insert, InsertTaken, Resume, Check,
              Attach, PostingRefused, Fail, Replay, GoTo, tables
<1>5. ASSUME NEW w \in Workers, Abort(w) \/ BreakDeadlock(w)
      PROVE  UNCHANGED <<batch, batchOf, ledger>>
  BY <1>5 DEF Abort, BreakDeadlock, Fail, tables
<1>6. ASSUME \/ \E h \in Handlers, r \in Requests : Begin(h, r)
             \/ \E p \in Payments : Book(p)
             \/ StartCycle
             \/ \E group \in cycle, e \in ExpectedAmounts : NextBatch(group, e)
             \/ UNCHANGED vars
      PROVE  UNCHANGED <<batch, batchOf, ledger>>
  BY <1>6 DEF Begin, Book, StartCycle, NextBatch, vars, tables
<1> QED
  BY <1>2, <1>3, <1>4, <1>5, <1>6, PostCovers, CashStays DEF Next

(* CashTellsPayments fails one way only: a batch may have moved more cash  *)
(* than its payments, never less, so no payment is in a posted batch       *)
(* without its cash; and a batch that a second person decided has moved    *)
(* exactly theirs.                                                         *)
THEOREM CashCoversPayments == Spec => []CashCoversBatches
PROOF
<1>1. Init => Checked /\ CashCoversBatches
  BY DEF Init, Checked, CashCoversBatches
<1>2. IInv /\ (Checked /\ CashCoversBatches) /\ [Next]_vars
        => (Checked /\ CashCoversBatches)'
  BY StepChecked, StepCovers
<1> QED
  BY <1>1, <1>2, ReconciliationInvariant, PTL DEF Spec

-----------------------------------------------------------------------------
(* The promise of BatchReview. *)

(* What a row, or none, tells the finance team. *)
Told(b) ==
  IF b = None THEN "none"
  ELSE IF b.status \in {"matched", "approved"} THEN "accepted"
  ELSE IF b.status = "variance" THEN "held" ELSE "rejected"

LEMMA VerdictIsTold ==
  ASSUME NEW ref \in References
  PROVE  Verdict(ref) = Told(batch[ref]) /\ Verdict(ref)' = Told(batch'[ref])
PROOF
  BY DEF Verdict, Told, Accepted

LEMMA VerdictsAfter ==
  ASSUME IInv, NEW w \in Workers, NEW row, NEW status,
         GoodRow(request[w], row, status), Writes(w, row),
         NEW ref, ref = request[w].ref
  PROVE  /\ ref \in References
         /\ Verdicts' = [Verdicts EXCEPT ![ref] = Told(row)]
PROOF
<1>1. request[w] \in Request
  BY Undecided DEF Writes
<1>2. ref \in References
  BY <1>1, Requested
<1>3. /\ batch'[ref] = row
      /\ \A other \in References \ {ref} : batch'[other] = batch[other]
  BY WritesCommit DEF GoodRow, Commits
<1>4. Verdicts = [other \in References |-> Told(batch[other])]
  BY VerdictIsTold DEF Verdicts
<1>5. Verdicts' = [other \in References |-> Told(batch'[other])]
  BY VerdictIsTold DEF Verdicts
<1> QED
  BY <1>2, <1>3, <1>4, <1>5

LEMMA RealizedGrows ==
  ASSUME IInv, NEW entry \in LedgerEntry, ledger' = Append(ledger, entry)
  PROVE  Realized' = Realized + entry.charge
PROOF
<1>1. ledger \in Seq(LedgerEntry)
  BY DEF IInv, TypeOK
<1>2. PICK n \in Nat : n = Len(ledger)
  BY <1>1
<1>3. PICK f : f = [m \in 1..n |-> ledger[m].charge]
  OBVIOUS
<1>4. PICK x \in Int : x = entry.charge
  BY DEF LedgerEntry
<1>5. ASSUME NEW m \in 1..n PROVE ledger[m].charge \in Int
  <2>1. ledger[m] \in LedgerEntry
    BY <1>1, <1>2
  <2> QED
    BY <2>1 DEF LedgerEntry
<1>6. f \in Seq(Int) /\ Len(f) = n
  <2>1. f \in [1..n -> Int]
    BY <1>3, <1>5
  <2> QED
    BY <1>3, <2>1
<1>7. Realized' = Total([m \in 1..(n + 1) |-> ledger'[m].charge])
  BY <1>2, LedgerGrows DEF Realized
<1>8. /\ \A m \in 1..n : ledger'[m] = ledger[m]
      /\ ledger'[n + 1] = entry
  BY <1>2, LedgerGrows
<1>9. PICK g : g = Append(f, x)
  OBVIOUS
<1>10. g = [m \in 1..(n + 1) |-> IF m = n + 1 THEN x ELSE f[m]]
  <2>1. g \in Seq(Int) /\ Len(g) = n + 1
    BY <1>6, <1>9
  <2>2. \A m \in 1..(n + 1) : g[m] = IF m = n + 1 THEN x ELSE f[m]
    BY <1>6, <1>9
  <2>3. g = [m \in 1..(n + 1) |-> g[m]]
    BY <2>1
  <2> QED
    BY <2>2, <2>3
<1>11. ASSUME NEW m \in 1..(n + 1)
       PROVE  ledger'[m].charge = IF m = n + 1 THEN x ELSE f[m]
  <2>1. m = n + 1 \/ m \in 1..n
    OBVIOUS
  <2>2. m \in 1..n => m # n + 1
    OBVIOUS
  <2> QED
    BY <1>3, <1>4, <1>8, <2>1, <2>2, Zenon
<1>12. [m \in 1..(n + 1) |-> ledger'[m].charge] = g
  BY <1>10, <1>11, Zenon
<1>13. Total(g) = Total(f) + x
  BY <1>6, <1>9, TotalOfAppend
<1>14. Realized = Total(f)
  BY <1>2, <1>3 DEF Realized
<1> QED
  BY <1>4, <1>7, <1>12, <1>13, <1>14

(* A new batch takes the payments its worker has claimed. *)
LEMMA TakesNew ==
  ASSUME IInv, NEW w \in Workers, Attached(w), batchOf' = BatchOfAfter(w),
         ~ IsDecision(request[w]), NEW ref, ref = request[w].ref,
         NEW S \in SUBSET Payments, S = {p \in Payments : claim[p] = w}
  PROVE  Review!Take(ref, S) /\ {p \in Payments : batchOf'[p] = ref} = S
PROOF
<1>1. /\ request[w] \in Request /\ batch[ref] = None
  BY Undecided
<1>2. ref \in References /\ ref # None
  BY <1>1, Requested, Nobody
<1>3. Verdicts[ref] = "none"
  BY <1>1, <1>2, VerdictIsTold DEF Verdicts, Told
<1>4. \A p \in S : batchOf[p] = None
  BY DEF IInv, AtWork
<1>5. batchOf' = [p \in Payments |-> IF p \in S THEN ref ELSE batchOf[p]]
  BY DEF BatchOfAfter
<1>6. \A p \in Payments : batchOf[p] # ref
  BY <1>1, <1>2 DEF IInv, TablesOk, RowOk, In
<1> QED
  BY <1>3, <1>4, <1>5, <1>6 DEF Review!Take

(* A decision finds the payments in place. *)
LEMMA TakesNothing ==
  ASSUME IInv, NEW w \in Workers, Attached(w), IsDecision(request[w]),
         batchOf' = BatchOfAfter(w), NEW ref, ref = request[w].ref
  PROVE  batchOf' = batchOf /\ ref \in References /\ Verdicts[ref] = "held"
PROOF
<1>1. PICK r \in Request : r = request[w]
  BY Undecided
<1>2. Held(r) /\ ref \in References /\ ref # None
  BY <1>1, Undecided, Requested, Nobody
<1>3. \A p \in Payments : claim[p] = w => p \in r.payments /\ batchOf[p] = None
  BY <1>1 DEF IInv, AtWork
<1>4. \A p \in r.payments : batchOf[p] = ref
  BY <1>1, <1>2 DEF Held, In
<1>5. \A p \in Payments : claim[p] # w
  BY <1>2, <1>3, <1>4
<1>6. batchOf \in [Payments -> References \cup {None}]
  BY DEF IInv, TypeOK
<1>7. batchOf' = batchOf
  BY <1>5, <1>6 DEF BatchOfAfter
<1>8. Verdicts[ref] = "held"
  BY <1>1, <1>2, VerdictIsTold DEF Verdicts, Told, Held
<1> QED
  BY <1>2, <1>7, <1>8

LEMMA HoldHolds ==
  ASSUME IInv, NEW w \in Workers, Hold(w)
  PROVE  Review!Next
PROOF
<1>1. PICK r \in Request : r = request[w]
  BY Undecided DEF Hold
<1>2. PICK row : row = NewRow(r, "variance")
  OBVIOUS
<1>3. GoodRow(r, row, "variance")
  BY <1>1, <1>2, InsertedRow DEF Hold
<1>4. Writes(w, row) /\ ~ IsDecision(r)
  BY <1>1, <1>2 DEF Hold, Writes
<1>5. PICK ref : ref = r.ref
  OBVIOUS
<1>6. PICK S \in SUBSET Payments : S = {p \in Payments : claim[p] = w}
  OBVIOUS
<1>7. Review!Take(ref, S)
  <2>1. Attached(w) /\ batchOf' = BatchOfAfter(w)
    BY DEF Hold
  <2> QED
    BY <1>1, <1>4, <1>5, <1>6, <2>1, TakesNew
<1>8. ref \in References /\ Verdicts' = [Verdicts EXCEPT ![ref] = Told(row)]
  BY <1>1, <1>3, <1>4, <1>5, VerdictsAfter
<1>9. Told(row) = "held"
  BY <1>3, Nobody DEF GoodRow, Told
<1>10. Realized' = Realized
  BY DEF Hold, Realized
<1>11. Review!Hold(ref, S)
  BY <1>7, <1>8, <1>9, <1>10 DEF Review!Hold
<1> QED
  BY <1>8, <1>11 DEF Review!Next

LEMMA RejectRejects ==
  ASSUME IInv, NEW w \in Workers, Reject(w)
  PROVE  Review!Next
PROOF
<1>1. PICK r : r = request[w]
  OBVIOUS
<1>2. PICK row : row = Decided(r, "rejected")
  OBVIOUS
<1>3. GoodRow(r, row, "rejected")
  BY <1>1, <1>2, DecidedRow DEF Reject
<1>4. Writes(w, row)
  BY <1>1, <1>2 DEF Reject, Writes
<1>5. PICK ref : ref = r.ref
  OBVIOUS
<1>6. batchOf' = batchOf /\ Verdicts[ref] = "held"
  BY <1>1, <1>5, TakesNothing DEF Reject
<1>7. ref \in References /\ Verdicts' = [Verdicts EXCEPT ![ref] = Told(row)]
  BY <1>1, <1>3, <1>4, <1>5, VerdictsAfter
<1>8. Told(row) = "rejected"
  BY <1>3, Nobody DEF GoodRow, Told
<1>9. Realized' = Realized
  BY DEF Reject, Realized
<1>10. Review!Reject(ref)
  BY <1>6, <1>7, <1>8, <1>9 DEF Review!Reject
<1> QED
  BY <1>7, <1>10 DEF Review!Next

LEMMA PostAccepts ==
  ASSUME IInv, NEW w \in Workers, Post(w)
  PROVE  Review!Next
PROOF
<1>1. PICK r \in Request : r = request[w]
  BY Undecided DEF Post, Posts
<1>2. PICK row, status, entry :
        /\ Posted(w, row, status, entry)
        /\ Realizes(r, ChargeOf(In(r.ref)'), entry)
        /\ ByDecision(r, status)
  BY <1>1, PostFacts
<1>3. /\ GoodRow(r, row, status) /\ Writes(w, row) /\ entry \in LedgerEntry
      /\ ledger' = Append(ledger, entry) /\ status \in {"matched", "approved"}
  BY <1>1, <1>2 DEF Posted
<1>4. PICK ref : ref = r.ref
  OBVIOUS
<1>5. ref \in References /\ Verdicts' = [Verdicts EXCEPT ![ref] = Told(row)]
  BY <1>1, <1>3, <1>4, VerdictsAfter
<1>6. Told(row) = "accepted"
  BY <1>3, Nobody DEF GoodRow, Told
<1>7. PICK T \in SUBSET Payments : T = {p \in Payments : batchOf'[p] = ref}
  OBVIOUS
<1>8. entry.charge = ChargeOf(T)
  <2>1. In(ref)' = T
    BY <1>7 DEF In
  <2>2. Realizes(r, ChargeOf(T), entry)
    BY <1>2, <1>4, <2>1, Zenon
  <2> QED
    BY <2>2, Zenon DEF Realizes
<1>9. Realized' = Realized + Charge[T]
  BY <1>3, <1>7, <1>8, RealizedGrows DEF Charge
<1>10. CASE IsDecision(r)
  <2>1. batchOf' = batchOf /\ Verdicts[ref] = "held"
    BY <1>1, <1>3, <1>4, <1>10, TakesNothing DEF Writes
  <2>2. Review!In(ref) = T
    BY <1>7, <2>1 DEF Review!In
  <2>3. Review!Approve(ref)
    BY <1>5, <1>6, <1>9, <2>1, <2>2 DEF Review!Approve
  <2> QED
    BY <1>5, <2>3 DEF Review!Next
<1>11. CASE ~ IsDecision(r)
  <2>1. PICK S \in SUBSET Payments : S = {p \in Payments : claim[p] = w}
    OBVIOUS
  <2>2. Review!Take(ref, S) /\ T = S
    <3>1. Attached(w) /\ batchOf' = BatchOfAfter(w)
      BY <1>3 DEF Writes
    <3> QED
      BY <1>1, <1>4, <1>7, <1>11, <2>1, <3>1, TakesNew
  <2>3. Review!Accept(ref, S)
    BY <1>5, <1>6, <1>9, <2>2 DEF Review!Accept
  <2> QED
    BY <1>5, <2>1, <2>3 DEF Review!Next
<1> QED
  BY <1>10, <1>11 DEF IsDecision, IsVariance

LEMMA ReviewStays ==
  ASSUME UNCHANGED <<batch, batchOf, ledger>>
  PROVE  UNCHANGED Review!vars
PROOF
<1>1. Verdicts' = Verdicts
  BY VerdictIsTold DEF Verdicts
<1>2. Realized' = Realized
  BY DEF Realized
<1> QED
  BY <1>1, <1>2 DEF Review!vars

LEMMA InitImplementsReview == Init => Review!Init
PROOF
<1> SUFFICES ASSUME Init PROVE Review!Init
  OBVIOUS
<1>1. Verdicts = [ref \in References |-> "none"]
  BY VerdictIsTold DEF Init, Verdicts, Told
<1>2. Realized = 0
  <2>1. PICK f : f = [n \in 1..Len(ledger) |-> ledger[n].charge]
    OBVIOUS
  <2>2. f \in Seq(Int) /\ Len(f) = 0
    BY <2>1 DEF Init
  <2>3. Total(f) = 0
    BY <2>2, RunningTotalsEquation DEF Total
  <2> QED
    BY <2>1, <2>3 DEF Realized
<1>3. batchOf = [p \in Payments |-> None]
  BY DEF Init
<1> QED
  BY <1>1, <1>2, <1>3 DEF Review!Init

LEMMA StepImplementsReview ==
  IInv /\ [Next]_vars => [Review!Next]_(Review!vars)
PROOF
<1> SUFFICES ASSUME IInv, [Next]_vars
             PROVE  Review!Next \/ UNCHANGED Review!vars
  OBVIOUS
<1>1. ASSUME NEW w \in Workers, Hold(w) \/ Reject(w) \/ Post(w)
      PROVE  Review!Next
  BY <1>1, HoldHolds, RejectRejects, PostAccepts
<1>2. ASSUME NEW w \in Workers, Fail(w) \/ Replay(w)
      PROVE  UNCHANGED <<batch, batchOf, ledger>>
  BY <1>2 DEF Fail, Replay, tables
<1>3. ASSUME NEW w \in Workers, Resume(w)
      PROVE  UNCHANGED <<batch, batchOf, ledger>>
  BY <1>2, <1>3 DEF Resume, GoTo, tables
<1>4. ASSUME NEW w \in Workers,
             \/ SelectNone(w) \/ SelectRow(w) \/ Insert(w) \/ InsertTaken(w)
             \/ Check(w) \/ (\E p \in Payments : Attach(w, p))
             \/ PostingRefused(w) \/ Abort(w) \/ BreakDeadlock(w)
      PROVE  UNCHANGED <<batch, batchOf, ledger>>
  BY <1>2, <1>3, <1>4
  DEF SelectNone, SelectRow, Insert, InsertTaken, Check, Attach,
      PostingRefused, Abort, BreakDeadlock, GoTo, tables
<1>5. ASSUME \/ \E h \in Handlers, r \in Requests : Begin(h, r)
             \/ \E p \in Payments : Book(p)
             \/ StartCycle
             \/ \E group \in cycle, e \in ExpectedAmounts : NextBatch(group, e)
             \/ UNCHANGED vars
      PROVE  UNCHANGED <<batch, batchOf, ledger>>
  BY <1>5 DEF Begin, Book, StartCycle, NextBatch, tables, vars
<1> QED
  BY <1>1, <1>4, <1>5, ReviewStays DEF Next, Serve

(* Whatever submissions, decisions, retries and job cycles overlap, a      *)
(* payment is in one batch for good, a held batch is decided as it was     *)
(* submitted, a decision stands, and charges are realized at acceptance.   *)
THEOREM ReconciliationImplementsReview == Spec => ImplementsReview
PROOF
  BY ReconciliationInvariant, InitImplementsReview, StepImplementsReview, PTL
  DEF Spec, ImplementsReview, Review!Spec
=============================================================================
