----------------------- MODULE ReconciliationPosting -----------------------
(***************************************************************************)
(* Batches of payments that managers reconcile with the cash handed in     *)
(* (reconciliation-posting.ts), and the scheduled job that reconciles or   *)
(* quarantines what nobody has (reconciliationCron.ts), over the tables of *)
(* the database.                                                           *)
(*                                                                         *)
(* As in LoanServicing a handler is one transaction: what it writes is     *)
(* invisible to others until one step installs all of it, and what it has  *)
(* inserted makes others wait where a unique key would collide.  A batch   *)
(* reference is such a key, and so is a payment's place in a batch.  What  *)
(* is read without a lock is read in a step of its own.  The job is a      *)
(* handler that takes its requests from its own list of candidates.  All   *)
(* of it happens on one day: the job has one reference for each branch.    *)
(***************************************************************************)
EXTENDS Summation, FiniteSets

CONSTANTS
  Facts,           \* payments as posted: branch, amount, penalty, interest
  Branches,
  References,      \* batch references
  Handlers,        \* server requests in progress
  Job,             \* the handler of the scheduled job
  Staff,           \* managers and admins
  Requests,        \* what they may send to POST /reconciliations/post-batch
  JobActor,        \* the user the job acts for
  JobPolicy,       \* the allocation policy the job asks for
  AutoReference,   \* the reference of the job's batch for each branch
  ExpectedAmounts, \* what a branch's schedule may expect to be collected
  Rates,           \* the allocation policies: basis points of each pool
  Funded,          \* the branches that have all four pools
  None             \* an absent value

Payments == 1..Len(Facts)
Policies == DOMAIN Rates
Pools    == {"credit_loss_reserve", "operating_reserve", "collection", "growth"}
Workers  == Handlers \cup {Job}

BasisPoints == 10000

SumOfPools(s) ==
  s["credit_loss_reserve"] + s["operating_reserve"] + s["collection"] + s["growth"]

Request ==
  [ref : References, branch : Branches, actor : Staff, expected : Nat,
   recorded : Nat, submitted : Nat, payments : SUBSET Payments,
   policy : STRING, decision : {"none", "approve", "reject"},
   entitled : BOOLEAN]

Terminal == {"matched", "approved", "rejected"}

BatchRow ==
  [branch : Branches, expected : Nat, recorded : Nat, submitted : Nat,
   status : Terminal \cup {"variance"}, submitter : Staff,
   reviewer : Staff \cup {None}]

ASSUME FactsAssumption ==
  /\ Facts \in Seq([branch : Branches, amount : Nat, penalty : Nat, interest : Nat])
  /\ \A p \in Payments :
       Facts[p].amount > 0
         /\ Facts[p].penalty + Facts[p].interest <= Facts[p].amount

ASSUME ReconciliationAssumption ==
  /\ Job \notin Handlers /\ None \notin Workers /\ None \notin References
  /\ None \notin Staff \cup BatchRow /\ JobActor \in Staff
  /\ Requests \subseteq Request
  /\ AutoReference \in [Branches -> References]
  /\ ExpectedAmounts \subseteq Nat
  /\ Policies \subseteq STRING /\ JobPolicy \in STRING

ASSUME RatesAssumption ==
  \A v \in Policies :
    Rates[v] \in [Pools -> 0..BasisPoints] /\ SumOfPools(Rates[v]) <= BasisPoints

VARIABLES
  booked,   \* payments that have been posted
  batch,    \* reconciliations
  batchOf,  \* reconciliation_payments: payment_id is unique
  ledger,   \* ledger_transactions of batches, with their ledger_entries
  pools,    \* capital_pools
  rowLock,  \* who holds or is inserting the row of each reference
  claim,    \* who has inserted each payment's place without committing yet
  pc,       \* what each handler does next
  request,  \* the request it serves
  todo,     \* the payments it has still to insert
  cycle     \* the batches the job's cycle has still to go through

tables   == <<booked, batch, batchOf, ledger, pools>>
handlers == <<rowLock, claim, pc, request, todo, cycle>>
vars     == <<tables, handlers>>

-----------------------------------------------------------------------------
(* reconciliation.ts and allocation.ts. *)

VarianceOf(r) ==
  IF r.submitted # r.recorded THEN r.submitted - r.recorded
                              ELSE r.submitted - r.expected

IsVariance(r) == ~ (VarianceOf(r) = 0 /\ r.recorded = r.expected)

(* A decision that comes with a batch whose amounts agree is ignored.      *)
IsDecision(r) == IsVariance(r) /\ r.decision # "none"

AmountOf(S) ==
  Total([p \in Payments |-> IF p \in S THEN Facts[p].amount ELSE 0])

(* realizedChargeFromComponents on the totals of the payments.             *)
ChargeOf(S) ==
  Total([p \in Payments |->
           IF p \in S THEN Facts[p].penalty + Facts[p].interest ELSE 0])

(* Seeded fault: shares are rounded up.                                    *)
SharesRoundedUp(charge, policy) ==
  [k \in Pools |-> (charge * Rates[policy][k] + BasisPoints - 1) \div BasisPoints]

(* Each pool's share of the realized charge is rounded down; what is left  *)
(* over is profit.                                                         *)
Shares(charge, policy) ==
  [k \in Pools |-> (charge * Rates[policy][k]) \div BasisPoints]

-----------------------------------------------------------------------------
(* Transactions. *)

In(ref) == {p \in Payments : batchOf[p] = ref}

Idle(w) == pc[w] = "idle"

(* The transaction of a worker ends, committed or rolled back.             *)
End(w) ==
  /\ pc' = [pc EXCEPT ![w] = "idle"]
  /\ todo' = [todo EXCEPT ![w] = {}]
  /\ rowLock' = [ref \in References |-> IF rowLock[ref] = w THEN None ELSE rowLock[ref]]
  /\ claim' = [p \in Payments |-> IF claim[p] = w THEN None ELSE claim[p]]
  /\ request' = [request EXCEPT ![w] = None]

(* It is rolled back; if it was the job's, the error ends the cycle.       *)
Fail(w) ==
  /\ End(w)
  /\ cycle' = IF w = Job THEN {} ELSE cycle
  /\ UNCHANGED tables

(* It answers from what others have committed.                             *)
Replay(w) ==
  /\ End(w)
  /\ UNCHANGED <<tables, cycle>>

GoTo(w, step) ==
  /\ pc' = [pc EXCEPT ![w] = step]
  /\ UNCHANGED <<tables, claim, request, cycle>>

(* Seeded fault: the row is read without FOR UPDATE.                       *)
ReadRow(w) == UNCHANGED rowLock

TakeRow(w) == rowLock' = [rowLock EXCEPT ![request[w].ref] = w]

-----------------------------------------------------------------------------
(* postReconciliationBatch. *)

Begin(h, r) ==
  /\ Idle(h)
  /\ IsDecision(r) => r.entitled
  /\ pc' = [pc EXCEPT ![h] = "select"]
  /\ request' = [request EXCEPT ![h] = r]
  /\ UNCHANGED <<tables, rowLock, claim, todo, cycle>>

(* sameFacts: the reference was used before with the same amounts.         *)
SameFacts(r, b) ==
  /\ b.branch = r.branch
  /\ b.expected = r.expected /\ b.recorded = r.recorded
  /\ b.submitted = r.submitted

(* Seeded fault: the set of payments is not compared.                      *)
RefusedBySubmitterOnly(r, b) ==
  \/ ~ SameFacts(r, b)
  \/ b.status \notin Terminal /\ IsDecision(r) /\ b.submitter = r.actor

(* Seeded fault: the submitter may decide.                                 *)
RefusedBySetOnly(r, b) ==
  \/ ~ SameFacts(r, b)
  \/ b.status \notin Terminal /\ IsDecision(r) /\ In(r.ref) # r.payments

(* RECONCILIATION_BATCH_STALE, RECONCILIATION_SELF_APPROVAL and            *)
(* RECONCILIATION_PAYMENT_SET_MISMATCH.                                    *)
Refused(r, b) ==
  \/ ~ SameFacts(r, b)
  \/ /\ b.status \notin Terminal /\ IsDecision(r)
     /\ b.submitter = r.actor \/ In(r.ref) # r.payments

(* Nothing to do: the batch is decided, or held and this is no decision.   *)
Settled(r, b) == b.status \in Terminal \/ ~ IsDecision(r)

(* The row of a batch others have committed is found and locked.           *)
Resume(w) ==
  LET r == request[w]
      b == batch[r.ref]
  IN
  \/ Refused(r, b) /\ Fail(w)
  \/ ~ Refused(r, b) /\ Settled(r, b) /\ Replay(w)
  \/ ~ Refused(r, b) /\ ~ Settled(r, b)
       /\ TakeRow(w) /\ GoTo(w, "check") /\ UNCHANGED todo

(* A batch that is being inserted is not seen, and not waited for.         *)
SelectNone(w) ==
  /\ pc[w] = "select" /\ batch[request[w].ref] = None
  /\ \/ IsDecision(request[w]) /\ Fail(w)
     \/ ~ IsDecision(request[w])
          /\ GoTo(w, "insert") /\ UNCHANGED <<rowLock, todo>>

SelectRow(w) ==
  /\ pc[w] = "select" /\ batch[request[w].ref] # None
  /\ rowLock[request[w].ref] = None
  /\ Resume(w)

(* The job's batches with a variance are inserted without looking first.   *)
Quarantines(w) == w = Job /\ IsVariance(request[w])

Insert(w) ==
  /\ pc[w] = "insert"
  /\ rowLock[request[w].ref] = None /\ batch[request[w].ref] = None
  /\ TakeRow(w)
  /\ IF Quarantines(w)
     THEN /\ GoTo(w, "attach")
          /\ todo' = [todo EXCEPT ![w] = request[w].payments]
     ELSE GoTo(w, "check") /\ UNCHANGED todo

(* The unique key of the reference is taken: back to the savepoint and on  *)
(* with the row that took it; the quarantine has no savepoint.             *)
InsertTaken(w) ==
  /\ pc[w] = "insert"
  /\ rowLock[request[w].ref] = None /\ batch[request[w].ref] # None
  /\ IF Quarantines(w) THEN Fail(w) ELSE Resume(w)

(* RECONCILIATION_PAYMENT_INVALID, RECORDED_AMOUNT_MISMATCH,               *)
(* PAYMENT_ALREADY_RECONCILED and NO_PAYMENTS.                             *)
Unfit(r) ==
  \/ \E p \in r.payments : p \notin booked \/ Facts[p].branch # r.branch
  \/ r.payments # {} /\ AmountOf(r.payments) # r.recorded
  \/ \E p \in r.payments : batchOf[p] \notin {None, r.ref}
  \/ r.payments = {} /\ ~ (IsVariance(r) /\ r.decision = "reject")

(* The payments are read without a lock.                                   *)
Check(w) ==
  /\ pc[w] = "check"
  /\ \/ Unfit(request[w]) /\ Fail(w)
     \/ /\ ~ Unfit(request[w])
        /\ GoTo(w, "attach")
        /\ todo' = [todo EXCEPT ![w] = request[w].payments]
        /\ UNCHANGED rowLock

(* INSERT INTO reconciliation_payments: waits for whoever has inserted the *)
(* payment, and then does nothing if it was committed (ON CONFLICT DO      *)
(* NOTHING); the quarantine's fails.  Which payment is next is left open.  *)
Attach(w, p) ==
  /\ pc[w] = "attach" /\ p \in todo[w]
  /\ claim[p] = None
  /\ IF batchOf[p] # None /\ Quarantines(w)
     THEN Fail(w)
     ELSE /\ claim' = IF batchOf[p] = None THEN [claim EXCEPT ![p] = w] ELSE claim
          /\ todo' = [todo EXCEPT ![w] = @ \ {p}]
          /\ UNCHANGED <<tables, rowLock, pc, request, cycle>>

Attached(w) == pc[w] = "attach" /\ todo[w] = {}

(* What reconciliation_payments holds once the worker commits.             *)
BatchOfAfter(w) ==
  [p \in Payments |-> IF claim[p] = w THEN request[w].ref ELSE batchOf[p]]

(* Seeded fault: a batch is inserted as matched whatever its amounts.      *)
MatchedRow(r, status) ==
  [branch |-> r.branch, expected |-> r.expected, recorded |-> r.recorded,
   submitted |-> r.submitted, status |-> "matched", submitter |-> r.actor,
   reviewer |-> None]

NewRow(r, status) ==
  [branch |-> r.branch, expected |-> r.expected, recorded |-> r.recorded,
   submitted |-> r.submitted, status |-> status, submitter |-> r.actor,
   reviewer |-> None]

Decided(r, status) == [batch[r.ref] EXCEPT !.status = status, !.reviewer = r.actor]

(* A submission with a variance is held for review.                        *)
Hold(w) ==
  LET r == request[w] IN
  /\ Attached(w) /\ IsVariance(r) /\ ~ IsDecision(r)
  /\ batch' = [batch EXCEPT ![r.ref] = NewRow(r, "variance")]
  /\ batchOf' = BatchOfAfter(w)
  /\ End(w)
  /\ UNCHANGED <<booked, ledger, pools, cycle>>

Reject(w) ==
  LET r == request[w] IN
  /\ Attached(w) /\ IsDecision(r) /\ r.decision = "reject"
  /\ batch' = [batch EXCEPT ![r.ref] = Decided(r, "rejected")]
  /\ batchOf' = BatchOfAfter(w)
  /\ End(w)
  /\ UNCHANGED <<booked, ledger, pools, cycle>>

Posts(w) ==
  Attached(w) /\ (~ IsVariance(request[w]) \/ request[w].decision = "approve")

(* ALLOCATION_POLICY_NOT_FOUND and CAPITAL_POOLS_NOT_INITIALIZED.          *)
Unpostable(r) == r.policy \notin Policies \/ r.branch \notin Funded

PostingRefused(w) == Posts(w) /\ Unpostable(request[w]) /\ Fail(w)

(* Seeded fault: the charge is that of the payments the request names.     *)
EntryOfRequest(r, charge) ==
  LET shares == Shares(ChargeOf(r.payments), r.policy) IN
  [ref |-> r.ref, branch |-> r.branch, cash |-> r.recorded,
   charge |-> ChargeOf(r.payments), shares |-> shares,
   profit |-> ChargeOf(r.payments) - SumOfPools(shares)]

(* The ledger transaction: cash goes from manual to reconciled, the        *)
(* realized charge to the pools and the retained profit.                   *)
Entry(r, charge) ==
  LET shares == Shares(charge, r.policy) IN
  [ref |-> r.ref, branch |-> r.branch, cash |-> r.recorded, charge |-> charge,
   shares |-> shares, profit |-> charge - SumOfPools(shares)]

InLedger(ref) == \E n \in 1..Len(ledger) : ledger[n].ref = ref

(* The pools after the entry is posted.                                    *)
Credited(entry) ==
  [pools EXCEPT ![entry.branch] =
     [k \in Pools |-> pools[entry.branch][k] + entry.shares[k]]]

(* Approved or matched: the charge of the payments that are attached now   *)
(* is realized, unless the reference is in the ledger already.             *)
Post(w) ==
  LET r      == request[w]
      charge == ChargeOf({p \in Payments : BatchOfAfter(w)[p] = r.ref})
  IN
  /\ Posts(w) /\ ~ Unpostable(r)
  /\ batch' = [batch EXCEPT ![r.ref] =
                 IF IsVariance(r) THEN Decided(r, "approved") ELSE NewRow(r, "matched")]
  /\ batchOf' = BatchOfAfter(w)
  /\ IF InLedger(r.ref)
     THEN UNCHANGED <<ledger, pools>>
     ELSE /\ ledger' = Append(ledger, Entry(r, charge))
          /\ pools' = Credited(Entry(r, charge))
  /\ End(w)
  /\ UNCHANGED <<booked, cycle>>

(* The connection or the server fails before the commit.                   *)
Abort(w) == ~ Idle(w) /\ Fail(w)

WaitsFor(w, v) ==
  /\ pc[w] = "attach" /\ w # v
  /\ \E p \in todo[w] : claim[p] = v

(* PostgreSQL aborts one of the transactions that wait for each other.     *)
BreakDeadlock(w) ==
  /\ pc[w] = "attach" /\ todo[w] # {}
  /\ \E C \in SUBSET Workers :
       /\ w \in C
       /\ \A v \in C : /\ \E u \in C : WaitsFor(v, u)
                       /\ \E u \in C : WaitsFor(u, v)
  /\ Fail(w)

-----------------------------------------------------------------------------
(* The job, and the payments that come in meanwhile. *)

(* Payments are posted by another part of the system.                      *)
Book(p) ==
  /\ p \notin booked
  /\ booked' = booked \cup {p}
  /\ UNCHANGED <<batch, batchOf, ledger, pools, handlers>>

Candidates(b) == {p \in booked : batchOf[p] = None /\ Facts[p].branch = b}

(* The candidates of the cycle are read once, under the advisory lock that *)
(* keeps a second cycle away.                                              *)
StartCycle ==
  /\ Idle(Job) /\ cycle = {}
  /\ cycle' = {[branch |-> b, payments |-> Candidates(b)] :
                 b \in {c \in Branches : Candidates(c) # {}}}
  /\ UNCHANGED <<tables, rowLock, claim, pc, request, todo>>

(* One batch of the cycle: what its branch expects is read when its turn   *)
(* comes, what it submits is what is recorded.                             *)
AutoRequest(group, expected) ==
  [ref |-> AutoReference[group.branch], branch |-> group.branch,
   actor |-> JobActor, expected |-> expected,
   recorded |-> AmountOf(group.payments), submitted |-> AmountOf(group.payments),
   payments |-> group.payments, policy |-> JobPolicy, decision |-> "none",
   entitled |-> FALSE]

(* Seeded fault: the batch stays in the cycle.                             *)
NextBatchKept(group, expected) ==
  LET r == AutoRequest(group, expected) IN
  /\ Idle(Job)
  /\ request' = [request EXCEPT ![Job] = r]
  /\ pc' = [pc EXCEPT ![Job] = IF IsVariance(r) THEN "insert" ELSE "select"]
  /\ UNCHANGED <<tables, rowLock, claim, todo, cycle>>

NextBatch(group, expected) ==
  LET r == AutoRequest(group, expected) IN
  /\ Idle(Job)
  /\ cycle' = cycle \ {group}
  /\ request' = [request EXCEPT ![Job] = r]
  /\ pc' = [pc EXCEPT ![Job] = IF IsVariance(r) THEN "insert" ELSE "select"]
  /\ UNCHANGED <<tables, rowLock, claim, todo>>

-----------------------------------------------------------------------------
Init ==
  /\ booked = {}
  /\ batch = [ref \in References |-> None]
  /\ batchOf = [p \in Payments |-> None]
  /\ ledger = <<>>
  /\ pools = [b \in Branches |-> [k \in Pools |-> 0]]
  /\ rowLock = [ref \in References |-> None]
  /\ claim = [p \in Payments |-> None]
  /\ pc = [w \in Workers |-> "idle"]
  /\ request = [w \in Workers |-> None]
  /\ todo = [w \in Workers |-> {}]
  /\ cycle = {}

Serve(w) ==
  \/ SelectNone(w) \/ SelectRow(w) \/ Insert(w) \/ InsertTaken(w) \/ Check(w)
  \/ \E p \in Payments : Attach(w, p)
  \/ Hold(w) \/ Reject(w) \/ PostingRefused(w) \/ Post(w)

Next ==
  \/ \E h \in Handlers, r \in Requests : Begin(h, r)
  \/ \E w \in Workers : Serve(w) \/ Abort(w) \/ BreakDeadlock(w)
  \/ \E p \in Payments : Book(p)
  \/ StartCycle
  \/ \E group \in cycle, e \in ExpectedAmounts : NextBatch(group, e)

Spec == Init /\ [][Next]_vars

(* The database grants locks in turn and breaks deadlocks; a handler that  *)
(* can go on does, and the job goes through the batches of its cycle.      *)
Fairness ==
  /\ \A w \in Workers : SF_vars(Serve(w)) /\ WF_vars(BreakDeadlock(w))
  /\ WF_vars(\E group \in cycle, e \in ExpectedAmounts : NextBatch(group, e))

FairSpec == Spec /\ Fairness

-----------------------------------------------------------------------------
(* Properties. *)

LedgerEntry ==
  [ref : References, branch : Branches, cash : Nat, charge : Nat,
   shares : [Pools -> Nat], profit : Nat]

(* Tables and handlers hold values of their types; no pool and no profit   *)
(* goes below zero, although shares are rounded each on its own.           *)
TypeOK ==
  /\ booked \subseteq Payments
  /\ batch \in [References -> BatchRow \cup {None}]
  /\ batchOf \in [Payments -> References \cup {None}]
  /\ ledger \in Seq(LedgerEntry)
  /\ pools \in [Branches -> [Pools -> Nat]]
  /\ rowLock \in [References -> Workers \cup {None}]
  /\ claim \in [Payments -> Workers \cup {None}]
  /\ pc \in [Workers -> {"idle", "select", "insert", "check", "attach"}]
  /\ request \in [Workers -> Request \cup {None}]
  /\ todo \in [Workers -> SUBSET Payments]
  /\ cycle \subseteq [branch : Branches, payments : SUBSET Payments]

Accepted(ref) == batch[ref] # None /\ batch[ref].status \in {"matched", "approved"}

(* The row of a batch says matched from the moment it is inserted and is   *)
(* decided before the ledger is reached: still, in what others can see, a  *)
(* batch is matched or approved exactly when its transaction is in the     *)
(* ledger, with its branch and its cash.                                   *)
LedgerTellsBatches ==
  /\ \A ref \in References : Accepted(ref) <=> InLedger(ref)
  /\ \A n \in 1..Len(ledger) :
       /\ ledger[n].branch = batch[ledger[n].ref].branch
       /\ ledger[n].cash = batch[ledger[n].ref].recorded

(* The charge realized for a batch is that of the payments that are in it, *)
(* none of which is in another batch; it went to the pools and the profit  *)
(* to the last unit, and the pools hold nothing else.                      *)
ChargesRealizedOnce ==
  /\ \A n \in 1..Len(ledger) :
       /\ ledger[n].charge = ChargeOf(In(ledger[n].ref))
       /\ ledger[n].charge = SumOfPools(ledger[n].shares) + ledger[n].profit
  /\ \A b \in Branches, k \in Pools :
       pools[b][k] =
         Total([n \in 1..Len(ledger) |->
                  IF ledger[n].branch = b THEN ledger[n].shares[k] ELSE 0])

(* A batch whose amounts do not agree posts or is rejected only after      *)
(* somebody else than its submitter decided so, whoever won the race to    *)
(* insert it; one whose amounts agree needs nobody.                        *)
TwoPeople ==
  \A ref \in References :
    batch[ref] # None =>
      /\ IsVariance(batch[ref]) <=> batch[ref].status # "matched"
      /\ batch[ref].status \in {"approved", "rejected"}
           <=> batch[ref].reviewer # None
      /\ batch[ref].reviewer # batch[ref].submitter

(* Rows are locked and payments claimed by handlers at work only, and a    *)
(* handler that has decided what to write holds the row it decided on.     *)
LocksHeld ==
  \A w \in Workers :
    /\ pc[w] \in {"check", "attach"} => rowLock[request[w].ref] = w
    /\ \A ref \in References :
         rowLock[ref] = w => pc[w] \in {"check", "attach"} /\ request[w].ref = ref
    /\ \A p \in Payments : claim[p] = w =>
         /\ pc[w] = "attach" /\ p \in request[w].payments \ todo[w]
         /\ batchOf[p] = None

(* A cycle of the job ends, whoever holds or claims what its batches need. *)
CyclesEnd == cycle # {} ~> cycle = {} /\ Idle(Job)

(* What is promised to the finance team. *)

Verdict(ref) ==
  CASE batch[ref] = None               -> "none"
    [] batch[ref] # None /\ Accepted(ref) -> "accepted"
    [] batch[ref] # None /\ batch[ref].status = "variance" -> "held"
    [] OTHER                           -> "rejected"

Verdicts == [ref \in References |-> Verdict(ref)]
Realized == Total([n \in 1..Len(ledger) |-> ledger[n].charge])
Charge   == [S \in SUBSET Payments |-> ChargeOf(S)]

Review == INSTANCE BatchReview WITH Unclaimed <- None, verdict <- Verdicts,
                                    realized <- Realized

(* Whatever submissions, decisions, retries and job cycles overlap, a      *)
(* payment is in one batch for good, a held batch is decided as it was     *)
(* submitted, a decision stands, and charges are realized at acceptance.   *)
ImplementsReview == Review!Spec

-----------------------------------------------------------------------------
(* What the code says and does not do. *)

(* The cash a batch moved to reconciled is that of the payments in it.     *)
CashTellsPayments ==
  \A n \in 1..Len(ledger) :
    ledger[n].cash = AmountOf(In(ledger[n].ref))
=============================================================================
