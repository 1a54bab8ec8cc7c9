--------------------------- MODULE LoanServicing ---------------------------
(***************************************************************************)
(* The servicing of loans: payments posted by concurrent requests          *)
(* (payment-posting.ts), disbursements and manual or scheduled changes of  *)
(* a loan's status (lifecycle.ts), over the tables of the database.        *)
(*                                                                         *)
(* A request is served by a handler inside one database transaction.  What *)
(* a transaction writes is invisible before it commits, so a handler keeps *)
(* it to itself and one step installs all of it.  What it reads it reads   *)
(* in an earlier step, after taking the row lock of the loan, and uses     *)
(* later: the loan's status, the shares of the installments, the           *)
(* assignment of the collector.  Any request may be sent any number of     *)
(* times, so retries, duplicates and lost answers need no action.          *)
(***************************************************************************)
EXTENDS PaymentAllocation, FiniteSets

CONSTANTS
  Loans,            \* loan accounts
  Handlers,         \* server requests in progress
  Requests,         \* what clients may send to POST /api/v1/payments
  Clients,          \* borrowers
  Officers,         \* field staff an assignment may name
  DisbursementKeys, \* idempotency keys of disbursements
  StatusTargets,    \* statuses the status route and the overdue job ask for
  None,             \* an absent value
  BranchOf,         \* the branch of each loan
  ClientOf,         \* the borrower of each loan
  Principal,        \* principal_amount of each loan
  NewSchedule       \* the schedule each loan was approved with

LoanStatus ==
  {"approved", "disbursed", "active", "overdue", "defaulted", "written_off",
   "completed"}

(* The fields of a request.  capture stands for the facts of the capture   *)
(* that are only ever compared: device, time and method.                   *)
RequestFields ==
  {"key", "receipt", "loan", "branch", "client", "amount", "actor",
   "scoped", "localId", "capture"}

Fresh(i) ==
  /\ i \in Installment
  /\ i.status = "open"
  /\ i.principalPaid = 0 /\ i.penaltyPaid = 0
  /\ i.interestPaid = 0 /\ i.chargePaid = 0

ASSUME ServicingAssumption ==
  /\ None \notin Handlers
  /\ StatusTargets \subseteq LoanStatus \ {"approved", "disbursed"}
  /\ ClientOf \in [Loans -> Clients]
  /\ Principal \in [Loans -> Nat]
  /\ \A l \in Loans : Principal[l] > 0
  /\ DOMAIN NewSchedule = Loans
  /\ \A l \in Loans :
       /\ NewSchedule[l] \in Seq(Installment)
       /\ \A n \in 1..Len(NewSchedule[l]) : Fresh(NewSchedule[l][n])
       /\ Total([n \in 1..Len(NewSchedule[l]) |->
                   NewSchedule[l][n].principalDue]) = Principal[l]

ASSUME RequestAssumption ==
  \A r \in Requests :
    /\ DOMAIN r = RequestFields
    /\ r.loan \in Loans
    /\ r.amount \in Nat /\ r.amount > 0
    /\ r.scoped \in BOOLEAN
    /\ r.key # None

Branches == {BranchOf[l] : l \in Loans}
Keys     == {r.key : r \in Requests}
Amounts  == {r.amount : r \in Requests}

VARIABLES
  loan,          \* loans: status and outstanding_principal
  schedule,      \* repayment_schedules
  payments,      \* payments with their payment_installments, as inserted
  ledger,        \* ledger_transactions with their ledger_entries
  captures,      \* field_collection_records
  disbursements, \* loan_disbursements: the key that disbursed each loan
  assigned,      \* collector_assignments in effect today
  lock,          \* the handler holding the row lock of each loan
  pc,            \* what each handler does next
  request,       \* the request it serves
  seen,          \* the loan's status as the handler read it
  plan,          \* the allocation it computed from the schedule it read
  outcome        \* what it answered

tables   == <<loan, schedule, payments, ledger, captures, disbursements>>
handlers == <<pc, request, seen, plan, outcome>>
vars     == <<tables, assigned, lock, handlers>>

-----------------------------------------------------------------------------
(* state-machines.ts and the constants of payment-posting.ts. *)

loanTransitions ==
  [approved    |-> {"disbursed"},
   disbursed   |-> {"active"},
   active      |-> {"overdue", "completed"},
   overdue     |-> {"active", "defaulted", "completed"},
   defaulted   |-> {"written_off", "active"},
   written_off |-> {"completed"},
   completed   |-> {}]

PAYABLE_LOAN_STATUSES == {"active", "overdue", "disbursed", "defaulted"}

(* The accounts postings name.  Lines give each its debits minus its       *)
(* credits in one transaction.                                             *)
Accounts ==
  {"cash.manual", "loan.principal", "realized.penalty", "realized.interest",
   "overpayment.holding", "loan.receivable", "cash.disbursement"}

(* Seeded fault: the overpayment gets no line. *)
EntriesWithoutHolding(row) ==
  [a \in Accounts |->
     CASE a = "cash.manual"       -> row.amount
       [] a = "loan.principal"    -> -row.principal
       [] a = "realized.penalty"  -> -row.penalty
       [] a = "realized.interest" -> -row.interest
       [] OTHER                   -> 0]

PaymentEntries(row) ==
  [a \in Accounts |->
     CASE a = "cash.manual"         -> row.amount
       [] a = "loan.principal"      -> -row.principal
       [] a = "realized.penalty"    -> -row.penalty
       [] a = "realized.interest"   -> -row.interest
       [] a = "overpayment.holding" -> -row.overpayment
       [] OTHER                     -> 0]

DisbursementEntries(l) ==
  [a \in Accounts |->
     CASE a = "loan.receivable"   -> Principal[l]
       [] a = "cash.disbursement" -> -Principal[l]
       [] OTHER                   -> 0]

(* assertBalanced on the lines of a payment. *)
Balanced(row) ==
  row.amount = row.principal + row.penalty + row.interest + row.overpayment

(* postLedgerTransactionOnClient: a transaction whose idempotency key is   *)
(* already in the ledger is not posted again, and its lines are dropped.   *)
PostLedger(entry) ==
  IF \E n \in 1..Len(ledger) : ledger[n].key = entry.key
  THEN ledger
  ELSE Append(ledger, entry)

-----------------------------------------------------------------------------
(* What a handler looks up for its request. *)

(* Payments already committed under the request's idempotency key. *)
Recorded(r) == {n \in 1..Len(payments) : payments[n].key = r.key}

(* A row of field_collection_records for request r and payment n. *)
Capture(r, n) ==
  [localId |-> r.localId, key |-> r.key, payment |-> n, loan |-> r.loan,
   branch |-> r.branch, client |-> r.client, amount |-> r.amount,
   actor |-> r.actor, facts |-> r.capture]

(* sameCapture compares every column but the local id. *)
SameCapture(c, r, n) ==
  \A f \in {"key", "payment", "loan", "branch", "client", "amount", "actor",
            "facts"} :
    c[f] = Capture(r, n)[f]

(* Seeded fault: device records are looked up by payment key only. *)
CapturesOfKey(r) == {c \in captures : c.key = r.key}

(* The rows persistFieldCollectionSource finds. *)
CapturesOf(r) == {c \in captures : c.localId = r.localId \/ c.key = r.key}

(* Seeded fault: a replay does not look at the device record. *)
CaptureIgnored(r, n) == TRUE

(* The two ways persistFieldCollectionSource succeeds for payment n. *)
CaptureAccepted(r, n) ==
  \/ r.localId = None
  \/ CapturesOf(r) = {}
  \/ \E c \in CapturesOf(r) : SameCapture(c, r, n)

(* It compares the first row found, whichever that is. *)
CaptureRefused(r, n) ==
  /\ r.localId # None
  /\ \E c \in CapturesOf(r) : ~ SameCapture(c, r, n)

CapturesWith(r, n) ==
  IF r.localId = None \/ CapturesOf(r) # {}
  THEN captures
  ELSE captures \cup {Capture(r, n)}

(* The checks between the idempotency lookup and the walk. *)
Assigned(r) == ~ r.scoped \/ <<r.actor, ClientOf[r.loan]>> \in assigned

Refusal(r, status, sched) ==
  CASE status \notin PAYABLE_LOAN_STATUSES -> "LOAN_NOT_PAYABLE"
    [] status \in PAYABLE_LOAN_STATUSES /\ ~ Assigned(r) ->
         "COLLECTOR_NOT_ASSIGNED"
    [] OTHER ->
         IF \E n \in 1..Len(sched) : sched[n].status = "open"
         THEN "none"
         ELSE "NO_OPEN_REPAYMENT_SCHEDULE"

Outcomes ==
  {"none", "created", "replayed", "LOAN_NOT_FOUND_OR_BRANCH_DENIED",
   "LOAN_CLIENT_MISMATCH", "IDEMPOTENCY_KEY_REUSE_MISMATCH",
   "FIELD_COLLECTION_CONFLICT", "LOAN_NOT_PAYABLE", "COLLECTOR_NOT_ASSIGNED",
   "NO_OPEN_REPAYMENT_SCHEDULE", "LOAN_BALANCE_GUARD_FAILED",
   "LEDGER_UNBALANCED", "unique_violation", "aborted"}

PaymentRow(r, p) ==
  [key |-> r.key, receipt |-> r.receipt, loan |-> r.loan, amount |-> r.amount,
   principal |-> PrincipalOf(p.shares), penalty |-> PenaltyOf(p.shares),
   interest |-> InterestOf(p.shares), overpayment |-> p.overpayment,
   shares |-> p.shares]

(* Seeded fault: every payment reactivates its loan. *)
LoanReactivated(before, principal) ==
  [outstanding |-> before.outstanding - principal, status |-> "active"]

(* UPDATE loans: the new balance, and the status that goes with it. *)
LoanAfterPayment(before, principal) ==
  [outstanding |-> before.outstanding - principal,
   status |-> IF before.outstanding - principal = 0 THEN "completed"
                                                    ELSE "active"]

-----------------------------------------------------------------------------
Unplanned == [shares |-> <<>>, overpayment |-> 0]

Init ==
  /\ loan = [l \in Loans |->
               [status |-> "approved", outstanding |-> Principal[l]]]
  /\ schedule = NewSchedule
  /\ payments = <<>>
  /\ ledger = <<>>
  /\ captures = {}
  /\ disbursements = [l \in Loans |-> None]
  /\ assigned \in SUBSET (Officers \X Clients)
  /\ lock = [l \in Loans |-> None]
  /\ pc = [h \in Handlers |-> "idle"]
  /\ request = [h \in Handlers |-> None]
  /\ seen = [h \in Handlers |-> "approved"]
  /\ plan = [h \in Handlers |-> Unplanned]
  /\ outcome = [h \in Handlers |-> "none"]

(* Seeded fault: the loan is read without FOR UPDATE. *)
LockIgnored(l) == l \in Loans

LockFree(l) == lock[l] = None

(* Seeded fault: a transaction that fails is not rolled back. *)
AnswerInTransaction(h, o) ==
  /\ pc' = [pc EXCEPT ![h] = "answered"]
  /\ outcome' = [outcome EXCEPT ![h] = o]
  /\ seen' = [seen EXCEPT ![h] = "approved"]
  /\ plan' = [plan EXCEPT ![h] = Unplanned]
  /\ lock' = [l \in Loans |->
                IF lock[l] = h /\ o \in {"created", "replayed"}
                THEN None ELSE lock[l]]
  /\ UNCHANGED request

(* The end of a transaction, committed or rolled back: its locks go, and   *)
(* the handler answers.                                                    *)
Answer(h, o) ==
  /\ pc' = [pc EXCEPT ![h] = "answered"]
  /\ outcome' = [outcome EXCEPT ![h] = o]
  /\ seen' = [seen EXCEPT ![h] = "approved"]
  /\ plan' = [plan EXCEPT ![h] = Unplanned]
  /\ lock' = [l \in Loans |-> IF lock[l] = h THEN None ELSE lock[l]]
  /\ UNCHANGED request

(* A handler waits for the loan's row, reads it and checks that the        *)
(* request is addressed to it.                                             *)
Misaddressed(r) ==
  CASE r.branch # BranchOf[r.loan] -> "LOAN_NOT_FOUND_OR_BRANCH_DENIED"
    [] r.branch = BranchOf[r.loan] /\ r.client \notin {None, ClientOf[r.loan]} ->
         "LOAN_CLIENT_MISMATCH"
    [] OTHER -> "none"

Begin(h, r) ==
  /\ pc[h] \in {"idle", "answered"}
  /\ LockFree(r.loan)
  /\ request' = [request EXCEPT ![h] = r]
  /\ outcome' = [outcome EXCEPT ![h] = Misaddressed(r)]
  /\ IF Misaddressed(r) = "none"
     THEN /\ pc' = [pc EXCEPT ![h] = "lookup"]
          /\ lock' = [lock EXCEPT ![r.loan] = h]
          /\ seen' = [seen EXCEPT ![h] = loan[r.loan].status]
     ELSE /\ pc' = [pc EXCEPT ![h] = "answered"]
          /\ UNCHANGED <<lock, seen>>
  /\ UNCHANGED <<tables, assigned, plan>>

(* The payment of this key exists.  The lookup locks the row of the loan   *)
(* it was booked on, which may be another one.                             *)
Replay(h) ==
  LET r == request[h] IN
  /\ pc[h] = "lookup"
  /\ \E n \in Recorded(r) :
       /\ lock[payments[n].loan] \in {None, h}
       /\ IF payments[n].loan # r.loan \/ payments[n].amount # r.amount
          THEN /\ Answer(h, "IDEMPOTENCY_KEY_REUSE_MISMATCH")
               /\ UNCHANGED captures
          ELSE \/ /\ CaptureRefused(r, n)
                  /\ Answer(h, "FIELD_COLLECTION_CONFLICT")
                  /\ UNCHANGED captures
               \/ /\ CaptureAccepted(r, n)
                  /\ captures' = CapturesWith(r, n)
                  /\ Answer(h, "replayed")
  /\ UNCHANGED <<loan, schedule, payments, ledger, disbursements, assigned>>

(* No payment of this key is visible.  The handler does not look again:    *)
(* what commits from now on it learns from the constraints of the inserts. *)
FindNoPayment(h) ==
  /\ pc[h] = "lookup"
  /\ Recorded(request[h]) = {}
  /\ pc' = [pc EXCEPT ![h] = "check"]
  /\ UNCHANGED <<tables, assigned, lock, request, seen, plan, outcome>>

(* Check the loan as it was read and the collector as assigned by now,     *)
(* read the open installments and walk them.                               *)
Refuse(h) ==
  LET r == request[h] IN
  /\ pc[h] = "check"
  /\ Refusal(r, seen[h], schedule[r.loan]) # "none"
  /\ Answer(h, Refusal(r, seen[h], schedule[r.loan]))
  /\ UNCHANGED <<tables, assigned>>

PlanPayment(h) ==
  LET r == request[h] IN
  /\ pc[h] = "check"
  /\ Refusal(r, seen[h], schedule[r.loan]) = "none"
  /\ plan' = [plan EXCEPT ![h] = Allocation(schedule[r.loan], r.amount)]
  /\ pc' = [pc EXCEPT ![h] = "post"]
  /\ UNCHANGED <<tables, assigned, lock, request, seen, outcome>>

(* Why the inserts and updates would be rolled back. *)
PostingError(r, row) ==
  CASE \E n \in 1..Len(payments) :
         \/ payments[n].key = row.key
         \/ row.receipt # None /\ payments[n].receipt = row.receipt ->
         "unique_violation"
    [] OTHER ->
         IF loan[r.loan].outstanding < row.principal
         THEN "LOAN_BALANCE_GUARD_FAILED"
         ELSE IF ~ Balanced(row) THEN "LEDGER_UNBALANCED"
         ELSE IF CaptureRefused(r, Len(payments) + 1)
         THEN "FIELD_COLLECTION_CONFLICT"
         ELSE "none"

RejectPosting(h) ==
  LET r == request[h] IN
  /\ pc[h] = "post"
  /\ PostingError(r, PaymentRow(r, plan[h])) # "none"
  /\ Answer(h, PostingError(r, PaymentRow(r, plan[h])))
  /\ UNCHANGED <<tables, assigned>>

CommitPayment(h) ==
  LET r   == request[h]
      row == PaymentRow(r, plan[h])
  IN
  /\ pc[h] = "post"
  /\ PostingError(r, row) = "none"
  /\ payments' = Append(payments, row)
  /\ loan' = [loan EXCEPT ![r.loan] = LoanAfterPayment(@, row.principal)]
  /\ schedule' = [schedule EXCEPT ![r.loan] = CreditAll(@, row.shares)]
  /\ ledger' = PostLedger([key |-> <<"payment-ledger", r.key>>,
                           source |-> Len(payments) + 1,
                           debits |-> PaymentEntries(row)])
  /\ captures' = CapturesWith(r, Len(payments) + 1)
  /\ Answer(h, "created")
  /\ UNCHANGED <<disbursements, assigned>>

(* The connection or the server fails before the commit. *)
Abort(h) ==
  /\ pc[h] \in {"lookup", "check", "post"}
  /\ Answer(h, "aborted")
  /\ UNCHANGED <<tables, assigned>>

(* A handler in the lookup that needs the row of a loan another one holds. *)
WaitsFor(h, g) ==
  /\ pc[h] = "lookup"
  /\ \E n \in Recorded(request[h]) : lock[payments[n].loan] = g
  /\ g # h

(* PostgreSQL aborts one of the transactions that wait for each other. *)
BreakDeadlock(h) ==
  /\ \E C \in SUBSET Handlers :
       /\ h \in C
       /\ \A g \in C : /\ \E f \in C : WaitsFor(g, f)
                       /\ \E f \in C : WaitsFor(f, g)
  /\ Answer(h, "aborted")
  /\ UNCHANGED <<tables, assigned>>

-----------------------------------------------------------------------------
(* The other transactions that write loans. *)

(* Seeded fault: whether the loan was disbursed before is not checked. *)
DisburseAgain(l, k) ==
  /\ LockFree(l)
  /\ \A m \in Loans : disbursements[m] # k
  /\ loan' = [loan EXCEPT ![l].status = "disbursed"]
  /\ disbursements' = [disbursements EXCEPT ![l] = k]
  /\ ledger' = PostLedger([key |-> <<"disbursement-ledger", k>>, source |-> l,
                           debits |-> DisbursementEntries(l)])
  /\ UNCHANGED <<schedule, payments, captures, assigned, lock, handlers>>

(* The line that it also writes into the timeline of the application is    *)
(* the part of this transaction that Origination has.                      *)
DisburseLoan(l, k) ==
  /\ LockFree(l)
  /\ \A m \in Loans : disbursements[m] # k
  /\ "disbursed" \in loanTransitions[loan[l].status]
  /\ loan' = [loan EXCEPT ![l].status = "disbursed"]
  /\ disbursements' = [disbursements EXCEPT ![l] = k]
  /\ ledger' = PostLedger([key |-> <<"disbursement-ledger", k>>, source |-> l,
                           debits |-> DisbursementEntries(l)])
  /\ UNCHANGED <<schedule, payments, captures, assigned, lock, handlers>>

TransitionLoan(l, status) ==
  /\ LockFree(l)
  /\ status \in loanTransitions[loan[l].status]
  /\ loan' = [loan EXCEPT ![l].status = status]
  /\ UNCHANGED <<schedule, payments, ledger, captures, disbursements,
                 assigned, lock, handlers>>

(* collector-assignments.ts, or midnight, changes who is assigned today.   *)
Reassign ==
  /\ assigned' \in SUBSET (Officers \X Clients)
  /\ UNCHANGED <<tables, lock, handlers>>

-----------------------------------------------------------------------------
(* What a handler does next when no payment of its key was found.          *)
PostNew(h) == FindNoPayment(h) \/ Refuse(h) \/ PlanPayment(h)
                \/ RejectPosting(h) \/ CommitPayment(h)

Serve(h) == Replay(h) \/ PostNew(h)

Next ==
  \/ \E h \in Handlers, r \in Requests : Begin(h, r)
  \/ \E h \in Handlers : Serve(h) \/ Abort(h) \/ BreakDeadlock(h)
  \/ \E l \in Loans, k \in DisbursementKeys : DisburseLoan(l, k)
  \/ \E l \in Loans, s \in StatusTargets : TransitionLoan(l, s)
  \/ Reassign

Spec == Init /\ [][Next]_vars

(* PostgreSQL grants a row lock to the waiters in turn, and detects        *)
(* deadlocks; a handler that can go on does.                               *)
Fairness ==
  \A h \in Handlers :
    /\ WF_vars(PostNew(h))
    /\ SF_vars(Replay(h))
    /\ WF_vars(BreakDeadlock(h))

FairSpec == Spec /\ Fairness

-----------------------------------------------------------------------------
(* Properties. *)

Payment ==
  [key : Keys, receipt : {r.receipt : r \in Requests}, loan : Loans,
   amount : Nat, principal : Nat, penalty : Nat, interest : Nat,
   overpayment : Nat, shares : Seq(Share)]

(* The tables and the handlers hold values of the columns' and the         *)
(* program's types; no balance, amount or part of one is negative.         *)
TypeOK ==
  /\ loan \in [Loans -> [status : LoanStatus, outstanding : Nat]]
  /\ DOMAIN schedule = Loans
  /\ \A l \in Loans : schedule[l] \in Seq(Installment)
  /\ payments \in Seq(Payment)
  /\ assigned \subseteq Officers \X Clients
  /\ disbursements \in [Loans -> DisbursementKeys \cup {None}]
  /\ lock \in [Loans -> Handlers \cup {None}]
  /\ pc \in [Handlers -> {"idle", "lookup", "check", "post", "answered"}]
  /\ request \in [Handlers -> Requests \cup {None}]
  /\ seen \in [Handlers -> LoanStatus]
  /\ plan \in [Handlers -> [shares : Seq(Share), overpayment : Nat]]
  /\ outcome \in [Handlers -> Outcomes]

Busy(h) == pc[h] \in {"lookup", "check", "post"}

(* A handler holds the row of its request's loan from the read to the      *)
(* commit, and nobody holds a row after answering: postManualPayment takes *)
(* it first, withTransaction always ends the transaction.                  *)
LocksHeld ==
  \A h \in Handlers :
    /\ Busy(h) => request[h] \in Requests /\ lock[request[h].loan] = h
    /\ \A l \in Loans : lock[l] = h => Busy(h) /\ request[h].loan = l

(* What a handler read before it waited for other queries is still so when *)
(* it uses it: the loan's status, and the installments its plan is for.    *)
ReadsStayCurrent ==
  \A h \in Handlers :
    /\ Busy(h) => seen[h] = loan[request[h].loan].status
    /\ pc[h] = "post" =>
         /\ seen[h] \in PAYABLE_LOAN_STATUSES
         /\ plan[h] = Allocation(schedule[request[h].loan], request[h].amount)

PrincipalPaid(l) ==
  Total([n \in 1..Len(payments) |->
           IF payments[n].loan = l THEN payments[n].principal ELSE 0])

PrincipalStillDue(l) ==
  Total([n \in 1..Len(schedule[l]) |->
           schedule[l][n].principalDue - schedule[l][n].principalPaid])

(* The loan row, the payment rows and the schedule rows tell the same      *)
(* balance: three tables, written by one transaction, that nothing in the  *)
(* database ties together.                                                 *)
BalanceAgrees ==
  \A l \in Loans :
    /\ loan[l].outstanding = Principal[l] - PrincipalPaid(l)
    /\ loan[l].outstanding = PrincipalStillDue(l)

(* No request is ever answered with an error that means the tables         *)
(* disagree: the balance guard of UPDATE loans, an unbalanced posting, a   *)
(* payable loan without an open installment.                               *)
GuardsSilent ==
  \A h \in Handlers :
    outcome[h] \notin {"LOAN_BALANCE_GUARD_FAILED", "LEDGER_UNBALANCED",
                       "NO_OPEN_REPAYMENT_SCHEDULE"}

(* Every payment has a ledger transaction of its own with exactly its      *)
(* lines, in which debits equal credits.                                   *)
LedgerTellsPayments ==
  \A n \in 1..Len(payments) :
    \E e \in 1..Len(ledger) :
      /\ ledger[e].source = n
      /\ ledger[e].debits = PaymentEntries(payments[n])
      /\ ledger[e].debits["cash.manual"] =
           -(ledger[e].debits["loan.principal"]
             + ledger[e].debits["realized.penalty"]
             + ledger[e].debits["realized.interest"]
             + ledger[e].debits["overpayment.holding"])

(* Whose debt a posting is about: source is the loan of a disbursement, the *)
(* payment of a collection.                                                *)
LoanOf(e) ==
  IF e.key[1] = "disbursement-ledger" THEN e.source ELSE payments[e.source].loan

BookedOn(account, l) ==
  Total([e \in 1..Len(ledger) |->
           IF LoanOf(ledger[e]) = l THEN ledger[e].debits[account] ELSE 0])

ReceivableOf(l) == BookedOn("loan.receivable", l)

(* Disbursement and collections name different accounts, but the two       *)
(* together show what a disbursed loan has outstanding: neither is ever    *)
(* posted twice, for another amount or on another loan, and none is missing.*)
LedgerTellsBalance ==
  \A l \in Loans :
    disbursements[l] # None =>
      ReceivableOf(l) + BookedOn("loan.principal", l) = loan[l].outstanding

(* A loan that accepts payments still owes principal, so a payment never   *)
(* lands on a loan with nothing left to pay.                               *)
PayableOwes ==
  \A l \in Loans :
    loan[l].status \in PAYABLE_LOAN_STATUSES => loan[l].outstanding > 0

(* Money is held as an overpayment only when every installment of the loan *)
(* is settled ("everything but the first into overpayment holdings" is     *)
(* what the walk exists to avoid).                                         *)
OverpaidMeansSettled ==
  \A n \in 1..Len(payments) :
    payments[n].overpayment > 0 =>
      /\ loan[payments[n].loan].status = "completed"
      /\ \A i \in 1..Len(schedule[payments[n].loan]) :
           Owed(schedule[payments[n].loan][i]) = 0

(* An installment is open exactly as long as it owes something (one that   *)
(* was due nothing from the start stays open): payments, the overdue job   *)
(* and the reports select installments by that status.                     *)
OpenIffOwing ==
  \A l \in Loans : \A i \in 1..Len(schedule[l]) :
    (schedule[l][i].status = "open")
      <=> (Owed(schedule[l][i]) > 0 \/ Owed(NewSchedule[l][i]) = 0)

Acked(h) == outcome[h] \in {"created", "replayed"}

(* A client that was told its payment is in the books can forget it: the   *)
(* payment is there, for that loan and amount, and so is the device record *)
(* if it sent one.                                                         *)
AckedMeansPosted ==
  \A h \in Handlers :
    Acked(h) =>
      \E n \in Recorded(request[h]) :
        /\ payments[n].loan = request[h].loan
        /\ payments[n].amount = request[h].amount
        /\ request[h].localId # None => \E c \in captures : c.payment = n

(* A device record belongs to one payment and a payment to one device      *)
(* record, whatever keys and local ids the retries combine, and it repeats *)
(* the payment's facts.                                                    *)
CapturesTellPayments ==
  /\ \A c \in captures :
       /\ c.payment \in 1..Len(payments)
       /\ payments[c.payment].key = c.key
       /\ payments[c.payment].loan = c.loan
       /\ payments[c.payment].amount = c.amount
  /\ \A c, d \in captures :
       (c.payment = d.payment \/ c.localId = d.localId \/ c.key = d.key)
         => c = d

(* A completed loan is closed for good, and a written-off one can only be  *)
(* completed, never revived by a payment under way when its status changed.*)
ClosedLoansStayClosed ==
  [][\A l \in Loans :
       /\ loan[l].status = "completed" =>
            loan'[l] = loan[l] /\ schedule'[l] = schedule[l]
       /\ loan[l].status = "written_off" =>
            /\ loan'[l].status \in {"written_off", "completed"}
            /\ loan'[l].outstanding = loan[l].outstanding]_vars

(* The payment that r asks for is in the books.                            *)
PostedAs(r) ==
  \E n \in Recorded(r) :
    payments[n].loan = r.loan /\ payments[n].amount = r.amount

(* A retry of a posted payment is answered as that payment, or not at all, *)
(* or refused for its device record: never for what happened since (the    *)
(* loan it completed, the assignment that lapsed), and never with the      *)
(* constraint its own payment would violate.  A handler looks the payment  *)
(* up once and decides steps later, so nobody may post it in between.      *)
RetriesNotRefused ==
  [][\A h \in Handlers :
       /\ outcome'[h] # outcome[h]
       /\ PostedAs(request'[h])
       /\ Misaddressed(request'[h]) = "none"
       => outcome'[h] \in {"none", "replayed", "FIELD_COLLECTION_CONFLICT",
                           "aborted"}]_vars

(* Every request a handler has started on is answered, even when handlers  *)
(* wait for each other's loans.                                            *)
EveryRequestAnswered ==
  \A h \in Handlers : pc[h] = "lookup" ~> pc[h] = "answered"

-----------------------------------------------------------------------------
(* The promise these tables keep. *)

Phase(status) ==
  CASE status = "approved"               -> "new"
    [] status \in PAYABLE_LOAN_STATUSES -> "collecting"
    [] OTHER                             -> "closed"

Booked ==
  {[key |-> payments[n].key, loan |-> payments[n].loan,
    amount |-> payments[n].amount] : n \in 1..Len(payments)}

Debts  == [l \in Loans |-> loan[l].outstanding]
Phases == [l \in Loans |-> Phase(loan[l].status)]

Book == INSTANCE PaymentBook WITH book <- Booked, debt <- Debts, phase <- Phases

(* Whatever handlers, retries and deadlocks do, every key is entered once, *)
(* on a loan being collected, for the amount its request named, and closed *)
(* loans stay out of reach of payments planned before they closed.         *)
ImplementsBook == Book!Spec

-----------------------------------------------------------------------------
(* What the documents say and the code does not do. *)

(* A loan that still owes money is in a status that takes payments, or was *)
(* written off.                                                            *)
DebtStaysPayable ==
  \A l \in Loans :
    (\E i \in 1..Len(schedule[l]) : Owed(schedule[l][i]) > 0)
      => loan[l].status \in PAYABLE_LOAN_STATUSES \cup {"approved", "written_off"}

(* What the ledger shows as receivable from a disbursed loan is what the   *)
(* loan has outstanding.                                                   *)
ReceivableIsOutstanding ==
  \A l \in Loans :
    disbursements[l] # None => ReceivableOf(l) = loan[l].outstanding
=============================================================================
