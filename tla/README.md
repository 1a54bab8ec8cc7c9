# Upfund microcredit: a verification project in TLA+

TLA+ models of the parts of this repository where money and concurrency meet, TLC
configurations that check them on small instances, and theorems proved with TLAPS.
Everything is translated from the code of the production path: the Fastify server in
`server/`, the SQL in `migrations/` and the offline queue in `client/`.
`PROJECT.json` maps each definition to the lines it stands for.

## 1. Inventory

| Component | State | Operations | What is hard | What makes it correct |
|---|---|---|---|---|
| Payment posting: `payment-posting.ts`, `payment-allocation.ts`, `routes/payments.ts` | `payments`, `receipts`, `payment_installments`, `overpayment_holdings`, `field_collection_records` | `postManualPayment` | Concurrent requests that share keys, receipts, device records; reads used after further queries; retries after lost answers; waits on two loan rows | Every key is entered once; loan, schedule, payments and ledger agree; an acknowledged payment stays; a retry is not refused for what the first attempt caused |
| Ledger: `ledger.ts`, triggers of migration 001 | `ledger_transactions`, `ledger_entries`, append only | `postLedgerTransactionOnClient` | A key that is already there drops the lines silently | Each payment has a balanced transaction of its own |
| Loan accounts: `lifecycle.ts` 534-577, `state-machines.ts` | `loans`, `loan_disbursements` | `disburseLoan`, `transitionLoan` | A status change during the planning of a payment | Closed loans stay closed; a loan that takes payments owes something |
| Applications, KYC, risk, decision: `lifecycle.ts` 311-521 | `loan_applications`, `kyc_records`, `risk_assessments` | submit, review, assess, decide | KYC belongs to the client, the review to an application | A client is reviewed once; nobody approves their own application; approval needs review and assessment; the timeline is a path of allowed transitions, up to the disbursement |
| Schedule: `schedule.ts` | `repayment_schedules` | `buildRepaymentSchedule`, `persistRepaymentSchedule` | Rounding; installments that are due nothing | Principal and interest add up to those of the loan |
| Collector assignments: `collector-assignments.ts` | `collector_assignments` | create, end, change of route | Starts and ends on any day; what "active" means | A client has one collector who goes on for good |
| Overdue job: `overdueDetectionCron.ts` | none of its own | one cycle under an advisory lock | A list read once, one failure ending the cycle | What is marked has an installment past its day |
| Reconciliation: `reconciliation-posting.ts`, `reconciliation.ts`, `allocation.ts` | `reconciliations`, `reconciliation_payments`, `pool_allocations`, ledger | submit, decide, post | Two steps by two people, retries, two batches with a payment in common | Cash of a payment moves once; nobody decides their own batch; a decision is about what was submitted |
| Reconciliation job: `reconciliationCron.ts`, `varianceAlerting.ts` | none of its own | one cycle | Batch references reused within a day; a failure ends the cycle | A batch keeps its payments; a cycle ends |
| Offline queue: `offlineQueue.ts`, `main.tsx` | IndexedDB records by user | enqueue, process, bind to a user | Lost answers, reloads, change of user or of storage during a sync | What is shown as posted is posted and stays so; nothing is left as Syncing but by a disturbance; passes end |
| Reporting cache: `reporting-cache.ts`, `par-threshold-config.ts` | entries, loads under way, generation | read, refresh, clear | Overlapping loads, a clear during a load, a full cache | No result of before a clear is stored after it; simultaneous requests share a load; everyone is answered |
| Reporting queries, authorization, telemetry, configuration, seeds, browser pages, preview applications | read-only or no state | | | Not modelled: queries without state, wiring, rendering, generated code |

The components meet in the database. Requests, jobs and staff run transactions over the
same tables and interact through row locks, unique keys and what they commit; the
offline queue sends requests of payment posting any number of times.

`PROJECT.json` lists every component with its sources and all hazards with their lines.

## 2. Plan

Done, in this order:

1. **Servicing of loans**: `Summation`, `PaymentAllocation`, `PaymentBook`,
   `LoanServicing`, with proofs.
2. **Reconciliation**: `ReconciliationPosting` with the job's cycle, over the abstract
   `BatchReview`, with proofs.
3. **Origination**: `RepaymentSchedule`, `Origination`, over the abstract `Underwriting`,
   with proofs; it ends where `LoanServicing` begins.
4. **The collector's device**: `OfflineQueue`, with proofs.
5. **The reporting cache**: `ReportingCache`, with proofs.
6. `CollectorAssignments`, `OverdueDetection`, with proofs of when what they promise holds.

Left, should the code or the questions change: several tabs over one IndexedDB database; days
that pass in `ReconciliationPosting`; `OverdueDetection` with assignments.

Every module declares its parameters as CONSTANTS with named assumptions, has one action
per operation and no RECURSIVE operator.

## 3. Modules

| Module | What it is |
|---|---|
| `Summation` | Sums of sequences as a recursive function |
| `PaymentAllocation` | The waterfall over one installment and the walk over a schedule, as operators |
| `LoanServicing` | Payments, disbursements and status changes over the tables; properties; the refinement mapping |
| `PaymentBook` | What the servicing of loans promises: a book of payments |
| `OverdueDetection` | The overdue job beside the servicing of loans |
| `ReconciliationPosting` | Batches: submission, decision, retry; the job as one more worker; properties; the refinement mapping |
| `BatchReview` | What reconciliation promises: each payment in one batch, each batch decided once |
| `RepaymentSchedule` | `buildRepaymentSchedule` and `persistRepaymentSchedule` as operators |
| `Origination` | Clients, applications, KYC, risk, decision; properties; the refinement mapping |
| `Underwriting` | What origination promises: one path from application to loan, one review of a client |
| `OfflineQueue` | The page, its two storages, the network and what the server has posted |
| `ReportingCache` | Callers, entries, loads under way, updates of the windows |
| `CollectorAssignments` | Assignments and the days they are valid |
| `MC...` | Values of the constants for TLC, one module for each of the above that is run |
| `SummationProofs` | What sums compute |
| `LoanServicingProofs` | The walk of a payment; types, locks, reads, refinement, closed loans, retries, acknowledgements |
| `ServicingBalanceProofs` | Balances, guards, ledger, device records, what installments owe, overpayments, the overdue job |
| `ReconciliationProofs` | The inductive invariant of reconciliation, its five invariants, the cash of batches, the refinement |
| `OriginationProofs` | What schedules add up to, the inductive invariant of origination, its properties, the refinement |
| `OfflineQueueProofs` | The inductive invariant of the queue, its four properties |
| `ReportingCacheProofs` | The inductive invariant of the cache, its properties |
| `CollectorAssignmentsProofs` | When a client has one collector |

### State of LoanServicing and the code

| Variable | Code |
|---|---|
| `loan` | `loans.status`, `loans.outstanding_principal` |
| `schedule` | rows of `repayment_schedules`, in the order `due_on, id` |
| `payments` | `payments` with `receipts`, `payment_installments`, `overpayment_holdings` |
| `ledger` | `ledger_transactions` with the debits minus credits of each account |
| `captures` | `field_collection_records` |
| `disbursements` | the key in `loan_disbursements` of each loan |
| `assigned` | the pairs `collector_assignments` has in effect today |
| `lock` | the holder of each loan's row lock |
| `pc`, `request`, `seen`, `plan`, `outcome` | the locals of a running `postManualPayment`, and its answer |

| Action | Code |
|---|---|
| `Begin` | wait for the row, read it, check branch and client (lines 143-150) |
| `Replay` | the key is posted: compare, repeat the device record (151-176) |
| `FindNoPayment` | the key is not posted yet, as far as the lookup sees (151-158) |
| `Refuse` | status, assignment, no open installment (187-215), a step later |
| `PlanPayment` | the same checks passed, and the walk (187-256) |
| `RejectPosting` | unique key, balance guard, ledger balance or device record fail: rollback |
| `CommitPayment` | all inserts and updates, and the commit (257-357) |
| `Abort`, `BreakDeadlock` | connection or server fails; PostgreSQL ends a deadlock |
| `DisburseLoan`, `TransitionLoan` | one transaction each, which waits for the row; the line of the timeline that a disbursement also writes is in `Origination` |
| `Reassign` | assignments made, ended, or lapsed at midnight |

A transaction's writes are invisible before the commit, so the commit installs them in
one step; what is read before is read in an earlier step. Handlers never forget: a
request may be sent again at any time by anyone, which is what retries, duplicates and
lost answers amount to.

### The other modules and the code

`OverdueDetection` extends `LoanServicing` by one variable, the loans the cycle has still
to go through. `StartCycle` is `loadOverdueLoanIds`; `MarkOverdue` is `transitionLoan`;
`LoseCycle` is its error, which ends the loop; `StopCycle` a crash. Each of them is a
`TransitionLoan` of `LoanServicing` or leaves its variables alone, so what is proved of
`LoanServicing` holds beside the job.

`ReconciliationPosting`:

| Variable | Code |
|---|---|
| `booked` | the payments in `payments` |
| `batch`, `batchOf` | `reconciliations`, `reconciliation_payments` |
| `ledger`, `pools` | the transactions of batches with their lines, `capital_pools` |
| `rowLock`, `claim` | who has locked or is inserting a batch row; who has inserted a payment's place without committing |
| `pc`, `request`, `todo`, `cycle` | the locals of a handler, and of the job's cycle |

| Action | Code (`reconciliation-posting.ts` unless named) |
|---|---|
| `SelectNone`, `SelectRow` | the first SELECT FOR UPDATE, and what follows on a row: repeat, mismatch, decision (51-92, 133-166) |
| `Insert`, `InsertTaken` | the INSERT under a savepoint, alone or after a winner (93-130) |
| `Check` | the payments of the batch, read without a lock (168-193) |
| `Attach` | one INSERT ... ON CONFLICT DO NOTHING, which waits for another inserter (195-197) |
| `Hold`, `Reject`, `Post` | the ends of a transaction (199-308), `varianceAlerting.ts` |
| `Abort`, `BreakDeadlock` | failures, PostgreSQL |
| `StartCycle`, `NextBatch` | `reconciliationCron.ts` |
| `Book` | a payment is posted |

`Origination`: `LockApplication`, `LockClient` are the join with FOR UPDATE of
`findApplication`; `ReadKyc` the reads after it; `Commit` the rest of each service with its
commit; `Refuse` every error; `Break` a lost connection; `DisburseLoan` is `disburseLoan` as
far as the application's timeline goes, into which it writes (line 561) while it holds the
loan and not the application. `kyc`, `risk`, `history`, `loans`, `disbursed` are the tables,
with the schedule that each loan is given.

`OfflineQueue`: a step is what runs between two awaits of the page. `indexed` and `fallback`
are the two storages of each user, `supported` says whether the browser has IndexedDB at
all, `postedBy` is what the server has, `late` the requests that are
under way while nobody waits for them; `session`, `database`, `online`, `listening` and the
locals of the one pass that `processing` admits are lost on `Reload`. `BindUser` does
nothing only if the namespace is the same and its database open: the page binds the anonymous
user at once, and again whenever its effect runs. Calls of `bindUser` that do something,
reloads, losses, failing storage and disconnections are counted by `MaxEvents`.

`ReportingCache`: a dashboard is told apart by the windows it was computed with; `older` is
the insertion order of the Map; `generation`, `entries`, `inflight` are the variables of
`reporting-cache.ts`; `Read` is the point at which a load reads the windows, `Ends` its
settling together with everyone who has joined it; `Tick` is the clock.

`CollectorAssignments`: rows with their days; one action per operation, as each holds the
client's row or the assignment's to its end.

### Abstractions

- Device, time and method of a capture are one value, compared as a whole. A request that
  has a local id but no capture time, for which the code skips that comparison, is left out.
- Requests name existing loans; a request for another one is answered like one of the
  wrong branch.
- Two inserts of one unique key wait for each other in PostgreSQL. Here the second one
  reaches its commit step after the first committed and is rejected, or is aborted; the
  tables are the same. For device records the answer is then a conflict instead of a
  unique violation; both roll back.
- The lookup of a posted key locks the rows of the payment and of its ledger transaction
  besides the row of the loan. They are only locked together with it, so the row of the
  loan stands for all of them.
- A handler of a payment reads the assignment and the open installments in one step. The
  installments cannot change while it holds the loan's row, so only the moment of the first
  read matters, and that is any moment after the lookup.
- `SCHEDULE_UPDATE_FAILED` (`payment-posting.ts:304`) cannot occur while the row is held:
  the update names rows that the same transaction has locked. It is left out, and so are
  refusals of requests that are malformed in themselves (`INVALID_...`).
- The history of an application is in the order in which its lines were written. The page
  that shows it sorts by `created_at`, the start of the transaction that wrote the line.
- Audit rows and `version` counters are left out: nothing reads them here. So are repeated
  disbursements, which change no table.
- Amounts are natural numbers: the route admits integers, `validAmount` safe ones.
- A loan starts approved with the schedule it was given: `ServicingAssumption` states what
  `decideApplication` and `schedule.ts` establish (`PersistedScheduleServes` proves that they
  do), and admits penalties and the older charge column, which other programs and older
  migrations write.
- Reconciliation happens on one day: the job has one reference for each branch. The alert
  that the job logs is left out.
- What a request of origination must contain is contained (evidence, reasons). Rates are in
  hundredths of a percent, rounding errors of floating point are left out, and every fourth
  year is a leap year.
- The page of `OfflineQueue` is the only tab of its browser, and the local id of a record
  is the record. Two openings of one database that are under way at once end together. Batches on the device have no caller and are left out.
- The advisory lock of a job is one cycle at a time, which may stop anywhere.

## 4. Runs

| Run | Instance | Question | Result |
|---|---|---|---|
| `servicing_safety` | 2 loans, 2 handlers, 5 requests, 3 keys, a collector whose assignment comes and goes, all status changes | Do the tables agree, do guards stay silent, does the ledger tell what is outstanding, is a retry of a posted payment never refused for what happened since, is the promise of `PaymentBook` kept? | holds, 326,350 states |
| `servicing_liveness` | 2 keys, each used on both loans, one request with a wrong client | Is every request answered? | yes, 34,432 states |
| `reconciliation` | 2 payments, 2 references, 2 handlers and the job, 8 requests of 2 managers | Do batches, ledger and pools agree, do two people decide, is the promise of `BatchReview` kept, does a cycle end? | holds, 41,378 states |
| `origination` | 1 client, 2 applications, 2 users, 2 handlers | Is a client reviewed once, is every loan underwritten and repaid by its schedule, is the promise of `Underwriting` kept, is every request answered? | holds, 247,674 states |
| `offline_queue` | 1 record, 2 users of one device with and without IndexedDB, 3 events from outside | Is what is shown as posted posted, what is left as Syncing, do passes end? | holds, 459,827 states |
| `reporting_cache` | 3 dashboards in a cache of 2, 2 callers, 1 update of the windows | Is a dashboard ever older than the windows, are loads shared, is everyone answered? | holds, 55,827 states |
| `debt_payable` | as the first | Can a loan that owes money always be paid? | no: finding 1 |
| `receivable` | as the first | Does the ledger's receivable follow the loans? | no: finding 2 |
| `reconciled_cash` | as `reconciliation` | Does the cash of a payment move once? | no: finding 3 |
| `offline_reconnect` | as `offline_queue` | Does the device send when it is back online? | no: finding 4 |
| `one_collector` | 2 collectors, 1 client, 4 days | Does a client have one collector who goes on for good? | no: finding 5 |
| `overdue_reason` | the loans of the first run, payments, the job | Is what the job marks past due? | no: finding 6 |

Why these bounds are enough to be interesting. *Servicing*: two loans are needed for a key used on
both and for a deadlock; a deadlock, a race for one key and a read overtaken by a write
each take two handlers. The schedule of `l1` has two installments with a penalty on the
first and interest on the second; the requests of 1, 3 and 4 split an installment's
principal over two payments, span both installments, finish the loan with charges owed,
and overpay. `l2` owes less than it has installments, so its first one is due nothing,
and its second one has its charge in the old column. Three keys, one receipt number
claimed by two of them and one device record claimed by two give every conflict.
The collector `cara` collects under one key while her assignment comes and goes.
The number of payments is bounded by the number of keys, so no other bound is needed.
Handlers and disbursement keys are interchangeable, hence the symmetry; the runs with a
liveness property use none.

*Reconciliation*: a race for a reference, a race for a payment and a deadlock over two
payments each take two workers, and the job is the third; two payments make a batch that
agrees with what is expected, one that falls short, and the same one submitted with the
wrong payment. The rates are such that every share is rounded. *Origination*: two
applications of one client are what a client can be reviewed twice in; the schedules divide
with and without rest, begin at the end of a month, and pass the end of the year. *Offline
queue*: three events admit a change of user and back with a lost answer between, a reload
during a late request, and a lost storage; a change of user between reading and storing a
record carries it into another's storage, so one record is enough for copies.
`CHECK_DEADLOCK FALSE`: with all events used and all records settled, nothing is left to do.
*Assignments*: the days begin with the first on which anything is assigned; three more let an
assignment lie ahead, begin and be ended before or after that.
*Cache*: three keys are one more than fit; two callers are a load and who joins or overtakes
it; an entry that lives two ticks can be cached, expired or evicted; one update separates
before from after.

**Fairness.** A handler that can go on does (weak fairness of its steps): Node runs it as
soon as its query returns. A handler waiting for the row of a loan gets it if the row is
free again and again (strong fairness of `Replay`), because PostgreSQL queues waiters of a
row. A deadlock is detected (weak fairness of `BreakDeadlock`), PostgreSQL's
`deadlock_timeout`. Nothing is assumed of clients, staff, failures or disbursements.
In `ReconciliationPosting` a worker that can go on again and again does (strong fairness of
`Serve`: the waits are for rows and unique keys, which PostgreSQL queues), deadlocks are
broken, and the job goes on to its next batch. In `Origination` the wait for the client's
row is strong and the rest weak, for the same reasons. In `OfflineQueue` the callbacks of
settled promises run and a request ends somehow (weak fairness of a pass, nothing else). In
`ReportingCache` a query is answered or fails (weak). The other two modules claim no
liveness.

**Properties.** `ReadsStayCurrent`, `LocksHeld`: what was read before an await is still so
when it is used. `BalanceAgrees`: the loan row, the payment rows and the schedule tell one
balance. `GuardsSilent`: the errors that would mean the tables disagree never occur.
`LedgerTellsPayments`: the ledger has the lines of every payment, balanced.
`LedgerTellsBalance`: the principal lines of disbursement and payments together give the
balance of the loan.
`PayableOwes`, `OverpaidMeansSettled`, `OpenIffOwing`: status of loan and installments and
what is owed. `AckedMeansPosted`, `CapturesTellPayments`: what a client was told, and the
device records. `ClosedLoansStayClosed`: what no step does. `RetriesNotRefused`: a
handler looks a payment up once and refuses, or fails on a constraint, several awaits later;
no other handler may have posted that very payment in between, or the client who
retries would be told that it was refused. It holds because the row of the loan is locked
over all of it (`LockIgnored` breaks it); for a key that comes in on another loan the race is
possible and the answer is then about the other loan. `ImplementsBook`: refinement.

Reconciliation: `LedgerTellsBatches` and `ChargesRealizedOnce` relate batches, ledger and
pools; `TwoPeople` is the separation of duties; `LocksHeld` says who may write a row;
`ImplementsReview` is refinement, in which a held batch is decided with the very payments it
was submitted with; `CyclesEnd` is liveness of the job. Origination: `ReadsStayCurrent` and
`OneVerdict` rest on the row of the client, `Underwritten` on all steps before;
`TimelineTellsStatus` says that the lines of an application, and of its loan's disbursement,
follow each other to where the two stand; `SchedulesRepay` is about the schedule; `ImplementsUnderwriting` is refinement,
`RequestsEnd` liveness. Queue:
`PostedIsPosted` relates the device and the server, `SyncingIsBeingSent` and
`PostedStaysPosted` the storages and the pass, except for records a pass was cut off at;
`PassesEnd` is liveness. Cache: `WindowsCurrent` relates entries and the table of windows,
`LoadsShared` says that two loads of one dashboard run at once only after a refresh or a
clear, `RequestsAnswered` is liveness.

Beside the definitions stand plausible faults of the code ("Seeded fault"), at least one for
each property, under which it fails.

### Findings

1. A payment that brings `outstanding_principal` to 0 completes the loan
   (`payment-posting.ts:284`), also when interest or penalty is still owed, because
   principal is paid first; all later payments are refused. The comment at line 49 calls
   the payable statuses those "a loan can be in while it still owes money".
2. Collections credit `loan.principal`, disbursements debit `loan.receivable`; no posting
   reduces the receivable, which `docs/phase-0/financial-ledger-spec.md:29` asks of a
   collection.
3. Two batches that name one payment and pass the check of `reconciliation-posting.ts:182`
   together: the first claims the payment, and the second INSERT says ON CONFLICT DO NOTHING,
   so that the second batch moves the cash of the payment to `cash.reconciled` without having
   it. One after the other the second is rejected, as the comment at line 139 and a test
   want.
4. `OfflineQueue.bindUser` removes the listener for reconnection (`offlineQueue.ts:61`) and
   nobody adds it again, while `CollectorRouteView.tsx:75` says that the device will sync.
5. `createAssignment` ends what is active today, so the assignment of one collector that
   begins tomorrow survives that of another from today: on the next day both are active and
   neither has an end. The comment at `collector-assignments.ts:145` promises one active
   collector. That two collectors of one day share that day is not counted, the comment at
   line 159 wants it so.
6. The overdue job marks loans from a list it read before: one whose installment was paid
   since is marked with the reason "Installment past due"
   (`overdueDetectionCron.ts:42`).

### Other things the models made plain

- KYC belongs to the client but is moved through an application: once reviewed, a client can
  never pass the review with a second application. A comment in
  `tests/authorization-patch.integration.test.ts:25` knows it. So a client has one loan, ever.
- `SELECT ... FOR UPDATE` of a KYC record that does not exist locks nothing. Only that
  `findApplication` locks the joined row of the client keeps two reviews apart
  (`LockClientUnlocked` is the seeded fault); given that lock, the one on the application is
  not needed.
- `effective_from` comes back from the database as a `Date`, and both comparisons with a
  string in `endAssignment` (`collector-assignments.ts:221` and `:227`) are false: ending an
  assignment on its first day is refused, which the comment at 222 means to avoid. An end
  that has passed may be moved, also by `createAssignment`.
- In the cache an older load may store its result over that of a later refresh; both were
  computed with the windows in force.
- A device record left as Syncing by a reload is never selected again.
- Monthly due dates are built with `setMonth`: from the 31st of January the next one is in
  March, and all later ones keep that day.

## 5. Theorems

Proved for all sets of loans, handlers, requests, keys, clients and officers, and for all
schedules that satisfy `ServicingAssumption` and requests that satisfy
`RequestAssumption`; TLC evaluates both on every run.

| Theorem | Says |
|---|---|
| `ServicingInvariant` | `TypeOK`, `LocksHeld` and `ReadsStayCurrent` together are inductive |
| `TypeCorrect`, `LocksCorrect`, `ReadsCorrect` | each of them is invariant |
| `ServicingImplementsBook` | every behaviour of `LoanServicing` is one of `PaymentBook` |
| `ClosedLoans` | `ClosedLoansStayClosed` |
| `RetriesAccepted` | `RetriesNotRefused`: whatever happens between the lookup of a retry and its answer |
| `Acknowledged` | `AckedMeansPosted` is invariant |
| `WalkConservesMoney` | for every schedule and amount, the shares and the overpayment add up to the amount |
| `WalkPaysInOrder` | within an installment principal, then penalty, then interest; no installment takes anything before the open ones ahead of it are settled |
| `DebtInvariant` | `BalanceAgrees`, sound installments and the debt of loans that take payments are inductive, given `ServicingInv` |
| `BalanceKept`, `PayableLoansOwe` | `BalanceAgrees` and `PayableOwes` are invariant |
| `GuardsNeverFire` | `GuardsSilent` is invariant |
| `LedgerInvariant` | each payment has its own ledger transaction, and keys of payments belong to payments that exist |
| `LedgerKept`, `CapturesKept` | `LedgerTellsPayments` and `CapturesTellPayments` are invariant |
| `LedgerShowsBalance` | `LedgerTellsBalance` is invariant |
| `ScheduleInvariant` | what installments owe against the approved schedule, and overpayments, given the two invariants above |
| `OpenAsOwed`, `OverpaidOnlySettled` | `OpenIffOwing` and `OverpaidMeansSettled` are invariant |
| `CompletedOwesNoPrincipal` | if staff complete no loan by hand, completed loans have no principal left in any installment |
| `DetectionServes` | if staff may mark loans overdue, every behaviour with the overdue job is one of `LoanServicing` without it |

For reconciliation (any facts, branches, references, handlers, staff, requests and policies
that satisfy `FactsAssumption`, `ReconciliationAssumption` and `RatesAssumption`):

| Theorem | Says |
|---|---|
| `ReconciliationInvariant` | tables, claims and what each worker has read are inductive |
| `ReconciliationTyped`, `DecisionsHoldTheirRow` | `TypeOK`, with no pool and no profit below zero; `LocksHeld` |
| `LedgerAgreesWithBatches`, `ChargesAreRealizedOnce`, `DecisionsTakeTwo` | `LedgerTellsBatches`, `ChargesRealizedOnce`, `TwoPeople` |
| `CashCoversPayments` | a batch moved no less cash than its payments have, and exactly that if a second person decided it |
| `ReconciliationImplementsReview` | every behaviour of `ReconciliationPosting` is one of `BatchReview` |

For origination (`OriginationAssumption`; any clients, applications, users, forms, requests):

| Theorem | Says |
|---|---|
| `BuiltScheduleRepays` | for every principal, product and day the schedule adds up, its days follow each other, and no installment asks for less than an earlier one |
| `PersistedScheduleServes` | what is written for a loan is what `ServicingAssumption` asks of a schedule |
| `Invariance` | the inductive invariant |
| `TypesHold`, `ReadsAreCurrent`, `ClientsReviewedOnce`, `LoansAreUnderwritten`, `TimelinesLead`, `LoansAreRepaid` | the six safety properties of the run |
| `OriginationImplementsUnderwriting` | every behaviour of `Origination` is one of `Underwriting` |

For the cache (`CacheAssumption`; any callers, keys, time to live, size and number of updates):

| Theorem | Says |
|---|---|
| `CacheInvariant` | the inductive invariant |
| `CacheTyped`, `CachedWindowsCurrent`, `ConcurrentLoadsShared` | `TypeOK` with the size of the cache, `WindowsCurrent`, `LoadsShared` |

For the queue (any records, users and number of events):

| Theorem | Says |
|---|---|
| `QueueTyped` | `TypeOK` is invariant |
| `PostedKept` | `PostedIsPosted` is invariant |
| `QueueInvariant` | how the storages stand to the phase of the pass |
| `SyncingIsSent`, `PostedNotTakenBack` | `SyncingIsBeingSent`; the action property `PostedStaysPosted` |

For assignments (any collectors, clients, routes and last day):

| Theorem | Says |
|---|---|
| `PromptOneCollector` | if no assignment is made for a day to come and none ended on one, a client has one collector from tomorrow on, and `OneOpenAssignment` holds |

*The argument (servicing).* None of the three parts of the invariant is inductive alone. That a plan
still matches the schedule needs that nobody else changed it, hence that only the holder
of the row writes it, which is `LocksHeld`; that a commit leaves natural numbers needs
`ReadsStayCurrent`, so that the plan is an allocation of the current schedule, whose
parts are natural (`PlanType`). The proof of the step has one case
for each action. Refinement then follows: `CommitPayment` is `Enter`, whose guards hold
because the status the handler read is still the loan's and because the unique key was
checked in the step itself; `DisburseLoan` is `Open`; a transition to a final status is
`Close`; everything else stutters. For `Acknowledged` the invariant is strengthened by a
witness, a payment index that stays valid because payments and device records only grow.
For `RetriesAccepted` it is strengthened by `RetryInv`: while a handler that found no
payment works, none is posted under its key on its loan, because whoever posts there holds
the row, which this handler has (`StillUnposted`), so no refusal it gives can concern a payment
that is in the books.

*Balances.* `BalanceAgrees` is about sums over tables, so each table gets a lemma that
says what one payment adds to its sum (`PaidAfterPayment`, `DueAfterCredit`), and the
three sums move by the same amount because the row's principal is by definition that of
the shares. To exclude the errors it is strengthened twice. `Sound`: no installment has
more principal paid than due, and a closed one has none left; then the walk takes at most
what is due (`WalkWithinDue`), and a schedule with principal due has an open installment
(`DueMeansOpen`). `OwesUntilClosed`: approved loans owe too, since disbursing makes them
payable. For the ledger the strengthening is `KeyedByPayment`: a ledger key of a payment
belongs to a payment that exists, so a new one is never taken for already posted.
For `LedgerTellsBalance` the same is needed of disbursements (`Referring`), approved loans
must not have been disbursed (`DisbursedOnce`), and then each account has a sum of its own
(`BookedAsPaid`): the receivable is the principal once, the credits are the principal of the
payments. `BalanceAgrees` joins the two. It bounds finding 2: the one account does not follow
the loans, the two accounts together do.

*Findings, bounded.* Three theorems have a hypothesis beyond the constants' assumptions.
`CompletedOwesNoPrincipal`: the status route lets staff complete a loan with any balance;
without that, what finding 1 refuses is interest and penalties, never principal, because
balance and schedule agree and no term of a sum of naturals exceeds it. The run
`debt_payable` satisfies the hypothesis. `DetectionServes`: the route admits "overdue"
(`state-machines.ts`), so `MarkOverdue` is a step of the status route and the rest of the
job touches no table. `PromptOneCollector`: `AssignmentManager.tsx` sends no dates ahead;
then of a client's assignments only one reaches beyond today (`PromptInv`), however often
rows are ended from a list out of date, and finding 5 is about dates to come only.
`CashCoversPayments` needs no hypothesis: nothing is attached for posting before the amounts
were found to add up (`Checked`; the quarantine skips that but never posts), what is attached
is a part of it, and before a decision all of it is there. So finding 3 can only move too
much cash, and only for a batch that needed no decision.

*Schedules.* A share lowers what its installment owes by what it takes
(`OwedAfterCredit`, in both charge columns), so the status decided before the commit is
the right one after it. An overpayment means that money was left before every installment
(`LeftAllAlong`), so each open one was settled; then nothing is due, the balance is 0 and
the same commit completes the loan, after which `StepKeepsClosed` keeps it so.

*Sums.* `Total` is a recursive function. Its equation is proved from the definition with a
principle of induction over sets of naturals (`SetInduction` in `SummationProofs`), which
quantifies over a set instead of an operator; `RunningTotalsAgree`, `TotalOfAppend`,
`TotalOfSums`, and the walk's own equation (`LeftEquation`) follow.

*Reconciliation.* `AtWork` says for each phase of a worker which row it holds, which
payments it has claimed and what of the tables it relies on; `TablesOk` says for each batch
row whether its submitter, reviewer and ledger entry fit its status, and for each ledger
entry that its charge is that of the payments in its batch. The two support each other: a
claim is exclusive, so the batch of a payment never changes, so an entry's charge stays
true; and the row is locked from the decision to the commit, so a decision is
taken once. That the pools receive no more than the charge is arithmetic on floors: `Fits`
bounds each share by its rate, and four rates of at most 10,000 basis points leave a profit
that is not negative. The refinement maps a row's status to the abstract verdict; `Hold`,
`Post` and `Reject` are the abstract actions, everything else stutters.

*Origination.* `HandlerOk` says of each handler what it holds and that what it has read is
still so; `ApplicationOk` says of each status what must be in the tables: verified from the
review on, assessed from the assessment on, approved by somebody else in the end.
`OneVerdict` holds because the client's row is held from the reading of its verdicts to the
writing of one. The refinement reads stage, approver and amount off the tables; a commit is
one abstract step, reading and waiting stutter. That an approval is by somebody else needs
`HandlerOk`: the form a decision was checked against is still the application's. The
timeline and the schedules have invariants of their own on top: a disbursement follows an
approval, after which no request can move the application (`CommittedTold`). Schedules are sums of equal
portions and a rest; `TotalOfSums` and its companions give their sums, and the order of days
is shown by the order of the month and day in a cycle.

*Cache.* `LoadOk` says that a load that has started in the current generation, when no
update waits to clear, has read the windows in force; so what `Stores` admits is current,
and the update makes `unclear` positive until the clear raises the generation. For the size
of the cache the insertion order must be a strict total order of the cached keys
(`Ordered`): then a full cache has an oldest entry (`FiniteHasLeast`, by induction on the
number of keys), and dropping it makes room.

*Queue.* `PostedKept` needs only that the pass never has a mark in hand that is untrue
(`MarkTrue`). What is left as Syncing needs the place of the pass: an undisturbed record, one
not in `cut`, has one copy (`OneCopy`), because a pass that crosses a change of user or
of storage cuts the record it is at; what is ahead of the pass still waits (`Ahead`); of the
record it is at, each phase knows what the storage shows (`AtRecord`). Together they are
inductive, `NoneLeft` with them, and a step that stores anything over a Posted record
would be one at a record that waits.

*Only model-checked.* `EveryRequestAnswered`, `CyclesEnd`, `RequestsEnd`, `PassesEnd` and
`RequestsAnswered` are liveness under fairness, which the prover does not do. Every other
property of the passing runs is proved. The proofs about `PaymentAllocation` are in
`LoanServicingProofs`, which uses them in every step that plans or commits a payment.

## 6. Not modelled, and why

Most of the repository's files are not programs with state of their own. Most of its lines
are user interface components, in three copies (`client/`, `artifacts/`,
`.import-backup/`), generated API clients and schemas (`lib/`), a preview application on
sample data (`artifacts/`), tooling for the editor, seeds and tests: none of it takes part in
the production path, or it renders what the server answers.

Of the server: reporting queries are read-only SQL over committed rows. Authentication is
Firebase's; role and branch checks are stateless predicates before the handlers, of which
the ones on branch, client, assignment and self-approval are modelled. Telemetry reads audit
rows and counters that nothing depends on. `workflow.ts` repeats the transition tables in
memory for unit tests. Configuration, pool settings and the running of migrations are
deployment.

Within modelled components: a repeated disbursement, which changes no table; the trimming of
keys; the batches on the device, which nothing creates; several tabs of one browser; the
advisory lock being lost with its connection while the cycle goes on, which is like one more
person making the same requests.
