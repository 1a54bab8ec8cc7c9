\* Two loans, two handlers, requests that share keys, receipts and device records,
\* and a collector whose assignment may lapse at any time.
CONSTANTS
  l1 = l1
  l2 = l2
  h1 = h1
  h2 = h2
  d1 = d1
  d2 = d2
  none = none
  Loans = {l1, l2}
  Handlers = {h1, h2}
  None = none
  Clients = {"ann"}
  Officers = {"cara"}
  DisbursementKeys = {d1, d2}
  StatusTargets = {"active", "overdue", "defaulted", "written_off", "completed"}
  Requests <- MCRequests
  Principal <- MCPrincipal
  NewSchedule <- MCNewSchedule
  ClientOf <- MCClientOf
  BranchOf <- MCBranchOf
SPECIFICATION Spec
SYMMETRY Symmetry
INVARIANTS
  TypeOK
  LocksHeld
  ReadsStayCurrent
  BalanceAgrees
  GuardsSilent
  LedgerTellsPayments
  LedgerTellsBalance
  PayableOwes
  OverpaidMeansSettled
  OpenIffOwing
  AckedMeansPosted
  CapturesTellPayments
PROPERTIES
  ClosedLoansStayClosed
  ImplementsBook
  RetriesNotRefused
