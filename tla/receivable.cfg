\* Disbursement debits an account no payment credits.
CONSTANTS
  l1 = l1
  l2 = l2
  h1 = h1
  h2 = h2
  d1 = d1
  d2 = d2
  none = none
  Loans = {l1, l2}
  Handlers = {h1, h2}
  None = none
  Clients = {"ann"}
  Officers = {"cara"}
  DisbursementKeys = {d1, d2}
  StatusTargets = {"overdue"}
  Requests <- MCRequests
  Principal <- MCPrincipal
  NewSchedule <- MCNewSchedule
  ClientOf <- MCClientOf
  BranchOf <- MCBranchOf
SPECIFICATION Spec
SYMMETRY Symmetry
INVARIANTS
  ReceivableIsOutstanding
