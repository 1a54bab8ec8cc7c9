\* The job and payments; nobody else marks a loan overdue.
CONSTANTS
  l1 = l1
  l2 = l2
  h1 = h1
  h2 = h2
  d1 = d1
  d2 = d2
  none = none
  Loans = {l1, l2}
  Handlers = {h1, h2}
  None = none
  Clients = {"ann"}
  Officers = {}
  DisbursementKeys = {d1, d2}
  StatusTargets = {"active"}
  Requests <- MCInstallments
  Principal <- MCPrincipal
  NewSchedule <- MCNewSchedule
  ClientOf <- MCClientOf
  BranchOf <- MCBranchOf
  PastDue <- MCPastDue
SPECIFICATION DetectSpec
INVARIANT OverdueMeansPastDue
