\* Two keys crossed over two loans: handlers wait for each other.
CONSTANTS
  l1 = l1
  l2 = l2
  h1 = h1
  h2 = h2
  d1 = d1
  d2 = d2
  none = none
  Loans = {l1, l2}
  Handlers = {h1, h2}
  None = none
  Clients = {"ann"}
  Officers = {}
  DisbursementKeys = {d1, d2}
  StatusTargets = {}
  Requests <- MCCrossedRequests
  Principal <- MCPrincipal
  NewSchedule <- MCNewSchedule
  ClientOf <- MCClientOf
  BranchOf <- MCBranchOf
SPECIFICATION FairSpec
PROPERTIES
  EveryRequestAnswered
