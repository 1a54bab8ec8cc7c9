\* A payment sent in two batches at once.
CONSTANTS
  h1 = h1
  h2 = h2
  job = job
  none = none
  Facts <- MCFacts
  Branches = {"north", "south"}
  References = {"m1", "auto"}
  Handlers = {h1, h2}
  Job = job
  Staff = {"mia", "max"}
  Requests <- MCRequests
  JobActor = "max"
  JobPolicy = "v1"
  AutoReference <- MCAutoReference
  ExpectedAmounts = {60}
  Rates <- MCRates
  Funded = {"north"}
  None = none
SPECIFICATION Spec
SYMMETRY Symmetry
INVARIANT CashTellsPayments
