\* Two payments, two managers' requests beside the job, one reference by hand and one of the job.
CONSTANTS
  h1 = h1
  h2 = h2
  job = job
  none = none
  Facts <- MCFacts
  Branches = {"north", "south"}
  References = {"m1", "auto"}
  Handlers = {h1, h2}
  Job = job
  Staff = {"mia", "max"}
  Requests <- MCRequests
  JobActor = "max"
  JobPolicy = "v1"
  AutoReference <- MCAutoReference
  ExpectedAmounts = {60}
  Rates <- MCRates
  Funded = {"north"}
  None = none
SPECIFICATION FairSpec
INVARIANTS
  TypeOK
  LedgerTellsBatches
  ChargesRealizedOnce
  TwoPeople
  LocksHeld
PROPERTIES
  ImplementsReview
  CyclesEnd
