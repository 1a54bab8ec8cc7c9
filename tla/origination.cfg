\* Two applications of one client, two managers, two requests at a time.
CONSTANTS
  client = client
  first = first
  second = second
  mia = mia
  max = max
  h1 = h1
  h2 = h2
  None = None
  Clients = {client}
  Applications = {first, second}
  Users = {mia, max}
  Handlers = {h1, h2}
  Forms <- MCForms
  Requests <- MCRequests
  ApprovalDays <- MCApprovalDays
SPECIFICATION FairSpec
INVARIANTS
  TypeOK
  ReadsStayCurrent
  OneVerdict
  Underwritten
  TimelineTellsStatus
  SchedulesRepay
PROPERTIES
  RequestsEnd
  ImplementsUnderwriting
