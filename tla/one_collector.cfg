\* Two collectors, one client and route, four days.
CONSTANTS
  ann = ann
  bob = bob
  client = client
  route = route
  never = never
  Officers = {ann, bob}
  Clients = {client}
  Routes = {route}
  LastDay = 3
  Never = never
SPECIFICATION Spec
INVARIANT OneOpenAssignment
