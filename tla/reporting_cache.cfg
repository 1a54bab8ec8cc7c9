\* Three dashboards in a cache of two, two requests at a time, one update of the windows.
CONSTANTS
  c1 = c1
  c2 = c2
  north = north
  south = south
  east = east
  none = none
  Callers = {c1, c2}
  Keys = {north, south, east}
  TTL = 2
  MaxEntries = 2
  None = none
  MaxUpdates = 1
SPECIFICATION FairSpec
INVARIANTS
  TypeOK
  WindowsCurrent
  LoadsShared
PROPERTIES
  RequestsAnswered
