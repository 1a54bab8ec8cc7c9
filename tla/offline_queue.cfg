\* One collection, two collectors who share a device, three events from outside.
CONSTANTS
  r1 = r1
  ann = ann
  bob = bob
  nobody = nobody
  none = none
  Records = {r1}
  Users = {ann, bob}
  Anonymous = nobody
  None = none
  MaxEvents = 3
CHECK_DEADLOCK FALSE
SPECIFICATION FairSpec
INVARIANTS
  TypeOK
  PostedIsPosted
  SyncingIsBeingSent
PROPERTIES
  PostedStaysPosted
  PassesEnd
