CONSTANTS
  Size = 2
  MaxRec = 3
  MaxCalls = 3
  Stampers = {"dog"}
SPECIFICATION Spec
INVARIANTS
  SlotsUnmixed
  SnapshotWhole
  StampNotLost
  ChildSnapshotComplete
PROPERTIES
  FirstStampStays
CHECK_DEADLOCK FALSE
