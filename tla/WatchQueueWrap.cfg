CONSTANTS
  SEG = 1
  NSEG = 3
  InflightLimit = 2
  MaxIssued = 4
  Faults = FALSE
  Down = {"drain"}
SPECIFICATION Spec
INVARIANTS
  RetiredOnlyWhenComplete
  InFlightIntact
  IncidentUntorn
  CommitAccounted
PROPERTIES
  ReportedOnce
  CallsKept
CHECK_DEADLOCK FALSE
