CONSTANTS
  SEG = 1
  NSEG = 2
  InflightLimit = 1
  MaxIssued = 3
  Faults = FALSE
  Down = {}
SPECIFICATION Spec
INVARIANT
  LineNamesItsEntry
CHECK_DEADLOCK FALSE
