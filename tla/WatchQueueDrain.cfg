CONSTANTS
  SEG = 1
  NSEG = 2
  InflightLimit = 1
  MaxIssued = 2
  Faults = FALSE
  Down = {"drain"}
SPECIFICATION Spec
INVARIANT
  DrainedMeansAllDone
CHECK_DEADLOCK FALSE
