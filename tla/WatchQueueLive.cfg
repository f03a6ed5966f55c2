CONSTANTS
  SEG = 2
  NSEG = 2
  InflightLimit = 2
  MaxIssued = 3
  Faults = TRUE
  Down = {"drain", "exit", "abort"}
SPECIFICATION FairSpec
INVARIANT
  DoneIsComplete
PROPERTIES
  CommitReturns
  FinishedIsStamped
CHECK_DEADLOCK FALSE
