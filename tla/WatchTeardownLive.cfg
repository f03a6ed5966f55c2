CONSTANTS
  N = 1
  Users = {"u1"}
  Actions = {"abort", "report"}
  MaxCalls = 1
SPECIFICATION FairSpec
PROPERTIES ExitEnds StopStops
CHECK_DEADLOCK FALSE
