CONSTANTS
  MaxJobs = 3
  MaxGen = 5
  Values = {"true", "false"}
  Limits = {0, 1}
  Comms = {"a", "b"}
  MaxIncidents = 2
  Tries = 2
  MaxErrors = 1
SPECIFICATION FairDesync
INVARIANTS
  EndedMeansEmpty
PROPERTIES
  CallsBounded
  IndexForward
  IncidentAcked
CHECK_DEADLOCK FALSE
