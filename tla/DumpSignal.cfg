CONSTANTS
  MaxGen = 2
  MaxTrouble = 1
  MaxAttach = 1
SPECIFICATION FairSpec
INVARIANTS AckMeansDump NoGenerationLost
PROPERTIES SignalServed
CHECK_DEADLOCK FALSE
