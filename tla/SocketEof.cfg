\* The peer sends and shuts down at once.
CONSTANTS
  MaxGiven = 0
  MaxHeard = 1
  RecvSize = 2
  MaxTasks = 0
SPECIFICATION FairSpec
PROPERTIES
  BreakTold
CHECK_DEADLOCK FALSE
