\* Two or three messages each way, with every way the kernel may split them.
CONSTANTS
  MaxGiven = 3
  MaxHeard = 2
  RecvSize = 2
  MaxTasks = 1
SPECIFICATION FairSpec
INVARIANTS
  BytesInOrder
  NoEventLost
PROPERTIES
  ImplementsLink
  BreakIsTold
CHECK_DEADLOCK FALSE
