\* Three threads, one of which takes all tasks at once, run a queue that may be closed.
CONSTANTS
  Tasks = {k1, k2, k3}
  Threads = {t1, t2, t3}
  Batching = {t1}
  MaxBatch = 2
SPECIFICATION FairSpec
INVARIANTS
  NobodyLeftAsleep
  EachTaskOnce
  InOrder
PROPERTIES
  OnTimeTasksRun
  ThreadsEnd
CHECK_DEADLOCK FALSE
