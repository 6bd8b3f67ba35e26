\* Two threads of the pool, an acceptor and two sockets.
CONSTANTS
  ThreadNum = 2
  Acceptors = {a1}
  a1 = a1
  MaxFds = 2
  MaxTasks = 2

SPECIFICATION FairSpec
CHECK_DEADLOCK FALSE

INVARIANTS
  SocketInOrder
  NothingDropped
  EveryConnectionSeen
PROPERTIES
  StopReturns
