\* Two sockets, silent or not, for a few seconds of two ticks.
CONSTANTS
  MaxUsers = 2
  Second = 2
  Timeout = 2
  Period = 1
  MaxClock = 7

SPECIFICATION FairSpec
CHECK_DEADLOCK FALSE

INVARIANTS
  OneNodePerSocket
  ClosedOnlyIfSilent
  SilentAreClosed
  EachTimerOnce
PROPERTIES
  StopReturns
