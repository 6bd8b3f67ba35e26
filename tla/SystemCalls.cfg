\* Calls of a client and of the service itself: one with an unknown message
\* name, one with a callback that throws and one whose interface throws; the
\* first callback of each node has the number of a command; nothing breaks.
CONSTANTS
  Conns <- MCConns
  Nodes <- MCNodes
  Owner <- MCOwner
  Service <- MCService
  Interfaces <- MCInterfaces
  Calls <- AllKinds
  Caller <- MCCaller
  Target <- MCTarget
  Message <- MCMessage
  echo = echo
  cli = cli
  first = first
  second = second
  CliService = NoName
  CliMsgs = {}
  EchoConns = 1
  CliConns = 1
  NoNode = NoNode
  Names = {"echo"}
  NoName = NoName
  Msgs = {1, 2}
  MaxId = 9
  NoConn = NoConn
  Local = {}
  Throwing <- OneCall
  Failing <- EchoCall
  FirstCallbackId = 4
  MaxFailures = 0
  Breakable = {}
  MaxBreaks = 0
SPECIFICATION FairSpec
INVARIANTS
  CallsInOrder
PROPERTIES
  EveryCallEnds
  OpenEnds
CHECK_DEADLOCK FALSE
