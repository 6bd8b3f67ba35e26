\* A message name no node has registered.
CONSTANTS
  Conns <- MCConns
  Nodes <- MCNodes
  Owner <- MCOwner
  Service <- MCService
  Interfaces <- MCInterfaces
  Calls <- WrongName
  Caller <- MCCaller
  Target <- MCTarget
  Message <- MCMessage
  echo = echo
  cli = cli
  first = first
  second = second
  CliService = NoName
  CliMsgs = {}
  EchoConns = 1
  CliConns = 1
  NoNode = NoNode
  Names = {"echo"}
  NoName = NoName
  Msgs = {1, 2}
  MaxId = 9
  NoConn = NoConn
  Local = {}
  Throwing = {}
  Failing = {}
  FirstCallbackId = 0
  MaxFailures = 0
  Breakable = {}
  MaxBreaks = 0
SPECIFICATION Spec
INVARIANTS
  CallbackGetsAnswer
CHECK_DEADLOCK FALSE
