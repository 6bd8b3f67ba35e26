\* Connections break, connecting fails, and nodes register again; the client lives in
\* the broker's process, so that its answers come in memory.
CONSTANTS
  Conns <- MCConns
  Nodes <- MCNodes
  Owner <- MCOwner
  Service <- MCService
  Interfaces <- MCInterfaces
  Calls <- TwoCalls
  Caller <- MCCaller
  Target <- MCTarget
  Message <- MCMessage
  echo = echo
  cli = cli
  first = first
  second = second
  CliService = "other"
  CliMsgs = {1}
  EchoConns = 2
  CliConns = 3
  NoNode = NoNode
  Names = {"echo", "other"}
  NoName = NoName
  Msgs = {1, 2}
  MaxId = 9
  NoConn = NoConn
  Local = {cli}
  Throwing = {}
  Failing = {}
  FirstCallbackId = 0
  MaxFailures = 1
  Breakable = {echo, cli}
  MaxBreaks = 1
SPECIFICATION Spec
SYMMETRY Symmetry
CONSTRAINTS
  OneOfThree
  MadeInOrder
INVARIANTS
  ServedByTarget
  NamesCurrent
  CallbackGetsAnswer
PROPERTIES
  ImplementsContract
CHECK_DEADLOCK FALSE
