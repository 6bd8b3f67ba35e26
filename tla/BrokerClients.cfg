\* Nodes only: three connections, one service name to compete for.
CONSTANTS
  Conns <- MCConns
  Clients = {c1, c2, c3}
  Slaves = {}
  OwnSlaves = {o1}
  Nodes = {}
  NoNode = NoNode
  Names = {svc}
  NoName = NoName
  Msgs = {1}
  MaxId = 6
  NoConn = NoConn
  HostLength = 6
  RouteDests = {}
  MaxQueue = 1
  MaxBreaks = 2
SPECIFICATION Spec
SYMMETRY Symmetry
INVARIANTS
  TypeOK
  NamesUnique
  TablesMatchSessions
  IdsDistinctUnlessWrapped
PROPERTIES
  ImplementsRegistry
CHECK_DEADLOCK FALSE
