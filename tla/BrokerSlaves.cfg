\* Two slave brokers and two nodes that also route messages; the fourth id
\* handed out is the first after the wrap.
CONSTANTS
  Conns <- MCConns
  Clients = {c1, c2}
  Slaves = {s1, s2}
  OwnSlaves = {}
  Nodes = {}
  NoNode = NoNode
  Names = {}
  NoName = NoName
  Msgs = {}
  MaxId = 3
  NoConn = NoConn
  HostLength = 6
  RouteDests = {2}
  MaxQueue = 1
  MaxBreaks = 1
SPECIFICATION Spec
SYMMETRY Symmetry
INVARIANTS
  PeersInSync
  NoDanglingSock
  BoundToLiveBroker
  ClientIdToldToOwner
CHECK_DEADLOCK FALSE
