---------------------------- MODULE BrokerPeers ----------------------------
(***************************************************************************)
(* The master broker among peers that connect, register, route messages,   *)
(* read what they are sent and disappear, at any moment.                   *)
(***************************************************************************)
EXTENDS Broker

CONSTANTS Clients,      \* connections of ffrpc_t nodes
          Slaves,       \* connections of slaves that send BROKER_SLAVE_REGISTER
          OwnSlaves,    \* connections made by connect_to_master_broker
          HostLength,   \* the length of the host a slave of the repository sends
          RouteDests,   \* the node ids messages are routed to
          MaxQueue,     \* bound: messages waiting on one connection
          MaxBreaks     \* bound: connections that peers or the network break

ASSUME PeersAssumption == /\ Conns = Clients \cup Slaves \cup OwnSlaves
                          /\ HostLength \in Nat \ {0}
                          /\ RouteDests \subseteq Nat
                          /\ MaxQueue \in Nat /\ MaxBreaks \in Nat

VARIABLES told,     \* told[c]: the last non-zero node_id c's peer was sent
          view      \* view[c]: the last tables c's peer has read, or none

vars == <<netVars, routeVars, brokerVars, told, view>>

NoView == [cmd |-> "none"]

Init == /\ NetInit /\ RouteInit /\ BrokerInit
        /\ told = [c \in Conns |-> 0]
        /\ view = [c \in Conns |-> NoView]

(* The message a new connection starts with.  The repository's slave sends *)
(* its host under CLIENT_REGISTER_TO_SLAVE_BROKER; the first four bytes of *)
(* the body, the length of the host, are decoded as the node id.           *)
FirstMsgs(c) ==
  IF c \in Clients
  THEN {RegisterClient(name, names) : name \in Names \cup {NoName}, names \in SUBSET Msgs}
  ELSE IF c \in Slaves THEN {RegisterSlave}
  ELSE {RegisterToSlave(HostLength)}

PeerConnects(c) == /\ \E m \in FirstMsgs(c) : ConnectAndSend(c, m)
                   /\ UNCHANGED <<toNode, deleted, routeVars, brokerVars, told, view>>

(* A node that knows its id routes a message to another node id.           *)
PeerRoutes(c) == /\ c \in Clients /\ told[c] # 0
                 /\ link[c] = "open" /\ Len(toBroker[c]) < MaxQueue
                 /\ \E dest \in RouteDests :
                      /\ dest \in DOMAIN m_broker_client_info =>
                           Len(toNode[m_broker_client_info[dest].sock]) < MaxQueue
                      /\ toBroker' = SentToBroker(c,
                           RouteMsg(Route(told[c], dest, 0, 0, 0), "socket"))
                 /\ UNCHANGED <<link, toNode, deleted, routeVars, brokerVars, told, view>>

(* The tables c was last sent, read or still on their way.                 *)
SyncsAt(c) == {k \in 1..Len(toNode[c]) : toNode[c][k].cmd = "BROKER_SYNC_DATA_MSG"}

LastSync(c) == IF SyncsAt(c) = {} THEN view[c] ELSE toNode[c][Max(SyncsAt(c))]

(* The peer reads all that has arrived.                                    *)
NodeIdsSent(c) == {k \in SyncsAt(c) : toNode[c][k].node_id # 0}

PeerReads(c) ==
  /\ toNode[c] # <<>>
  /\ view' = [view EXCEPT ![c] = LastSync(c)]
  /\ told' = [told EXCEPT ![c] = IF NodeIdsSent(c) = {} THEN @
                                 ELSE toNode[c][Max(NodeIdsSent(c))].node_id]
  /\ toNode' = [toNode EXCEPT ![c] = <<>>]
  /\ UNCHANGED <<link, toBroker, deleted, routeVars, brokerVars>>

PeerBreaks(c) == /\ Cardinality({d \in Conns : link[d] = "broken"}) < MaxBreaks
                 /\ Break(c)
                 /\ UNCHANGED <<routeVars, brokerVars, told, view>>

Next == \E c \in Conns : \/ BrokerStep(c) /\ UNCHANGED <<told, view>>
                         \/ PeerConnects(c)
                         \/ PeerRoutes(c)
                         \/ PeerReads(c)
                         \/ PeerBreaks(c)

Spec == Init /\ [][Next]_vars

-----------------------------------------------------------------------------
(* The types of the messages, and the state has its types: a map's keys    *)
(* are ids the broker has handed out, never the master's 0.                *)
Routes == [from_node_id : Ids, dest_node_id : Nat, msg_id : Nat,
           callback_id : Nat, body : Nat]

MsgsToBroker ==
  [cmd : {"BROKER_SLAVE_REGISTER"}]
  \cup [cmd : {"BROKER_CLIENT_REGISTER"}, service_name : Names \cup {NoName},
        msg_names : SUBSET Msgs]
  \cup [cmd : {"CLIENT_REGISTER_TO_SLAVE_BROKER"}, node_id : Nat]
  \cup [cmd : {"BROKER_ROUTE_MSG"}, route : Routes, via : {"socket"}]

TypeOK == /\ link \in [Conns -> {"unused", "open", "broken"}]
          /\ toBroker \in [Conns -> Seq(MsgsToBroker)]
          /\ \A c \in Conns : \A k \in 1..Len(toNode[c]) : TypedSync(toNode[c][k])
          /\ deleted \subseteq Sides \X Conns
          /\ BrokerTyped
          /\ told \in [Conns -> Ids]

(* No two registered nodes have the same service name, whatever order      *)
(* registrations and disconnections come in: a name is how a caller finds  *)
(* the one node to ask.                                                    *)
NamesUnique ==
  \A i, j \in DOMAIN m_broker_client_info :
    /\ m_broker_client_info[i].service_name = m_broker_client_info[j].service_name
    /\ m_broker_client_info[i].service_name # NoName
    => i = j

(* As long as alloc_id has not wrapped, the tables and the sessions of the *)
(* sockets say the same: an entry's socket has a session with the entry's  *)
(* id and has not been deleted, and a session's id is in exactly one table,*)
(* with that socket.  handle_broken erases by the session's id.            *)
SessionsLive == \A c \in Conns : session[c] # 0 => <<"broker", c>> \notin deleted

TablesMatchSessions == NotWrapped => EntriesOwned /\ SessionsEntered /\ SessionsLive

(* No table of the broker holds a socket object the broker has deleted:    *)
(* the next synchronisation would send through a dangling pointer.         *)
NoDanglingSock ==
  /\ \A i \in DOMAIN m_broker_client_info :
       <<"broker", m_broker_client_info[i].sock>> \notin deleted
  /\ \A i \in DOMAIN m_slave_broker_sockets :
       <<"broker", m_slave_broker_sockets[i]>> \notin deleted

(* Node ids and message ids come from one counter: no id is given to two   *)
(* nodes, to two messages, or to a node and a message at once.             *)
IdsDistinctUnlessWrapped == NotWrapped => IdsDistinct

(* A client is bound to a registered slave, or to the master when no slave *)
(* was there at the last synchronisation: a disconnecting slave takes none *)
(* of its clients with it.                                                 *)
BoundToLiveBroker ==
  \A i \in DOMAIN m_broker_client_info :
    IF DOMAIN m_slave_broker_sockets = {}
    THEN m_broker_client_info[i].bind_broker_id = BROKER_MASTER_NODE_ID
    ELSE m_broker_client_info[i].bind_broker_id \in DOMAIN m_slave_broker_sockets

(* What a registered peer was last sent, read or still on its way, is what *)
(* the broker's tables hold now: no change of the tables goes unannounced. *)
Registered(c) == \/ \E i \in DOMAIN m_broker_client_info : m_broker_client_info[i].sock = c
                 \/ \E i \in DOMAIN m_slave_broker_sockets : m_slave_broker_sockets[i] = c

PeersInSync ==
  \A c \in Conns :
    Registered(c) /\ link[c] = "open" =>
      LET current == SyncData(0, m_msg2id, DOMAIN m_slave_broker_sockets, m_broker_client_info)
      IN [LastSync(c) EXCEPT !.node_id = 0] = current

(* As long as alloc_id has not wrapped, the id of a node is told to that    *)
(* node alone, whatever slaves come and go: msg.node_id is not reset while *)
(* the handler goes through its tables, and a node's entry is the last.    *)
ClientIdToldToOwner ==
  NotWrapped =>
    \A c \in Conns : \A k \in NodeIdsSent(c) : \A d \in Clients :
      toNode[c][k].node_id = session[d] => c = d

(* The broker keeps the promise of Registry: a registered node stays under *)
(* its name until its connection breaks, and no other takes the name.      *)
StageOf(c) == IF \E i \in DOMAIN m_broker_client_info : m_broker_client_info[i].sock = c
              THEN "in"
              ELSE IF <<"broker", c>> \in deleted THEN "gone" ELSE "out"

NameOf(c) == IF StageOf(c) = "in"
             THEN m_broker_client_info[CHOOSE i \in DOMAIN m_broker_client_info :
                                         m_broker_client_info[i].sock = c].service_name
             ELSE NoName

Reg == INSTANCE Registry WITH Peers <- Clients,
                              stage <- [c \in Clients |-> StageOf(c)],
                              name  <- [c \in Clients |-> NameOf(c)]

ImplementsRegistry == Reg!Spec

=============================================================================
