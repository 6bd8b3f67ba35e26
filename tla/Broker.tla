------------------------------- MODULE Broker -------------------------------
(***************************************************************************)
(* The master broker, ffbroker_t: one action per handler that its task     *)
(* queue thread runs.  A handler is atomic, for the thread is the only one *)
(* that touches the tables; what peers do between two handlers is in the   *)
(* modules that compose this one with them.                                *)
(*                                                                         *)
(* uint32_t values are 0..MaxId, with MaxId = 2^32 - 1 in the build.  Hosts*)
(* are left out, and message names are numbers in their std::set order.    *)
(***************************************************************************)
EXTENDS Network, MemoryRoute, FiniteSets, FiniteSetsExt

CONSTANTS Names,    \* the service names
          NoName,   \* the empty service name of a pure client
          Msgs,     \* the message names
          MaxId     \* the largest uint32_t

ASSUME BrokerAssumption == /\ Msgs \subseteq Nat /\ IsFiniteSet(Msgs)
                           /\ MaxId \in Nat /\ Cardinality(Msgs) < MaxId
                           /\ NoName \notin Names

VARIABLES m_node_id_index,
          m_alloc_slave_broker_index,
          m_slave_broker_sockets,   \* node id -> socket
          m_broker_client_info,     \* node id -> bound broker, name, socket
          m_msg2id,                 \* message name -> message id
          session,                  \* the node id in a socket's session, or 0
          allocs                    \* history: ids handed out so far

brokerVars == <<m_node_id_index, m_alloc_slave_broker_index,
                m_slave_broker_sockets, m_broker_client_info, m_msg2id,
                session, allocs>>

BrokerInit == /\ m_node_id_index = 0
              /\ m_alloc_slave_broker_index = 0
              /\ m_slave_broker_sockets = [i \in {} |-> NoConn]
              /\ m_broker_client_info = [i \in {} |-> NoConn]
              /\ m_msg2id = [m \in {} |-> 0]
              /\ session = [c \in Conns |-> 0]
              /\ allocs = 0

(* Mutant: the index is incremented after it is read.                      *)
alloc_id_post(k) == m_node_id_index + k - 1

(* The k-th value alloc_id returns from now on, k > 0: it skips 0.         *)
alloc_id(k) == IF m_node_id_index + k > MaxId
               THEN m_node_id_index + k - MaxId
               ELSE m_node_id_index + k

(* k calls of alloc_id have been made.                                     *)
Allocated(k) == /\ m_node_id_index' = IF k = 0 THEN m_node_id_index ELSE alloc_id(k)
                /\ allocs' = allocs + k

-----------------------------------------------------------------------------
(* Choosing the broker a client's messages travel through.                 *)

Wrap(i) == i % (MaxId + 1)

(* Mutant: any node of this process will do.                               *)
NodesHere(slaves) == get_node_same_process

SlavesHere(slaves) == slaves \cap get_node_same_process

(* alloc_broker_id for the k-th call of a handler, k from 0: a slave of    *)
(* this process, else the slaves in turn, else the master.                 *)
alloc_broker_id(slaves, k) ==
  IF SlavesHere(slaves) # {} THEN Min(SlavesHere(slaves))
  ELSE IF slaves = {} THEN BROKER_MASTER_NODE_ID
  ELSE LET index == Wrap(m_alloc_slave_broker_index + k) % Cardinality(slaves)
       IN CHOOSE s \in slaves : Cardinality({t \in slaves : t < s}) = index

(* The index after k such calls.                                           *)
IndexAfter(slaves, k) ==
  IF slaves = {} \/ SlavesHere(slaves) # {} THEN m_alloc_slave_broker_index
  ELSE Wrap(m_alloc_slave_broker_index + k)

(* Mutant: bindings are never looked at again.                             *)
NoStaleBinds(clients, slaves) == {}

StaleBinds(clients, slaves) ==
  {i \in DOMAIN clients : clients[i].bind_broker_id \notin slaves}

(* The clients with every stale binding replaced, in the order of the map, *)
(* the handler having made k calls of alloc_broker_id before.              *)
Rebound(clients, slaves, k) ==
  LET stale == StaleBinds(clients, slaves)
      nth(i) == k + Cardinality({j \in stale : j < i})
  IN [i \in DOMAIN clients |->
        IF i \in stale
        THEN [clients[i] EXCEPT !.bind_broker_id = alloc_broker_id(slaves, nth(i))]
        ELSE clients[i]]

-----------------------------------------------------------------------------
(* The message every peer gets: who has which id, and for one peer its own.*)
SyncData(id, msg2id, slaves, clients) ==
  [cmd |-> "BROKER_SYNC_DATA_MSG", node_id |-> id, msg2id |-> msg2id,
   slave_broker_info |-> slaves,
   broker_client_info |-> [i \in DOMAIN clients |->
       [bind_broker_id |-> clients[i].bind_broker_id,
        service_name   |-> clients[i].service_name]]]

(* Mutant: only the slave brokers are told.                                *)
EntriesOfSlaves(slaves, clients) == (DOMAIN slaves) \X {0}

(* The sends of one synchronisation, in order: the slaves, then the        *)
(* clients, each by node id.                                               *)
Entries(slaves, clients) == ((DOMAIN slaves) \X {0}) \cup ((DOMAIN clients) \X {1})

EntrySock(slaves, clients, e) ==
  IF e[2] = 0 THEN slaves[e[1]] ELSE clients[e[1]].sock

NotAfter(e, f) == e[2] < f[2] \/ (e[2] = f[2] /\ e[1] <= f[1])

(* Mutants: the id goes to everyone, or to no one.                         *)
NodeIdToAll(e, c, id, slaves, clients) == id
NodeIdToNone(e, c, id, slaves, clients) == 0

(* msg.node_id when it is sent for entry e: set at the entry of the socket *)
(* c that has just registered as id, and never reset.                      *)
NodeIdAt(e, c, id, slaves, clients) ==
  IF \E f \in Entries(slaves, clients) :
        NotAfter(f, e) /\ EntrySock(slaves, clients, f) = c
  THEN id ELSE 0

(* Mutant: the message is filled before stale bindings are replaced.       *)
sync_before_rebind(c, id, msg2id, slaves, clients, k) ==
  LET dest(d) == {e \in Entries(slaves, clients) : EntrySock(slaves, clients, e) = d}
      msg(d)  == LET e == CHOOSE e \in dest(d) : TRUE
                 IN SyncData(NodeIdAt(e, c, id, slaves, clients), msg2id,
                             DOMAIN slaves, clients)
  IN /\ m_broker_client_info' = Rebound(clients, DOMAIN slaves, k)
     /\ m_alloc_slave_broker_index' =
          IndexAfter(DOMAIN slaves, k + Cardinality(StaleBinds(clients, DOMAIN slaves)))
     /\ toNode' = SentToNodes({d \in Conns : dest(d) # {}}, [d \in Conns |-> msg(d)])

(* sync_all_register_info(c), c being the socket of node id, or NoConn.    *)
(* The handler has called alloc_broker_id k times before.                  *)
sync_all_register_info(c, id, msg2id, slaves, clients, k) ==
  LET now == Rebound(clients, DOMAIN slaves, k)
      dest(d) == {e \in Entries(slaves, now) : EntrySock(slaves, now, e) = d}
      msg(d)  == LET e == CHOOSE e \in dest(d) : TRUE
                 IN SyncData(NodeIdAt(e, c, id, slaves, now), msg2id,
                             DOMAIN slaves, now)
  IN /\ m_broker_client_info' = now
     /\ m_alloc_slave_broker_index' =
          IndexAfter(DOMAIN slaves, k + Cardinality(StaleBinds(clients, DOMAIN slaves)))
     /\ toNode' = SentToNodes({d \in Conns : dest(d) # {}}, [d \in Conns |-> msg(d)])

-----------------------------------------------------------------------------
(* Handlers.  Each takes the first message of a connection.                *)
Receives(c, cmd) == /\ toBroker[c] # <<>>
                    /\ Head(toBroker[c]).cmd = cmd

Consumed(c) == toBroker' = [toBroker EXCEPT ![c] = Tail(@)]

handle_slave_register(c) ==
  /\ Receives(c, "BROKER_SLAVE_REGISTER")
  /\ LET slaves == Insert(m_slave_broker_sockets, alloc_id(1), c)
     IN /\ m_slave_broker_sockets' = slaves
        /\ session' = [session EXCEPT ![c] = alloc_id(1)]
        /\ Allocated(1)
        /\ sync_all_register_info(c, alloc_id(1), m_msg2id, slaves,
                                  m_broker_client_info, 0)
  /\ Consumed(c)
  /\ UNCHANGED <<m_msg2id, link, deleted, routeVars>>

(* Mutant: only the latest registration is looked at.                      *)
NameTakenLately(name) == /\ name # NoName
                         /\ m_node_id_index \in DOMAIN m_broker_client_info
                         /\ m_broker_client_info[m_node_id_index].service_name = name

NameTaken(name) == /\ name # NoName
                   /\ \E i \in DOMAIN m_broker_client_info :
                        m_broker_client_info[i].service_name = name

(* Mutant: the first message id is the client's own id.                    *)
NewMsgIdsFromOwn(names) ==
  LET new == names \ DOMAIN m_msg2id
  IN [m \in DOMAIN m_msg2id \cup new |->
        IF m \in new THEN alloc_id(Cardinality({x \in new : x <= m}))
        ELSE m_msg2id[m]]

(* The ids for the message names nobody has registered before: the ones    *)
(* after the client's own, in the order of the set.                        *)
NewMsgIds(names) ==
  LET new == names \ DOMAIN m_msg2id
  IN [m \in DOMAIN m_msg2id \cup new |->
        IF m \in new THEN alloc_id(1 + Cardinality({x \in new : x <= m}))
        ELSE m_msg2id[m]]

handle_client_register(c) ==
  /\ Receives(c, "BROKER_CLIENT_REGISTER")
  /\ LET msg    == Head(toBroker[c])
         id     == alloc_id(1)
         slaves == DOMAIN m_slave_broker_sockets
         info   == [bind_broker_id |-> alloc_broker_id(slaves, 0),
                    service_name   |-> msg.service_name,
                    sock           |-> c]
     IN /\ ~NameTaken(msg.service_name)
        /\ session' = [session EXCEPT ![c] = id]
        /\ m_msg2id' = NewMsgIds(msg.msg_names)
        /\ Allocated(1 + Cardinality(msg.msg_names \ DOMAIN m_msg2id))
        /\ sync_all_register_info(c, id, m_msg2id', m_slave_broker_sockets,
             Insert(m_broker_client_info, id, info), 1)
  /\ Consumed(c)
  /\ UNCHANGED <<m_slave_broker_sockets, link, deleted, routeVars>>

(* The name is taken: the socket is closed, and has no session.            *)
reject_client_register(c) ==
  /\ Receives(c, "BROKER_CLIENT_REGISTER")
  /\ NameTaken(Head(toBroker[c]).service_name)
  /\ IF link[c] = "open" THEN CloseWith(c, Tail(toBroker[c]))
     ELSE Consumed(c) /\ UNCHANGED <<link, toNode>>
  /\ UNCHANGED <<brokerVars, deleted, routeVars>>

handle_client_register_slave_broker(c) ==
  /\ Receives(c, "CLIENT_REGISTER_TO_SLAVE_BROKER")
  /\ LET id == Head(toBroker[c]).node_id
     IN m_broker_client_info' =
          IF id \in DOMAIN m_broker_client_info
          THEN [m_broker_client_info EXCEPT ![id].sock = c]
          ELSE m_broker_client_info
  /\ Consumed(c)
  /\ UNCHANGED <<m_node_id_index, m_alloc_slave_broker_index,
                 m_slave_broker_sockets, m_msg2id, session, allocs,
                 link, toNode, deleted, routeVars>>

(* route_msg_to_broker_client: in memory if the table has the node, else   *)
(* to the socket registered under the id, else nowhere.                    *)
handle_route_msg(c) ==
  /\ Receives(c, "BROKER_ROUTE_MSG")
  /\ LET r    == Head(toBroker[c]).route
         dest == r.dest_node_id
     IN /\ broker_route_to_client(r)
        /\ toNode' =
             IF LocalNode(dest) = NoNode /\ dest \in DOMAIN m_broker_client_info
             THEN SentToNodes({m_broker_client_info[dest].sock},
                              [d \in Conns |-> ToClient(r)])
             ELSE toNode
  /\ Consumed(c)
  /\ UNCHANGED <<brokerVars, link, deleted>>

(* Mutant: the entry stays.                                                *)
EraseNothing(m, k) == m

(* std::map::erase.                                                        *)
Erase(m, k) == [x \in DOMAIN m \ {k} |-> m[x]]

(* A socket without a session is just deleted.                             *)
handle_broken_unknown(c) ==
  /\ BreakSeenByBroker(c)
  /\ session[c] = 0
  /\ SafeDelete("broker", c)
  /\ UNCHANGED <<brokerVars, link, toBroker, toNode, routeVars>>

(* The node leaves both tables, and the others are told.                   *)
handle_broken(c) ==
  /\ BreakSeenByBroker(c)
  /\ session[c] # 0
  /\ LET slaves == Erase(m_slave_broker_sockets, session[c])
     IN /\ m_slave_broker_sockets' = slaves
        /\ sync_all_register_info(NoConn, 0, m_msg2id, slaves,
             Erase(m_broker_client_info, session[c]), 0)
  /\ session' = [session EXCEPT ![c] = 0]
  /\ SafeDelete("broker", c)
  /\ UNCHANGED <<m_node_id_index, m_msg2id, allocs, link, toBroker, routeVars>>

BrokerStep(c) == \/ handle_slave_register(c)
                 \/ handle_client_register(c)
                 \/ reject_client_register(c)
                 \/ handle_client_register_slave_broker(c)
                 \/ handle_route_msg(c)
                 \/ handle_broken_unknown(c)
                 \/ handle_broken(c)

-----------------------------------------------------------------------------
(* What the tables are made of, and what they should hold: that is stated  *)
(* of each system that the broker is a part of.                            *)
Ids == 0..MaxId

ClientEntry == [bind_broker_id : Ids, service_name : Names \cup {NoName}]

ClientInfo == [bind_broker_id : Ids, service_name : Names \cup {NoName}, sock : Conns]

IsMap(m, K, V) == /\ m = [k \in DOMAIN m |-> m[k]]
                  /\ DOMAIN m \subseteq K
                  /\ \A k \in DOMAIN m : m[k] \in V

(* A synchronisation, when m is one.                                       *)
TypedSync(m) == m.cmd = "BROKER_SYNC_DATA_MSG" =>
  /\ m.node_id \in Ids
  /\ IsMap(m.msg2id, Msgs, Ids)
  /\ m.slave_broker_info \subseteq Ids
  /\ IsMap(m.broker_client_info, Ids, ClientEntry)

(* The state of the broker has its types.                                  *)
BrokerTyped == /\ m_node_id_index \in Ids
               /\ m_alloc_slave_broker_index \in Ids
               /\ IsMap(m_slave_broker_sockets, Ids \ {0}, Conns)
               /\ IsMap(m_broker_client_info, Ids \ {0}, ClientInfo)
               /\ IsMap(m_msg2id, Msgs, Ids \ {0})
               /\ session \in [Conns -> Ids]
               /\ allocs \in Nat

(* alloc_id has not come round.                                            *)
NotWrapped == allocs <= MaxId

(* An entry's socket has a session with the entry's id.                    *)
EntriesOwned ==
  /\ \A i \in DOMAIN m_broker_client_info :
       session[m_broker_client_info[i].sock] = i
  /\ \A i \in DOMAIN m_slave_broker_sockets :
       session[m_slave_broker_sockets[i]] = i

(* A session's id is in exactly one table, with that socket.               *)
SessionsEntered ==
  \A c \in Conns : session[c] # 0 =>
    \/ /\ session[c] \in DOMAIN m_broker_client_info
       /\ session[c] \notin DOMAIN m_slave_broker_sockets
       /\ m_broker_client_info[session[c]].sock = c
    \/ /\ session[c] \in DOMAIN m_slave_broker_sockets
       /\ session[c] \notin DOMAIN m_broker_client_info
       /\ m_slave_broker_sockets[session[c]] = c

(* No id is two nodes', two messages', or a node's and a message's.        *)
IdsDistinct ==
  /\ \A c, d \in Conns : session[c] = session[d] /\ session[c] # 0 => c = d
  /\ \A m, n \in DOMAIN m_msg2id : m_msg2id[m] = m_msg2id[n] => m = n
  /\ \A c \in Conns, m \in DOMAIN m_msg2id : session[c] # m_msg2id[m]
=============================================================================
