---------------------------- MODULE BrokerProofs ----------------------------
(***************************************************************************)
(* What holds of the master broker for every number of peers, names and    *)
(* messages, and for every order of their registrations and breaks: the    *)
(* tables are well typed (TypeCorrect), no two registered nodes have one   *)
(* service name (UniqueNames), ids are distinct until they wrap            *)
(* (DistinctIds), every client is bound to a broker that is there          *)
(* (LiveBrokers), and, unless a slave of the repository registers and its  *)
(* host's length is an id, the tables hold no deleted socket               *)
(* (NoDeletedSocket) and agree with the sessions (MatchingTables), each    *)
(* peer is told of every change of the tables (PeersToldAll), a node's id  *)
(* is told to that node alone (ClientIdsTold), and membership is as in     *)
(* Registry (RegistryImplemented).                                         *)
(***************************************************************************)
EXTENDS BrokerPeers, BrokerLemmas

(* The messages on their way to a peer, as a set.                          *)
SyncMsgs ==
  [cmd : {"BROKER_SYNC_DATA_MSG"}, node_id : Ids,
   msg2id : UNION {[D -> Ids] : D \in SUBSET Msgs},
   slave_broker_info : SUBSET Ids,
   broker_client_info : UNION {[D -> ClientEntry] : D \in SUBSET Ids}]

MsgsToNode == SyncMsgs \cup [cmd : {"BROKER_TO_CLIENT_MSG"}, route : Routes]

(* The inductive invariant: every part of the state has its type.          *)
TypeInv == /\ link \in [Conns -> {"unused", "open", "broken"}]
           /\ toBroker \in [Conns -> Seq(MsgsToBroker)]
           /\ toNode \in [Conns -> Seq(MsgsToNode)]
           /\ deleted \subseteq Sides \X Conns
           /\ m_node_id_index \in Ids
           /\ m_alloc_slave_broker_index \in Ids
           /\ IsMap(m_slave_broker_sockets, Ids \ {0}, Conns)
           /\ IsMap(m_broker_client_info, Ids \ {0}, ClientInfo)
           /\ IsMap(m_msg2id, Msgs, Ids \ {0})
           /\ session \in [Conns -> Ids]
           /\ told \in [Conns -> Ids]
           /\ allocs \in Nat

LEMMA TypedBroker == TypeInv => BrokerTyped
BY DEF TypeInv, BrokerTyped

-----------------------------------------------------------------------------
(* What the broker sends keeps its type.                                   *)
LEMMA SentTyped ==
  ASSUME toNode \in [Conns -> Seq(MsgsToNode)],
         NEW dests \in SUBSET Conns, NEW m,
         \A c \in dests : m[c] \in MsgsToNode
  PROVE  SentToNodes(dests, m) \in [Conns -> Seq(MsgsToNode)]
<1> HIDE DEF MsgsToNode
<1>1. \A c \in dests : Append(toNode[c], m[c]) \in Seq(MsgsToNode)
  OBVIOUS
<1> QED
  BY <1>1 DEF SentToNodes

LEMMA SyncDataTyped ==
  ASSUME NEW id \in Ids,
         NEW ids, IsMap(ids, Msgs, Ids \ {0}),
         NEW slaves \in SUBSET Ids,
         NEW clients, IsMap(clients, Ids \ {0}, ClientInfo)
  PROVE  SyncData(id, ids, slaves, clients) \in SyncMsgs
<1> DEFINE entries == [i \in DOMAIN clients |->
                         [bind_broker_id |-> clients[i].bind_broker_id,
                          service_name   |-> clients[i].service_name]]
<1>1. ids \in [DOMAIN ids -> Ids] /\ DOMAIN ids \in SUBSET Msgs
  BY DEF IsMap
<1>2. ids \in UNION {[D -> Ids] : D \in SUBSET Msgs}
  BY <1>1
<1>3. entries \in [DOMAIN clients -> ClientEntry] /\ DOMAIN clients \in SUBSET Ids
  BY DEF IsMap, ClientInfo, ClientEntry
<1> HIDE DEF entries
<1>4. entries \in UNION {[D -> ClientEntry] : D \in SUBSET Ids}
  BY <1>3
<1>5. SyncData(id, ids, slaves, clients) =
        [cmd |-> "BROKER_SYNC_DATA_MSG", node_id |-> id, msg2id |-> ids,
         slave_broker_info |-> slaves, broker_client_info |-> entries]
  BY DEF SyncData, entries
<1> QED
  BY <1>2, <1>4, <1>5 DEF SyncMsgs

(* A synchronisation keeps every part's type, and all but bindings.        *)
LEMMA SyncTyped ==
  ASSUME TypeInv, NEW c, NEW id \in Ids,
         NEW ids, IsMap(ids, Msgs, Ids \ {0}),
         NEW slaves, IsMap(slaves, Ids \ {0}, Conns),
         NEW clients, IsMap(clients, Ids \ {0}, ClientInfo),
         NEW k \in Nat,
         sync_all_register_info(c, id, ids, slaves, clients, k)
  PROVE  /\ IsMap(m_broker_client_info', Ids \ {0}, ClientInfo)
         /\ SameEntries(m_broker_client_info', clients)
         /\ m_alloc_slave_broker_index' \in Ids
         /\ toNode' \in [Conns -> Seq(MsgsToNode)]
<1> DEFINE now == m_broker_client_info'
           dest(d) == {e \in Entries(slaves, now) : EntrySock(slaves, now, e) = d}
           msg(d) == LET e == CHOOSE e \in dest(d) : TRUE
                     IN SyncData(NodeIdAt(e, c, id, slaves, now), ids,
                                 DOMAIN slaves, now)
           all == [d \in Conns |-> msg(d)]
           to == {d \in Conns : dest(d) # {}}
<1>1. DOMAIN slaves \in SUBSET Ids
  BY DEF IsMap
<1>2. m_alloc_slave_broker_index \in Ids /\ toNode \in [Conns -> Seq(MsgsToNode)]
  BY DEF TypeInv
<1>3. /\ IsMap(now, Ids \ {0}, ClientInfo)
      /\ SameEntries(now, clients)
      /\ m_alloc_slave_broker_index' \in Ids
  BY <1>2, SyncTables
<1>4. toNode' = SentToNodes(to, all)
  BY DEF sync_all_register_info
<1> HIDE DEF now
<1>5. \A e : NodeIdAt(e, c, id, slaves, now) \in Ids
  BY BrokerAssumption DEF NodeIdAt, Ids
<1> HIDE DEF dest
<1>6. \A d : msg(d) \in SyncMsgs
  BY <1>1, <1>3, <1>5, SyncDataTyped
<1> HIDE DEF msg
<1>7. \A d \in to : all[d] \in MsgsToNode
  BY <1>6 DEF MsgsToNode
<1>8. toNode' \in [Conns -> Seq(MsgsToNode)]
  BY <1>2, <1>4, <1>7, SentTyped
<1> QED
  BY <1>3, <1>8 DEF now

-----------------------------------------------------------------------------
(* Each handler, and each thing a peer does, keeps the types.              *)
LEMMA ReceivedTyped ==
  ASSUME TypeInv, NEW c \in Conns, toBroker[c] # <<>>
  PROVE  /\ Head(toBroker[c]) \in MsgsToBroker
         /\ Tail(toBroker[c]) \in Seq(MsgsToBroker)
<1>1. toBroker[c] \in Seq(MsgsToBroker)
  BY DEF TypeInv
<1> HIDE DEF MsgsToBroker
<1> QED
  BY <1>1, HeadTailProperties

LEMMA ConsumedTyped ==
  ASSUME TypeInv, NEW c \in Conns, toBroker[c] # <<>>, Consumed(c)
  PROVE  toBroker' \in [Conns -> Seq(MsgsToBroker)]
BY ReceivedTyped DEF TypeInv, Consumed

LEMMA SlaveRegisterTyped ==
  ASSUME TypeInv, NEW c \in Conns, handle_slave_register(c), UNCHANGED told
  PROVE  TypeInv'
<1> DEFINE id == alloc_id(1)
           slaves == Insert(m_slave_broker_sockets, id, c)
<1>1. id \in Ids \ {0}
  BY NewIdTyped DEF TypeInv
<1>2. IsMap(slaves, Ids \ {0}, Conns)
  BY <1>1, InsertTyped DEF TypeInv
<1> HIDE DEF id, slaves
<1>3. /\ m_slave_broker_sockets' = slaves
      /\ session' = [session EXCEPT ![c] = id]
      /\ m_node_id_index' = id
      /\ allocs' = allocs + 1
      /\ sync_all_register_info(c, id, m_msg2id, slaves, m_broker_client_info, 0)
      /\ UNCHANGED <<m_msg2id, link, deleted>>
      /\ Consumed(c) /\ toBroker[c] # <<>>
  BY DEF handle_slave_register, Allocated, Receives, id, slaves
<1>4. toBroker' \in [Conns -> Seq(MsgsToBroker)]
  BY <1>3, ConsumedTyped
<1>5. /\ IsMap(m_broker_client_info', Ids \ {0}, ClientInfo)
      /\ m_alloc_slave_broker_index' \in Ids
      /\ toNode' \in [Conns -> Seq(MsgsToNode)]
  <2>1. IsMap(m_msg2id, Msgs, Ids \ {0}) /\ IsMap(m_broker_client_info, Ids \ {0}, ClientInfo)
    BY DEF TypeInv
  <2> QED
    BY <1>1, <1>2, <1>3, <2>1, SyncTyped
<1>6. IsMap(m_slave_broker_sockets', Ids \ {0}, Conns)
  BY <1>2, <1>3
<1>7. IsMap(m_msg2id', Msgs, Ids \ {0})
  BY <1>3 DEF TypeInv
<1>8. /\ session' \in [Conns -> Ids] /\ m_node_id_index' \in Ids /\ allocs' \in Nat
      /\ link' \in [Conns -> {"unused", "open", "broken"}]
      /\ deleted' \subseteq Sides \X Conns
      /\ told' \in [Conns -> Ids]
  BY <1>1, <1>3 DEF TypeInv
<1> QED
  BY <1>4, <1>5, <1>6, <1>7, <1>8 DEF TypeInv

LEMMA ClientRegisterTyped ==
  ASSUME TypeInv, NEW c \in Conns, handle_client_register(c), UNCHANGED told
  PROVE  TypeInv'
<1> DEFINE msg == Head(toBroker[c])
           id == alloc_id(1)
           n == 1 + Cardinality(msg.msg_names \ DOMAIN m_msg2id)
           ids == NewMsgIds(msg.msg_names)
           broker == alloc_broker_id(DOMAIN m_slave_broker_sockets, 0)
           info == [bind_broker_id |-> broker, service_name |-> msg.service_name,
                    sock |-> c]
           clients == Insert(m_broker_client_info, id, info)
<1>1. id \in Ids \ {0}
  BY NewIdTyped DEF TypeInv
<1>2. toBroker[c] # <<>> /\ msg.cmd = "BROKER_CLIENT_REGISTER"
  BY DEF handle_client_register, Receives
<1>3. msg.service_name \in Names \cup {NoName} /\ msg.msg_names \in SUBSET Msgs
  <2>1. msg \in MsgsToBroker
    BY <1>2, ReceivedTyped
  <2> QED
    BY <1>2, <2>1 DEF MsgsToBroker
<1>4. IsMap(ids, Msgs, Ids \ {0}) /\ n \in 1..MaxId
  BY <1>3, NewIdsTyped DEF TypeInv
<1>5. broker \in Ids
  BY BrokerIdTyped DEF TypeInv, IsMap
<1> HIDE DEF broker
<1>6. info \in ClientInfo
  BY <1>3, <1>5 DEF ClientInfo
<1>7. IsMap(clients, Ids \ {0}, ClientInfo)
  BY <1>1, <1>6, InsertTyped DEF TypeInv
<1>8. /\ session' = [session EXCEPT ![c] = id]
      /\ m_msg2id' = ids
      /\ m_node_id_index' = IF n = 0 THEN m_node_id_index ELSE alloc_id(n)
      /\ allocs' = allocs + n
      /\ sync_all_register_info(c, id, m_msg2id', m_slave_broker_sockets, clients, 1)
      /\ UNCHANGED <<m_slave_broker_sockets, link, deleted>>
      /\ Consumed(c)
  BY DEF handle_client_register, Allocated, broker
<1> HIDE DEF id, ids, n, info, clients, msg
<1>9. m_node_id_index' \in Ids
  BY <1>4, <1>8, AllocIds DEF TypeInv
<1>10. toBroker' \in [Conns -> Seq(MsgsToBroker)]
  BY <1>2, <1>8, ConsumedTyped
<1>11. /\ IsMap(m_broker_client_info', Ids \ {0}, ClientInfo)
       /\ m_alloc_slave_broker_index' \in Ids
       /\ toNode' \in [Conns -> Seq(MsgsToNode)]
  <2>1. IsMap(m_slave_broker_sockets, Ids \ {0}, Conns)
    BY DEF TypeInv
  <2> QED
    BY <1>1, <1>4, <1>7, <1>8, <2>1, SyncTyped
<1>12. IsMap(m_msg2id', Msgs, Ids \ {0})
  BY <1>4, <1>8
<1>13. IsMap(m_slave_broker_sockets', Ids \ {0}, Conns)
  BY <1>8 DEF TypeInv
<1>14. /\ session' \in [Conns -> Ids] /\ allocs' \in Nat
       /\ link' \in [Conns -> {"unused", "open", "broken"}]
       /\ deleted' \subseteq Sides \X Conns
       /\ told' \in [Conns -> Ids]
  BY <1>1, <1>4, <1>8 DEF TypeInv
<1> QED
  BY <1>9, <1>10, <1>11, <1>12, <1>13, <1>14 DEF TypeInv

(* A connection that goes down loses the ends of what was sent on it.      *)
LEMMA CloseTyped ==
  ASSUME TypeInv, NEW c \in Conns, NEW s \in Seq(MsgsToBroker), CloseWith(c, s)
  PROVE  /\ link' \in [Conns -> {"unused", "open", "broken"}]
         /\ toBroker' \in [Conns -> Seq(MsgsToBroker)]
         /\ toNode' \in [Conns -> Seq(MsgsToNode)]
<1> HIDE DEF MsgsToBroker, MsgsToNode
<1>1. \A i \in 0..Len(s) : SubSeq(s, 1, i) \in Seq(MsgsToBroker)
  BY SubSeqProperties
<1>2. \A i \in 0..Len(toNode[c]) : SubSeq(toNode[c], 1, i) \in Seq(MsgsToNode)
  <2>1. toNode[c] \in Seq(MsgsToNode)
    BY DEF TypeInv
  <2> QED
    BY <2>1, SubSeqProperties
<1>3. link' \in [Conns -> {"unused", "open", "broken"}]
  BY DEF CloseWith, TypeInv
<1>4. toBroker' \in [Conns -> Seq(MsgsToBroker)]
  <2>1. PICK i \in 0..Len(s) : toBroker' = [toBroker EXCEPT ![c] = SubSeq(s, 1, i)]
    BY DEF CloseWith
  <2> QED
    BY <1>1, <2>1 DEF TypeInv
<1>5. toNode' \in [Conns -> Seq(MsgsToNode)]
  BY <1>2 DEF CloseWith, TypeInv
<1> QED
  BY <1>3, <1>4, <1>5

LEMMA RejectTyped ==
  ASSUME TypeInv, NEW c \in Conns, reject_client_register(c), UNCHANGED told
  PROVE  TypeInv'
<1>1. toBroker[c] # <<>>
  BY DEF reject_client_register, Receives
<1>2. /\ link' \in [Conns -> {"unused", "open", "broken"}]
      /\ toBroker' \in [Conns -> Seq(MsgsToBroker)]
      /\ toNode' \in [Conns -> Seq(MsgsToNode)]
  <2>1. CASE CloseWith(c, Tail(toBroker[c]))
    BY <1>1, <2>1, ReceivedTyped, CloseTyped
  <2>2. CASE Consumed(c) /\ UNCHANGED <<link, toNode>>
    BY <1>1, <2>2, ConsumedTyped DEF TypeInv
  <2> QED
    BY <2>1, <2>2 DEF reject_client_register
<1>3. UNCHANGED <<brokerVars, deleted>>
  BY DEF reject_client_register
<1> QED
  BY <1>2, <1>3 DEF TypeInv, brokerVars

LEMMA SlaveSessionTyped ==
  ASSUME TypeInv, NEW c \in Conns, handle_client_register_slave_broker(c),
         UNCHANGED told
  PROVE  TypeInv'
<1> DEFINE id == Head(toBroker[c]).node_id
<1>1. toBroker' \in [Conns -> Seq(MsgsToBroker)]
  BY ConsumedTyped DEF handle_client_register_slave_broker, Receives
<1>2. m_broker_client_info' =
        IF id \in DOMAIN m_broker_client_info
        THEN [m_broker_client_info EXCEPT ![id].sock = c]
        ELSE m_broker_client_info
  BY DEF handle_client_register_slave_broker
<1> HIDE DEF id
<1>3. IsMap(m_broker_client_info', Ids \ {0}, ClientInfo)
  <2>1. IsMap(m_broker_client_info, Ids \ {0}, ClientInfo)
    BY DEF TypeInv
  <2>2. CASE id \notin DOMAIN m_broker_client_info
    BY <1>2, <2>1, <2>2
  <2>3. CASE id \in DOMAIN m_broker_client_info
    <3>1. m_broker_client_info' = [m_broker_client_info EXCEPT ![id].sock = c]
      BY <1>2, <2>3
    <3>2. [m_broker_client_info[id] EXCEPT !.sock = c] \in ClientInfo
      BY <2>1, <2>3 DEF IsMap, ClientInfo
    <3> QED
      BY <2>1, <3>1, <3>2 DEF IsMap
  <2> QED
    BY <2>2, <2>3
<1>4. UNCHANGED <<m_node_id_index, m_alloc_slave_broker_index,
                  m_slave_broker_sockets, m_msg2id, session, allocs,
                  link, toNode, deleted>>
  BY DEF handle_client_register_slave_broker
<1> QED
  BY <1>1, <1>3, <1>4 DEF TypeInv

LEMMA RouteTyped ==
  ASSUME TypeInv, NEW c \in Conns, handle_route_msg(c), UNCHANGED told
  PROVE  TypeInv'
<1> DEFINE r == Head(toBroker[c]).route
           info == m_broker_client_info[r.dest_node_id]
           all == [d \in Conns |-> ToClient(r)]
<1>1. toBroker[c] # <<>> /\ Head(toBroker[c]).cmd = "BROKER_ROUTE_MSG"
  BY DEF handle_route_msg, Receives
<1>2. r \in Routes
  <2>1. Head(toBroker[c]) \in MsgsToBroker
    BY <1>1, ReceivedTyped
  <2> QED
    BY <1>1, <2>1 DEF MsgsToBroker
<1>3. toBroker' \in [Conns -> Seq(MsgsToBroker)]
  BY <1>1, ConsumedTyped DEF handle_route_msg
<1>4. /\ \/ toNode' = toNode
         \/ /\ r.dest_node_id \in DOMAIN m_broker_client_info
            /\ toNode' = SentToNodes({info.sock}, all)
      /\ UNCHANGED <<brokerVars, link, deleted>>
  BY DEF handle_route_msg
<1> HIDE DEF r
<1>5. \A d \in Conns : all[d] \in MsgsToNode
  BY <1>2 DEF ToClient, MsgsToNode
<1>6. toNode' \in [Conns -> Seq(MsgsToNode)]
  <2>1. r.dest_node_id \in DOMAIN m_broker_client_info => info.sock \in Conns
    BY DEF TypeInv, IsMap, ClientInfo
  <2>2. toNode \in [Conns -> Seq(MsgsToNode)]
    BY DEF TypeInv
  <2> HIDE DEF info, all
  <2>3. CASE toNode' = toNode
    BY <2>2, <2>3
  <2>4. CASE /\ r.dest_node_id \in DOMAIN m_broker_client_info
             /\ toNode' = SentToNodes({info.sock}, all)
    <3>1. {info.sock} \in SUBSET Conns
      BY <2>1, <2>4
    <3>2. \A d \in {info.sock} : all[d] \in MsgsToNode
      BY <1>5, <3>1
    <3> QED
      BY <2>2, <2>4, <3>1, <3>2, SentTyped
  <2> QED
    BY <1>4, <2>3, <2>4
<1> QED
  BY <1>3, <1>4, <1>6 DEF TypeInv, brokerVars

LEMMA BrokenTyped ==
  ASSUME TypeInv, NEW c \in Conns, handle_broken(c), UNCHANGED told
  PROVE  TypeInv'
<1> DEFINE slaves == Erase(m_slave_broker_sockets, session[c])
           clients == Erase(m_broker_client_info, session[c])
<1>1. IsMap(slaves, Ids \ {0}, Conns) /\ IsMap(clients, Ids \ {0}, ClientInfo)
  BY EraseTyped DEF TypeInv
<1>2. /\ m_slave_broker_sockets' = slaves
      /\ sync_all_register_info(NoConn, 0, m_msg2id, slaves, clients, 0)
      /\ session' = [session EXCEPT ![c] = 0]
      /\ deleted' = deleted \cup {<<"broker", c>>}
      /\ UNCHANGED <<m_node_id_index, m_msg2id, allocs, link, toBroker>>
  BY DEF handle_broken, SafeDelete
<1> HIDE DEF slaves, clients
<1>3. 0 \in Ids
  BY BrokerAssumption DEF Ids
<1>4. /\ IsMap(m_broker_client_info', Ids \ {0}, ClientInfo)
      /\ m_alloc_slave_broker_index' \in Ids
      /\ toNode' \in [Conns -> Seq(MsgsToNode)]
  <2>1. IsMap(m_msg2id, Msgs, Ids \ {0})
    BY DEF TypeInv
  <2> QED
    BY <1>1, <1>2, <1>3, <2>1, SyncTyped
<1>5. IsMap(m_slave_broker_sockets', Ids \ {0}, Conns)
  BY <1>1, <1>2
<1>6. deleted' \subseteq Sides \X Conns /\ session' \in [Conns -> Ids]
  BY <1>2, <1>3 DEF TypeInv, Sides
<1> QED
  BY <1>2, <1>4, <1>5, <1>6 DEF TypeInv

LEMMA BrokerStepTyped ==
  ASSUME TypeInv, NEW c \in Conns, BrokerStep(c), UNCHANGED told
  PROVE  TypeInv'
<1>1. CASE handle_broken_unknown(c)
  <2>1. deleted' \subseteq Sides \X Conns
    BY <1>1 DEF handle_broken_unknown, SafeDelete, TypeInv, Sides
  <2> QED
    BY <1>1, <2>1 DEF handle_broken_unknown, TypeInv, brokerVars
<1> QED
  BY <1>1, SlaveRegisterTyped, ClientRegisterTyped, RejectTyped,
     SlaveSessionTyped, RouteTyped, BrokenTyped DEF BrokerStep

LEMMA PeerConnectsTyped ==
  ASSUME TypeInv, NEW c \in Conns, PeerConnects(c)
  PROVE  TypeInv'
<1>1. PICK m \in FirstMsgs(c) : ConnectAndSend(c, m)
  BY DEF PeerConnects
<1>2. m \in MsgsToBroker
  BY PeersAssumption DEF FirstMsgs, RegisterClient, RegisterSlave,
     RegisterToSlave, MsgsToBroker
<1> HIDE DEF MsgsToBroker
<1>3. /\ link' \in [Conns -> {"unused", "open", "broken"}]
      /\ toBroker' \in [Conns -> Seq(MsgsToBroker)]
  BY <1>1, <1>2 DEF ConnectAndSend, TypeInv
<1>4. UNCHANGED <<toNode, deleted, brokerVars, told>>
  BY DEF PeerConnects
<1> QED
  BY <1>3, <1>4 DEF TypeInv, brokerVars

LEMMA PeerRoutesTyped ==
  ASSUME TypeInv, NEW c \in Conns, PeerRoutes(c)
  PROVE  TypeInv'
<1>1. PICK dest \in RouteDests :
        toBroker' = SentToBroker(c, RouteMsg(Route(told[c], dest, 0, 0, 0), "socket"))
  BY DEF PeerRoutes
<1> DEFINE m == RouteMsg(Route(told[c], dest, 0, 0, 0), "socket")
<1>2. told[c] \in Ids
  BY DEF TypeInv
<1>3. m \in MsgsToBroker
  <2>1. Route(told[c], dest, 0, 0, 0) \in Routes
    BY <1>2, PeersAssumption DEF Route, Routes
  <2> QED
    BY <2>1 DEF RouteMsg, MsgsToBroker
<1> HIDE DEF m, MsgsToBroker
<1>4. toBroker' \in [Conns -> Seq(MsgsToBroker)]
  BY <1>1, <1>3 DEF SentToBroker, TypeInv, m
<1>5. UNCHANGED <<link, toNode, deleted, brokerVars, told>>
  BY DEF PeerRoutes
<1> QED
  BY <1>4, <1>5 DEF TypeInv, brokerVars

LEMMA PeerReadsTyped ==
  ASSUME TypeInv, NEW c \in Conns, PeerReads(c)
  PROVE  TypeInv'
<1> DEFINE ids == NodeIdsSent(c)
<1>1. toNode[c] \in Seq(MsgsToNode) /\ told[c] \in Ids
  BY DEF TypeInv
<1>2. ids # {} => toNode[c][Max(ids)].node_id \in Ids
  <2> SUFFICES ASSUME ids # {}
               PROVE  toNode[c][Max(ids)].node_id \in Ids
    OBVIOUS
  <2>1. Len(toNode[c]) \in Nat
    BY <1>1
  <2>2. ids \in SUBSET (1..Len(toNode[c]))
    BY DEF NodeIdsSent, SyncsAt
  <2> HIDE DEF ids
  <2>3. IsFiniteSet(ids) /\ ids \in SUBSET Nat
    <3>1. IsFiniteSet(1..Len(toNode[c]))
      BY <2>1, FS_Interval
    <3>2. IsFiniteSet(ids)
      BY <2>2, <3>1, FS_Subset
    <3> QED
      BY <2>1, <2>2, <3>2
  <2>4. Max(ids) \in ids
    BY <2>3, MinMaxInSet
  <2>5. Max(ids) \in 1..Len(toNode[c]) /\ toNode[c][Max(ids)].cmd = "BROKER_SYNC_DATA_MSG"
    BY <2>4 DEF NodeIdsSent, SyncsAt, ids
  <2>6. toNode[c][Max(ids)] \in MsgsToNode
    BY <1>1, <2>5, ElementOfSeq
  <2> QED
    BY <2>5, <2>6 DEF MsgsToNode, SyncMsgs
<1>3. /\ told' = [told EXCEPT ![c] = IF ids = {} THEN @ ELSE toNode[c][Max(ids)].node_id]
      /\ toNode' = [toNode EXCEPT ![c] = <<>>]
      /\ UNCHANGED <<link, toBroker, deleted, brokerVars>>
  BY DEF PeerReads
<1> HIDE DEF ids, MsgsToNode
<1>4. told' \in [Conns -> Ids]
  BY <1>1, <1>2, <1>3 DEF TypeInv
<1>5. toNode' \in [Conns -> Seq(MsgsToNode)]
  BY <1>3 DEF TypeInv
<1> QED
  BY <1>3, <1>4, <1>5 DEF TypeInv, brokerVars

LEMMA PeerBreaksTyped ==
  ASSUME TypeInv, NEW c \in Conns, PeerBreaks(c)
  PROVE  TypeInv'
<1>1. CloseWith(c, toBroker[c]) /\ UNCHANGED <<deleted, brokerVars, told>>
  BY DEF PeerBreaks, Break
<1>2. toBroker[c] \in Seq(MsgsToBroker)
  BY DEF TypeInv
<1> QED
  BY <1>1, <1>2, CloseTyped DEF TypeInv, brokerVars

LEMMA InitTyped == Init => TypeInv
<1> SUFFICES ASSUME Init PROVE TypeInv
  OBVIOUS
<1>1. 0 \in Ids /\ 0 \in Nat
  BY BrokerAssumption DEF Ids
<1>2. /\ link \in [Conns -> {"unused", "open", "broken"}]
      /\ toBroker \in [Conns -> Seq(MsgsToBroker)]
      /\ toNode \in [Conns -> Seq(MsgsToNode)]
      /\ deleted = {}
  BY DEF Init, NetInit
<1>3. /\ \A K, V : IsMap(m_slave_broker_sockets, K, V)
      /\ \A K, V : IsMap(m_broker_client_info, K, V)
      /\ \A K, V : IsMap(m_msg2id, K, V)
  BY DEF Init, BrokerInit, IsMap
<1>4. /\ m_node_id_index = 0 /\ m_alloc_slave_broker_index = 0 /\ allocs = 0
      /\ session = [c \in Conns |-> 0] /\ told = [c \in Conns |-> 0]
  BY DEF Init, BrokerInit
<1> QED
  BY <1>1, <1>2, <1>3, <1>4 DEF TypeInv

LEMMA NextTyped == TypeInv /\ [Next]_vars => TypeInv'
<1> SUFFICES ASSUME TypeInv, [Next]_vars PROVE TypeInv'
  OBVIOUS
<1>1. CASE Next
  <2>1. PICK c \in Conns : \/ BrokerStep(c) /\ UNCHANGED <<told, view>>
                           \/ PeerConnects(c) \/ PeerRoutes(c)
                           \/ PeerReads(c) \/ PeerBreaks(c)
    BY <1>1 DEF Next
  <2> QED
    BY <2>1, BrokerStepTyped, PeerConnectsTyped, PeerRoutesTyped,
       PeerReadsTyped, PeerBreaksTyped
<1>2. CASE UNCHANGED vars
  BY <1>2 DEF vars, netVars, brokerVars, TypeInv
<1> QED
  BY <1>1, <1>2

LEMMA TypedIsOK == TypeInv => TypeOK
<1> SUFFICES ASSUME TypeInv PROVE TypeOK
  OBVIOUS
<1>1. ASSUME NEW c \in Conns, NEW k \in 1..Len(toNode[c])
      PROVE  TypedSync(toNode[c][k])
  <2> DEFINE m == toNode[c][k]
  <2>1. m \in MsgsToNode
    <3>1. toNode[c] \in Seq(MsgsToNode)
      BY DEF TypeInv
    <3> HIDE DEF MsgsToNode
    <3> QED
      BY <3>1, ElementOfSeq
  <2>2. ASSUME m.cmd = "BROKER_SYNC_DATA_MSG"
        PROVE  /\ m.node_id \in Ids
               /\ m.msg2id \in UNION {[D -> Ids] : D \in SUBSET Msgs}
               /\ m.slave_broker_info \subseteq Ids
               /\ m.broker_client_info \in UNION {[D -> ClientEntry] : D \in SUBSET Ids}
    BY <2>1, <2>2 DEF MsgsToNode, SyncMsgs
  <2> HIDE DEF m
  <2>3. \A K, V : \A f \in UNION {[D -> V] : D \in SUBSET K} : IsMap(f, K, V)
    BY DEF IsMap
  <2> QED
    BY <2>2, <2>3 DEF TypedSync, m
<1> QED
  BY <1>1 DEF TypeInv, TypeOK, BrokerTyped

(* The tables, the messages and the ids of the broker have their types in  *)
(* every reachable state: ffbroker.cpp never hands out id 0 or an id beyond*)
(* uint32_t, and binds a client to nothing but an id.                      *)
THEOREM TypeCorrect == Spec => []TypeOK
<1>1. Spec => []TypeInv
  BY InitTyped, NextTyped, PTL DEF Spec
<1> QED
  BY <1>1, TypedIsOK, PTL

-----------------------------------------------------------------------------
(* Names.  A handler leaves in the table what it gave to sync_all_register_*)
(* info, up to bindings, so it suffices to look at what it gives.          *)
UniqueIn(clients) ==
  \A i, j \in DOMAIN clients :
    /\ clients[i].service_name = clients[j].service_name
    /\ clients[i].service_name # NoName
    => i = j

LEMMA SyncKeepsUnique ==
  ASSUME TypeInv, NEW c, NEW id \in Ids,
         NEW ids, IsMap(ids, Msgs, Ids \ {0}),
         NEW slaves, IsMap(slaves, Ids \ {0}, Conns),
         NEW clients, IsMap(clients, Ids \ {0}, ClientInfo),
         NEW k \in Nat,
         sync_all_register_info(c, id, ids, slaves, clients, k),
         UniqueIn(clients)
  PROVE  NamesUnique'
<1>1. SameEntries(m_broker_client_info', clients)
  BY SyncTyped
<1>2. \A i, j \in DOMAIN m_broker_client_info' :
        /\ m_broker_client_info'[i].service_name = m_broker_client_info'[j].service_name
        /\ m_broker_client_info'[i].service_name # NoName
        => i = j
  BY <1>1 DEF UniqueIn, SameEntries
<1> QED
  BY <1>2 DEF NamesUnique

LEMMA SlaveRegisterUnique ==
  ASSUME TypeInv, NamesUnique, NEW c \in Conns, handle_slave_register(c)
  PROVE  NamesUnique'
<1> DEFINE id == alloc_id(1)
           slaves == Insert(m_slave_broker_sockets, id, c)
<1>1. id \in Ids \ {0}
  BY NewIdTyped DEF TypeInv
<1>2. /\ IsMap(slaves, Ids \ {0}, Conns) /\ IsMap(m_msg2id, Msgs, Ids \ {0})
      /\ IsMap(m_broker_client_info, Ids \ {0}, ClientInfo)
  BY <1>1, InsertTyped DEF TypeInv
<1>3. sync_all_register_info(c, id, m_msg2id, slaves, m_broker_client_info, 0)
  BY DEF handle_slave_register
<1>4. UniqueIn(m_broker_client_info)
  BY DEF NamesUnique, UniqueIn
<1> HIDE DEF id, slaves
<1> QED
  BY <1>1, <1>2, <1>3, <1>4, SyncKeepsUnique

(* The one handler that adds a name has looked at every entry.             *)
LEMMA ClientRegisterUnique ==
  ASSUME TypeInv, NamesUnique, NEW c \in Conns, handle_client_register(c)
  PROVE  NamesUnique'
<1> DEFINE msg == Head(toBroker[c])
           id == alloc_id(1)
           ids == NewMsgIds(msg.msg_names)
           broker == alloc_broker_id(DOMAIN m_slave_broker_sockets, 0)
           info == [bind_broker_id |-> broker, service_name |-> msg.service_name,
                    sock |-> c]
           clients == Insert(m_broker_client_info, id, info)
<1>1. id \in Ids \ {0}
  BY NewIdTyped DEF TypeInv
<1>2. toBroker[c] # <<>> /\ msg.cmd = "BROKER_CLIENT_REGISTER"
  BY DEF handle_client_register, Receives
<1>3. msg.service_name \in Names \cup {NoName} /\ msg.msg_names \in SUBSET Msgs
  <2>1. msg \in MsgsToBroker
    BY <1>2, ReceivedTyped
  <2> QED
    BY <1>2, <2>1 DEF MsgsToBroker
<1>4. IsMap(ids, Msgs, Ids \ {0})
  BY <1>3, NewIdsTyped DEF TypeInv
<1>5. broker \in Ids
  BY BrokerIdTyped DEF TypeInv, IsMap
<1> HIDE DEF broker
<1>6. info \in ClientInfo /\ info.service_name = msg.service_name
  BY <1>3, <1>5 DEF ClientInfo
<1>7. IsMap(clients, Ids \ {0}, ClientInfo) /\ IsMap(m_slave_broker_sockets, Ids \ {0}, Conns)
  BY <1>1, <1>6, InsertTyped DEF TypeInv
<1>8. /\ m_msg2id' = ids
      /\ sync_all_register_info(c, id, m_msg2id', m_slave_broker_sockets, clients, 1)
      /\ ~NameTaken(msg.service_name)
  BY DEF handle_client_register, broker
<1> HIDE DEF id, ids, info, msg
<1>9. UniqueIn(clients)
  BY <1>6, <1>8 DEF NameTaken, NamesUnique, UniqueIn, Insert
<1> HIDE DEF clients
<1> QED
  BY <1>1, <1>4, <1>7, <1>8, <1>9, SyncKeepsUnique

LEMMA SlaveSessionUnique ==
  ASSUME TypeInv, NamesUnique, NEW c \in Conns, handle_client_register_slave_broker(c)
  PROVE  NamesUnique'
<1> DEFINE id == Head(toBroker[c]).node_id
<1>1. m_broker_client_info' =
        IF id \in DOMAIN m_broker_client_info
        THEN [m_broker_client_info EXCEPT ![id].sock = c]
        ELSE m_broker_client_info
  BY DEF handle_client_register_slave_broker
<1> HIDE DEF id
<1>2. /\ m_broker_client_info = [i \in DOMAIN m_broker_client_info |-> m_broker_client_info[i]]
      /\ \A i \in DOMAIN m_broker_client_info : m_broker_client_info[i] \in ClientInfo
  BY DEF TypeInv, IsMap
<1>3. /\ DOMAIN m_broker_client_info' = DOMAIN m_broker_client_info
      /\ \A i \in DOMAIN m_broker_client_info :
           m_broker_client_info'[i].service_name = m_broker_client_info[i].service_name
  <2>1. CASE id \in DOMAIN m_broker_client_info
    <3>1. [m_broker_client_info[id] EXCEPT !.sock = c].service_name
            = m_broker_client_info[id].service_name
      BY <1>2, <2>1 DEF ClientInfo
    <3> QED
      BY <1>1, <1>2, <2>1, <3>1
  <2> QED
    BY <1>1, <2>1
<1> QED
  BY <1>3 DEF NamesUnique

LEMMA BrokenUnique ==
  ASSUME TypeInv, NamesUnique, NEW c \in Conns, handle_broken(c)
  PROVE  NamesUnique'
<1> DEFINE slaves == Erase(m_slave_broker_sockets, session[c])
           clients == Erase(m_broker_client_info, session[c])
<1>1. /\ IsMap(slaves, Ids \ {0}, Conns) /\ IsMap(clients, Ids \ {0}, ClientInfo)
      /\ IsMap(m_msg2id, Msgs, Ids \ {0})
  BY EraseTyped DEF TypeInv
<1>2. sync_all_register_info(NoConn, 0, m_msg2id, slaves, clients, 0)
  BY DEF handle_broken
<1>3. UniqueIn(clients)
  BY DEF NamesUnique, UniqueIn, Erase
<1> HIDE DEF slaves, clients
<1>4. 0 \in Ids
  BY BrokerAssumption DEF Ids
<1> QED
  BY <1>1, <1>2, <1>3, <1>4, SyncKeepsUnique

LEMMA NextUnique ==
  ASSUME TypeInv, NamesUnique, [Next]_vars
  PROVE  NamesUnique'
<1>1. CASE UNCHANGED m_broker_client_info
  BY <1>1 DEF NamesUnique
<1>2. ASSUME NEW c \in Conns, BrokerStep(c)
      PROVE  NamesUnique'
  <2>1. CASE reject_client_register(c) \/ handle_route_msg(c) \/ handle_broken_unknown(c)
    BY <1>1, <2>1 DEF reject_client_register, handle_route_msg,
       handle_broken_unknown, brokerVars
  <2> QED
    BY <1>2, <2>1, SlaveRegisterUnique, ClientRegisterUnique,
       SlaveSessionUnique, BrokenUnique DEF BrokerStep
<1>3. ASSUME NEW c \in Conns,
             PeerConnects(c) \/ PeerRoutes(c) \/ PeerReads(c) \/ PeerBreaks(c)
      PROVE  UNCHANGED m_broker_client_info
  BY <1>3 DEF PeerConnects, PeerRoutes, PeerReads, PeerBreaks, brokerVars
<1> QED
  BY <1>1, <1>2, <1>3 DEF Next, vars, brokerVars

(* Whatever order registrations and breaks come in, however many peers     *)
(* there are, and even when ids have wrapped, no two entries of            *)
(* m_broker_client_info have one service name (ffbroker.cpp, the loop that *)
(* handle_client_register begins with).                                    *)
THEOREM UniqueNames == Spec => []NamesUnique
<1>1. Init => TypeInv /\ NamesUnique
  <2>1. Init => NamesUnique
    BY DEF Init, BrokerInit, NamesUnique
  <2> QED
    BY <2>1, InitTyped
<1>2. TypeInv /\ NamesUnique /\ [Next]_vars => (TypeInv /\ NamesUnique)'
  BY NextTyped, NextUnique
<1> QED
  BY <1>1, <1>2, PTL DEF Spec

-----------------------------------------------------------------------------

LEMMA AlwaysTyped == Spec => []TypeInv
BY InitTyped, NextTyped, PTL DEF Spec

-----------------------------------------------------------------------------
(* Ids: a slave's registration, and all the rest.                          *)
LEMMA SlaveRegisterIds ==
  ASSUME TypeInv, FreshIds, NEW c \in Conns, handle_slave_register(c)
  PROVE  FreshIds'
<1> SUFFICES ASSUME NotWrapped' PROVE Counted' /\ IdsDistinct'
  BY DEF FreshIds
<1>1. /\ allocs' = allocs + 1 /\ m_node_id_index' = alloc_id(1)
      /\ session' = [session EXCEPT ![c] = alloc_id(1)]
      /\ m_msg2id' = m_msg2id
  BY DEF handle_slave_register, Allocated
<1>2. allocs \in Nat /\ session \in [Conns -> Ids] /\ MaxId \in Nat
  BY BrokerAssumption DEF TypeInv
<1>3. allocs + 1 <= MaxId /\ Counted /\ IdsDistinct
  BY <1>1, <1>2 DEF FreshIds, NotWrapped
<1>4. alloc_id(1) = allocs + 1
  BY <1>2, <1>3, AllocUnwrapped DEF Counted
<1>5. /\ \A d \in Conns : session[d] \in Nat /\ session[d] <= allocs
      /\ \A m \in DOMAIN m_msg2id : m_msg2id[m] \in Nat /\ m_msg2id[m] <= allocs
  BY <1>2, <1>3 DEF Counted, TypeInv, IsMap, Ids
<1>6. Counted'
  BY <1>1, <1>2, <1>4, <1>5 DEF Counted
<1>7. IdsDistinct'
  BY <1>1, <1>2, <1>3, <1>4, <1>5 DEF IdsDistinct
<1> QED
  BY <1>6, <1>7

(* Nothing but registrations and breaks touches ids or sessions.           *)
idVars == <<m_node_id_index, m_msg2id, allocs, session>>

LEMMA OthersKeepIds ==
  ASSUME [Next]_vars,
         ~ \E c \in Conns : \/ handle_slave_register(c)
                            \/ handle_client_register(c)
                            \/ handle_broken(c)
  PROVE  UNCHANGED <<idVars, m_slave_broker_sockets>>
<1>1. CASE UNCHANGED vars
  BY <1>1 DEF vars, brokerVars, idVars
<1>2. ASSUME NEW c \in Conns, BrokerStep(c)
      PROVE  UNCHANGED <<idVars, m_slave_broker_sockets>>
  BY <1>2 DEF BrokerStep, reject_client_register, handle_route_msg,
     handle_client_register_slave_broker, handle_broken_unknown, brokerVars, idVars
<1>3. ASSUME NEW c \in Conns,
             PeerConnects(c) \/ PeerRoutes(c) \/ PeerReads(c) \/ PeerBreaks(c)
      PROVE  UNCHANGED <<idVars, m_slave_broker_sockets>>
  BY <1>3 DEF PeerConnects, PeerRoutes, PeerReads, PeerBreaks, brokerVars, idVars
<1> QED
  BY <1>1, <1>2, <1>3 DEF Next

LEMMA NextIds ==
  ASSUME TypeInv, FreshIds, [Next]_vars
  PROVE  FreshIds'
<1>1. CASE UNCHANGED idVars
  BY <1>1 DEF idVars, FreshIds, NotWrapped, Counted, IdsDistinct
<1>2. ASSUME NEW c \in Conns, handle_client_register(c)
      PROVE  FreshIds'
  <2>1. toBroker[c] # <<>> /\ Head(toBroker[c]).cmd = "BROKER_CLIENT_REGISTER"
    BY <1>2 DEF handle_client_register, Receives
  <2>2. Head(toBroker[c]) \in MsgsToBroker
    BY <2>1, ReceivedTyped
  <2>3. Head(toBroker[c]).msg_names \in SUBSET Msgs
    BY <2>1, <2>2 DEF MsgsToBroker
  <2> QED
    BY <1>2, <2>3, TypedBroker, ClientRegisterIds
<1> QED
  BY <1>1, <1>2, OthersKeepIds, SlaveRegisterIds, TypedBroker, BrokenIds

LEMMA InitIds == Init => FreshIds
BY DEF Init, BrokerInit, FreshIds, Counted, IdsDistinct

(* However many nodes register, with whatever message names, alloc_id      *)
(* gives no id to two nodes, to two messages, or to a node and a message,  *)
(* as long as its uint32_t counter has not come round (ffbroker.cpp, where *)
(* one counter serves both).                                               *)
THEOREM DistinctIds == Spec => []IdsDistinctUnlessWrapped
<1>1. TypeInv /\ FreshIds /\ [Next]_vars => (TypeInv /\ FreshIds)'
  BY NextTyped, NextIds
<1>2. Init => TypeInv /\ FreshIds
  BY InitTyped, InitIds
<1>3. FreshIds => IdsDistinctUnlessWrapped
  BY DEF FreshIds, IdsDistinctUnlessWrapped
<1> QED
  BY <1>1, <1>2, <1>3, PTL DEF Spec

-----------------------------------------------------------------------------
(* Bindings.  A synchronisation leaves no stale one.                       *)
LEMMA BrokerIdRegistered ==
  ASSUME m_alloc_slave_broker_index \in Ids, NEW slaves \in SUBSET Ids, NEW k \in Nat
  PROVE  IF slaves = {} THEN alloc_broker_id(slaves, k) = BROKER_MASTER_NODE_ID
         ELSE alloc_broker_id(slaves, k) \in slaves
<1> DEFINE here == SlavesHere(slaves)
<1>1. here \in SUBSET Ids /\ here \subseteq slaves
  BY DEF SlavesHere
<1>2. CASE here # {}
  <2>1. Min(here) \in here
    BY <1>1, <1>2, IdsFinite, MinMaxInSet
  <2> QED
    BY <1>1, <1>2, <2>1 DEF alloc_broker_id
<1>3. CASE here = {} /\ slaves = {}
  BY <1>3 DEF alloc_broker_id
<1>4. CASE here = {} /\ slaves # {}
  <2> DEFINE index == Wrap(m_alloc_slave_broker_index + k) % Cardinality(slaves)
  <2>1. IsFiniteSet(slaves) /\ Cardinality(slaves) \in Nat /\ slaves \in SUBSET Nat
    BY IdsFinite
  <2>2. Cardinality(slaves) # 0
    BY <1>4, <2>1, FS_EmptySet
  <2>3. Wrap(m_alloc_slave_broker_index + k) \in Nat
    BY BrokerAssumption DEF Wrap, Ids
  <2> HIDE DEF here
  <2>4. index \in 0..(Cardinality(slaves) - 1)
    BY <2>1, <2>2, <2>3
  <2>5. \E s \in slaves : Cardinality({t \in slaves : t < s}) = index
    BY <2>1, <2>4, RankExists
  <2>6. alloc_broker_id(slaves, k) =
          CHOOSE s \in slaves : Cardinality({t \in slaves : t < s}) = index
    BY <1>4 DEF alloc_broker_id, here
  <2> HIDE DEF index
  <2> QED
    BY <1>4, <2>5, <2>6
<1> QED
  BY <1>2, <1>3, <1>4

LEMMA SyncBinds ==
  ASSUME TypeInv, NEW c, NEW id, NEW ids,
         NEW slaves, IsMap(slaves, Ids \ {0}, Conns),
         NEW clients, IsMap(clients, Ids \ {0}, ClientInfo),
         NEW k \in Nat,
         sync_all_register_info(c, id, ids, slaves, clients, k),
         m_slave_broker_sockets' = slaves
  PROVE  BoundToLiveBroker'
<1> DEFINE brokers == DOMAIN slaves
           stale == StaleBinds(clients, brokers)
           nth(i) == k + Cardinality({j \in stale : j < i})
<1>1. brokers \in SUBSET Ids /\ m_alloc_slave_broker_index \in Ids
  BY DEF IsMap, TypeInv
<1>2. stale \in SUBSET Ids
  BY DEF StaleBinds, IsMap
<1>3. \A i : nth(i) \in Nat
  <2> TAKE i
  <2>1. {j \in stale : j < i} \in SUBSET Ids
    BY <1>2
  <2> HIDE DEF stale
  <2>2. Cardinality({j \in stale : j < i}) \in Nat
    BY <2>1, IdsFinite
  <2> QED
    BY <2>2
<1>4. m_broker_client_info' =
        [i \in DOMAIN clients |->
           IF i \in stale
           THEN [clients[i] EXCEPT !.bind_broker_id = alloc_broker_id(brokers, nth(i))]
           ELSE clients[i]]
  BY DEF sync_all_register_info, Rebound
<1> HIDE DEF nth
<1>5. \A i : IF brokers = {} THEN alloc_broker_id(brokers, nth(i)) = BROKER_MASTER_NODE_ID
             ELSE alloc_broker_id(brokers, nth(i)) \in brokers
  BY <1>1, <1>3, BrokerIdRegistered
<1>6. \A i \in DOMAIN clients :
        /\ clients[i] \in ClientInfo
        /\ i \notin stale => clients[i].bind_broker_id \in brokers
  BY DEF IsMap, StaleBinds
<1>7. DOMAIN m_slave_broker_sockets' = brokers
  OBVIOUS
<1> HIDE DEF brokers, stale
<1>8. \A i \in DOMAIN clients :
        IF brokers = {} THEN m_broker_client_info'[i].bind_broker_id = BROKER_MASTER_NODE_ID
        ELSE m_broker_client_info'[i].bind_broker_id \in brokers
  BY <1>4, <1>5, <1>6 DEF ClientInfo
<1> QED
  BY <1>4, <1>7, <1>8 DEF BoundToLiveBroker

LEMMA NextBinds ==
  ASSUME TypeInv, BoundToLiveBroker, [Next]_vars
  PROVE  BoundToLiveBroker'
<1>1. /\ IsMap(m_slave_broker_sockets, Ids \ {0}, Conns)
      /\ IsMap(m_broker_client_info, Ids \ {0}, ClientInfo)
      /\ DOMAIN m_slave_broker_sockets \in SUBSET Ids
      /\ m_alloc_slave_broker_index \in Ids
  BY DEF TypeInv, IsMap
<1>2. ASSUME NEW c \in Conns, handle_slave_register(c)
      PROVE  BoundToLiveBroker'
  <2> DEFINE slaves == Insert(m_slave_broker_sockets, alloc_id(1), c)
  <2>1. alloc_id(1) \in Ids \ {0}
    BY NewIdTyped DEF TypeInv
  <2>2. IsMap(slaves, Ids \ {0}, Conns)
    BY <1>1, <2>1, InsertTyped
  <2>3. /\ m_slave_broker_sockets' = slaves
        /\ sync_all_register_info(c, alloc_id(1), m_msg2id, slaves, m_broker_client_info, 0)
    BY <1>2 DEF handle_slave_register
  <2> HIDE DEF slaves
  <2> QED
    BY <1>1, <2>2, <2>3, SyncBinds
<1>3. ASSUME NEW c \in Conns, handle_client_register(c)
      PROVE  BoundToLiveBroker'
  <2> DEFINE msg == Head(toBroker[c])
             broker == alloc_broker_id(DOMAIN m_slave_broker_sockets, 0)
             info == [bind_broker_id |-> broker, service_name |-> msg.service_name,
                      sock |-> c]
             clients == Insert(m_broker_client_info, alloc_id(1), info)
  <2>1. alloc_id(1) \in Ids \ {0}
    BY NewIdTyped DEF TypeInv
  <2>2. msg.service_name \in Names \cup {NoName}
    <3>1. toBroker[c] # <<>> /\ msg.cmd = "BROKER_CLIENT_REGISTER"
      BY <1>3 DEF handle_client_register, Receives
    <3>2. msg \in MsgsToBroker
      BY <3>1, ReceivedTyped
    <3> QED
      BY <3>1, <3>2 DEF MsgsToBroker
  <2>3. broker \in Ids
    BY <1>1, BrokerIdTyped
  <2>4. /\ sync_all_register_info(c, alloc_id(1), m_msg2id', m_slave_broker_sockets, clients, 1)
        /\ m_slave_broker_sockets' = m_slave_broker_sockets
    BY <1>3 DEF handle_client_register
  <2> HIDE DEF msg, broker
  <2>5. info \in ClientInfo
    BY <2>2, <2>3 DEF ClientInfo
  <2> HIDE DEF info
  <2>6. IsMap(clients, Ids \ {0}, ClientInfo)
    BY <1>1, <2>1, <2>5, InsertTyped
  <2> HIDE DEF clients
  <2> QED
    BY <1>1, <2>4, <2>6, SyncBinds
<1>4. ASSUME NEW c \in Conns, handle_broken(c)
      PROVE  BoundToLiveBroker'
  <2> DEFINE slaves == Erase(m_slave_broker_sockets, session[c])
             clients == Erase(m_broker_client_info, session[c])
  <2>1. IsMap(slaves, Ids \ {0}, Conns) /\ IsMap(clients, Ids \ {0}, ClientInfo)
    BY <1>1, EraseTyped
  <2>2. /\ m_slave_broker_sockets' = slaves
        /\ sync_all_register_info(NoConn, 0, m_msg2id, slaves, clients, 0)
    BY <1>4 DEF handle_broken
  <2> HIDE DEF slaves, clients
  <2> QED
    BY <2>1, <2>2, SyncBinds
<1>5. CASE ~ \E c \in Conns : \/ handle_slave_register(c)
                              \/ handle_client_register(c)
                              \/ handle_broken(c)
  <2>1. m_slave_broker_sockets' = m_slave_broker_sockets
    BY <1>5, OthersKeepIds
  <2> DEFINE BindsKept ==
        /\ DOMAIN m_broker_client_info' = DOMAIN m_broker_client_info
        /\ \A i \in DOMAIN m_broker_client_info :
             m_broker_client_info'[i].bind_broker_id = m_broker_client_info[i].bind_broker_id
  <2>2. BindsKept
    <3>1. CASE UNCHANGED m_broker_client_info
      BY <3>1
    <3>2. ASSUME NEW c \in Conns, handle_client_register_slave_broker(c)
          PROVE  BindsKept
      <4> DEFINE id == Head(toBroker[c]).node_id
      <4>1. m_broker_client_info' =
              IF id \in DOMAIN m_broker_client_info
              THEN [m_broker_client_info EXCEPT ![id].sock = c]
              ELSE m_broker_client_info
        BY <3>2 DEF handle_client_register_slave_broker
      <4> HIDE DEF id
      <4>2. \A i \in DOMAIN m_broker_client_info : m_broker_client_info[i] \in ClientInfo
        BY <1>1 DEF IsMap
      <4>3. CASE id \in DOMAIN m_broker_client_info
        <5>1. [m_broker_client_info[id] EXCEPT !.sock = c].bind_broker_id
                = m_broker_client_info[id].bind_broker_id
          BY <4>2, <4>3 DEF ClientInfo
        <5> QED
          BY <1>1, <4>1, <4>3, <5>1 DEF IsMap
      <4> QED
        BY <4>1, <4>3
    <3>3. \/ UNCHANGED m_broker_client_info
          \/ \E c \in Conns : handle_client_register_slave_broker(c)
      <4>1. CASE UNCHANGED vars
        BY <4>1 DEF vars, brokerVars
      <4>2. ASSUME NEW c \in Conns, BrokerStep(c)
            PROVE  \/ UNCHANGED m_broker_client_info
                   \/ handle_client_register_slave_broker(c)
        BY <1>5, <4>2 DEF BrokerStep, reject_client_register, handle_route_msg,
           handle_broken_unknown, brokerVars
      <4>3. ASSUME NEW c \in Conns,
                   PeerConnects(c) \/ PeerRoutes(c) \/ PeerReads(c) \/ PeerBreaks(c)
            PROVE  UNCHANGED m_broker_client_info
        BY <4>3 DEF PeerConnects, PeerRoutes, PeerReads, PeerBreaks, brokerVars
      <4> QED
        BY <4>1, <4>2, <4>3 DEF Next
    <3> QED
      BY <3>1, <3>2, <3>3
  <2> QED
    BY <2>1, <2>2 DEF BoundToLiveBroker
<1> QED
  BY <1>2, <1>3, <1>4, <1>5

(* Whatever brokers come and go, each registered client is bound to a      *)
(* slave that is registered now, or to the master when there is none       *)
(* (ffbroker.cpp, the rebinding with which every synchronisation begins).  *)
THEOREM LiveBrokers == Spec => []BoundToLiveBroker
<1>1. Init => TypeInv /\ BoundToLiveBroker
  <2>1. Init => BoundToLiveBroker
    BY DEF Init, BrokerInit, BoundToLiveBroker
  <2> QED
    BY <2>1, InitTyped
<1>2. TypeInv /\ BoundToLiveBroker /\ [Next]_vars => (TypeInv /\ BoundToLiveBroker)'
  BY NextTyped, NextBinds
<1> QED
  BY <1>1, <1>2, PTL DEF Spec

-----------------------------------------------------------------------------
(* Sockets.  A peer registers at most once, before anything else; a deleted*)
(* socket has nothing more to say.  The repository's slaves register under *)
(* the clients' command with the length of their host for a node id: what  *)
(* follows is for systems in which that length is no id.                   *)
NoHostTakenForId == OwnSlaves = {} \/ HostLength \notin Ids

Later(m) == \/ m.cmd = "BROKER_ROUTE_MSG"
            \/ m.cmd = "CLIENT_REGISTER_TO_SLAVE_BROKER" /\ m.node_id \notin Ids

Registration(m) == m.cmd \in {"BROKER_SLAVE_REGISTER", "BROKER_CLIENT_REGISTER"}

Orderly(c) ==
  /\ link[c] = "unused" => toBroker[c] = <<>> /\ session[c] = 0
  /\ <<"broker", c>> \in deleted =>
       link[c] = "broken" /\ toBroker[c] = <<>> /\ session[c] = 0
  /\ \A k \in 1..Len(toBroker[c]) :
       \/ Later(toBroker[c][k])
       \/ k = 1 /\ session[c] = 0 /\ Registration(toBroker[c][1])

Arrivals == \A c \in Conns : Orderly(c)

LEMMA TailLater ==
  ASSUME TypeInv, Arrivals, NEW c \in Conns, toBroker[c] # <<>>
  PROVE  /\ toBroker[c] \in Seq(MsgsToBroker) /\ Tail(toBroker[c]) \in Seq(MsgsToBroker)
         /\ Len(toBroker[c]) >= 1 /\ Head(toBroker[c]) = toBroker[c][1]
         /\ \A k \in 1..Len(Tail(toBroker[c])) : Later(Tail(toBroker[c])[k])
<1>1. toBroker[c] \in Seq(MsgsToBroker)
  BY DEF TypeInv
<1> HIDE DEF MsgsToBroker
<1>2. /\ Tail(toBroker[c]) \in Seq(MsgsToBroker)
      /\ Len(toBroker[c]) \in Nat /\ Len(toBroker[c]) >= 1
      /\ Len(Tail(toBroker[c])) = Len(toBroker[c]) - 1
      /\ \A k \in 1..Len(Tail(toBroker[c])) : Tail(toBroker[c])[k] = toBroker[c][k + 1]
      /\ Head(toBroker[c]) = toBroker[c][1]
  BY <1>1, HeadTailProperties
<1>3. ASSUME NEW k \in 1..Len(Tail(toBroker[c]))
      PROVE  Later(toBroker[c][k + 1])
  <2>1. k + 1 \in 1..Len(toBroker[c]) /\ k + 1 # 1
    BY <1>2
  <2> QED
    BY <2>1 DEF Orderly, Arrivals
<1> QED
  BY <1>1, <1>2, <1>3

(* A handler that consumes a message, whatever session it leaves.          *)
LEMMA ConsumedArrivals ==
  ASSUME TypeInv, Arrivals, NEW c \in Conns, toBroker[c] # <<>>, Consumed(c),
         UNCHANGED <<link, deleted>>, NEW s, session' = [session EXCEPT ![c] = s]
  PROVE  Arrivals'
<1>1. \A k \in 1..Len(Tail(toBroker[c])) : Later(Tail(toBroker[c])[k])
  BY TailLater
<1>2. /\ toBroker'[c] = Tail(toBroker[c])
      /\ \A d \in Conns : d # c => toBroker'[d] = toBroker[d] /\ session'[d] = session[d]
  BY DEF Consumed, TypeInv
<1>3. link[c] # "unused" /\ <<"broker", c>> \notin deleted
  BY DEF Orderly, Arrivals
<1> HIDE DEF Later
<1> QED
  BY <1>1, <1>2, <1>3 DEF Orderly, Arrivals

LEMMA CloseArrivals ==
  ASSUME TypeInv, Arrivals, NEW c \in Conns,
         NEW s, s = toBroker[c] \/ (toBroker[c] # <<>> /\ s = Tail(toBroker[c])),
         CloseWith(c, s), UNCHANGED <<deleted, session>>
  PROVE  Arrivals'
<1>1. /\ s \in Seq(MsgsToBroker)
      /\ \A k \in 1..Len(s) : \/ Later(s[k])
                              \/ k = 1 /\ session[c] = 0 /\ Registration(s[1])
  <2>1. CASE s = toBroker[c]
    BY <2>1 DEF TypeInv, Orderly, Arrivals
  <2>2. CASE toBroker[c] # <<>> /\ s = Tail(toBroker[c])
    BY <2>2, TailLater
  <2> QED
    BY <2>1, <2>2
<1>2. PICK n \in 0..Len(s) : toBroker' = [toBroker EXCEPT ![c] = SubSeq(s, 1, n)]
  BY DEF CloseWith
<1>3. link[c] = "open" /\ link' = [link EXCEPT ![c] = "broken"]
  BY DEF CloseWith
<1> DEFINE q == SubSeq(s, 1, n)
<1>4. \A k \in 1..Len(q) : k \in 1..Len(s) /\ q[k] = s[k]
  <2> HIDE DEF MsgsToBroker
  <2>1. Len(s) \in Nat /\ q \in Seq(MsgsToBroker) /\ Len(q) = n
    BY <1>1, SubSeqProperties
  <2>2. \A k \in 1..n : q[k] = s[k]
    BY <1>1, <2>1, SubSeqProperties
  <2> QED
    BY <2>1, <2>2
<1>5. /\ toBroker'[c] = q /\ link'[c] = "broken"
      /\ \A d \in Conns : d # c => toBroker'[d] = toBroker[d] /\ link'[d] = link[d]
  BY <1>2, <1>3 DEF TypeInv
<1> HIDE DEF q, Later, Registration
<1>6. \A k \in 1..Len(q) : \/ Later(q[k])
                           \/ k = 1 /\ session[c] = 0 /\ Registration(q[1])
  BY <1>1, <1>4
<1>7. <<"broker", c>> \notin deleted
  BY <1>3 DEF Orderly, Arrivals
<1> QED
  BY <1>5, <1>6, <1>7 DEF Orderly, Arrivals

LEMMA BrokenArrivals ==
  ASSUME TypeInv, Arrivals, NEW c \in Conns,
         BreakSeenByBroker(c), SafeDelete("broker", c),
         session' = [session EXCEPT ![c] = 0], UNCHANGED <<link, toBroker>>
  PROVE  Arrivals'
<1>1. \A d \in Conns : d # c => (<<"broker", d>> \in deleted' <=> <<"broker", d>> \in deleted)
  BY DEF SafeDelete
<1>2. session'[c] = 0 /\ \A d \in Conns : d # c => session'[d] = session[d]
  BY DEF TypeInv
<1>3. Len(toBroker[c]) = 0
  BY DEF BreakSeenByBroker
<1> HIDE DEF Later, Registration
<1> QED
  BY <1>1, <1>2, <1>3 DEF Orderly, Arrivals, BreakSeenByBroker

LEMMA PeerArrivals ==
  ASSUME NoHostTakenForId, TypeInv, Arrivals, NEW c \in Conns,
         PeerConnects(c) \/ PeerRoutes(c) \/ PeerReads(c) \/ PeerBreaks(c)
  PROVE  Arrivals'
<1>1. CASE PeerReads(c)
  BY <1>1 DEF PeerReads, brokerVars, Orderly, Arrivals
<1>2. CASE PeerBreaks(c)
  BY <1>2, CloseArrivals DEF PeerBreaks, Break, brokerVars
<1>3. CASE PeerConnects(c)
  <2>1. PICK m \in FirstMsgs(c) : ConnectAndSend(c, m)
    BY <1>3 DEF PeerConnects
  <2>2. UNCHANGED <<deleted, session>>
    BY <1>3 DEF PeerConnects, brokerVars
  <2>3. Later(m) \/ Registration(m)
    BY PeersAssumption DEF FirstMsgs, RegisterClient, RegisterSlave, RegisterToSlave,
       NoHostTakenForId, Later, Registration
  <2>4. session[c] = 0 /\ link[c] = "unused" /\ <<"broker", c>> \notin deleted
    BY <2>1 DEF Orderly, Arrivals, ConnectAndSend
  <2>5. /\ toBroker'[c] = <<m>> /\ link'[c] = "open"
        /\ \A d \in Conns : d # c => toBroker'[d] = toBroker[d] /\ link'[d] = link[d]
    BY <2>1 DEF ConnectAndSend, TypeInv
  <2>6. \A k \in 1..Len(<<m>>) : k = 1 /\ <<m>>[k] = m
    OBVIOUS
  <2> HIDE DEF Later, Registration
  <2>7. \A k \in 1..Len(toBroker'[c]) :
          \/ Later(toBroker'[c][k])
          \/ k = 1 /\ session'[c] = 0 /\ Registration(toBroker'[c][1])
    BY <2>2, <2>3, <2>4, <2>5, <2>6
  <2>8. Orderly(c)'
    <3>1. toBroker'[c] # <<>> /\ link'[c] = "open" /\ <<"broker", c>> \notin deleted'
      BY <2>2, <2>4, <2>5
    <3> QED
      BY <2>7, <3>1 DEF Orderly
  <2>9. \A d \in Conns : d # c => Orderly(d)'
    BY <2>2, <2>5 DEF Orderly, Arrivals
  <2> QED
    BY <2>8, <2>9 DEF Arrivals
<1>4. CASE PeerRoutes(c)
  <2>1. PICK dest \in RouteDests :
          toBroker' = SentToBroker(c, RouteMsg(Route(told[c], dest, 0, 0, 0), "socket"))
    BY <1>4 DEF PeerRoutes
  <2> DEFINE m == RouteMsg(Route(told[c], dest, 0, 0, 0), "socket")
  <2>2. link[c] = "open" /\ UNCHANGED <<link, deleted, session>>
    BY <1>4 DEF PeerRoutes, brokerVars
  <2>3. Later(m)
    BY DEF RouteMsg, Later
  <2> HIDE DEF m
  <2>4. /\ toBroker'[c] = Append(toBroker[c], m)
        /\ \A d \in Conns : d # c => toBroker'[d] = toBroker[d]
    BY <2>1, <2>2 DEF SentToBroker, TypeInv, m
  <2>5. \A k \in 1..Len(toBroker'[c]) :
          \/ toBroker'[c][k] = m
          \/ k \in 1..Len(toBroker[c]) /\ toBroker'[c][k] = toBroker[c][k]
    <3>1. toBroker[c] \in Seq(MsgsToBroker)
      BY DEF TypeInv
    <3> HIDE DEF MsgsToBroker
    <3> QED
      BY <2>4, <3>1
  <2>6. toBroker[c] # <<>> => toBroker'[c][1] = toBroker[c][1]
    <3>1. toBroker[c] \in Seq(MsgsToBroker)
      BY DEF TypeInv
    <3> HIDE DEF MsgsToBroker
    <3> QED
      BY <2>4, <3>1
  <2>7. Len(toBroker[c]) \in Nat /\ (toBroker[c] = <<>> => Len(toBroker[c]) = 0)
    BY DEF TypeInv
  <2> HIDE DEF Later, Registration
  <2>8. \A k \in 1..Len(toBroker'[c]) :
          \/ Later(toBroker'[c][k])
          \/ k = 1 /\ session'[c] = 0 /\ Registration(toBroker'[c][1])
    <3> TAKE k \in 1..Len(toBroker'[c])
    <3>1. CASE toBroker'[c][k] = m
      BY <2>3, <3>1
    <3>2. CASE k \in 1..Len(toBroker[c]) /\ toBroker'[c][k] = toBroker[c][k]
      <4>1. \/ Later(toBroker[c][k])
            \/ k = 1 /\ session[c] = 0 /\ Registration(toBroker[c][1])
        BY <3>2 DEF Orderly, Arrivals
      <4> QED
        BY <2>2, <2>6, <2>7, <3>2, <4>1
    <3> QED
      BY <2>5, <3>1, <3>2
  <2>9. <<"broker", c>> \notin deleted
    BY <2>2 DEF Orderly, Arrivals
  <2> QED
    BY <2>2, <2>4, <2>8, <2>9 DEF Orderly, Arrivals
<1> QED
  BY <1>1, <1>2, <1>3, <1>4

(* Entries.  The tables a handler gives to the synchronisation decide.     *)
LEMMA OwnedAfter ==
  ASSUME NEW clients, SameEntries(m_broker_client_info', clients),
         NEW slaves, m_slave_broker_sockets' = slaves,
         \A i \in DOMAIN clients : session'[clients[i].sock] = i,
         \A i \in DOMAIN slaves : session'[slaves[i]] = i
  PROVE  EntriesOwned'
BY DEF EntriesOwned, SameEntries

(* The one registration of a connection finds it without a session.        *)
LEMMA RegistersOnce ==
  ASSUME TypeInv, Arrivals, NEW c \in Conns, toBroker[c] # <<>>,
         Registration(Head(toBroker[c]))
  PROVE  session[c] = 0 /\ <<"broker", c>> \notin deleted
<1>1. Len(toBroker[c]) \in Nat /\ Len(toBroker[c]) >= 1 /\ Head(toBroker[c]) = toBroker[c][1]
  BY TailLater DEF TypeInv
<1>2. ~Later(Head(toBroker[c]))
  BY DEF Later, Registration
<1> HIDE DEF Later, Registration
<1> QED
  BY <1>1, <1>2 DEF Arrivals, Orderly

(* What a registration, a break and everything else do to the tables.      *)
LEMMA SlaveRegisterTables ==
  ASSUME TypeInv, NEW c \in Conns, handle_slave_register(c)
  PROVE  /\ alloc_id(1) \in Ids \ {0}
         /\ toBroker[c] # <<>> /\ Registration(Head(toBroker[c])) /\ Consumed(c)
         /\ session' = [session EXCEPT ![c] = alloc_id(1)]
         /\ SameEntries(m_broker_client_info', m_broker_client_info)
         /\ m_slave_broker_sockets' = Insert(m_slave_broker_sockets, alloc_id(1), c)
         /\ UNCHANGED <<link, deleted>>
<1> DEFINE id == alloc_id(1)
           slaves == Insert(m_slave_broker_sockets, id, c)
<1>1. id \in Ids \ {0}
  BY NewIdTyped DEF TypeInv
<1>2. /\ IsMap(slaves, Ids \ {0}, Conns) /\ IsMap(m_msg2id, Msgs, Ids \ {0})
      /\ IsMap(m_broker_client_info, Ids \ {0}, ClientInfo)
  BY <1>1, InsertTyped DEF TypeInv
<1>3. sync_all_register_info(c, id, m_msg2id, slaves, m_broker_client_info, 0)
  BY DEF handle_slave_register
<1>4. SameEntries(m_broker_client_info', m_broker_client_info)
  <2> HIDE DEF id, slaves
  <2> QED
    BY <1>1, <1>2, <1>3, SyncTyped
<1> QED
  BY <1>1, <1>4 DEF handle_slave_register, Receives, Registration

LEMMA ClientRegisterTables ==
  ASSUME TypeInv, NEW c \in Conns, handle_client_register(c)
  PROVE  /\ alloc_id(1) \in Ids \ {0}
         /\ toBroker[c] # <<>> /\ Registration(Head(toBroker[c])) /\ Consumed(c)
         /\ session' = [session EXCEPT ![c] = alloc_id(1)]
         /\ \E info : /\ info.sock = c
                      /\ info.service_name \in Names \cup {NoName}
                      /\ ~NameTaken(info.service_name)
                      /\ SameEntries(m_broker_client_info',
                                     Insert(m_broker_client_info, alloc_id(1), info))
         /\ m_slave_broker_sockets' = m_slave_broker_sockets
         /\ UNCHANGED <<link, deleted>>
<1> DEFINE msg == Head(toBroker[c])
           id == alloc_id(1)
           ids == NewMsgIds(msg.msg_names)
           broker == alloc_broker_id(DOMAIN m_slave_broker_sockets, 0)
           info == [bind_broker_id |-> broker, service_name |-> msg.service_name,
                    sock |-> c]
           clients == Insert(m_broker_client_info, id, info)
<1>1. id \in Ids \ {0}
  BY NewIdTyped DEF TypeInv
<1>2. toBroker[c] # <<>> /\ msg.cmd = "BROKER_CLIENT_REGISTER"
  BY DEF handle_client_register, Receives
<1>3. msg.service_name \in Names \cup {NoName} /\ msg.msg_names \in SUBSET Msgs
  <2>1. msg \in MsgsToBroker
    BY <1>2, ReceivedTyped
  <2> QED
    BY <1>2, <2>1 DEF MsgsToBroker
<1>4. IsMap(ids, Msgs, Ids \ {0})
  BY <1>3, NewIdsTyped DEF TypeInv
<1>5. broker \in Ids
  BY BrokerIdTyped DEF TypeInv, IsMap
<1> HIDE DEF broker
<1>6. info \in ClientInfo /\ info.sock = c
  BY <1>3, <1>5 DEF ClientInfo
<1>7. IsMap(clients, Ids \ {0}, ClientInfo) /\ IsMap(m_slave_broker_sockets, Ids \ {0}, Conns)
  BY <1>1, <1>6, InsertTyped DEF TypeInv
<1>8. /\ m_msg2id' = ids
      /\ sync_all_register_info(c, id, m_msg2id', m_slave_broker_sockets, clients, 1)
  BY DEF handle_client_register, broker
<1>9. SameEntries(m_broker_client_info', clients)
  <2> HIDE DEF id, ids, info, msg, clients
  <2> QED
    BY <1>1, <1>4, <1>7, <1>8, SyncTyped
<1>10. info.service_name \in Names \cup {NoName} /\ ~NameTaken(info.service_name)
  BY <1>3 DEF handle_client_register
<1> HIDE DEF info
<1> QED
  BY <1>1, <1>2, <1>6, <1>9, <1>10 DEF handle_client_register, Registration

LEMMA BrokenTables ==
  ASSUME TypeInv, NEW c \in Conns, handle_broken(c)
  PROVE  /\ session[c] # 0 /\ BreakSeenByBroker(c) /\ SafeDelete("broker", c)
         /\ session' = [session EXCEPT ![c] = 0]
         /\ SameEntries(m_broker_client_info', Erase(m_broker_client_info, session[c]))
         /\ m_slave_broker_sockets' = Erase(m_slave_broker_sockets, session[c])
         /\ UNCHANGED <<link, toBroker, allocs>>
<1> DEFINE slaves == Erase(m_slave_broker_sockets, session[c])
           clients == Erase(m_broker_client_info, session[c])
<1>1. /\ IsMap(slaves, Ids \ {0}, Conns) /\ IsMap(clients, Ids \ {0}, ClientInfo)
      /\ IsMap(m_msg2id, Msgs, Ids \ {0}) /\ 0 \in Ids
  BY EraseTyped, BrokerAssumption DEF TypeInv, Ids
<1>2. sync_all_register_info(NoConn, 0, m_msg2id, slaves, clients, 0)
  BY DEF handle_broken
<1>3. SameEntries(m_broker_client_info', clients)
  <2> HIDE DEF slaves, clients
  <2> QED
    BY <1>1, <1>2, SyncTyped
<1> QED
  BY <1>3 DEF handle_broken

(* Every other step leaves tables and sessions as they are.                *)
LEMMA OthersKeepTables ==
  ASSUME NoHostTakenForId, TypeInv, Arrivals, [Next]_vars,
         ~ \E c \in Conns : \/ handle_slave_register(c)
                            \/ handle_client_register(c)
                            \/ handle_broken(c)
  PROVE  /\ UNCHANGED <<m_broker_client_info, m_slave_broker_sockets, session, allocs>>
         /\ Arrivals'
<1>1. UNCHANGED <<m_slave_broker_sockets, session, allocs>>
  BY OthersKeepIds DEF idVars
<1>2. CASE UNCHANGED vars
  BY <1>2 DEF vars, netVars, brokerVars, Arrivals, Orderly
<1>3. ASSUME NEW c \in Conns,
             PeerConnects(c) \/ PeerRoutes(c) \/ PeerReads(c) \/ PeerBreaks(c)
      PROVE  UNCHANGED m_broker_client_info /\ Arrivals'
  <2>1. UNCHANGED m_broker_client_info
    BY <1>3 DEF PeerConnects, PeerRoutes, PeerReads, PeerBreaks, brokerVars
  <2> QED
    BY <1>3, <2>1, PeerArrivals
<1>4. ASSUME NEW c \in Conns, BrokerStep(c)
      PROVE  UNCHANGED m_broker_client_info /\ Arrivals'
  <2>1. session' = [session EXCEPT ![c] = session[c]]
    BY <1>1 DEF TypeInv
  <2>2. CASE handle_client_register_slave_broker(c)
    <3>1. /\ toBroker[c] # <<>> /\ Consumed(c) /\ UNCHANGED <<link, deleted>>
          /\ Head(toBroker[c]).cmd = "CLIENT_REGISTER_TO_SLAVE_BROKER"
      BY <2>2 DEF handle_client_register_slave_broker, Receives
    <3>2. Later(Head(toBroker[c]))
      <4>1. Len(toBroker[c]) >= 1 /\ Len(toBroker[c]) \in Nat /\ Head(toBroker[c]) = toBroker[c][1]
        BY <3>1, TailLater DEF TypeInv
      <4>2. ~Registration(Head(toBroker[c]))
        BY <3>1 DEF Registration
      <4>3. 1 \in 1..Len(toBroker[c])
        BY <4>1
      <4> HIDE DEF Later, Registration
      <4>4. Later(toBroker[c][1]) \/ Registration(toBroker[c][1])
        BY <4>3 DEF Orderly, Arrivals
      <4> QED
        BY <4>1, <4>2, <4>4
    <3>3. Head(toBroker[c]).node_id \notin Ids
      BY <3>1, <3>2 DEF Later
    <3>4. Head(toBroker[c]).node_id \notin DOMAIN m_broker_client_info
      BY <3>3, TypedBroker, TableSocks
    <3>5. UNCHANGED m_broker_client_info
      BY <2>2, <3>4 DEF handle_client_register_slave_broker
    <3> QED
      BY <2>1, <3>1, <3>5, ConsumedArrivals
  <2>3. CASE handle_route_msg(c)
    BY <2>1, <2>3, ConsumedArrivals DEF handle_route_msg, Receives, brokerVars
  <2>4. CASE reject_client_register(c)
    <3>1. toBroker[c] # <<>> /\ UNCHANGED <<m_broker_client_info, deleted>>
      BY <2>4 DEF reject_client_register, Receives, brokerVars
    <3>2. CASE CloseWith(c, Tail(toBroker[c]))
      BY <1>1, <3>1, <3>2, CloseArrivals
    <3>3. CASE Consumed(c) /\ UNCHANGED <<link, toNode>>
      BY <2>1, <3>1, <3>3, ConsumedArrivals
    <3> QED
      BY <2>4, <3>1, <3>2, <3>3 DEF reject_client_register
  <2>5. CASE handle_broken_unknown(c)
    <3>1. session' = [session EXCEPT ![c] = 0]
      BY <2>1, <2>5 DEF handle_broken_unknown
    <3> QED
      BY <2>5, <3>1, BrokenArrivals DEF handle_broken_unknown, brokerVars
  <2> QED
    BY <1>4, <2>2, <2>3, <2>4, <2>5 DEF BrokerStep
<1> QED
  BY <1>1, <1>2, <1>3, <1>4 DEF Next

Owned == EntriesOwned /\ Arrivals

LEMMA NextOwned ==
  ASSUME NoHostTakenForId, TypeInv, Owned, [Next]_vars
  PROVE  Owned'
<1>1. /\ \A i \in DOMAIN m_broker_client_info :
           /\ m_broker_client_info[i].sock \in Conns
           /\ i \in Ids \ {0} /\ session[m_broker_client_info[i].sock] = i
      /\ \A i \in DOMAIN m_slave_broker_sockets :
           /\ m_slave_broker_sockets[i] \in Conns
           /\ i \in Ids \ {0} /\ session[m_slave_broker_sockets[i]] = i
  BY TypedBroker, TableSocks DEF Owned, EntriesOwned
<1>2. session \in [Conns -> Ids]
  BY DEF TypeInv
<1>3. ASSUME NEW c \in Conns, handle_slave_register(c)
      PROVE  Owned'
  <2> DEFINE id == alloc_id(1)
             slaves == Insert(m_slave_broker_sockets, id, c)
  <2>1. /\ toBroker[c] # <<>> /\ Registration(Head(toBroker[c])) /\ Consumed(c)
        /\ id \in Ids \ {0}
        /\ session' = [session EXCEPT ![c] = id]
        /\ SameEntries(m_broker_client_info', m_broker_client_info)
        /\ m_slave_broker_sockets' = slaves
        /\ UNCHANGED <<link, deleted>>
    BY <1>3, SlaveRegisterTables
  <2> HIDE DEF id
  <2>2. session[c] = 0
    BY <2>1, RegistersOnce DEF Owned
  <2>3. Arrivals'
    BY <2>1, ConsumedArrivals DEF Owned
  <2>4. \A i \in DOMAIN slaves : session'[slaves[i]] = i
    BY <1>1, <1>2, <2>1, <2>2 DEF Insert
  <2>5. \A i \in DOMAIN m_broker_client_info : session'[m_broker_client_info[i].sock] = i
    BY <1>1, <1>2, <2>1, <2>2
  <2> HIDE DEF slaves
  <2> QED
    BY <2>1, <2>3, <2>4, <2>5, OwnedAfter DEF Owned
<1>4. ASSUME NEW c \in Conns, handle_client_register(c)
      PROVE  Owned'
  <2> DEFINE id == alloc_id(1)
  <2>1. /\ toBroker[c] # <<>> /\ Registration(Head(toBroker[c])) /\ Consumed(c)
        /\ id \in Ids \ {0}
        /\ session' = [session EXCEPT ![c] = id]
        /\ m_slave_broker_sockets' = m_slave_broker_sockets
        /\ UNCHANGED <<link, deleted>>
    BY <1>4, ClientRegisterTables
  <2>2. PICK info : /\ info.sock = c
                    /\ SameEntries(m_broker_client_info',
                                   Insert(m_broker_client_info, id, info))
    BY <1>4, ClientRegisterTables
  <2> HIDE DEF id
  <2> DEFINE clients == Insert(m_broker_client_info, id, info)
  <2>3. session[c] = 0
    BY <2>1, RegistersOnce DEF Owned
  <2>4. Arrivals'
    BY <2>1, ConsumedArrivals DEF Owned
  <2>5. \A i \in DOMAIN clients : session'[clients[i].sock] = i
    BY <1>1, <1>2, <2>1, <2>2, <2>3 DEF Insert
  <2>6. \A i \in DOMAIN m_slave_broker_sockets : session'[m_slave_broker_sockets[i]] = i
    BY <1>1, <1>2, <2>1, <2>3
  <2> HIDE DEF clients
  <2> QED
    BY <2>1, <2>2, <2>4, <2>5, <2>6, OwnedAfter DEF Owned, clients
<1>5. ASSUME NEW c \in Conns, handle_broken(c)
      PROVE  Owned'
  <2> DEFINE slaves == Erase(m_slave_broker_sockets, session[c])
             clients == Erase(m_broker_client_info, session[c])
  <2>1. /\ session[c] # 0 /\ BreakSeenByBroker(c) /\ SafeDelete("broker", c)
        /\ session' = [session EXCEPT ![c] = 0]
        /\ SameEntries(m_broker_client_info', clients)
        /\ m_slave_broker_sockets' = slaves
        /\ UNCHANGED <<link, toBroker>>
    BY <1>5, BrokenTables
  <2>2. Arrivals'
    BY <2>1, BrokenArrivals DEF Owned
  <2>3. \A i \in DOMAIN clients : session'[clients[i].sock] = i
    BY <1>1, <1>2, <2>1 DEF Erase
  <2>4. \A i \in DOMAIN slaves : session'[slaves[i]] = i
    BY <1>1, <1>2, <2>1 DEF Erase
  <2> HIDE DEF slaves, clients
  <2> QED
    BY <2>1, <2>2, <2>3, <2>4, OwnedAfter DEF Owned
<1>6. CASE ~ \E c \in Conns : \/ handle_slave_register(c)
                              \/ handle_client_register(c)
                              \/ handle_broken(c)
  BY <1>6, OthersKeepTables DEF Owned, EntriesOwned
<1> QED
  BY <1>3, <1>4, <1>5, <1>6

LEMMA InitOwned == Init => Owned
<1> SUFFICES ASSUME Init PROVE Owned
  OBVIOUS
<1>1. \A c \in Conns : toBroker[c] = <<>> /\ session[c] = 0 /\ <<"broker", c>> \notin deleted
  BY DEF Init, NetInit, BrokerInit
<1>2. ASSUME NEW c \in Conns, NEW k \in 1..Len(toBroker[c])
      PROVE  FALSE
  <2>1. toBroker[c] = <<>>
    BY <1>1
  <2>2. Len(toBroker[c]) = 0
    BY <2>1
  <2> QED
    BY <2>2
<1> HIDE DEF Later, Registration
<1>3. Arrivals
  BY <1>1, <1>2, Zenon DEF Arrivals, Orderly
<1>4. EntriesOwned
  BY DEF Init, BrokerInit, EntriesOwned
<1> QED
  BY <1>3, <1>4 DEF Owned

LEMMA OwnedLive == TypeInv /\ Owned => NoDanglingSock /\ SessionsLive
BY TypedBroker, TableSocks DEF Owned, EntriesOwned, Arrivals, Orderly, NoDanglingSock, SessionsLive

(* No registered entry ever holds a socket that handle_broken deleted, even*)
(* when ids have wrapped and one entry has replaced another: the entry a   *)
(* break leaves behind is another socket's (ffbroker.cpp, handle_broken).  *)
THEOREM NoDeletedSocket ==
  ASSUME NoHostTakenForId
  PROVE  Spec => []NoDanglingSock
<1>1. Init => TypeInv /\ Owned
  BY InitTyped, InitOwned
<1>2. TypeInv /\ Owned /\ [Next]_vars => (TypeInv /\ Owned)'
  BY NextTyped, NextOwned
<1> QED
  BY <1>1, <1>2, OwnedLive, PTL DEF Spec

-----------------------------------------------------------------------------
(* Sessions.  An id that is new is a key of no table, so an entry it makes *)
(* hides no other; and a break erases nobody else's.                       *)
Entered == NotWrapped => SessionsEntered

LEMMA NewIdFree ==
  ASSUME TypeInv, FreshIds, Owned, allocs + 1 <= MaxId
  PROVE  /\ alloc_id(1) = allocs + 1
         /\ alloc_id(1) \notin DOMAIN m_broker_client_info
         /\ alloc_id(1) \notin DOMAIN m_slave_broker_sockets
         /\ \A c \in Conns : session[c] # alloc_id(1)
         /\ SessionsEntered <=> Entered
<1>1. NotWrapped
  BY BrokerAssumption DEF NotWrapped, TypeInv
<1> QED
  BY <1>1, TypedBroker, NewIdUnused DEF FreshIds, Owned, Entered

LEMMA NextEntered ==
  ASSUME NoHostTakenForId, TypeInv, FreshIds, Owned, Entered, [Next]_vars
  PROVE  Entered'
<1> SUFFICES ASSUME NotWrapped' PROVE SessionsEntered'
  BY DEF Entered
<1>1. session \in [Conns -> Ids] /\ allocs \in Nat /\ MaxId \in Nat
  BY BrokerAssumption DEF TypeInv
<1>2. ASSUME NEW c \in Conns, handle_slave_register(c)
      PROVE  SessionsEntered'
  <2> DEFINE id == alloc_id(1)
  <2>1. allocs' = allocs + 1
    BY <1>2 DEF handle_slave_register, Allocated
  <2>2. allocs + 1 <= MaxId
    BY <2>1 DEF NotWrapped
  <2>3. /\ id \notin DOMAIN m_broker_client_info
        /\ id \notin DOMAIN m_slave_broker_sockets
        /\ \A d \in Conns : session[d] # id
        /\ SessionsEntered
    BY <2>2, NewIdFree
  <2>4. /\ session' = [session EXCEPT ![c] = id]
        /\ SameEntries(m_broker_client_info', m_broker_client_info)
        /\ m_slave_broker_sockets' = Insert(m_slave_broker_sockets, id, c)
    BY <1>2, SlaveRegisterTables
  <2> HIDE DEF id
  <2> QED
    BY <1>1, <2>3, <2>4 DEF SessionsEntered, SameEntries, Insert
<1>3. ASSUME NEW c \in Conns, handle_client_register(c)
      PROVE  SessionsEntered'
  <2> DEFINE id == alloc_id(1)
             n == Cardinality(Head(toBroker[c]).msg_names \ DOMAIN m_msg2id)
  <2>1. allocs' = allocs + (1 + n)
    BY <1>3 DEF handle_client_register, Allocated
  <2>2. n \in Nat
    <3>1. toBroker[c] # <<>> /\ Head(toBroker[c]).cmd = "BROKER_CLIENT_REGISTER"
      BY <1>3 DEF handle_client_register, Receives
    <3>2. Head(toBroker[c]) \in MsgsToBroker
      BY <3>1, ReceivedTyped
    <3>3. Head(toBroker[c]).msg_names \in SUBSET Msgs
      BY <3>1, <3>2 DEF MsgsToBroker
    <3> QED
      BY <3>3, BrokerAssumption, FS_Subset, FS_CardinalityType
  <2> HIDE DEF n
  <2>3. allocs + 1 <= MaxId
    BY <1>1, <2>1, <2>2 DEF NotWrapped
  <2>4. /\ id \notin DOMAIN m_broker_client_info
        /\ id \notin DOMAIN m_slave_broker_sockets
        /\ \A d \in Conns : session[d] # id
        /\ SessionsEntered
    BY <2>3, NewIdFree
  <2>5. /\ session' = [session EXCEPT ![c] = id]
        /\ m_slave_broker_sockets' = m_slave_broker_sockets
    BY <1>3, ClientRegisterTables
  <2>6. PICK info : /\ info.sock = c
                    /\ SameEntries(m_broker_client_info',
                                   Insert(m_broker_client_info, id, info))
    BY <1>3, ClientRegisterTables
  <2> HIDE DEF id
  <2> QED
    BY <1>1, <2>4, <2>5, <2>6 DEF SessionsEntered, SameEntries, Insert
<1>4. ASSUME NEW c \in Conns, handle_broken(c)
      PROVE  SessionsEntered'
  <2>1. /\ session[c] # 0
        /\ session' = [session EXCEPT ![c] = 0]
        /\ SameEntries(m_broker_client_info', Erase(m_broker_client_info, session[c]))
        /\ m_slave_broker_sockets' = Erase(m_slave_broker_sockets, session[c])
        /\ allocs' = allocs
    BY <1>4, BrokenTables
  <2>2. NotWrapped
    BY <2>1 DEF NotWrapped
  <2>3. SessionsEntered /\ \A d \in Conns : d # c => session[d] # session[c]
    BY <2>1, <2>2 DEF Entered, FreshIds, IdsDistinct
  <2> QED
    BY <1>1, <2>1, <2>3 DEF SessionsEntered, SameEntries, Erase
<1>5. CASE ~ \E c \in Conns : \/ handle_slave_register(c)
                              \/ handle_client_register(c)
                              \/ handle_broken(c)
  <2>1. UNCHANGED <<m_broker_client_info, m_slave_broker_sockets, session, allocs>>
    BY <1>5, OthersKeepTables DEF Owned
  <2> QED
    BY <2>1 DEF Entered, NotWrapped, SessionsEntered
<1> QED
  BY <1>2, <1>3, <1>4, <1>5

(* Until ids wrap, the tables and the sessions of the sockets say the same *)
(* (ffbroker.cpp: handle_broken finds what to erase by the session's id    *)
(* alone): each entry's socket has the entry's id, and each socket with an *)
(* id is in exactly one table, under it, and not deleted.                  *)
THEOREM MatchingTables ==
  ASSUME NoHostTakenForId
  PROVE  Spec => []TablesMatchSessions
<1> DEFINE Inv == TypeInv /\ FreshIds /\ Owned /\ Entered
<1>1. Init => Inv
  <2>1. Init => Entered
    BY DEF Init, BrokerInit, Entered, SessionsEntered
  <2> QED
    BY <2>1, InitTyped, InitIds, InitOwned
<1>2. Inv /\ [Next]_vars => Inv'
  BY NextTyped, NextIds, NextOwned, NextEntered
<1>3. Inv => TablesMatchSessions
  BY OwnedLive DEF Owned, Entered, TablesMatchSessions
<1> QED
  BY <1>1, <1>2, <1>3, PTL DEF Spec

-----------------------------------------------------------------------------
(* What the broker promises its peers.                                     *)
RegInv == TypeInv /\ FreshIds /\ Owned /\ Entered

LEMMA RegInvHolds ==
  ASSUME NoHostTakenForId
  PROVE  Spec => []RegInv
<1>1. Init => RegInv
  <2>1. Init => Entered
    BY DEF Init, BrokerInit, Entered, SessionsEntered
  <2> QED
    BY <2>1, InitTyped, InitIds, InitOwned DEF RegInv
<1>2. RegInv /\ [Next]_vars => RegInv'
  BY NextTyped, NextIds, NextOwned, NextEntered DEF RegInv
<1> QED
  BY <1>1, <1>2, PTL DEF Spec

-----------------------------------------------------------------------------
(* Messages on their way to a peer, when one more is sent.                 *)
LEMMA Appended ==
  ASSUME TypeInv, NEW d \in Conns, NEW m, toNode'[d] = Append(toNode[d], m)
  PROVE  /\ Len(toNode[d]) \in Nat
         /\ Len(toNode'[d]) = Len(toNode[d]) + 1
         /\ toNode'[d][Len(toNode[d]) + 1] = m
         /\ \A k \in 1..Len(toNode[d]) : toNode'[d][k] = toNode[d][k]
<1>1. toNode[d] \in Seq(MsgsToNode)
  BY DEF TypeInv
<1> HIDE DEF MsgsToNode
<1> QED
  BY <1>1

LEMMA SyncAppended ==
  ASSUME TypeInv, NEW d \in Conns, NEW m, toNode'[d] = Append(toNode[d], m),
         m.cmd = "BROKER_SYNC_DATA_MSG"
  PROVE  /\ LastSync(d)' = m
         /\ \A k \in NodeIdsSent(d)' :
              \/ toNode'[d][k] = m /\ m.node_id # 0
              \/ k \in NodeIdsSent(d) /\ toNode'[d][k] = toNode[d][k]
<1> DEFINE n == Len(toNode[d]) + 1
<1>1. /\ Len(toNode[d]) \in Nat /\ Len(toNode'[d]) = n /\ toNode'[d][n] = m
      /\ \A k \in 1..Len(toNode[d]) : toNode'[d][k] = toNode[d][k]
  BY Appended
<1>2. SyncsAt(d)' = SyncsAt(d) \cup {n}
  BY <1>1 DEF SyncsAt
<1>3. SyncsAt(d)' \in SUBSET Nat /\ n \in SyncsAt(d)' /\ \A k \in SyncsAt(d)' : k <= n
  BY <1>1, <1>2 DEF SyncsAt
<1>4. Max(SyncsAt(d)') = n
  BY <1>3, GreatestIs
<1>5. LastSync(d)' = m
  BY <1>1, <1>3, <1>4 DEF LastSync
<1>6. \A k \in SyncsAt(d) : toNode'[d][k] = toNode[d][k]
  BY <1>1 DEF SyncsAt
<1> QED
  BY <1>1, <1>2, <1>5, <1>6 DEF NodeIdsSent

LEMMA OtherAppended ==
  ASSUME TypeInv, NEW d \in Conns, NEW m, toNode'[d] = Append(toNode[d], m),
         m.cmd # "BROKER_SYNC_DATA_MSG", view'[d] = view[d]
  PROVE  /\ LastSync(d)' = LastSync(d)
         /\ NodeIdsSent(d)' = NodeIdsSent(d)
         /\ \A k \in NodeIdsSent(d) : toNode'[d][k] = toNode[d][k]
<1> DEFINE n == Len(toNode[d]) + 1
<1>1. /\ Len(toNode[d]) \in Nat /\ Len(toNode'[d]) = n /\ toNode'[d][n] = m
      /\ \A k \in 1..Len(toNode[d]) : toNode'[d][k] = toNode[d][k]
  BY Appended
<1>2. SyncsAt(d)' = SyncsAt(d) /\ \A k \in SyncsAt(d) : toNode'[d][k] = toNode[d][k]
  BY <1>1 DEF SyncsAt
<1>3. SyncsAt(d) # {} => Max(SyncsAt(d)) \in SyncsAt(d)
  <2>1. SyncsAt(d) \in SUBSET Nat /\ IsFiniteSet(SyncsAt(d))
    <3>1. IsFiniteSet(1..Len(toNode[d]))
      BY <1>1, FS_Interval
    <3> QED
      BY <1>1, <3>1, FS_Subset DEF SyncsAt
  <2> QED
    BY <2>1, MinMaxInSet
<1>4. LastSync(d)' = LastSync(d)
  BY <1>2, <1>3 DEF LastSync
<1> QED
  BY <1>2, <1>4 DEF NodeIdsSent

-----------------------------------------------------------------------------
(* What a peer knows.                                                      *)
InSync(d) ==
  Registered(d) /\ link[d] = "open" =>
    [LastSync(d) EXCEPT !.node_id = 0] =
      SyncData(0, m_msg2id, DOMAIN m_slave_broker_sockets, m_broker_client_info)

LEMMA SyncTells ==
  ASSUME TypeInv, NEW c, NEW id, NEW ids, NEW slaves, NEW clients, NEW k,
         sync_all_register_info(c, id, ids, slaves, clients, k),
         m_slave_broker_sockets' = slaves, m_msg2id' = ids, link' = link
  PROVE  PeersInSync'
<1> SUFFICES ASSUME NEW d \in Conns, Registered(d)', link[d] = "open"
             PROVE  [LastSync(d)' EXCEPT !.node_id = 0] =
                      SyncData(0, ids, DOMAIN slaves, m_broker_client_info')
  BY DEF PeersInSync
<1>1. \E e \in Entries(slaves, m_broker_client_info') :
        EntrySock(slaves, m_broker_client_info', e) = d
  <2>1. \/ \E i \in DOMAIN m_broker_client_info' : m_broker_client_info'[i].sock = d
        \/ \E i \in DOMAIN slaves : slaves[i] = d
    BY DEF Registered
  <2>2. ASSUME NEW i \in DOMAIN m_broker_client_info', m_broker_client_info'[i].sock = d
        PROVE  /\ <<i, 1>> \in Entries(slaves, m_broker_client_info')
               /\ EntrySock(slaves, m_broker_client_info', <<i, 1>>) = d
    BY <2>2, EntryAt
  <2>3. ASSUME NEW i \in DOMAIN slaves, slaves[i] = d
        PROVE  /\ <<i, 0>> \in Entries(slaves, m_broker_client_info')
               /\ EntrySock(slaves, m_broker_client_info', <<i, 0>>) = d
    BY <2>3 DEF Entries, EntrySock
  <2> QED
    BY <2>1, <2>2, <2>3
<1>2. PICK n : toNode'[d] = Append(toNode[d],
                 SyncData(n, ids, DOMAIN slaves, m_broker_client_info'))
  BY <1>1, SyncSends
<1>3. LastSync(d)' = SyncData(n, ids, DOMAIN slaves, m_broker_client_info')
  <2>1. SyncData(n, ids, DOMAIN slaves, m_broker_client_info').cmd = "BROKER_SYNC_DATA_MSG"
    BY DEF SyncData
  <2> QED
    BY <1>2, <2>1, SyncAppended
<1> QED
  BY <1>3 DEF SyncData

Views == DOMAIN view = Conns

(* A step that sends nothing but routed messages, and changes no table.    *)
LEMMA KeepsInSync ==
  ASSUME TypeInv, PeersInSync,
         UNCHANGED <<m_msg2id, m_slave_broker_sockets, m_broker_client_info>>,
         \A d \in Conns : link'[d] = "open" /\ Registered(d) =>
           link[d] = "open" /\ LastSync(d)' = LastSync(d)
  PROVE  PeersInSync'
BY DEF PeersInSync, Registered

LEMMA RouteInSync ==
  ASSUME TypeInv, PeersInSync, NEW c \in Conns, handle_route_msg(c), UNCHANGED view
  PROVE  PeersInSync'
<1> DEFINE r == Head(toBroker[c]).route
           to == {m_broker_client_info[r.dest_node_id].sock}
<1>1. /\ UNCHANGED <<brokerVars, link>>
      /\ \/ toNode' = toNode
         \/ toNode' = SentToNodes(to, [d \in Conns |-> ToClient(r)])
  BY DEF handle_route_msg
<1> HIDE DEF r, to
<1>2. \A d \in Conns : \/ toNode'[d] = toNode[d]
                       \/ toNode'[d] = Append(toNode[d], ToClient(r))
  BY <1>1 DEF SentToNodes
<1>3. ToClient(r).cmd # "BROKER_SYNC_DATA_MSG"
  BY DEF ToClient
<1>4. \A d \in Conns : LastSync(d)' = LastSync(d)
  <2> TAKE d \in Conns
  <2>1. CASE toNode'[d] = toNode[d]
    BY <2>1 DEF LastSync, SyncsAt
  <2>2. CASE toNode'[d] = Append(toNode[d], ToClient(r))
    BY <1>3, <2>2, OtherAppended
  <2> QED
    BY <1>2, <2>1, <2>2
<1> QED
  BY <1>1, <1>4, KeepsInSync DEF brokerVars

LEMMA ClosedInSync ==
  ASSUME TypeInv, PeersInSync, NEW c \in Conns, NEW s, CloseWith(c, s),
         UNCHANGED <<m_msg2id, m_slave_broker_sockets, m_broker_client_info, view>>
  PROVE  PeersInSync'
<1>1. link'[c] = "broken" /\ \A d \in Conns : d # c => link'[d] = link[d]
  BY DEF CloseWith, TypeInv
<1>2. \A d \in Conns : d # c => toNode'[d] = toNode[d]
  BY DEF CloseWith, TypeInv
<1>3. \A d \in Conns : d # c => LastSync(d)' = LastSync(d)
  BY <1>2 DEF LastSync, SyncsAt
<1> QED
  BY <1>1, <1>3, KeepsInSync

LEMMA PeerInSync ==
  ASSUME TypeInv, Owned, Views, PeersInSync, NEW c \in Conns,
         PeerConnects(c) \/ PeerRoutes(c) \/ PeerReads(c) \/ PeerBreaks(c)
  PROVE  PeersInSync'
<1>1. UNCHANGED <<m_msg2id, m_slave_broker_sockets, m_broker_client_info>>
  BY DEF PeerConnects, PeerRoutes, PeerReads, PeerBreaks, brokerVars
<1>2. CASE PeerConnects(c)
  <2>1. link[c] = "unused" /\ link' = [link EXCEPT ![c] = "open"] /\ UNCHANGED <<toNode, view>>
    BY <1>2 DEF PeerConnects, ConnectAndSend
  <2>2. session[c] = 0
    BY <2>1 DEF Owned, Arrivals, Orderly
  <2>3. ~Registered(c)
    BY <2>2, TypedBroker, TableSocks DEF Owned, EntriesOwned, Registered
  <2>4. \A d \in Conns : d # c => link'[d] = link[d]
    BY <2>1 DEF TypeInv
  <2> QED
    BY <1>1, <2>1, <2>3, <2>4, KeepsInSync DEF LastSync, SyncsAt
<1>3. CASE PeerRoutes(c)
  BY <1>1, <1>3, KeepsInSync DEF PeerRoutes, LastSync, SyncsAt
<1>4. CASE PeerReads(c)
  <2>1. /\ view' = [view EXCEPT ![c] = LastSync(c)]
        /\ toNode' = [toNode EXCEPT ![c] = <<>>] /\ link' = link
    BY <1>4 DEF PeerReads
  <2>2. LastSync(c)' = LastSync(c)
    <3>1. toNode'[c] = <<>> /\ SyncsAt(c)' = {}
      BY <2>1 DEF SyncsAt, TypeInv
    <3>2. view'[c] = LastSync(c)
      BY <2>1 DEF Views
    <3> QED
      BY <3>1, <3>2 DEF LastSync
  <2>3. \A d \in Conns : d # c => LastSync(d)' = LastSync(d)
    BY <2>1 DEF LastSync, SyncsAt, TypeInv
  <2> QED
    BY <1>1, <2>1, <2>2, <2>3, KeepsInSync
<1>5. CASE PeerBreaks(c)
  BY <1>1, <1>5, ClosedInSync DEF PeerBreaks, Break
<1> QED
  BY <1>2, <1>3, <1>4, <1>5

LEMMA NextInSync ==
  ASSUME NoHostTakenForId, TypeInv, Owned, Views, PeersInSync, [Next]_vars
  PROVE  PeersInSync'
<1>1. CASE UNCHANGED vars
  BY <1>1, KeepsInSync DEF vars, netVars, brokerVars, LastSync, SyncsAt
<1>2. ASSUME NEW c \in Conns, handle_slave_register(c)
      PROVE  PeersInSync'
  BY <1>2, SyncTells DEF handle_slave_register
<1>3. ASSUME NEW c \in Conns, handle_client_register(c)
      PROVE  PeersInSync'
  <2>1. \E id, clients :
          sync_all_register_info(c, id, m_msg2id', m_slave_broker_sockets, clients, 1)
    BY <1>3 DEF handle_client_register
  <2>2. m_slave_broker_sockets' = m_slave_broker_sockets /\ link' = link
    BY <1>3 DEF handle_client_register
  <2> QED
    BY <2>1, <2>2, SyncTells
<1>4. ASSUME NEW c \in Conns, handle_broken(c)
      PROVE  PeersInSync'
  BY <1>4, SyncTells DEF handle_broken
<1>5. CASE ~ \E c \in Conns : \/ handle_slave_register(c)
                              \/ handle_client_register(c)
                              \/ handle_broken(c)
  <2>1. UNCHANGED <<m_msg2id, m_slave_broker_sockets, m_broker_client_info>>
    BY <1>5, OthersKeepTables, OthersKeepIds DEF Owned, idVars
  <2>2. ASSUME NEW c \in Conns, BrokerStep(c), UNCHANGED view
        PROVE  PeersInSync'
    <3>1. CASE handle_route_msg(c)
      BY <2>2, <3>1, RouteInSync
    <3>2. CASE reject_client_register(c)
      <4>1. CASE link[c] = "open"
        BY <2>1, <2>2, <3>2, <4>1, ClosedInSync DEF reject_client_register
      <4>2. CASE link[c] # "open"
        BY <2>1, <2>2, <3>2, <4>2, KeepsInSync DEF reject_client_register, LastSync, SyncsAt
      <4> QED
        BY <4>1, <4>2
    <3>3. CASE handle_client_register_slave_broker(c) \/ handle_broken_unknown(c)
      <4>1. link' = link /\ toNode' = toNode
        BY <3>3 DEF handle_client_register_slave_broker, handle_broken_unknown
      <4> QED
        BY <2>1, <2>2, <4>1, KeepsInSync DEF LastSync, SyncsAt
    <3> QED
      BY <1>5, <2>2, <3>1, <3>2, <3>3 DEF BrokerStep
  <2> QED
    BY <1>1, <2>2, PeerInSync DEF Next
<1> QED
  BY <1>2, <1>3, <1>4, <1>5

LEMMA NextViews == Views /\ [Next]_vars => Views'
BY DEF Views, Next, PeerConnects, PeerRoutes, PeerReads, PeerBreaks, vars

(* Every change of the tables, whatever causes it, is sent to every peer   *)
(* that is registered then: what an open connection of a registered peer   *)
(* last carried, read or still on its way, is what the broker's tables hold*)
(* now (ffbroker.cpp: sync_all_register_info at the end of each handler    *)
(* that changes them), even when ids have wrapped.                         *)
THEOREM PeersToldAll ==
  ASSUME NoHostTakenForId
  PROVE  Spec => []PeersInSync
<1> DEFINE Inv == TypeInv /\ Owned /\ Views /\ PeersInSync
<1>1. Init => Inv
  <2>1. Init => Views /\ PeersInSync
    BY DEF Init, NetInit, Views, PeersInSync
  <2> QED
    BY <2>1, InitTyped, InitOwned
<1>2. Inv /\ [Next]_vars => Inv'
  BY NextTyped, NextOwned, NextViews, NextInSync
<1> QED
  BY <1>1, <1>2, PTL DEF Spec

-----------------------------------------------------------------------------
(* Ids told.  A node, unlike a slave, registers with one command only.     *)
MsgsWithoutSlaves == {m \in MsgsToBroker : m.cmd # "BROKER_SLAVE_REGISTER"}

Slaveless(d) == toBroker[d] \in Seq(MsgsWithoutSlaves)

NoSlaveSent == \A d \in Clients : Slaveless(d)

LEMMA SlaveIsNoClient ==
  ASSUME NoSlaveSent, NEW c \in Conns, handle_slave_register(c)
  PROVE  c \notin Clients
<1> SUFFICES ASSUME c \in Clients PROVE FALSE
  OBVIOUS
<1>1. toBroker[c] # <<>> /\ Head(toBroker[c]).cmd = "BROKER_SLAVE_REGISTER"
  BY DEF handle_slave_register, Receives
<1>2. toBroker[c] \in Seq(MsgsWithoutSlaves)
  BY DEF NoSlaveSent, Slaveless
<1>3. Head(toBroker[c]) \in MsgsWithoutSlaves
  <2> HIDE DEF MsgsWithoutSlaves
  <2> QED
    BY <1>1, <1>2, HeadTailProperties
<1> QED
  BY <1>1, <1>3 DEF MsgsWithoutSlaves

LEMMA ConsumedSlaveless ==
  ASSUME TypeInv, NEW d \in Conns, Slaveless(d), NEW c \in Conns, toBroker[c] # <<>>
  PROVE  /\ c = d => Tail(toBroker[c]) \in Seq(MsgsWithoutSlaves)
         /\ Consumed(c) => Slaveless(d)'
<1>1. toBroker \in [Conns -> Seq(MsgsToBroker)]
  BY DEF TypeInv
<1> HIDE DEF MsgsWithoutSlaves, MsgsToBroker
<1>2. c = d => Tail(toBroker[c]) \in Seq(MsgsWithoutSlaves)
  BY HeadTailProperties DEF Slaveless
<1>3. Consumed(c) => toBroker'[d] = IF c = d THEN Tail(toBroker[c]) ELSE toBroker[d]
  BY <1>1 DEF Consumed
<1> QED
  BY <1>2, <1>3 DEF Slaveless

LEMMA ClosedSlaveless ==
  ASSUME TypeInv, NEW d \in Conns, Slaveless(d), NEW c \in Conns, NEW s,
         c = d => s \in Seq(MsgsWithoutSlaves), CloseWith(c, s)
  PROVE  Slaveless(d)'
<1>1. toBroker \in [Conns -> Seq(MsgsToBroker)]
  BY DEF TypeInv
<1> HIDE DEF MsgsWithoutSlaves, MsgsToBroker
<1>2. PICK i \in 0..Len(s) : toBroker' = [toBroker EXCEPT ![c] = SubSeq(s, 1, i)]
  BY DEF CloseWith
<1>3. c = d => SubSeq(s, 1, i) \in Seq(MsgsWithoutSlaves)
  BY <1>2, SubSeqProperties
<1>4. toBroker'[d] = IF c = d THEN SubSeq(s, 1, i) ELSE toBroker[d]
  BY <1>1, <1>2
<1> QED
  BY <1>3, <1>4 DEF Slaveless

LEMMA NextSlaveless ==
  ASSUME TypeInv, NoSlaveSent, [Next]_vars
  PROVE  NoSlaveSent'
<1> SUFFICES ASSUME NEW d \in Clients PROVE Slaveless(d)'
  BY DEF NoSlaveSent
<1>1. d \in Conns /\ Slaveless(d) /\ toBroker \in [Conns -> Seq(MsgsToBroker)]
  BY PeersAssumption DEF NoSlaveSent, TypeInv
<1>2. CASE UNCHANGED toBroker
  BY <1>1, <1>2 DEF Slaveless
<1>3. ASSUME NEW c \in Conns, BrokerStep(c)
      PROVE  Slaveless(d)'
  <2>1. CASE handle_broken(c) \/ handle_broken_unknown(c)
    BY <1>2, <2>1 DEF handle_broken, handle_broken_unknown
  <2>2. CASE ~(handle_broken(c) \/ handle_broken_unknown(c))
    <3>1. /\ toBroker[c] # <<>>
          /\ Consumed(c) \/ CloseWith(c, Tail(toBroker[c]))
      BY <1>3, <2>2 DEF BrokerStep, Receives, handle_slave_register, handle_client_register,
         reject_client_register, handle_client_register_slave_broker, handle_route_msg
    <3> QED
      BY <1>1, <3>1, ConsumedSlaveless, ClosedSlaveless
  <2> QED
    BY <2>1, <2>2
<1>4. ASSUME NEW c \in Conns, PeerConnects(c)
      PROVE  Slaveless(d)'
  <2>1. PICK m \in FirstMsgs(c) : toBroker' = [toBroker EXCEPT ![c] = <<m>>]
    BY <1>4 DEF PeerConnects, ConnectAndSend
  <2>2. c = d => m \in MsgsWithoutSlaves
    BY DEF FirstMsgs, RegisterClient, MsgsToBroker, MsgsWithoutSlaves
  <2> HIDE DEF MsgsWithoutSlaves, MsgsToBroker
  <2>3. c = d => <<m>> \in Seq(MsgsWithoutSlaves)
    BY <2>2
  <2>4. toBroker'[d] = IF c = d THEN <<m>> ELSE toBroker[d]
    BY <1>1, <2>1
  <2> QED
    BY <1>1, <2>3, <2>4 DEF Slaveless
<1>5. ASSUME NEW c \in Conns, PeerRoutes(c)
      PROVE  Slaveless(d)'
  <2>1. PICK dest \in RouteDests :
          toBroker' = SentToBroker(c, RouteMsg(Route(told[c], dest, 0, 0, 0), "socket"))
    BY <1>5 DEF PeerRoutes
  <2> DEFINE m == RouteMsg(Route(told[c], dest, 0, 0, 0), "socket")
  <2>2. m \in MsgsWithoutSlaves
    <3>1. Route(told[c], dest, 0, 0, 0) \in Routes
      BY PeersAssumption DEF Route, Routes, TypeInv
    <3> QED
      BY <3>1 DEF RouteMsg, MsgsToBroker, MsgsWithoutSlaves
  <2> HIDE DEF m, MsgsWithoutSlaves, MsgsToBroker
  <2>3. toBroker'[d] \in {toBroker[d], Append(toBroker[d], m)}
    BY <1>1, <2>1 DEF SentToBroker, m
  <2>4. toBroker[d] \in Seq(MsgsWithoutSlaves)
    BY <1>1 DEF Slaveless
  <2>5. Append(toBroker[d], m) \in Seq(MsgsWithoutSlaves)
    BY <2>2, <2>4
  <2> QED
    BY <2>3, <2>4, <2>5 DEF Slaveless
<1>6. ASSUME NEW c \in Conns, PeerReads(c) \/ PeerBreaks(c)
      PROVE  Slaveless(d)'
  <2>1. CASE PeerReads(c)
    BY <1>2, <2>1 DEF PeerReads
  <2>2. CASE PeerBreaks(c)
    <3>1. c = d => toBroker[c] \in Seq(MsgsWithoutSlaves)
      BY <1>1 DEF Slaveless
    <3> QED
      BY <1>1, <2>2, <3>1, ClosedSlaveless DEF PeerBreaks, Break
  <2> QED
    BY <1>6, <2>1, <2>2
<1> QED
  BY <1>2, <1>3, <1>4, <1>5, <1>6 DEF Next, vars, netVars

(* A registration that leaves the counter unwrapped found it so.           *)
LEMMA RegisteredUnwrapped ==
  ASSUME TypeInv, NotWrapped', NEW c \in Conns, handle_client_register(c)
  PROVE  allocs + 1 <= MaxId /\ allocs + 1 <= allocs' /\ allocs' \in Nat
<1> DEFINE n == Cardinality(Head(toBroker[c]).msg_names \ DOMAIN m_msg2id)
<1>1. allocs' = allocs + (1 + n)
  BY DEF handle_client_register, Allocated
<1>2. n \in Nat
  <2>1. toBroker[c] # <<>> /\ Head(toBroker[c]).cmd = "BROKER_CLIENT_REGISTER"
    BY DEF handle_client_register, Receives
  <2>2. Head(toBroker[c]) \in MsgsToBroker
    BY <2>1, ReceivedTyped
  <2>3. Head(toBroker[c]).msg_names \in SUBSET Msgs
    BY <2>1, <2>2 DEF MsgsToBroker
  <2> QED
    BY <2>3, BrokerAssumption, FS_Subset, FS_CardinalityType
<1> HIDE DEF n
<1> QED
  BY <1>1, <1>2, BrokerAssumption DEF NotWrapped, TypeInv

(* The ids d was sent have been handed out, and are no other node's.       *)
IsTold(d, id) == /\ id \in Nat /\ id <= allocs
                 /\ \A e \in Clients : session[e] = id => d = e

Told(d) == \A k \in NodeIdsSent(d) : IsTold(d, toNode[d][k].node_id)

AllTold == \A d \in Conns : Told(d)

ToldInv == TypeInv /\ FreshIds /\ Owned /\ NoSlaveSent /\ (NotWrapped => AllTold)

(* A step that gives nobody an id that has been handed out before.         *)
NoOldId == /\ allocs \in Nat /\ allocs' \in Nat /\ allocs <= allocs'
           /\ \A e \in Clients : \/ session'[e] \in {session[e], 0}
                                 \/ session'[e] = allocs + 1

(* The same after a step.                                                  *)
IsToldNow(d, id) == /\ id \in Nat /\ id <= allocs'
                    /\ \A e \in Clients : session'[e] = id => d = e

LEMMA KeepsTold ==
  ASSUME NoOldId, NEW d \in Conns, Told(d),
         \A k \in NodeIdsSent(d)' : \/ k \in NodeIdsSent(d) /\ toNode'[d][k] = toNode[d][k]
                                    \/ IsToldNow(d, toNode'[d][k].node_id)
  PROVE  Told(d)'
<1> SUFFICES ASSUME NEW k \in NodeIdsSent(d)' PROVE IsToldNow(d, toNode'[d][k].node_id)
  BY DEF Told, IsTold, IsToldNow
<1>0. \A i : i \in Nat /\ i <= allocs => i # allocs + 1 /\ i <= allocs'
  BY DEF NoOldId
<1>1. CASE k \in NodeIdsSent(d) /\ toNode'[d][k] = toNode[d][k]
  <2> DEFINE id == toNode[d][k].node_id
  <2>1. IsTold(d, id) /\ id # 0
    BY <1>1 DEF Told, NodeIdsSent
  <2> HIDE DEF id
  <2>2. IsToldNow(d, id)
    BY <2>1, <1>0 DEF IsTold, IsToldNow, NoOldId
  <2> QED
    BY <1>1, <2>2 DEF id
<1> QED
  BY <1>1

LEMMA SyncToldTo ==
  ASSUME TypeInv, NoOldId, NEW d \in Conns, Told(d), NEW m, m.cmd = "BROKER_SYNC_DATA_MSG",
         toNode'[d] \in {toNode[d], Append(toNode[d], m)},
         m.node_id = 0 \/ IsToldNow(d, m.node_id)
  PROVE  Told(d)'
<1>1. CASE toNode'[d] = toNode[d]
  BY <1>1, KeepsTold DEF NodeIdsSent, SyncsAt
<1>2. CASE toNode'[d] = Append(toNode[d], m)
  <2>1. \A k \in NodeIdsSent(d)' : \/ toNode'[d][k] = m /\ m.node_id # 0
                                   \/ k \in NodeIdsSent(d) /\ toNode'[d][k] = toNode[d][k]
    BY <1>2, SyncAppended
  <2> QED
    BY <2>1, KeepsTold
<1> QED
  BY <1>1, <1>2

(* A new id goes to c, and the other nodes' sessions are older.            *)
LEMMA NewIdTold ==
  ASSUME TypeInv, Counted, NEW c \in Conns, session' = [session EXCEPT ![c] = allocs + 1],
         allocs' \in Nat, allocs + 1 <= allocs'
  PROVE  /\ NoOldId
         /\ \A d \in Conns : d = c \/ c \notin Clients => IsToldNow(d, allocs + 1)
<1>1. allocs \in Nat /\ session \in [Conns -> Ids] /\ Clients \subseteq Conns
  BY PeersAssumption DEF TypeInv
<1>2. \A e \in Clients : session'[e] = IF e = c THEN allocs + 1 ELSE session[e]
  BY <1>1
<1>3. \A e \in Clients : session[e] <= allocs /\ session[e] \in Nat
  BY <1>1 DEF Counted, Ids
<1> QED
  BY <1>1, <1>2, <1>3 DEF NoOldId, IsToldNow

LEMMA SlaveRegisterTold ==
  ASSUME ToldInv, NotWrapped', NEW c \in Conns, handle_slave_register(c)
  PROVE  AllTold'
<1> SUFFICES ASSUME NEW d \in Conns PROVE Told(d)'
  BY DEF AllTold
<1> DEFINE id == alloc_id(1)
           now == m_broker_client_info'
<1>1. allocs' = allocs + 1 /\ session' = [session EXCEPT ![c] = id]
  BY DEF handle_slave_register, Allocated
<1>2. /\ allocs \in Nat /\ allocs + 1 <= MaxId /\ TypeInv /\ NotWrapped
      /\ Counted /\ Told(d)
  BY <1>1, BrokerAssumption DEF ToldInv, TypeInv, NotWrapped, FreshIds, AllTold
<1>3. id = allocs + 1
  BY <1>2, AllocUnwrapped DEF Counted
<1>4. c \notin Clients
  BY SlaveIsNoClient DEF ToldInv
<1> HIDE DEF id
<1>5. NoOldId /\ IsToldNow(d, id)
  <2>1. /\ session' = [session EXCEPT ![c] = allocs + 1]
        /\ allocs' \in Nat /\ allocs + 1 <= allocs'
    BY <1>1, <1>2, <1>3
  <2>2. NoOldId /\ IsToldNow(d, allocs + 1)
    BY <1>2, <1>4, <2>1, NewIdTold
  <2> QED
    BY <1>3, <2>2
<1>6. PICK ids, slaves, clients : sync_all_register_info(c, id, ids, slaves, clients, 0)
  BY DEF handle_slave_register, id
<1>7. \/ toNode'[d] = toNode[d]
      \/ \E e : toNode'[d] = Append(toNode[d],
           SyncData(NodeIdAt(e, c, id, slaves, now), ids, DOMAIN slaves, now))
  BY <1>6, SyncSends
<1>8. CASE toNode'[d] = toNode[d]
  BY <1>2, <1>5, <1>8, KeepsTold DEF NodeIdsSent, SyncsAt
<1>9. ASSUME NEW e, toNode'[d] = Append(toNode[d],
           SyncData(NodeIdAt(e, c, id, slaves, now), ids, DOMAIN slaves, now))
      PROVE  Told(d)'
  <2> DEFINE m == SyncData(NodeIdAt(e, c, id, slaves, now), ids, DOMAIN slaves, now)
  <2>1. m.cmd = "BROKER_SYNC_DATA_MSG" /\ m.node_id = NodeIdAt(e, c, id, slaves, now)
    BY SyncDataHas
  <2>2. m.node_id \in {0, id}
    BY <2>1 DEF NodeIdAt
  <2>3. toNode'[d] = Append(toNode[d], m)
    BY <1>9
  <2> HIDE DEF m
  <2> QED
    BY <1>2, <1>5, <2>1, <2>2, <2>3, SyncToldTo
<1> QED
  BY <1>7, <1>8, <1>9

LEMMA ClientRegisterTold ==
  ASSUME ToldInv, NotWrapped', NEW c \in Conns, handle_client_register(c)
  PROVE  AllTold'
<1> SUFFICES ASSUME NEW d \in Conns PROVE Told(d)'
  BY DEF AllTold
<1> DEFINE id == alloc_id(1)
           slaves == m_slave_broker_sockets
           now == m_broker_client_info'
<1>1. PICK info : /\ info.sock = c
                  /\ SameEntries(now, Insert(m_broker_client_info, id, info))
  BY ClientRegisterTables DEF ToldInv
<1>2. /\ toBroker[c] # <<>> /\ Registration(Head(toBroker[c]))
      /\ session' = [session EXCEPT ![c] = id]
  BY ClientRegisterTables DEF ToldInv
<1>3. session[c] = 0
  BY <1>2, RegistersOnce DEF ToldInv, Owned
<1>4. allocs + 1 <= MaxId /\ allocs + 1 <= allocs' /\ allocs' \in Nat
  BY RegisteredUnwrapped DEF ToldInv
<1>5. TypeInv /\ NotWrapped /\ Counted /\ EntriesOwned /\ Told(d) /\ allocs \in Nat
  BY <1>4, BrokerAssumption DEF NotWrapped, ToldInv, TypeInv, FreshIds, Owned, AllTold
<1>6. id = allocs + 1
  BY <1>4, <1>5, AllocUnwrapped DEF Counted
<1>7. PICK ids, clients : sync_all_register_info(c, id, ids, slaves, clients, 1)
  BY DEF handle_client_register
<1>8. \/ toNode'[d] = toNode[d]
      \/ \E e \in Entries(slaves, now) :
           /\ EntrySock(slaves, now, e) = d
           /\ toNode'[d] = Append(toNode[d],
                SyncData(NodeIdAt(e, c, id, slaves, now), ids, DOMAIN slaves, now))
  BY <1>7, SyncSends
<1>9. ASSUME NEW e \in Entries(slaves, now)
      PROVE  \/ NodeIdAt(e, c, id, slaves, now) = 0
             \/ NodeIdAt(e, c, id, slaves, now) = id /\ EntrySock(slaves, now, e) = c
  BY <1>1, <1>3, <1>4, <1>5, <1>9, TypedBroker, OnlyNewTold
<1> HIDE DEF id, slaves, now
<1>10. NoOldId /\ (d = c => IsToldNow(d, id))
  BY <1>2, <1>4, <1>5, <1>6, NewIdTold
<1>11. CASE toNode'[d] = toNode[d]
  BY <1>5, <1>10, <1>11, KeepsTold DEF NodeIdsSent, SyncsAt
<1>12. ASSUME NEW e \in Entries(slaves, now), EntrySock(slaves, now, e) = d,
              toNode'[d] = Append(toNode[d],
                SyncData(NodeIdAt(e, c, id, slaves, now), ids, DOMAIN slaves, now))
       PROVE  Told(d)'
  <2> DEFINE m == SyncData(NodeIdAt(e, c, id, slaves, now), ids, DOMAIN slaves, now)
  <2>1. m.cmd = "BROKER_SYNC_DATA_MSG" /\ m.node_id = NodeIdAt(e, c, id, slaves, now)
    BY SyncDataHas
  <2>2. m.node_id = 0 \/ (m.node_id = id /\ d = c)
    BY <1>9, <1>12, <2>1
  <2>3. toNode'[d] = Append(toNode[d], m)
    BY <1>12
  <2> HIDE DEF m
  <2> QED
    BY <1>5, <1>10, <2>1, <2>2, <2>3, SyncToldTo
<1> QED
  BY <1>8, <1>11, <1>12

LEMMA BrokenTold ==
  ASSUME TypeInv, AllTold, NEW c \in Conns, handle_broken(c)
  PROVE  AllTold'
<1> SUFFICES ASSUME NEW d \in Conns PROVE Told(d)'
  BY DEF AllTold
<1> DEFINE now == m_broker_client_info'
<1>1. NoOldId /\ Told(d)
  <2>1. session' = [session EXCEPT ![c] = 0] /\ allocs' = allocs
    BY DEF handle_broken
  <2> QED
    BY <2>1, PeersAssumption DEF NoOldId, TypeInv, AllTold
<1>2. PICK slaves, clients : sync_all_register_info(NoConn, 0, m_msg2id, slaves, clients, 0)
  BY DEF handle_broken
<1>3. \/ toNode'[d] = toNode[d]
      \/ \E e : toNode'[d] = Append(toNode[d],
           SyncData(NodeIdAt(e, NoConn, 0, slaves, now), m_msg2id, DOMAIN slaves, now))
  BY <1>2, SyncSends
<1>4. CASE toNode'[d] = toNode[d]
  BY <1>1, <1>4, KeepsTold DEF NodeIdsSent, SyncsAt
<1>5. ASSUME NEW e, toNode'[d] = Append(toNode[d],
           SyncData(NodeIdAt(e, NoConn, 0, slaves, now), m_msg2id, DOMAIN slaves, now))
      PROVE  Told(d)'
  <2> DEFINE m == SyncData(NodeIdAt(e, NoConn, 0, slaves, now), m_msg2id, DOMAIN slaves, now)
  <2>1. NodeIdAt(e, NoConn, 0, slaves, now) = 0
    BY DEF NodeIdAt
  <2>2. m.cmd = "BROKER_SYNC_DATA_MSG" /\ m.node_id = 0
    BY <2>1, SyncDataHas
  <2>3. toNode'[d] = Append(toNode[d], m)
    BY <1>5
  <2> HIDE DEF m
  <2> QED
    BY <1>1, <2>2, <2>3, SyncToldTo
<1> QED
  BY <1>3, <1>4, <1>5

(* The other steps give nobody an id.                                      *)
LEMMA ClosedTold ==
  ASSUME TypeInv, AllTold, NEW c \in Conns, NEW s, CloseWith(c, s), UNCHANGED <<session, allocs>>
  PROVE  AllTold'
<1>1. PICK i \in 0..Len(toNode[c]) : toNode' = [toNode EXCEPT ![c] = SubSeq(@, 1, i)]
  BY DEF CloseWith
<1>2. toNode[c] \in Seq(MsgsToNode) /\ toNode \in [Conns -> Seq(MsgsToNode)]
  BY DEF TypeInv
<1> HIDE DEF MsgsToNode
<1>3. /\ Len(SubSeq(toNode[c], 1, i)) = i /\ i <= Len(toNode[c]) /\ Len(toNode[c]) \in Nat
      /\ \A k \in 1..i : SubSeq(toNode[c], 1, i)[k] = toNode[c][k]
  BY <1>2, SubSeqProperties
<1>4. /\ Len(toNode'[c]) = i
      /\ \A k \in 1..i : toNode'[c][k] = toNode[c][k]
      /\ \A d \in Conns : d # c => toNode'[d] = toNode[d]
  BY <1>1, <1>2, <1>3
<1>5. \A d \in Conns : \A k \in NodeIdsSent(d)' :
        k \in NodeIdsSent(d) /\ toNode'[d][k] = toNode[d][k]
  BY <1>3, <1>4 DEF NodeIdsSent, SyncsAt
<1>6. NoOldId
  BY DEF NoOldId, TypeInv
<1> QED
  BY <1>5, <1>6, KeepsTold DEF AllTold

LEMMA RouteTold ==
  ASSUME TypeInv, AllTold, NEW c \in Conns, handle_route_msg(c), UNCHANGED view
  PROVE  AllTold'
<1> DEFINE r == Head(toBroker[c]).route
           to == {m_broker_client_info[r.dest_node_id].sock}
<1>1. /\ NoOldId
      /\ \/ toNode' = toNode
         \/ toNode' = SentToNodes(to, [d \in Conns |-> ToClient(r)])
  <2>1. UNCHANGED <<session, allocs>>
    BY DEF handle_route_msg, brokerVars
  <2>2. NoOldId
    BY <2>1 DEF NoOldId, TypeInv
  <2> QED
    BY <2>2 DEF handle_route_msg
<1> HIDE DEF r, to
<1>2. \A d \in Conns : \/ toNode'[d] = toNode[d]
                       \/ toNode'[d] = Append(toNode[d], ToClient(r))
  BY <1>1 DEF SentToNodes
<1>3. ToClient(r).cmd # "BROKER_SYNC_DATA_MSG"
  BY DEF ToClient
<1> SUFFICES ASSUME NEW d \in Conns PROVE Told(d)'
  BY DEF AllTold
<1>4. Told(d)
  BY DEF AllTold
<1>5. CASE toNode'[d] = toNode[d]
  BY <1>1, <1>4, <1>5, KeepsTold DEF NodeIdsSent, SyncsAt
<1>6. CASE toNode'[d] = Append(toNode[d], ToClient(r))
  BY <1>1, <1>3, <1>4, <1>6, OtherAppended, KeepsTold
<1> QED
  BY <1>2, <1>5, <1>6

LEMMA OthersTold ==
  ASSUME TypeInv, AllTold, [Next]_vars,
         ~ \E c \in Conns : \/ handle_slave_register(c)
                            \/ handle_client_register(c)
                            \/ handle_broken(c)
  PROVE  AllTold'
<1>1. UNCHANGED <<session, allocs>>
  BY OthersKeepIds DEF idVars
<1>2. NoOldId
  BY <1>1 DEF NoOldId, TypeInv
<1>3. CASE UNCHANGED toNode
  BY <1>2, <1>3, KeepsTold DEF AllTold, NodeIdsSent, SyncsAt
<1>4. ASSUME NEW c \in Conns, BrokerStep(c), UNCHANGED view
      PROVE  AllTold'
  <2>1. CASE handle_route_msg(c)
    BY <1>4, <2>1, RouteTold
  <2>2. CASE reject_client_register(c)
    BY <1>1, <1>3, <2>2, ClosedTold DEF reject_client_register
  <2>3. CASE handle_client_register_slave_broker(c)
    BY <1>3, <2>3 DEF handle_client_register_slave_broker
  <2>4. CASE handle_broken_unknown(c)
    BY <1>3, <2>4 DEF handle_broken_unknown
  <2> QED
    BY <1>4, <2>1, <2>2, <2>3, <2>4 DEF BrokerStep
<1>5. ASSUME NEW c \in Conns,
             PeerConnects(c) \/ PeerRoutes(c) \/ PeerReads(c) \/ PeerBreaks(c)
      PROVE  AllTold'
  <2>1. CASE PeerConnects(c) \/ PeerRoutes(c)
    BY <1>3, <2>1 DEF PeerConnects, PeerRoutes
  <2>2. CASE PeerReads(c)
    <3>1. toNode' = [toNode EXCEPT ![c] = <<>>]
      BY <2>2 DEF PeerReads
    <3>2. NodeIdsSent(c)' = {} /\ \A d \in Conns : d # c => toNode'[d] = toNode[d]
      BY <3>1 DEF NodeIdsSent, SyncsAt, TypeInv
    <3>3. \A d \in Conns : \A k \in NodeIdsSent(d)' :
            k \in NodeIdsSent(d) /\ toNode'[d][k] = toNode[d][k]
      BY <3>2 DEF NodeIdsSent, SyncsAt
    <3> QED
      BY <1>2, <3>3, KeepsTold DEF AllTold
  <2>3. CASE PeerBreaks(c)
    BY <1>1, <2>3, ClosedTold DEF PeerBreaks, Break
  <2> QED
    BY <1>5, <2>1, <2>2, <2>3
<1> QED
  BY <1>3, <1>4, <1>5 DEF Next, vars, netVars

LEMMA NextTold ==
  ASSUME ToldInv, NotWrapped', [Next]_vars
  PROVE  AllTold'
<1>1. CASE \E c \in Conns : handle_client_register(c)
  BY <1>1, ClientRegisterTold
<1>2. CASE \E c \in Conns : handle_slave_register(c)
  BY <1>2, SlaveRegisterTold
<1>3. ASSUME allocs' = allocs PROVE TypeInv /\ AllTold
  BY <1>3 DEF ToldInv, NotWrapped
<1>4. CASE \E c \in Conns : handle_broken(c)
  BY <1>3, <1>4, BrokenTold DEF handle_broken
<1>5. CASE ~ \E c \in Conns : \/ handle_slave_register(c)
                              \/ handle_client_register(c)
                              \/ handle_broken(c)
  BY <1>3, <1>5, OthersKeepIds, OthersTold DEF idVars
<1> QED
  BY <1>1, <1>2, <1>4, <1>5

(* The id of a node is told to that node alone, whatever slaves and nodes  *)
(* register and break, though msg.node_id is never reset while             *)
(* sync_all_register_info goes through the tables (ffbroker.cpp): a new id *)
(* is the greatest, and nodes come behind the slaves, so that the entry of *)
(* a new node is the last to be written to; as long as alloc_id has not    *)
(* wrapped.                                                                *)
THEOREM ClientIdsTold ==
  ASSUME NoHostTakenForId
  PROVE  Spec => []ClientIdToldToOwner
<1>1. Init => ToldInv
  <2>1. Init => NoSlaveSent /\ AllTold
    <3> SUFFICES ASSUME Init PROVE NoSlaveSent /\ AllTold
      OBVIOUS
    <3> HIDE DEF MsgsWithoutSlaves
    <3>1. NoSlaveSent
      BY PeersAssumption DEF Init, NetInit, NoSlaveSent, Slaveless
    <3>2. \A d \in Conns : NodeIdsSent(d) = {}
      BY DEF Init, NetInit, NodeIdsSent, SyncsAt
    <3> QED
      BY <3>1, <3>2 DEF AllTold, Told
  <2> QED
    BY <2>1, InitTyped, InitIds, InitOwned DEF ToldInv
<1>2. ToldInv /\ [Next]_vars => ToldInv'
  BY NextTyped, NextIds, NextOwned, NextSlaveless, NextTold DEF ToldInv
<1>3. ToldInv => ClientIdToldToOwner
  BY DEF ToldInv, AllTold, Told, IsTold, ClientIdToldToOwner
<1> QED
  BY <1>1, <1>2, <1>3, PTL DEF Spec

-----------------------------------------------------------------------------
(* A connection that is in has one entry, its session's.                   *)
EntriesOf(clients, c) == {i \in DOMAIN clients : clients[i].sock = c}

Same(c) == StageOf(c)' = StageOf(c) /\ NameOf(c)' = NameOf(c)

LEMMA OneEntry ==
  ASSUME NEW clients, NEW c, NEW i, EntriesOf(clients, c) = {i}
  PROVE  (CHOOSE j \in DOMAIN clients : clients[j].sock = c) = i
BY DEF EntriesOf

LEMMA EntriesOneOrNone ==
  ASSUME Owned, NEW c
  PROVE  EntriesOf(m_broker_client_info, c) \in {{}, {session[c]}}
BY DEF Owned, EntriesOwned, EntriesOf

LEMMA IsIn ==
  ASSUME NEW c, NEW i, EntriesOf(m_broker_client_info, c) = {i}
  PROVE  StageOf(c) = "in" /\ NameOf(c) = m_broker_client_info[i].service_name
<1>1. \E j \in DOMAIN m_broker_client_info : m_broker_client_info[j].sock = c
  BY DEF EntriesOf
<1> QED
  BY <1>1, OneEntry DEF StageOf, NameOf

LEMMA IsOut ==
  ASSUME NEW c, EntriesOf(m_broker_client_info, c) = {}
  PROVE  /\ StageOf(c) = (IF <<"broker", c>> \in deleted THEN "gone" ELSE "out")
         /\ NameOf(c) = NoName
BY DEF EntriesOf, StageOf, NameOf

(* The same after a step.                                                  *)
LEMMA IsInNext ==
  ASSUME NEW c, NEW i, EntriesOf(m_broker_client_info', c) = {i}
  PROVE  StageOf(c)' = "in" /\ NameOf(c)' = m_broker_client_info'[i].service_name
<1>1. \E j \in DOMAIN m_broker_client_info' : m_broker_client_info'[j].sock = c
  BY DEF EntriesOf
<1> QED
  BY <1>1, OneEntry DEF StageOf, NameOf

LEMMA IsOutNext ==
  ASSUME NEW c, EntriesOf(m_broker_client_info', c) = {}
  PROVE  /\ StageOf(c)' = (IF <<"broker", c>> \in deleted' THEN "gone" ELSE "out")
         /\ NameOf(c)' = NoName
BY DEF EntriesOf, StageOf, NameOf

LEMMA NothingNew ==
  ASSUME Owned, NEW c,
         EntriesOf(m_broker_client_info', c) = EntriesOf(m_broker_client_info, c),
         \A i \in EntriesOf(m_broker_client_info, c) :
           m_broker_client_info'[i].service_name = m_broker_client_info[i].service_name,
         <<"broker", c>> \in deleted' <=> <<"broker", c>> \in deleted
  PROVE  Same(c)
<1>1. CASE EntriesOf(m_broker_client_info, c) = {}
  BY <1>1, IsOut, IsOutNext DEF Same
<1>2. CASE EntriesOf(m_broker_client_info, c) = {session[c]}
  BY <1>2, IsIn, IsInNext DEF Same
<1> QED
  BY <1>1, <1>2, EntriesOneOrNone

-----------------------------------------------------------------------------
(* Steps of the registry, and what they are made of.                       *)
LEMMA Stutters ==
  ASSUME \A c \in Clients : Same(c)
  PROVE  UNCHANGED Reg!vars
BY DEF Same, Reg!vars

LEMMA Joins ==
  ASSUME NEW c \in Clients, \A d \in Clients : d # c => Same(d),
         NEW n \in Names \cup {NoName},
         StageOf(c) = "out", StageOf(c)' = "in", NameOf(c)' = n,
         n # NoName => \A d \in Clients : ~(StageOf(d) = "in" /\ NameOf(d) = n)
  PROVE  Reg!Join(c, n)
BY DEF Same, Reg!Join, Reg!Held

LEMMA Leaves ==
  ASSUME NEW c \in Clients, \A d \in Clients : d # c => Same(d),
         StageOf(c) # "gone", StageOf(c)' = "gone", NameOf(c)' = NoName
  PROVE  Reg!Leave(c)
BY DEF Same, Reg!Leave

LEMMA GoneLeaves ==
  ASSUME NEW c \in Conns, \A d \in Clients : d # c => Same(d),
         <<"broker", c>> \notin deleted, <<"broker", c>> \in deleted',
         EntriesOf(m_broker_client_info', c) = {}
  PROVE  [Reg!Next]_(Reg!vars)
<1>1. StageOf(c) # "gone"
  BY DEF StageOf
<1>2. StageOf(c)' = "gone" /\ NameOf(c)' = NoName
  BY IsOutNext
<1>3. CASE c \in Clients
  BY <1>1, <1>2, <1>3, Leaves DEF Reg!Next
<1>4. CASE c \notin Clients
  BY <1>4, Stutters
<1> QED
  BY <1>3, <1>4

-----------------------------------------------------------------------------
(* What the broker's steps do to the entries of each connection.           *)
LEMMA ClientRegisterJoins ==
  ASSUME RegInv, RegInv', NotWrapped', NEW c \in Conns, handle_client_register(c)
  PROVE  [Reg!Next]_(Reg!vars)
<1> DEFINE id == alloc_id(1)
<1>1. PICK info : /\ info.sock = c
                  /\ info.service_name \in Names \cup {NoName}
                  /\ ~NameTaken(info.service_name)
                  /\ SameEntries(m_broker_client_info', Insert(m_broker_client_info, id, info))
  BY ClientRegisterTables DEF RegInv
<1>2. /\ toBroker[c] # <<>> /\ Registration(Head(toBroker[c]))
      /\ session' = [session EXCEPT ![c] = id] /\ deleted' = deleted
      /\ id \in Ids \ {0}
  BY ClientRegisterTables DEF RegInv
<1>3. session[c] = 0 /\ <<"broker", c>> \notin deleted
  BY <1>2, RegistersOnce DEF RegInv, Owned
<1>4. id \notin DOMAIN m_broker_client_info
  BY RegisteredUnwrapped, NewIdFree DEF RegInv
<1> HIDE DEF id
<1>5. EntriesOf(m_broker_client_info, c) = {}
  BY <1>3, TypedBroker, TableSocks DEF RegInv, Owned, EntriesOwned, EntriesOf
<1>6. EntriesOf(m_broker_client_info', c) = {id}
  <2>1. /\ DOMAIN m_broker_client_info' = DOMAIN m_broker_client_info \cup {id}
        /\ m_broker_client_info'[id].sock = c
        /\ \A i \in DOMAIN m_broker_client_info :
             i # id => m_broker_client_info'[i].sock = m_broker_client_info[i].sock
    BY <1>1 DEF SameEntries, Insert
  <2>2. \A i \in DOMAIN m_broker_client_info : m_broker_client_info[i].sock # c
    BY <1>5 DEF EntriesOf
  <2> QED
    BY <1>4, <2>1, <2>2 DEF EntriesOf
<1>7. \A d \in Clients : d # c => Same(d)
  <2> SUFFICES ASSUME NEW d \in Clients, d # c PROVE Same(d)
    OBVIOUS
  <2>1. EntriesOf(m_broker_client_info', d) = EntriesOf(m_broker_client_info, d)
    BY <1>1, <1>4 DEF EntriesOf, SameEntries, Insert
  <2>2. \A i \in EntriesOf(m_broker_client_info, d) :
          m_broker_client_info'[i].service_name = m_broker_client_info[i].service_name
    BY <1>1, <1>4 DEF EntriesOf, SameEntries, Insert
  <2> QED
    BY <1>2, <2>1, <2>2, NothingNew DEF RegInv
<1>8. CASE c \in Clients
  <2>1. StageOf(c) = "out"
    BY <1>3, <1>5, IsOut
  <2>2. StageOf(c)' = "in" /\ NameOf(c)' = info.service_name
    <3>1. m_broker_client_info'[id].service_name = info.service_name
      BY <1>1 DEF SameEntries, Insert
    <3> QED
      BY <1>6, <3>1, IsInNext
  <2>3. ASSUME info.service_name # NoName, NEW d \in Clients,
               StageOf(d) = "in", NameOf(d) = info.service_name
        PROVE  FALSE
    <3>1. EntriesOf(m_broker_client_info, d) # {}
      BY <2>3, IsOut
    <3>2. EntriesOf(m_broker_client_info, d) = {session[d]}
      BY <3>1, EntriesOneOrNone DEF RegInv
    <3>3. m_broker_client_info[session[d]].service_name = info.service_name
      BY <2>3, <3>2, IsIn
    <3>4. session[d] \in DOMAIN m_broker_client_info
      BY <3>2 DEF EntriesOf
    <3> QED
      BY <1>1, <2>3, <3>3, <3>4 DEF NameTaken
  <2>4. Reg!Join(c, info.service_name)
    BY <1>1, <1>7, <1>8, <2>1, <2>2, <2>3, Joins
  <2> QED
    BY <1>1, <1>8, <2>4 DEF Reg!Next
<1>9. CASE c \notin Clients
  BY <1>7, <1>9, Stutters
<1> QED
  BY <1>8, <1>9

LEMMA SlaveRegisterStutters ==
  ASSUME RegInv, NEW c \in Conns, handle_slave_register(c)
  PROVE  UNCHANGED Reg!vars
<1>1. SameEntries(m_broker_client_info', m_broker_client_info) /\ deleted' = deleted
  BY SlaveRegisterTables DEF RegInv
<1>2. ASSUME NEW d PROVE Same(d)
  <2>1. EntriesOf(m_broker_client_info', d) = EntriesOf(m_broker_client_info, d)
    BY <1>1 DEF EntriesOf, SameEntries
  <2>2. \A i \in EntriesOf(m_broker_client_info, d) :
          m_broker_client_info'[i].service_name = m_broker_client_info[i].service_name
    BY <1>1 DEF EntriesOf, SameEntries
  <2> QED
    BY <1>1, <2>1, <2>2, NothingNew DEF RegInv
<1> QED
  BY <1>2, Stutters

(* A break: the entry of the session's id goes, if it is a node's.         *)
LEMMA BrokenLeaves ==
  ASSUME RegInv, NotWrapped, NEW c \in Conns, handle_broken(c)
  PROVE  [Reg!Next]_(Reg!vars)
<1>1. /\ session[c] # 0 /\ <<"broker", c>> \notin deleted
      /\ deleted' = deleted \cup {<<"broker", c>>}
      /\ SameEntries(m_broker_client_info', Erase(m_broker_client_info, session[c]))
  BY BrokenTables DEF RegInv, BreakSeenByBroker, SafeDelete
<1>2. \A d \in Conns : d # c => session[d] # session[c]
  BY <1>1 DEF RegInv, FreshIds, IdsDistinct
<1>3. EntriesOf(m_broker_client_info', c) = {}
  <2>1. Owned
    BY DEF RegInv
  <2>2. EntriesOf(m_broker_client_info, c) \in {{}, {session[c]}}
    BY <2>1, EntriesOneOrNone
  <2>3. /\ DOMAIN m_broker_client_info' = DOMAIN m_broker_client_info \ {session[c]}
        /\ \A i \in DOMAIN m_broker_client_info' :
             m_broker_client_info'[i].sock = m_broker_client_info[i].sock
    BY <1>1, Zenon DEF SameEntries, Erase
  <2> QED BY <2>2, <2>3 DEF EntriesOf
<1>4. \A d \in Clients : d # c => Same(d)
  <2> SUFFICES ASSUME NEW d \in Clients, d # c PROVE Same(d)
    OBVIOUS
  <2>1. d \in Conns
    BY PeersAssumption
  <2>2. session[c] \notin EntriesOf(m_broker_client_info, d)
    BY <1>2, <2>1 DEF RegInv, Owned, EntriesOwned, EntriesOf
  <2>3. EntriesOf(m_broker_client_info', d) = EntriesOf(m_broker_client_info, d)
    BY <1>1, <2>2 DEF EntriesOf, SameEntries, Erase
  <2>4. \A i \in EntriesOf(m_broker_client_info, d) :
          m_broker_client_info'[i].service_name = m_broker_client_info[i].service_name
    BY <1>1, <2>2 DEF EntriesOf, SameEntries, Erase
  <2>5. <<"broker", d>> \in deleted' <=> <<"broker", d>> \in deleted
    BY <1>1
  <2> QED
    BY <2>3, <2>4, <2>5, NothingNew DEF RegInv
<1> QED
  BY <1>1, <1>3, <1>4, GoneLeaves

LEMMA BrokenUnknownLeaves ==
  ASSUME RegInv, NEW c \in Conns, handle_broken_unknown(c)
  PROVE  [Reg!Next]_(Reg!vars)
<1>1. /\ session[c] = 0 /\ <<"broker", c>> \notin deleted
      /\ deleted' = deleted \cup {<<"broker", c>>}
      /\ m_broker_client_info' = m_broker_client_info
  BY DEF handle_broken_unknown, BreakSeenByBroker, SafeDelete, brokerVars
<1>2. EntriesOf(m_broker_client_info', c) = {}
  BY <1>1, TypedBroker, TableSocks DEF RegInv, Owned, EntriesOwned, EntriesOf
<1>3. \A d \in Clients : d # c => Same(d)
  BY <1>1, NothingNew DEF RegInv
<1> QED
  BY <1>1, <1>2, <1>3, GoneLeaves

(* Every other step leaves the entries, and deletes nothing.               *)
LEMMA OthersStutter ==
  ASSUME NoHostTakenForId, RegInv, [Next]_vars,
         ~ \E c \in Conns : \/ handle_slave_register(c)
                            \/ handle_client_register(c)
                            \/ handle_broken(c)
                            \/ handle_broken_unknown(c)
  PROVE  UNCHANGED Reg!vars
<1>1. m_broker_client_info' = m_broker_client_info
  BY OthersKeepTables DEF RegInv, Owned
<1>2. deleted' = deleted
  BY DEF Next, BrokerStep, PeerConnects, PeerRoutes, PeerReads, PeerBreaks, Break, vars, netVars,
     reject_client_register, handle_client_register_slave_broker, handle_route_msg
<1> QED
  BY <1>1, <1>2, NothingNew, Stutters DEF RegInv

(* The broker keeps the promise of Registry (ffbroker.cpp:                 *)
(* handle_client_register, handle_broken): a node is in under its name     *)
(* from its registration to its break and never again, and nobody comes in *)
(* under a name that is held; as long as alloc_id has not wrapped.         *)
THEOREM RegistryImplemented ==
  ASSUME NoHostTakenForId
  PROVE  Spec /\ []NotWrapped => ImplementsRegistry
<1>1. Init => Reg!Init
  <2> SUFFICES ASSUME Init PROVE Reg!Init
    OBVIOUS
  <2>1. \A c : EntriesOf(m_broker_client_info, c) = {} /\ <<"broker", c>> \notin deleted
    BY DEF Init, NetInit, BrokerInit, EntriesOf
  <2>2. \A c : StageOf(c) = "out" /\ NameOf(c) = NoName
    BY <2>1, IsOut
  <2> QED
    BY <2>2 DEF Reg!Init
<1>2. RegInv /\ RegInv' /\ NotWrapped /\ NotWrapped' /\ [Next]_vars => [Reg!Next]_(Reg!vars)
  BY ClientRegisterJoins, SlaveRegisterStutters, BrokenLeaves, BrokenUnknownLeaves, OthersStutter
<1>3. Spec => []RegInv
  BY RegInvHolds
<1> QED
  BY <1>1, <1>2, <1>3, PTL DEF Spec, ImplementsRegistry, Reg!Spec
=============================================================================
