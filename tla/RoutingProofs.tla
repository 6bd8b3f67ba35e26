---------------------------- MODULE RoutingProofs ----------------------------
(***************************************************************************)
(* A request reaches a node of the service it asked for, and an answer the *)
(* call it answers, for every number of nodes, connections and calls, in   *)
(* whatever order they connect, break and register again, until ids wrap;  *)
(* and what a node knows of the others is what the broker knows of them    *)
(* once the synchronisations have been read.  A call's request and answer  *)
(* are each in one place at most, whatever breaks, so that System keeps    *)
(* CallContract.  The calls of one node are served in the order they were  *)
(* made, except in the broker's process, until a node connects again.      *)
(***************************************************************************)
EXTENDS SystemProofs

-----------------------------------------------------------------------------
(* What the broker knows of a connection is its owner's.                   *)
NoSlaves == DOMAIN m_slave_broker_sockets = {}

Registration(c) == RegisterClient(Service[Owner[c]], Interfaces[Owner[c]])

IsRoute(m) == m.cmd = "BROKER_ROUTE_MSG"

AllRoutes(s) == \A m \in Items(s) : IsRoute(m)

(* Only the first message may be a registration.                           *)
Regular(s, m) == IsQueue(s) /\ \A i \in 1..Len(s) : IsRoute(s[i]) \/ (i = 1 /\ s[i] = m)

Orderly(c) == /\ Regular(toBroker[c], Registration(c))
              /\ session[c] # 0 => AllRoutes(toBroker[c])
              /\ link[c] = "unused" => toBroker[c] = <<>> /\ session[c] = 0

EntryOfOwner(i) ==
  LET n == Owner[m_broker_client_info[i].sock]
  IN /\ m_broker_client_info[i].service_name = Service[n]
     /\ Interfaces[n] \subseteq DOMAIN m_msg2id

TablesOfOwners == /\ NoSlaves /\ Counted /\ IdsDistinct /\ EntriesOwned
                  /\ \A i \in DOMAIN m_broker_client_info : EntryOfOwner(i)

Owners == TablesOfOwners /\ \A c \in Conns : Orderly(c)

LEMMA RegularQueues ==
  ASSUME NEW s, NEW m, Regular(s, m)
  PROVE  /\ s # <<>> => Regular(Tail(s), m) /\ AllRoutes(Tail(s)) /\ IsQueue(Tail(s))
         /\ s # <<>> => IsRoute(Head(s)) \/ Head(s) = m
         /\ \A k \in 0..Len(s) : Regular(SubSeq(s, 1, k), m)
         /\ \A x : IsRoute(x) => Regular(Append(s, x), m)
<1>1. IsQueue(s)
  BY DEF Regular
<1>2. ASSUME s # <<>>
      PROVE  /\ Regular(Tail(s), m) /\ AllRoutes(Tail(s)) /\ IsQueue(Tail(s))
             /\ IsRoute(Head(s)) \/ Head(s) = m
  <2> DEFINE t == Tail(s)
  <2>1. /\ IsQueue(t) /\ Head(s) = s[1] /\ Len(s) \in Nat \ {0} /\ Len(t) = Len(s) - 1
        /\ \A i \in 1..Len(t) : t[i] = s[i + 1]
    BY <1>1, <1>2, TakenQueue
  <2> HIDE DEF t
  <2>2. \A i \in 1..Len(t) : i + 1 \in 1..Len(s) /\ i + 1 # 1
    BY <2>1
  <2>3. \A i \in 1..Len(t) : IsRoute(t[i])
    BY <2>1, <2>2 DEF Regular
  <2>4. AllRoutes(t)
    BY <2>1, <2>3, QueueLength DEF AllRoutes
  <2>5. 1 \in 1..Len(s)
    BY <2>1
  <2> QED
    BY <2>1, <2>3, <2>4, <2>5 DEF Regular, t
<1>3. \A k \in 0..Len(s) : Regular(SubSeq(s, 1, k), m)
  <2> TAKE k \in 0..Len(s)
  <2> DEFINE t == SubSeq(s, 1, k)
  <2>1. /\ IsQueue(t) /\ Len(t) = k /\ k \in Nat /\ k <= Len(s) /\ Len(s) \in Nat
        /\ \A i \in 1..k : t[i] = s[i]
    BY <1>1, CutQueue
  <2> HIDE DEF t
  <2>2. \A i \in 1..k : i \in 1..Len(s)
    BY <2>1
  <2> QED
    BY <2>1, <2>2 DEF Regular, t
<1>4. \A x : IsRoute(x) => Regular(Append(s, x), m)
  <2> TAKE x
  <2> DEFINE t == Append(s, x)
  <2>1. /\ IsQueue(t) /\ Len(t) = Len(s) + 1 /\ Len(s) \in Nat
        /\ \A i \in 1..Len(s) : t[i] = s[i]
        /\ t[Len(s) + 1] = x
    BY <1>1, AppendedQueue, QueueLength
  <2> HIDE DEF t
  <2>2. \A i \in 1..Len(t) : i \in 1..Len(s) \/ i = Len(s) + 1
    BY <2>1
  <2> QED
    BY <2>1, <2>2 DEF Regular, t
<1> QED
  BY <1>2, <1>3, <1>4

LEMMA RoutesRegular ==
  ASSUME NEW s, IsQueue(s), AllRoutes(s), NEW m
  PROVE  Regular(s, m)
BY QueueLength DEF Regular, AllRoutes

LEMMA FirstRegular == \A m : Regular(<<m>>, m)
<1> TAKE m
<1>1. <<m>> \in Seq({m}) /\ Items(<<m>>) = {m}
  BY DEF Items
<1> QED
  BY <1>1 DEF Regular, IsQueue

-----------------------------------------------------------------------------
(* What a step does to one connection's messages to the broker.            *)
Taken(c) == toBroker[c] # <<>> /\ toBroker'[c] = Tail(toBroker[c])

Cut(c, s) == link[c] = "open" /\ \E k \in 0..Len(s) : toBroker'[c] = SubSeq(s, 1, k)

RouteAdded(c) ==
  link[c] = "open" /\ \E m : IsRoute(m) /\ toBroker'[c] = Append(toBroker[c], m)

Connected(c) == /\ link[c] = "unused" /\ link'[c] = "open"
                /\ toBroker'[c] = <<Registration(c)>>

OneQueueStep(c) ==
  \/ toBroker'[c] = toBroker[c]
  \/ Taken(c)
  \/ Cut(c, toBroker[c])
  \/ toBroker[c] # <<>> /\ Cut(c, Tail(toBroker[c]))
  \/ RouteAdded(c)
  \/ Connected(c)

QueueStep == \A c \in Conns : OneQueueStep(c)

LEMMA ClosedQueue ==
  ASSUME QueuesTyped, NEW c \in Conns, NEW s, CloseWith(c, s),
         \/ s = toBroker[c]
         \/ toBroker[c] # <<>> /\ s = Tail(toBroker[c])
  PROVE  QueueStep
<1>1. PICK i \in 0..Len(s) : toBroker' = [toBroker EXCEPT ![c] = SubSeq(s, 1, i)]
  BY DEF CloseWith
<1>2. Cut(c, s)
  BY <1>1, QueuesAre DEF Cut, CloseWith
<1>3. \A d \in Conns : d # c => toBroker'[d] = toBroker[d]
  BY <1>1
<1> QED
  BY <1>2, <1>3 DEF QueueStep, OneQueueStep

LEMMA ConsumedQueue ==
  ASSUME QueuesTyped, NEW c \in Conns, toBroker[c] # <<>>, Consumed(c)
  PROVE  QueueStep /\ Taken(c)
<1>1. toBroker'[c] = Tail(toBroker[c]) /\ \A d \in Conns : d # c => toBroker'[d] = toBroker[d]
  BY QueuesAre DEF Consumed
<1> QED
  BY <1>1 DEF QueueStep, OneQueueStep, Taken

LEMMA SentQueue ==
  ASSUME QueuesTyped, NEW n \in Nodes, m_master_broker_sock[n] \in Conns \cup {NoConn},
         NEW dest, NEW msg, NEW cb, NEW body,
         send_to_broker_by_nodeid(n, dest, msg, cb, body)
  PROVE  QueueStep
<1> DEFINE sock == m_master_broker_sock[n]
           r == Route(m_node_id[n], dest, msg, cb, body)
           via == IF n \in Local /\ client_route_to_broker(dest) THEN "memory" ELSE "socket"
<1>1. toBroker' = IF sock = NoConn THEN toBroker ELSE SentToBroker(sock, RouteMsg(r, via))
  BY DEF send_to_broker_by_nodeid
<1>2. IsRoute(RouteMsg(r, via))
  BY DEF IsRoute, RouteMsg
<1> HIDE DEF r, via
<1>3. \A d \in Conns :
        \/ toBroker'[d] = toBroker[d]
        \/ link[d] = "open" /\ toBroker'[d] = Append(toBroker[d], RouteMsg(r, via))
  BY <1>1, QueuesAre, NetworkAssumption DEF SentToBroker
<1> QED
  BY <1>2, <1>3 DEF QueueStep, OneQueueStep, RouteAdded

LEMMA ConnectedQueue ==
  ASSUME QueuesTyped, NetTyped, NEW n \in Nodes, ConnectSucceeds(n) \/ ConnectFails(n)
  PROVE  QueueStep
<1>1. ASSUME ConnectFails(n) PROVE QueueStep
  BY <1>1 DEF ConnectFails, QueueStep, OneQueueStep
<1>2. ASSUME ConnectSucceeds(n) PROVE QueueStep
  <2>1. PICK c \in Fresh(n) : ConnectAndSend(c, RegisterClient(Service[n], Interfaces[n]))
    BY <1>2 DEF ConnectSucceeds
  <2>2. /\ c \in Conns /\ Owner[c] = n /\ link[c] = "unused" /\ link'[c] = "open"
        /\ toBroker' = [toBroker EXCEPT ![c] = <<Registration(c)>>]
    BY <2>1 DEF Fresh, ConnectAndSend, Registration, NetTyped
  <2>3. \A d \in Conns : \/ toBroker'[d] = toBroker[d]
                         \/ d = c /\ toBroker'[d] = <<Registration(c)>>
    BY <2>2, QueuesAre
  <2> QED
    BY <2>2, <2>3 DEF QueueStep, OneQueueStep, Connected
<1> QED
  BY <1>1, <1>2

LEMMA SameQueue == UNCHANGED toBroker => QueueStep
BY DEF QueueStep, OneQueueStep

LEMMA StepQueue ==
  ASSUME TypeOK, [Next]_vars
  PROVE  QueueStep
<1>1. QueuesTyped /\ NetTyped /\ SharedTyped /\ NodesTyped
  BY TypeParts DEF SharedTyped
<1>2. ASSUME NEW c \in Conns, BrokerStep(c) PROVE QueueStep
  <2>1. handle_client_register(c) \/ handle_route_msg(c) => QueueStep
    BY <1>1, ConsumedQueue DEF handle_client_register, handle_route_msg, Receives
  <2>2. reject_client_register(c) => QueueStep
    BY <1>1, ConsumedQueue, ClosedQueue DEF reject_client_register, Receives
  <2>3. handle_broken_unknown(c) \/ handle_broken(c) => QueueStep
    BY SameQueue DEF handle_broken_unknown, handle_broken
  <2> QED
    BY <1>1, <1>2, <2>1, <2>2, <2>3, NoSlaveMessages DEF BrokerStep
<1>3. ASSUME NEW n \in Nodes, RunTask(n) PROVE QueueStep
  <2>1. CASE Quiet(n) \/ trigger_interface(n) \/ crash(n)
    <3>1. UNCHANGED toBroker
      BY <2>1 DEF Quiet, handle_unbound_msg, handle_broker_sync_data, trigger_callback,
         trigger_callback_throws, trigger_nothing, call_impl_refused,
         handle_broken_impl, netVars, trigger_interface, crash
    <3> QED
      BY <3>1, SameQueue
  <2>2. CASE call_impl(n) \/ response(n)
    BY <1>1, <2>2, NodeMaps, SentQueue DEF call_impl, response
  <2>3. CASE timer_reconnect_broker(n)
    BY <1>1, <2>3, ConnectedQueue DEF timer_reconnect_broker
  <2> QED
    BY <1>3, <2>1, <2>2, <2>3 DEF RunTask, Quiet
<1>4. ASSUME NEW n \in Nodes, open(n) PROVE QueueStep
  BY <1>1, <1>4, ConnectedQueue DEF open
<1>5. ASSUME NEW c \in Conns, Breaks(c) PROVE QueueStep
  BY <1>1, <1>5, ClosedQueue DEF Breaks, Break
<1>6. ASSUME NEW c \in Conns, NetworkThread(c) PROVE QueueStep
  BY <1>6, SameQueue DEF NetworkThread, handle_msg, handle_broken_on_node, netVars
<1>7. ASSUME NEW n \in Nodes, Timer(n) \/ OpenReturns(n) PROVE QueueStep
  BY <1>7, SameQueue DEF Timer, route_call_reconnect, OpenReturns, open_returns, netVars
<1>8. ASSUME NEW k \in Calls, Application(k) PROVE QueueStep
  BY <1>8, SameQueue DEF Application, call, netVars
<1>9. UNCHANGED vars => QueueStep
  BY SameQueue DEF vars, netVars
<1> QED
  BY <1>2, <1>3, <1>4, <1>5, <1>6, <1>7, <1>8, <1>9
  DEF Next, BrokerThread, NodeThread, OpenStarts

(* A connection that has been made is never unused again, nor a broken one *)
(* made whole.                                                             *)
LinkStep == \A c \in Conns : /\ link'[c] = "unused" => link[c] = "unused"
                             /\ link[c] = "broken" => link'[c] = "broken"

LEMMA SameLinks == UNCHANGED link => LinkStep
BY DEF LinkStep

LEMMA ClosedLinks ==
  ASSUME NetTyped, NEW c \in Conns, NEW s, CloseWith(c, s)
  PROVE  LinkStep
BY DEF NetTyped, CloseWith, LinkStep

LEMMA ConnectedLinks ==
  ASSUME NetTyped, NEW n \in Nodes, ConnectSucceeds(n) \/ ConnectFails(n)
  PROVE  LinkStep
<1>1. ASSUME NEW c \in Fresh(n), link' = [link EXCEPT ![c] = "open"]
      PROVE  LinkStep
  BY <1>1 DEF Fresh, NetTyped, LinkStep
<1> QED
  BY <1>1, SameLinks DEF ConnectSucceeds, ConnectFails, ConnectAndSend

LEMMA StepLinks ==
  ASSUME TypeOK, [Next]_vars
  PROVE  LinkStep
<1>1. NetTyped /\ QueuesTyped
  BY TypeParts DEF SharedTyped
<1>2. ASSUME NEW c \in Conns, BrokerStep(c) PROVE LinkStep
  <2>1. UNCHANGED link \/ CloseWith(c, Tail(toBroker[c]))
    BY <1>1, <1>2, NoSlaveMessages
    DEF BrokerStep, handle_client_register, handle_route_msg, reject_client_register,
        handle_broken_unknown, handle_broken
  <2> QED
    BY <1>1, <2>1, SameLinks, ClosedLinks
<1>3. ASSUME NEW n \in Nodes, RunTask(n) PROVE LinkStep
  <2>1. CASE crash(n)
    BY <1>1, <2>1 DEF NetTyped, crash, LinkStep
  <2>2. CASE timer_reconnect_broker(n)
    BY <1>1, <2>2, ConnectedLinks DEF timer_reconnect_broker
  <2>3. CASE ~crash(n) /\ ~timer_reconnect_broker(n)
    <3>1. UNCHANGED link
      BY <1>3, <2>3 DEF RunTask, handle_unbound_msg, handle_broker_sync_data,
         trigger_callback, trigger_callback_throws, trigger_nothing, call_impl_refused,
         handle_broken_impl, netVars, trigger_interface, call_impl, response
    <3> QED
      BY <3>1, SameLinks
  <2> QED
    BY <2>1, <2>2, <2>3
<1>4. ASSUME NEW n \in Nodes, open(n) PROVE LinkStep
  BY <1>1, <1>4, ConnectedLinks DEF open
<1>5. ASSUME NEW c \in Conns, Breaks(c) PROVE LinkStep
  BY <1>1, <1>5, ClosedLinks DEF Breaks, Break
<1>6. ASSUME NEW c \in Conns, NetworkThread(c) PROVE LinkStep
  BY <1>6, SameLinks DEF NetworkThread, handle_msg, handle_broken_on_node, netVars
<1>7. ASSUME NEW n \in Nodes, Timer(n) \/ OpenReturns(n) PROVE LinkStep
  BY <1>7, SameLinks DEF Timer, route_call_reconnect, OpenReturns, open_returns, netVars
<1>8. ASSUME NEW k \in Calls, Application(k) PROVE LinkStep
  BY <1>8, SameLinks DEF Application, call, netVars
<1>9. UNCHANGED vars => LinkStep
  BY SameLinks DEF vars, netVars
<1> QED
  BY <1>2, <1>3, <1>4, <1>5, <1>6, <1>7, <1>8, <1>9
  DEF Next, BrokerThread, NodeThread, OpenStarts

(* The steps that change the broker's tables.                              *)
LEMMA TableSteps ==
  ASSUME TypeOK, [Next]_vars
  PROVE  \/ UNCHANGED brokerVars
         \/ \E c \in Conns : handle_client_register(c) \/ handle_broken(c)
<1>1. QueuesTyped
  BY TypeParts DEF SharedTyped
<1>2. ASSUME NEW c \in Conns, BrokerStep(c)
      PROVE  UNCHANGED brokerVars \/ handle_client_register(c) \/ handle_broken(c)
  BY <1>1, <1>2, NoSlaveMessages
  DEF BrokerStep, handle_route_msg, reject_client_register, handle_broken_unknown
<1>3. CASE BrokerThread
  BY <1>2, <1>3 DEF BrokerThread
<1>4. CASE ~BrokerThread
  BY <1>4 DEF Next, NodeThread, Timer, OpenStarts, OpenReturns, NetworkThread, Breaks,
     Application, vars
<1> QED
  BY <1>3, <1>4

-----------------------------------------------------------------------------
(* A registration is the connection's first message, and its owner's.      *)
LEMMA Registers ==
  ASSUME Owners, NEW c \in Conns, handle_client_register(c)
  PROVE  /\ session[c] = 0
         /\ Head(toBroker[c]) = Registration(c)
         /\ Head(toBroker[c]).service_name = Service[Owner[c]]
         /\ Head(toBroker[c]).msg_names = Interfaces[Owner[c]]
<1>1. toBroker[c] # <<>> /\ ~IsRoute(Head(toBroker[c]))
  BY DEF handle_client_register, Receives, IsRoute
<1>2. Orderly(c)
  BY DEF Owners
<1>3. Head(toBroker[c]) = Registration(c)
  BY <1>1, <1>2, RegularQueues DEF Orderly
<1>4. Head(toBroker[c]) \in Items(toBroker[c])
  BY <1>1, <1>2, TakenQueue DEF Orderly, Regular
<1>5. session[c] = 0
  BY <1>1, <1>2, <1>4 DEF Orderly, AllRoutes
<1> QED
  BY <1>1, <1>3, <1>5 DEF Registration, RegisterClient

(* What a registration leaves.                                             *)
LEMMA Registered ==
  ASSUME TypeOK, Owners, NEW c \in Conns, handle_client_register(c), NotWrapped'
  PROVE  /\ alloc_id(1) = allocs + 1 /\ allocs' \in Nat /\ allocs + 1 <= allocs'
         /\ allocs + 1 <= MaxId /\ NotWrapped /\ allocs \in Nat
         /\ session' = [session EXCEPT ![c] = allocs + 1]
         /\ m_msg2id' = NewMsgIds(Interfaces[Owner[c]])
         /\ DOMAIN m_msg2id' = DOMAIN m_msg2id \cup Interfaces[Owner[c]]
         /\ \A m \in DOMAIN m_msg2id : m_msg2id'[m] = m_msg2id[m]
         /\ UNCHANGED m_slave_broker_sockets
         /\ \E info : /\ info.sock = c /\ info.service_name = Service[Owner[c]]
                      /\ SameEntries(m_broker_client_info',
                                     Insert(m_broker_client_info, allocs + 1, info))
         /\ IsMap(m_broker_client_info', Ids \ {0}, ClientInfo)
<1> DEFINE names == Interfaces[Owner[c]]
           id == alloc_id(1)
           slaves == DOMAIN m_slave_broker_sockets
           info == [bind_broker_id |-> alloc_broker_id(slaves, 0),
                    service_name   |-> Service[Owner[c]],
                    sock           |-> c]
           n == 1 + Cardinality(names \ DOMAIN m_msg2id)
<1>1. BrokerTyped /\ names \in SUBSET Msgs /\ SharedTyped'
  BY TypeParts, SystemAssumption, BrokerStepTyped DEF SharedTyped, BrokerStep
<1>2. n \in Nat /\ n >= 1
  <2>1. n \in 1..MaxId
    BY <1>1, NewIdsTyped DEF BrokerTyped
  <2> QED
    BY <2>1
<1>3. /\ session' = [session EXCEPT ![c] = id]
      /\ m_msg2id' = NewMsgIds(names)
      /\ Allocated(n)
      /\ sync_all_register_info(c, id, m_msg2id', m_slave_broker_sockets,
           Insert(m_broker_client_info, id, info), 1)
      /\ UNCHANGED m_slave_broker_sockets
  BY Registers DEF handle_client_register
<1>4. allocs \in Nat /\ allocs' = allocs + n /\ allocs' <= MaxId
  BY <1>1, <1>3 DEF BrokerTyped, Allocated, NotWrapped
<1>5. id = allocs + 1
  BY <1>1, <1>2, <1>4, AllocUnwrapped, BrokerAssumption DEF Owners, TablesOfOwners, Counted, BrokerTyped
<1>6. id \in Ids \ {0}
  BY <1>1, NewIdTyped DEF BrokerTyped
<1>7. info.sock = c /\ info.service_name = Service[Owner[c]] /\ info \in ClientInfo
  <2>1. slaves \in SUBSET Ids
    BY <1>1 DEF BrokerTyped, IsMap
  <2>2. alloc_broker_id(slaves, 0) \in Ids
    BY <1>1, <2>1, BrokerIdTyped DEF BrokerTyped
  <2> QED
    BY <2>2, SystemAssumption DEF ClientInfo
<1> HIDE DEF info, n
<1>8. IsMap(Insert(m_broker_client_info, id, info), Ids \ {0}, ClientInfo)
  BY <1>1, <1>6, <1>7, InsertTyped DEF BrokerTyped
<1>9. SameEntries(m_broker_client_info', Insert(m_broker_client_info, id, info))
  BY <1>1, <1>3, <1>8, SyncTables DEF BrokerTyped
<1>10. /\ DOMAIN m_msg2id' = DOMAIN m_msg2id \cup names
       /\ \A m \in DOMAIN m_msg2id : m_msg2id'[m] = m_msg2id[m]
  BY <1>3 DEF NewMsgIds
<1>11. IsMap(m_broker_client_info', Ids \ {0}, ClientInfo)
  BY <1>1 DEF SharedTyped, BrokerTyped
<1>12. /\ allocs' \in Nat /\ allocs + 1 <= allocs' /\ allocs + 1 <= MaxId /\ NotWrapped
  BY <1>2, <1>4, BrokerAssumption DEF NotWrapped
<1> QED
  BY <1>3, <1>4, <1>5, <1>7, <1>9, <1>10, <1>11, <1>12

(* What a break leaves.                                                    *)
LEMMA Unregistered ==
  ASSUME TypeOK, NEW c \in Conns, handle_broken(c)
  PROVE  /\ session' = [session EXCEPT ![c] = 0]
         /\ SameEntries(m_broker_client_info', Erase(m_broker_client_info, session[c]))
         /\ m_slave_broker_sockets' = Erase(m_slave_broker_sockets, session[c])
         /\ UNCHANGED <<m_msg2id, allocs, m_node_id_index>>
<1> DEFINE slaves == Erase(m_slave_broker_sockets, session[c])
           clients == Erase(m_broker_client_info, session[c])
<1>1. BrokerTyped
  BY TypeParts DEF SharedTyped
<1>2. IsMap(slaves, Ids \ {0}, Conns) /\ IsMap(clients, Ids \ {0}, ClientInfo)
  BY <1>1, EraseTyped DEF BrokerTyped
<1>3. /\ m_slave_broker_sockets' = slaves
      /\ sync_all_register_info(NoConn, 0, m_msg2id, slaves, clients, 0)
      /\ session' = [session EXCEPT ![c] = 0]
      /\ UNCHANGED <<m_msg2id, allocs, m_node_id_index>>
  BY DEF handle_broken
<1> HIDE DEF slaves, clients
<1>4. SameEntries(m_broker_client_info', clients)
  BY <1>1, <1>2, <1>3, SyncTables DEF BrokerTyped
<1> QED
  BY <1>3, <1>4 DEF slaves, clients

LEMMA RegisterKeepsTables ==
  ASSUME TypeOK, Owners, NEW c \in Conns, handle_client_register(c), NotWrapped'
  PROVE  TablesOfOwners'
<1> DEFINE id == allocs + 1
           old == m_broker_client_info
           new == m_broker_client_info'
<1>1. /\ BrokerTyped /\ session \in [Conns -> Ids] /\ allocs \in Nat
      /\ \A i \in DOMAIN old : old[i].sock \in Conns /\ i \in Ids \ {0}
      /\ session[c] = 0
  BY TypeParts, TableSocks, Registers DEF SharedTyped, BrokerTyped
<1>2. /\ session' = [session EXCEPT ![c] = id]
      /\ DOMAIN m_msg2id' = DOMAIN m_msg2id \cup Interfaces[Owner[c]]
      /\ UNCHANGED m_slave_broker_sockets
  BY Registered
<1>3. PICK info : /\ info.sock = c /\ info.service_name = Service[Owner[c]]
                  /\ SameEntries(new, Insert(old, id, info))
  BY Registered
<1>4. /\ DOMAIN new = DOMAIN old \cup {id}
      /\ new[id].sock = c /\ new[id].service_name = Service[Owner[c]]
      /\ \A i \in DOMAIN old : i # id =>
           new[i].sock = old[i].sock /\ new[i].service_name = old[i].service_name
  BY <1>3 DEF SameEntries, Insert
<1> HIDE DEF old, new, id
<1>5. NoSlaves'
  BY <1>2 DEF Owners, TablesOfOwners, NoSlaves
<1>6. Counted' /\ IdsDistinct'
  <2>1. FreshIds
    BY DEF Owners, TablesOfOwners, FreshIds
  <2>2. Head(toBroker[c]).msg_names \in SUBSET Msgs
    BY Registers, SystemAssumption
  <2>3. FreshIds'
    BY <1>1, <2>1, <2>2, ClientRegisterIds
  <2> QED
    BY <2>3 DEF FreshIds
<1>7. EntriesOwned'
  <2>1. \A i \in DOMAIN old : session[old[i].sock] = i
    BY DEF Owners, TablesOfOwners, EntriesOwned, old
  <2>2. \A i \in DOMAIN old : i # id => session'[new[i].sock] = i
    BY <1>1, <1>2, <1>4, <2>1
  <2>3. session'[new[id].sock] = id
    BY <1>1, <1>2, <1>4
  <2>4. \A i \in DOMAIN new : session'[new[i].sock] = i
    BY <1>4, <2>2, <2>3
  <2> QED
    BY <1>5, <2>4 DEF EntriesOwned, new, NoSlaves
<1>8. \A i \in DOMAIN new : EntryOfOwner(i)'
  <2>1. \A i \in DOMAIN old : EntryOfOwner(i)
    BY DEF Owners, TablesOfOwners, old
  <2> QED
    BY <1>2, <1>4, <2>1 DEF EntryOfOwner, old, new
<1> QED
  BY <1>5, <1>6, <1>7, <1>8 DEF TablesOfOwners, new

LEMMA BreakKeepsTables ==
  ASSUME TypeOK, Owners, NEW c \in Conns, handle_broken(c)
  PROVE  TablesOfOwners'
<1> DEFINE old == m_broker_client_info
           new == m_broker_client_info'
<1>1. /\ BrokerTyped /\ session \in [Conns -> Ids] /\ allocs \in Nat
      /\ \A i \in DOMAIN old : old[i].sock \in Conns /\ i \in Ids \ {0}
  BY TypeParts, TableSocks DEF SharedTyped, BrokerTyped
<1>2. /\ session' = [session EXCEPT ![c] = 0]
      /\ SameEntries(new, Erase(old, session[c]))
      /\ m_slave_broker_sockets' = Erase(m_slave_broker_sockets, session[c])
      /\ UNCHANGED <<m_msg2id, allocs, m_node_id_index>>
  BY Unregistered
<1>3. /\ DOMAIN new = DOMAIN old \ {session[c]}
      /\ \A i \in DOMAIN new : /\ new[i].sock = old[i].sock
                               /\ new[i].service_name = old[i].service_name
  BY <1>2 DEF SameEntries, Erase
<1> HIDE DEF old, new
<1>4. NoSlaves'
  BY <1>2 DEF Owners, TablesOfOwners, NoSlaves, Erase
<1>5. Counted' /\ IdsDistinct'
  <2>1. Counted /\ IdsDistinct
    BY DEF Owners, TablesOfOwners
  <2>2. \A m \in DOMAIN m_msg2id : m_msg2id[m] # 0
    BY <1>1 DEF BrokerTyped, IsMap
  <2>3. Counted'
    BY <1>1, <1>2, <2>1 DEF Counted
  <2>4. IdsDistinct'
    BY <1>1, <1>2, <2>1, <2>2 DEF IdsDistinct
  <2> QED
    BY <2>3, <2>4
<1>6. EntriesOwned'
  <2>1. \A i \in DOMAIN old : session[old[i].sock] = i
    BY DEF Owners, TablesOfOwners, EntriesOwned, old
  <2>2. \A i \in DOMAIN new : session'[new[i].sock] = i
    BY <1>1, <1>2, <1>3, <2>1
  <2> QED
    BY <1>4, <2>2 DEF EntriesOwned, new, NoSlaves
<1>7. \A i \in DOMAIN new : EntryOfOwner(i)'
  <2>1. \A i \in DOMAIN old : EntryOfOwner(i)
    BY DEF Owners, TablesOfOwners, old
  <2> QED
    BY <1>2, <1>3, <2>1 DEF EntryOfOwner, old, new
<1> QED
  BY <1>4, <1>5, <1>6, <1>7 DEF TablesOfOwners, new

LEMMA TablesKept ==
  ASSUME TypeOK, Owners, [Next]_vars, NotWrapped'
  PROVE  TablesOfOwners'
<1>1. CASE UNCHANGED brokerVars
  BY <1>1 DEF Owners, TablesOfOwners, NoSlaves, Counted, IdsDistinct, EntriesOwned,
     EntryOfOwner, brokerVars
<1> QED
  BY <1>1, TableSteps, RegisterKeepsTables, BreakKeepsTables

(* Sessions change with what the broker takes.                             *)
LEMMA SessionStep ==
  ASSUME TypeOK, Owners, [Next]_vars, NotWrapped', NEW c \in Conns
  PROVE  session'[c] = session[c] \/ session'[c] = 0 \/ Taken(c)
<1>1. QueuesTyped /\ session \in [Conns -> Ids]
  BY TypeParts DEF SharedTyped, BrokerTyped
<1>2. ASSUME NEW d \in Conns, handle_client_register(d)
      PROVE  session'[c] = session[c] \/ Taken(c)
  <2>1. Taken(d)
    BY <1>1, <1>2, ConsumedQueue DEF handle_client_register, Receives
  <2>2. session' = [session EXCEPT ![d] = allocs + 1]
    BY <1>2, Registered
  <2>3. CASE c = d
    BY <2>1, <2>3
  <2>4. CASE c # d
    BY <1>1, <2>2, <2>4
  <2> QED
    BY <2>3, <2>4
<1>3. ASSUME NEW d \in Conns, handle_broken(d)
      PROVE  session'[c] = session[c] \/ session'[c] = 0
  BY <1>1, <1>3, Unregistered
<1> QED
  BY <1>2, <1>3, TableSteps DEF brokerVars

LEMMA OwnersStep ==
  ASSUME TypeOK, Owners, [Next]_vars, NotWrapped'
  PROVE  Owners'
<1> SUFFICES ASSUME NEW c \in Conns PROVE Orderly(c)'
  BY TablesKept DEF Owners
<1> DEFINE m == Registration(c)
           s == toBroker[c]
           t == toBroker'[c]
<1>1. /\ Regular(s, m)
      /\ session[c] # 0 => AllRoutes(s)
      /\ link[c] = "unused" => s = <<>> /\ session[c] = 0
  BY DEF Owners, Orderly
<1>2. /\ OneQueueStep(c) /\ LinkStep
      /\ session'[c] = session[c] \/ session'[c] = 0 \/ Taken(c)
  BY StepQueue, StepLinks, SessionStep DEF QueueStep
<1>3. IsQueue(s)
  BY <1>1 DEF Regular
<1>4. CASE t = s /\ ~Taken(c)
  BY <1>1, <1>2, <1>4 DEF Orderly, LinkStep, Registration
<1>5. CASE Taken(c)
  <2>1. Regular(t, m) /\ AllRoutes(t) /\ s # <<>>
    BY <1>1, <1>5, RegularQueues DEF Taken
  <2>2. link'[c] # "unused"
    BY <1>1, <1>2, <2>1 DEF LinkStep
  <2> QED
    BY <2>1, <2>2 DEF Orderly, Registration
<1>6. link[c] = "open" => link'[c] # "unused"
  BY <1>2 DEF LinkStep
<1>7. ASSUME ~Taken(c), session'[c] # 0
      PROVE  AllRoutes(s) /\ link[c] # "unused"
  BY <1>1, <1>2, <1>7
<1>8. ASSUME ~Taken(c), Cut(c, s)
      PROVE  Orderly(c)'
  <2>1. PICK k \in 0..Len(s) : t = SubSeq(s, 1, k)
    BY <1>8 DEF Cut
  <2>2. Regular(t, m) /\ Items(t) \subseteq Items(s)
    <3> HIDE DEF s, t, m
    <3>1. Regular(SubSeq(s, 1, k), m)
      BY <1>1, RegularQueues
    <3>2. Items(SubSeq(s, 1, k)) \subseteq Items(s)
      BY <1>3, CutQueue
    <3> QED
      BY <2>1, <3>1, <3>2
  <2>3. link'[c] # "unused"
    BY <1>6, <1>8 DEF Cut
  <2> QED
    BY <1>7, <1>8, <2>2, <2>3 DEF Orderly, AllRoutes, Registration
<1>9. ASSUME s # <<>>, Cut(c, Tail(s))
      PROVE  Orderly(c)'
  <2>1. Regular(Tail(s), m) /\ AllRoutes(Tail(s)) /\ IsQueue(Tail(s))
    BY <1>1, <1>9, RegularQueues
  <2>2. PICK k \in 0..Len(Tail(s)) : t = SubSeq(Tail(s), 1, k)
    BY <1>9 DEF Cut
  <2>3. Regular(t, m) /\ AllRoutes(t)
    <3> DEFINE u == Tail(s)
    <3> HIDE DEF s, t, u, m
    <3>1. Regular(SubSeq(u, 1, k), m)
      BY <2>1, RegularQueues DEF u
    <3>2. Items(SubSeq(u, 1, k)) \subseteq Items(u)
      BY <2>1, CutQueue DEF u
    <3> QED
      BY <2>1, <2>2, <3>1, <3>2 DEF AllRoutes, u
  <2>4. link'[c] # "unused"
    BY <1>6, <1>9 DEF Cut
  <2> QED
    BY <2>3, <2>4 DEF Orderly, Registration
<1>10. ASSUME ~Taken(c), RouteAdded(c)
       PROVE  Orderly(c)'
  <2>1. PICK x : IsRoute(x) /\ t = Append(s, x)
    BY <1>10 DEF RouteAdded
  <2>2. Regular(t, m) /\ Items(t) = Items(s) \cup {x}
    <3> HIDE DEF s, t, m
    <3>1. Regular(Append(s, x), m)
      BY <1>1, <2>1, RegularQueues
    <3>2. Items(Append(s, x)) = Items(s) \cup {x}
      BY <1>3, AppendedQueue
    <3> QED
      BY <2>1, <3>1, <3>2
  <2>3. link'[c] # "unused"
    BY <1>6, <1>10 DEF RouteAdded
  <2> QED
    BY <1>7, <1>10, <2>1, <2>2, <2>3 DEF Orderly, AllRoutes, Registration
<1>11. ASSUME ~Taken(c), Connected(c)
       PROVE  Orderly(c)'
  <2>1. t = <<m>> /\ session'[c] = 0
    BY <1>7, <1>11 DEF Connected
  <2>2. Regular(t, m)
    BY <2>1, FirstRegular
  <2>3. link'[c] # "unused"
    BY <1>11 DEF Connected
  <2> QED
    BY <2>1, <2>2, <2>3 DEF Orderly, Registration
<1> QED
  BY <1>2, <1>4, <1>5, <1>8, <1>9, <1>10, <1>11 DEF OneQueueStep

-----------------------------------------------------------------------------
(* Who knows the id d as its own: by a session, in a message or a task, in *)
(* its state, or in the table of its process.                              *)
ToldBy(s, d) == \E m \in Items(s) : IsSync(m) /\ m.node_id = d

TaskTells(t, d) == t.kind = "msg" /\ IsSync(t.msg) /\ t.msg.node_id = d

Holds(n, d) ==
  /\ d # 0
  /\ \/ \E c \in Conns : Owner[c] = n /\ session[c] = d
     \/ \E c \in Conns : Owner[c] = n /\ ToldBy(toNode[c], d)
     \/ \E t \in Items(tq[n]) : TaskTells(t, d)
     \/ m_node_id[n] = d
     \/ d \in DOMAIN m_node_info /\ m_node_info[d].ffrpc = n

(* The id d has been given, and whoever knows it as its own is n.          *)
HeldBy(d, n) == d \in 1..allocs /\ \A p \in Nodes : Holds(p, d) => p = n

HeldOnce == \A n \in Nodes : \A d : Holds(n, d) => HeldBy(d, n)

(* What a step must keep, for no one to learn an id.                       *)
SessionsKept == \A c \in Conns : session'[c] = session[c] \/ session'[c] = 0

SyncsKept(XN) == \A c \in Conns : \A m \in XN[c] : IsSync(m) => m.node_id = 0

TasksKept(XT) ==
  \A n \in Nodes : \A t \in XT[n] : \A d : TaskTells(t, d) => d = 0 \/ Holds(n, d)

IdsKept == \A n \in Nodes : m_node_id'[n] = m_node_id[n] \/ Holds(n, m_node_id'[n])

TableKept ==
  \A n \in Nodes : \A d \in DOMAIN m_node_info' :
    m_node_info'[d].ffrpc = n =>
      (d \in DOMAIN m_node_info /\ m_node_info[d].ffrpc = n) \/ Holds(n, d)

HoldersKept == \A n \in Nodes : \A d : Holds(n, d)' => Holds(n, d)

LEMMA HoldersStay ==
  ASSUME QueuesTyped, NEW XB, NEW XN, NEW XT, Moves(XB, XN, XT),
         SessionsKept, SyncsKept(XN), TasksKept(XT), IdsKept, TableKept
  PROVE  HoldersKept
<1> SUFFICES ASSUME NEW n \in Nodes, NEW d, Holds(n, d)' PROVE Holds(n, d)
  BY DEF HoldersKept
<1>1. d # 0
  BY DEF Holds
<1>2. ASSUME NEW c \in Conns, Owner[c] = n, session'[c] = d
      PROVE  Holds(n, d)
  BY <1>1, <1>2 DEF SessionsKept, Holds
<1>3. ASSUME NEW c \in Conns, Owner[c] = n, ToldBy(toNode'[c], d)
      PROVE  Holds(n, d)
  <2>1. PICK m \in Items(toNode'[c]) : IsSync(m) /\ m.node_id = d
    BY <1>3 DEF ToldBy
  <2>2. m \in Items(toNode[c]) \/ m \in XN[c]
    BY <2>1 DEF Moves, From
  <2>3. m \in Items(toNode[c])
    BY <1>1, <2>1, <2>2 DEF SyncsKept
  <2> QED
    BY <1>1, <1>3, <2>1, <2>3 DEF Holds, ToldBy
<1>4. ASSUME NEW t \in Items(tq'[n]), TaskTells(t, d)
      PROVE  Holds(n, d)
  <2>1. t \in Items(tq[n]) \/ t \in XT[n]
    BY DEF Moves, From
  <2>2. CASE t \in Items(tq[n])
    BY <1>1, <1>4, <2>2 DEF Holds
  <2>3. CASE t \in XT[n]
    BY <1>1, <1>4, <2>3 DEF TasksKept
  <2> QED
    BY <2>1, <2>2, <2>3
<1>5. ASSUME m_node_id'[n] = d
      PROVE  Holds(n, d)
  BY <1>1, <1>5 DEF IdsKept, Holds
<1>6. ASSUME d \in DOMAIN m_node_info', m_node_info'[d].ffrpc = n
      PROVE  Holds(n, d)
  BY <1>1, <1>6 DEF TableKept, Holds
<1>7. \/ \E c \in Conns : Owner[c] = n /\ session'[c] = d
      \/ \E c \in Conns : Owner[c] = n /\ ToldBy(toNode'[c], d)
      \/ \E t \in Items(tq'[n]) : TaskTells(t, d)
      \/ m_node_id'[n] = d
      \/ d \in DOMAIN m_node_info' /\ m_node_info'[d].ffrpc = n
  BY DEF Holds, ToldBy, TaskTells, IsSync
<1> QED
  BY <1>2, <1>3, <1>4, <1>5, <1>6, <1>7

LEMMA NothingTold ==
  /\ UNCHANGED session => SessionsKept
  /\ UNCHANGED m_node_id => IdsKept
  /\ UNCHANGED m_node_info => TableKept
  /\ SyncsKept(Nowhere) /\ TasksKept(NoTask)
BY DEF SessionsKept, IdsKept, TableKept, SyncsKept, TasksKept, Nowhere, NoTask

LEMMA LookupTellsNone ==
  ASSUME TypedTable, NEW id \in Ids, m_node_info' = Looked(id)
  PROVE  TableKept
<1>1. /\ DOMAIN m_node_info' = DOMAIN m_node_info \cup {id}
      /\ \A i \in DOMAIN m_node_info : m_node_info'[i] = m_node_info[i]
      /\ id \notin DOMAIN m_node_info => m_node_info'[id].ffrpc \notin Nodes
  BY LookedTyped, SystemAssumption DEF LocalNode
<1> QED
  BY <1>1 DEF TableKept

LEMMA OtherTask ==
  ASSUME NEW n \in Nodes, NEW t, t.kind # "msg"
  PROVE  TasksKept(AsTask(n, t))
BY DEF TasksKept, AsTask, TaskTells

-----------------------------------------------------------------------------
LEMMA BrokerHolders ==
  ASSUME TypeOK, Owners, NEW c \in Conns, BrokerStep(c), UNCHANGED nodeVars,
         ~handle_client_register(c)
  PROVE  HoldersKept
<1>1. QueuesTyped /\ TypedTable /\ UNCHANGED m_node_id /\ session \in [Conns -> Ids]
  BY TypeParts DEF SharedTyped, nodeVars, BrokerTyped
<1>2. ASSUME reject_client_register(c) \/ handle_broken_unknown(c) PROVE HoldersKept
  <2>1. Moves(Nowhere, Nowhere, NoTask)
    BY <1>1, <1>2, RejectMoves, BrokenMoves
  <2>2. UNCHANGED <<session, m_node_info>>
    BY <1>2 DEF reject_client_register, handle_broken_unknown, brokerVars, routeVars
  <2> QED
    BY <1>1, <2>1, <2>2, NothingTold, HoldersStay
<1>3. ASSUME handle_route_msg(c) PROVE HoldersKept
  <2>1. Moves(Nowhere, RoutedTo(c), TriggeredAt(c))
    BY <1>1, <1>3, RouteMoves
  <2>2. UNCHANGED session
    BY <1>3 DEF handle_route_msg, brokerVars
  <2>3. RouteOf(c) \in Routes
    BY <1>1, <1>3, FirstToBroker DEF handle_route_msg, Receives, TypedToBroker, RouteOf
  <2>4. m_node_info' = Looked(RouteOf(c).dest_node_id) /\ RouteOf(c).dest_node_id \in Ids
    BY <1>3, <2>3 DEF handle_route_msg, broker_route_to_client, RouteOf, Routes
  <2>5. SyncsKept(RoutedTo(c))
    BY DEF SyncsKept, RoutedTo, ToClient, IsSync
  <2>6. TasksKept(TriggeredAt(c))
    BY DEF TasksKept, TriggeredAt, TaskTells
  <2> QED
    BY <1>1, <2>1, <2>2, <2>4, <2>5, <2>6, NothingTold, LookupTellsNone, HoldersStay
<1>4. ASSUME handle_broken(c) PROVE HoldersKept
  <2> DEFINE X == Syncs(0, m_msg2id, DOMAIN m_slave_broker_sockets', m_broker_client_info')
  <2>1. Moves(Nowhere, X, NoTask)
    BY <1>1, <1>4, BrokenMoves
  <2>2. SyncsKept(X)
    BY SyncDataHas DEF SyncsKept, Syncs
  <2>3. SessionsKept
    BY <1>1, <1>4, Unregistered DEF SessionsKept
  <2>4. UNCHANGED m_node_info
    BY <1>4 DEF handle_broken, routeVars
  <2> HIDE DEF X
  <2> QED
    BY <1>1, <2>1, <2>2, <2>3, <2>4, NothingTold, HoldersStay
<1> QED
  BY <1>1, <1>2, <1>3, <1>4, NoSlaveMessages DEF BrokerStep

(* Only the connection that registers is told the new id.                  *)
LEMMA RegisterTells ==
  ASSUME TypeOK, Owners, NEW c \in Conns, handle_client_register(c), NotWrapped',
         NEW d \in Conns
  PROVE  \/ toNode'[d] = toNode[d]
         \/ \E x : /\ x = 0 \/ (x = allocs + 1 /\ d = c)
                   /\ toNode'[d] = Append(toNode[d],
                        SyncData(x, m_msg2id', DOMAIN m_slave_broker_sockets,
                                 m_broker_client_info'))
<1> DEFINE slaves == m_slave_broker_sockets
           new == m_broker_client_info'
           id == alloc_id(1)
           old == m_broker_client_info
<1>1. BrokerTyped /\ Counted /\ EntriesOwned /\ session[c] = 0
  BY TypeParts, Registers DEF SharedTyped, Owners, TablesOfOwners
<1>2. id = allocs + 1 /\ allocs + 1 <= MaxId
  BY Registered
<1>3. PICK info : info.sock = c /\ SameEntries(new, Insert(old, id, info))
  BY <1>2, Registered
<1>4. \E clients, k : sync_all_register_info(c, id, m_msg2id', slaves, clients, k)
  BY DEF handle_client_register
<1>5. PICK clients, k : sync_all_register_info(c, id, m_msg2id', slaves, clients, k)
  BY <1>4
<1>6. ASSUME NEW e \in Entries(slaves, new), EntrySock(slaves, new, e) = d,
             toNode'[d] = Append(toNode[d],
               SyncData(NodeIdAt(e, c, id, slaves, new), m_msg2id', DOMAIN slaves, new))
      PROVE  \E x : /\ x = 0 \/ (x = allocs + 1 /\ d = c)
                    /\ toNode'[d] = Append(toNode[d],
                         SyncData(x, m_msg2id', DOMAIN slaves, new))
  <2>1. \/ NodeIdAt(e, c, id, slaves, new) = 0
        \/ NodeIdAt(e, c, id, slaves, new) = id /\ EntrySock(slaves, new, e) = c
    BY <1>1, <1>2, <1>3, OnlyNewTold
  <2> WITNESS NodeIdAt(e, c, id, slaves, new)
  <2> QED
    BY <1>2, <1>6, <2>1
<1>7. \/ toNode'[d] = toNode[d]
      \/ \E e \in Entries(slaves, new) :
           /\ EntrySock(slaves, new, e) = d
           /\ toNode'[d] = Append(toNode[d],
                SyncData(NodeIdAt(e, c, id, slaves, new), m_msg2id', DOMAIN slaves, new))
  BY <1>5, SyncSends
<1> QED
  BY <1>6, <1>7

LEMMA RegisterHolders ==
  ASSUME TypeOK, Owners, NEW c \in Conns, handle_client_register(c), NotWrapped',
         UNCHANGED nodeVars, NEW n \in Nodes, NEW d, Holds(n, d)'
  PROVE  Holds(n, d) \/ (n = Owner[c] /\ d = allocs + 1)
<1>1. /\ QueuesTyped /\ session \in [Conns -> Ids] /\ d # 0
      /\ UNCHANGED <<m_node_id, m_node_info, tq>>
  BY TypeParts
  DEF SharedTyped, BrokerTyped, nodeVars, handle_client_register, routeVars, Holds
<1>2. ASSUME NEW e \in Conns, Owner[e] = n, session'[e] = d
      PROVE  Holds(n, d) \/ (n = Owner[c] /\ d = allocs + 1)
  <2>1. session' = [session EXCEPT ![c] = allocs + 1]
    BY Registered
  <2>2. CASE e = c
    BY <1>1, <1>2, <2>1, <2>2
  <2>3. CASE e # c
    BY <1>1, <1>2, <2>1, <2>3 DEF Holds
  <2> QED
    BY <2>2, <2>3
<1>3. ASSUME NEW e \in Conns, Owner[e] = n, ToldBy(toNode'[e], d)
      PROVE  Holds(n, d) \/ (n = Owner[c] /\ d = allocs + 1)
  <2>1. PICK m \in Items(toNode'[e]) : IsSync(m) /\ m.node_id = d
    BY <1>3 DEF ToldBy
  <2>2. CASE m \in Items(toNode[e])
    BY <1>1, <1>3, <2>1, <2>2 DEF Holds, ToldBy
  <2>3. CASE m \notin Items(toNode[e])
    <3>1. PICK x : /\ x = 0 \/ (x = allocs + 1 /\ e = c)
                   /\ toNode'[e] = Append(toNode[e],
                        SyncData(x, m_msg2id', DOMAIN m_slave_broker_sockets,
                                 m_broker_client_info'))
      BY <2>1, <2>3, RegisterTells
    <3> DEFINE new == SyncData(x, m_msg2id', DOMAIN m_slave_broker_sockets,
                               m_broker_client_info')
    <3>2. new.node_id = x
      BY SyncDataHas
    <3> HIDE DEF new
    <3>3. Items(toNode'[e]) = Items(toNode[e]) \cup {new}
      BY <1>1, <3>1, QueuesAre, AppendedQueue DEF new
    <3>4. d = x
      BY <2>1, <2>3, <3>2, <3>3
    <3> QED
      BY <1>1, <1>3, <3>1, <3>4
  <2> QED
    BY <2>2, <2>3
<1>4. \/ \E e \in Conns : Owner[e] = n /\ session'[e] = d
      \/ \E e \in Conns : Owner[e] = n /\ ToldBy(toNode'[e], d)
      \/ \E t \in Items(tq'[n]) : TaskTells(t, d)
      \/ m_node_id'[n] = d
      \/ d \in DOMAIN m_node_info' /\ m_node_info'[d].ffrpc = n
  BY DEF Holds, ToldBy, TaskTells, IsSync
<1> QED
  BY <1>1, <1>2, <1>3, <1>4 DEF Holds

-----------------------------------------------------------------------------
(* A node's own steps tell no one an id.                                   *)
LEMMA NetworkHolders ==
  ASSUME TypeOK, NEW c \in Conns, NetworkThread(c) \/ Breaks(c)
  PROVE  HoldersKept
<1>1. QueuesTyped /\ Owner[c] \in Nodes
  BY TypeParts, SystemAssumption DEF SharedTyped
<1>2. UNCHANGED <<m_node_id, m_node_info, session>>
  BY DEF NetworkThread, Breaks, handle_msg, handle_broken_on_node, nodeVars, brokerVars,
     routeVars
<1>3. ASSUME handle_msg(c) PROVE HoldersKept
  <2> DEFINE t == [kind |-> "msg", msg |-> Head(toNode[c])]
  <2>1. Moves(Nowhere, Nowhere, AsTask(Owner[c], t))
    BY <1>1, <1>3, HandleMsgMoves
  <2>2. Head(toNode[c]) \in Items(toNode[c])
    BY <1>1, <1>3, QueuesAre, TakenQueue DEF handle_msg
  <2>3. TasksKept(AsTask(Owner[c], t))
    BY <2>2 DEF TasksKept, AsTask, TaskTells, Holds, ToldBy
  <2> HIDE DEF t
  <2> QED
    BY <1>1, <1>2, <2>1, <2>3, NothingTold, HoldersStay
<1>4. ASSUME handle_broken_on_node(c) PROVE HoldersKept
  <2>1. Moves(Nowhere, Nowhere, AsTask(Owner[c], BrokenTask(c)))
    BY <1>1, <1>4, ProducerMoves
  <2>2. TasksKept(AsTask(Owner[c], BrokenTask(c)))
    BY <1>1, OtherTask DEF BrokenTask
  <2> QED
    BY <1>1, <1>2, <2>1, <2>2, NothingTold, HoldersStay
<1>5. ASSUME Breaks(c) PROVE HoldersKept
  BY <1>1, <1>2, <1>5, BreaksMoves, NothingTold, HoldersStay
<1> QED
  BY <1>3, <1>4, <1>5 DEF NetworkThread

LEMMA ProducerHolders ==
  ASSUME TypeOK
  PROVE  /\ \A n \in Nodes : Timer(n) \/ OpenStarts(n) \/ OpenReturns(n) => HoldersKept
         /\ \A k \in Calls : Application(k) => HoldersKept
<1>1. QueuesTyped /\ \A k \in Calls : Caller[k] \in Nodes
  BY TypeParts, SystemAssumption DEF SharedTyped
<1>2. ASSUME NEW n \in Nodes, Timer(n) PROVE HoldersKept
  <2>1. Moves(Nowhere, Nowhere, AsTask(n, [kind |-> "reconnect"]))
    BY <1>1, <1>2, ProducerMoves DEF Timer
  <2>2. TasksKept(AsTask(n, [kind |-> "reconnect"]))
    BY OtherTask
  <2>3. UNCHANGED <<m_node_id, m_node_info, session>>
    BY <1>2 DEF Timer, route_call_reconnect, brokerVars
  <2> QED
    BY <1>1, <2>1, <2>2, <2>3, NothingTold, HoldersStay
<1>3. ASSUME NEW n \in Nodes, OpenStarts(n) PROVE HoldersKept
  <2>1. Moves(Registering(n), Nowhere, NoTask)
    BY <1>1, <1>3, OpenMoves DEF OpenStarts
  <2>2. UNCHANGED <<m_node_id, m_node_info, session>>
    BY <1>3 DEF OpenStarts, open, brokerVars, routeVars
  <2> QED
    BY <1>1, <2>1, <2>2, NothingTold, HoldersStay
<1>4. ASSUME NEW n \in Nodes, OpenReturns(n) PROVE HoldersKept
  <2>1. Moves(Nowhere, Nowhere, NoTask)
    BY <1>1, <1>4, ProducerMoves DEF OpenReturns
  <2>2. UNCHANGED <<m_node_id, session>>
    BY <1>4 DEF OpenReturns, open_returns, brokerVars
  <2>3. TableKept
    <3>1. CASE UNCHANGED m_node_info
      BY <3>1, NothingTold
    <3>2. CASE m_node_id[n] # 0 /\ add_node(m_node_id[n], n)
      <4> DEFINE id == m_node_id[n]
      <4>1. /\ DOMAIN m_node_info' = DOMAIN m_node_info \cup {id}
            /\ \A i \in DOMAIN m_node_info : i # id => m_node_info'[i] = m_node_info[i]
        BY <3>2 DEF add_node, Insert
      <4>2. m_node_info'[id].ffrpc = n
        <5>1. id \in Ids /\ TypedTable
          BY TypeParts, NodeMaps DEF SharedTyped
        <5>2. Looked(id)[id] \in [ffrpc : Nodes \cup {NoNode}, ffbroker : BOOLEAN]
          BY <5>1, LookedTyped DEF IsMap
        <5>3. m_node_info'[id] = [Looked(id)[id] EXCEPT !.ffrpc = n]
          BY <3>2 DEF add_node, Insert
        <5> QED
          BY <5>2, <5>3
      <4>3. Holds(n, id)
        BY <3>2 DEF Holds
      <4> HIDE DEF id
      <4> QED
        BY <4>1, <4>2, <4>3 DEF TableKept
    <3> QED
      BY <1>4, <3>1, <3>2 DEF OpenReturns, open_returns
  <2> QED
    BY <1>1, <2>1, <2>2, <2>3, NothingTold, HoldersStay
<1>5. ASSUME NEW k \in Calls, Application(k) PROVE HoldersKept
  <2>1. Moves(Nowhere, Nowhere, AsTask(Caller[k], [kind |-> "call", call |-> k]))
    BY <1>1, <1>5, ProducerMoves DEF Application
  <2>2. TasksKept(AsTask(Caller[k], [kind |-> "call", call |-> k]))
    BY <1>1, OtherTask
  <2>3. UNCHANGED <<m_node_id, m_node_info, session>>
    BY <1>5 DEF Application, call, brokerVars
  <2> QED
    BY <1>1, <2>1, <2>2, <2>3, NothingTold, HoldersStay
<1> QED
  BY <1>2, <1>3, <1>4, <1>5

LEMMA TaskHolders ==
  ASSUME TypeOK, NEW n \in Nodes, NodeThread(n)
  PROVE  HoldersKept
<1>1. /\ QueuesTyped /\ TypedTable /\ NodesTyped /\ NodeTyped(n)
      /\ m_master_broker_sock[n] \in Conns \cup {NoConn}
      /\ RunTask(n) /\ UNCHANGED session
  BY TypeParts, NodeMaps DEF SharedTyped, NodeThread, brokerVars
<1>2. ASSUME Quiet(n), ~handle_broker_sync_data(n) PROVE HoldersKept
  <2>1. UNCHANGED <<m_node_id, m_node_info>>
    BY <1>2 DEF Quiet, handle_unbound_msg, trigger_callback,
         trigger_callback_throws, trigger_nothing, call_impl_refused,
         handle_broken_impl, nodeVars
  <2> QED
    BY <1>1, <1>2, <2>1, QuietMoves, NothingTold, HoldersStay
<1>3. ASSUME handle_broker_sync_data(n) PROVE HoldersKept
  <2>1. Moves(Nowhere, Nowhere, NoTask)
    BY <1>1, <1>3, QuietMoves DEF Quiet
  <2>2. /\ m_node_id' = [m_node_id EXCEPT ![n] = IF Task(n).msg.node_id # 0
                                                 THEN Task(n).msg.node_id ELSE @]
        /\ UNCHANGED m_node_info
    BY <1>3 DEF handle_broker_sync_data
  <2>3. Task(n) \in Items(tq[n]) /\ Task(n).kind = "msg" /\ IsSync(Task(n).msg)
    BY <1>1, <1>3, QueuesAre, TakenQueue
    DEF handle_broker_sync_data, ReceivesOnNode, Runs, Task, IsSync
  <2>4. IdsKept
    <3>1. Task(n).msg.node_id # 0 => Holds(n, Task(n).msg.node_id)
      BY <2>3 DEF Holds, TaskTells
    <3>2. m_node_id \in [Nodes -> Ids]
      BY <1>1 DEF NodesTyped
    <3> QED
      BY <2>2, <3>1, <3>2 DEF IdsKept
  <2> QED
    BY <1>1, <2>1, <2>2, <2>4, NothingTold, HoldersStay
<1>4. ASSUME trigger_interface(n) PROVE HoldersKept
  <2>1. TasksKept(Responded(n))
    BY DEF TasksKept, Responded, ResponseTask, AsTask, TaskTells
  <2>2. UNCHANGED <<m_node_id, m_node_info>>
    BY <1>4 DEF trigger_interface
  <2> QED
    BY <1>1, <1>4, <2>1, <2>2, TriggerInterfaceMoves, NothingTold, HoldersStay
<1>5. ASSUME NEW dest \in Ids, NEW msg, NEW cb, NEW body,
             send_to_broker_by_nodeid(n, dest, msg, cb, body)
      PROVE  TableKept
  BY <1>1, <1>5, LookupTellsNone, NothingTold DEF send_to_broker_by_nodeid
<1>6. ASSUME call_impl(n) PROVE HoldersKept
  <2>1. m_broker_client_name2nodeid[n][Target[Task(n).call]] \in Ids
    BY <1>1, <1>6 DEF call_impl, NodeTyped, IsMap
  <2>2. TableKept /\ UNCHANGED m_node_id
    BY <1>5, <1>6, <2>1 DEF call_impl
  <2> QED
    BY <1>1, <1>6, <2>2, SendingMoves, NothingTold, HoldersStay
<1>7. ASSUME response(n) PROVE HoldersKept
  <2>1. Task(n).dest \in Ids
    BY <1>1, <1>7, FirstTask DEF response, Runs, TypedTask, Task
  <2>2. TableKept /\ UNCHANGED m_node_id
    BY <1>5, <1>7, <2>1 DEF response, nodeVars
  <2> QED
    BY <1>1, <1>7, <2>2, SendingMoves, NothingTold, HoldersStay
<1>8. ASSUME timer_reconnect_broker(n) \/ crash(n) PROVE HoldersKept
  <2>1. UNCHANGED <<m_node_id, m_node_info>>
    BY <1>8 DEF timer_reconnect_broker, crash, routeVars
  <2> QED
    BY <1>1, <1>8, <2>1, ReconnectMoves, NothingTold, HoldersStay
<1> QED
  BY <1>1, <1>2, <1>3, <1>4, <1>6, <1>7, <1>8 DEF RunTask, Quiet

(* No step tells a node an id but the one that registers it.               *)
OneNewHolder ==
  \E q \in Nodes :
    /\ allocs + 1 <= allocs'
    /\ \A n \in Nodes : \A d :
         Holds(n, d)' => Holds(n, d) \/ (n = q /\ d = allocs + 1)

LEMMA AllocsGrow ==
  ASSUME TypeOK, Owners, [Next]_vars, NotWrapped'
  PROVE  allocs \in Nat /\ allocs' \in Nat /\ allocs <= allocs'
<1>1. allocs \in Nat
  BY TypeParts DEF SharedTyped, BrokerTyped
<1>2. CASE UNCHANGED brokerVars
  BY <1>1, <1>2 DEF brokerVars
<1>3. ASSUME NEW c \in Conns, handle_client_register(c)
      PROVE  allocs' \in Nat /\ allocs <= allocs'
  <2>1. allocs' \in Nat /\ allocs + 1 <= allocs'
    BY <1>3, Registered
  <2> QED
    BY <1>1, <2>1
<1>4. ASSUME NEW c \in Conns, handle_broken(c)
      PROVE  allocs' \in Nat /\ allocs <= allocs'
  BY <1>1, <1>4, Unregistered
<1> QED
  BY <1>1, <1>2, <1>3, <1>4, TableSteps

LEMMA HoldersStep ==
  ASSUME TypeOK, Owners, [Next]_vars, NotWrapped'
  PROVE  HoldersKept \/ OneNewHolder
<1>1. QueuesTyped
  BY TypeParts DEF SharedTyped
<1>2. ASSUME NEW c \in Conns, BrokerStep(c), UNCHANGED nodeVars
      PROVE  HoldersKept \/ OneNewHolder
  <2>1. CASE handle_client_register(c)
    <3>1. Owner[c] \in Nodes /\ allocs + 1 <= allocs'
      BY <2>1, Registered, SystemAssumption
    <3>2. \A n \in Nodes : \A d :
            Holds(n, d)' => Holds(n, d) \/ (n = Owner[c] /\ d = allocs + 1)
      BY <1>2, <2>1, RegisterHolders
    <3> QED
      BY <3>1, <3>2 DEF OneNewHolder
  <2> QED
    BY <1>2, <2>1, BrokerHolders
<1>3. ASSUME UNCHANGED vars PROVE HoldersKept
  <2>1. UNCHANGED <<session, m_node_id, m_node_info, toBroker, toNode, tq>>
    BY <1>3 DEF vars, netVars, routeVars, brokerVars, nodeVars
  <2>2. Moves(Nowhere, Nowhere, NoTask)
    BY <1>1, <2>1, NothingMoves, MovesAre
  <2> QED
    BY <1>1, <2>1, <2>2, NothingTold, HoldersStay
<1>4. CASE BrokerThread
  <2>1. \E c \in Conns : BrokerStep(c) /\ UNCHANGED nodeVars
    BY <1>4 DEF BrokerThread
  <2> QED
    BY <1>2, <2>1
<1>5. ASSUME Next, ~BrokerThread PROVE HoldersKept
  BY <1>5, NetworkHolders, ProducerHolders, TaskHolders DEF Next
<1> QED
  BY <1>3, <1>4, <1>5

(* What was a node's own id stays it.                                      *)
LEMMA HeldStay ==
  ASSUME TypeOK, Owners, HeldOnce, [Next]_vars, NotWrapped',
         NEW d, NEW n \in Nodes, HeldBy(d, n)
  PROVE  HeldBy(d, n)'
<1>1. allocs \in Nat /\ allocs' \in Nat /\ allocs <= allocs'
  BY AllocsGrow
<1>2. d \in 1..allocs' /\ d # allocs + 1
  BY <1>1 DEF HeldBy
<1>3. ASSUME NEW p \in Nodes, Holds(p, d)' PROVE p = n
  <2>1. Holds(p, d)
    BY <1>2, <1>3, HoldersStep DEF HoldersKept, OneNewHolder
  <2> QED
    BY <2>1 DEF HeldBy
<1> QED
  BY <1>2, <1>3 DEF HeldBy

LEMMA HeldOnceStep ==
  ASSUME TypeOK, Owners, HeldOnce, [Next]_vars, NotWrapped'
  PROVE  HeldOnce'
<1> SUFFICES ASSUME NEW n \in Nodes, NEW d, Holds(n, d)' PROVE HeldBy(d, n)'
  BY DEF HeldOnce
<1>1. CASE Holds(n, d)
  BY <1>1, HeldStay DEF HeldOnce
<1>2. CASE ~Holds(n, d)
  <2>1. allocs \in Nat /\ allocs' \in Nat /\ allocs <= allocs'
    BY AllocsGrow
  <2>2. OneNewHolder
    BY <1>2, HoldersStep DEF HoldersKept
  <2>3. PICK q \in Nodes :
          /\ allocs + 1 <= allocs'
          /\ \A p \in Nodes : \A e :
               Holds(p, e)' => Holds(p, e) \/ (p = q /\ e = allocs + 1)
    BY <2>2 DEF OneNewHolder
  <2>4. n = q /\ d = allocs + 1
    BY <1>2, <2>3
  <2>5. d \in 1..allocs' /\ d \notin 1..allocs
    BY <2>1, <2>3, <2>4
  <2>6. \A p \in Nodes : ~Holds(p, d)
    BY <2>5 DEF HeldOnce, HeldBy
  <2>7. \A p \in Nodes : Holds(p, d)' => p = n
    BY <2>3, <2>4, <2>6
  <2> QED
    BY <2>5, <2>7 DEF HeldBy
<1> QED
  BY <1>1, <1>2

-----------------------------------------------------------------------------
(* What is known of a message on its way, and of what a node has learnt.   *)
(* Every node of a service offers the messages that calls ask it for.      *)
AllOffered == \A k \in Calls : \A n \in Nodes :
                Service[n] = Target[k] => Message[k] \in Interfaces[n]

Named(m, i) == m \in DOMAIN m_msg2id /\ m_msg2id[m] = i

Serves(d, s) == \E n \in Nodes : Service[n] = s /\ HeldBy(d, n)

Offers(d, s, ids) ==
  \E n \in Nodes : /\ Service[n] = s /\ HeldBy(d, n)
                   /\ \A m \in Interfaces[n] : m \in DOMAIN ids /\ ids[m] # 0

(* The callback id cb has been given, for k if a callback waits under it.  *)
Waits(n, cb, k) ==
  /\ cb <= m_callback_id[n]
  /\ cb \in DOMAIN m_ffslot_callback[n] => m_ffslot_callback[n][cb] = k

(* A request names its message and a node of its service; an answer carries*)
(* message id 0 and goes back to the caller, under the id it waits for.    *)
GoodRequest(r) ==
  LET k == r.body.call
  IN /\ r.body = Request(k) /\ Named(Message[k], r.msg_id)
     /\ Serves(r.dest_node_id, Target[k])

GoodRoute(r) ==
  LET k == r.body.call
  IN /\ r.msg_id # 0 => GoodRequest(r)
     /\ r.body = Request(k) => HeldBy(r.from_node_id, Caller[k])
     /\ r.body = Request(k) /\ AllOffered => r.msg_id # 0
     /\ r.body = Answer(k) => r.msg_id = 0 /\ HeldBy(r.dest_node_id, Caller[k])
     /\ Waits(Caller[k], r.callback_id, k)

Reached(n, r) ==
  /\ GoodRoute(r)
  /\ r.msg_id # 0 => Service[n] = Target[r.body.call]
  /\ r.body = Answer(r.body.call) => n = Caller[r.body.call]

GoodSync(m) ==
  /\ \A x \in DOMAIN m.msg2id : Named(x, m.msg2id[x])
  /\ \A i \in DOMAIN m.broker_client_info :
       Offers(i, m.broker_client_info[i].service_name, m.msg2id)

GoodToBroker(m) == IsRoute(m) => GoodRoute(m.route)

GoodToNode(n, m) == /\ IsSync(m) => GoodSync(m)
                    /\ ~IsSync(m) => Reached(n, m.route)

GoodResponse(t) == /\ t.body = Answer(t.body.call)
                   /\ HeldBy(t.dest, Caller[t.body.call])
                   /\ Waits(Caller[t.body.call], t.callback_id, t.body.call)

GoodTask(n, t) ==
  /\ t.kind = "msg" => GoodToNode(n, t.msg)
  /\ t.kind = "trigger" => Reached(n, t.route)
  /\ t.kind = "call" => Caller[t.call] = n /\ m_node_id[n] # 0
  /\ t.kind = "response" => GoodResponse(t)

GoodItems ==
  /\ \A c \in Conns : /\ \A m \in Items(toBroker[c]) : GoodToBroker(m)
                      /\ \A m \in Items(toNode[c]) : GoodToNode(Owner[c], m)
  /\ \A n \in Nodes : \A t \in Items(tq[n]) : GoodTask(n, t)

KnowsIds(n) ==
  \A x \in DOMAIN msg2id[n] : msg2id[n][x] = 0 \/ Named(x, msg2id[n][x])

KnowsNodes(n) ==
  \A s \in DOMAIN m_broker_client_name2nodeid[n] :
    Offers(m_broker_client_name2nodeid[n][s], s, msg2id[n])

BindsNamed(n) ==
  \A i \in DOMAIN m_ffslot_interface[n] : Named(m_ffslot_interface[n][i], i)

IdsGiven(n) == \A cb \in DOMAIN m_ffslot_callback[n] : cb <= m_callback_id[n]

OpenHasId(n) == opened[n] = "open" => m_node_id[n] # 0

GoodNode(n) == /\ KnowsIds(n) /\ KnowsNodes(n) /\ BindsNamed(n)
               /\ IdsGiven(n) /\ OpenHasId(n)

GoodNodes == \A n \in Nodes : GoodNode(n)

Good == GoodItems /\ GoodNodes

Routing == Owners /\ HeldOnce /\ Good

-----------------------------------------------------------------------------
(* What no step takes back.                                                *)
NamesStay == \A m, i : Named(m, i) => Named(m, i)'

HolderStays == \A n \in Nodes : \A d : HeldBy(d, n) => HeldBy(d, n)'

WaitsStay == \A n \in Nodes : \A cb \in Nat : \A k : Waits(n, cb, k) => Waits(n, cb, k)'

IdStays == \A n \in Nodes : m_node_id[n] # 0 => m_node_id'[n] # 0

Kept == NamesStay /\ HolderStays /\ WaitsStay /\ IdStays

LEMMA RouteStays ==
  ASSUME Kept, NEW r \in Routes
  PROVE  /\ GoodRoute(r) => GoodRoute(r)'
         /\ \A n \in Nodes : Reached(n, r) => Reached(n, r)'
<1>1. /\ r.body.call \in Calls /\ Caller[r.body.call] \in Nodes
      /\ r.callback_id \in Nat
  BY SystemAssumption DEF Routes, Bodies
<1>2. GoodRequest(r) => GoodRequest(r)'
  BY DEF Kept, NamesStay, HolderStays, GoodRequest, Serves
<1>3. GoodRoute(r) => GoodRoute(r)'
  BY <1>1, <1>2 DEF Kept, HolderStays, WaitsStay, GoodRoute
<1> QED
  BY <1>3 DEF Reached

LEMMA OffersStay ==
  ASSUME Kept, NEW d, NEW s, NEW ids, Offers(d, s, ids)
  PROVE  Offers(d, s, ids)'
BY DEF Kept, HolderStays, Offers

LEMMA SyncStays ==
  ASSUME Kept, NEW m, GoodSync(m)
  PROVE  GoodSync(m)'
<1>1. \A x \in DOMAIN m.msg2id : Named(x, m.msg2id[x])'
  BY DEF Kept, NamesStay, GoodSync
<1>2. \A i \in DOMAIN m.broker_client_info :
        Offers(i, m.broker_client_info[i].service_name, m.msg2id)'
  BY OffersStay DEF GoodSync
<1> QED
  BY <1>1, <1>2 DEF GoodSync

LEMMA MessageStays ==
  ASSUME Kept, NEW m
  PROVE  /\ TypedToBroker(m) /\ GoodToBroker(m) => GoodToBroker(m)'
         /\ \A n \in Nodes : TypedToNode(m) /\ GoodToNode(n, m) => GoodToNode(n, m)'
<1>1. TypedToBroker(m) /\ GoodToBroker(m) => GoodToBroker(m)'
  BY RouteStays DEF TypedToBroker, GoodToBroker, IsRoute
<1>2. ASSUME NEW n \in Nodes, TypedToNode(m), GoodToNode(n, m) PROVE GoodToNode(n, m)'
  <2>1. CASE IsSync(m)
    <3>1. GoodSync(m)'
      BY <1>2, <2>1, SyncStays DEF GoodToNode
    <3> QED
      BY <2>1, <3>1 DEF GoodToNode, IsSync
  <2>2. CASE ~IsSync(m)
    <3>1. m.route \in Routes
      BY <1>2, <2>2 DEF TypedToNode, IsSync
    <3>2. Reached(n, m.route)'
      BY <1>2, <2>2, <3>1, RouteStays DEF GoodToNode
    <3> QED
      BY <2>2, <3>2 DEF GoodToNode, IsSync
  <2> QED
    BY <2>1, <2>2
<1> QED
  BY <1>1, <1>2

LEMMA TaskStays ==
  ASSUME Kept, NEW n \in Nodes, NEW t, TypedTask(t), GoodTask(n, t)
  PROVE  GoodTask(n, t)'
<1>1. t.kind = "msg" => GoodToNode(n, t.msg)'
  BY MessageStays DEF TypedTask, GoodTask
<1>2. t.kind = "trigger" => Reached(n, t.route)'
  BY RouteStays DEF TypedTask, GoodTask
<1>3. t.kind = "call" => Caller[t.call] = n /\ m_node_id'[n] # 0
  BY DEF GoodTask, Kept, IdStays
<1>4. ASSUME t.kind = "response" PROVE GoodResponse(t)'
  <2>1. Caller[t.body.call] \in Nodes /\ t.callback_id \in Nat
    BY <1>4, SystemAssumption DEF TypedTask, Bodies
  <2> QED
    BY <1>4, <2>1 DEF GoodTask, GoodResponse, Kept, HolderStays, WaitsStay
<1> QED
  BY <1>1, <1>2, <1>3, <1>4 DEF GoodTask

(* Good queues with good new messages and tasks stay good.                 *)
LEMMA ItemsStayGood ==
  ASSUME TypeOK, Kept, GoodItems, NEW XB, NEW XN, NEW XT, Moves(XB, XN, XT),
         \A c \in Conns : /\ \A m \in XB[c] : GoodToBroker(m)'
                          /\ \A m \in XN[c] : GoodToNode(Owner[c], m)',
         \A n \in Nodes : \A t \in XT[n] : GoodTask(n, t)'
  PROVE  GoodItems'
<1>1. QueuesTyped /\ \A c \in Conns : Owner[c] \in Nodes
  BY TypeParts, SystemAssumption DEF SharedTyped
<1>2. ASSUME NEW c \in Conns, NEW m \in Items(toBroker'[c]) PROVE GoodToBroker(m)'
  <2>1. m \in Items(toBroker[c]) \/ m \in XB[c]
    BY DEF Moves, From
  <2>2. CASE m \in Items(toBroker[c])
    BY <1>1, <2>2, MessageStays DEF GoodItems, QueuesTyped
  <2> QED
    BY <2>1, <2>2
<1>3. ASSUME NEW c \in Conns, NEW m \in Items(toNode'[c]) PROVE GoodToNode(Owner[c], m)'
  <2>1. m \in Items(toNode[c]) \/ m \in XN[c]
    BY DEF Moves, From
  <2>2. CASE m \in Items(toNode[c])
    BY <1>1, <2>2, MessageStays DEF GoodItems, QueuesTyped
  <2> QED
    BY <2>1, <2>2
<1>4. ASSUME NEW n \in Nodes, NEW t \in Items(tq'[n]) PROVE GoodTask(n, t)'
  <2>1. t \in Items(tq[n]) \/ t \in XT[n]
    BY DEF Moves, From
  <2>2. CASE t \in Items(tq[n])
    BY <1>1, <2>2, TaskStays DEF GoodItems, QueuesTyped
  <2> QED
    BY <2>1, <2>2
<1> QED
  BY <1>2, <1>3, <1>4 DEF GoodItems

(* A node keeps what it has learnt, while its tables stay as they are.     *)
LEMMA KnowledgeStays ==
  ASSUME Kept, NEW n \in Nodes, GoodNode(n)
  PROVE  /\ UNCHANGED msg2id => KnowsIds(n)'
         /\ UNCHANGED <<msg2id, m_broker_client_name2nodeid>> => KnowsNodes(n)'
         /\ UNCHANGED m_ffslot_interface => BindsNamed(n)'
         /\ UNCHANGED <<m_ffslot_callback, m_callback_id>> => IdsGiven(n)'
         /\ UNCHANGED opened => OpenHasId(n)'
<1>1. KnowsIds(n) /\ KnowsNodes(n) /\ BindsNamed(n) /\ IdsGiven(n) /\ OpenHasId(n)
  BY DEF GoodNode
<1>2. UNCHANGED msg2id => KnowsIds(n)'
  BY <1>1 DEF KnowsIds, Named, Kept, NamesStay
<1>3. UNCHANGED <<msg2id, m_broker_client_name2nodeid>> => KnowsNodes(n)'
  BY <1>1, OffersStay DEF KnowsNodes, Offers, Kept, HolderStays
<1>4. UNCHANGED m_ffslot_interface => BindsNamed(n)'
  BY <1>1 DEF BindsNamed, Named, Kept, NamesStay
<1>5. UNCHANGED <<m_ffslot_callback, m_callback_id>> => IdsGiven(n)'
  BY <1>1 DEF IdsGiven
<1>6. UNCHANGED opened => OpenHasId(n)'
  BY <1>1 DEF OpenHasId, Kept, IdStays
<1> QED
  BY <1>2, <1>3, <1>4, <1>5, <1>6

LEMMA NodesStayGood ==
  ASSUME Kept, GoodNodes,
         UNCHANGED <<msg2id, m_broker_client_name2nodeid, m_ffslot_interface,
                     m_ffslot_callback, m_callback_id, opened>>
  PROVE  GoodNodes'
BY KnowledgeStays DEF GoodNodes, GoodNode

-----------------------------------------------------------------------------
(* And no step does take it back.                                          *)
CallbacksStep ==
  \A n \in Nodes :
    /\ m_callback_id[n] <= m_callback_id'[n]
    /\ \A cb \in DOMAIN m_ffslot_callback'[n] :
         \/ /\ cb \in DOMAIN m_ffslot_callback[n]
            /\ m_ffslot_callback'[n][cb] = m_ffslot_callback[n][cb]
         \/ cb = m_callback_id[n] + 1 /\ cb <= m_callback_id'[n]

(* Only a node's own thread changes these.                                 *)
LEMMA OtherThreads ==
  ASSUME [Next]_vars, ~ \E n \in Nodes : NodeThread(n)
  PROVE  UNCHANGED <<m_callback_id, m_ffslot_callback, m_node_id, served, ran>>
BY DEF Next, BrokerThread, Timer, route_call_reconnect, OpenStarts, open,
   OpenReturns, open_returns, NetworkThread, handle_msg, handle_broken_on_node,
   Breaks, Application, call, vars, nodeVars

LEMMA SameCallbacks ==
  ASSUME NodesTyped
  PROVE  UNCHANGED <<m_callback_id, m_ffslot_callback>> => CallbacksStep
BY DEF NodesTyped, CallbacksStep

LEMMA TaskCallbacks ==
  ASSUME NodesTyped, NEW n \in Nodes, RunTask(n)
  PROVE  CallbacksStep
<1>1. /\ m_callback_id \in [Nodes -> Nat] /\ DOMAIN m_ffslot_callback = Nodes
      /\ \A p \in Nodes : m_callback_id[p] \in Nat
  BY DEF NodesTyped
<1>2. CASE trigger_callback(n)
  <2>1. /\ UNCHANGED m_callback_id
        /\ m_ffslot_callback' =
             [m_ffslot_callback EXCEPT ![n] = Del(@, Routed(n).callback_id)]
    BY <1>2 DEF trigger_callback
  <2>2. \A p \in Nodes : p # n => m_ffslot_callback'[p] = m_ffslot_callback[p]
    BY <1>1, <2>1
  <2>3. m_ffslot_callback'[n] = Del(m_ffslot_callback[n], Routed(n).callback_id)
    BY <1>1, <2>1
  <2> QED
    BY <1>1, <2>1, <2>2, <2>3 DEF CallbacksStep, Del
<1>3. CASE handle_broken_impl(n)
  BY <1>1, <1>3 DEF handle_broken_impl, CallbacksStep, Cleared, EmptyMap
<1>4. CASE call_impl(n)
  <2> DEFINE id == m_callback_id[n] + 1
             k == Task(n).call
  <2>1. /\ m_callback_id' = [m_callback_id EXCEPT ![n] = id]
        /\ m_ffslot_callback' = [m_ffslot_callback EXCEPT ![n] = Bound(@, id, k)]
    BY <1>4 DEF call_impl, get_callback_id
  <2>2. \A p \in Nodes : p # n => /\ m_ffslot_callback'[p] = m_ffslot_callback[p]
                                  /\ m_callback_id'[p] = m_callback_id[p]
    BY <1>1, <2>1
  <2>3. /\ m_ffslot_callback'[n] = Bound(m_ffslot_callback[n], id, k)
        /\ m_callback_id'[n] = id
    BY <1>1, <2>1
  <2>4. id <= id /\ m_callback_id[n] <= id /\ \A p \in Nodes : m_callback_id[p] <= m_callback_id[p]
    BY <1>1
  <2>5. \A cb \in DOMAIN Bound(m_ffslot_callback[n], id, k) :
          \/ /\ cb \in DOMAIN m_ffslot_callback[n]
             /\ Bound(m_ffslot_callback[n], id, k)[cb] = m_ffslot_callback[n][cb]
          \/ cb = id
    BY DEF Bound, Insert
  <2> HIDE DEF k
  <2> QED
    BY <2>2, <2>3, <2>4, <2>5 DEF CallbacksStep
<1>5. CASE ~trigger_callback(n) /\ ~handle_broken_impl(n) /\ ~call_impl(n)
  <2>1. UNCHANGED <<m_callback_id, m_ffslot_callback>>
    BY <1>5 DEF RunTask, handle_unbound_msg, handle_broker_sync_data,
       trigger_callback_throws, trigger_interface, trigger_nothing, call_impl_refused,
       response, timer_reconnect_broker, crash, nodeVars
  <2> QED
    BY <2>1, SameCallbacks
<1> QED
  BY <1>2, <1>3, <1>4, <1>5

LEMMA StepCallbacks ==
  ASSUME TypeOK, [Next]_vars
  PROVE  CallbacksStep
<1>1. NodesTyped
  BY TypeParts
<1>2. ASSUME NEW n \in Nodes, NodeThread(n) PROVE CallbacksStep
  BY <1>1, <1>2, TaskCallbacks DEF NodeThread
<1>3. ASSUME ~ \E n \in Nodes : NodeThread(n)
      PROVE  UNCHANGED <<m_callback_id, m_ffslot_callback>>
  BY <1>3, OtherThreads
<1> QED
  BY <1>1, <1>2, <1>3, SameCallbacks

LEMMA StepIds ==
  ASSUME TypeOK, [Next]_vars
  PROVE  IdStays
<1>1. m_node_id \in [Nodes -> Ids]
  BY TypeParts DEF NodesTyped
<1>2. ASSUME NEW n \in Nodes, handle_broker_sync_data(n) PROVE IdStays
  <2>1. m_node_id' = [m_node_id EXCEPT ![n] = IF Task(n).msg.node_id # 0
                                              THEN Task(n).msg.node_id ELSE @]
    BY <1>2 DEF handle_broker_sync_data
  <2> QED
    BY <1>1, <2>1 DEF IdStays
<1>3. ASSUME NEW n \in Nodes, RunTask(n), ~handle_broker_sync_data(n)
      PROVE  UNCHANGED m_node_id
  BY <1>3 DEF RunTask, handle_unbound_msg, trigger_callback, handle_broken_impl,
     trigger_callback_throws, trigger_interface, trigger_nothing, call_impl_refused,
     call_impl, response, timer_reconnect_broker, crash, nodeVars
<1>4. ASSUME ~ \E n \in Nodes : NodeThread(n)
      PROVE  UNCHANGED m_node_id
  BY <1>4, OtherThreads
<1> QED
  BY <1>2, <1>3, <1>4 DEF NodeThread, IdStays

LEMMA KeptStep ==
  ASSUME TypeOK, Owners, HeldOnce, GoodNodes, [Next]_vars, NotWrapped'
  PROVE  Kept /\ \A n \in Nodes : IdsGiven(n)'
<1>1. NamesStay
  <2>1. CASE UNCHANGED brokerVars
    BY <2>1 DEF NamesStay, Named, brokerVars
  <2>2. ASSUME NEW c \in Conns, handle_client_register(c) PROVE NamesStay
    BY <2>2, Registered DEF NamesStay, Named
  <2>3. ASSUME NEW c \in Conns, handle_broken(c) PROVE NamesStay
    BY <2>3, Unregistered DEF NamesStay, Named
  <2> QED
    BY <2>1, <2>2, <2>3, TableSteps
<1>2. HolderStays
  BY HeldStay DEF HolderStays
<1>3. /\ CallbacksStep
      /\ \A n \in Nodes : /\ m_callback_id[n] \in Nat /\ m_callback_id'[n] \in Nat
                          /\ IdsGiven(n)
                          /\ \A cb \in DOMAIN m_ffslot_callback[n] : cb \in Nat
  <2>1. NodesTyped
    BY TypeParts
  <2>2. NodesTyped'
    BY StepTyped, TypeParts
  <2>3. \A n \in Nodes : m_callback_id[n] \in Nat /\ m_callback_id'[n] \in Nat
    BY <2>1, <2>2 DEF NodesTyped
  <2> QED
    BY <2>1, <2>3, NodeMaps, StepCallbacks DEF GoodNodes, GoodNode, NodeTyped, IsMap
<1>4. WaitsStay
  BY <1>3 DEF WaitsStay, Waits, CallbacksStep
<1>5. \A n \in Nodes : IdsGiven(n)'
  BY <1>3 DEF IdsGiven, CallbacksStep
<1> QED
  BY <1>1, <1>2, <1>4, <1>5, StepIds DEF Kept

-----------------------------------------------------------------------------
(* The broker tells what its tables hold, and routes to who holds the id.  *)
OfTables(m) ==
  /\ m.msg2id = m_msg2id /\ DOMAIN m.broker_client_info = DOMAIN m_broker_client_info
  /\ \A i \in DOMAIN m_broker_client_info :
       m.broker_client_info[i].service_name = m_broker_client_info[i].service_name

LEMMA SyncOfTables ==
  ASSUME TypeOK', Owners', HeldOnce', NEW m, OfTables(m)'
  PROVE  GoodSync(m)'
<1>1. BrokerTyped'
  BY TypeParts DEF SharedTyped
<1>2. \A y \in DOMAIN m.msg2id : Named(y, m.msg2id[y])'
  BY DEF Named, OfTables
<1>3. ASSUME NEW i \in DOMAIN m.broker_client_info
      PROVE  Offers(i, m.broker_client_info[i].service_name, m.msg2id)'
  <2>1. i \in DOMAIN m_broker_client_info'
    BY <1>3 DEF OfTables
  <2>2. \E c \in Conns : c = m_broker_client_info'[i].sock
    BY <1>1, <2>1 DEF BrokerTyped, IsMap, ClientInfo
  <2>3. PICK c \in Conns : c = m_broker_client_info'[i].sock
    BY <2>2
  <2>4. Owner[c] \in Nodes /\ i # 0 /\ \A y \in DOMAIN m_msg2id' : m_msg2id'[y] # 0
    BY <1>1, <2>1, SystemAssumption DEF BrokerTyped, IsMap
  <2>5. PICK n \in Nodes : n = Owner[c]
    BY <2>4
  <2>6. /\ session'[c] = i /\ m_broker_client_info'[i].service_name = Service[n]
        /\ Interfaces[n] \subseteq DOMAIN m_msg2id'
    BY <2>1, <2>3, <2>5 DEF Owners, TablesOfOwners, EntriesOwned, EntryOfOwner
  <2>7. Holds(n, i)'
    BY <2>4, <2>5, <2>6 DEF Holds
  <2>8. HeldBy(i, n)'
    BY <2>7 DEF HeldOnce
  <2>9. m.broker_client_info[i].service_name = Service[n] /\ m.msg2id = m_msg2id'
    BY <2>1, <2>6 DEF OfTables
  <2> QED
    BY <2>4, <2>6, <2>8, <2>9 DEF Offers
<1> QED
  BY <1>2, <1>3 DEF GoodSync

LEMMA SyncsGood ==
  ASSUME TypeOK, TypeOK', Owners', HeldOnce', Kept, Good, NEW x, NEW slaves,
         Moves(Nowhere, Syncs(x, m_msg2id', slaves, m_broker_client_info'), NoTask)
  PROVE  GoodItems'
<1> DEFINE X == Syncs(x, m_msg2id', slaves, m_broker_client_info')
<1>1. ASSUME NEW c \in Conns, NEW m \in X[c] PROVE GoodToNode(Owner[c], m)'
  <2>1. PICK y : m = SyncData(y, m_msg2id', slaves, m_broker_client_info')
    BY <1>1 DEF Syncs
  <2>2. m.cmd = "BROKER_SYNC_DATA_MSG"
    BY <2>1, SyncDataHas
  <2>3. OfTables(m)'
    BY <2>1 DEF OfTables, SyncData
  <2>4. GoodSync(m)'
    BY <2>3, SyncOfTables
  <2> QED
    BY <2>2, <2>4 DEF GoodToNode, IsSync
<1> HIDE DEF X
<1> QED
  BY <1>1, ItemsStayGood DEF Good, Nowhere, NoTask, X

(* What the broker routes reaches the node that the id was given to.       *)
LEMMA ReachesHolder ==
  ASSUME NEW r \in Routes, GoodRoute(r), NEW n \in Nodes, Holds(n, r.dest_node_id)
  PROVE  Reached(n, r)
<1>1. r.msg_id # 0 => Service[n] = Target[r.body.call]
  BY DEF GoodRoute, GoodRequest, Serves, HeldBy
<1>2. r.body = Answer(r.body.call) => n = Caller[r.body.call]
  BY DEF GoodRoute, HeldBy
<1> QED
  BY <1>1, <1>2 DEF Reached

(* The routes on their way name an id that is not 0.                       *)
LEMMA GoodDestination ==
  ASSUME TypeOK, NEW r \in Routes, GoodRoute(r), r.dest_node_id = 0
  PROVE  r.msg_id = 0 /\ r.body # Answer(r.body.call)
<1>1. allocs \in Nat
  BY TypeParts DEF SharedTyped, BrokerTyped
<1> QED
  BY <1>1 DEF GoodRoute, GoodRequest, Serves, HeldBy

LEMMA RoutedGood ==
  ASSUME TypeOK, Owners, Good, Kept, NEW c \in Conns, handle_route_msg(c)
  PROVE  GoodItems'
<1> PICK r : r = RouteOf(c)
  OBVIOUS
<1> DEFINE id == r.dest_node_id
<1>1. QueuesTyped /\ BrokerTyped /\ TypedTable
  BY TypeParts DEF SharedTyped
<1>2. r \in Routes
  BY <1>1, FirstToBroker DEF handle_route_msg, Receives, TypedToBroker, RouteOf
<1>3. GoodRoute(r)
  <2>1. /\ toBroker[c] # <<>> /\ Head(toBroker[c]).cmd = "BROKER_ROUTE_MSG"
    BY DEF handle_route_msg, Receives
  <2>2. Head(toBroker[c]) \in Items(toBroker[c])
    BY <1>1, <2>1, QueuesAre, TakenQueue
  <2> QED
    BY <2>1, <2>2 DEF Good, GoodItems, GoodToBroker, IsRoute, RouteOf
<1>4. ASSUME NEW n \in Nodes, id # 0 => Holds(n, id) PROVE Reached(n, r)'
  <2>1. CASE id # 0
    BY <1>2, <1>3, <1>4, <2>1, ReachesHolder, RouteStays
  <2>2. CASE id = 0
    <3>1. Reached(n, r)
      BY <1>2, <1>3, <2>2, GoodDestination DEF Reached
    <3> QED
      BY <1>2, <3>1, RouteStays
  <2> QED
    BY <2>1, <2>2
<1>5. ASSUME NEW d \in Conns, NEW m \in RoutedTo(c)[d] PROVE GoodToNode(Owner[d], m)'
  <2>1. /\ m = ToClient(r) /\ id \in DOMAIN m_broker_client_info
        /\ d = m_broker_client_info[id].sock
    BY <1>5 DEF RoutedTo
  <2>2. session[d] = id
    BY <2>1 DEF Owners, TablesOfOwners, EntriesOwned
  <2>3. id # 0 => Holds(Owner[d], id)
    BY <2>2 DEF Holds
  <2>4. Reached(Owner[d], r)'
    BY <1>4, <2>3, SystemAssumption
  <2>5. m.route = r /\ m.cmd # "BROKER_SYNC_DATA_MSG"
    BY <2>1 DEF ToClient
  <2> QED
    BY <2>4, <2>5 DEF GoodToNode, IsSync
<1>6. ASSUME NEW n \in Nodes, NEW t \in TriggeredAt(c)[n] PROVE GoodTask(n, t)'
  <2>1. n = LocalNode(id) /\ t = [kind |-> "trigger", route |-> r]
    BY <1>6 DEF TriggeredAt
  <2>2. id \in Ids
    BY <1>2 DEF Routes
  <2>3. id \in DOMAIN m_node_info /\ m_node_info[id].ffrpc = n
    BY <1>1, <2>1, <2>2, LookedTyped, SystemAssumption DEF LocalNode, Looked
  <2>4. id # 0 => Holds(n, id)
    BY <2>3 DEF Holds
  <2>5. Reached(n, r)'
    BY <1>4, <2>4
  <2>6. t.kind = "trigger" /\ t.route = r
    BY <2>1
  <2> QED
    BY <2>5, <2>6 DEF GoodTask
<1>7. Moves(Nowhere, RoutedTo(c), TriggeredAt(c))
  BY <1>1, RouteMoves
<1> QED
  BY <1>5, <1>6, <1>7, ItemsStayGood DEF Good, Nowhere

LEMMA BrokerGood ==
  ASSUME TypeOK, Owners, Good, Kept, TypeOK', Owners', HeldOnce',
         NEW c \in Conns, BrokerStep(c), UNCHANGED nodeVars
  PROVE  Good'
<1>1. QueuesTyped
  BY TypeParts DEF SharedTyped
<1>2. GoodNodes'
  BY NodesStayGood DEF nodeVars, Good
<1>3. CASE handle_client_register(c)
  <2>1. Moves(Nowhere, Syncs(alloc_id(1), m_msg2id', DOMAIN m_slave_broker_sockets,
                             m_broker_client_info'), NoTask)
    BY <1>1, <1>3, ClientRegisterMoves
  <2> QED
    BY <1>2, <2>1, SyncsGood DEF Good
<1>4. CASE handle_broken(c)
  <2>1. UNCHANGED m_msg2id
    BY <1>4 DEF handle_broken
  <2>2. Moves(Nowhere, Syncs(0, m_msg2id', DOMAIN m_slave_broker_sockets',
                             m_broker_client_info'), NoTask)
    BY <1>1, <1>4, <2>1, BrokenMoves
  <2> QED
    BY <1>2, <2>2, SyncsGood DEF Good
<1>5. CASE handle_route_msg(c)
  BY <1>2, <1>5, RoutedGood DEF Good
<1>6. CASE reject_client_register(c) \/ handle_broken_unknown(c)
  <2>1. Moves(Nowhere, Nowhere, NoTask)
    BY <1>1, <1>6, RejectMoves, BrokenMoves
  <2>2. GoodItems'
    BY <2>1, ItemsStayGood DEF Good, Nowhere, NoTask
  <2> QED
    BY <1>2, <2>2 DEF Good
<1> QED
  BY <1>1, <1>3, <1>4, <1>5, <1>6, NoSlaveMessages DEF BrokerStep

-----------------------------------------------------------------------------
(* What other threads leave for a node's thread.                           *)
LEMMA OnlyTask ==
  ASSUME TypeOK, Kept, Good, NEW n \in Nodes, NEW t, GoodTask(n, t)',
         Moves(Nowhere, Nowhere, AsTask(n, t))
  PROVE  GoodItems'
BY ItemsStayGood DEF Good, Nowhere, AsTask

LEMMA NothingNewGood ==
  ASSUME TypeOK, Kept, Good, Moves(Nowhere, Nowhere, NoTask)
  PROVE  GoodItems'
BY ItemsStayGood DEF Good, Nowhere, NoTask

LEMMA NetworkGood ==
  ASSUME TypeOK, Good, Kept, NEW c \in Conns, NetworkThread(c) \/ Breaks(c)
  PROVE  Good'
<1>1. QueuesTyped /\ Owner[c] \in Nodes
  BY TypeParts, SystemAssumption DEF SharedTyped
<1>2. UNCHANGED nodeVars
  BY DEF NetworkThread, Breaks, handle_msg, handle_broken_on_node
<1>3. GoodNodes'
  BY <1>2, NodesStayGood DEF nodeVars, Good
<1>4. ASSUME handle_msg(c) PROVE GoodItems'
  <2>1. PICK m : m = Head(toNode[c])
    OBVIOUS
  <2>2. m \in Items(toNode[c])
    BY <1>1, <1>4, <2>1, QueuesAre, TakenQueue DEF handle_msg
  <2>3. GoodToNode(Owner[c], m)'
    BY <1>1, <2>2, MessageStays DEF Good, GoodItems, QueuesTyped
  <2>4. Moves(Nowhere, Nowhere, AsTask(Owner[c], [kind |-> "msg", msg |-> m]))
    BY <1>1, <1>4, <2>1, HandleMsgMoves
  <2>5. GoodTask(Owner[c], [kind |-> "msg", msg |-> m])'
    BY <2>3 DEF GoodTask
  <2> QED
    BY <1>1, <2>4, <2>5, OnlyTask
<1>5. ASSUME handle_broken_on_node(c) PROVE GoodItems'
  <2>1. Moves(Nowhere, Nowhere, AsTask(Owner[c], BrokenTask(c)))
    BY <1>1, <1>5, ProducerMoves
  <2>2. GoodTask(Owner[c], BrokenTask(c))'
    BY DEF GoodTask, BrokenTask
  <2> QED
    BY <1>1, <2>1, <2>2, OnlyTask
<1>6. ASSUME Breaks(c) PROVE GoodItems'
  BY <1>1, <1>6, BreaksMoves, NothingNewGood
<1> QED
  BY <1>3, <1>4, <1>5, <1>6 DEF NetworkThread, Good

LEMMA ProducerGood ==
  ASSUME TypeOK, Good, Kept
  PROVE  /\ \A n \in Nodes : Timer(n) \/ OpenStarts(n) \/ OpenReturns(n) => Good'
         /\ \A k \in Calls : Application(k) => Good'
<1>1. /\ QueuesTyped /\ \A k \in Calls : Caller[k] \in Nodes
      /\ DOMAIN opened = Nodes /\ DOMAIN m_node_id = Nodes
  BY TypeParts, SystemAssumption DEF SharedTyped, NodesTyped
<1>2. ASSUME NEW n \in Nodes, Timer(n) PROVE Good'
  <2>1. Moves(Nowhere, Nowhere, AsTask(n, [kind |-> "reconnect"]))
    BY <1>1, <1>2, ProducerMoves DEF Timer
  <2>2. GoodTask(n, [kind |-> "reconnect"])'
    BY DEF GoodTask
  <2>3. GoodItems'
    BY <2>1, <2>2, OnlyTask
  <2>4. GoodNodes'
    BY <1>2, NodesStayGood DEF Timer, route_call_reconnect, Good
  <2> QED
    BY <2>3, <2>4 DEF Good
<1>3. ASSUME NEW n \in Nodes, OpenStarts(n) PROVE Good'
  <2>1. Moves(Registering(n), Nowhere, NoTask)
    BY <1>1, <1>3, OpenMoves DEF OpenStarts
  <2>2. GoodItems'
    BY <2>1, ItemsStayGood
    DEF Good, Nowhere, NoTask, Registering, RegisterClient, GoodToBroker, IsRoute
  <2>3. /\ UNCHANGED <<msg2id, m_broker_client_name2nodeid, m_ffslot_interface,
                       m_ffslot_callback, m_callback_id, m_node_id>>
        /\ \/ opened' = [opened EXCEPT ![n] = "waiting"]
           \/ opened' = [opened EXCEPT ![n] = "failed"]
    BY <1>3 DEF OpenStarts, open
  <2>4. \A p \in Nodes : opened'[p] = "open" => opened[p] = "open"
    BY <1>1, <2>3
  <2>5. \A p \in Nodes : GoodNode(p)'
    BY <2>3, <2>4, KnowledgeStays DEF Good, GoodNodes, GoodNode, OpenHasId
  <2> QED
    BY <2>2, <2>5 DEF Good, GoodNodes
<1>4. ASSUME NEW n \in Nodes, OpenReturns(n) PROVE Good'
  <2>1. Moves(Nowhere, Nowhere, NoTask)
    BY <1>1, <1>4, ProducerMoves DEF OpenReturns
  <2>2. GoodItems'
    BY <2>1, NothingNewGood
  <2>3. /\ UNCHANGED <<msg2id, m_broker_client_name2nodeid, m_ffslot_interface,
                       m_ffslot_callback, m_callback_id, m_node_id>>
        /\ \/ m_node_id[n] # 0 /\ opened' = [opened EXCEPT ![n] = "open"]
           \/ opened' = [opened EXCEPT ![n] = "failed"]
    BY <1>4 DEF OpenReturns, open_returns
  <2>4. \A p \in Nodes : opened'[p] = "open" =>
          opened[p] = "open" \/ m_node_id[p] # 0
    BY <1>1, <2>3
  <2>5. \A p \in Nodes : GoodNode(p)'
    BY <2>3, <2>4, KnowledgeStays DEF Good, GoodNodes, GoodNode, OpenHasId
  <2> QED
    BY <2>2, <2>5 DEF Good, GoodNodes
<1>5. ASSUME NEW k \in Calls, Application(k) PROVE Good'
  <2> DEFINE n == Caller[k]
             t == [kind |-> "call", call |-> k]
  <2>1. Moves(Nowhere, Nowhere, AsTask(n, t))
    BY <1>1, <1>5, ProducerMoves DEF Application
  <2>2. UNCHANGED m_node_id /\ opened[n] = "open"
    BY <1>5 DEF Application, call
  <2>3. m_node_id'[n] # 0
    BY <1>1, <2>2 DEF Good, GoodNodes, GoodNode, OpenHasId
  <2>4. GoodTask(n, t)'
    BY <2>3 DEF GoodTask
  <2>5. GoodItems'
    BY <1>1, <2>1, <2>4, OnlyTask
  <2>6. GoodNodes'
    BY <1>5, NodesStayGood DEF Application, call, Good
  <2> QED
    BY <2>5, <2>6 DEF Good
<1> QED
  BY <1>2, <1>3, <1>4, <1>5

-----------------------------------------------------------------------------
(* What a node's thread does.                                              *)
LEMMA RoutedReached ==
  ASSUME TypeOK, Good, NEW n \in Nodes, Triggers(n)
  PROVE  Routed(n) \in Routes /\ Reached(n, Routed(n))
<1>1. QueuesTyped /\ tq[n] # <<>>
  BY TypeParts DEF SharedTyped, Triggers, ReceivesOnNode, Runs
<1>2. Task(n) \in Items(tq[n])
  BY <1>1, QueuesAre, TakenQueue DEF Task
<1>3. GoodTask(n, Task(n))
  BY <1>2 DEF Good, GoodItems
<1>4. CASE Task(n).kind = "trigger"
  BY <1>1, <1>3, <1>4, RoutedTyped DEF GoodTask, Routed
<1>5. CASE Task(n).kind # "trigger"
  <2>1. Task(n).kind = "msg" /\ ~IsSync(Task(n).msg)
    BY <1>5 DEF Triggers, ReceivesOnNode, Runs, Task, IsSync
  <2> QED
    BY <1>1, <1>3, <1>5, <2>1, RoutedTyped DEF GoodTask, GoodToNode, Routed
<1> QED
  BY <1>4, <1>5

LEMMA SyncTakenGood ==
  ASSUME TypeOK, Good, Kept, NEW n \in Nodes, handle_broker_sync_data(n),
         \A p \in Nodes : IdsGiven(p)'
  PROVE  GoodNodes'
<1> PICK m : m = Task(n).msg
  OBVIOUS
<1>1. /\ QueuesTyped /\ NodesTyped /\ NodeTyped(n) /\ tq[n] # <<>>
      /\ DOMAIN msg2id = Nodes /\ DOMAIN m_broker_client_name2nodeid = Nodes
      /\ DOMAIN m_ffslot_interface = Nodes
  BY TypeParts
  DEF SharedTyped, NodesTyped, handle_broker_sync_data, ReceivesOnNode, Runs
<1>2. /\ msg2id' = [msg2id EXCEPT ![n] = m.msg2id]
      /\ m_ffslot_interface' = [m_ffslot_interface EXCEPT ![n] = BoundBy(n, m.msg2id)]
      /\ m_broker_client_name2nodeid' =
           [m_broker_client_name2nodeid EXCEPT ![n] = NameTable(m.broker_client_info)]
      /\ UNCHANGED opened
      /\ Runs(n, "msg") /\ m.cmd = "BROKER_SYNC_DATA_MSG"
  BY DEF handle_broker_sync_data, ReceivesOnNode
<1>3. TypedSync(m) /\ IsMap(m.msg2id, Msgs, Ids) /\ IsMap(m.broker_client_info, Ids, ClientEntry)
  BY <1>1, <1>2, SyncTaskTyped DEF handle_broker_sync_data, TypedSync
<1>4. GoodSync(m)
  <2>1. Task(n) \in Items(tq[n]) /\ Task(n).kind = "msg"
    BY <1>1, <1>2, QueuesAre, TakenQueue DEF Task, Runs
  <2> QED
    BY <1>2, <2>1 DEF Good, GoodItems, GoodTask, GoodToNode, IsSync
<1>5. ASSUME NEW p \in Nodes, p # n PROVE GoodNode(p)'
  <2>1. /\ msg2id'[p] = msg2id[p] /\ m_ffslot_interface'[p] = m_ffslot_interface[p]
        /\ m_broker_client_name2nodeid'[p] = m_broker_client_name2nodeid[p]
    BY <1>1, <1>2, <1>5
  <2>2. GoodNode(p)
    BY DEF Good, GoodNodes
  <2>3. KnowsIds(p)' /\ BindsNamed(p)'
    BY <2>1, <2>2 DEF GoodNode, KnowsIds, BindsNamed, Named, Kept, NamesStay
  <2>4. KnowsNodes(p)'
    BY <2>1, <2>2 DEF GoodNode, KnowsNodes, Offers, Kept, HolderStays
  <2> QED
    BY <1>2, <2>2, <2>3, <2>4, KnowledgeStays DEF GoodNode
<1>6. GoodNode(n)'
  <2>1. /\ msg2id'[n] = m.msg2id /\ m_ffslot_interface'[n] = BoundBy(n, m.msg2id)
        /\ m_broker_client_name2nodeid'[n] = NameTable(m.broker_client_info)
    BY <1>1, <1>2
  <2>2. GoodNode(n)
    BY DEF Good, GoodNodes
  <2>3. \A x \in DOMAIN m.msg2id : Named(x, m.msg2id[x])'
    BY <1>4 DEF GoodSync, Kept, NamesStay
  <2>4. KnowsIds(n)'
    BY <2>1, <2>3 DEF KnowsIds, Named
  <2>5. KnowsNodes(n)'
    <3>1. \A i \in DOMAIN m.broker_client_info :
            Offers(i, m.broker_client_info[i].service_name, m.msg2id)'
      BY <1>4, OffersStay DEF GoodSync
    <3>2. DOMAIN m.broker_client_info \subseteq Ids
      BY <1>3 DEF IsMap
    <3>3. \A s \in DOMAIN NameTable(m.broker_client_info) :
            /\ NameTable(m.broker_client_info)[s] \in DOMAIN m.broker_client_info
            /\ m.broker_client_info[NameTable(m.broker_client_info)[s]].service_name = s
      BY <3>2, NameTableHas
    <3>4. \A s \in DOMAIN NameTable(m.broker_client_info) :
            Offers(NameTable(m.broker_client_info)[s], s, m.msg2id)'
      BY <3>1, <3>3
    <3> QED
      BY <2>1, <3>4 DEF KnowsNodes, Offers
  <2>6. BindsNamed(n)'
    <3> DEFINE own == {x \in DOMAIN m.msg2id \cap Interfaces[n] :
                         m.msg2id[x] \notin DOMAIN m_ffslot_callback[n]}
               new == {m.msg2id[x] : x \in own} \ DOMAIN m_ffslot_interface[n]
               nm(i) == CHOOSE x \in own : m.msg2id[x] = i
    <3>1. BoundBy(n, m.msg2id) =
            [i \in DOMAIN m_ffslot_interface[n] \cup new |->
               IF i \in new THEN nm(i) ELSE m_ffslot_interface[n][i]]
      BY DEF BoundBy
    <3>2. \A i \in new : nm(i) \in own /\ m.msg2id[nm(i)] = i
      OBVIOUS
    <3>3. \A x \in own : x \in DOMAIN m_msg2id' /\ m_msg2id'[x] = m.msg2id[x]
      BY <2>3 DEF Named
    <3>4. \A i \in DOMAIN m_ffslot_interface[n] :
            /\ m_ffslot_interface[n][i] \in DOMAIN m_msg2id'
            /\ m_msg2id'[m_ffslot_interface[n][i]] = i
      BY <2>2 DEF GoodNode, BindsNamed, Named, Kept, NamesStay
    <3> HIDE DEF own, nm, new
    <3>5. \A i \in DOMAIN BoundBy(n, m.msg2id) :
            /\ BoundBy(n, m.msg2id)[i] \in DOMAIN m_msg2id'
            /\ m_msg2id'[BoundBy(n, m.msg2id)[i]] = i
      BY <3>1, <3>2, <3>3, <3>4
    <3> QED
      BY <2>1, <3>5 DEF BindsNamed, Named
  <2> QED
    BY <1>2, <2>2, <2>4, <2>5, <2>6, KnowledgeStays DEF GoodNode
<1> QED
  BY <1>5, <1>6 DEF GoodNodes

LEMMA ClearedGood ==
  ASSUME TypeOK, Good, Kept, NEW n \in Nodes, handle_broken_impl(n),
         \A p \in Nodes : IdsGiven(p)'
  PROVE  GoodNodes'
<1>1. /\ DOMAIN msg2id = Nodes /\ DOMAIN m_broker_client_name2nodeid = Nodes
      /\ DOMAIN m_ffslot_interface = Nodes
  BY TypeParts DEF NodesTyped
<1>2. /\ m_ffslot_interface' = Cleared(m_ffslot_interface, n)
      /\ msg2id' = Cleared(msg2id, n)
      /\ m_broker_client_name2nodeid' = Cleared(m_broker_client_name2nodeid, n)
      /\ UNCHANGED opened
  BY DEF handle_broken_impl
<1>3. ASSUME NEW p \in Nodes
      PROVE  /\ msg2id'[p] = msg2id[p] \/ DOMAIN msg2id'[p] = {}
             /\ m_ffslot_interface'[p] = m_ffslot_interface[p]
                \/ DOMAIN m_ffslot_interface'[p] = {}
             /\ \/ /\ m_broker_client_name2nodeid'[p] = m_broker_client_name2nodeid[p]
                   /\ msg2id'[p] = msg2id[p]
                \/ DOMAIN m_broker_client_name2nodeid'[p] = {}
  BY <1>1, <1>2 DEF Cleared, EmptyMap
<1>4. ASSUME NEW p \in Nodes PROVE GoodNode(p)'
  <2>1. GoodNode(p)
    BY DEF Good, GoodNodes
  <2>2. KnowsIds(p)' /\ BindsNamed(p)'
    BY <1>3, <2>1 DEF GoodNode, KnowsIds, BindsNamed, Named, Kept, NamesStay
  <2>3. KnowsNodes(p)'
    BY <1>3, <2>1 DEF GoodNode, KnowsNodes, Offers, Kept, HolderStays
  <2> QED
    BY <1>2, <2>1, <2>2, <2>3, KnowledgeStays DEF GoodNode
<1> QED
  BY <1>4 DEF GoodNodes

(* A call sends a request to a node of the service, and waits under a new  *)
(* callback id.                                                            *)
LEMMA RequestGood ==
  ASSUME TypeOK, HeldOnce, Good, Kept, NEW n \in Nodes, call_impl(n)
  PROVE  \A c \in Conns : \A m \in Requested(n)[c] : GoodToBroker(m)'
<1> PICK k : k = Task(n).call
  OBVIOUS
<1> PICK dest : dest = m_broker_client_name2nodeid[n][Target[k]]
  OBVIOUS
<1> PICK id : id = IdsAfter(n, Message[k])[Message[k]]
  OBVIOUS
<1> PICK cb : cb = get_callback_id(n)
  OBVIOUS
<1>1. /\ QueuesTyped /\ NodesTyped /\ NodeTyped(n) /\ tq[n] # <<>>
      /\ Task(n).kind = "call" /\ m_callback_id[n] \in Nat
      /\ Target[k] \in DOMAIN m_broker_client_name2nodeid[n]
      /\ \A i \in DOMAIN m_ffslot_callback[n] : i \in Nat /\ i <= m_callback_id[n]
  <2>1. QueuesTyped /\ NodesTyped /\ GoodNode(n)
    BY TypeParts DEF SharedTyped, Good, GoodNodes
  <2>2. NodeTyped(n) /\ m_callback_id[n] \in Nat
    BY <2>1, NodeMaps
  <2> QED
    BY <2>1, <2>2 DEF call_impl, Runs, Task, NodeTyped, IsMap, GoodNode, IdsGiven
<1>2. k \in Calls /\ Caller[k] = n /\ m_node_id[n] # 0
  <2>1. Task(n) \in Items(tq[n])
    BY <1>1, QueuesAre, TakenQueue DEF Task
  <2> QED
    BY <1>1, <2>1, FirstTask DEF Good, GoodItems, GoodTask, TypedTask
<1>3. HeldBy(m_node_id[n], n)
  <2>1. Holds(n, m_node_id[n])
    BY <1>2 DEF Holds
  <2> QED
    BY <2>1 DEF HeldOnce
<1>4. Offers(dest, Target[k], msg2id[n]) /\ KnowsIds(n)
  BY <1>1 DEF Good, GoodNodes, GoodNode, KnowsNodes
<1>5. id # 0 => Named(Message[k], id)
  BY <1>4 DEF IdsAfter, Insert, KnowsIds
<1>6. AllOffered => id # 0
  <2>1. AllOffered => Message[k] \in DOMAIN msg2id[n] /\ msg2id[n][Message[k]] # 0
    BY <1>2, <1>4 DEF Offers, AllOffered
  <2> QED
    BY <2>1 DEF IdsAfter
<1>7. Waits(n, cb, k)'
  <2>1. cb = m_callback_id[n] + 1 /\ cb \notin DOMAIN m_ffslot_callback[n] /\ cb <= cb
    BY <1>1 DEF get_callback_id
  <2>2. /\ m_callback_id' = [m_callback_id EXCEPT ![n] = cb]
        /\ m_ffslot_callback' = [m_ffslot_callback EXCEPT ![n] = Bound(@, cb, k)]
    BY DEF call_impl
  <2>3. m_callback_id'[n] = cb /\ m_ffslot_callback'[n] = Bound(m_ffslot_callback[n], cb, k)
    BY <1>1, <2>2 DEF NodesTyped
  <2>4. Bound(m_ffslot_callback[n], cb, k)[cb] = k
    BY <2>1 DEF Bound, Insert
  <2> QED
    BY <2>1, <2>3, <2>4 DEF Waits
<1>8. ASSUME NEW c \in Conns, NEW m \in Requested(n)[c] PROVE GoodToBroker(m)'
  <2>1. PICK from : from = m_node_id[n]
    OBVIOUS
  <2>2. PICK r : r = Route(from, dest, id, cb, Request(k))
    OBVIOUS
  <2>3. m.route = r
    BY <1>8, <2>1, <2>2 DEF Requested, NodeSent, RouteMsg
  <2>4. /\ r.body = Request(k) /\ r.body.call = k /\ r.from_node_id = from
        /\ r.dest_node_id = dest /\ r.msg_id = id /\ r.callback_id = cb
        /\ r.body # Answer(k)
    BY <2>2 DEF Route, Request, Answer
  <2>5. HeldBy(from, n)'
    BY <1>3, <2>1 DEF Kept, HolderStays
  <2>6. Serves(dest, Target[k])'
    BY <1>4 DEF Offers, Serves, Kept, HolderStays
  <2>7. id # 0 => Named(Message[k], id)'
    BY <1>5 DEF Kept, NamesStay
  <2>8. GoodRoute(r)'
    BY <1>2, <1>6, <1>7, <2>4, <2>5, <2>6, <2>7 DEF GoodRoute, GoodRequest
  <2> QED
    BY <2>3, <2>8 DEF GoodToBroker
<1> QED
  BY <1>8

LEMMA CallerStaysGood ==
  ASSUME TypeOK, Good, Kept, NEW n \in Nodes, call_impl(n),
         \A p \in Nodes : IdsGiven(p)'
  PROVE  GoodNodes'
<1> PICK x : x = Message[Task(n).call]
  OBVIOUS
<1> PICK ids : ids = IdsAfter(n, x)
  OBVIOUS
<1>1. /\ DOMAIN msg2id = Nodes /\ msg2id' = [msg2id EXCEPT ![n] = ids]
      /\ UNCHANGED <<opened, m_ffslot_interface, m_broker_client_name2nodeid>>
  BY TypeParts DEF NodesTyped, call_impl
<1>2. /\ DOMAIN msg2id[n] \subseteq DOMAIN ids
      /\ \A y \in DOMAIN msg2id[n] : ids[y] = msg2id[n][y]
      /\ \A y \in DOMAIN ids : y \in DOMAIN msg2id[n] \/ ids[y] = 0
  BY DEF IdsAfter, Insert
<1>3. ASSUME NEW p \in Nodes PROVE GoodNode(p)'
  <2>1. GoodNode(p)
    BY DEF Good, GoodNodes
  <2>2. \/ msg2id'[p] = msg2id[p]
        \/ /\ \A y \in DOMAIN msg2id[p] : y \in DOMAIN msg2id'[p] /\ msg2id'[p][y] = msg2id[p][y]
           /\ \A y \in DOMAIN msg2id'[p] : y \in DOMAIN msg2id[p] \/ msg2id'[p][y] = 0
    BY <1>1, <1>2
  <2>3. KnowsIds(p)'
    BY <2>1, <2>2 DEF GoodNode, KnowsIds, Named, Kept, NamesStay
  <2>4. KnowsNodes(p)'
    BY <1>1, <2>1, <2>2 DEF GoodNode, KnowsNodes, Offers, Kept, HolderStays
  <2> QED
    BY <1>1, <2>1, <2>3, <2>4, KnowledgeStays DEF GoodNode
<1> QED
  BY <1>3 DEF GoodNodes

(* An interface answers who asked.                                         *)
LEMMA ResponseGood ==
  ASSUME TypeOK, Good, Kept, NEW n \in Nodes, trigger_interface(n)
  PROVE  GoodItems'
<1> PICK r : r = Routed(n)
  OBVIOUS
<1> PICK t : t = ResponseTask(r)
  OBVIOUS
<1> PICK k : k = r.body.call
  OBVIOUS
<1>1. QueuesTyped /\ CallsInterface(n)
  BY TypeParts DEF SharedTyped, trigger_interface
<1>2. r \in Routes /\ Reached(n, r) /\ r.msg_id # 0
  BY <1>1, RoutedReached DEF CallsInterface
<1>3. k \in Calls /\ Caller[k] \in Nodes /\ r.callback_id \in Nat
  BY <1>2, SystemAssumption DEF Routes, Bodies
<1>4. HeldBy(r.from_node_id, Caller[k])' /\ Waits(Caller[k], r.callback_id, k)'
  BY <1>2, <1>3 DEF Reached, GoodRoute, GoodRequest, Kept, HolderStays, WaitsStay
<1>5. /\ t.kind = "response" /\ t.body = Answer(k) /\ t.body.call = k
      /\ t.dest = r.from_node_id /\ t.callback_id = r.callback_id
  BY DEF Answer, ResponseTask
<1>6. GoodTask(n, t)'
  BY <1>4, <1>5 DEF GoodTask, GoodResponse
<1>7. Moves(Nowhere, Nowhere, AsTask(n, t))
  BY <1>1, TriggerInterfaceMoves DEF Responded
<1> QED
  BY <1>6, <1>7, OnlyTask

LEMMA AnswerGood ==
  ASSUME TypeOK, Good, Kept, NEW n \in Nodes, response(n)
  PROVE  \A c \in Conns : \A m \in Answered(n)[c] : GoodToBroker(m)'
<1> PICK t : t = Task(n)
  OBVIOUS
<1> PICK k : k = t.body.call
  OBVIOUS
<1>1. QueuesTyped /\ tq[n] # <<>> /\ t.kind = "response"
  BY TypeParts DEF SharedTyped, response, Runs, Task
<1>2. GoodResponse(t) /\ k \in Calls /\ Caller[k] \in Nodes /\ t.callback_id \in Nat
  <2>1. t \in Items(tq[n]) /\ TypedTask(t)
    BY <1>1, QueuesAre, TakenQueue, FirstTask DEF Task
  <2> QED
    BY <1>1, <2>1, SystemAssumption
    DEF Good, GoodItems, GoodTask, TypedTask, Bodies
<1>3. HeldBy(t.dest, Caller[k])' /\ Waits(Caller[k], t.callback_id, k)'
  BY <1>2 DEF GoodResponse, Kept, HolderStays, WaitsStay
<1>4. ASSUME NEW c \in Conns, NEW m \in Answered(n)[c] PROVE GoodToBroker(m)'
  <2>1. PICK from : from = m_node_id[n]
    OBVIOUS
  <2>2. PICK r : r = Route(from, t.dest, 0, t.callback_id, t.body)
    OBVIOUS
  <2>3. m.route = r
    BY <1>4, <2>1, <2>2 DEF Answered, NodeSent, RouteMsg
  <2>4. /\ r.body = Answer(k) /\ r.body.call = k /\ r.msg_id = 0
        /\ r.dest_node_id = t.dest /\ r.callback_id = t.callback_id
        /\ r.body # Request(k)
    BY <1>2, <2>2 DEF Route, Request, Answer, GoodResponse
  <2>5. GoodRoute(r)'
    BY <1>3, <2>4 DEF GoodRoute
  <2> QED
    BY <2>3, <2>5 DEF GoodToBroker
<1> QED
  BY <1>4

LEMMA TaskGood ==
  ASSUME TypeOK, HeldOnce, Good, Kept, NEW n \in Nodes, NodeThread(n),
         \A p \in Nodes : IdsGiven(p)'
  PROVE  Good'
<1>1. /\ QueuesTyped /\ RunTask(n)
      /\ m_master_broker_sock[n] \in Conns \cup {NoConn}
  BY TypeParts, NodeMaps DEF SharedTyped, NodeThread
<1>2. ASSUME UNCHANGED <<msg2id, m_broker_client_name2nodeid, m_ffslot_interface, opened>>
      PROVE  GoodNodes'
  BY <1>2, KnowledgeStays DEF GoodNodes, GoodNode, Good
<1>3. ASSUME Quiet(n) PROVE Good'
  <2>1. GoodItems'
    BY <1>1, <1>3, QuietMoves, NothingNewGood
  <2>2. CASE handle_broker_sync_data(n)
    BY <2>1, <2>2, SyncTakenGood DEF Good
  <2>3. CASE handle_broken_impl(n)
    BY <2>1, <2>3, ClearedGood DEF Good
  <2>4. CASE ~handle_broker_sync_data(n) /\ ~handle_broken_impl(n)
    <3>1. UNCHANGED <<msg2id, m_broker_client_name2nodeid, m_ffslot_interface, opened>>
      BY <1>3, <2>4 DEF Quiet, handle_unbound_msg, trigger_callback,
         trigger_callback_throws, trigger_nothing, call_impl_refused, nodeVars
    <3> QED
      BY <1>2, <2>1, <3>1 DEF Good
  <2> QED
    BY <2>2, <2>3, <2>4
<1>4. ASSUME trigger_interface(n) PROVE Good'
  BY <1>2, <1>4, ResponseGood DEF Good, trigger_interface
<1>5. ASSUME call_impl(n) PROVE Good'
  <2>1. Moves(Requested(n), Nowhere, NoTask)
    BY <1>1, <1>5, SendingMoves
  <2>2. GoodItems'
    BY <1>5, <2>1, RequestGood, ItemsStayGood DEF Good, Nowhere, NoTask
  <2> QED
    BY <1>5, <2>2, CallerStaysGood DEF Good
<1>6. ASSUME response(n) PROVE Good'
  <2>1. Moves(Answered(n), Nowhere, NoTask)
    BY <1>1, <1>6, SendingMoves
  <2>2. GoodItems'
    BY <1>6, <2>1, AnswerGood, ItemsStayGood DEF Good, Nowhere, NoTask
  <2> QED
    BY <1>2, <1>6, <2>2 DEF Good, response, nodeVars
<1>7. ASSUME timer_reconnect_broker(n) PROVE Good'
  <2>1. Moves(Registering(n), Nowhere, NoTask)
    BY <1>1, <1>7, ReconnectMoves
  <2>2. GoodItems'
    BY <2>1, ItemsStayGood
    DEF Good, Nowhere, NoTask, Registering, RegisterClient, GoodToBroker, IsRoute
  <2> QED
    BY <1>2, <1>7, <2>2 DEF Good, timer_reconnect_broker
<1>8. ASSUME crash(n) PROVE Good'
  <2>1. GoodItems'
    BY <1>1, <1>8, ReconnectMoves, NothingNewGood
  <2> QED
    BY <1>2, <1>8, <2>1 DEF Good, crash
<1> QED
  BY <1>1, <1>3, <1>4, <1>5, <1>6, <1>7, <1>8 DEF RunTask, Quiet

LEMMA RoutingStep ==
  ASSUME TypeOK, Routing, [Next]_vars, NotWrapped'
  PROVE  Routing'
<1>1. /\ Owners /\ HeldOnce /\ Good /\ TypeOK' /\ Owners' /\ HeldOnce' /\ Kept
      /\ \A n \in Nodes : IdsGiven(n)'
  BY StepTyped, OwnersStep, HeldOnceStep, KeptStep DEF Routing, Good
<1>2. ASSUME BrokerThread PROVE Good'
  <2>1. PICK c \in Conns : BrokerStep(c) /\ UNCHANGED nodeVars
    BY <1>2 DEF BrokerThread
  <2> QED
    BY <1>1, <2>1, BrokerGood
<1>3. ASSUME Next, ~BrokerThread PROVE Good'
  BY <1>1, <1>3, NetworkGood, ProducerGood, TaskGood DEF Next
<1>4. ASSUME UNCHANGED vars PROVE Good'
  <2>1. UNCHANGED <<toBroker, toNode, tq>> /\ UNCHANGED nodeVars
    BY <1>4 DEF vars, netVars, routeVars
  <2>2. QueuesTyped
    BY TypeParts DEF SharedTyped
  <2>3. Moves(Nowhere, Nowhere, NoTask)
    BY <2>1, <2>2, NothingMoves, MovesAre
  <2>4. GoodItems'
    BY <1>1, <2>3, NothingNewGood
  <2>5. GoodNodes'
    BY <1>1, <2>1, NodesStayGood DEF nodeVars, Good
  <2> QED
    BY <2>4, <2>5 DEF Good
<1> QED
  BY <1>1, <1>2, <1>3, <1>4 DEF Routing

-----------------------------------------------------------------------------
(* What runs: the interface that was asked for, and the callback of the    *)
(* call that is answered.                                                  *)
LEMMA ServedStays ==
  ASSUME TypeOK, Routing, ServedByTarget, [Next]_vars
  PROVE  ServedByTarget'
<1>1. DOMAIN served = Nodes /\ \A n \in Nodes : served[n] \in Seq(Calls)
  BY TypeParts DEF NodesTyped
<1>2. ASSUME NEW n \in Nodes, trigger_interface(n) PROVE ServedByTarget'
  <2> DEFINE r == Routed(n)
             k == r.body.call
  <2>1. r \in Routes /\ Reached(n, r) /\ r.msg_id # 0 /\ r.msg_id \in DOMAIN m_ffslot_interface[n]
    BY <1>2, RoutedReached DEF Routing, trigger_interface, CallsInterface
  <2>2. k \in Calls /\ Service[n] = Target[k] /\ Named(Message[k], r.msg_id)
    BY <2>1 DEF Routes, Bodies, Reached, GoodRoute, GoodRequest
  <2>3. Message[k] \in Interfaces[n]
    <3> DEFINE x == m_ffslot_interface[n][r.msg_id]
    <3>1. Named(x, r.msg_id)
      BY <2>1 DEF Routing, Good, GoodNodes, GoodNode, BindsNamed
    <3>2. x = Message[k]
      BY <2>2, <3>1 DEF Routing, Owners, TablesOfOwners, IdsDistinct, Named
    <3>3. x \in Interfaces[n]
      BY <2>1, TypeParts, NodeMaps DEF NodeTyped, IsMap
    <3> QED
      BY <3>2, <3>3
  <2>4. served' = [served EXCEPT ![n] = Append(@, k)]
    BY <1>2 DEF trigger_interface, ExeInterface
  <2> HIDE DEF k, r
  <2>5. /\ served'[n] = Append(served[n], k)
        /\ \A p \in Nodes : p # n => served'[p] = served[p]
    BY <1>1, <2>4
  <2>6. ASSUME NEW i \in 1..Len(served'[n])
        PROVE  Service[n] = Target[served'[n][i]] /\ Message[served'[n][i]] \in Interfaces[n]
    <3>1. \/ i \in 1..Len(served[n]) /\ served'[n][i] = served[n][i]
          \/ served'[n][i] = k
      BY <1>1, <2>2, <2>5
    <3> QED
      BY <2>2, <2>3, <3>1 DEF ServedByTarget
  <2> QED
    BY <2>5, <2>6 DEF ServedByTarget
<1>3. ASSUME \A n \in Nodes : ~trigger_interface(n)
      PROVE  UNCHANGED served
  <2>1. ASSUME NEW n \in Nodes, NodeThread(n) PROVE UNCHANGED served
    BY <1>3, <2>1 DEF NodeThread, RunTask, handle_unbound_msg,
       handle_broker_sync_data, trigger_callback, trigger_callback_throws,
       trigger_nothing, call_impl_refused, call_impl, response, handle_broken_impl,
       timer_reconnect_broker, crash, nodeVars
  <2> QED
    BY <2>1, OtherThreads
<1> QED
  BY <1>2, <1>3 DEF ServedByTarget

(* The callback that runs waits for what it runs with.                     *)
LEMMA RunsWithAnswer ==
  ASSUME TypeOK, Routing, AllOffered, NEW n \in Nodes, AnswersCallback(n)
  PROVE  LET k == m_ffslot_callback[n][Routed(n).callback_id]
         IN k \in Calls /\ Routed(n).body = Answer(k)
<1> DEFINE r == Routed(n)
           k == r.body.call
<1>1. /\ r \in Routes /\ Reached(n, r) /\ r.msg_id = 0
      /\ r.callback_id \in DOMAIN m_ffslot_callback[n]
  BY RoutedReached DEF Routing, AnswersCallback
<1>2. k \in Calls /\ (r.body = Request(k) \/ r.body = Answer(k))
  BY <1>1 DEF Routes, Bodies, Request, Answer
<1>3. r.body = Answer(k) /\ n = Caller[k] /\ Waits(n, r.callback_id, k)
  BY <1>1, <1>2 DEF Reached, GoodRoute
<1>4. m_ffslot_callback[n][r.callback_id] = k
  BY <1>1, <1>3 DEF Waits
<1> QED
  BY <1>2, <1>3, <1>4

LEMMA AnswersStay ==
  ASSUME TypeOK, Routing, AllOffered, CallbackGetsAnswer, [Next]_vars
  PROVE  CallbackGetsAnswer'
<1>1. ran \in [Calls -> Seq(Bodies)]
  BY TypeParts DEF NodesTyped
<1>2. ASSUME NEW n \in Nodes, AnswersCallback(n),
             \/ UNCHANGED ran
             \/ Exe(m_ffslot_callback[n][Routed(n).callback_id], Routed(n).body)
      PROVE  CallbackGetsAnswer'
  <2> DEFINE k == m_ffslot_callback[n][Routed(n).callback_id]
  <2>1. k \in Calls /\ Routed(n).body = Answer(k)
    BY <1>2, RunsWithAnswer
  <2>2. UNCHANGED ran \/ ran' = [ran EXCEPT ![k] = Append(@, Answer(k))]
    BY <1>2, <2>1 DEF Exe
  <2>3. Answer(k) \in Bodies
    BY <2>1 DEF Answer, Bodies
  <2> HIDE DEF k
  <2>4. CASE ran' = [ran EXCEPT ![k] = Append(@, Answer(k))]
    <3>1. /\ ran'[k] = Append(ran[k], Answer(k))
          /\ \A l \in Calls : l # k => ran'[l] = ran[l]
      BY <1>1, <2>1, <2>4
    <3>2. ASSUME NEW i \in 1..Len(ran'[k]) PROVE ran'[k][i] = Answer(k)
      <4>1. ran[k] \in Seq(Bodies)
        BY <1>1, <2>1
      <4>2. \/ i \in 1..Len(ran[k]) /\ ran'[k][i] = ran[k][i]
            \/ ran'[k][i] = Answer(k)
        BY <2>3, <3>1, <3>2, <4>1
      <4> QED
        BY <2>1, <4>2 DEF CallbackGetsAnswer
    <3> QED
      BY <3>1, <3>2 DEF CallbackGetsAnswer, Answer
  <2> QED
    BY <2>2, <2>4 DEF CallbackGetsAnswer, Answer
<1>3. ASSUME NEW n \in Nodes, trigger_callback(n) \/ trigger_callback_throws(n)
      PROVE  CallbackGetsAnswer'
  BY <1>2, <1>3 DEF trigger_callback, trigger_callback_throws
<1>4. ASSUME \A n \in Nodes : ~trigger_callback(n) /\ ~trigger_callback_throws(n)
      PROVE  UNCHANGED ran
  <2>1. ASSUME NEW n \in Nodes, NodeThread(n) PROVE UNCHANGED ran
    BY <1>4, <2>1 DEF NodeThread, RunTask, handle_unbound_msg,
       handle_broker_sync_data, trigger_interface,
       trigger_nothing, call_impl_refused, call_impl, response, handle_broken_impl,
       timer_reconnect_broker, crash, nodeVars
  <2> QED
    BY <2>1, OtherThreads
<1> QED
  BY <1>3, <1>4 DEF CallbackGetsAnswer, Answer

-----------------------------------------------------------------------------
(* While alloc_id has not come round, all of this holds.                   *)
RoutingInv ==
  /\ TypeOK
  /\ NotWrapped => /\ Routing /\ ServedByTarget
                   /\ AllOffered => CallbackGetsAnswer

LEMMA NotWrappedBefore ==
  ASSUME TypeOK, [Next]_vars, NotWrapped'
  PROVE  NotWrapped
<1>1. QueuesTyped /\ BrokerTyped /\ allocs \in Nat /\ MaxId \in Nat
  BY TypeParts, BrokerAssumption DEF SharedTyped, BrokerTyped
<1>2. ASSUME NEW c \in Conns, handle_client_register(c) PROVE NotWrapped
  <2> DEFINE names == Head(toBroker[c]).msg_names
             k == 1 + Cardinality(names \ DOMAIN m_msg2id)
  <2>1. names \in SUBSET Msgs
    BY <1>1, <1>2, FirstToBroker DEF handle_client_register, Receives, TypedToBroker
  <2>2. k \in 1..MaxId
    BY <1>1, <2>1, NewIdsTyped DEF BrokerTyped
  <2>3. allocs' = allocs + k
    BY <1>2 DEF handle_client_register, Allocated
  <2> HIDE DEF k
  <2> QED
    BY <1>1, <2>2, <2>3 DEF NotWrapped
<1>3. ASSUME UNCHANGED allocs PROVE NotWrapped
  BY <1>3 DEF NotWrapped
<1> QED
  BY <1>2, <1>3, TableSteps DEF handle_broken, brokerVars

LEMMA RoutingInit == Init => RoutingInv
<1> SUFFICES ASSUME Init PROVE RoutingInv
  OBVIOUS
<1>1. TypeOK
  BY InitTyped
<1>2. /\ \A c \in Conns : /\ toBroker[c] = <<>> /\ toNode[c] = <<>> /\ session[c] = 0
      /\ \A n \in Nodes : /\ tq[n] = <<>> /\ m_node_id[n] = 0 /\ opened[n] = "closed"
                          /\ served[n] = <<>>
      /\ \A k \in Calls : ran[k] = <<>>
  BY DEF Init, NetInit, BrokerInit, RouteInit, NodeInit
<1>3. Owners
  <2>1. TablesOfOwners
    BY DEF Init, BrokerInit, TablesOfOwners, NoSlaves, Counted, IdsDistinct, EntriesOwned
  <2>2. \A c \in Conns : Orderly(c)
    <3> TAKE c \in Conns
    <3>1. Regular(toBroker[c], Registration(c)) /\ AllRoutes(toBroker[c])
      BY <1>2, EmptyQueue DEF Regular, AllRoutes
    <3> QED
      BY <1>2, <3>1 DEF Orderly
  <2> QED
    BY <2>1, <2>2 DEF Owners
<1>4. HeldOnce
  <2>1. \A d \in DOMAIN m_node_info : d = 0
    BY DEF Init, RouteInit, BROKER_MASTER_NODE_ID
  <2>2. \A n \in Nodes : \A d : ~Holds(n, d)
    BY <1>2, <2>1, EmptyQueue DEF Holds, ToldBy
  <2> QED
    BY <2>2 DEF HeldOnce
<1>5. Good
  <2>1. GoodItems
    BY <1>2, EmptyQueue DEF GoodItems
  <2>2. \A n \in Nodes : /\ DOMAIN msg2id[n] = {} /\ DOMAIN m_ffslot_interface[n] = {}
                         /\ DOMAIN m_broker_client_name2nodeid[n] = {}
                         /\ DOMAIN m_ffslot_callback[n] = {}
    BY DEF Init, NodeInit, EmptyMap
  <2>3. GoodNodes
    BY <1>2, <2>2
    DEF GoodNodes, GoodNode, KnowsIds, KnowsNodes, BindsNamed, IdsGiven, OpenHasId
  <2> QED
    BY <2>1, <2>3 DEF Good
<1>6. ServedByTarget /\ CallbackGetsAnswer
  BY <1>2 DEF ServedByTarget, CallbackGetsAnswer
<1> QED
  BY <1>1, <1>3, <1>4, <1>5, <1>6 DEF RoutingInv, Routing

LEMMA RoutingHolds == Spec => []RoutingInv
<1>1. ASSUME RoutingInv, [Next]_vars PROVE RoutingInv'
  <2>1. TypeOK /\ TypeOK'
    BY <1>1, StepTyped DEF RoutingInv
  <2>2. ASSUME NotWrapped'
        PROVE  Routing' /\ ServedByTarget' /\ (AllOffered => CallbackGetsAnswer')
    <3>1. /\ Routing /\ ServedByTarget /\ (AllOffered => CallbackGetsAnswer)
      BY <1>1, <2>1, <2>2, NotWrappedBefore DEF RoutingInv
    <3> QED
      BY <1>1, <2>1, <2>2, <3>1, RoutingStep, ServedStays, AnswersStay
  <2> QED
    BY <2>1, <2>2 DEF RoutingInv, AllOffered
<1> QED
  BY <1>1, RoutingInit, PTL DEF Spec

(* A request is only served by a node of the service it asks for that has  *)
(* an interface for its message, whatever breaks and registers again while *)
(* it travels (ffbroker_t::handle_route_msg, ffrpc_t::trigger_callback),   *)
(* until alloc_id comes round.                                             *)
THEOREM RequestsReachTarget == Spec => [](NotWrapped => ServedByTarget)
<1>1. RoutingInv => (NotWrapped => ServedByTarget)
  BY DEF RoutingInv
<1> QED
  BY <1>1, RoutingHolds, PTL

(* A callback runs with the answer to its own call only, when the nodes of *)
(* each service offer what is asked of it (ffrpc_t::trigger_callback): the *)
(* run for CallbackGetsAnswer shows what happens when they do not.         *)
THEOREM AnswersReachCallback ==
  Spec => [](AllOffered /\ NotWrapped => CallbackGetsAnswer)
<1>1. RoutingInv => (AllOffered /\ NotWrapped => CallbackGetsAnswer)
  BY DEF RoutingInv
<1> QED
  BY <1>1, RoutingHolds, PTL

-----------------------------------------------------------------------------
(* What a node learns from a synchronisation: the table of names, and its  *)
(* id when there is one in the message.  Of each the last word counts.     *)
Aspects == {"names", "id"}

(* A message is in a connection, or in a task.                             *)
MessageIn(q, x) == IF q = "task" THEN x.msg ELSE x

Says(a, q, x) == /\ q = "task" => x.kind = "msg"
                 /\ IsSync(MessageIn(q, x))
                 /\ a = "id" => MessageIn(q, x).node_id # 0

Matches(a, c, q, x) ==
  IF a = "names"
  THEN NameTable(MessageIn(q, x).broker_client_info) = NameTable(m_broker_client_info)
  ELSE MessageIn(q, x).node_id = session[c]

Knows(a, n, c) ==
  IF a = "names" THEN m_broker_client_name2nodeid[n] = NameTable(m_broker_client_info)
  ELSE m_node_id[n] = session[c]

EndsWell(a, c, q, s) ==
  \E i \in 1..Len(s) : /\ Says(a, q, s[i]) /\ Matches(a, c, q, s[i])
                       /\ \A j \in (i + 1)..Len(s) : ~Says(a, q, s[j])

Silent(a, q, s) == \A i \in 1..Len(s) : ~Says(a, q, s[i])

(* The last word is on its way, or waits, or the node has heard it.        *)
Waiting(a, n, c) == \/ EndsWell(a, c, "task", tq[n])
                    \/ Silent(a, "task", tq[n]) /\ Knows(a, n, c)

Arrives(a, n, c) == \/ EndsWell(a, c, "link", toNode[c])
                    \/ Silent(a, "link", toNode[c]) /\ Waiting(a, n, c)

(* What is true of n, which uses c, does not change.                       *)
SameTruth(a, c) ==
  IF a = "names" THEN NameTable(m_broker_client_info') = NameTable(m_broker_client_info)
  ELSE session'[c] = session[c]

LEMMA SaidLast ==
  ASSUME NEW a, NEW c, NEW q, NEW s, IsQueue(s), NEW x, NEW t, t = Append(s, x), Says(a, q, x)
  PROVE  /\ Matches(a, c, q, x) => EndsWell(a, c, q, t)
         /\ Matches(a, c, q, x)' => EndsWell(a, c, q, t)'
<1> DEFINE i == Len(s) + 1
<1>1. Len(t) = i /\ t[i] = x /\ Len(s) \in Nat
  BY AppendedQueue, QueueLength
<1>2. i \in 1..Len(t) /\ (i + 1)..Len(t) = {}
  BY <1>1
<1> HIDE DEF i
<1>3. ASSUME Matches(a, c, q, x) PROVE EndsWell(a, c, q, t)
  BY <1>1, <1>2, <1>3 DEF EndsWell
<1>4. ASSUME Matches(a, c, q, x)' PROVE EndsWell(a, c, q, t)'
  <2>1. Says(a, q, t[i])' /\ Matches(a, c, q, t[i])'
    BY <1>1, <1>4 DEF Says
  <2> QED
    BY <1>2, <2>1 DEF EndsWell
<1> QED
  BY <1>3, <1>4

LEMMA UnsaidLast ==
  ASSUME NEW a, NEW c, NEW q, NEW s, IsQueue(s), NEW x, ~Says(a, q, x)
  PROVE  /\ EndsWell(a, c, q, s) => EndsWell(a, c, q, Append(s, x))
         /\ Silent(a, q, s) => Silent(a, q, Append(s, x))
<1> DEFINE t == Append(s, x)
<1>1. /\ Len(t) = Len(s) + 1 /\ Len(s) \in Nat /\ t[Len(s) + 1] = x
      /\ \A i \in 1..Len(s) : t[i] = s[i]
  BY AppendedQueue, QueueLength
<1> HIDE DEF t
<1>2. ASSUME EndsWell(a, c, q, s) PROVE EndsWell(a, c, q, t)
  <2>1. PICK i \in 1..Len(s) : /\ Says(a, q, s[i]) /\ Matches(a, c, q, s[i])
                               /\ \A j \in (i + 1)..Len(s) : ~Says(a, q, s[j])
    BY <1>2 DEF EndsWell
  <2>2. i \in 1..Len(t) /\ t[i] = s[i]
    BY <1>1
  <2>3. ASSUME NEW j \in (i + 1)..Len(t) PROVE ~Says(a, q, t[j])
    <3>1. j = Len(s) + 1 \/ (j \in (i + 1)..Len(s) /\ j \in 1..Len(s))
      BY <1>1
    <3> QED
      BY <1>1, <2>1, <3>1
  <2> QED
    BY <2>1, <2>2, <2>3 DEF EndsWell
<1>3. ASSUME Silent(a, q, s) PROVE Silent(a, q, t)
  <2> SUFFICES ASSUME NEW i \in 1..Len(t) PROVE ~Says(a, q, t[i])
    BY DEF Silent
  <2>1. i = Len(s) + 1 \/ i \in 1..Len(s)
    BY <1>1
  <2> QED
    BY <1>1, <1>3, <2>1 DEF Silent
<1> QED
  BY <1>2, <1>3 DEF t

LEMMA FirstTaken ==
  ASSUME NEW a, NEW c, NEW q, NEW s, IsQueue(s), s # <<>>
  PROVE  /\ EndsWell(a, c, q, s) =>
              \/ EndsWell(a, c, q, Tail(s))
              \/ /\ Says(a, q, Head(s)) /\ Matches(a, c, q, Head(s))
                 /\ Silent(a, q, Tail(s))
         /\ Silent(a, q, s) => ~Says(a, q, Head(s)) /\ Silent(a, q, Tail(s))
<1> DEFINE t == Tail(s)
<1>1. /\ Head(s) = s[1] /\ Len(s) \in Nat \ {0} /\ Len(t) = Len(s) - 1
      /\ \A i \in 1..Len(t) : t[i] = s[i + 1]
  BY TakenQueue
<1> HIDE DEF t
<1>2. ASSUME EndsWell(a, c, q, s)
      PROVE  \/ EndsWell(a, c, q, t)
             \/ /\ Says(a, q, Head(s)) /\ Matches(a, c, q, Head(s))
                /\ Silent(a, q, t)
  <2>1. PICK i \in 1..Len(s) : /\ Says(a, q, s[i]) /\ Matches(a, c, q, s[i])
                               /\ \A j \in (i + 1)..Len(s) : ~Says(a, q, s[j])
    BY <1>2 DEF EndsWell
  <2>2. \A j \in 1..Len(t) : j >= i => ~Says(a, q, t[j])
    <3> SUFFICES ASSUME NEW j \in 1..Len(t), j >= i PROVE ~Says(a, q, t[j])
      OBVIOUS
    <3>1. j + 1 \in (i + 1)..Len(s)
      BY <1>1
    <3> QED
      BY <1>1, <2>1, <3>1
  <2>3. CASE i = 1
    BY <1>1, <2>1, <2>2, <2>3 DEF Silent
  <2>4. CASE i # 1
    <3> DEFINE k == i - 1
    <3>1. k \in 1..Len(t) /\ t[k] = s[i] /\ \A j \in (k + 1)..Len(t) : j >= i /\ j \in 1..Len(t)
      BY <1>1, <2>4
    <3> HIDE DEF k
    <3> QED
      BY <2>1, <2>2, <3>1 DEF EndsWell
  <2> QED
    BY <2>3, <2>4
<1>3. ASSUME Silent(a, q, s) PROVE ~Says(a, q, Head(s)) /\ Silent(a, q, t)
  <2>1. 1 \in 1..Len(s) /\ \A i \in 1..Len(t) : i + 1 \in 1..Len(s)
    BY <1>1
  <2> QED
    BY <1>1, <1>3, <2>1 DEF Silent
<1> QED
  BY <1>2, <1>3 DEF t

LEMMA SameMatches ==
  ASSUME NEW a, NEW c, SameTruth(a, c)
  PROVE  /\ \A q, s : EndsWell(a, c, q, s) <=> EndsWell(a, c, q, s)'
         /\ \A q, s : Silent(a, q, s) <=> Silent(a, q, s)'
<1>1. \A q, x : /\ Matches(a, c, q, x) <=> Matches(a, c, q, x)'
                /\ Says(a, q, x) <=> Says(a, q, x)'
  BY DEF Matches, SameTruth, MessageIn, Says, IsSync
<1> QED
  BY <1>1 DEF EndsWell, Silent

(* Nothing of what is said is added to a queue.                            *)
NothingSaid(a, q, s, t) == t = s \/ \E x : ~Says(a, q, x) /\ t = Append(s, x)

LEMMA NothingSaidIn ==
  ASSUME NEW a, NEW c, NEW q, NEW s, IsQueue(s), NEW t, NothingSaid(a, q, s, t)
  PROVE  /\ EndsWell(a, c, q, s) => EndsWell(a, c, q, t)
         /\ Silent(a, q, s) => Silent(a, q, t)
BY UnsaidLast DEF NothingSaid

LEMMA ArrivesKept ==
  ASSUME QueuesTyped, NEW a, NEW n \in Nodes, NEW c \in Conns, Arrives(a, n, c),
         SameTruth(a, c),
         NothingSaid(a, "link", toNode[c], toNode'[c]),
         NothingSaid(a, "task", tq[n], tq'[n]),
         Knows(a, n, c) => Knows(a, n, c)'
  PROVE  Arrives(a, n, c)'
<1>1. IsQueue(toNode[c]) /\ IsQueue(tq[n])
  BY QueuesAre
<1>2. PICK s, t : s = toNode'[c] /\ t = tq'[n]
  OBVIOUS
<1>3. /\ EndsWell(a, c, "link", toNode[c]) => EndsWell(a, c, "link", s)
      /\ Silent(a, "link", toNode[c]) => Silent(a, "link", s)
      /\ EndsWell(a, c, "task", tq[n]) => EndsWell(a, c, "task", t)
      /\ Silent(a, "task", tq[n]) => Silent(a, "task", t)
  BY <1>1, <1>2, NothingSaidIn
<1>4. /\ EndsWell(a, c, "link", s) => EndsWell(a, c, "link", s)'
      /\ Silent(a, "link", s) => Silent(a, "link", s)'
      /\ EndsWell(a, c, "task", t) => EndsWell(a, c, "task", t)'
      /\ Silent(a, "task", t) => Silent(a, "task", t)'
  BY SameMatches
<1> QED
  BY <1>2, <1>3, <1>4 DEF Arrives, Waiting

LEMMA ArrivesMoved ==
  ASSUME QueuesTyped, NEW a, NEW n \in Nodes, NEW c \in Conns, Arrives(a, n, c),
         SameTruth(a, c), toNode[c] # <<>>, toNode'[c] = Tail(toNode[c]),
         tq'[n] = Append(tq[n], [kind |-> "msg", msg |-> Head(toNode[c])]),
         Knows(a, n, c) => Knows(a, n, c)'
  PROVE  Arrives(a, n, c)'
<1>1. IsQueue(toNode[c]) /\ IsQueue(tq[n])
  BY QueuesAre
<1>2. PICK s, t, m, x : /\ s = toNode'[c] /\ t = tq'[n] /\ m = Head(toNode[c])
                        /\ x = [kind |-> "msg", msg |-> m]
  OBVIOUS
<1>3. /\ Says(a, "task", x) <=> Says(a, "link", m)
      /\ Matches(a, c, "task", x) <=> Matches(a, c, "link", m)
  BY <1>2 DEF Says, Matches, MessageIn
<1>4. /\ EndsWell(a, c, "link", toNode[c]) =>
           \/ EndsWell(a, c, "link", s)
           \/ /\ Says(a, "link", m) /\ Matches(a, c, "link", m)
              /\ Silent(a, "link", s)
      /\ Silent(a, "link", toNode[c]) => ~Says(a, "link", m) /\ Silent(a, "link", s)
  <2>1. IsQueue(toNode[c]) /\ toNode[c] # <<>> /\ s = Tail(toNode[c]) /\ m = Head(toNode[c])
    BY <1>1, <1>2
  <2> QED
    BY ONLY <2>1, FirstTaken
<1>5. /\ Says(a, "task", x) /\ Matches(a, c, "task", x) => EndsWell(a, c, "task", t)
      /\ ~Says(a, "task", x) /\ EndsWell(a, c, "task", tq[n]) => EndsWell(a, c, "task", t)
      /\ ~Says(a, "task", x) /\ Silent(a, "task", tq[n]) => Silent(a, "task", t)
  BY <1>1, <1>2, SaidLast, UnsaidLast
<1>6. /\ EndsWell(a, c, "link", s) => EndsWell(a, c, "link", s)'
      /\ Silent(a, "link", s) => Silent(a, "link", s)'
      /\ EndsWell(a, c, "task", t) => EndsWell(a, c, "task", t)'
      /\ Silent(a, "task", t) => Silent(a, "task", t)'
  BY SameMatches
<1> QED
  BY <1>2, <1>3, <1>4, <1>5, <1>6 DEF Arrives, Waiting

LEMMA ArrivesDone ==
  ASSUME QueuesTyped, NEW a, NEW n \in Nodes, NEW c \in Conns, Arrives(a, n, c),
         SameTruth(a, c), toNode'[c] = toNode[c], tq[n] # <<>>,
         NothingSaid(a, "task", Tail(tq[n]), tq'[n]),
         Says(a, "task", Task(n)) /\ Matches(a, c, "task", Task(n)) => Knows(a, n, c)',
         ~Says(a, "task", Task(n)) /\ Knows(a, n, c) => Knows(a, n, c)'
  PROVE  Arrives(a, n, c)'
<1>1. IsQueue(tq[n]) /\ IsQueue(Tail(tq[n]))
  BY QueuesAre, TakenQueue
<1>2. PICK s, t, x : s = toNode'[c] /\ t = tq'[n] /\ x = Task(n)
  OBVIOUS
<1>3. /\ EndsWell(a, c, "task", tq[n]) =>
           \/ EndsWell(a, c, "task", Tail(tq[n]))
           \/ /\ Says(a, "task", x) /\ Matches(a, c, "task", x)
              /\ Silent(a, "task", Tail(tq[n]))
      /\ Silent(a, "task", tq[n]) => ~Says(a, "task", x) /\ Silent(a, "task", Tail(tq[n]))
  BY <1>1, <1>2, FirstTaken DEF Task
<1>4. /\ EndsWell(a, c, "task", Tail(tq[n])) => EndsWell(a, c, "task", t)
      /\ Silent(a, "task", Tail(tq[n])) => Silent(a, "task", t)
  BY <1>1, <1>2, NothingSaidIn
<1>5. /\ EndsWell(a, c, "link", s) => EndsWell(a, c, "link", s)'
      /\ Silent(a, "link", s) => Silent(a, "link", s)'
      /\ EndsWell(a, c, "task", t) => EndsWell(a, c, "task", t)'
      /\ Silent(a, "task", t) => Silent(a, "task", t)'
  BY SameMatches
<1> QED
  BY <1>2, <1>3, <1>4, <1>5 DEF Arrives, Waiting

LEMMA ArrivesTold ==
  ASSUME QueuesTyped, NEW a, NEW n \in Nodes, NEW c \in Conns, NEW m,
         toNode'[c] = Append(toNode[c], m), Says(a, "link", m), Matches(a, c, "link", m)'
  PROVE  Arrives(a, n, c)'
<1>1. IsQueue(toNode[c])
  BY QueuesAre
<1>2. PICK s : s = toNode'[c]
  OBVIOUS
<1>3. EndsWell(a, c, "link", s)'
  BY <1>1, <1>2, SaidLast
<1> QED
  BY <1>2, <1>3 DEF Arrives

-----------------------------------------------------------------------------
(* Up, while a node is registered by the connection it uses and has no     *)
(* other, the news of its synchronisations arrives.                        *)
Others(n, c) == {d \in Conns \ {c} : Owner[d] = n}

Up(n, c) == /\ m_master_broker_sock[n] = c /\ c \in Conns
            /\ link[c] = "open" /\ session[c] # 0 /\ 4 \in m_ffslot[n]
            /\ \A d \in Others(n, c) : DoneWith(d)

News == \A n \in Nodes : \A c \in Conns : \A a \in Aspects : Up(n, c) => Arrives(a, n, c)

(* Nothing more is heard on a connection that a node is done with, nor     *)
(* anything before it is registered.                                       *)
Over(c) == link[c] = "broken" /\ toNode[c] = <<>>

Unheard == \A c \in Conns : session[c] = 0 /\ link[c] # "broken" => toNode[c] = <<>>

DeletedOver == \A c \in Conns : <<"node", c>> \in deleted => Over(c)

BrokenOver == \A n \in Nodes : \A t \in Items(tq[n]) :
                t.kind = "broken" => Over(t.sock) /\ Owner[t.sock] = n

SocksOwned == \A n \in Nodes : m_master_broker_sock[n] \in Conns =>
                Owner[m_master_broker_sock[n]] = n

SessionsIn == \A c \in Conns : session[c] # 0 =>
                /\ session[c] \in DOMAIN m_broker_client_info
                /\ m_broker_client_info[session[c]].sock = c

Heard == Unheard /\ DeletedOver /\ BrokenOver /\ SocksOwned

NamesInv == SessionsIn /\ Heard /\ News

-----------------------------------------------------------------------------
(* The broker's synchronisations: whom they reach, and with what.          *)
LEMMA SameNameTable ==
  ASSUME NEW f, NEW g, DOMAIN f = DOMAIN g,
         \A i \in DOMAIN g : f[i].service_name = g[i].service_name
  PROVE  NameTable(f) = NameTable(g)
<1>1. {f[i].service_name : i \in DOMAIN f} = {g[i].service_name : i \in DOMAIN g}
  OBVIOUS
<1>2. \A s : {i \in DOMAIN f : f[i].service_name = s} = {i \in DOMAIN g : g[i].service_name = s}
  OBVIOUS
<1>3. \A s : Max({i \in DOMAIN f : f[i].service_name = s})
               = Max({i \in DOMAIN g : g[i].service_name = s})
  BY <1>2
<1> QED
  BY <1>1, <1>3 DEF NameTable

LEMMA SyncNames ==
  ASSUME NEW x, NEW ids, NEW slaves, NEW clients
  PROVE  /\ IsSync(SyncData(x, ids, slaves, clients))
         /\ SyncData(x, ids, slaves, clients).node_id = x
         /\ NameTable(SyncData(x, ids, slaves, clients).broker_client_info) = NameTable(clients)
<1> DEFINE f == SyncData(x, ids, slaves, clients).broker_client_info
<1>1. f = [i \in DOMAIN clients |->
            [bind_broker_id |-> clients[i].bind_broker_id,
             service_name   |-> clients[i].service_name]]
  BY DEF SyncData
<1> HIDE DEF f
<1>2. DOMAIN f = DOMAIN clients /\ \A i \in DOMAIN clients : f[i].service_name = clients[i].service_name
  BY <1>1
<1>3. NameTable(f) = NameTable(clients)
  BY <1>2, SameNameTable
<1> QED
  BY <1>3, SyncDataHas DEF f, IsSync

(* A synchronisation reaches the connections with a session that are open. *)
Told(d, x) == /\ link[d] = "open" /\ session'[d] # 0
              /\ \E ids, slaves : toNode'[d] = Append(toNode[d],
                   SyncData(x, ids, slaves, m_broker_client_info'))

LEMMA SyncTold ==
  ASSUME BrokerTyped', EntriesOwned', NEW slaves, slaves = m_slave_broker_sockets',
         DOMAIN slaves = {}, NEW now, now = m_broker_client_info',
         NEW c, NEW id, NEW ids, NEW clients, NEW k,
         sync_all_register_info(c, id, ids, slaves, clients, k), NEW d \in Conns
  PROVE  /\ \/ toNode'[d] = toNode[d]
            \/ \E e \in Entries(slaves, now) :
                 Told(d, NodeIdAt(e, c, id, slaves, now)) /\ EntrySock(slaves, now, e) = d
         /\ link[d] = "open" /\ (\E i \in DOMAIN now : now[i].sock = d)
              => \E e \in Entries(slaves, now) :
                   Told(d, NodeIdAt(e, c, id, slaves, now)) /\ EntrySock(slaves, now, e) = d
<1>1. ASSUME NEW e \in Entries(slaves, now), EntrySock(slaves, now, e) = d
      PROVE  session'[d] # 0
  <2>1. e[1] \in DOMAIN now /\ now[e[1]].sock = d
    BY <1>1, EntryIs
  <2>2. e[1] # 0 /\ session'[d] = e[1]
    BY <2>1 DEF EntriesOwned, BrokerTyped, IsMap
  <2> QED
    BY <2>2
<1>2. /\ link[d] = "open" /\ (\E e \in Entries(slaves, now) : EntrySock(slaves, now, e) = d)
           => \E e \in Entries(slaves, now) :
                /\ EntrySock(slaves, now, e) = d
                /\ toNode'[d] = Append(toNode[d],
                     SyncData(NodeIdAt(e, c, id, slaves, now), ids, DOMAIN slaves, now))
      /\ \/ toNode'[d] = toNode[d]
         \/ link[d] = "open" /\ \E e \in Entries(slaves, now) : EntrySock(slaves, now, e) = d
  BY SyncSends
<1>3. ASSUME link[d] = "open", \E e \in Entries(slaves, now) : EntrySock(slaves, now, e) = d
      PROVE  \E e \in Entries(slaves, now) :
               Told(d, NodeIdAt(e, c, id, slaves, now)) /\ EntrySock(slaves, now, e) = d
  <2>1. PICK e \in Entries(slaves, now) :
             /\ EntrySock(slaves, now, e) = d
             /\ toNode'[d] = Append(toNode[d],
                  SyncData(NodeIdAt(e, c, id, slaves, now), ids, DOMAIN slaves, now))
    BY <1>2, <1>3
  <2>2. Told(d, NodeIdAt(e, c, id, slaves, now))
    BY <1>1, <1>3, <2>1 DEF Told
  <2> QED
    BY <2>1, <2>2
<1>4. (\E i \in DOMAIN now : now[i].sock = d)
        => \E e \in Entries(slaves, now) : EntrySock(slaves, now, e) = d
  <2>1. ASSUME NEW i \in DOMAIN now, now[i].sock = d
        PROVE  \E e \in Entries(slaves, now) : EntrySock(slaves, now, e) = d
    <3>1. <<i, 1>> \in Entries(slaves, now) /\ EntrySock(slaves, now, <<i, 1>>) = d
      BY <2>1, EntryAt
    <3> QED
      BY <3>1
  <2> QED
    BY <2>1
<1> DEFINE Reaches(e) == Told(d, NodeIdAt(e, c, id, slaves, now)) /\ EntrySock(slaves, now, e) = d
<1>5. ASSUME link[d] = "open", \E e \in Entries(slaves, now) : EntrySock(slaves, now, e) = d
      PROVE  \E e \in Entries(slaves, now) : Reaches(e)
  BY <1>3, <1>5
<1> HIDE DEF Reaches
<1>6. /\ toNode'[d] = toNode[d] \/ \E e \in Entries(slaves, now) : Reaches(e)
      /\ link[d] = "open" /\ (\E i \in DOMAIN now : now[i].sock = d)
           => \E e \in Entries(slaves, now) : Reaches(e)
  BY <1>2, <1>4, <1>5
<1> QED
  BY <1>6 DEF Reaches

LEMMA RegisterNews ==
  ASSUME TypeOK, Owners, TypeOK', Owners', NEW c \in Conns, handle_client_register(c),
         NotWrapped', NEW d \in Conns
  PROVE  LET x == IF d = c THEN allocs + 1 ELSE 0
         IN /\ toNode'[d] = toNode[d] \/ Told(d, x)
            /\ link[d] = "open" /\ session'[d] # 0 /\ SessionsIn' => Told(d, x)
<1> DEFINE id == alloc_id(1)
<1>1. /\ BrokerTyped /\ BrokerTyped' /\ Counted /\ EntriesOwned /\ EntriesOwned'
      /\ session[c] = 0
  BY TypeParts, Registers DEF SharedTyped, Owners, TablesOfOwners
<1>2. PICK slaves, now, ids : /\ slaves = m_slave_broker_sockets /\ now = m_broker_client_info'
                              /\ ids = m_msg2id'
  OBVIOUS
<1>3. id = allocs + 1 /\ allocs + 1 <= MaxId /\ slaves = m_slave_broker_sockets'
  BY <1>2, Registered
<1>4. PICK info : info.sock = c /\ SameEntries(now, Insert(m_broker_client_info, id, info))
  BY <1>2, <1>3, Registered
<1>5. \E clients, k : sync_all_register_info(c, id, ids, slaves, clients, k)
  BY <1>2 DEF handle_client_register
<1>6. PICK clients, k : sync_all_register_info(c, id, ids, slaves, clients, k)
  BY <1>5
<1>7. DOMAIN slaves = {}
  BY <1>2 DEF Owners, TablesOfOwners, NoSlaves
<1> DEFINE x == IF d = c THEN allocs + 1 ELSE 0
<1>8. ASSUME NEW e \in Entries(slaves, now), EntrySock(slaves, now, e) = d
      PROVE  NodeIdAt(e, c, id, slaves, now) = x
  <2>1. CASE d = c
    <3>1. NotAfter(e, e)
      <4>1. e[1] \in DOMAIN now
        BY <1>7, EntryIs
      <4>2. DOMAIN now \subseteq Nat
        BY <1>1, <1>2, BrokerAssumption DEF BrokerTyped, IsMap, Ids
      <4>3. e[1] <= e[1]
        BY <4>1, <4>2
      <4> QED
        BY <4>3 DEF NotAfter
    <3> QED
      BY <1>3, <1>8, <2>1, <3>1 DEF NodeIdAt
  <2>2. CASE d # c
    <3>1. \/ NodeIdAt(e, c, id, slaves, now) = 0
          \/ EntrySock(slaves, now, e) = c
      BY <1>1, <1>2, <1>3, <1>4, OnlyNewTold
    <3> QED
      BY <1>8, <2>2, <3>1
  <2> QED
    BY <2>1, <2>2
<1>9. /\ \/ toNode'[d] = toNode[d]
         \/ \E e \in Entries(slaves, now) :
              Told(d, NodeIdAt(e, c, id, slaves, now)) /\ EntrySock(slaves, now, e) = d
      /\ link[d] = "open" /\ (\E i \in DOMAIN now : now[i].sock = d)
           => \E e \in Entries(slaves, now) :
                Told(d, NodeIdAt(e, c, id, slaves, now)) /\ EntrySock(slaves, now, e) = d
  BY <1>1, <1>2, <1>3, <1>6, <1>7, SyncTold
<1>10. (\E e \in Entries(slaves, now) :
          Told(d, NodeIdAt(e, c, id, slaves, now)) /\ EntrySock(slaves, now, e) = d)
         => Told(d, x)
  BY <1>8
<1> HIDE DEF x, id
<1>11. session'[d] # 0 /\ SessionsIn' => \E i \in DOMAIN now : now[i].sock = d
  BY <1>2 DEF SessionsIn
<1>12. /\ toNode'[d] = toNode[d] \/ Told(d, x)
       /\ link[d] = "open" /\ session'[d] # 0 /\ SessionsIn' => Told(d, x)
  BY <1>9, <1>10, <1>11
<1> QED
  BY <1>12 DEF x

LEMMA BrokenNews ==
  ASSUME TypeOK, TypeOK', Owners', NEW c \in Conns, handle_broken(c), NEW d \in Conns
  PROVE  /\ toNode'[d] = toNode[d] \/ Told(d, 0)
         /\ link[d] = "open" /\ session'[d] # 0 /\ SessionsIn' => Told(d, 0)
<1>1. BrokerTyped' /\ EntriesOwned'
  BY TypeParts DEF SharedTyped, Owners, TablesOfOwners
<1>2. PICK slaves, now : slaves = m_slave_broker_sockets' /\ now = m_broker_client_info'
  OBVIOUS
<1>3. \E ids, clients, k : sync_all_register_info(NoConn, 0, ids, slaves, clients, k)
  BY <1>2 DEF handle_broken
<1>4. PICK ids, clients, k : sync_all_register_info(NoConn, 0, ids, slaves, clients, k)
  BY <1>3
<1>5. DOMAIN slaves = {}
  BY <1>2 DEF Owners, TablesOfOwners, NoSlaves
<1>6. ASSUME NEW e \in Entries(slaves, now)
      PROVE  NodeIdAt(e, NoConn, 0, slaves, now) = 0
  BY DEF NodeIdAt
<1>7. /\ \/ toNode'[d] = toNode[d]
         \/ \E e \in Entries(slaves, now) :
              Told(d, NodeIdAt(e, NoConn, 0, slaves, now)) /\ EntrySock(slaves, now, e) = d
      /\ link[d] = "open" /\ (\E i \in DOMAIN now : now[i].sock = d)
           => \E e \in Entries(slaves, now) :
                Told(d, NodeIdAt(e, NoConn, 0, slaves, now)) /\ EntrySock(slaves, now, e) = d
  BY <1>1, <1>2, <1>4, <1>5, SyncTold
<1>8. session'[d] # 0 /\ SessionsIn' => \E i \in DOMAIN now : now[i].sock = d
  BY <1>2 DEF SessionsIn
<1> QED
  BY <1>6, <1>7, <1>8

(* A session's node is in the table, with the session's connection.        *)
LEMMA SessionsInStep ==
  ASSUME TypeOK, Owners, SessionsIn, [Next]_vars, NotWrapped'
  PROVE  SessionsIn'
<1>1. session \in [Conns -> Ids] /\ Counted /\ IdsDistinct
  BY TypeParts DEF SharedTyped, BrokerTyped, Owners, TablesOfOwners
<1>2. ASSUME NEW c \in Conns, handle_client_register(c) PROVE SessionsIn'
  <2>1. /\ session' = [session EXCEPT ![c] = allocs + 1] /\ allocs \in Nat
        /\ \E info : /\ info.sock = c
                     /\ SameEntries(m_broker_client_info',
                                    Insert(m_broker_client_info, allocs + 1, info))
    BY <1>2, Registered
  <2>2. PICK info : /\ info.sock = c
                    /\ SameEntries(m_broker_client_info',
                                   Insert(m_broker_client_info, allocs + 1, info))
    BY <2>1
  <2>3. /\ DOMAIN m_broker_client_info' = DOMAIN m_broker_client_info \cup {allocs + 1}
        /\ m_broker_client_info'[allocs + 1].sock = c
        /\ \A i \in DOMAIN m_broker_client_info : i # allocs + 1 =>
             m_broker_client_info'[i].sock = m_broker_client_info[i].sock
    BY <2>2 DEF SameEntries, Insert
  <2>4. \A d \in Conns : session[d] # allocs + 1
    BY <1>1, <2>1 DEF Counted, Ids
  <2> QED
    BY <1>1, <2>1, <2>3, <2>4 DEF SessionsIn
<1>3. ASSUME NEW c \in Conns, handle_broken(c) PROVE SessionsIn'
  <2>1. /\ session' = [session EXCEPT ![c] = 0]
        /\ SameEntries(m_broker_client_info', Erase(m_broker_client_info, session[c]))
    BY <1>3, Unregistered
  <2>2. \A i \in DOMAIN m_broker_client_info : i # session[c] =>
          /\ i \in DOMAIN m_broker_client_info'
          /\ m_broker_client_info'[i].sock = m_broker_client_info[i].sock
    BY <2>1 DEF SameEntries, Erase
  <2> QED
    BY <1>1, <2>1, <2>2 DEF SessionsIn, IdsDistinct
<1>4. ASSUME UNCHANGED brokerVars PROVE SessionsIn'
  BY <1>4 DEF SessionsIn, brokerVars
<1> QED
  BY <1>2, <1>3, <1>4, TableSteps

-----------------------------------------------------------------------------
(* What a step may add to the silence of a connection, or the breaks that  *)
(* wait for a node.                                                        *)
HeardStep == \A c \in Conns : toNode[c] = <<>> /\ toNode'[c] # <<>> =>
               link[c] = "open" /\ session'[c] # 0

BreaksStep == \A n \in Nodes : \A t \in Items(tq'[n]) :
                t.kind = "broken" => t \in Items(tq[n]) \/ (Over(t.sock) /\ Owner[t.sock] = n)

(* Which connection a node uses: the same, and it is not done with others, *)
(* or none, or a new one.                                                  *)
UsesStep ==
  \A n \in Nodes :
    \/ /\ m_master_broker_sock'[n] = m_master_broker_sock[n]
       /\ 4 \in m_ffslot'[n] => 4 \in m_ffslot[n]
       /\ \A c \in Conns : Owner[c] = n /\ <<"node", c>> \in deleted' => <<"node", c>> \in deleted
    \/ m_master_broker_sock'[n] = NoConn
    \/ \E c \in Conns : Owner[c] = n /\ link[c] = "unused" /\ m_master_broker_sock'[n] = c

DeletedStep ==
  \A c \in Conns : <<"node", c>> \in deleted' =>
    \/ <<"node", c>> \in deleted
    \/ \E n \in Nodes : \E t \in Items(tq[n]) : t.kind = "broken" /\ t.sock = c

Owned(t, n) == t.kind = "broken" => Over(t.sock) /\ Owner[t.sock] = n

LEMMA MovesHeard ==
  ASSUME QueuesTyped, NEW XB, NEW XN, NEW XT, Moves(XB, XN, XT)
  PROVE  /\ (\A c \in Conns : XN[c] = {}) => HeardStep
         /\ (\A n \in Nodes : \A t \in XT[n] : Owned(t, n)) => BreaksStep
<1>1. ASSUME NEW c \in Conns, XN[c] = {}, toNode[c] = <<>> PROVE toNode'[c] = <<>>
  <2>1. PICK s : s = toNode'[c]
    OBVIOUS
  <2>2. IsQueue(s) /\ Items(s) = {}
    BY <1>1, <2>1, EmptyQueue DEF Moves, From
  <2>3. Len(s) \in Nat /\ (s = <<>> <=> Len(s) = 0) /\ \A i \in 1..Len(s) : FALSE
    BY <2>2, QueueLength
  <2>4. Len(s) = 0
    BY <2>3
  <2> QED
    BY <2>1, <2>3, <2>4
<1>2. ASSUME NEW n \in Nodes, NEW t \in Items(tq'[n]) PROVE t \in Items(tq[n]) \cup XT[n]
  BY <1>2 DEF Moves, From
<1> QED
  BY <1>1, <1>2 DEF HeardStep, BreaksStep, Owned

LEMMA NobodyHears ==
  ASSUME QueuesTyped, NEW XB, Moves(XB, Nowhere, NoTask)
  PROVE  HeardStep /\ BreaksStep
<1>1. (\A c \in Conns : Nowhere[c] = {}) /\ \A n \in Nodes : NoTask[n] = {}
  BY DEF Nowhere, NoTask
<1> QED
  BY <1>1, MovesHeard

LEMMA TaskHears ==
  ASSUME QueuesTyped, NEW n \in Nodes, NEW t, Moves(Nowhere, Nowhere, AsTask(n, t)), Owned(t, n)
  PROVE  HeardStep /\ BreaksStep
<1>1. /\ \A c \in Conns : Nowhere[c] = {}
      /\ \A p \in Nodes : \A x \in AsTask(n, t)[p] : x = t /\ p = n
  BY DEF Nowhere, AsTask
<1> QED
  BY <1>1, MovesHeard

LEMMA BrokerHears ==
  ASSUME TypeOK, Owners, TypeOK', Owners', NEW c \in Conns, BrokerStep(c), NotWrapped'
  PROVE  HeardStep /\ BreaksStep
<1>1. QueuesTyped /\ BrokerTyped /\ EntriesOwned
  BY TypeParts DEF SharedTyped, Owners, TablesOfOwners
<1>2. ASSUME handle_client_register(c) PROVE HeardStep /\ BreaksStep
  <2>1. HeardStep
    BY <1>2, RegisterNews DEF HeardStep, Told
  <2>2. UNCHANGED tq
    BY <1>2 DEF handle_client_register, routeVars
  <2> QED
    BY <2>1, <2>2 DEF BreaksStep
<1>3. ASSUME handle_broken(c) PROVE HeardStep /\ BreaksStep
  <2>1. HeardStep
    BY <1>3, BrokenNews DEF HeardStep, Told
  <2>2. UNCHANGED tq
    BY <1>3 DEF handle_broken, routeVars
  <2> QED
    BY <2>1, <2>2 DEF BreaksStep
<1>4. ASSUME reject_client_register(c) \/ handle_broken_unknown(c) PROVE HeardStep /\ BreaksStep
  BY <1>1, <1>4, RejectMoves, BrokenMoves, NobodyHears
<1>5. ASSUME handle_route_msg(c) PROVE HeardStep /\ BreaksStep
  <2>1. BreaksStep
    <3>1. \A n \in Nodes : \A t \in TriggeredAt(c)[n] : t.kind = "trigger"
      BY DEF TriggeredAt
    <3>2. "trigger" # "broken"
      OBVIOUS
    <3> QED
      BY <1>1, <1>5, <3>1, <3>2, RouteMoves, MovesHeard DEF Owned
  <2>2. ASSUME NEW d \in Conns, toNode'[d] # toNode[d] PROVE link[d] = "open" /\ session'[d] # 0
    <3> DEFINE dest == RouteOf(c).dest_node_id
    <3>1. dest \in DOMAIN m_broker_client_info /\ d = m_broker_client_info[dest].sock /\ link[d] = "open"
      BY <1>5, <2>2 DEF handle_route_msg, SentToNodes, RouteOf
    <3>2. session[d] = dest /\ dest # 0
      BY <1>1, <3>1 DEF EntriesOwned, BrokerTyped, IsMap
    <3> QED
      BY <1>5, <3>1, <3>2 DEF handle_route_msg, brokerVars
  <2> QED
    BY <2>1, <2>2 DEF HeardStep
<1> QED
  BY <1>1, <1>2, <1>3, <1>4, <1>5, NoSlaveMessages DEF BrokerStep

LEMMA StepHears ==
  ASSUME TypeOK, Owners, [Next]_vars, NotWrapped'
  PROVE  HeardStep /\ BreaksStep
<1>1. QueuesTyped /\ NodesTyped /\ TypeOK' /\ Owners'
  BY TypeParts, StepTyped, OwnersStep DEF SharedTyped
<1>2. ASSUME BrokerThread PROVE HeardStep /\ BreaksStep
  BY <1>1, <1>2, BrokerHears DEF BrokerThread
<1>3. ASSUME NEW n \in Nodes, RunTask(n) PROVE HeardStep /\ BreaksStep
  <2>1. CASE Quiet(n)
    BY <1>1, <2>1, QuietMoves, NobodyHears
  <2>2. CASE trigger_interface(n)
    <3>1. Moves(Nowhere, Nowhere, Responded(n))
      BY <1>1, <2>2, TriggerInterfaceMoves
    <3>2. /\ \A c \in Conns : Nowhere[c] = {}
          /\ \A p \in Nodes : \A t \in Responded(n)[p] : Owned(t, p)
      BY DEF Nowhere, Responded, ResponseTask, AsTask, Owned
    <3> QED
      BY <1>1, <3>1, <3>2, MovesHeard
  <2>3. CASE call_impl(n) \/ response(n)
    BY <1>1, <2>3, NodeMaps, SendingMoves, NobodyHears
  <2>4. CASE timer_reconnect_broker(n) \/ crash(n)
    BY <1>1, <2>4, ReconnectMoves, NobodyHears
  <2> QED
    BY <1>3, <2>1, <2>2, <2>3, <2>4 DEF RunTask, Quiet
<1>4. ASSUME NEW n \in Nodes, Timer(n) \/ OpenStarts(n) \/ OpenReturns(n)
      PROVE  HeardStep /\ BreaksStep
  <2>1. CASE Timer(n)
    <3>1. Owned([kind |-> "reconnect"], n)
      BY DEF Owned
    <3> QED
      BY <1>1, <2>1, <3>1, ProducerMoves, TaskHears DEF Timer
  <2>2. CASE OpenStarts(n) \/ OpenReturns(n)
    BY <1>1, <2>2, OpenMoves, ProducerMoves, NobodyHears DEF OpenStarts, OpenReturns
  <2> QED
    BY <1>4, <2>1, <2>2
<1>5. ASSUME NEW c \in Conns, NetworkThread(c) \/ Breaks(c) PROVE HeardStep /\ BreaksStep
  <2>0. Owner[c] \in Nodes
    BY SystemAssumption
  <2>1. CASE handle_msg(c)
    <3>1. PICK t : t = [kind |-> "msg", msg |-> Head(toNode[c])]
      OBVIOUS
    <3>2. Owned(t, Owner[c])
      BY <3>1 DEF Owned
    <3> QED
      BY <1>1, <2>0, <2>1, <3>1, <3>2, HandleMsgMoves, TaskHears
  <2>2. CASE handle_broken_on_node(c)
    <3>1. PICK t : t = BrokenTask(c)
      OBVIOUS
    <3>2. Owned(t, Owner[c])
      BY <2>2, <3>1 DEF Owned, BrokenTask, handle_broken_on_node, Over
    <3> QED
      BY <1>1, <2>0, <2>2, <3>1, <3>2, ProducerMoves, TaskHears
  <2>3. CASE Breaks(c)
    BY <1>1, <2>3, BreaksMoves, NobodyHears
  <2> QED
    BY <1>5, <2>1, <2>2, <2>3 DEF NetworkThread
<1>6. ASSUME NEW k \in Calls, Application(k) PROVE HeardStep /\ BreaksStep
  <2>1. PICK t : t = [kind |-> "call", call |-> k]
    OBVIOUS
  <2>2. Owned(t, Caller[k]) /\ Caller[k] \in Nodes
    BY <2>1, SystemAssumption DEF Owned
  <2> QED
    BY <1>1, <1>6, <2>1, <2>2, ProducerMoves, TaskHears DEF Application
<1>7. ASSUME UNCHANGED vars PROVE HeardStep /\ BreaksStep
  BY <1>7 DEF vars, netVars, routeVars, HeardStep, BreaksStep
<1> QED
  BY <1>2, <1>3, <1>4, <1>5, <1>6, <1>7 DEF Next, NodeThread

LEMMA SameUses ==
  UNCHANGED <<m_master_broker_sock, m_ffslot, deleted>> => UsesStep /\ DeletedStep
BY DEF UsesStep, DeletedStep

LEMMA ConnectingUses ==
  ASSUME NodesTyped, NEW n \in Nodes, ConnectSucceeds(n) \/ ConnectFails(n), UNCHANGED deleted,
         \A p \in Nodes : p # n => m_ffslot'[p] = m_ffslot[p]
  PROVE  UsesStep /\ DeletedStep
<1>1. \/ m_master_broker_sock' = [m_master_broker_sock EXCEPT ![n] = NoConn]
      \/ \E c \in Fresh(n) : m_master_broker_sock' = [m_master_broker_sock EXCEPT ![n] = c]
  BY DEF ConnectSucceeds, ConnectFails
<1>2. /\ \A p \in Nodes : p # n => m_master_broker_sock'[p] = m_master_broker_sock[p]
      /\ m_master_broker_sock'[n] = NoConn \/ m_master_broker_sock'[n] \in Fresh(n)
  BY <1>1 DEF NodesTyped
<1> QED
  BY <1>2 DEF UsesStep, DeletedStep, Fresh

LEMMA StepUses ==
  ASSUME TypeOK, BrokenOver, [Next]_vars
  PROVE  UsesStep /\ DeletedStep
<1>1. QueuesTyped /\ NodesTyped
  BY TypeParts DEF SharedTyped
<1>2. ASSUME NEW c \in Conns, BrokerStep(c), UNCHANGED nodeVars PROVE UsesStep /\ DeletedStep
  <2>1. UNCHANGED deleted \/ SafeDelete("broker", c)
    BY <1>1, <1>2, NoSlaveMessages
    DEF BrokerStep, handle_client_register, reject_client_register, handle_route_msg,
        handle_broken_unknown, handle_broken
  <2>2. \A d \in Conns : <<"node", d>> \in deleted' => <<"node", d>> \in deleted
    <3>1. \A d \in Conns : <<"node", d>> # <<"broker", c>>
      OBVIOUS
    <3> QED
      BY <2>1, <3>1 DEF SafeDelete
  <2> QED
    BY <1>2, <2>2 DEF UsesStep, DeletedStep, nodeVars
<1>3. ASSUME NEW n \in Nodes, RunTask(n) PROVE UsesStep /\ DeletedStep
  <2>1. CASE timer_reconnect_broker(n)
    BY <1>1, <2>1, ConnectingUses DEF timer_reconnect_broker
  <2>2. CASE trigger_callback_throws(n)
    <3>1. /\ UNCHANGED <<m_master_broker_sock, deleted>>
          /\ \E x : m_ffslot' = [m_ffslot EXCEPT ![n] = @ \ {x}]
      BY <2>2 DEF trigger_callback_throws, netVars
    <3>2. \A p \in Nodes : m_ffslot'[p] \subseteq m_ffslot[p]
      BY <1>1, <3>1 DEF NodesTyped
    <3> QED
      BY <3>1, <3>2 DEF UsesStep, DeletedStep
  <2>3. CASE handle_broken_impl(n)
    <3>1. /\ m_master_broker_sock' = [m_master_broker_sock EXCEPT ![n] = NoConn]
          /\ UNCHANGED m_ffslot
          /\ deleted' = deleted \cup {<<"node", Task(n).sock>>}
      BY <2>3 DEF handle_broken_impl, SafeDelete
    <3>2. Task(n) \in Items(tq[n]) /\ Task(n).kind = "broken"
      BY <1>1, <2>3, QueuesAre, TakenQueue DEF handle_broken_impl, Runs, Task
    <3>3. Owner[Task(n).sock] = n
      BY <3>2 DEF BrokenOver
    <3>4. /\ m_master_broker_sock'[n] = NoConn
          /\ \A p \in Nodes : p # n => m_master_broker_sock'[p] = m_master_broker_sock[p]
      BY <1>1, <3>1 DEF NodesTyped
    <3>5. UsesStep
      BY <3>1, <3>3, <3>4 DEF UsesStep
    <3>6. DeletedStep
      BY <3>1, <3>2 DEF DeletedStep
    <3> QED
      BY <3>5, <3>6
  <2>4. CASE ~timer_reconnect_broker(n) /\ ~trigger_callback_throws(n) /\ ~handle_broken_impl(n)
    <3>1. UNCHANGED <<m_master_broker_sock, m_ffslot, deleted>>
      BY <1>3, <2>4 DEF RunTask, handle_unbound_msg, handle_broker_sync_data,
         trigger_callback, trigger_nothing, call_impl_refused, netVars, nodeVars,
         trigger_interface, call_impl, response, crash
    <3> QED
      BY <3>1, SameUses
  <2> QED
    BY <2>1, <2>2, <2>3, <2>4
<1>4. ASSUME NEW n \in Nodes, open(n) PROVE UsesStep /\ DeletedStep
  <2>1. m_ffslot' = [m_ffslot EXCEPT ![n] = {4, 5}] /\ UNCHANGED deleted
        /\ (ConnectSucceeds(n) \/ ConnectFails(n))
    BY <1>4 DEF open
  <2>2. \A p \in Nodes : p # n => m_ffslot'[p] = m_ffslot[p]
    BY <1>1, <2>1 DEF NodesTyped
  <2> QED
    BY <1>1, <2>1, <2>2, ConnectingUses
<1>5. ASSUME NEW c \in Conns, Breaks(c) PROVE UsesStep /\ DeletedStep
  BY <1>5, SameUses DEF Breaks, Break, nodeVars
<1>6. ASSUME NEW c \in Conns, NetworkThread(c) PROVE UsesStep /\ DeletedStep
  BY <1>6, SameUses DEF NetworkThread, handle_msg, handle_broken_on_node, netVars, nodeVars
<1>7. ASSUME NEW n \in Nodes, Timer(n) \/ OpenReturns(n) PROVE UsesStep /\ DeletedStep
  BY <1>7, SameUses DEF Timer, route_call_reconnect, OpenReturns, open_returns, netVars
<1>8. ASSUME NEW k \in Calls, Application(k) PROVE UsesStep /\ DeletedStep
  BY <1>8, SameUses DEF Application, call, netVars
<1>9. UNCHANGED vars => UsesStep /\ DeletedStep
  BY SameUses DEF vars, netVars, nodeVars
<1> QED
  BY <1>2, <1>3, <1>4, <1>5, <1>6, <1>7, <1>8, <1>9
  DEF Next, BrokerThread, NodeThread, OpenStarts

LEMMA SessionsEnd ==
  ASSUME TypeOK, Owners, [Next]_vars, NotWrapped', NEW c \in Conns
  PROVE  /\ link[c] = "unused" => session'[c] = 0
         /\ session'[c] = 0 => session[c] = 0 \/ link[c] = "broken"
<1>1. link[c] = "unused" => session[c] = 0 /\ ~Taken(c)
  BY DEF Owners, Orderly, Taken
<1>2. ASSUME session'[c] = 0 PROVE session[c] = 0 \/ link[c] = "broken"
  <2>1. session \in [Conns -> Ids]
    BY TypeParts DEF SharedTyped, BrokerTyped
  <2>2. ASSUME NEW d \in Conns, handle_client_register(d) PROVE session[c] = 0
    <3>1. session' = [session EXCEPT ![d] = allocs + 1] /\ allocs \in Nat
      BY <2>2, Registered
    <3>2. allocs + 1 # 0
      BY <3>1
    <3> QED
      BY <1>2, <2>1, <3>1, <3>2
  <2>3. ASSUME NEW d \in Conns, handle_broken(d) PROVE session[c] = 0 \/ link[c] = "broken"
    <3>1. session' = [session EXCEPT ![d] = 0] /\ link[d] = "broken"
      BY <2>3, Unregistered DEF handle_broken, BreakSeenByBroker
    <3> QED
      BY <1>2, <2>1, <3>1
  <2> QED
    BY <1>2, <2>2, <2>3, TableSteps DEF brokerVars
<1> QED
  BY <1>1, <1>2, SessionStep

LEMMA OverStays ==
  ASSUME LinkStep, HeardStep, NEW c \in Conns, Over(c)
  PROVE  Over(c)'
BY DEF LinkStep, HeardStep, Over

LEMMA HeardKept ==
  ASSUME TypeOK, Owners, Heard, [Next]_vars, NotWrapped'
  PROVE  Heard'
<1>1. /\ LinkStep /\ HeardStep /\ BreaksStep /\ UsesStep /\ DeletedStep
      /\ QueuesTyped /\ QueuesTyped' /\ NodesTyped /\ NodesTyped'
  BY StepLinks, StepHears, StepUses, StepTyped, TypeParts DEF Heard, SharedTyped
<1>2. Unheard'
  <2> SUFFICES ASSUME NEW c \in Conns, session'[c] = 0, link'[c] # "broken"
               PROVE  toNode'[c] = <<>>
    BY DEF Unheard
  <2>1. session[c] = 0 /\ link[c] # "broken"
    BY <1>1, SessionsEnd DEF LinkStep
  <2> QED
    BY <1>1, <2>1 DEF Heard, Unheard, HeardStep
<1>3. DeletedOver'
  <2> SUFFICES ASSUME NEW c \in Conns, <<"node", c>> \in deleted' PROVE Over(c)'
    BY DEF DeletedOver
  <2>1. Over(c)
    BY <1>1 DEF DeletedStep, Heard, DeletedOver, BrokenOver
  <2> QED
    BY <1>1, <2>1, OverStays
<1>4. BrokenOver'
  <2> SUFFICES ASSUME NEW n \in Nodes, NEW t \in Items(tq'[n]), t.kind = "broken"
               PROVE  Over(t.sock)' /\ Owner[t.sock] = n
    BY DEF BrokenOver
  <2>1. Over(t.sock) /\ Owner[t.sock] = n
    BY <1>1 DEF BreaksStep, Heard, BrokenOver
  <2>2. t.sock \in Conns
    BY <1>1 DEF QueuesTyped, TypedTask
  <2>3. PICK c \in Conns : c = t.sock
    BY <2>2
  <2> QED
    BY <1>1, <2>1, <2>3, OverStays
<1>5. SocksOwned'
  BY <1>1, NetworkAssumption DEF Heard, SocksOwned, UsesStep
<1> QED
  BY <1>2, <1>3, <1>4, <1>5 DEF Heard

(* A node that is up was up before, unless its connection now registers.   *)
LEMMA WasUp ==
  ASSUME TypeOK, Owners, Heard, [Next]_vars, NotWrapped', NEW n \in Nodes, NEW c, Up(n, c)'
  PROVE  /\ c \in Conns /\ Owner[c] = n
         /\ m_master_broker_sock[n] = c /\ link[c] = "open" /\ 4 \in m_ffslot[n]
         /\ \A d \in Others(n, c) : DoneWith(d)
         /\ session[c] # 0 => Up(n, c)
<1>1. LinkStep /\ UsesStep /\ Heard' /\ NetTyped
  BY StepLinks, StepUses, HeardKept, TypeParts DEF Heard, SharedTyped
<1>2. /\ m_master_broker_sock'[n] = c /\ c \in Conns /\ link'[c] = "open"
      /\ session'[c] # 0 /\ 4 \in m_ffslot'[n]
  BY DEF Up
<1>3. Owner[c] = n
  BY <1>1, <1>2 DEF Heard, SocksOwned
<1>4. link[c] = "open"
  <2>1. link[c] # "unused" /\ link[c] # "broken"
    BY <1>1, <1>2, SessionsEnd DEF LinkStep
  <2> QED
    BY <1>1, <1>2, <2>1 DEF NetTyped
<1>5. /\ m_master_broker_sock[n] = c /\ 4 \in m_ffslot[n]
      /\ \A d \in Conns : Owner[d] = n /\ <<"node", d>> \in deleted' => <<"node", d>> \in deleted
  <2>1. c # NoConn
    BY <1>2, NetworkAssumption
  <2> QED
    BY <1>1, <1>2, <1>4, <2>1 DEF UsesStep
<1>6. ASSUME NEW d \in Others(n, c) PROVE DoneWith(d)
  <2>1. d \in Conns /\ Owner[d] = n /\ DoneWith(d)'
    BY <1>6 DEF Up, Others
  <2> QED
    BY <1>1, <1>5, <2>1 DEF DoneWith, LinkStep
<1> QED
  BY <1>2, <1>3, <1>4, <1>5, <1>6 DEF Up

-----------------------------------------------------------------------------
(* The news arrives, whatever step is taken.                               *)
LEMMA ToldArrives ==
  ASSUME QueuesTyped, News, NEW n \in Nodes, NEW c \in Conns, NEW x, Told(c, x),
         x = 0 => Up(n, c) /\ session'[c] = session[c],
         x # 0 => x = session'[c],
         UNCHANGED <<tq, nodeVars>>
  PROVE  \A a \in Aspects : Arrives(a, n, c)'
<1>1. PICK ids, slaves : toNode'[c] = Append(toNode[c],
                           SyncData(x, ids, slaves, m_broker_client_info'))
  BY DEF Told
<1>2. PICK m : m = SyncData(x, ids, slaves, m_broker_client_info')
  OBVIOUS
<1>3. /\ IsSync(m) /\ m.node_id = x
      /\ NameTable(m.broker_client_info) = NameTable(m_broker_client_info')
      /\ toNode'[c] = Append(toNode[c], m)
  BY <1>1, <1>2, SyncNames
<1>4. Arrives("names", n, c)'
  <2>1. Says("names", "link", m) /\ Matches("names", c, "link", m)'
    BY <1>3 DEF Says, Matches, MessageIn
  <2> QED
    BY <1>3, <2>1, ArrivesTold
<1>5. Arrives("id", n, c)'
  <2>1. CASE x # 0
    <3>1. Says("id", "link", m) /\ Matches("id", c, "link", m)'
      BY <1>3, <2>1 DEF Says, Matches, MessageIn
    <3> QED
      BY <1>3, <3>1, ArrivesTold
  <2>2. CASE x = 0
    <3>1. Arrives("id", n, c)
      BY <2>2 DEF News, Aspects
    <3>2. SameTruth("id", c) /\ (Knows("id", n, c) => Knows("id", n, c)')
      BY <2>2 DEF SameTruth, Knows, nodeVars
    <3>3. ~Says("id", "link", m)
      BY <1>3, <2>2 DEF Says, MessageIn
    <3>4. /\ NothingSaid("id", "link", toNode[c], toNode'[c])
          /\ NothingSaid("id", "task", tq[n], tq'[n])
      BY <1>3, <3>3 DEF NothingSaid
    <3> QED
      BY <3>1, <3>2, <3>4, ArrivesKept
  <2> QED
    BY <2>1, <2>2
<1> QED
  BY <1>4, <1>5 DEF Aspects

LEMMA RegisterArrives ==
  ASSUME TypeOK, Owners, TypeOK', Owners', SessionsIn', News, NEW d \in Conns,
         handle_client_register(d) \/ handle_broken(d), NotWrapped', UNCHANGED nodeVars,
         NEW n \in Nodes, NEW c \in Conns, link[c] = "open", session'[c] # 0,
         session[c] # 0 => Up(n, c)
  PROVE  \A a \in Aspects : Arrives(a, n, c)'
<1>1. QueuesTyped /\ session \in [Conns -> Ids]
  BY TypeParts DEF SharedTyped, BrokerTyped
<1>2. ASSUME handle_client_register(d) PROVE \A a \in Aspects : Arrives(a, n, c)'
  <2>1. PICK x : x = IF c = d THEN allocs + 1 ELSE 0
    OBVIOUS
  <2>2. Told(c, x)
    BY <1>2, <2>1, RegisterNews
  <2>3. session' = [session EXCEPT ![d] = allocs + 1] /\ allocs \in Nat
    BY <1>2, Registered
  <2>4. allocs + 1 # 0
    BY <2>3
  <2>5. /\ x = 0 => Up(n, c) /\ session'[c] = session[c]
        /\ x # 0 => x = session'[c]
    BY <1>1, <2>1, <2>3, <2>4
  <2>6. UNCHANGED tq
    BY <1>2 DEF handle_client_register, routeVars
  <2> QED
    BY <1>1, <2>2, <2>5, <2>6, ToldArrives
<1>3. ASSUME handle_broken(d) PROVE \A a \in Aspects : Arrives(a, n, c)'
  <2>1. Told(c, 0)
    BY <1>3, BrokenNews
  <2>2. session' = [session EXCEPT ![d] = 0]
    BY <1>3, Unregistered
  <2>3. c # d /\ UNCHANGED tq
    BY <1>3 DEF handle_broken, BreakSeenByBroker, routeVars
  <2> QED
    BY <1>1, <2>1, <2>2, <2>3, ToldArrives
<1> QED
  BY <1>2, <1>3

NoSyncAdded(s, t) == t = s \/ \E x : ~IsSync(x) /\ t = Append(s, x)
NoMsgAdded(s, t) == t = s \/ \E x : x.kind # "msg" /\ t = Append(s, x)

LEMMA NothingArrives ==
  ASSUME QueuesTyped, News, NEW n \in Nodes, NEW c \in Conns, Up(n, c),
         UNCHANGED <<m_broker_client_info, session>>,
         NoSyncAdded(toNode[c], toNode'[c]), NoMsgAdded(tq[n], tq'[n]),
         m_node_id'[n] = m_node_id[n],
         m_broker_client_name2nodeid'[n] = m_broker_client_name2nodeid[n]
  PROVE  \A a \in Aspects : Arrives(a, n, c)'
<1> TAKE a \in Aspects
<1>1. Arrives(a, n, c)
  BY DEF News
<1>2. SameTruth(a, c) /\ (Knows(a, n, c) => Knows(a, n, c)')
  BY DEF SameTruth, Knows
<1>3. /\ NothingSaid(a, "link", toNode[c], toNode'[c])
      /\ NothingSaid(a, "task", tq[n], tq'[n])
  BY DEF NothingSaid, NoSyncAdded, NoMsgAdded, Says, MessageIn
<1> QED
  BY <1>1, <1>2, <1>3, ArrivesKept

LEMMA BrokerArrives ==
  ASSUME TypeOK, Owners, TypeOK', Owners', SessionsIn', News, NEW d \in Conns,
         BrokerStep(d), NotWrapped', UNCHANGED nodeVars,
         NEW n \in Nodes, NEW c \in Conns, link[c] = "open", link'[c] = "open",
         session'[c] # 0, session[c] # 0 => Up(n, c)
  PROVE  \A a \in Aspects : Arrives(a, n, c)'
<1>1. QueuesTyped /\ NetTyped /\ NoSyncAdded(toNode[c], toNode[c]) /\ NoMsgAdded(tq[n], tq[n])
  BY TypeParts DEF SharedTyped, NoSyncAdded, NoMsgAdded
<1>2. CASE handle_client_register(d) \/ handle_broken(d)
  BY <1>2, RegisterArrives
<1>3. CASE reject_client_register(d) \/ handle_broken_unknown(d)
  <2>1. UNCHANGED tq /\ UNCHANGED <<m_broker_client_info, session>>
    BY <1>3 DEF reject_client_register, handle_broken_unknown, brokerVars, routeVars
  <2>2. toNode'[c] = toNode[c]
    <3>1. CASE CloseWith(d, Tail(toBroker[d]))
      <4>1. c # d
        BY <1>1, <3>1 DEF CloseWith, NetTyped
      <4> QED
        BY <1>1, <3>1, <4>1, QueuesAre DEF CloseWith
    <3>2. CASE UNCHANGED toNode
      BY <3>2
    <3> QED
      BY <1>3, <3>1, <3>2 DEF reject_client_register, handle_broken_unknown
  <2> QED
    BY <1>1, <2>1, <2>2, NothingArrives DEF nodeVars
<1>4. CASE handle_route_msg(d)
  <2>1. UNCHANGED <<m_broker_client_info, session>>
    BY <1>4 DEF handle_route_msg, brokerVars
  <2>2. NoSyncAdded(toNode[c], toNode'[c])
    <3>1. toNode'[c] = toNode[c] \/ toNode'[c] = Append(toNode[c], ToClient(RouteOf(d)))
      BY <1>4 DEF handle_route_msg, SentToNodes, RouteOf
    <3>2. ~IsSync(ToClient(RouteOf(d)))
      BY DEF IsSync, ToClient
    <3> QED
      BY <3>1, <3>2 DEF NoSyncAdded
  <2>3. NoMsgAdded(tq[n], tq'[n])
    <3>1. PICK t : t = [kind |-> "trigger", route |-> RouteOf(d)]
      OBVIOUS
    <3>2. tq'[n] = tq[n] \/ tq'[n] = Append(tq[n], t)
      BY <1>1, <1>4, <3>1, QueuesAre DEF handle_route_msg, broker_route_to_client, RouteOf
    <3>3. t.kind # "msg"
      BY <3>1
    <3> QED
      BY <3>2, <3>3 DEF NoMsgAdded
  <2> QED
    BY <1>1, <2>1, <2>2, <2>3, NothingArrives DEF nodeVars
<1> QED
  BY <1>1, <1>2, <1>3, <1>4, NoSlaveMessages DEF BrokerStep

(* A task is taken, and the node leaves itself at most an answer.          *)
TaskDone(n) == /\ tq[n] # <<>> /\ NoMsgAdded(Tail(tq[n]), tq'[n])
               /\ \A p \in Nodes : p # n => tq'[p] = tq[p]

LEMMA TaskTaken ==
  ASSUME QueuesTyped, NEW n \in Nodes, RunTask(n)
  PROVE  crash(n) \/ TaskDone(n)
<1>1. ASSUME tq[n] # <<>>, Done(n) PROVE TaskDone(n)
  BY <1>1, QueuesAre DEF Done, TaskDone, NoMsgAdded
<1>2. CASE trigger_interface(n)
  <2>1. PICK t : t = ResponseTask(Routed(n))
    OBVIOUS
  <2>2. /\ tq[n] # <<>>
        /\ Done(n) \/ tq' = [tq EXCEPT ![n] = Append(Tail(@), t)]
    BY <1>2, <2>1 DEF trigger_interface, CallsInterface, Triggers, ReceivesOnNode, Runs
  <2>3. t.kind # "msg"
    BY <2>1 DEF ResponseTask
  <2>4. CASE tq' = [tq EXCEPT ![n] = Append(Tail(@), t)]
    BY <2>2, <2>3, <2>4, QueuesAre DEF TaskDone, NoMsgAdded
  <2> QED
    BY <1>1, <2>2, <2>4
<1>3. CASE ~trigger_interface(n) /\ ~crash(n)
  <2>1. tq[n] # <<>> /\ Done(n)
    BY <1>3 DEF RunTask, handle_unbound_msg, handle_broker_sync_data, trigger_callback,
       trigger_callback_throws, trigger_nothing, call_impl_refused, call_impl, response,
       handle_broken_impl, timer_reconnect_broker, AnswersCallback, Triggers,
       ReceivesOnNode, Runs
  <2> QED
    BY <1>1, <2>1
<1> QED
  BY <1>2, <1>3

(* A synchronisation is read by handle_broker_sync_data, and nothing else. *)
LEMMA SyncRead ==
  ASSUME NEW n \in Nodes, RunTask(n), 4 \in m_ffslot[n], ~crash(n),
         Task(n).kind = "msg", IsSync(Task(n).msg)
  PROVE  handle_broker_sync_data(n)
<1>1. Task(n).kind # "trigger" /\ Task(n).kind # "call" /\ Task(n).kind # "response"
      /\ Task(n).kind # "broken" /\ Task(n).kind # "reconnect"
  OBVIOUS
<1>2. Task(n).msg.cmd # "BROKER_TO_CLIENT_MSG" /\ CommandId(Task(n).msg.cmd) = 4
  BY DEF IsSync, CommandId
<1>3. ~Triggers(n)
  BY <1>1, <1>2 DEF Triggers, ReceivesOnNode, Runs, Task
<1> QED
  BY <1>1, <1>2, <1>3 DEF RunTask, handle_unbound_msg, trigger_callback,
     trigger_callback_throws, trigger_interface, trigger_nothing, call_impl_refused,
     call_impl, response, handle_broken_impl, timer_reconnect_broker, AnswersCallback,
     CallsInterface, Runs, Task

LEMMA TaskArrives ==
  ASSUME TypeOK, News, NEW n \in Nodes, RunTask(n), ~crash(n), UNCHANGED brokerVars,
         NEW c \in Conns, Up(n, c), m_master_broker_sock'[n] = c
  PROVE  \A a \in Aspects : Arrives(a, n, c)'
<1> TAKE a \in Aspects
<1>1. QueuesTyped /\ NodesTyped /\ TaskDone(n) /\ Arrives(a, n, c) /\ SameTruth(a, c)
  BY TaskTaken, TypeParts DEF SharedTyped, News, SameTruth, brokerVars
<1>2. UNCHANGED toNode
  BY DEF RunTask, handle_unbound_msg, handle_broker_sync_data, trigger_callback,
     trigger_callback_throws, trigger_interface, trigger_nothing, call_impl_refused,
     call_impl, response, handle_broken_impl, timer_reconnect_broker, netVars
<1>3. NothingSaid(a, "task", Tail(tq[n]), tq'[n])
  BY <1>1 DEF TaskDone, NoMsgAdded, NothingSaid, Says
<1>4. CASE handle_broker_sync_data(n)
  <2>1. PICK m : m = Task(n).msg
    OBVIOUS
  <2>2. /\ m_node_id'[n] = IF m.node_id # 0 THEN m.node_id ELSE m_node_id[n]
        /\ m_broker_client_name2nodeid'[n] = NameTable(m.broker_client_info)
        /\ Task(n).kind = "msg" /\ IsSync(m)
    BY <1>1, <1>4, <2>1
    DEF handle_broker_sync_data, NodesTyped, ReceivesOnNode, Runs, IsSync, Task
  <2>3. /\ Says(a, "task", Task(n)) /\ Matches(a, c, "task", Task(n)) => Knows(a, n, c)'
        /\ ~Says(a, "task", Task(n)) /\ Knows(a, n, c) => Knows(a, n, c)'
    BY <1>1, <2>1, <2>2 DEF Says, Matches, MessageIn, Knows, SameTruth, Aspects
  <2> QED
    BY <1>1, <1>2, <1>3, <2>3, ArrivesDone DEF TaskDone
<1>5. CASE ~handle_broker_sync_data(n)
  <2>1. ~Says(a, "task", Task(n))
    BY <1>5, SyncRead DEF Says, MessageIn, Up
  <2>2. ~handle_broken_impl(n)
    <3>1. c # NoConn
      BY NetworkAssumption
    <3> QED
      BY <1>1, <3>1 DEF handle_broken_impl, NodesTyped
  <2>3. UNCHANGED <<m_node_id, m_broker_client_name2nodeid>>
    BY <1>5, <2>2 DEF RunTask, handle_unbound_msg, trigger_callback,
       trigger_callback_throws, trigger_interface, trigger_nothing, call_impl_refused,
       call_impl, response, timer_reconnect_broker, nodeVars
  <2>4. Knows(a, n, c) => Knows(a, n, c)'
    BY <1>1, <2>3 DEF Knows, SameTruth
  <2> QED
    BY <1>1, <1>2, <1>3, <2>1, <2>4, ArrivesDone DEF TaskDone
<1> QED
  BY <1>4, <1>5

LEMMA OthersTaskArrives ==
  ASSUME TypeOK, News, NEW p \in Nodes, RunTask(p), UNCHANGED brokerVars,
         NEW n \in Nodes, n # p \/ crash(p), NEW c \in Conns, Up(n, c)
  PROVE  \A a \in Aspects : Arrives(a, n, c)'
<1>1. QueuesTyped /\ NodesTyped /\ (crash(p) \/ TaskDone(p))
  BY TaskTaken, TypeParts DEF SharedTyped
<1>2. tq'[n] = tq[n]
  BY <1>1 DEF crash, routeVars, TaskDone
<1>3. UNCHANGED toNode
  BY DEF RunTask, handle_unbound_msg, handle_broker_sync_data, trigger_callback,
     trigger_callback_throws, trigger_interface, trigger_nothing, call_impl_refused,
     call_impl, response, handle_broken_impl, timer_reconnect_broker, crash, netVars
<1>4. /\ m_node_id'[n] = m_node_id[n]
      /\ m_broker_client_name2nodeid'[n] = m_broker_client_name2nodeid[n]
  <2>1. CASE handle_broker_sync_data(p) /\ ~crash(p)
    BY <1>1, <2>1 DEF handle_broker_sync_data, NodesTyped
  <2>2. CASE handle_broken_impl(p) /\ ~crash(p)
    BY <1>1, <2>2 DEF handle_broken_impl, NodesTyped, Cleared
  <2>3. CASE crash(p) \/ (~handle_broker_sync_data(p) /\ ~handle_broken_impl(p))
    BY <2>3 DEF RunTask, handle_unbound_msg, trigger_callback, trigger_callback_throws,
       trigger_interface, trigger_nothing, call_impl_refused, call_impl, response,
       timer_reconnect_broker, crash, nodeVars
  <2> QED
    BY <2>1, <2>2, <2>3
<1>5. NoSyncAdded(toNode[c], toNode'[c]) /\ NoMsgAdded(tq[n], tq'[n])
  BY <1>2, <1>3 DEF NoSyncAdded, NoMsgAdded
<1> QED
  BY <1>1, <1>4, <1>5, NothingArrives DEF brokerVars

(* The node is done with the connections it does not use.                  *)
LEMMA OneHeard ==
  ASSUME Owners, Heard, NEW n \in Nodes, NEW c, Up(n, c),
         NEW d \in Conns, d # c, Owner[d] = n
  PROVE  toNode[d] = <<>>
<1>1. DoneWith(d)
  BY DEF Up, Others
<1>2. CASE link[d] = "unused"
  BY <1>2 DEF Owners, Orderly, Heard, Unheard
<1>3. CASE <<"node", d>> \in deleted
  BY <1>3 DEF Heard, DeletedOver, Over
<1> QED
  BY <1>1, <1>2, <1>3 DEF DoneWith

LEMMA NetworkArrives ==
  ASSUME TypeOK, Owners, Heard, News, NEW d \in Conns, NetworkThread(d) \/ Breaks(d),
         NEW n \in Nodes, NEW c \in Conns, Up(n, c), Owner[c] = n, link'[c] = "open"
  PROVE  \A a \in Aspects : Arrives(a, n, c)'
<1>1. QueuesTyped /\ NetTyped
  BY TypeParts DEF SharedTyped
<1>2. UNCHANGED <<m_broker_client_info, session, m_node_id, m_broker_client_name2nodeid>>
  BY DEF NetworkThread, handle_msg, handle_broken_on_node, Breaks, brokerVars, nodeVars
<1>3. CASE handle_msg(d)
  <2>1. PICK t : t = [kind |-> "msg", msg |-> Head(toNode[d])]
    OBVIOUS
  <2>2. /\ toNode[d] # <<>> /\ toNode'[d] = Tail(toNode[d])
        /\ \A x \in Conns : x # d => toNode'[x] = toNode[x]
        /\ Owner[d] = n => tq'[n] = Append(tq[n], t)
        /\ Owner[d] # n => tq'[n] = tq[n]
    BY <1>1, <1>3, <2>1, QueuesAre DEF handle_msg, Produce
  <2>3. CASE d = c
    <3> TAKE a \in Aspects
    <3>1. Arrives(a, n, c) /\ SameTruth(a, c) /\ (Knows(a, n, c) => Knows(a, n, c)')
      BY <1>2 DEF News, SameTruth, Knows
    <3> QED
      BY <1>1, <2>1, <2>2, <2>3, <3>1, ArrivesMoved
  <2>4. CASE d # c
    <3>1. Owner[d] # n
      BY <2>2, <2>4, OneHeard
    <3>2. NoSyncAdded(toNode[c], toNode'[c]) /\ NoMsgAdded(tq[n], tq'[n])
      BY <2>2, <2>4, <3>1 DEF NoSyncAdded, NoMsgAdded
    <3> QED
      BY <1>1, <1>2, <3>2, NothingArrives
  <2> QED
    BY <2>3, <2>4
<1>4. CASE handle_broken_on_node(d)
  <2>1. PICK t : t = BrokenTask(d)
    OBVIOUS
  <2>2. t.kind # "msg"
    BY <2>1 DEF BrokenTask
  <2>3. (tq'[n] = tq[n] \/ tq'[n] = Append(tq[n], t)) /\ UNCHANGED toNode
    BY <1>1, <1>4, <2>1, QueuesAre DEF handle_broken_on_node, Produce, netVars
  <2>4. NoSyncAdded(toNode[c], toNode'[c]) /\ NoMsgAdded(tq[n], tq'[n])
    BY <2>2, <2>3 DEF NoSyncAdded, NoMsgAdded
  <2> QED
    BY <1>1, <1>2, <2>4, NothingArrives
<1>5. CASE Breaks(d)
  <2>1. CloseWith(d, toBroker[d]) /\ UNCHANGED tq
    BY <1>5 DEF Breaks, Break, routeVars
  <2>2. c # d
    BY <1>1, <2>1 DEF CloseWith, NetTyped
  <2>3. toNode'[c] = toNode[c]
    BY <1>1, <2>1, <2>2, QueuesAre DEF CloseWith
  <2>4. NoSyncAdded(toNode[c], toNode'[c]) /\ NoMsgAdded(tq[n], tq'[n])
    BY <2>1, <2>3 DEF NoSyncAdded, NoMsgAdded
  <2> QED
    BY <1>1, <1>2, <2>4, NothingArrives
<1> QED
  BY <1>3, <1>4, <1>5 DEF NetworkThread

LEMMA ProducedArrives ==
  ASSUME TypeOK, News, NEW n \in Nodes, NEW c \in Conns, Up(n, c),
         \/ \E p \in Nodes : Timer(p) \/ OpenStarts(p) \/ OpenReturns(p)
         \/ \E k \in Calls : Application(k)
         \/ UNCHANGED vars
  PROVE  \A a \in Aspects : Arrives(a, n, c)'
<1>1. QueuesTyped
  BY TypeParts DEF SharedTyped
<1>2. UNCHANGED <<toNode, m_broker_client_info, session, m_node_id,
                  m_broker_client_name2nodeid>>
  BY DEF Timer, OpenStarts, OpenReturns, Application, route_call_reconnect, open,
     open_returns, call, vars, netVars, nodeVars, brokerVars
<1>3. NoMsgAdded(tq[n], tq'[n])
  <2>1. ASSUME NEW p, NEW t, t.kind # "msg", Produce(p, t) PROVE NoMsgAdded(tq[n], tq'[n])
    <3>1. tq'[n] = tq[n] \/ tq'[n] = Append(tq[n], t)
      BY <1>1, <2>1, QueuesAre DEF Produce
    <3> QED
      BY <2>1, <3>1 DEF NoMsgAdded
  <2>2. UNCHANGED tq \/ \E p, t : t.kind # "msg" /\ Produce(p, t)
    <3>1. ASSUME NEW p \in Nodes, Timer(p) PROVE \E q, t : t.kind # "msg" /\ Produce(q, t)
      <4>1. PICK t : t = [kind |-> "reconnect"]
        OBVIOUS
      <4>2. t.kind # "msg" /\ Produce(p, t)
        BY <3>1, <4>1 DEF Timer, route_call_reconnect
      <4> QED
        BY <4>2
    <3>2. ASSUME NEW k \in Calls, Application(k) PROVE \E q, t : t.kind # "msg" /\ Produce(q, t)
      <4>1. PICK t : t = [kind |-> "call", call |-> k]
        OBVIOUS
      <4>2. t.kind # "msg" /\ Produce(Caller[k], t)
        BY <3>2, <4>1 DEF Application, call
      <4> QED
        BY <4>2
    <3> QED
      BY <3>1, <3>2 DEF OpenStarts, OpenReturns, open, open_returns, vars, routeVars
  <2> QED
    BY <2>1, <2>2 DEF NoMsgAdded
<1>4. NoSyncAdded(toNode[c], toNode'[c])
  BY <1>2 DEF NoSyncAdded
<1> QED
  BY <1>1, <1>2, <1>3, <1>4, NothingArrives

LEMMA NewsStep ==
  ASSUME TypeOK, Owners, NamesInv, [Next]_vars, NotWrapped'
  PROVE  NamesInv'
<1>1. /\ TypeOK' /\ Owners' /\ SessionsIn' /\ Heard' /\ SessionsIn /\ Heard /\ News
  BY StepTyped, OwnersStep, SessionsInStep, HeardKept DEF NamesInv
<1>2. ASSUME NEW n \in Nodes, NEW c \in Conns, Up(n, c)'
      PROVE  \A a \in Aspects : Arrives(a, n, c)'
  <2>1. /\ Owner[c] = n /\ m_master_broker_sock[n] = c /\ link[c] = "open"
        /\ session[c] # 0 => Up(n, c)
    BY <1>1, <1>2, WasUp
  <2>2. /\ link'[c] = "open" /\ session'[c] # 0 /\ m_master_broker_sock'[n] = c
    BY <1>2 DEF Up
  <2>3. CASE BrokerThread
    <3>1. PICK d \in Conns : BrokerStep(d) /\ UNCHANGED nodeVars
      BY <2>3 DEF BrokerThread
    <3> QED
      BY <1>1, <2>1, <2>2, <3>1, BrokerArrives
  <2>4. CASE ~BrokerThread
    <3>1. UNCHANGED brokerVars
      BY <2>4 DEF Next, NodeThread, Timer, OpenStarts, OpenReturns, NetworkThread, Breaks,
         Application, vars
    <3>2. Up(n, c)
      BY <2>1, <2>2, <3>1 DEF brokerVars
    <3>3. ASSUME NEW p \in Nodes, NodeThread(p) PROVE \A a \in Aspects : Arrives(a, n, c)'
      <4>1. RunTask(p) /\ ((n = p /\ ~crash(p)) \/ n # p \/ crash(p))
        BY <3>3 DEF NodeThread
      <4> QED
        BY <1>1, <2>2, <3>1, <3>2, <4>1, TaskArrives, OthersTaskArrives
    <3>4. ASSUME NEW d \in Conns, NetworkThread(d) \/ Breaks(d)
          PROVE  \A a \in Aspects : Arrives(a, n, c)'
      BY <1>1, <2>1, <2>2, <3>2, <3>4, NetworkArrives
    <3> QED
      BY <1>1, <2>4, <3>2, <3>3, <3>4, ProducedArrives DEF Next
  <2> QED
    BY <2>3, <2>4
<1>3. News'
  <2> SUFFICES ASSUME NEW n \in Nodes, NEW c \in Conns, NEW a \in Aspects, Up(n, c)'
               PROVE  Arrives(a, n, c)'
    BY DEF News, Aspects
  <2> QED
    BY <1>2
<1> QED
  BY <1>1, <1>3 DEF NamesInv

LEMMA NamesInit == Init => NamesInv
<1> SUFFICES ASSUME Init PROVE NamesInv
  OBVIOUS
<1>1. /\ \A c \in Conns : toNode[c] = <<>> /\ session[c] = 0
      /\ \A n \in Nodes : tq[n] = <<>> /\ m_master_broker_sock[n] = NoConn
      /\ deleted = {}
  BY DEF Init, NetInit, BrokerInit, RouteInit, NodeInit
<1>2. SessionsIn /\ News
  BY <1>1 DEF SessionsIn, News, Up
<1>3. Heard
  BY <1>1, EmptyQueue, NetworkAssumption
  DEF Heard, Unheard, DeletedOver, BrokenOver, SocksOwned
<1> QED
  BY <1>2, <1>3 DEF NamesInv

LEMMA NamesHold == Spec => [](RoutingInv /\ (NotWrapped => NamesInv))
<1> DEFINE I == RoutingInv /\ (NotWrapped => NamesInv)
<1>1. Init => I
  BY RoutingInit, NamesInit
<1>2. ASSUME RoutingInv, NotWrapped => NamesInv, [Next]_vars
      PROVE  (NotWrapped => NamesInv)'
  <2> SUFFICES ASSUME NotWrapped' PROVE NamesInv'
    OBVIOUS
  <2>1. TypeOK /\ NotWrapped
    BY <1>2, NotWrappedBefore DEF RoutingInv
  <2>2. Owners /\ NamesInv
    BY <1>2, <2>1 DEF RoutingInv, Routing
  <2> QED
    BY <1>2, <2>1, <2>2, NewsStep
<1> QED
  BY <1>1, <1>2, RoutingHolds, PTL DEF Spec

LEMMA NothingPends ==
  ASSUME QueuesTyped, NEW n \in Nodes, NEW c \in Conns, Owner[c] = n, NEW a \in Aspects,
         Arrives(a, n, c), ~SyncPending(n)
  PROVE  Knows(a, n, c)
<1>1. /\ \A i \in 1..Len(toNode[c]) : ~Says(a, "link", toNode[c][i])
      /\ \A i \in 1..Len(tq[n]) : ~Says(a, "task", tq[n][i])
  BY DEF SyncPending, Says, MessageIn
<1> QED
  BY <1>1 DEF Arrives, Waiting, EndsWell

(* A node that is registered by the connection it uses, and has done with  *)
(* its other ones, finds every service where the broker has it now when no *)
(* synchronisation is on its way (ffbroker_t::sync_all_register_info,      *)
(* ffrpc_t::handle_broker_sync_data), until alloc_id comes round.          *)
THEOREM NamesAreCurrent == Spec => [](NotWrapped => NamesCurrent)
<1>1. ASSUME RoutingInv, NotWrapped, NamesInv PROVE NamesCurrent
  <2>1. QueuesTyped /\ NodesTyped /\ SocksOwned /\ News
    BY <1>1, TypeParts DEF RoutingInv, SharedTyped, NamesInv, Heard
  <2>2. ASSUME NEW n \in Nodes, NEW c, c = m_master_broker_sock[n], c # NoConn,
               link[c] = "open", session[c] # 0,
               \A d \in Conns \ {c} : Owner[d] = n => DoneWith(d),
               ~SyncPending(n), 4 \in m_ffslot[n]
        PROVE  /\ m_broker_client_name2nodeid[n] = NameTable(m_broker_client_info)
               /\ m_node_id[n] = session[c]
    <3>1. c \in Conns /\ Owner[c] = n
      BY <2>1, <2>2, NodeMaps DEF SocksOwned
    <3>2. Up(n, c)
      BY <2>2, <3>1 DEF Up, Others
    <3>3. Arrives("names", n, c) /\ Arrives("id", n, c)
      BY <2>1, <3>1, <3>2 DEF News, Aspects
    <3>4. Knows("names", n, c) /\ Knows("id", n, c)
      BY <2>1, <2>2, <3>1, <3>3, NothingPends DEF Aspects
    <3> QED
      BY <3>4 DEF Knows
  <2> QED
    BY <2>2 DEF NamesCurrent
<1> QED
  BY <1>1, NamesHold, PTL

-----------------------------------------------------------------------------
(* The places where the request or the answer b of a call can be: messages *)
(* and tasks that carry it, the interface it has run, and the callback.    *)
SentCarries(m, b) == IsRoute(m) /\ m.route.body = b

ReadCarries(m, b) == ~IsSync(m) /\ m.route.body = b

TaskCarries(t, b) == \/ t.kind = "call" /\ b = Request(t.call)
                     \/ t.kind = "msg" /\ ReadCarries(t.msg, b)
                     \/ t.kind = "trigger" /\ t.route.body = b
                     \/ t.kind = "response" /\ t.body = b

Kinds == {"sent", "read", "task", "served", "ran"}

At(b, w, x, i) ==
  \/ /\ w = "sent" /\ x \in Conns /\ i \in 1..Len(toBroker[x])
     /\ SentCarries(toBroker[x][i], b)
  \/ /\ w = "read" /\ x \in Conns /\ i \in 1..Len(toNode[x])
     /\ ReadCarries(toNode[x][i], b)
  \/ /\ w = "task" /\ x \in Nodes /\ i \in 1..Len(tq[x])
     /\ TaskCarries(tq[x][i], b)
  \/ w = "served" /\ x \in Nodes /\ i \in 1..Len(served[x]) /\ b = Request(served[x][i])
  \/ w = "ran" /\ x \in Calls /\ i \in 1..Len(ran[x]) /\ b = Answer(x)

OnlyAt(b, v, y, z) ==
  \A w \in Kinds : \A x, i : At(b, w, x, i) => w = v /\ x = y /\ i = z

OnePlace(b) == \E v, y, z : OnlyAt(b, v, y, z)

Somewhere(b) == \E w \in Kinds : \E x, i : At(b, w, x, i)

(* What a step adds to the histories, and whether it brings b to a place,  *)
(* when XB, XN and XT are what it puts into the queues.                    *)
Logs == /\ \A n \in Nodes : \/ served'[n] = served[n]
                            \/ \E k \in Calls : served'[n] = Append(served[n], k)
        /\ \A k \in Calls : \/ ran'[k] = ran[k]
                            \/ \E b \in Bodies : ran'[k] = Append(ran[k], b)

Gets(b, w, x, XB, XN, XT) ==
  \/ w = "sent" /\ x \in Conns /\ \E m \in XB[x] : SentCarries(m, b)
  \/ w = "read" /\ x \in Conns /\ \E m \in XN[x] : ReadCarries(m, b)
  \/ w = "task" /\ x \in Nodes /\ \E t \in XT[x] : TaskCarries(t, b)
  \/ w = "served" /\ x \in Nodes /\ \E k : served'[x] = Append(served[x], k) /\ b = Request(k)
  \/ w = "ran" /\ x \in Calls /\ ran'[x] # ran[x] /\ b = Answer(x)

(* What is in a place after the step was there before, or one place further*)
(* back, or is last and new.                                               *)
Moved(b, w, x, d, z, new) ==
  \A i : At(b, w, x, i)' => /\ i \in Nat \ {0}
                            /\ At(b, w, x, i + d) \/ (i = z /\ new)

LEMMA PlaceMoves ==
  ASSUME TypeOK, Logs, NEW XB, NEW XN, NEW XT, Moves(XB, XN, XT),
         NEW b, NEW w \in Kinds, NEW x
  PROVE  \E d \in {0, 1} : \E z : Moved(b, w, x, d, z, Gets(b, w, x, XB, XN, XT))
<1>1. CASE w = "sent" /\ x \in Conns
  <2>1. From(toBroker[x], toBroker'[x], XB[x])
    BY <1>1 DEF Moves
  <2>2. PICK d \in {0, 1} : Follows(toBroker[x], toBroker'[x], d, XB[x])
    BY <2>1 DEF From
  <2>3. Len(toBroker'[x]) \in Nat
    BY <2>1, QueueLength DEF From
  <2> DEFINE z == Len(toBroker'[x])
  <2>4. ASSUME NEW i, At(b, w, x, i)'
        PROVE  /\ i \in Nat \ {0}
               /\ \/ At(b, w, x, i + d)
                  \/ i = z /\ Gets(b, w, x, XB, XN, XT)
    <3>1. i \in 1..Len(toBroker'[x]) /\ SentCarries(toBroker'[x][i], b)
      BY <1>1, <2>4 DEF At, SentCarries
    <3>2. \/ i + d \in 1..Len(toBroker[x]) /\ toBroker'[x][i] = toBroker[x][i + d]
          \/ i = z /\ toBroker'[x][i] \in XB[x]
      BY <2>2, <3>1 DEF Follows
    <3>3. i + d \in 1..Len(toBroker[x]) /\ toBroker'[x][i] = toBroker[x][i + d]
            => At(b, w, x, i + d)
      BY <1>1, <3>1 DEF At
    <3> QED
      BY <1>1, <2>3, <3>1, <3>2, <3>3 DEF Gets
  <2>5. Moved(b, w, x, d, z, Gets(b, w, x, XB, XN, XT))
    BY <2>4 DEF Moved
  <2> QED
    BY <2>5
<1>2. CASE w = "read" /\ x \in Conns
  <2>1. From(toNode[x], toNode'[x], XN[x])
    BY <1>2 DEF Moves
  <2>2. PICK d \in {0, 1} : Follows(toNode[x], toNode'[x], d, XN[x])
    BY <2>1 DEF From
  <2>3. Len(toNode'[x]) \in Nat
    BY <2>1, QueueLength DEF From
  <2> DEFINE z == Len(toNode'[x])
  <2>4. ASSUME NEW i, At(b, w, x, i)'
        PROVE  /\ i \in Nat \ {0}
               /\ \/ At(b, w, x, i + d)
                  \/ i = z /\ Gets(b, w, x, XB, XN, XT)
    <3>1. i \in 1..Len(toNode'[x]) /\ ReadCarries(toNode'[x][i], b)
      BY <1>2, <2>4 DEF At, ReadCarries
    <3>2. \/ i + d \in 1..Len(toNode[x]) /\ toNode'[x][i] = toNode[x][i + d]
          \/ i = z /\ toNode'[x][i] \in XN[x]
      BY <2>2, <3>1 DEF Follows
    <3>3. i + d \in 1..Len(toNode[x]) /\ toNode'[x][i] = toNode[x][i + d]
            => At(b, w, x, i + d)
      BY <1>2, <3>1 DEF At
    <3> QED
      BY <1>2, <2>3, <3>1, <3>2, <3>3 DEF Gets
  <2>5. Moved(b, w, x, d, z, Gets(b, w, x, XB, XN, XT))
    BY <2>4 DEF Moved
  <2> QED
    BY <2>5
<1>3. CASE w = "task" /\ x \in Nodes
  <2>1. From(tq[x], tq'[x], XT[x])
    BY <1>3 DEF Moves
  <2>2. PICK d \in {0, 1} : Follows(tq[x], tq'[x], d, XT[x])
    BY <2>1 DEF From
  <2>3. Len(tq'[x]) \in Nat
    BY <2>1, QueueLength DEF From
  <2> DEFINE z == Len(tq'[x])
  <2>4. ASSUME NEW i, At(b, w, x, i)'
        PROVE  /\ i \in Nat \ {0}
               /\ \/ At(b, w, x, i + d)
                  \/ i = z /\ Gets(b, w, x, XB, XN, XT)
    <3>1. i \in 1..Len(tq'[x]) /\ TaskCarries(tq'[x][i], b)
      BY <1>3, <2>4 DEF At, TaskCarries, ReadCarries
    <3>2. \/ i + d \in 1..Len(tq[x]) /\ tq'[x][i] = tq[x][i + d]
          \/ i = z /\ tq'[x][i] \in XT[x]
      BY <2>2, <3>1 DEF Follows
    <3>3. i + d \in 1..Len(tq[x]) /\ tq'[x][i] = tq[x][i + d]
            => At(b, w, x, i + d)
      BY <1>3, <3>1 DEF At
    <3> QED
      BY <1>3, <2>3, <3>1, <3>2, <3>3 DEF Gets
  <2>5. Moved(b, w, x, d, z, Gets(b, w, x, XB, XN, XT))
    BY <2>4 DEF Moved
  <2> QED
    BY <2>5
<1>4. CASE w = "served" /\ x \in Nodes
  <2>1. served[x] \in Seq(Calls) /\ Len(served[x]) \in Nat
    BY <1>4, TypeParts, LenProperties DEF NodesTyped
  <2> DEFINE z == Len(served[x]) + 1
  <2>2. ASSUME NEW i, At(b, w, x, i)'
        PROVE  /\ i \in Nat \ {0}
               /\ \/ At(b, w, x, i + 0)
                  \/ i = z /\ Gets(b, w, x, XB, XN, XT)
    <3>1. i \in 1..Len(served'[x]) /\ b = Request(served'[x][i])
      BY <1>4, <2>2 DEF At, Request
    <3>2. CASE served'[x] = served[x]
      BY <1>4, <2>1, <3>1, <3>2 DEF At
    <3>3. CASE \E k \in Calls : served'[x] = Append(served[x], k)
      <4>1. PICK k \in Calls : served'[x] = Append(served[x], k)
        BY <3>3
      <4>2. /\ Len(served'[x]) = z /\ served'[x][z] = k
            /\ \A j \in 1..Len(served[x]) : served'[x][j] = served[x][j]
        BY <2>1, <4>1, AppendProperties
      <4>3. i \in 1..Len(served[x]) \/ i = z
        BY <2>1, <3>1, <4>2
      <4>4. i \in 1..Len(served[x]) => i + 0 = i /\ At(b, w, x, i)
        BY <1>4, <2>1, <3>1, <4>2 DEF At
      <4> QED
        BY <1>4, <2>1, <3>1, <4>1, <4>2, <4>3, <4>4 DEF Gets
    <3> QED
      BY <1>4, <3>2, <3>3 DEF Logs
  <2>5. Moved(b, w, x, 0, z, Gets(b, w, x, XB, XN, XT))
    BY <2>2 DEF Moved
  <2> QED
    BY <2>5
<1>5. CASE w = "ran" /\ x \in Calls
  <2>1. ran[x] \in Seq(Bodies) /\ Len(ran[x]) \in Nat
    BY <1>5, TypeParts, LenProperties DEF NodesTyped
  <2> DEFINE z == Len(ran[x]) + 1
  <2>2. ASSUME NEW i, At(b, w, x, i)'
        PROVE  /\ i \in Nat \ {0}
               /\ \/ At(b, w, x, i + 0)
                  \/ i = z /\ Gets(b, w, x, XB, XN, XT)
    <3>1. i \in 1..Len(ran'[x]) /\ b = Answer(x)
      BY <1>5, <2>2 DEF At, Answer
    <3>2. CASE ran'[x] = ran[x]
      BY <1>5, <2>1, <3>1, <3>2 DEF At
    <3>3. CASE \E a \in Bodies : ran'[x] = Append(ran[x], a)
      <4>1. Len(ran'[x]) = z
        BY <2>1, <3>3, AppendProperties
      <4>2. i \in 1..Len(ran[x]) \/ i = z
        BY <2>1, <3>1, <4>1
      <4>3. i \in 1..Len(ran[x]) => i + 0 = i /\ At(b, w, x, i)
        BY <1>5, <2>1, <3>1 DEF At
      <4>4. ran'[x] # ran[x]
        BY <2>1, <4>1
      <4> QED
        BY <1>5, <2>1, <3>1, <4>1, <4>2, <4>3, <4>4 DEF Gets
    <3> QED
      BY <1>5, <3>2, <3>3 DEF Logs
  <2>5. Moved(b, w, x, 0, z, Gets(b, w, x, XB, XN, XT))
    BY <2>2 DEF Moved
  <2> QED
    BY <2>5
<1>6. CASE \A i : ~At(b, w, x, i)'
  BY <1>6 DEF Moved
<1> QED
  BY <1>1, <1>2, <1>3, <1>4, <1>5, <1>6 DEF At, Kinds

(* If the step brings b nowhere it stays in one place.                     *)
LEMMA NobodyGets ==
  ASSUME TypeOK, Logs, NEW XB, NEW XN, NEW XT, Moves(XB, XN, XT), NEW b,
         \A w \in Kinds : \A x : ~Gets(b, w, x, XB, XN, XT)
  PROVE  /\ OnePlace(b) => OnePlace(b)'
         /\ Somewhere(b)' => Somewhere(b)
<1>1. ASSUME NEW w \in Kinds, NEW x
      PROVE  \E d \in {0, 1} : \A i : At(b, w, x, i)' => i \in Nat /\ At(b, w, x, i + d)
  <2>1. PICK d \in {0, 1} : \E z : Moved(b, w, x, d, z, Gets(b, w, x, XB, XN, XT))
    BY PlaceMoves
  <2>2. \A i : At(b, w, x, i)' => i \in Nat /\ At(b, w, x, i + d)
    BY <2>1 DEF Moved
  <2> QED
    BY <2>2
<1>2. Somewhere(b)' => Somewhere(b)
  BY <1>1 DEF Somewhere, Kinds
<1>3. ASSUME OnePlace(b)
      PROVE  OnePlace(b)'
  <2>1. PICK v, y, z : OnlyAt(b, v, y, z)
    BY <1>3 DEF OnePlace
  <2>2. CASE v \notin Kinds
    <3>1. \A w \in Kinds : \A x, i : ~At(b, w, x, i)'
      BY <1>1, <2>1, <2>2 DEF OnlyAt
    <3>2. OnlyAt(b, v, y, z)'
      BY <3>1 DEF OnlyAt, Kinds
    <3> QED
      BY <3>2 DEF OnePlace
  <2>3. CASE v \in Kinds
    <3>1. PICK d \in {0, 1} : \A i : At(b, v, y, i)' => i \in Nat /\ At(b, v, y, i + d)
      BY <1>1, <2>3
    <3>2. ASSUME NEW w \in Kinds, NEW x, NEW i, At(b, w, x, i)'
          PROVE  w = v /\ x = y /\ i = z - d
      <4>1. w = v /\ x = y
        BY <1>1, <2>1, <3>2 DEF OnlyAt
      <4>2. i \in Nat /\ At(b, v, y, i + d)
        BY <3>1, <3>2, <4>1
      <4>3. i + d = z
        BY <2>1, <2>3, <4>2 DEF OnlyAt
      <4> QED
        BY <4>1, <4>2, <4>3
    <3>3. OnlyAt(b, v, y, z - d)'
      BY <3>2 DEF OnlyAt, Kinds
    <3> QED
      BY <3>3 DEF OnePlace
  <2> QED
    BY <2>2, <2>3
<1> QED
  BY <1>2, <1>3

(* If it brings b to one place and takes it from the only place where it   *)
(* was, or it was nowhere, then it is in one place again.                  *)
Leaves(b, w, x) == \A i : At(b, w, x, i)' => At(b, w, x, i + 1)

LEMMA OneGets ==
  ASSUME TypeOK, Logs, NEW XB, NEW XN, NEW XT, Moves(XB, XN, XT), NEW b,
         NEW u, NEW s, OnlyAt(b, u, s, 1), Leaves(b, u, s),
         NEW v \in Kinds, NEW y,
         \A w \in Kinds : \A x : Gets(b, w, x, XB, XN, XT) => w = v /\ x = y
  PROVE  OnePlace(b)'
<1>0. PICK e \in {0, 1} : \E z : Moved(b, v, y, e, z, Gets(b, v, y, XB, XN, XT))
  BY PlaceMoves
<1>1. PICK z : Moved(b, v, y, e, z, Gets(b, v, y, XB, XN, XT))
  BY <1>0
<1>2. ASSUME NEW w \in Kinds, NEW x, NEW i, i \in Nat \ {0}, NEW d \in {0, 1},
             At(b, w, x, i)', At(b, w, x, i + d)
      PROVE  FALSE
  <2>1. w = u /\ x = s
    BY <1>2 DEF OnlyAt
  <2>2. At(b, w, x, i + 1)
    BY <1>2, <2>1 DEF Leaves
  <2>3. i + 1 = 1
    BY <2>2, <1>2 DEF OnlyAt
  <2> QED
    BY <1>2, <2>3
<1>3. ASSUME NEW w \in Kinds, NEW x, NEW i, At(b, w, x, i)'
      PROVE  w = v /\ x = y /\ i = z
  <2>1. PICK d \in {0, 1} : \E a : Moved(b, w, x, d, a, Gets(b, w, x, XB, XN, XT))
    BY PlaceMoves
  <2>2. /\ i \in Nat \ {0}
        /\ At(b, w, x, i + d) \/ Gets(b, w, x, XB, XN, XT)
    BY <1>3, <2>1 DEF Moved
  <2>3. w = v /\ x = y
    BY <1>2, <1>3, <2>2
  <2>4. At(b, w, x, i + e) \/ i = z
    BY <1>1, <1>3, <2>3 DEF Moved
  <2> QED
    BY <1>2, <1>3, <2>2, <2>3, <2>4
<1>4. OnlyAt(b, v, y, z)'
  BY <1>3 DEF OnlyAt, Kinds
<1> QED
  BY <1>4 DEF OnePlace

(* What is at the head of a queue is nowhere else, and leaves it.          *)
LEMMA OnlyAtHead ==
  ASSUME NEW b, OnePlace(b), NEW w \in Kinds, NEW x, At(b, w, x, 1)
  PROVE  OnlyAt(b, w, x, 1)
BY DEF OnePlace, OnlyAt

LEMMA NowhereIsOnly ==
  ASSUME NEW b, ~Somewhere(b)
  PROVE  OnlyAt(b, "none", "none", 1) /\ Leaves(b, "none", "none")
BY DEF Somewhere, OnlyAt, Leaves, At

LEMMA HeadLeaves ==
  ASSUME QueuesTyped, NEW b
  PROVE  /\ \A c \in Conns : Follows(toBroker[c], toBroker'[c], 1, {}) => Leaves(b, "sent", c)
         /\ \A c \in Conns : Follows(toNode[c], toNode'[c], 1, {}) => Leaves(b, "read", c)
         /\ \A n \in Nodes : \A X : Follows(tq[n], tq'[n], 1, X)
                                      /\ (\A t \in X : ~TaskCarries(t, b))
                                    => Leaves(b, "task", n)
<1>1. ASSUME NEW c \in Conns, Follows(toBroker[c], toBroker'[c], 1, {})
      PROVE  Leaves(b, "sent", c)
  BY <1>1 DEF Leaves, At, Follows, SentCarries
<1>2. ASSUME NEW c \in Conns, Follows(toNode[c], toNode'[c], 1, {})
      PROVE  Leaves(b, "read", c)
  BY <1>2 DEF Leaves, At, Follows, ReadCarries
<1>3. ASSUME NEW n \in Nodes, NEW X, Follows(tq[n], tq'[n], 1, X),
             \A t \in X : ~TaskCarries(t, b)
      PROVE  Leaves(b, "task", n)
  BY <1>3 DEF Leaves, At, Follows, TaskCarries, ReadCarries
<1> QED
  BY <1>1, <1>2, <1>3

-----------------------------------------------------------------------------
(* Steps that run no interface and no callback.                            *)
Carried(b) == /\ OnePlace(b) => OnePlace(b)'
              /\ Somewhere(b)' => Somewhere(b)

LEMMA ServedGrows ==
  ASSUME TypeOK, NEW n \in Nodes, NEW k
  PROVE  served[n] # Append(served[n], k)
<1>1. served[n] \in Seq(Calls) /\ Len(served[n]) \in Nat
  BY TypeParts, LenProperties DEF NodesTyped
<1>2. Len(Append(served[n], k)) = Len(served[n]) + 1
  BY <1>1
<1> QED
  BY <1>1, <1>2

LEMMA SameLogs ==
  ASSUME TypeOK, UNCHANGED <<served, ran>>
  PROVE  /\ Logs
         /\ \A b, x, XB, XN, XT : /\ ~Gets(b, "served", x, XB, XN, XT)
                                  /\ ~Gets(b, "ran", x, XB, XN, XT)
BY ServedGrows DEF Logs, Gets

LEMMA QuietStep ==
  ASSUME TypeOK, UNCHANGED <<served, ran>>, NEW XB, NEW XN, NEW XT, Moves(XB, XN, XT),
         NEW b,
         \A c \in Conns : /\ \A m \in XB[c] : ~SentCarries(m, b)
                          /\ \A m \in XN[c] : ~ReadCarries(m, b),
         \A n \in Nodes : \A t \in XT[n] : ~TaskCarries(t, b)
  PROVE  Carried(b)
<1>1. \A w \in Kinds : \A x : ~Gets(b, w, x, XB, XN, XT)
  BY SameLogs DEF Gets, Kinds
<1> QED
  BY <1>1, SameLogs, NobodyGets DEF Carried

(* A message or a task that goes from the head of one queue into another.  *)
LEMMA PassingStep ==
  ASSUME TypeOK, UNCHANGED <<served, ran>>, NEW XB, NEW XN, NEW XT, Moves(XB, XN, XT),
         NEW b, NEW u \in Kinds, NEW s, At(b, u, s, 1), Leaves(b, u, s),
         NEW v \in {"sent", "read", "task"}, NEW y,
         \A c \in Conns : /\ \A m \in XB[c] : SentCarries(m, b) => v = "sent" /\ y = c
                          /\ \A m \in XN[c] : ReadCarries(m, b) => v = "read" /\ y = c,
         \A n \in Nodes : \A t \in XT[n] : TaskCarries(t, b) => v = "task" /\ y = n
  PROVE  Carried(b)
<1>1. \A w \in Kinds : \A x : Gets(b, w, x, XB, XN, XT) => w = v /\ x = y
  BY SameLogs DEF Gets, Kinds
<1>2. v \in Kinds /\ Somewhere(b)
  BY DEF Kinds, Somewhere
<1>3. OnePlace(b) => OnlyAt(b, u, s, 1)
  BY OnlyAtHead
<1> QED
  BY <1>1, <1>2, <1>3, SameLogs, OneGets DEF Carried

(* The broker: a synchronisation carries no call, and a routed message goes*)
(* to a socket or to a node's queue, not to both.                          *)
LEMMA SyncsCarryNone ==
  \A id, ids, slaves, clients, b : \A c \in Conns :
    \A m \in Syncs(id, ids, slaves, clients)[c] : ~ReadCarries(m, b)
BY DEF Syncs, SyncData, ReadCarries, IsSync

LEMMA RegisteringCarriesNone ==
  \A n, b : \A c \in Conns : \A m \in Registering(n)[c] : ~SentCarries(m, b)
BY DEF Registering, RegisterClient, SentCarries, IsRoute

LEMMA NothingCarries ==
  /\ \A c \in Conns : Nowhere[c] = {}
  /\ \A n \in Nodes : NoTask[n] = {}
BY DEF Nowhere, NoTask

LEMMA RouteCarries ==
  ASSUME TypeOK, NEW c \in Conns, handle_route_msg(c), UNCHANGED <<served, ran>>, NEW b
  PROVE  Carried(b)
<1> DEFINE r == RouteOf(c)
           p == LocalNode(r.dest_node_id)
           sock == m_broker_client_info[r.dest_node_id].sock
<1>1. QueuesTyped /\ Moves(Nowhere, RoutedTo(c), TriggeredAt(c))
  BY RouteMoves, TypeParts DEF SharedTyped
<1>2. /\ \A d \in Conns : \A m \in RoutedTo(c)[d] :
            ReadCarries(m, b) => r.body = b /\ p = NoNode /\ d = sock
      /\ \A n \in Nodes : \A t \in TriggeredAt(c)[n] :
            TaskCarries(t, b) => r.body = b /\ n = p
  BY DEF RoutedTo, TriggeredAt, ReadCarries, TaskCarries, ToClient
<1>3. CASE r.body # b
  BY <1>1, <1>2, <1>3, NothingCarries, QuietStep
<1>4. CASE r.body = b
  <2>1. /\ IsQueue(toBroker[c]) /\ toBroker[c] # <<>> /\ IsRoute(Head(toBroker[c]))
        /\ toBroker'[c] = Tail(toBroker[c])
    BY <1>1, QueuesAre DEF handle_route_msg, Receives, Consumed, IsRoute
  <2>2. 1 \in 1..Len(toBroker[c]) /\ Head(toBroker[c]) = toBroker[c][1]
    BY <2>1, TakenQueue
  <2>3. At(b, "sent", c, 1)
    BY <1>4, <2>1, <2>2 DEF At, SentCarries, RouteOf
  <2>4. Leaves(b, "sent", c)
    BY <1>1, <2>1, FollowsTaken, HeadLeaves
  <2> HIDE DEF p, sock
  <2>5. "sent" \in Kinds /\ NoNode \notin Nodes
    BY SystemAssumption DEF Kinds
  <2>6. CASE p = NoNode
    BY <1>1, <1>2, <2>3, <2>4, <2>5, <2>6, NothingCarries, PassingStep
  <2>7. CASE p # NoNode
    BY <1>1, <1>2, <2>3, <2>4, <2>5, <2>7, NothingCarries, PassingStep
  <2> QED
    BY <2>6, <2>7
<1> QED
  BY <1>3, <1>4

LEMMA BrokerCarries ==
  ASSUME TypeOK, NEW c \in Conns, BrokerStep(c), UNCHANGED <<served, ran>>, NEW b
  PROVE  Carried(b)
<1>1. QueuesTyped
  BY TypeParts DEF SharedTyped
<1>2. CASE handle_client_register(c)
  <2>1. Moves(Nowhere, Syncs(alloc_id(1), m_msg2id', DOMAIN m_slave_broker_sockets,
                             m_broker_client_info'), NoTask)
    BY <1>1, <1>2, ClientRegisterMoves
  <2> QED
    BY <2>1, SyncsCarryNone, NothingCarries, QuietStep
<1>3. CASE reject_client_register(c) \/ handle_broken_unknown(c)
  <2>1. Moves(Nowhere, Nowhere, NoTask)
    BY <1>1, <1>3, RejectMoves, BrokenMoves
  <2> QED
    BY <2>1, NothingCarries, QuietStep
<1>4. CASE handle_broken(c)
  <2>1. Moves(Nowhere, Syncs(0, m_msg2id, DOMAIN m_slave_broker_sockets',
                             m_broker_client_info'), NoTask)
    BY <1>1, <1>4, BrokenMoves
  <2> QED
    BY <2>1, SyncsCarryNone, NothingCarries, QuietStep
<1>5. CASE handle_route_msg(c)
  BY <1>5, RouteCarries
<1> QED
  BY <1>1, <1>2, <1>3, <1>4, <1>5, NoSlaveMessages DEF BrokerStep

(* The threads beside the nodes' own.                                      *)
LEMMA ReadCarried ==
  ASSUME TypeOK, NEW c \in Conns, NetworkThread(c), NEW b
  PROVE  Carried(b)
<1>1. QueuesTyped /\ Owner[c] \in Nodes /\ UNCHANGED <<served, ran>>
  BY TypeParts, SystemAssumption
  DEF SharedTyped, NetworkThread, handle_msg, handle_broken_on_node, nodeVars
<1>2. CASE handle_broken_on_node(c)
  <2>1. Moves(Nowhere, Nowhere, AsTask(Owner[c], BrokenTask(c)))
    BY <1>1, <1>2, ProducerMoves
  <2>2. \A n \in Nodes : \A t \in AsTask(Owner[c], BrokenTask(c))[n] : ~TaskCarries(t, b)
    BY DEF AsTask, BrokenTask, TaskCarries
  <2> QED
    BY <1>1, <2>1, <2>2, NothingCarries, QuietStep
<1>3. CASE handle_msg(c)
  <2> DEFINE m == Head(toNode[c])
             t == [kind |-> "msg", msg |-> m]
  <2>1. Moves(Nowhere, Nowhere, AsTask(Owner[c], t))
    BY <1>1, <1>3, HandleMsgMoves
  <2>2. \A n \in Nodes : \A x \in AsTask(Owner[c], t)[n] :
          TaskCarries(x, b) => ReadCarries(m, b) /\ n = Owner[c]
    BY DEF AsTask, TaskCarries
  <2>3. CASE ~ReadCarries(m, b)
    BY <1>1, <2>1, <2>2, <2>3, NothingCarries, QuietStep
  <2>4. CASE ReadCarries(m, b)
    <3>1. IsQueue(toNode[c]) /\ toNode[c] # <<>> /\ toNode'[c] = Tail(toNode[c])
      BY <1>1, <1>3, QueuesAre DEF handle_msg
    <3>2. 1 \in 1..Len(toNode[c]) /\ m = toNode[c][1]
      BY <3>1, TakenQueue
    <3>3. At(b, "read", c, 1) /\ Leaves(b, "read", c)
      BY <1>1, <2>4, <3>1, <3>2, FollowsTaken, HeadLeaves DEF At
    <3>4. "read" \in Kinds
      BY DEF Kinds
    <3> HIDE DEF t, m
    <3> QED
      BY <1>1, <2>1, <2>2, <3>3, <3>4, NothingCarries, PassingStep
  <2> QED
    BY <2>3, <2>4
<1> QED
  BY <1>2, <1>3 DEF NetworkThread

LEMMA OthersCarry ==
  ASSUME TypeOK, NEW b,
         \/ \E n \in Nodes : Timer(n) \/ OpenStarts(n) \/ OpenReturns(n)
         \/ \E c \in Conns : Breaks(c)
         \/ UNCHANGED vars
  PROVE  Carried(b)
<1>1. QueuesTyped /\ UNCHANGED <<served, ran>>
  BY TypeParts DEF SharedTyped, Timer, route_call_reconnect, OpenStarts, open, OpenReturns,
     open_returns, Breaks, nodeVars, vars
<1>2. ASSUME NEW n \in Nodes, Timer(n)
      PROVE  Carried(b)
  <2>1. Moves(Nowhere, Nowhere, AsTask(n, [kind |-> "reconnect"]))
    BY <1>1, <1>2, ProducerMoves DEF Timer
  <2>2. \A p \in Nodes : \A t \in AsTask(n, [kind |-> "reconnect"])[p] : ~TaskCarries(t, b)
    BY DEF AsTask, TaskCarries
  <2> QED
    BY <1>1, <2>1, <2>2, NothingCarries, QuietStep
<1>3. ASSUME NEW n \in Nodes, OpenStarts(n)
      PROVE  Carried(b)
  <2>1. Moves(Registering(n), Nowhere, NoTask)
    BY <1>1, <1>3, OpenMoves DEF OpenStarts
  <2> QED
    BY <1>1, <2>1, RegisteringCarriesNone, NothingCarries, QuietStep
<1>4. Moves(Nowhere, Nowhere, NoTask) => Carried(b)
  BY <1>1, NothingCarries, QuietStep
<1>5. ASSUME NEW n \in Nodes, OpenReturns(n)
      PROVE  Carried(b)
  BY <1>1, <1>4, <1>5, ProducerMoves DEF OpenReturns
<1>6. ASSUME NEW c \in Conns, Breaks(c)
      PROVE  Carried(b)
  BY <1>1, <1>4, <1>6, BreaksMoves
<1>7. UNCHANGED vars => Carried(b)
  BY <1>1, <1>4, NothingMoves, MovesAre DEF vars, netVars, routeVars
<1> QED
  BY <1>2, <1>3, <1>5, <1>6, <1>7

(* An application's call: the request is new.                              *)
LEMMA CallCarried ==
  ASSUME TypeOK, NEW k \in Calls, Application(k), NEW b
  PROVE  /\ b # Request(k) => Carried(b)
         /\ b = Request(k) /\ ~Somewhere(b) => OnePlace(b)'
<1> DEFINE n == Caller[k]
           X == AsTask(n, [kind |-> "call", call |-> k])
<1>1. QueuesTyped /\ n \in Nodes /\ UNCHANGED <<served, ran>>
  BY TypeParts, SystemAssumption DEF SharedTyped, Application, call
<1>2. Moves(Nowhere, Nowhere, X)
  BY <1>1, ProducerMoves DEF Application
<1>3. \A p \in Nodes : \A t \in X[p] : TaskCarries(t, b) => b = Request(k) /\ p = n
  BY DEF AsTask, TaskCarries
<1>4. b # Request(k) => Carried(b)
  <2> HIDE DEF X
  <2> QED
    BY <1>1, <1>2, <1>3, NothingCarries, QuietStep
<1>5. ASSUME ~Somewhere(b)
      PROVE  OnePlace(b)'
  <2> HIDE DEF X, n
  <2>1. \A w \in Kinds : \A x : Gets(b, w, x, Nowhere, Nowhere, X) => w = "task" /\ x = n
    BY <1>1, <1>3, SameLogs, NothingCarries DEF Gets, Kinds
  <2>2. "task" \in Kinds
    BY DEF Kinds
  <2> QED
    BY <1>1, <1>2, <1>5, <2>1, <2>2, NowhereIsOnly, SameLogs, OneGets
<1> QED
  BY <1>4, <1>5

-----------------------------------------------------------------------------
(* The nodes' own threads.                                                 *)
LEMMA NodeSentCarries ==
  \A n, dest, msg, cb, body, b : \A c \in Conns :
    \A m \in NodeSent(n, dest, msg, cb, body)[c] :
      SentCarries(m, b) => b = body /\ c = m_master_broker_sock[n]
BY DEF NodeSent, SentCarries, RouteMsg, Route

LEMMA TaskAtHead ==
  ASSUME TypeOK, NEW n \in Nodes, tq[n] # <<>>
  PROVE  /\ QueuesTyped /\ IsQueue(tq[n])
         /\ 1 \in 1..Len(tq[n]) /\ Task(n) = tq[n][1]
         /\ \A b : TaskCarries(Task(n), b) => At(b, "task", n, 1) /\ Somewhere(b)
<1>1. QueuesTyped /\ IsQueue(tq[n])
  BY TypeParts, QueuesAre DEF SharedTyped
<1>2. 1 \in 1..Len(tq[n]) /\ Task(n) = tq[n][1]
  BY <1>1, TakenQueue DEF Task
<1>3. \A b : TaskCarries(Task(n), b) => At(b, "task", n, 1)
  BY <1>2 DEF At
<1> QED
  BY <1>1, <1>2, <1>3 DEF Somewhere, Kinds

LEMMA TaskLeaves ==
  ASSUME TypeOK, NEW n \in Nodes, tq[n] # <<>>, NEW b
  PROVE  /\ Done(n) => Leaves(b, "task", n)
         /\ \A t : tq' = [tq EXCEPT ![n] = Append(Tail(@), t)] /\ ~TaskCarries(t, b)
                     => Leaves(b, "task", n)
<1>1. QueuesTyped /\ IsQueue(tq[n]) /\ DOMAIN tq = Nodes
  BY TypeParts, QueuesAre DEF SharedTyped
<1>2. Done(n) => Leaves(b, "task", n)
  <2>1. Done(n) => tq'[n] = Tail(tq[n])
    BY <1>1 DEF Done
  <2>2. Follows(tq[n], Tail(tq[n]), 1, {}) /\ \A u \in {} : ~TaskCarries(u, b)
    BY <1>1, FollowsTaken
  <2>3. \A X : Follows(tq[n], tq'[n], 1, X) /\ (\A u \in X : ~TaskCarries(u, b))
                => Leaves(b, "task", n)
    BY <1>1, HeadLeaves
  <2> QED
    BY <2>1, <2>2, <2>3
<1>3. ASSUME NEW t, tq' = [tq EXCEPT ![n] = Append(Tail(@), t)], ~TaskCarries(t, b)
      PROVE  Leaves(b, "task", n)
  <2>1. tq'[n] = Append(Tail(tq[n]), t)
    BY <1>1, <1>3
  <2>2. Follows(tq[n], Append(Tail(tq[n]), t), 1, {t}) /\ \A u \in {t} : ~TaskCarries(u, b)
    BY <1>1, <1>3, FollowsTaken
  <2>3. \A X : Follows(tq[n], tq'[n], 1, X) /\ (\A u \in X : ~TaskCarries(u, b))
                => Leaves(b, "task", n)
    BY <1>1, HeadLeaves
  <2> QED
    BY <2>1, <2>2, <2>3
<1> QED
  BY <1>2, <1>3

LEMMA SendCarries ==
  ASSUME TypeOK, NEW n \in Nodes, call_impl(n) \/ response(n), NEW b
  PROVE  Carried(b)
<1> DEFINE sock == m_master_broker_sock[n]
<1>1. /\ QueuesTyped /\ sock \in Conns \cup {NoConn} /\ UNCHANGED <<served, ran>>
      /\ tq[n] # <<>> /\ Done(n)
  BY TypeParts, NodeMaps DEF SharedTyped, call_impl, response, Runs, nodeVars
<1>2. Leaves(b, "task", n)
  BY <1>1, TaskLeaves
<1>3. \E XB : /\ Moves(XB, Nowhere, NoTask)
              /\ \A c \in Conns : \A m \in XB[c] :
                   SentCarries(m, b) => c = sock /\ TaskCarries(Task(n), b)
  <2>1. CASE call_impl(n)
    <3>1. Task(n).kind = "call"
      BY <2>1 DEF call_impl, Runs, Task
    <3>2. \A c \in Conns : \A m \in Requested(n)[c] :
            SentCarries(m, b) => c = sock /\ b = Request(Task(n).call)
      <4>1. PICK dest, msg, cb :
              Requested(n) = NodeSent(n, dest, msg, cb, Request(Task(n).call))
        BY DEF Requested
      <4> QED
        BY <4>1, NodeSentCarries
    <3>3. Moves(Requested(n), Nowhere, NoTask)
      BY <1>1, <2>1, SendingMoves
    <3> QED
      BY <3>1, <3>2, <3>3 DEF TaskCarries
  <2>2. CASE response(n)
    <3>1. Task(n).kind = "response"
      BY <2>2 DEF response, Runs, Task
    <3>2. \A c \in Conns : \A m \in Answered(n)[c] :
            SentCarries(m, b) => c = sock /\ b = Task(n).body
      <4>1. PICK dest, cb : Answered(n) = NodeSent(n, dest, 0, cb, Task(n).body)
        BY DEF Answered
      <4> QED
        BY <4>1, NodeSentCarries
    <3>3. Moves(Answered(n), Nowhere, NoTask)
      BY <1>1, <2>2, SendingMoves
    <3> QED
      BY <3>1, <3>2, <3>3 DEF TaskCarries
  <2> QED
    BY <2>1, <2>2
<1>4. PICK XB : /\ Moves(XB, Nowhere, NoTask)
                /\ \A c \in Conns : \A m \in XB[c] :
                     SentCarries(m, b) => c = sock /\ TaskCarries(Task(n), b)
  BY <1>3
<1> HIDE DEF sock
<1>5. CASE ~TaskCarries(Task(n), b)
  BY <1>1, <1>4, <1>5, NothingCarries, QuietStep
<1>6. CASE TaskCarries(Task(n), b)
  <2>1. At(b, "task", n, 1) /\ "task" \in Kinds
    BY <1>1, <1>6, TaskAtHead DEF Kinds
  <2> QED
    BY <1>1, <1>2, <1>4, <2>1, NothingCarries, PassingStep
<1> QED
  BY <1>5, <1>6

LEMMA QuietCarries ==
  ASSUME TypeOK, NEW n \in Nodes, RunTask(n), ~trigger_interface(n),
         UNCHANGED <<served, ran>>, NEW b
  PROVE  Carried(b)
<1>1. QueuesTyped
  BY TypeParts DEF SharedTyped
<1>2. Moves(Nowhere, Nowhere, NoTask) => Carried(b)
  BY NothingCarries, QuietStep
<1>3. Moves(Registering(n), Nowhere, NoTask) => Carried(b)
  BY RegisteringCarriesNone, NothingCarries, QuietStep
<1> QED
  BY <1>1, <1>2, <1>3, QuietMoves, ReconnectMoves, SendCarries DEF RunTask, Quiet

(* A callback takes its answer from the task that brings it.               *)
LEMMA TriggeredCarries ==
  ASSUME NEW n, Triggers(n)
  PROVE  tq[n] # <<>> /\ TaskCarries(Task(n), Routed(n).body)
BY DEF Triggers, ReceivesOnNode, Runs, Task, Routed, TaskCarries, ReadCarries, IsSync

LEMMA CallbackRuns ==
  ASSUME TypeOK, Routing, AllOffered, NEW n \in Nodes,
         trigger_callback(n) \/ trigger_callback_throws(n)
  PROVE  \E k \in Calls : /\ ran' = [ran EXCEPT ![k] = Append(@, Answer(k))]
                          /\ At(Answer(k), "task", n, 1)
<1> DEFINE k == m_ffslot_callback[n][Routed(n).callback_id]
<1>1. AnswersCallback(n) /\ Triggers(n)
  BY DEF trigger_callback, trigger_callback_throws, AnswersCallback
<1>2. k \in Calls /\ Routed(n).body = Answer(k)
  BY <1>1, RunsWithAnswer
<1>3. Routed(n).body.kind = "answer"
  BY <1>2 DEF Answer
<1>4. Exe(k, Routed(n).body)
  BY <1>3 DEF trigger_callback, trigger_callback_throws
<1>5. At(Answer(k), "task", n, 1)
  BY <1>1, <1>2, TriggeredCarries, TaskAtHead
<1> QED
  BY <1>2, <1>4, <1>5 DEF Exe

LEMMA CallbackCarries ==
  ASSUME TypeOK, Routing, AllOffered, NEW n \in Nodes,
         trigger_callback(n) \/ trigger_callback_throws(n), NEW b
  PROVE  Carried(b)
<1>1. /\ QueuesTyped /\ UNCHANGED served /\ tq[n] # <<>> /\ Done(n)
      /\ ran \in [Calls -> Seq(Bodies)]
  BY TypeParts DEF SharedTyped, NodesTyped, trigger_callback, trigger_callback_throws,
     AnswersCallback, Triggers, ReceivesOnNode, Runs
<1>2. Moves(Nowhere, Nowhere, NoTask)
  BY <1>1, QuietMoves DEF Quiet
<1>3. PICK k \in Calls : /\ ran' = [ran EXCEPT ![k] = Append(@, Answer(k))]
                         /\ At(Answer(k), "task", n, 1)
  BY CallbackRuns
<1>4. /\ ran'[k] = Append(ran[k], Answer(k)) /\ Answer(k) \in Bodies
      /\ \A l \in Calls : l # k => ran'[l] = ran[l]
  BY <1>1, <1>3 DEF Answer, Bodies
<1>5. Logs
  BY <1>1, <1>4 DEF Logs
<1>6. \A w \in Kinds : \A x : Gets(b, w, x, Nowhere, Nowhere, NoTask)
                                => w = "ran" /\ x = k /\ b = Answer(k)
  BY <1>1, <1>4, NothingCarries, ServedGrows DEF Gets, Kinds
<1>7. CASE b # Answer(k)
  BY <1>2, <1>5, <1>6, <1>7, NobodyGets DEF Carried
<1>8. CASE b = Answer(k)
  <2>1. Leaves(b, "task", n) /\ "task" \in Kinds /\ "ran" \in Kinds
    BY <1>1, TaskLeaves DEF Kinds
  <2>2. Somewhere(b) /\ (OnePlace(b) => OnlyAt(b, "task", n, 1))
    BY <1>3, <1>8, <2>1, OnlyAtHead DEF Somewhere
  <2>3. OnePlace(b) => OnePlace(b)'
    BY <1>2, <1>5, <1>6, <2>1, <2>2, OneGets
  <2> QED
    BY <2>2, <2>3 DEF Carried
<1> QED
  BY <1>7, <1>8

(* An interface takes its request from the task that brings it, and leaves *)
(* an answer, which is new.                                                *)
LEMMA InterfaceRuns ==
  ASSUME TypeOK, Routing, NEW n \in Nodes, trigger_interface(n)
  PROVE  \E k \in Calls : /\ served' = [served EXCEPT ![n] = Append(@, k)]
                          /\ At(Request(k), "task", n, 1)
                          /\ k = Routed(n).body.call
<1> DEFINE k == Routed(n).body.call
<1>1. Triggers(n) /\ Routed(n).msg_id # 0
  BY DEF trigger_interface, CallsInterface
<1>2. Routed(n) \in Routes /\ Reached(n, Routed(n))
  BY <1>1, RoutedReached DEF Routing
<1>3. k \in Calls /\ Routed(n).body = Request(k)
  BY <1>1, <1>2 DEF Routes, Bodies, Reached, GoodRoute, GoodRequest
<1>4. At(Request(k), "task", n, 1)
  BY <1>1, <1>3, TriggeredCarries, TaskAtHead
<1>5. served' = [served EXCEPT ![n] = Append(@, k)]
  BY DEF trigger_interface, ExeInterface
<1> QED
  BY <1>3, <1>4, <1>5

LEMMA InterfaceCarries ==
  ASSUME TypeOK, NEW n \in Nodes, trigger_interface(n), NEW k \in Calls,
         k = Routed(n).body.call, At(Request(k), "task", n, 1),
         served' = [served EXCEPT ![n] = Append(@, k)], NEW b
  PROVE  /\ b # Answer(k) => Carried(b)
         /\ b = Answer(k) /\ ~Somewhere(b) => OnePlace(b)'
<1> DEFINE t == ResponseTask(Routed(n))
           X == AsTask(n, t)
<1>1. /\ QueuesTyped /\ UNCHANGED ran /\ tq[n] # <<>>
      /\ served \in [Nodes -> Seq(Calls)]
      /\ tq' = [tq EXCEPT ![n] = Append(Tail(@), t)] \/ Done(n)
  BY TypeParts DEF SharedTyped, NodesTyped, trigger_interface,
     CallsInterface, Triggers, ReceivesOnNode, Runs
<1>2. Moves(Nowhere, Nowhere, X)
  BY <1>1, TriggerInterfaceMoves DEF Responded
<1>3. /\ served'[n] = Append(served[n], k)
      /\ \A p \in Nodes : p # n => served'[p] = served[p]
  BY <1>1
<1>4. Logs
  BY <1>1, <1>3 DEF Logs
<1>5. \A l : TaskCarries(t, l) <=> l = Answer(k)
  BY DEF TaskCarries, ResponseTask
<1>6. /\ \A p \in Nodes : \A u \in X[p] : TaskCarries(u, b) => p = n /\ b = Answer(k)
      /\ \A l : Request(l) # Answer(k)
  BY <1>5 DEF AsTask, Request, Answer
<1>7. Leaves(b, "task", n) \/ b = Answer(k)
  BY <1>1, <1>5, TaskLeaves
<1>8. \A l : served'[n] = Append(served[n], l) => l = k
  <2> TAKE l
  <2>1. served[n] \in Seq(Calls) /\ Len(served[n]) \in Nat
    BY <1>1, LenProperties
  <2>2. /\ Append(served[n], k)[Len(served[n]) + 1] = k
        /\ Append(served[n], l)[Len(served[n]) + 1] = l
    BY <2>1
  <2> QED
    BY <1>3, <2>2
<1> HIDE DEF X, t
<1>9. \A w \in Kinds : \A x : Gets(b, w, x, Nowhere, Nowhere, X) =>
        \/ w = "task" /\ x = n /\ b = Answer(k)
        \/ w = "served" /\ x = n /\ b = Request(k)
  BY <1>1, <1>3, <1>6, <1>8, NothingCarries, ServedGrows DEF Gets, Kinds
<1>10. "task" \in Kinds /\ "served" \in Kinds
  BY DEF Kinds
<1>11. CASE b # Answer(k) /\ b # Request(k)
  BY <1>2, <1>4, <1>9, <1>11, NobodyGets DEF Carried
<1>12. CASE b = Request(k)
  <2>1. Somewhere(b) /\ (OnePlace(b) => OnlyAt(b, "task", n, 1))
    BY <1>10, <1>12, OnlyAtHead DEF Somewhere
  <2>2. b # Answer(k) /\ Leaves(b, "task", n)
    BY <1>6, <1>7, <1>12
  <2>3. OnePlace(b) => OnePlace(b)'
    BY <1>2, <1>4, <1>9, <1>10, <2>1, <2>2, OneGets
  <2> QED
    BY <2>1, <2>2, <2>3 DEF Carried
<1>13. ASSUME b = Answer(k), ~Somewhere(b)
       PROVE  OnePlace(b)'
  BY <1>2, <1>4, <1>6, <1>9, <1>10, <1>13, NowhereIsOnly, OneGets
<1> QED
  BY <1>6, <1>11, <1>12, <1>13

-----------------------------------------------------------------------------
(* Every request and every answer is in one place at most; what is in a    *)
(* place has been asked for, and its request served.                       *)
ServedAt(k) == \E n \in Nodes : \E i \in 1..Len(served[n]) : served[n][i] = k

InOrder(k) == /\ OnePlace(Request(k)) /\ OnePlace(Answer(k))
              /\ Somewhere(Request(k)) => Issued(k)
              /\ Somewhere(Answer(k)) => ServedAt(k)

CallsInv == \A k \in Calls : InOrder(k)

(* What a step does to the histories.                                      *)
Asks(k) == /\ ~Issued(k)
           /\ issued' = [issued EXCEPT ![Caller[k]] = Append(@, k)]
           /\ UNCHANGED <<served, ran>>

IsServed(k) == /\ Issued(k) /\ ~ServedAt(k)
               /\ \E n \in Nodes : served' = [served EXCEPT ![n] = Append(@, k)]
               /\ UNCHANGED <<issued, ran>>

IsAnswered(k) == /\ ServedAt(k) /\ ran[k] = <<>>
                 /\ ran' = [ran EXCEPT ![k] = Append(@, Answer(k))]
                 /\ UNCHANGED <<issued, served>>

HistoryStep == \/ UNCHANGED <<issued, served, ran>>
               \/ \E k \in Calls : Asks(k) \/ IsServed(k) \/ IsAnswered(k)

LEMMA IssuedAfter ==
  ASSUME TypeOK, NEW k \in Calls
  PROVE  /\ UNCHANGED issued => (Issued(k)' <=> Issued(k))
         /\ \A l \in Calls : Asks(l) => (Issued(k)' <=> Issued(k) \/ k = l)
<1>1. /\ issued \in [Nodes -> Seq(Calls)] /\ Caller \in [Calls -> Nodes]
      /\ issued[Caller[k]] \in Seq(Calls)
  BY TypeParts, SystemAssumption DEF NodesTyped
<1>2. ASSUME NEW l \in Calls, Asks(l)
      PROVE  Issued(k)' <=> Issued(k) \/ k = l
  <2> DEFINE s == issued[Caller[k]]
  <2>1. CASE Caller[l] = Caller[k]
    <3>1. issued'[Caller[k]] = Append(s, l)
      BY <1>1, <1>2, <2>1 DEF Asks
    <3> HIDE DEF s
    <3>2. /\ Len(Append(s, l)) = Len(s) + 1 /\ Len(s) \in Nat /\ Append(s, l)[Len(s) + 1] = l
          /\ \A i \in 1..Len(s) : Append(s, l)[i] = s[i]
      BY <1>1 DEF s
    <3>3. (\E i \in 1..Len(Append(s, l)) : Append(s, l)[i] = k)
            <=> (\E i \in 1..Len(s) : s[i] = k) \/ k = l
      BY <3>2
    <3> QED
      BY <3>1, <3>3 DEF Issued, s
  <2>2. CASE Caller[l] # Caller[k]
    <3>1. issued'[Caller[k]] = issued[Caller[k]]
      BY <1>1, <1>2, <2>2 DEF Asks
    <3> QED
      BY <2>2, <3>1 DEF Issued
  <2> QED
    BY <2>1, <2>2
<1> QED
  BY <1>2 DEF Issued

LEMMA ServedAfter ==
  ASSUME TypeOK, NEW k \in Calls
  PROVE  /\ UNCHANGED served => (ServedAt(k)' <=> ServedAt(k))
         /\ \A l \in Calls : \A n \in Nodes :
              served' = [served EXCEPT ![n] = Append(@, l)]
                => (ServedAt(k)' <=> ServedAt(k) \/ k = l)
<1>1. served \in [Nodes -> Seq(Calls)]
  BY TypeParts DEF NodesTyped
<1>2. ASSUME NEW l \in Calls, NEW n \in Nodes, served' = [served EXCEPT ![n] = Append(@, l)]
      PROVE  ServedAt(k)' <=> ServedAt(k) \/ k = l
  <2> DEFINE s == served[n]
             t == Append(s, l)
  <2>1. /\ served'[n] = t
        /\ \A p \in Nodes : p # n => served'[p] = served[p]
    BY <1>1, <1>2
  <2>2. /\ Len(t) = Len(s) + 1 /\ Len(s) \in Nat /\ t[Len(s) + 1] = l
        /\ \A i \in 1..Len(s) : t[i] = s[i]
    BY <1>1
  <2> HIDE DEF t
  <2>3. (\E i \in 1..Len(t) : t[i] = k) <=> (\E i \in 1..Len(s) : s[i] = k) \/ k = l
    BY <2>2
  <2>4. ServedAt(k)' <=> \/ \E i \in 1..Len(t) : t[i] = k
                         \/ \E p \in Nodes \ {n} : \E i \in 1..Len(served[p]) : served[p][i] = k
    BY <2>1 DEF ServedAt
  <2>5. ServedAt(k) <=> \/ \E i \in 1..Len(s) : s[i] = k
                        \/ \E p \in Nodes \ {n} : \E i \in 1..Len(served[p]) : served[p][i] = k
    BY DEF ServedAt
  <2> QED
    BY <2>3, <2>4, <2>5
<1> QED
  BY <1>2 DEF ServedAt

LEMMA ServedIsSomewhere ==
  ASSUME NEW k \in Calls
  PROVE  ServedAt(k) <=> \E n, i : At(Request(k), "served", n, i)
BY DEF ServedAt, At, Request

(* An application's call is one not issued before.                         *)
LEMMA CallAsks ==
  ASSUME TypeOK, NEW k \in Calls, Application(k)
  PROVE  Asks(k)
BY DEF Application, call, Asks, Issued

LEMMA InterfaceServes ==
  ASSUME TypeOK, Routing, CallsInv, NEW n \in Nodes, trigger_interface(n)
  PROVE  \E k \in Calls : /\ IsServed(k) /\ k = Routed(n).body.call
                          /\ At(Request(k), "task", n, 1)
                          /\ served' = [served EXCEPT ![n] = Append(@, k)]
<1>1. PICK k \in Calls : /\ served' = [served EXCEPT ![n] = Append(@, k)]
                         /\ At(Request(k), "task", n, 1)
                         /\ k = Routed(n).body.call
  BY InterfaceRuns
<1>2. Somewhere(Request(k)) /\ OnlyAt(Request(k), "task", n, 1)
  BY <1>1, OnlyAtHead DEF CallsInv, InOrder, Somewhere, Kinds
<1>3. Issued(k)
  BY <1>2 DEF CallsInv, InOrder
<1>4. ~ServedAt(k)
  BY <1>2, ServedIsSomewhere DEF OnlyAt, Kinds
<1>5. UNCHANGED <<issued, ran>>
  BY DEF trigger_interface
<1> QED
  BY <1>1, <1>3, <1>4, <1>5 DEF IsServed

LEMMA CallbackAnswers ==
  ASSUME TypeOK, Routing, AllOffered, CallsInv, NEW n \in Nodes,
         trigger_callback(n) \/ trigger_callback_throws(n)
  PROVE  \E k \in Calls : IsAnswered(k)
<1>1. PICK k \in Calls : /\ ran' = [ran EXCEPT ![k] = Append(@, Answer(k))]
                         /\ At(Answer(k), "task", n, 1)
  BY CallbackRuns
<1>2. Somewhere(Answer(k)) /\ OnlyAt(Answer(k), "task", n, 1)
  BY <1>1, OnlyAtHead DEF CallsInv, InOrder, Somewhere, Kinds
<1>3. ServedAt(k)
  BY <1>2 DEF CallsInv, InOrder
<1>4. ran[k] = <<>>
  <2>1. ran[k] \in Seq(Bodies) /\ Len(ran[k]) \in Nat
    BY TypeParts, LenProperties DEF NodesTyped
  <2>2. ~At(Answer(k), "ran", k, 1)
    BY <1>2 DEF OnlyAt, Kinds
  <2>3. 1 \notin 1..Len(ran[k])
    BY <2>2 DEF At
  <2> QED
    BY <2>1, <2>3
<1>5. UNCHANGED <<issued, served>>
  BY DEF trigger_callback, trigger_callback_throws
<1> QED
  BY <1>1, <1>3, <1>4, <1>5 DEF IsAnswered

(* The calls stay in order.                                                *)
LEMMA CarriedInOrder ==
  ASSUME TypeOK, CallsInv, HistoryStep, NEW k \in Calls,
         Carried(Request(k)), Carried(Answer(k))
  PROVE  InOrder(k)'
<1>1. Issued(k) => Issued(k)'
  BY IssuedAfter DEF HistoryStep, IsServed, IsAnswered
<1>2. ServedAt(k) => ServedAt(k)'
  BY ServedAfter DEF HistoryStep, IsServed, IsAnswered, Asks
<1> QED
  BY <1>1, <1>2 DEF CallsInv, InOrder, Carried, Request, Answer

LEMMA CallInOrder ==
  ASSUME TypeOK, CallsInv, NEW l \in Calls, Application(l), NEW k \in Calls
  PROVE  InOrder(k)'
<1>1. Asks(l) /\ HistoryStep
  BY CallAsks DEF HistoryStep
<1>2. Carried(Answer(k)) /\ (k # l => Carried(Request(k)))
  BY CallCarried DEF Request, Answer
<1>3. CASE k # l
  BY <1>1, <1>2, <1>3, CarriedInOrder
<1>4. CASE k = l
  <2>1. ~Somewhere(Request(k))
    BY <1>1, <1>4 DEF Asks, CallsInv, InOrder
  <2>2. OnePlace(Request(k))'
    BY <1>4, <2>1, CallCarried DEF Request
  <2>3. Issued(k)' /\ (ServedAt(k) => ServedAt(k)')
    BY <1>1, <1>4, IssuedAfter, ServedAfter DEF Asks
  <2> QED
    BY <1>2, <2>2, <2>3 DEF CallsInv, InOrder, Carried, Request, Answer
<1> QED
  BY <1>3, <1>4

LEMMA InterfaceInOrder ==
  ASSUME TypeOK, Routing, CallsInv, NEW n \in Nodes, trigger_interface(n), NEW k \in Calls
  PROVE  InOrder(k)'
<1>1. PICK l \in Calls : /\ IsServed(l) /\ l = Routed(n).body.call
                         /\ At(Request(l), "task", n, 1)
                         /\ served' = [served EXCEPT ![n] = Append(@, l)]
  BY InterfaceServes
<1>2. HistoryStep
  BY <1>1 DEF HistoryStep
<1>3. Carried(Request(k)) /\ (k # l => Carried(Answer(k)))
  BY <1>1, InterfaceCarries DEF Request, Answer
<1>4. CASE k # l
  BY <1>2, <1>3, <1>4, CarriedInOrder
<1>5. CASE k = l
  <2>1. ~Somewhere(Answer(k))
    BY <1>1, <1>5 DEF IsServed, CallsInv, InOrder
  <2>2. OnePlace(Answer(k))'
    BY <1>1, <1>5, <2>1, InterfaceCarries DEF Answer
  <2>3. ServedAt(k)' /\ (Issued(k) => Issued(k)')
    BY <1>1, <1>5, IssuedAfter, ServedAfter DEF IsServed
  <2> QED
    BY <1>3, <2>2, <2>3 DEF CallsInv, InOrder, Carried, Request, Answer
<1> QED
  BY <1>4, <1>5

LEMMA HistoriesSame ==
  ASSUME [Next]_vars,
         ~ \E k \in Calls : Application(k),
         ~ \E n \in Nodes : \/ trigger_interface(n) \/ trigger_callback(n)
                            \/ trigger_callback_throws(n)
  PROVE  UNCHANGED <<issued, served, ran>>
<1>1. ASSUME NEW n \in Nodes, NodeThread(n)
      PROVE  UNCHANGED <<issued, served, ran>>
  <2>1. RunTask(n) /\ ~trigger_interface(n) /\ ~trigger_callback(n) /\ ~trigger_callback_throws(n)
    BY <1>1 DEF NodeThread
  <2>2. CASE \/ handle_unbound_msg(n) \/ handle_broker_sync_data(n) \/ trigger_nothing(n)
             \/ call_impl_refused(n)
    BY <2>2 DEF handle_unbound_msg, handle_broker_sync_data, trigger_nothing,
       call_impl_refused, nodeVars
  <2>3. CASE call_impl(n) \/ response(n)
    BY <2>3 DEF call_impl, response, nodeVars
  <2>4. CASE handle_broken_impl(n) \/ timer_reconnect_broker(n) \/ crash(n)
    BY <2>4 DEF handle_broken_impl, timer_reconnect_broker, crash
  <2> QED
    BY <2>1, <2>2, <2>3, <2>4 DEF RunTask
<1>2. ASSUME ~ \E n \in Nodes : NodeThread(n)
      PROVE  UNCHANGED <<served, ran>>
  BY <1>2, OtherThreads
<1>3. ASSUME NEW n \in Nodes, Timer(n) \/ OpenStarts(n) \/ OpenReturns(n)
      PROVE  UNCHANGED issued
  BY <1>3 DEF Timer, route_call_reconnect, OpenStarts, open, OpenReturns, open_returns
<1>4. BrokerThread \/ UNCHANGED vars => UNCHANGED issued
  BY DEF BrokerThread, vars, nodeVars
<1>5. ASSUME NEW c \in Conns, NetworkThread(c) \/ Breaks(c)
      PROVE  UNCHANGED issued
  BY <1>5 DEF NetworkThread, handle_msg, handle_broken_on_node, Breaks, nodeVars
<1> QED
  BY <1>1, <1>2, <1>3, <1>4, <1>5 DEF Next

LEMMA CallsStep ==
  ASSUME TypeOK, Routing, AllOffered, CallsInv, [Next]_vars
  PROVE  CallsInv' /\ HistoryStep
<1>1. ASSUME NEW k \in Calls, Application(k)
      PROVE  CallsInv' /\ HistoryStep
  BY <1>1, CallAsks, CallInOrder DEF CallsInv, HistoryStep
<1>2. ASSUME NEW n \in Nodes, trigger_interface(n)
      PROVE  CallsInv' /\ HistoryStep
  BY <1>2, InterfaceServes, InterfaceInOrder DEF CallsInv, HistoryStep
<1>3. ASSUME NEW n \in Nodes, trigger_callback(n) \/ trigger_callback_throws(n)
      PROVE  CallsInv' /\ HistoryStep
  <2>1. HistoryStep
    BY <1>3, CallbackAnswers DEF HistoryStep
  <2>2. \A b : Carried(b)
    BY <1>3, CallbackCarries
  <2> QED
    BY <2>1, <2>2, CarriedInOrder DEF CallsInv
<1>4. ASSUME ~ \E k \in Calls : Application(k),
             ~ \E n \in Nodes : \/ trigger_interface(n) \/ trigger_callback(n)
                                \/ trigger_callback_throws(n)
      PROVE  CallsInv' /\ HistoryStep
  <2>1. UNCHANGED <<issued, served, ran>>
    BY <1>4, HistoriesSame
  <2>2. ASSUME NEW b PROVE Carried(b)
    <3>1. CASE BrokerThread
      BY <2>1, <3>1, BrokerCarries DEF BrokerThread
    <3>2. CASE \E n \in Nodes : NodeThread(n)
      BY <1>4, <2>1, <3>2, QuietCarries DEF NodeThread
    <3>3. CASE \E c \in Conns : NetworkThread(c)
      BY <3>3, ReadCarried
    <3> QED
      BY <1>4, <3>1, <3>2, <3>3, OthersCarry DEF Next
  <2> QED
    BY <2>1, <2>2, CarriedInOrder DEF CallsInv, HistoryStep
<1> QED
  BY <1>1, <1>2, <1>3, <1>4

LEMMA CallsInit == Init => CallsInv
<1> SUFFICES ASSUME Init, NEW k \in Calls PROVE InOrder(k)
  BY DEF CallsInv
<1>1. /\ \A c \in Conns : toBroker[c] = <<>> /\ toNode[c] = <<>>
      /\ \A n \in Nodes : tq[n] = <<>> /\ served[n] = <<>>
      /\ \A l \in Calls : ran[l] = <<>>
  BY DEF Init, NetInit, RouteInit, NodeInit
<1>2. \A b : ~Somewhere(b)
  BY <1>1 DEF Somewhere, At
<1>3. \A b : OnePlace(b)
  BY <1>2, NowhereIsOnly DEF OnePlace
<1> QED
  BY <1>2, <1>3 DEF InOrder

-----------------------------------------------------------------------------
(* The stage of a call, read off the histories.                            *)
Stage(k) == IF ran[k] # <<>> THEN "answered"
            ELSE IF ServedAt(k) THEN "served"
            ELSE IF Issued(k) THEN "asked" ELSE "idle"

LEMMA TimesServedIs ==
  ASSUME TypeOK, NEW k \in Calls, OnePlace(Request(k))
  PROVE  TimesServed(k) = IF ServedAt(k) THEN 1 ELSE 0
<1> DEFINE S == UNION {{n} \X {i \in DOMAIN served[n] : served[n][i] = k} : n \in Nodes}
<1>1. \A n \in Nodes : DOMAIN served[n] = 1..Len(served[n])
  BY TypeParts, LenProperties DEF NodesTyped
<1>2. \A x : x \in S <=> \E n \in Nodes : \E i \in 1..Len(served[n]) :
                            served[n][i] = k /\ x = <<n, i>>
  BY <1>1
<1> HIDE DEF S
<1>3. CASE ~ServedAt(k)
  <2>1. S = {}
    BY <1>2, <1>3 DEF ServedAt
  <2> QED
    BY <1>3, <2>1, FS_EmptySet DEF TimesServed, S
<1>4. CASE ServedAt(k)
  <2>1. PICK n \in Nodes : \E i \in 1..Len(served[n]) : served[n][i] = k
    BY <1>4 DEF ServedAt
  <2>2. PICK i \in 1..Len(served[n]) : served[n][i] = k
    BY <2>1
  <2>3. ASSUME NEW p \in Nodes, NEW j \in 1..Len(served[p]), served[p][j] = k
        PROVE  p = n /\ j = i
    <3>1. At(Request(k), "served", n, i) /\ At(Request(k), "served", p, j)
      BY <2>2, <2>3 DEF At
    <3> QED
      BY <3>1 DEF OnePlace, OnlyAt, Kinds
  <2>4. S = {<<n, i>>}
    <3>1. \A x : x \in S <=> x = <<n, i>>
      BY <1>2, <2>2, <2>3
    <3> QED
      BY <3>1
  <2> QED
    BY <1>4, <2>4, FS_Singleton DEF TimesServed, S
<1> QED
  BY <1>3, <1>4

LEMMA RanOnce ==
  ASSUME TypeOK, NEW k \in Calls, CallbackGetsAnswer, OnePlace(Answer(k))
  PROVE  ran[k] = <<>> \/ ran[k] = <<Answer(k)>>
<1>1. ran[k] \in Seq(Bodies) /\ Len(ran[k]) \in Nat
  BY TypeParts, LenProperties DEF NodesTyped
<1>2. \A i \in 1..Len(ran[k]) : At(Answer(k), "ran", k, i)
  BY DEF At
<1>3. \A i, j \in 1..Len(ran[k]) : i = j
  BY <1>2 DEF OnePlace, OnlyAt, Kinds
<1>4. Len(ran[k]) <= 1
  BY <1>1, <1>3
<1>5. CASE Len(ran[k]) = 0
  BY <1>1, <1>5
<1>6. CASE Len(ran[k]) = 1
  <2>1. ran[k][1] = Answer(k)
    BY <1>6 DEF CallbackGetsAnswer
  <2>2. ran[k] = <<ran[k][1]>>
    BY <1>1, <1>6
  <2> QED
    BY <2>1, <2>2
<1>7. Len(ran[k]) = 0 \/ Len(ran[k]) = 1
  <2>1. \A m \in Nat : m <= 1 => m = 0 \/ m = 1
    OBVIOUS
  <2> QED
    BY <1>1, <1>4, <2>1, Zenon
<1> QED
  BY <1>5, <1>6, <1>7

LEMMA StageIs ==
  ASSUME TypeOK, CallsInv, CallbackGetsAnswer, NEW k \in Calls
  PROVE  StageOf(k) = Stage(k)
<1>1. OnePlace(Request(k)) /\ OnePlace(Answer(k)) /\ (Somewhere(Answer(k)) => ServedAt(k))
  BY DEF CallsInv, InOrder
<1>2. TimesServed(k) = IF ServedAt(k) THEN 1 ELSE 0
  BY <1>1, TimesServedIs
<1>3. ran[k] = <<>> \/ ran[k] = <<Answer(k)>>
  BY <1>1, RanOnce
<1>4. ran[k] = <<Answer(k)>> => ran[k] # <<>> /\ ServedAt(k)
  <2>1. ASSUME ran[k] = <<Answer(k)>> PROVE At(Answer(k), "ran", k, 1)
    <3>1. 1 \in 1..Len(ran[k])
      BY <2>1
    <3> QED
      BY <3>1 DEF At
  <2>2. ASSUME ran[k] = <<Answer(k)>> PROVE Len(ran[k]) = 1
    BY <2>2
  <2> QED
    BY <1>1, <2>1, <2>2 DEF Somewhere, Kinds
<1> QED
  BY <1>2, <1>3, <1>4 DEF StageOf, Stage

AsStaged == TypeOK /\ CallsInv /\ CallbackGetsAnswer
              => \A k \in Calls : StageOf(k) = Stage(k)

LEMMA StagedNowAndNext == AsStaged /\ AsStaged'
<1>1. AsStaged
  BY StageIs DEF AsStaged
<1> QED
  BY <1>1, PTL

(* A step of the histories moves one call one stage on.                    *)
LEMMA StageStep ==
  ASSUME TypeOK, CallsInv, HistoryStep
  PROVE  \/ \A k \in Calls : Stage(k)' = Stage(k)
         \/ \E l \in Calls :
              /\ \A k \in Calls : k # l => Stage(k)' = Stage(k)
              /\ \/ Stage(l) = "idle" /\ Stage(l)' = "asked"
                 \/ Stage(l) = "asked" /\ Stage(l)' = "served"
                 \/ Stage(l) = "served" /\ Stage(l)' = "answered"
<1>0. ran \in [Calls -> Seq(Bodies)]
  BY TypeParts DEF NodesTyped
<1>1. \A k \in Calls : ServedAt(k) => Issued(k)
  <2> TAKE k \in Calls
  <2>1. ServedAt(k) => Somewhere(Request(k))
    BY ServedIsSomewhere DEF Somewhere, Kinds
  <2> QED
    BY <2>1 DEF CallsInv, InOrder
<1>2. \A k \in Calls : ran[k] # <<>> => ServedAt(k)
  <2>1. ASSUME NEW k \in Calls, ran[k] # <<>>
        PROVE  ServedAt(k)
    <3>1. 1 \in 1..Len(ran[k])
      BY <1>0, <2>1
    <3>2. At(Answer(k), "ran", k, 1)
      BY <3>1 DEF At
    <3> QED
      BY <3>2 DEF CallsInv, InOrder, Somewhere, Kinds
  <2> QED
    BY <2>1
<1>3. CASE UNCHANGED <<issued, served, ran>>
  BY <1>3 DEF Stage, ServedAt, Issued
<1>4. ASSUME NEW l \in Calls, Asks(l)
      PROVE  /\ \A k \in Calls : k # l => Stage(k)' = Stage(k)
             /\ Stage(l) = "idle" /\ Stage(l)' = "asked"
  <2>1. \A k \in Calls : /\ Issued(k)' <=> Issued(k) \/ k = l
                         /\ ServedAt(k)' <=> ServedAt(k)
                         /\ ran'[k] = ran[k]
    BY <1>4, IssuedAfter, ServedAfter DEF Asks
  <2>2. ~Issued(l) /\ ~ServedAt(l) /\ ran[l] = <<>>
    BY <1>1, <1>2, <1>4 DEF Asks
  <2> QED
    BY <2>1, <2>2 DEF Stage
<1>5. ASSUME NEW l \in Calls, IsServed(l)
      PROVE  /\ \A k \in Calls : k # l => Stage(k)' = Stage(k)
             /\ Stage(l) = "asked" /\ Stage(l)' = "served"
  <2>1. \A k \in Calls : /\ Issued(k)' <=> Issued(k)
                         /\ ServedAt(k)' <=> ServedAt(k) \/ k = l
                         /\ ran'[k] = ran[k]
    BY <1>5, IssuedAfter, ServedAfter DEF IsServed
  <2>2. Issued(l) /\ ~ServedAt(l) /\ ran[l] = <<>>
    BY <1>2, <1>5 DEF IsServed
  <2> QED
    BY <2>1, <2>2 DEF Stage
<1>6. ASSUME NEW l \in Calls, IsAnswered(l)
      PROVE  /\ \A k \in Calls : k # l => Stage(k)' = Stage(k)
             /\ Stage(l) = "served" /\ Stage(l)' = "answered"
  <2>1. \A k \in Calls : /\ Issued(k)' <=> Issued(k)
                         /\ ServedAt(k)' <=> ServedAt(k)
    BY <1>6, IssuedAfter, ServedAfter DEF IsAnswered
  <2>2. \A k \in Calls : k # l => ran'[k] = ran[k]
    BY <1>0, <1>6 DEF IsAnswered
  <2>3. ran'[l] # <<>>
    BY <1>0, <1>6 DEF IsAnswered, Answer, Bodies
  <2>4. ServedAt(l) /\ ran[l] = <<>>
    BY <1>6 DEF IsAnswered
  <2> QED
    BY <2>1, <2>2, <2>3, <2>4 DEF Stage
<1> QED
  BY <1>3, <1>4, <1>5, <1>6 DEF HistoryStep

(* The calls of every node, however connections break, nodes register again*)
(* and callbacks throw, keep the promise of CallContract: each is asked,   *)
(* served once at most, and answered once at most, with its own answer     *)
(* (ffrpc_t::call_impl, trigger_callback, ffbroker_t::handle_route_msg),   *)
(* until alloc_id comes round, if what is called for is offered by the     *)
(* nodes of its service.                                                   *)
THEOREM CallsKeepContract ==
  ASSUME AllOffered
  PROVE  Spec /\ []NotWrapped => ImplementsContract
<1> DEFINE Known == TypeOK /\ Routing /\ CallbackGetsAnswer
           Inv == Known /\ CallsInv
<1>1. RoutingInv /\ NotWrapped => Known
  BY DEF RoutingInv
<1>2. Init => CallsInv
  BY CallsInit
<1>3. ASSUME Known, CallsInv, [Next]_vars PROVE CallsInv'
  BY <1>3, CallsStep
<1>4. Init /\ Known /\ CallsInv => Contract!Init
  <2> SUFFICES ASSUME Init, Known, CallsInv PROVE Contract!Init
    OBVIOUS
  <2>1. ASSUME NEW k \in Calls PROVE StageOf(k) = "idle"
    <3>1. /\ ran[k] = <<>> /\ \A n \in Nodes : served[n] = <<>>
          /\ issued[Caller[k]] = <<>>
      BY SystemAssumption DEF Init, NodeInit
    <3>2. ~ServedAt(k) /\ ~Issued(k)
      BY <3>1 DEF ServedAt, Issued
    <3> QED
      BY <3>1, <3>2, StageIs DEF Stage
  <2> QED
    BY <2>1 DEF Contract!Init
<1>5. ASSUME Inv, Inv', [Next]_vars
      PROVE  [Contract!Next]_([k \in Calls |-> StageOf(k)])
  <2> DEFINE f == [k \in Calls |-> StageOf(k)]
  <2>1. \A k \in Calls : StageOf(k) = Stage(k) /\ StageOf(k)' = Stage(k)'
    BY <1>5, StagedNowAndNext DEF AsStaged
  <2>2. HistoryStep
    BY <1>5, CallsStep
  <2>3. CASE \A k \in Calls : Stage(k)' = Stage(k)
    <3>1. f' = f
      BY <2>1, <2>3
    <3> QED
      BY <3>1
  <2>4. ASSUME NEW l \in Calls,
               \A k \in Calls : k # l => Stage(k)' = Stage(k),
               \/ Stage(l) = "idle" /\ Stage(l)' = "asked"
               \/ Stage(l) = "asked" /\ Stage(l)' = "served"
               \/ Stage(l) = "served" /\ Stage(l)' = "answered"
        PROVE  Contract!Next
    <3>1. f' = [f EXCEPT ![l] = StageOf(l)']
      BY <2>1, <2>4
    <3>2. f[l] = Stage(l) /\ StageOf(l)' = Stage(l)'
      BY <2>1
    <3> QED
      BY <2>4, <3>1, <3>2
      DEF Contract!Next, Contract!Ask, Contract!Serve, Contract!Answer, Contract!Moves
  <2> QED
    BY <1>5, <2>2, <2>3, <2>4, StageStep
<1> HIDE DEF Known
<1> QED
  BY <1>1, <1>2, <1>3, <1>4, <1>5, RoutingHolds, PTL DEF Spec, ImplementsContract, Contract!Spec
-----------------------------------------------------------------------------
(* The way of a call from the node that makes it to the one that serves    *)
(* it: the caller's queue, its connection, the server's connection, the    *)
(* server's queue, and what the server has run.  Stages are numbered in    *)
(* that order.  The way in memory is not one of them.                      *)
Uses(p, c) == Owner[c] = p /\ link[c] # "unused"

OneConnection(p) == \A c, d \in Conns : Uses(p, c) /\ Uses(p, d) => c = d

Wants(r, k) == r.msg_id # 0 /\ r.body.call = k

SentWants(m, k) == IsRoute(m) /\ Wants(m.route, k)

ReadWants(m, k) == ~IsSync(m) /\ Wants(m.route, k)

CallTask(t, k) == t.kind = "call" /\ t.call = k

MsgTask(t, k) == t.kind = "msg" /\ ReadWants(t.msg, k)

Spot(a, n, s, k, i) ==
  \/ s = 1 /\ i \in 1..Len(tq[a]) /\ CallTask(tq[a][i], k)
  \/ s = 2 /\ \E c \in Conns : Owner[c] = a /\ i \in 1..Len(toBroker[c]) /\ SentWants(toBroker[c][i], k)
  \/ s = 3 /\ \E c \in Conns : Owner[c] = n /\ i \in 1..Len(toNode[c]) /\ ReadWants(toNode[c][i], k)
  \/ s = 4 /\ i \in 1..Len(tq[n]) /\ MsgTask(tq[n][i], k)
  \/ s = 5 /\ i \in 1..Len(served[n]) /\ served[n][i] = k

(* Place i of stage s is nearer the end than place j of stage t.           *)
Leads(s, i, t, j) == s > t \/ (s = t /\ i < j)

Earlier(k, l) == \E x, y \in 1..Len(issued[Caller[k]]) :
                   x < y /\ issued[Caller[k]][x] = k /\ issued[Caller[k]][y] = l

Mine(a) == {k \in Calls : Caller[k] = a}

(* What has gone further has been asked for earlier.                       *)
Tracked(a, n) ==
  /\ \A k \in Mine(a) : \A s, i : Spot(a, n, s, k, i) => Issued(k)
  /\ \A k, l \in Mine(a) : \A s, t, i, j :
       Spot(a, n, s, k, i) /\ Spot(a, n, t, l, j) /\ Leads(s, i, t, j) => Earlier(k, l)

(* Whose the tasks, the messages and the connections are, and that no call *)
(* is issued twice.                                                        *)
OwnTasks == \A p \in Nodes : \A t \in Items(tq[p]) : /\ t.kind = "call" => Caller[t.call] = p
                                                     /\ t.kind = "trigger" => p \in Local

OwnRoutes == \A c \in Conns : \A m \in Items(toBroker[c]) :
               IsRoute(m) /\ m.route.msg_id # 0 => Caller[m.route.body.call] = Owner[c]

LocalsOnly == \A id \in DOMAIN m_node_info : m_node_info[id].ffrpc \in Local \cup {NoNode}

UnusedEmpty == \A c \in Conns : link[c] = "unused" => toBroker[c] = <<>> /\ toNode[c] = <<>>

IssuedOnce == \A p \in Nodes : \A i, j \in 1..Len(issued[p]) :
                issued[p][i] = issued[p][j] => i = j

Ownership == /\ OwnTasks /\ OwnRoutes /\ SocksOwned /\ LocalsOnly
             /\ UnusedEmpty /\ IssuedOnce

(* What a step puts at the end of a stage, and what becomes of the others. *)
Enters(a, n, s, k, XB, XN, XT) ==
  \/ s = 1 /\ \E t \in XT[a] : CallTask(t, k)
  \/ s = 2 /\ \E c \in Conns : Owner[c] = a /\ \E m \in XB[c] : SentWants(m, k)
  \/ s = 3 /\ \E c \in Conns : Owner[c] = n /\ \E m \in XN[c] : ReadWants(m, k)
  \/ s = 4 /\ \E t \in XT[n] : MsgTask(t, k)
  \/ s = 5 /\ served'[n] = Append(served[n], k)

Shifts(a, n, s, d, z, XB, XN, XT) ==
  \A k, i : Spot(a, n, s, k, i)' =>
    /\ i \in 1..z
    /\ Spot(a, n, s, k, i + d) \/ (i = z /\ Enters(a, n, s, k, XB, XN, XT))

ServesOne == \A n \in Nodes : \/ served'[n] = served[n]
                             \/ \E k \in Calls : served'[n] = Append(served[n], k)

LEMMA QueueShift ==
  ASSUME NEW s, NEW t, NEW X, From(s, t, X)
  PROVE  \E d \in {0, 1} : \E z \in Nat : z = Len(t) /\
           \A i \in 1..Len(t) : \/ i + d \in 1..Len(s) /\ t[i] = s[i + d]
                                \/ i = z /\ t[i] \in X
<1>1. Len(t) \in Nat
  BY QueueLength DEF From
<1>2. PICK d \in {0, 1} : Follows(s, t, d, X)
  BY DEF From
<1> QED
  BY <1>1, <1>2 DEF Follows

LEMMA SpotsShift ==
  ASSUME TypeOK, ServesOne, NEW XB, NEW XN, NEW XT, Moves(XB, XN, XT), UnusedEmpty',
         NEW a \in Nodes, NEW n \in Nodes, OneConnection(a)', OneConnection(n)',
         NEW s \in 1..5
  PROVE  \E d \in {0, 1} : \E z \in Nat : Shifts(a, n, s, d, z, XB, XN, XT)
<1>1. CASE s = 1
  <2>1. From(tq[a], tq'[a], XT[a])
    BY DEF Moves
  <2>2. PICK d \in {0, 1}, z \in Nat : z = Len(tq'[a]) /\
          \A i \in 1..Len(tq'[a]) : \/ i + d \in 1..Len(tq[a]) /\ tq'[a][i] = tq[a][i + d]
                                    \/ i = z /\ tq'[a][i] \in XT[a]
    BY <2>1, QueueShift
  <2>3. ASSUME NEW k, NEW i, Spot(a, n, s, k, i)'
        PROVE  /\ i \in 1..z
               /\ Spot(a, n, s, k, i + d) \/ (i = z /\ Enters(a, n, s, k, XB, XN, XT))
    <3>1. i \in 1..Len(tq'[a]) /\ CallTask(tq'[a][i], k)
      BY <1>1, <2>3 DEF Spot, CallTask
    <3> QED
      BY <1>1, <2>2, <3>1 DEF Spot, Enters
  <2>4. Shifts(a, n, s, d, z, XB, XN, XT)
    BY <2>3 DEF Shifts
  <2> QED
    BY <2>4
<1>2. CASE s = 2
  <2>1. CASE \E c \in Conns : Uses(a, c)'
    <3>1. PICK c \in Conns : Uses(a, c)'
      BY <2>1
    <3>2. From(toBroker[c], toBroker'[c], XB[c]) /\ Owner[c] = a
      BY <3>1 DEF Moves, Uses
    <3>3. PICK d \in {0, 1}, z \in Nat : z = Len(toBroker'[c]) /\
            \A i \in 1..Len(toBroker'[c]) :
              \/ i + d \in 1..Len(toBroker[c]) /\ toBroker'[c][i] = toBroker[c][i + d]
              \/ i = z /\ toBroker'[c][i] \in XB[c]
      BY <3>2, QueueShift
    <3>4. ASSUME NEW k, NEW i, Spot(a, n, s, k, i)'
          PROVE  /\ i \in 1..z
                 /\ Spot(a, n, s, k, i + d) \/ (i = z /\ Enters(a, n, s, k, XB, XN, XT))
      <4>1. PICK e \in Conns : /\ Owner[e] = a /\ i \in 1..Len(toBroker'[e])
                               /\ SentWants(toBroker'[e][i], k)
        BY <1>2, <3>4 DEF Spot, SentWants
      <4>2. link'[e] # "unused"
        BY <4>1, EmptyQueue DEF UnusedEmpty
      <4>3. e = c
        BY <3>1, <4>1, <4>2 DEF OneConnection, Uses
      <4> QED
        BY <1>2, <3>2, <3>3, <4>1, <4>3 DEF Spot, Enters
    <3>5. Shifts(a, n, s, d, z, XB, XN, XT)
      BY <3>4 DEF Shifts
    <3> QED
      BY <3>5
  <2>2. CASE ~ \E c \in Conns : Uses(a, c)'
    <3>1. ASSUME NEW k, NEW i, Spot(a, n, s, k, i)'
          PROVE  FALSE
      <4>1. PICK e \in Conns : Owner[e] = a /\ i \in 1..Len(toBroker'[e])
        BY <1>2, <3>1 DEF Spot, SentWants
      <4> QED
        BY <2>2, <4>1, EmptyQueue DEF UnusedEmpty, Uses
    <3>2. Shifts(a, n, s, 0, 0, XB, XN, XT)
      BY <3>1 DEF Shifts
    <3> QED
      BY <3>2
  <2> QED
    BY <2>1, <2>2
<1>3. CASE s = 3
  <2>1. CASE \E c \in Conns : Uses(n, c)'
    <3>1. PICK c \in Conns : Uses(n, c)'
      BY <2>1
    <3>2. From(toNode[c], toNode'[c], XN[c]) /\ Owner[c] = n
      BY <3>1 DEF Moves, Uses
    <3>3. PICK d \in {0, 1}, z \in Nat : z = Len(toNode'[c]) /\
            \A i \in 1..Len(toNode'[c]) :
              \/ i + d \in 1..Len(toNode[c]) /\ toNode'[c][i] = toNode[c][i + d]
              \/ i = z /\ toNode'[c][i] \in XN[c]
      BY <3>2, QueueShift
    <3>4. ASSUME NEW k, NEW i, Spot(a, n, s, k, i)'
          PROVE  /\ i \in 1..z
                 /\ Spot(a, n, s, k, i + d) \/ (i = z /\ Enters(a, n, s, k, XB, XN, XT))
      <4>1. PICK e \in Conns : /\ Owner[e] = n /\ i \in 1..Len(toNode'[e])
                               /\ ReadWants(toNode'[e][i], k)
        BY <1>3, <3>4 DEF Spot, ReadWants
      <4>2. link'[e] # "unused"
        BY <4>1, EmptyQueue DEF UnusedEmpty
      <4>3. e = c
        BY <3>1, <4>1, <4>2 DEF OneConnection, Uses
      <4> QED
        BY <1>3, <3>2, <3>3, <4>1, <4>3 DEF Spot, Enters
    <3>5. Shifts(a, n, s, d, z, XB, XN, XT)
      BY <3>4 DEF Shifts
    <3> QED
      BY <3>5
  <2>2. CASE ~ \E c \in Conns : Uses(n, c)'
    <3>1. ASSUME NEW k, NEW i, Spot(a, n, s, k, i)'
          PROVE  FALSE
      <4>1. PICK e \in Conns : Owner[e] = n /\ i \in 1..Len(toNode'[e])
        BY <1>3, <3>1 DEF Spot, ReadWants
      <4> QED
        BY <2>2, <4>1, EmptyQueue DEF UnusedEmpty, Uses
    <3>2. Shifts(a, n, s, 0, 0, XB, XN, XT)
      BY <3>1 DEF Shifts
    <3> QED
      BY <3>2
  <2> QED
    BY <2>1, <2>2
<1>4. CASE s = 4
  <2>1. From(tq[n], tq'[n], XT[n])
    BY DEF Moves
  <2>2. PICK d \in {0, 1}, z \in Nat : z = Len(tq'[n]) /\
          \A i \in 1..Len(tq'[n]) : \/ i + d \in 1..Len(tq[n]) /\ tq'[n][i] = tq[n][i + d]
                                    \/ i = z /\ tq'[n][i] \in XT[n]
    BY <2>1, QueueShift
  <2>3. ASSUME NEW k, NEW i, Spot(a, n, s, k, i)'
        PROVE  /\ i \in 1..z
               /\ Spot(a, n, s, k, i + d) \/ (i = z /\ Enters(a, n, s, k, XB, XN, XT))
    <3>1. i \in 1..Len(tq'[n]) /\ MsgTask(tq'[n][i], k)
      BY <1>4, <2>3 DEF Spot, MsgTask, ReadWants
    <3> QED
      BY <1>4, <2>2, <3>1 DEF Spot, Enters
  <2>4. Shifts(a, n, s, d, z, XB, XN, XT)
    BY <2>3 DEF Shifts
  <2> QED
    BY <2>4
<1>5. CASE s = 5
  <2>1. served[n] \in Seq(Calls) /\ Len(served[n]) \in Nat
    BY TypeParts, LenProperties DEF NodesTyped
  <2>2. CASE served'[n] = served[n]
    <3>1. Shifts(a, n, s, 0, Len(served[n]), XB, XN, XT)
      BY <1>5, <2>1, <2>2 DEF Shifts, Spot
    <3> QED
      BY <2>1, <3>1
  <2>3. CASE \E l \in Calls : served'[n] = Append(served[n], l)
    <3> DEFINE z == Len(served[n]) + 1
    <3>1. PICK l \in Calls : served'[n] = Append(served[n], l)
      BY <2>3
    <3>2. /\ Len(served'[n]) = z /\ served'[n][z] = l
          /\ \A j \in 1..Len(served[n]) : served'[n][j] = served[n][j]
      BY <2>1, <3>1, AppendProperties
    <3>3. ASSUME NEW k, NEW i, Spot(a, n, s, k, i)'
          PROVE  /\ i \in 1..z
                 /\ Spot(a, n, s, k, i + 0) \/ (i = z /\ Enters(a, n, s, k, XB, XN, XT))
      <4>1. i \in 1..z /\ served'[n][i] = k
        BY <1>5, <3>2, <3>3 DEF Spot
      <4>2. i \in 1..Len(served[n]) => i + 0 = i /\ Spot(a, n, s, k, i)
        BY <1>5, <2>1, <3>2, <4>1 DEF Spot
      <4>3. i \in 1..Len(served[n]) \/ i = z
        BY <2>1, <4>1
      <4> QED
        BY <1>5, <3>1, <3>2, <4>1, <4>2, <4>3 DEF Enters
    <3>4. Shifts(a, n, s, 0, z, XB, XN, XT)
      BY <3>3 DEF Shifts
    <3> QED
      BY <2>1, <3>4
  <2> QED
    BY <2>2, <2>3 DEF ServesOne
<1> QED
  BY <1>1, <1>2, <1>3, <1>4, <1>5

(* A call goes from the first place of a stage to the last of the next one,*)
(* and overtakes nobody; no other call enters a stage.                     *)
Passes(a, n, s, k) == /\ Spot(a, n, s - 1, k, 1)
                      /\ \A l, i : Spot(a, n, s - 1, l, i)' => Spot(a, n, s - 1, l, i + 1)

AllShift(a, n, XB, XN, XT) ==
  \A s \in 1..5 : \E d \in {0, 1} : \E z \in Nat : Shifts(a, n, s, d, z, XB, XN, XT)

LEMMA SpotStage ==
  \A a, n, s, k, i : Spot(a, n, s, k, i) => s \in 1..5
BY DEF Spot

LEMMA EarlierSame ==
  ASSUME UNCHANGED issued
  PROVE  \A k, l : (Issued(k) => Issued(k)') /\ (Earlier(k, l) => Earlier(k, l)')
BY DEF Issued, Earlier

LEMMA PassOrder ==
  ASSUME NEW a, NEW n, Tracked(a, n), UNCHANGED issued, NEW XB, NEW XN, NEW XT,
         AllShift(a, n, XB, XN, XT), NEW s0 \in 2..5, NEW k0,
         \A s \in 1..5 : \A k \in Mine(a) :
           Enters(a, n, s, k, XB, XN, XT) => s = s0 /\ k = k0 /\ Passes(a, n, s0, k0)
  PROVE  Tracked(a, n)'
<1>1. ASSUME NEW k \in Mine(a), NEW s, NEW i, Spot(a, n, s, k, i)'
      PROVE  Issued(k)'
  <2>1. s \in 1..5
    BY <1>1, SpotStage DEF Spot, CallTask, SentWants, ReadWants, MsgTask
  <2>2. (\E d : Spot(a, n, s, k, i + d)) \/ Spot(a, n, s0 - 1, k, 1)
    BY <1>1, <2>1 DEF AllShift, Shifts, Passes
  <2> QED
    BY <2>2, EarlierSame DEF Tracked
<1>2. ASSUME NEW k \in Mine(a), NEW l \in Mine(a), NEW s, NEW t, NEW i, NEW j,
             Spot(a, n, s, k, i)', Spot(a, n, t, l, j)', Leads(s, i, t, j)
      PROVE  Earlier(k, l)'
  <2>1. s \in 1..5 /\ t \in 1..5
    BY <1>2 DEF Spot, CallTask, SentWants, ReadWants, MsgTask
  <2>2. PICK d \in {0, 1}, z \in Nat : Shifts(a, n, s, d, z, XB, XN, XT)
    BY <2>1 DEF AllShift
  <2>3. PICK e \in {0, 1}, y \in Nat : /\ Shifts(a, n, t, e, y, XB, XN, XT)
                                       /\ s = t => e = d /\ y = z
    BY <2>1, <2>2 DEF AllShift
  <2>4. /\ i \in 1..z
        /\ \/ Spot(a, n, s, k, i + d)
           \/ i = z /\ s = s0 /\ k = k0 /\ Passes(a, n, s0, k0)
    BY <1>2, <2>1, <2>2 DEF Shifts
  <2>5. /\ j \in 1..y
        /\ \/ Spot(a, n, t, l, j + e)
           \/ j = y /\ t = s0 /\ l = k0 /\ Passes(a, n, s0, k0)
    BY <1>2, <2>1, <2>3 DEF Shifts
  <2>6. CASE Spot(a, n, s, k, i + d) /\ Spot(a, n, t, l, j + e)
    <3>1. Leads(s, i + d, t, j + e)
      BY <1>2, <2>1, <2>3, <2>4, <2>5 DEF Leads
    <3> QED
      BY <2>6, <3>1, EarlierSame DEF Tracked
  <2>7. CASE Spot(a, n, s, k, i + d) /\ t = s0 /\ l = k0 /\ j = y /\ Passes(a, n, s0, k0)
    <3>1. Spot(a, n, s0 - 1, l, 1)
      BY <2>7 DEF Passes
    <3>2. s > s0 - 1
      BY <1>2, <2>1, <2>7 DEF Leads
    <3>3. Leads(s, i + d, s0 - 1, 1)
      BY <3>2 DEF Leads
    <3> QED
      BY <2>7, <3>1, <3>3, EarlierSame DEF Tracked
  <2>8. CASE s = s0 /\ k = k0 /\ i = z /\ Passes(a, n, s0, k0) /\ Spot(a, n, t, l, j + e)
    <3>1. Spot(a, n, s0 - 1, k, 1)
      BY <2>8 DEF Passes
    <3>2. s0 > t
      BY <1>2, <2>1, <2>3, <2>4, <2>5, <2>8 DEF Leads
    <3>3. CASE t = s0 - 1
      <4>1. Spot(a, n, s0 - 1, l, j + 1)
        BY <1>2, <2>8, <3>3 DEF Passes
      <4>2. Leads(s0 - 1, 1, s0 - 1, j + 1)
        BY <2>5 DEF Leads
      <4> QED
        BY <3>1, <4>1, <4>2, EarlierSame DEF Tracked
    <3>4. CASE t < s0 - 1
      <4>1. Leads(s0 - 1, 1, t, j + e)
        BY <3>4 DEF Leads
      <4> QED
        BY <2>8, <3>1, <4>1, EarlierSame DEF Tracked
    <3> QED
      BY <2>1, <3>2, <3>3, <3>4
  <2>9. CASE s = s0 /\ i = z /\ t = s0 /\ j = y
    BY <1>2, <2>3, <2>4, <2>5, <2>9 DEF Leads
  <2> QED
    BY <2>4, <2>5, <2>6, <2>7, <2>8, <2>9
<1> QED
  BY <1>1, <1>2 DEF Tracked, Mine

LEMMA QuietOrder ==
  ASSUME NEW a, NEW n, Tracked(a, n), UNCHANGED issued, NEW XB, NEW XN, NEW XT,
         AllShift(a, n, XB, XN, XT),
         \A s \in 1..5 : \A k \in Mine(a) : ~Enters(a, n, s, k, XB, XN, XT)
  PROVE  Tracked(a, n)'
<1>1. 2 \in 2..5
  OBVIOUS
<1> QED
  BY <1>1, PassOrder

(* A new call is behind all the others of its caller.                      *)
LEMMA AskedLast ==
  ASSUME TypeOK, NEW k0 \in Calls, Asks(k0)
  PROVE  /\ \A k, l \in Calls : Earlier(k, l) => Earlier(k, l)'
         /\ \A k \in Calls : Caller[k] = Caller[k0] /\ Issued(k) => Earlier(k, k0)'
<1> DEFINE s(k) == issued[Caller[k]]
<1>1. /\ issued \in [Nodes -> Seq(Calls)] /\ Caller \in [Calls -> Nodes]
      /\ \A k \in Calls : s(k) \in Seq(Calls) /\ Len(s(k)) \in Nat
  BY TypeParts, SystemAssumption, LenProperties DEF NodesTyped
<1>2. ASSUME NEW k \in Calls
      PROVE  /\ Caller[k] # Caller[k0] => s(k)' = s(k)
             /\ Caller[k] = Caller[k0] => /\ Len(s(k)') = Len(s(k)) + 1 /\ s(k)'[Len(s(k)) + 1] = k0
                                          /\ \A i \in 1..Len(s(k)) : s(k)'[i] = s(k)[i]
  <2>1. Caller[k] # Caller[k0] => s(k)' = s(k)
    BY <1>1 DEF Asks
  <2>2. Caller[k] = Caller[k0] => s(k)' = Append(s(k), k0)
    BY <1>1 DEF Asks
  <2> QED
    BY <1>1, <2>1, <2>2, AppendProperties
<1>3. ASSUME NEW k \in Calls, NEW l \in Calls, Earlier(k, l)
      PROVE  Earlier(k, l)'
  <2>1. PICK x, y \in 1..Len(s(k)) : x < y /\ s(k)[x] = k /\ s(k)[y] = l
    BY <1>3 DEF Earlier
  <2>2. CASE Caller[k] = Caller[k0]
    <3>1. /\ Len(s(k)') = Len(s(k)) + 1 /\ Len(s(k)) \in Nat
          /\ s(k)'[x] = k /\ s(k)'[y] = l
      BY <1>1, <1>2, <2>1, <2>2
    <3>2. x \in 1..Len(s(k)') /\ y \in 1..Len(s(k)')
      BY <2>1, <3>1
    <3> QED
      BY <2>1, <3>1, <3>2 DEF Earlier
  <2>3. CASE Caller[k] # Caller[k0]
    BY <1>2, <2>1, <2>3 DEF Earlier
  <2> QED
    BY <2>2, <2>3
<1>4. ASSUME NEW k \in Calls, Caller[k] = Caller[k0], Issued(k)
      PROVE  Earlier(k, k0)'
  <2>1. PICK x \in 1..Len(s(k)) : s(k)[x] = k
    BY <1>4 DEF Issued
  <2> DEFINE y == Len(s(k)) + 1
  <2>2. x \in 1..Len(s(k)') /\ y \in 1..Len(s(k)') /\ s(k)'[x] = k /\ s(k)'[y] = k0 /\ x < y
    BY <1>1, <1>2, <1>4, <2>1
  <2> QED
    BY <2>2 DEF Earlier
<1> QED
  BY <1>3, <1>4

LEMMA AskOrder ==
  ASSUME TypeOK, NEW a, NEW n, Tracked(a, n), NEW k0 \in Calls, Asks(k0),
         NEW XB, NEW XN, NEW XT, AllShift(a, n, XB, XN, XT),
         \A s \in 1..5 : \A k \in Mine(a) : Enters(a, n, s, k, XB, XN, XT) => s = 1 /\ k = k0
  PROVE  Tracked(a, n)'
<1>1. \A k \in Calls : Issued(k) \/ k = k0 => Issued(k)'
  BY IssuedAfter
<1>2. ASSUME NEW k \in Mine(a), NEW s, NEW i, Spot(a, n, s, k, i)'
      PROVE  Issued(k)'
  <2>1. s \in 1..5
    BY <1>2 DEF Spot, CallTask, SentWants, ReadWants, MsgTask
  <2>2. (\E d : Spot(a, n, s, k, i + d)) \/ k = k0
    BY <1>2, <2>1 DEF AllShift, Shifts
  <2> QED
    BY <1>1, <2>2 DEF Tracked, Mine
<1>3. ASSUME NEW k \in Mine(a), NEW l \in Mine(a), NEW s, NEW t, NEW i, NEW j,
             Spot(a, n, s, k, i)', Spot(a, n, t, l, j)', Leads(s, i, t, j)
      PROVE  Earlier(k, l)'
  <2>0. k \in Calls /\ l \in Calls /\ Caller[k] = a /\ Caller[l] = a
    BY DEF Mine
  <2>1. s \in 1..5 /\ t \in 1..5
    BY <1>3 DEF Spot, CallTask, SentWants, ReadWants, MsgTask
  <2>2. PICK d \in {0, 1}, z \in Nat : Shifts(a, n, s, d, z, XB, XN, XT)
    BY <2>1 DEF AllShift
  <2>3. PICK e \in {0, 1}, y \in Nat : /\ Shifts(a, n, t, e, y, XB, XN, XT)
                                       /\ s = t => e = d /\ y = z
    BY <2>1, <2>2 DEF AllShift
  <2>4. i \in 1..z /\ (Spot(a, n, s, k, i + d) \/ (i = z /\ s = 1))
    BY <1>3, <2>1, <2>2 DEF Shifts
  <2>5. j \in 1..y /\ (Spot(a, n, t, l, j + e) \/ l = k0)
    BY <1>3, <2>1, <2>3 DEF Shifts
  <2>6. Spot(a, n, s, k, i + d)
    BY <1>3, <2>1, <2>3, <2>4, <2>5 DEF Leads
  <2>7. CASE Spot(a, n, t, l, j + e)
    <3>1. Leads(s, i + d, t, j + e)
      BY <1>3, <2>1, <2>3, <2>4, <2>5 DEF Leads
    <3> QED
      BY <2>0, <2>6, <2>7, <3>1, AskedLast DEF Tracked
  <2>8. CASE l = k0
    <3>1. Issued(k)
      BY <2>6 DEF Tracked
    <3> QED
      BY <2>0, <2>8, <3>1, AskedLast
  <2> QED
    BY <2>5, <2>7, <2>8
<1> QED
  BY <1>2, <1>3 DEF Tracked, Mine

-----------------------------------------------------------------------------
(* Which steps move a request from one stage to the next.                  *)
Idle(XB, XN, XT) ==
  /\ \A c \in Conns : /\ \A m \in XB[c] : \A k : ~SentWants(m, k)
                      /\ \A m \in XN[c] : \A k : ~ReadWants(m, k)
  /\ \A p \in Nodes : \A t \in XT[p] : /\ t.kind # "trigger"
                                       /\ \A k : ~CallTask(t, k) /\ ~MsgTask(t, k)

IdleMoves == \E XB, XN, XT : Moves(XB, XN, XT) /\ Idle(XB, XN, XT)

IdleStep == IdleMoves /\ UNCHANGED <<issued, served>>

LEMMA IdleQueues ==
  /\ Moves(Nowhere, Nowhere, NoTask) => IdleMoves
  /\ \A n : Moves(Registering(n), Nowhere, NoTask) => IdleMoves
  /\ \A id, ids, slaves, clients :
       Moves(Nowhere, Syncs(id, ids, slaves, clients), NoTask) => IdleMoves
  /\ \A n \in Nodes : Moves(Answered(n), Nowhere, NoTask) => IdleMoves
  /\ \A n, t : /\ Moves(Nowhere, Nowhere, AsTask(n, t))
               /\ t.kind \in {"broken", "reconnect", "response"}
               => IdleMoves
<1>1. Idle(Nowhere, Nowhere, NoTask)
  BY NothingCarries DEF Idle
<1>2. ASSUME NEW n PROVE Idle(Registering(n), Nowhere, NoTask)
  <2>1. \A k : \A c \in Conns : \A m \in Registering(n)[c] : ~SentWants(m, k)
    BY DEF Registering, RegisterClient, SentWants, IsRoute
  <2> QED
    BY <2>1, NothingCarries DEF Idle
<1>3. ASSUME NEW id, NEW ids, NEW slaves, NEW clients
      PROVE  Idle(Nowhere, Syncs(id, ids, slaves, clients), NoTask)
  <2>1. \A k : \A c \in Conns : \A m \in Syncs(id, ids, slaves, clients)[c] : ~ReadWants(m, k)
    BY DEF Syncs, SyncData, ReadWants, IsSync
  <2> QED
    BY <2>1, NothingCarries DEF Idle
<1>4. ASSUME NEW n \in Nodes PROVE Idle(Answered(n), Nowhere, NoTask)
  <2>1. \A k : \A c \in Conns : \A m \in Answered(n)[c] : ~SentWants(m, k)
    BY DEF Answered, NodeSent, RouteMsg, Route, SentWants, Wants
  <2> QED
    BY <2>1, NothingCarries DEF Idle
<1>5. ASSUME NEW n, NEW t, t.kind \in {"broken", "reconnect", "response"}
      PROVE  Idle(Nowhere, Nowhere, AsTask(n, t))
  <2>1. \A p \in Nodes : \A u \in AsTask(n, t)[p] : u = t
    BY DEF AsTask
  <2>2. t.kind # "trigger" /\ \A k : ~CallTask(t, k) /\ ~MsgTask(t, k)
    BY <1>5 DEF CallTask, MsgTask
  <2> QED
    BY <2>1, <2>2, NothingCarries DEF Idle
<1> QED
  BY <1>1, <1>2, <1>3, <1>4, <1>5 DEF IdleMoves

LEMMA BrokerKinds ==
  ASSUME TypeOK, NEW c \in Conns, BrokerStep(c), UNCHANGED nodeVars
  PROVE  IdleStep \/ handle_route_msg(c)
<1>1. QueuesTyped /\ UNCHANGED <<issued, served>>
  BY TypeParts DEF SharedTyped, nodeVars
<1>2. handle_client_register(c) \/ handle_broken(c) => IdleMoves
  BY <1>1, ClientRegisterMoves, BrokenMoves, IdleQueues
<1>3. reject_client_register(c) \/ handle_broken_unknown(c) => IdleMoves
  BY <1>1, RejectMoves, BrokenMoves, IdleQueues
<1> QED
  BY <1>1, <1>2, <1>3, NoSlaveMessages DEF BrokerStep, IdleStep

LEMMA TaskKinds ==
  ASSUME TypeOK, NEW n \in Nodes, RunTask(n)
  PROVE  IdleStep \/ trigger_interface(n) \/ call_impl(n)
<1>1. QueuesTyped /\ m_master_broker_sock[n] \in Conns \cup {NoConn}
  BY TypeParts, NodeMaps DEF SharedTyped
<1>2. CASE Quiet(n)
  <2>1. UNCHANGED <<issued, served>>
    BY <1>2 DEF Quiet, handle_unbound_msg, handle_broker_sync_data, trigger_callback,
       trigger_callback_throws, trigger_nothing, call_impl_refused, handle_broken_impl,
       nodeVars
  <2> QED
    BY <1>1, <1>2, <2>1, QuietMoves, IdleQueues DEF IdleStep
<1>3. CASE response(n)
  BY <1>1, <1>3, SendingMoves, IdleQueues DEF IdleStep, response, nodeVars
<1>4. CASE timer_reconnect_broker(n) \/ crash(n)
  BY <1>1, <1>4, ReconnectMoves, IdleQueues DEF IdleStep, timer_reconnect_broker, crash
<1> QED
  BY <1>2, <1>3, <1>4 DEF RunTask, Quiet

LEMMA OtherKinds ==
  ASSUME TypeOK
  PROVE  /\ \A n \in Nodes : Timer(n) \/ OpenStarts(n) \/ OpenReturns(n) => IdleStep
         /\ \A c \in Conns : Breaks(c) => IdleStep
         /\ \A c \in Conns : NetworkThread(c) => IdleStep \/ handle_msg(c)
         /\ UNCHANGED vars => IdleStep
<1>1. QueuesTyped /\ Owner \in [Conns -> Nodes]
  BY TypeParts, SystemAssumption DEF SharedTyped
<1>2. ASSUME NEW n \in Nodes, Timer(n) PROVE IdleStep
  <2>1. PICK t : t = [kind |-> "reconnect"]
    OBVIOUS
  <2>2. Moves(Nowhere, Nowhere, AsTask(n, t)) /\ t.kind = "reconnect"
    BY <1>1, <1>2, <2>1, ProducerMoves DEF Timer
  <2> QED
    BY <1>2, <2>2, IdleQueues DEF IdleStep, Timer, route_call_reconnect
<1>3. ASSUME NEW n \in Nodes, OpenStarts(n) PROVE IdleStep
  BY <1>1, <1>3, OpenMoves, IdleQueues DEF IdleStep, OpenStarts, open
<1>4. ASSUME NEW n \in Nodes, OpenReturns(n) PROVE IdleStep
  BY <1>1, <1>4, ProducerMoves, IdleQueues DEF IdleStep, OpenReturns, open_returns
<1>5. ASSUME NEW c \in Conns, Breaks(c) PROVE IdleStep
  BY <1>1, <1>5, BreaksMoves, IdleQueues DEF IdleStep, Breaks, nodeVars
<1>6. ASSUME NEW c \in Conns, handle_broken_on_node(c) PROVE IdleStep
  <2>1. PICK t : t = BrokenTask(c)
    OBVIOUS
  <2>2. Moves(Nowhere, Nowhere, AsTask(Owner[c], t)) /\ t.kind = "broken"
    BY <1>1, <1>6, <2>1, ProducerMoves DEF BrokenTask
  <2> QED
    BY <1>6, <2>2, IdleQueues DEF IdleStep, handle_broken_on_node, nodeVars
<1>7. UNCHANGED vars => IdleStep
  <2>1. UNCHANGED vars => Moves(Nowhere, Nowhere, NoTask)
    BY <1>1, NothingMoves, MovesAre DEF vars, netVars, routeVars
  <2> QED
    BY <2>1, IdleQueues DEF IdleStep, vars, nodeVars
<1> QED
  BY <1>2, <1>3, <1>4, <1>5, <1>6, <1>7 DEF NetworkThread

LEMMA StepKinds ==
  ASSUME TypeOK, [Next]_vars
  PROVE  \/ IdleStep
         \/ \E k \in Calls : Application(k)
         \/ \E c \in Conns : handle_route_msg(c) /\ UNCHANGED nodeVars
         \/ \E c \in Conns : handle_msg(c)
         \/ \E n \in Nodes : trigger_interface(n) \/ call_impl(n)
BY BrokerKinds, TaskKinds, OtherKinds DEF Next, BrokerThread, NodeThread

-----------------------------------------------------------------------------
(* A request stays with what belongs to its caller.                        *)
OwnNew(XB, XT) ==
  /\ \A c \in Conns : \A m \in XB[c] : \A k : SentWants(m, k) => Caller[k] = Owner[c]
  /\ \A p \in Nodes : \A t \in XT[p] : /\ \A k : CallTask(t, k) => Caller[k] = p
                                       /\ t.kind = "trigger" => p \in Local

LEMMA OwnItems ==
  ASSUME OwnTasks, OwnRoutes, NEW XB, NEW XN, NEW XT, Moves(XB, XN, XT), OwnNew(XB, XT)
  PROVE  OwnTasks' /\ OwnRoutes'
<1>1. ASSUME NEW p \in Nodes, NEW t \in Items(tq'[p])
      PROVE  /\ t.kind = "call" => Caller[t.call] = p
             /\ t.kind = "trigger" => p \in Local
  <2>1. t \in Items(tq[p]) \/ t \in XT[p]
    BY <1>1 DEF Moves, From
  <2> QED
    BY <2>1 DEF OwnTasks, OwnNew, CallTask
<1>2. ASSUME NEW c \in Conns, NEW m \in Items(toBroker'[c]), IsRoute(m), m.route.msg_id # 0
      PROVE  Caller[m.route.body.call] = Owner[c]
  <2>1. m \in Items(toBroker[c]) \/ m \in XB[c]
    BY <1>2 DEF Moves, From
  <2>2. SentWants(m, m.route.body.call)
    BY <1>2 DEF SentWants, Wants
  <2> QED
    BY <1>2, <2>1, <2>2 DEF OwnRoutes, OwnNew
<1> QED
  BY <1>1, <1>2 DEF OwnTasks, OwnRoutes

LEMMA LookedLocals ==
  ASSUME TypedTable, LocalsOnly, NEW id \in Ids
  PROVE  /\ \A i \in DOMAIN Looked(id) : Looked(id)[i].ffrpc \in Local \cup {NoNode}
         /\ LocalNode(id) \in Local \cup {NoNode}
<1>1. /\ DOMAIN Looked(id) = DOMAIN m_node_info \cup {id}
      /\ \A i \in DOMAIN m_node_info : Looked(id)[i] = m_node_info[i]
      /\ id \notin DOMAIN m_node_info => LocalNode(id) = NoNode
  BY LookedTyped
<1> QED
  BY <1>1 DEF LocalsOnly, LocalNode

(* A node's request, and its connection.                                   *)
LEMMA RequestedIs ==
  \A n, k : \A c \in Conns : \A m \in Requested(n)[c] :
    SentWants(m, k) => c = m_master_broker_sock[n] /\ k = Task(n).call
BY DEF Requested, NodeSent, SentWants, Wants, RouteMsg, Route, Request

LEMMA OwnStep ==
  ASSUME TypeOK, Ownership, [Next]_vars
  PROVE  OwnTasks' /\ OwnRoutes'
<1>1. /\ QueuesTyped /\ TypedTable /\ OwnTasks /\ OwnRoutes /\ LocalsOnly
      /\ Owner \in [Conns -> Nodes] /\ Caller \in [Calls -> Nodes]
  BY TypeParts, SystemAssumption DEF SharedTyped, Ownership
<1>2. CASE IdleStep
  <2>1. PICK XB, XN, XT : Moves(XB, XN, XT) /\ Idle(XB, XN, XT)
    BY <1>2 DEF IdleStep, IdleMoves
  <2>2. OwnNew(XB, XT)
    BY <2>1 DEF Idle, OwnNew
  <2> QED
    BY <1>1, <2>1, <2>2, OwnItems
<1>3. ASSUME NEW k \in Calls, Application(k) PROVE OwnTasks' /\ OwnRoutes'
  <2> DEFINE X == AsTask(Caller[k], [kind |-> "call", call |-> k])
  <2>1. Moves(Nowhere, Nowhere, X)
    BY <1>1, <1>3, ProducerMoves DEF Application
  <2>2. OwnNew(Nowhere, X)
    BY NothingCarries DEF OwnNew, AsTask, CallTask
  <2> QED
    BY <1>1, <2>1, <2>2, OwnItems
<1>4. ASSUME NEW c \in Conns, handle_route_msg(c) PROVE OwnTasks' /\ OwnRoutes'
  <2>1. Moves(Nowhere, RoutedTo(c), TriggeredAt(c))
    BY <1>1, <1>4, RouteMoves
  <2>2. RouteOf(c).dest_node_id \in Ids
    BY <1>1, <1>4, FirstToBroker
    DEF handle_route_msg, Receives, TypedToBroker, Routes, RouteOf
  <2>3. LocalNode(RouteOf(c).dest_node_id) \in Local \cup {NoNode} /\ NoNode \notin Nodes
    BY <1>1, <2>2, LookedLocals, SystemAssumption
  <2>4. \A p \in Nodes : \A t \in TriggeredAt(c)[p] :
          t.kind = "trigger" /\ p = LocalNode(RouteOf(c).dest_node_id)
    BY DEF TriggeredAt
  <2>5. OwnNew(Nowhere, TriggeredAt(c))
    BY <2>3, <2>4, NothingCarries DEF OwnNew, CallTask
  <2> QED
    BY <1>1, <2>1, <2>5, OwnItems
<1>5. ASSUME NEW c \in Conns, handle_msg(c) PROVE OwnTasks' /\ OwnRoutes'
  <2> DEFINE X == AsTask(Owner[c], [kind |-> "msg", msg |-> Head(toNode[c])])
  <2>1. Moves(Nowhere, Nowhere, X)
    BY <1>1, <1>5, HandleMsgMoves
  <2>2. OwnNew(Nowhere, X)
    BY NothingCarries DEF OwnNew, AsTask, CallTask
  <2> QED
    BY <1>1, <2>1, <2>2, OwnItems
<1>6. ASSUME NEW n \in Nodes, trigger_interface(n) PROVE OwnTasks' /\ OwnRoutes'
  <2>1. Moves(Nowhere, Nowhere, Responded(n))
    BY <1>1, <1>6, TriggerInterfaceMoves
  <2>2. OwnNew(Nowhere, Responded(n))
    BY NothingCarries DEF OwnNew, Responded, ResponseTask, AsTask, CallTask
  <2> QED
    BY <1>1, <2>1, <2>2, OwnItems
<1>7. ASSUME NEW n \in Nodes, call_impl(n) PROVE OwnTasks' /\ OwnRoutes'
  <2>1. Moves(Requested(n), Nowhere, NoTask)
    BY <1>1, <1>7, TypeParts, NodeMaps, SendingMoves
  <2>2. Task(n) \in Items(tq[n]) /\ Task(n).kind = "call"
    BY <1>1, <1>7, QueuesAre, TakenQueue DEF call_impl, Runs, Task
  <2>3. Caller[Task(n).call] = n
    BY <1>1, <2>2 DEF OwnTasks
  <2>4. \A c \in Conns : c = m_master_broker_sock[n] => Owner[c] = n
    BY DEF Ownership, SocksOwned
  <2>5. OwnNew(Requested(n), NoTask)
    BY <2>3, <2>4, RequestedIs, NothingCarries DEF OwnNew
  <2> QED
    BY <1>1, <2>1, <2>5, OwnItems
<1> QED
  BY <1>2, <1>3, <1>4, <1>5, <1>6, <1>7, StepKinds

SocksStep == \A p \in Nodes : \/ m_master_broker_sock'[p] = m_master_broker_sock[p]
                              \/ m_master_broker_sock'[p] = NoConn
                              \/ m_master_broker_sock'[p] \in Fresh(p)

LEMMA ConnectingSocks ==
  ASSUME NodesTyped, NEW n \in Nodes, ConnectSucceeds(n) \/ ConnectFails(n)
  PROVE  SocksStep
<1>1. \/ m_master_broker_sock' = [m_master_broker_sock EXCEPT ![n] = NoConn]
      \/ \E c \in Fresh(n) : m_master_broker_sock' = [m_master_broker_sock EXCEPT ![n] = c]
  BY DEF ConnectSucceeds, ConnectFails
<1> QED
  BY <1>1 DEF NodesTyped, SocksStep

LEMMA StepSocks ==
  ASSUME TypeOK, [Next]_vars
  PROVE  SocksStep
<1>1. NodesTyped
  BY TypeParts
<1>2. UNCHANGED m_master_broker_sock => SocksStep
  BY DEF SocksStep
<1>3. ASSUME NEW n \in Nodes, RunTask(n) PROVE SocksStep
  <2>1. CASE timer_reconnect_broker(n)
    BY <1>1, <2>1, ConnectingSocks DEF timer_reconnect_broker
  <2>2. CASE handle_broken_impl(n)
    <3>1. m_master_broker_sock' = [m_master_broker_sock EXCEPT ![n] = NoConn]
      BY <2>2 DEF handle_broken_impl
    <3> QED
      BY <1>1, <3>1 DEF NodesTyped, SocksStep
  <2>3. CASE ~timer_reconnect_broker(n) /\ ~handle_broken_impl(n)
    <3>1. UNCHANGED m_master_broker_sock
      BY <1>3, <2>3 DEF RunTask, handle_unbound_msg, handle_broker_sync_data,
         trigger_callback, trigger_callback_throws, trigger_nothing, call_impl_refused,
         nodeVars, trigger_interface, call_impl, response, crash
    <3> QED
      BY <1>2, <3>1
  <2> QED
    BY <2>1, <2>2, <2>3
<1>4. ASSUME NEW n \in Nodes, OpenStarts(n) PROVE SocksStep
  BY <1>1, <1>4, ConnectingSocks DEF OpenStarts, open
<1>5. ASSUME ~ \E n \in Nodes : NodeThread(n) \/ OpenStarts(n)
      PROVE  UNCHANGED m_master_broker_sock
  BY <1>5 DEF Next, BrokerThread, Timer, route_call_reconnect, OpenReturns, open_returns,
     NetworkThread, handle_msg, handle_broken_on_node, Breaks, Application, call, vars,
     nodeVars
<1> QED
  BY <1>2, <1>3, <1>4, <1>5 DEF NodeThread

LEMMA SocksStayOwned ==
  ASSUME TypeOK, SocksOwned, [Next]_vars
  PROVE  SocksOwned'
<1>1. NoConn \notin Conns
  BY NetworkAssumption
<1> QED
  BY <1>1, StepSocks DEF SocksStep, SocksOwned, Fresh

(* Only nodes of the broker's process are in its table.                    *)
LEMMA LocalsStay ==
  ASSUME TypeOK, LocalsOnly, Ownership, [Next]_vars
  PROVE  LocalsOnly'
<1>1. /\ TypedTable /\ QueuesTyped /\ NodesTyped
      /\ \A n \in Nodes : m_master_broker_sock[n] \in Conns \cup {NoConn}
  BY TypeParts, NodeMaps DEF SharedTyped
<1>2. \A id \in Ids : m_node_info' = Looked(id) => LocalsOnly'
  BY <1>1, LookedLocals DEF LocalsOnly
<1>3. UNCHANGED m_node_info => LocalsOnly'
  BY DEF LocalsOnly
<1>4. ASSUME NEW c \in Conns, BrokerStep(c) PROVE LocalsOnly'
  <2>1. CASE handle_route_msg(c)
    <3>1. RouteOf(c).dest_node_id \in Ids
      BY <1>1, <2>1, FirstToBroker
      DEF handle_route_msg, Receives, TypedToBroker, Routes, RouteOf
    <3>2. m_node_info' = Looked(RouteOf(c).dest_node_id)
      BY <2>1 DEF handle_route_msg, broker_route_to_client, RouteOf
    <3> QED
      BY <1>2, <3>1, <3>2
  <2>2. CASE ~handle_route_msg(c)
    <3>1. UNCHANGED m_node_info
      BY <1>1, <1>4, <2>2, NoSlaveMessages
      DEF BrokerStep, handle_client_register, reject_client_register,
          handle_broken_unknown, handle_broken, routeVars
    <3> QED
      BY <1>3, <3>1
  <2> QED
    BY <2>1, <2>2
<1>5. ASSUME NEW n \in Nodes, NEW dest \in Ids, NEW msg, NEW cb, NEW body,
             send_to_broker_by_nodeid(n, dest, msg, cb, body)
      PROVE  LocalsOnly'
  BY <1>2, <1>3, <1>5 DEF send_to_broker_by_nodeid
<1>6. ASSUME NEW n \in Nodes, RunTask(n) PROVE LocalsOnly'
  <2>1. CASE call_impl(n)
    <3> DEFINE dest == m_broker_client_name2nodeid[n][Target[Task(n).call]]
    <3>1. dest \in Ids
      BY <1>1, <2>1, NodeMaps DEF NodeTyped, IsMap, call_impl
    <3>2. \E msg, cb, body : send_to_broker_by_nodeid(n, dest, msg, cb, body)
      BY <2>1 DEF call_impl
    <3> QED
      BY <1>5, <3>1, <3>2
  <2>2. CASE response(n)
    <3>1. Task(n).dest \in Ids
      BY <1>1, <2>2, FirstTask DEF response, Runs, Task, TypedTask
    <3> QED
      BY <1>5, <2>2, <3>1 DEF response
  <2>3. CASE ~call_impl(n) /\ ~response(n)
    <3>1. UNCHANGED m_node_info
      BY <1>6, <2>3 DEF RunTask, handle_unbound_msg, handle_broker_sync_data,
         trigger_callback, trigger_callback_throws, trigger_nothing, call_impl_refused,
         trigger_interface, handle_broken_impl, timer_reconnect_broker, crash, routeVars
    <3> QED
      BY <1>3, <3>1
  <2> QED
    BY <2>1, <2>2, <2>3
<1>7. ASSUME NEW n \in Nodes, OpenReturns(n) PROVE LocalsOnly'
  <2>1. UNCHANGED m_node_info \/ (n \in Local /\ add_node(m_node_id[n], n))
    BY <1>7 DEF OpenReturns, open_returns
  <2>2. CASE n \in Local /\ add_node(m_node_id[n], n)
    <3> DEFINE id == m_node_id[n]
               e == [Looked(id)[id] EXCEPT !.ffrpc = n]
    <3>1. id \in Ids
      BY <1>1, NodeMaps
    <3>2. Looked(id)[id] \in [ffrpc : Nodes \cup {NoNode}, ffbroker : BOOLEAN]
      BY <1>1, <3>1, LookedTyped DEF IsMap
    <3>3. e.ffrpc = n
      BY <3>2
    <3>4. m_node_info' = [x \in DOMAIN m_node_info \cup {id} |->
                            IF x = id THEN e ELSE m_node_info[x]]
      BY <2>2 DEF add_node, Insert
    <3> HIDE DEF e, id
    <3> QED
      BY <2>2, <3>3, <3>4 DEF LocalsOnly
  <2> QED
    BY <1>3, <2>1, <2>2
<1>8. ASSUME ~BrokerThread, ~ \E n \in Nodes : NodeThread(n) \/ OpenReturns(n)
      PROVE  UNCHANGED m_node_info
  BY <1>8 DEF Next, Timer, route_call_reconnect, OpenStarts, open, NetworkThread, handle_msg,
     handle_broken_on_node, Breaks, Application, call, vars, routeVars
<1> QED
  BY <1>3, <1>4, <1>6, <1>7, <1>8 DEF BrokerThread, NodeThread

(* Nothing is on a connection before it is made.                           *)
LEMMA UnusedHearNothing ==
  ASSUME TypeOK, UnusedEmpty, [Next]_vars, NEW c \in Conns, link[c] = "unused"
  PROVE  toNode'[c] = <<>>
<1>1. QueuesTyped /\ DOMAIN toNode = Conns /\ toNode[c] = <<>>
  BY TypeParts, QueuesAre DEF SharedTyped, UnusedEmpty
<1>2. \A dests, m : toNode' = SentToNodes(dests, m) => toNode'[c] = <<>>
  BY <1>1 DEF SentToNodes
<1>3. \A d \in Conns : \A s : CloseWith(d, s) => toNode'[c] = <<>>
  BY <1>1 DEF CloseWith
<1>4. UNCHANGED toNode => toNode'[c] = <<>>
  BY <1>1
<1>5. ASSUME NEW d \in Conns, BrokerStep(d) PROVE toNode'[c] = <<>>
  <2>1. CASE handle_client_register(d) \/ handle_broken(d)
    <3>1. \E dests, m : toNode' = SentToNodes(dests, m)
      BY <2>1 DEF handle_client_register, handle_broken, sync_all_register_info
    <3> QED
      BY <1>2, <3>1
  <2>2. CASE reject_client_register(d) \/ handle_broken_unknown(d)
    BY <1>3, <1>4, <2>2 DEF reject_client_register, handle_broken_unknown
  <2>3. CASE handle_route_msg(d)
    BY <1>2, <1>4, <2>3 DEF handle_route_msg
  <2> QED
    BY <1>1, <1>5, <2>1, <2>2, <2>3, NoSlaveMessages DEF BrokerStep
<1>6. ASSUME NEW n \in Nodes, NodeThread(n) PROVE UNCHANGED toNode
  BY <1>6 DEF NodeThread, RunTask, handle_unbound_msg, handle_broker_sync_data,
     trigger_callback, trigger_callback_throws, trigger_nothing, call_impl_refused, call_impl,
     response, trigger_interface, handle_broken_impl, timer_reconnect_broker, crash, netVars
<1>7. ASSUME NEW d \in Conns, handle_msg(d) PROVE toNode'[c] = <<>>
  BY <1>1, <1>7 DEF handle_msg
<1>8. ASSUME NEW d \in Conns, Breaks(d) PROVE toNode'[c] = <<>>
  BY <1>3, <1>8 DEF Breaks, Break
<1>9. ASSUME ~BrokerThread, ~ \E n \in Nodes : NodeThread(n),
             ~ \E d \in Conns : handle_msg(d) \/ Breaks(d)
      PROVE  UNCHANGED toNode
  BY <1>9 DEF Next, Timer, route_call_reconnect, OpenStarts, open, OpenReturns, open_returns,
     NetworkThread, handle_broken_on_node, Application, call, vars, netVars
<1> QED
  BY <1>4, <1>5, <1>6, <1>7, <1>8, <1>9 DEF BrokerThread

LEMMA UnusedStayEmpty ==
  ASSUME TypeOK, UnusedEmpty, [Next]_vars
  PROVE  UnusedEmpty'
<1> SUFFICES ASSUME NEW c \in Conns, link'[c] = "unused"
             PROVE  toBroker'[c] = <<>> /\ toNode'[c] = <<>>
  BY DEF UnusedEmpty
<1>1. link[c] = "unused" /\ toBroker[c] = <<>>
  BY StepLinks DEF LinkStep, UnusedEmpty
<1>2. toBroker'[c] = toBroker[c]
  BY <1>1, StepQueue DEF QueueStep, OneQueueStep, Taken, Cut, RouteAdded, Connected
<1> QED
  BY <1>1, <1>2, UnusedHearNothing

(* What is issued, and what is served.                                     *)
LEMMA StepIssues ==
  ASSUME TypeOK, [Next]_vars
  PROVE  \/ UNCHANGED issued
         \/ \E k \in Calls : Asks(k)
<1>1. ASSUME NEW c \in Conns, handle_msg(c) PROVE UNCHANGED issued
  BY <1>1 DEF handle_msg, nodeVars
<1>2. ASSUME NEW n \in Nodes, trigger_interface(n) \/ call_impl(n) PROVE UNCHANGED issued
  BY <1>2 DEF trigger_interface, call_impl
<1> QED
  BY <1>1, <1>2, StepKinds, CallAsks DEF IdleStep, nodeVars

LEMMA IssuedStaysOnce ==
  ASSUME TypeOK, IssuedOnce, [Next]_vars
  PROVE  IssuedOnce'
<1>1. issued \in [Nodes -> Seq(Calls)] /\ Caller \in [Calls -> Nodes]
  BY TypeParts, SystemAssumption DEF NodesTyped
<1>2. ASSUME NEW k \in Calls, Asks(k) PROVE IssuedOnce'
  <2> DEFINE q == Caller[k]
             s == issued[q]
  <2>1. /\ issued'[q] = Append(s, k) /\ s \in Seq(Calls)
        /\ \A p \in Nodes : p # q => issued'[p] = issued[p]
        /\ \A i \in 1..Len(s) : s[i] # k
    BY <1>1, <1>2 DEF Asks, Issued
  <2>2. /\ Len(issued'[q]) = Len(s) + 1 /\ Len(s) \in Nat /\ issued'[q][Len(s) + 1] = k
        /\ \A i \in 1..Len(s) : issued'[q][i] = s[i]
    BY <2>1, AppendProperties, LenProperties
  <2>3. \A i, j \in 1..Len(issued'[q]) : issued'[q][i] = issued'[q][j] => i = j
    <3>1. \A i \in 1..Len(issued'[q]) : i \in 1..Len(s) \/ i = Len(s) + 1
      BY <2>2
    <3>2. \A i, j \in 1..Len(s) : s[i] = s[j] => i = j
      BY <1>1 DEF IssuedOnce
    <3> HIDE DEF s, q
    <3> QED
      BY <2>1, <2>2, <3>1, <3>2
  <2> QED
    BY <2>1, <2>3 DEF IssuedOnce
<1> QED
  BY <1>2, StepIssues DEF IssuedOnce

LEMMA OwnershipStep ==
  ASSUME TypeOK, Ownership, [Next]_vars
  PROVE  Ownership'
BY OwnStep, SocksStayOwned, LocalsStay, UnusedStayEmpty, IssuedStaysOnce DEF Ownership

-----------------------------------------------------------------------------
(* The steps keep the calls of one node to another in order, the server    *)
(* being of another process than the broker.                               *)
LEMMA StepServesOne ==
  ASSUME TypeOK, [Next]_vars
  PROVE  /\ ServesOne
         /\ (\A n \in Nodes : ~trigger_interface(n)) => UNCHANGED served
<1>1. QueuesTyped /\ DOMAIN served = Nodes
  BY TypeParts DEF SharedTyped, NodesTyped
<1>2. ASSUME NEW n \in Nodes, trigger_interface(n) PROVE ServesOne
  <2> DEFINE k == Routed(n).body.call
  <2>1. Triggers(n)
    BY <1>2 DEF trigger_interface, CallsInterface
  <2>2. k \in Calls
    BY <1>1, <2>1, RoutedTyped DEF Routes, Bodies
  <2>3. served' = [served EXCEPT ![n] = Append(@, k)]
    BY <1>2 DEF trigger_interface, ExeInterface
  <2> HIDE DEF k
  <2> QED
    BY <1>1, <2>2, <2>3 DEF ServesOne
<1>3. ASSUME \A n \in Nodes : ~trigger_interface(n) PROVE UNCHANGED served
  <2>1. \A k \in Calls : Application(k) => UNCHANGED served
    BY DEF Application, call
  <2>2. \A c \in Conns : handle_msg(c) => UNCHANGED served
    BY DEF handle_msg, nodeVars
  <2>3. \A n \in Nodes : call_impl(n) => UNCHANGED served
    BY DEF call_impl
  <2> QED
    BY <1>3, <2>1, <2>2, <2>3, StepKinds DEF IdleStep, nodeVars
<1> QED
  BY <1>2, <1>3 DEF ServesOne

LEMMA StepShifts ==
  ASSUME TypeOK, [Next]_vars, UnusedEmpty', NEW a \in Nodes, NEW n \in Nodes,
         OneConnection(a)', OneConnection(n)', NEW XB, NEW XN, NEW XT, Moves(XB, XN, XT)
  PROVE  AllShift(a, n, XB, XN, XT)
BY StepServesOne, SpotsShift DEF AllShift

(* What follows the head of a queue moves up.                              *)
LEMMA TaskPasses ==
  ASSUME QueuesTyped, NEW n \in Nodes, tq[n] # <<>>
  PROVE  /\ 1 \in 1..Len(tq[n]) /\ Task(n) = tq[n][1] /\ Task(n) \in Items(tq[n])
         /\ Done(n) => Follows(tq[n], tq'[n], 1, {})
         /\ \A t : tq' = [tq EXCEPT ![n] = Append(Tail(@), t)]
                     => Follows(tq[n], tq'[n], 1, {t})
<1>1. IsQueue(tq[n]) /\ DOMAIN tq = Nodes
  BY QueuesAre
<1>2. Done(n) => tq'[n] = Tail(tq[n])
  BY <1>1 DEF Done
<1>3. \A t : tq' = [tq EXCEPT ![n] = Append(Tail(@), t)] => tq'[n] = Append(Tail(tq[n]), t)
  BY <1>1
<1>4. \A t : Follows(tq[n], Append(Tail(tq[n]), t), 1, {t})
  BY <1>1, FollowsTaken
<1>5. Follows(tq[n], Tail(tq[n]), 1, {})
  BY <1>1, FollowsTaken
<1>6. 1 \in 1..Len(tq[n]) /\ Task(n) = tq[n][1] /\ Task(n) \in Items(tq[n])
  BY <1>1, TakenQueue DEF Task
<1>7. Done(n) => Follows(tq[n], tq'[n], 1, {})
  BY <1>2, <1>5
<1>8. ASSUME NEW t, tq' = [tq EXCEPT ![n] = Append(Tail(@), t)]
      PROVE  Follows(tq[n], tq'[n], 1, {t})
  BY <1>3, <1>4, <1>8
<1> QED
  BY <1>6, <1>7, <1>8

LEMMA IdleOrder ==
  ASSUME TypeOK, [Next]_vars, UnusedEmpty', NEW a \in Nodes, NEW n \in Nodes,
         OneConnection(a)', OneConnection(n)', Tracked(a, n), IdleStep
  PROVE  Tracked(a, n)'
<1>1. PICK XB, XN, XT : Moves(XB, XN, XT) /\ Idle(XB, XN, XT)
  BY DEF IdleStep, IdleMoves
<1>2. \A k : served'[n] # Append(served[n], k)
  BY ServedGrows DEF IdleStep
<1>3. \A s, k : ~Enters(a, n, s, k, XB, XN, XT)
  BY <1>1, <1>2 DEF Enters, Idle
<1>4. UNCHANGED issued
  BY DEF IdleStep
<1> QED
  BY <1>1, <1>3, <1>4, StepShifts, QuietOrder

LEMMA ApplicationOrder ==
  ASSUME TypeOK, [Next]_vars, UnusedEmpty', NEW a \in Nodes, NEW n \in Nodes,
         OneConnection(a)', OneConnection(n)', Tracked(a, n), NEW k0 \in Calls, Application(k0)
  PROVE  Tracked(a, n)'
<1> DEFINE X == AsTask(Caller[k0], [kind |-> "call", call |-> k0])
<1>1. QueuesTyped /\ Caller[k0] \in Nodes /\ UNCHANGED served
  BY TypeParts, SystemAssumption DEF SharedTyped, Application, call
<1>2. Moves(Nowhere, Nowhere, X)
  BY <1>1, ProducerMoves DEF Application
<1>3. \A p \in Nodes : \A t \in X[p] : \A k : ~MsgTask(t, k) /\ (CallTask(t, k) => k = k0)
  BY DEF AsTask, MsgTask, CallTask
<1> HIDE DEF X
<1>4. \A k : served'[n] # Append(served[n], k)
  BY <1>1, ServedGrows
<1>5. \A s, k : Enters(a, n, s, k, Nowhere, Nowhere, X) => s = 1 /\ k = k0
  BY <1>3, <1>4, NothingCarries DEF Enters
<1>6. Asks(k0)
  BY CallAsks
<1> QED
  BY <1>2, <1>5, <1>6, StepShifts, AskOrder

LEMMA RouteOrder ==
  ASSUME TypeOK, Ownership, [Next]_vars, UnusedEmpty', NEW a \in Nodes, NEW n \in Nodes,
         OneConnection(a)', OneConnection(n)', Tracked(a, n),
         NEW c \in Conns, handle_route_msg(c), UNCHANGED nodeVars
  PROVE  Tracked(a, n)'
<1> DEFINE k0 == RouteOf(c).body.call
<1>1. /\ QueuesTyped /\ Moves(Nowhere, RoutedTo(c), TriggeredAt(c))
      /\ UNCHANGED <<issued, served, link>>
  BY TypeParts, RouteMoves DEF SharedTyped, handle_route_msg, nodeVars
<1>2. \A d \in Conns : \A m \in RoutedTo(c)[d] : \A k : ReadWants(m, k) => Wants(RouteOf(c), k)
  BY DEF RoutedTo, ToClient, ReadWants
<1>3. \A p \in Nodes : \A t \in TriggeredAt(c)[p] : \A k : ~MsgTask(t, k) /\ ~CallTask(t, k)
  BY DEF TriggeredAt, MsgTask, CallTask
<1>4. \A k : served'[n] # Append(served[n], k)
  BY <1>1, ServedGrows
<1>5. \A s, k : Enters(a, n, s, k, Nowhere, RoutedTo(c), TriggeredAt(c))
                  => s = 3 /\ Wants(RouteOf(c), k)
  BY <1>2, <1>3, <1>4, NothingCarries DEF Enters
<1>6. \A k : Wants(RouteOf(c), k) => k = k0 /\ RouteOf(c).msg_id # 0
  BY DEF Wants
<1>7. /\ IsQueue(toBroker[c]) /\ toBroker[c] # <<>> /\ IsRoute(Head(toBroker[c]))
      /\ toBroker'[c] = Tail(toBroker[c])
  BY <1>1, QueuesAre DEF handle_route_msg, Receives, Consumed, IsRoute
<1>8. /\ 1 \in 1..Len(toBroker[c]) /\ Head(toBroker[c]) = toBroker[c][1]
      /\ Head(toBroker[c]) \in Items(toBroker[c])
  BY <1>7, TakenQueue
<1>9. ASSUME RouteOf(c).msg_id # 0, Caller[k0] = a
      PROVE  Passes(a, n, 3, k0)
  <2>1. Owner[c] = a
    BY <1>7, <1>8, <1>9 DEF Ownership, OwnRoutes, RouteOf
  <2>2. Spot(a, n, 2, k0, 1)
    BY <1>7, <1>8, <1>9, <2>1 DEF Spot, SentWants, Wants, RouteOf
  <2>3. Uses(a, c)'
    BY <1>1, <1>7, <2>1 DEF Ownership, UnusedEmpty, Uses
  <2>4. ASSUME NEW l, NEW i, Spot(a, n, 2, l, i)'
        PROVE  Spot(a, n, 2, l, i + 1)
    <3>1. PICK d \in Conns : /\ Owner[d] = a /\ i \in 1..Len(toBroker'[d])
                             /\ SentWants(toBroker'[d][i], l)
      BY <2>4 DEF Spot, SentWants
    <3>2. Uses(a, d)'
      BY <3>1, EmptyQueue DEF UnusedEmpty, Uses
    <3>3. d = c
      BY <2>3, <3>2 DEF OneConnection
    <3>4. Follows(toBroker[c], toBroker'[c], 1, {})
      BY <1>7, FollowsTaken
    <3>5. i + 1 \in 1..Len(toBroker[c]) /\ toBroker'[c][i] = toBroker[c][i + 1]
      BY <3>1, <3>3, <3>4 DEF Follows
    <3> QED
      BY <2>1, <3>1, <3>3, <3>5 DEF Spot
  <2> QED
    BY <2>2, <2>4 DEF Passes
<1> HIDE DEF k0
<1>10. \A s \in 1..5 : \A k \in Mine(a) :
         Enters(a, n, s, k, Nowhere, RoutedTo(c), TriggeredAt(c))
           => s = 3 /\ k = k0 /\ Passes(a, n, 3, k0)
  BY <1>5, <1>6, <1>9 DEF Mine
<1>11. AllShift(a, n, Nowhere, RoutedTo(c), TriggeredAt(c)) /\ 3 \in 2..5
  BY <1>1, StepShifts
<1> QED
  BY <1>1, <1>10, <1>11, PassOrder

LEMMA ReadOrder ==
  ASSUME TypeOK, Ownership, [Next]_vars, UnusedEmpty', NEW a \in Nodes, NEW n \in Nodes,
         OneConnection(a)', OneConnection(n)', Tracked(a, n), NEW c \in Conns, handle_msg(c)
  PROVE  Tracked(a, n)'
<1> DEFINE m == Head(toNode[c])
           k0 == m.route.body.call
           X == AsTask(Owner[c], [kind |-> "msg", msg |-> m])
<1>1. /\ QueuesTyped /\ Moves(Nowhere, Nowhere, X) /\ UNCHANGED <<issued, served, link>>
  BY TypeParts, SystemAssumption, HandleMsgMoves DEF SharedTyped, handle_msg, nodeVars
<1>2. \A p \in Nodes : \A t \in X[p] : \A k : /\ ~CallTask(t, k)
                                              /\ MsgTask(t, k) => p = Owner[c] /\ ReadWants(m, k)
  BY DEF AsTask, MsgTask, CallTask
<1>3. \A k : served'[n] # Append(served[n], k)
  BY <1>1, ServedGrows
<1> HIDE DEF X
<1>4. \A s, k : Enters(a, n, s, k, Nowhere, Nowhere, X)
                  => s = 4 /\ n = Owner[c] /\ ReadWants(m, k)
  BY <1>2, <1>3, NothingCarries DEF Enters
<1>5. \A k : ReadWants(m, k) => k = k0
  BY DEF ReadWants, Wants
<1>6. /\ IsQueue(toNode[c]) /\ toNode[c] # <<>> /\ toNode'[c] = Tail(toNode[c])
  BY <1>1, QueuesAre DEF handle_msg
<1>7. 1 \in 1..Len(toNode[c]) /\ m = toNode[c][1]
  BY <1>6, TakenQueue
<1> HIDE DEF m, k0
<1>8. ASSUME n = Owner[c], ReadWants(m, k0)
      PROVE  Passes(a, n, 4, k0)
  <2>1. Spot(a, n, 3, k0, 1)
    BY <1>7, <1>8 DEF Spot
  <2>2. Uses(n, c)'
    BY <1>1, <1>6, <1>8 DEF Ownership, UnusedEmpty, Uses
  <2>3. ASSUME NEW l, NEW i, Spot(a, n, 3, l, i)'
        PROVE  Spot(a, n, 3, l, i + 1)
    <3>1. PICK d \in Conns : /\ Owner[d] = n /\ i \in 1..Len(toNode'[d])
                             /\ ReadWants(toNode'[d][i], l)
      BY <2>3 DEF Spot, ReadWants
    <3>2. Uses(n, d)'
      BY <3>1, EmptyQueue DEF UnusedEmpty, Uses
    <3>3. d = c
      BY <2>2, <3>2 DEF OneConnection
    <3>4. Follows(toNode[c], toNode'[c], 1, {})
      BY <1>6, FollowsTaken
    <3>5. i + 1 \in 1..Len(toNode[c]) /\ toNode'[c][i] = toNode[c][i + 1]
      BY <3>1, <3>3, <3>4 DEF Follows
    <3> QED
      BY <1>8, <3>1, <3>3, <3>5 DEF Spot
  <2> QED
    BY <2>1, <2>3 DEF Passes
<1>9. \A s \in 1..5 : \A k \in Mine(a) :
        Enters(a, n, s, k, Nowhere, Nowhere, X) => s = 4 /\ k = k0 /\ Passes(a, n, 4, k0)
  BY <1>4, <1>5, <1>8
<1>10. AllShift(a, n, Nowhere, Nowhere, X) /\ 4 \in 2..5
  BY <1>1, StepShifts
<1> QED
  BY <1>1, <1>9, <1>10, PassOrder

LEMMA ServeOrder ==
  ASSUME TypeOK, Ownership, [Next]_vars, UnusedEmpty', NEW a \in Nodes, NEW n \in Nodes \ Local,
         OneConnection(a)', OneConnection(n)', Tracked(a, n), NEW p \in Nodes, trigger_interface(p)
  PROVE  Tracked(a, n)'
<1> DEFINE k0 == Routed(p).body.call
           t == ResponseTask(Routed(p))
<1>1. /\ QueuesTyped /\ Moves(Nowhere, Nowhere, Responded(p)) /\ UNCHANGED issued
      /\ served \in [Nodes -> Seq(Calls)]
  BY TypeParts, TriggerInterfaceMoves DEF SharedTyped, NodesTyped, trigger_interface
<1>2. /\ served' = [served EXCEPT ![p] = Append(@, k0)]
      /\ tq' = [tq EXCEPT ![p] = Append(Tail(@), t)] \/ tq' = [tq EXCEPT ![p] = Tail(@)]
      /\ Triggers(p) /\ Routed(p).msg_id # 0
  BY DEF trigger_interface, ExeInterface, CallsInterface, Done
<1>3. \A k : ~MsgTask(t, k) /\ ~CallTask(t, k)
  BY DEF MsgTask, CallTask, ResponseTask
<1>4. Responded(p) = AsTask(p, t)
  BY DEF Responded
<1> HIDE DEF t
<1>5. \A q \in Nodes : \A u \in Responded(p)[q] : \A k : ~MsgTask(u, k) /\ ~CallTask(u, k)
  BY <1>3, <1>4 DEF AsTask
<1> HIDE DEF k0
<1>6. \A k : served'[n] = Append(served[n], k) => n = p /\ k = k0
  <2> TAKE k
  <2>1. n # p => served'[n] = served[n]
    BY <1>1, <1>2
  <2>2. n = p => served'[n] = Append(served[n], k0)
    BY <1>1, <1>2
  <2>3. /\ Append(served[n], k)[Len(served[n]) + 1] = k
        /\ Append(served[n], k0)[Len(served[n]) + 1] = k0
    <3>1. served[n] \in Seq(Calls) /\ Len(served[n]) \in Nat
      BY <1>1, LenProperties
    <3> QED
      BY <3>1
  <2> QED
    BY <2>1, <2>2, <2>3, ServedGrows
<1>7. \A s, k : Enters(a, n, s, k, Nowhere, Nowhere, Responded(p)) => s = 5 /\ n = p /\ k = k0
  BY <1>5, <1>6, NothingCarries DEF Enters
<1>8. ASSUME n = p
      PROVE  Passes(a, n, 5, k0)
  <2>1. tq[n] # <<>>
    BY <1>2, <1>8 DEF Triggers, ReceivesOnNode, Runs
  <2>2. /\ 1 \in 1..Len(tq[n]) /\ Task(n) = tq[n][1] /\ Task(n) \in Items(tq[n])
        /\ Follows(tq[n], tq'[n], 1, {t})
    <3>1. CASE tq' = [tq EXCEPT ![p] = Append(Tail(@), t)]
      BY <1>1, <1>8, <2>1, <3>1, TaskPasses
    <3>2. CASE tq' = [tq EXCEPT ![p] = Tail(@)]
      <4>1. Done(n)
        BY <1>8, <3>2 DEF Done
      <4>2. Follows(tq[n], tq'[n], 1, {})
        BY <1>1, <2>1, <4>1, TaskPasses
      <4> QED
        BY <1>1, <2>1, <4>2, TaskPasses DEF Follows
    <3> QED
      BY <1>2, <3>1, <3>2
  <2>3. Task(n).kind # "trigger"
    BY <2>2 DEF Ownership, OwnTasks
  <2>4. Task(n).kind = "msg" /\ ~IsSync(Task(n).msg) /\ Routed(n) = Task(n).msg.route
    BY <1>2, <1>8, <2>3 DEF Triggers, ReceivesOnNode, Runs, Task, Routed, IsSync
  <2>5. MsgTask(Task(n), k0)
    BY <1>2, <1>8, <2>4 DEF MsgTask, ReadWants, Wants, k0
  <2>6. Spot(a, n, 4, k0, 1)
    BY <2>2, <2>5 DEF Spot
  <2>7. ASSUME NEW l, NEW i, Spot(a, n, 4, l, i)'
        PROVE  Spot(a, n, 4, l, i + 1)
    <3>1. i \in 1..Len(tq'[n]) /\ MsgTask(tq'[n][i], l)
      BY <2>7 DEF Spot, MsgTask, ReadWants
    <3>2. i + 1 \in 1..Len(tq[n]) /\ tq'[n][i] = tq[n][i + 1]
      BY <1>3, <2>2, <3>1 DEF Follows
    <3> QED
      BY <3>1, <3>2 DEF Spot
  <2> QED
    BY <2>6, <2>7 DEF Passes
<1>9. \A s \in 1..5 : \A k \in Mine(a) :
        Enters(a, n, s, k, Nowhere, Nowhere, Responded(p))
          => s = 5 /\ k = k0 /\ Passes(a, n, 5, k0)
  BY <1>7, <1>8
<1>10. AllShift(a, n, Nowhere, Nowhere, Responded(p)) /\ 5 \in 2..5
  BY <1>1, StepShifts
<1> QED
  BY <1>1, <1>9, <1>10, PassOrder

LEMMA RequestOrder ==
  ASSUME TypeOK, Ownership, [Next]_vars, UnusedEmpty', NEW a \in Nodes, NEW n \in Nodes,
         OneConnection(a)', OneConnection(n)', Tracked(a, n), NEW p \in Nodes, call_impl(p)
  PROVE  Tracked(a, n)'
<1> DEFINE k0 == Task(p).call
<1>1. /\ QueuesTyped /\ Moves(Requested(p), Nowhere, NoTask) /\ UNCHANGED <<issued, served>>
  BY TypeParts, NodeMaps, SendingMoves DEF SharedTyped, call_impl
<1>2. \A k : served'[n] # Append(served[n], k)
  BY <1>1, ServedGrows
<1>3. \A s, k : Enters(a, n, s, k, Requested(p), Nowhere, NoTask) => s = 2 /\ a = p /\ k = k0
  <2>1. \A c \in Conns : c = m_master_broker_sock[p] => Owner[c] = p
    BY DEF Ownership, SocksOwned
  <2>2. \A k : \A c \in Conns : \A m \in Requested(p)[c] :
          SentWants(m, k) => Owner[c] = p /\ k = k0
    BY <2>1, RequestedIs
  <2> HIDE DEF k0
  <2> QED
    BY <1>2, <2>2, NothingCarries DEF Enters
<1>4. tq[p] # <<>> /\ Task(p).kind = "call" /\ Done(p)
  BY DEF call_impl, Runs, Task
<1>5. /\ 1 \in 1..Len(tq[p]) /\ Task(p) = tq[p][1] /\ Follows(tq[p], tq'[p], 1, {})
  BY <1>1, <1>4, TaskPasses
<1>6. Passes(p, n, 2, k0)
  <2>1. Spot(p, n, 1, k0, 1)
    BY <1>4, <1>5 DEF Spot, CallTask
  <2>2. ASSUME NEW l, NEW i, Spot(p, n, 1, l, i)'
        PROVE  Spot(p, n, 1, l, i + 1)
    <3>1. i \in 1..Len(tq'[p]) /\ CallTask(tq'[p][i], l)
      BY <2>2 DEF Spot, CallTask
    <3>2. i + 1 \in 1..Len(tq[p]) /\ tq'[p][i] = tq[p][i + 1]
      BY <1>5, <3>1 DEF Follows
    <3> QED
      BY <3>1, <3>2 DEF Spot
  <2> HIDE DEF k0
  <2> QED
    BY <2>1, <2>2 DEF Passes
<1> HIDE DEF k0
<1>7. \A s \in 1..5 : \A k \in Mine(a) :
        Enters(a, n, s, k, Requested(p), Nowhere, NoTask)
          => s = 2 /\ k = k0 /\ Passes(a, n, 2, k0)
  BY <1>3, <1>6
<1>8. AllShift(a, n, Requested(p), Nowhere, NoTask) /\ 2 \in 2..5
  BY <1>1, StepShifts
<1> QED
  BY <1>1, <1>7, <1>8, PassOrder

(* The invariant: for as long as two nodes have made one connection each,  *)
(* and the second is not in the broker's process, the calls of the first   *)
(* are on their way to the second in the order they were made.             *)
OrderHolds == \A a \in Nodes : \A n \in Nodes \ Local :
                OneConnection(a) /\ OneConnection(n) => Tracked(a, n)

(* A node without interfaces serves nothing.                               *)
ServesNothing == \A n \in Nodes : Interfaces[n] = {} => served[n] = <<>>

OrderInv == TypeOK /\ Ownership /\ OrderHolds /\ ServesNothing

LEMMA OrderStep ==
  ASSUME TypeOK, Ownership, OrderHolds, [Next]_vars
  PROVE  OrderHolds'
<1> SUFFICES ASSUME NEW a \in Nodes, NEW n \in Nodes \ Local,
                    OneConnection(a)', OneConnection(n)'
             PROVE  Tracked(a, n)'
  BY DEF OrderHolds
<1>1. UnusedEmpty'
  BY UnusedStayEmpty DEF Ownership
<1>2. OneConnection(a) /\ OneConnection(n)
  BY StepLinks DEF LinkStep, OneConnection, Uses
<1>3. Tracked(a, n)
  BY <1>2 DEF OrderHolds
<1> QED
  BY <1>1, <1>3, StepKinds, IdleOrder, ApplicationOrder, RouteOrder, ReadOrder, ServeOrder,
     RequestOrder

LEMMA NothingServed ==
  ASSUME TypeOK, ServesNothing, [Next]_vars
  PROVE  ServesNothing'
<1>1. DOMAIN served = Nodes
  BY TypeParts DEF NodesTyped
<1>2. ASSUME NEW n \in Nodes, trigger_interface(n) PROVE ServesNothing'
  <2>1. \E i : i \in DOMAIN m_ffslot_interface[n]
    BY <1>2 DEF trigger_interface, CallsInterface
  <2>2. Interfaces[n] # {}
    BY <2>1, TypeParts, NodeMaps DEF NodeTyped, IsMap
  <2>3. \A p \in Nodes : p # n => served'[p] = served[p]
    BY <1>1, <1>2 DEF trigger_interface, ExeInterface
  <2> QED
    BY <2>2, <2>3 DEF ServesNothing
<1>3. (\A n \in Nodes : ~trigger_interface(n)) => ServesNothing'
  BY StepServesOne DEF ServesNothing
<1> QED
  BY <1>2, <1>3

LEMMA OrderInit == Init => OrderInv
<1> SUFFICES ASSUME Init PROVE OrderInv
  OBVIOUS
<1>1. /\ \A c \in Conns : toBroker[c] = <<>> /\ toNode[c] = <<>>
      /\ \A n \in Nodes : /\ tq[n] = <<>> /\ served[n] = <<>> /\ issued[n] = <<>>
                          /\ m_master_broker_sock[n] = NoConn
  BY DEF Init, NetInit, RouteInit, NodeInit
<1>2. TypeOK
  BY InitTyped
<1>3. OwnTasks /\ OwnRoutes /\ UnusedEmpty
  BY <1>1, EmptyQueue DEF OwnTasks, OwnRoutes, UnusedEmpty
<1>4. SocksOwned
  BY <1>1, NetworkAssumption DEF SocksOwned
<1>5. LocalsOnly
  BY DEF Init, RouteInit, LocalsOnly, dest_node_info_t
<1>6. IssuedOnce
  BY <1>1 DEF IssuedOnce
<1>7. OrderHolds
  <2>1. \A a \in Nodes : \A n \in Nodes : \A s, k, i : ~Spot(a, n, s, k, i)
    BY <1>1 DEF Spot
  <2> QED
    BY <2>1 DEF OrderHolds, Tracked
<1>8. ServesNothing
  BY <1>1 DEF ServesNothing
<1> QED
  BY <1>2, <1>3, <1>4, <1>5, <1>6, <1>7, <1>8 DEF OrderInv, Ownership

LEMMA OrderInvHolds == Spec => []OrderInv
<1>1. ASSUME OrderInv, [Next]_vars PROVE OrderInv'
  BY <1>1, StepTyped, OwnershipStep, OrderStep, NothingServed DEF OrderInv
<1> QED
  BY <1>1, OrderInit, PTL DEF Spec

PairInOrder(a, n) ==
  \A i, j \in 1..Len(served[n]) :
    i < j /\ Caller[served[n][i]] = a /\ Caller[served[n][j]] = a
      => PositionIn(issued[a], served[n][i]) < PositionIn(issued[a], served[n][j])

LEMMA TrackedIsInOrder ==
  ASSUME TypeOK, IssuedOnce, NEW a \in Nodes, NEW n \in Nodes, Tracked(a, n)
  PROVE  PairInOrder(a, n)
<1> SUFFICES ASSUME NEW i \in 1..Len(served[n]), NEW j \in 1..Len(served[n]), i < j,
                    Caller[served[n][i]] = a, Caller[served[n][j]] = a
             PROVE  PositionIn(issued[a], served[n][i]) < PositionIn(issued[a], served[n][j])
  BY DEF PairInOrder
<1> DEFINE k == served[n][i]
           l == served[n][j]
           s == issued[a]
<1>1. k \in Mine(a) /\ l \in Mine(a)
  <2>1. served[n] \in Seq(Calls)
    BY TypeParts, NodeMaps
  <2> QED
    BY <2>1 DEF Mine
<1>2. Spot(a, n, 5, k, i) /\ Spot(a, n, 5, l, j) /\ Leads(5, i, 5, j)
  BY DEF Spot, Leads
<1> HIDE DEF k, l
<1>3. Earlier(k, l)
  BY <1>1, <1>2 DEF Tracked
<1>4. PICK x, y \in 1..Len(s) : x < y /\ s[x] = k /\ s[y] = l
  BY <1>1, <1>3 DEF Earlier, Mine
<1>5. \A u, v \in 1..Len(s) : s[u] = s[v] => u = v
  BY DEF IssuedOnce
<1> HIDE DEF s
<1>6. PositionIn(s, k) = x /\ PositionIn(s, l) = y
  BY <1>4, <1>5 DEF PositionIn
<1> QED
  BY <1>4, <1>6 DEF k, l, s

(* The calls one node makes are served by another in the order they were   *)
(* made, for as long as neither has connected again and the server is not  *)
(* in the broker's process, whatever breaks between other nodes ("call     *)
(* puts the request on that thread, so that all requests are in order",    *)
(* ffrpc_t::call, ffbroker_t::handle_route_msg).                           *)
THEOREM PairsAreInOrder ==
  Spec => [](\A a \in Nodes : \A n \in Nodes \ Local :
               OneConnection(a) /\ OneConnection(n) => PairInOrder(a, n))
<1>1. OrderInv => \A a \in Nodes : \A n \in Nodes \ Local :
                    OneConnection(a) /\ OneConnection(n) => PairInOrder(a, n)
  BY TrackedIsInOrder DEF OrderInv, OrderHolds, Ownership
<1> QED
  BY <1>1, OrderInvHolds, PTL

(* Every service runs the calls of one node in the order they were made,   *)
(* when no interface is in the broker's process and until some node has    *)
(* connected again (ffrpc_t::call, ffrpc_t::trigger_callback).             *)
THEOREM CallsAreInOrder ==
  ASSUME \A n \in Local : Interfaces[n] = {}
  PROVE  Spec => []((\A p \in Nodes : OneConnection(p)) => CallsInOrder)
<1>1. ASSUME OrderInv, \A p \in Nodes : OneConnection(p)
      PROVE  CallsInOrder
  <2>1. ASSUME NEW n \in Nodes, NEW i \in 1..Len(served[n]), NEW j \in 1..Len(served[n]), i < j,
               Caller[served[n][i]] = Caller[served[n][j]]
        PROVE  PositionIn(issued[Caller[served[n][i]]], served[n][i])
                 < PositionIn(issued[Caller[served[n][j]]], served[n][j])
    <3>1. TypeOK /\ Ownership /\ OrderHolds /\ ServesNothing /\ Local \subseteq Nodes
      BY <1>1, SystemAssumption DEF OrderInv
    <3>2. n \notin Local
      <4>1. Len(<<>>) = 0
        BY EmptyQueue
      <4> QED
        BY <2>1, <3>1, <4>1 DEF ServesNothing
    <3>3. Caller[served[n][i]] \in Nodes
      BY <3>1, TypeParts, NodeMaps, SystemAssumption
    <3>4. Tracked(Caller[served[n][i]], n)
      BY <1>1, <3>1, <3>2, <3>3 DEF OrderHolds
    <3>5. PairInOrder(Caller[served[n][i]], n)
      BY <3>1, <3>3, <3>4, TrackedIsInOrder DEF Ownership
    <3> QED
      BY <2>1, <3>5 DEF PairInOrder
  <2> QED
    BY <2>1 DEF CallsInOrder
<1> QED
  BY <1>1, OrderInvHolds, PTL

-----------------------------------------------------------------------------
(* A node connects again only once one of its connections has broken: until*)
(* then it has no timer, no task that handles a break or connects, and one *)
(* connection, made when it was opened.                                    *)
Unbroken(p) == \A c \in Conns : Owner[c] = p => link[c] # "broken"

Alarming(t) == t.kind \in {"broken", "reconnect"}

Alarmed(p) == \E t \in Items(tq[p]) : Alarming(t)

Steady(p) == /\ OneConnection(p) /\ m_timer[p] = 0 /\ ~Alarmed(p)
             /\ opened[p] = "closed" => \A c \in Conns : ~Uses(p, c)

SteadyUntilBroken == \A p \in Nodes : Unbroken(p) => Steady(p)

(* What a step may add to the queue of a node, and when it may connect.    *)
AlarmStep == \A p \in Nodes : Alarmed(p)' => Alarmed(p) \/ m_timer[p] # 0 \/ ~Unbroken(p)

NoneConnects == \A c \in Conns : link[c] = "unused" => link'[c] = "unused"

(* One connection at most is made for p.                                   *)
Connects(p) == \E d : \A c \in Conns : Uses(p, c)' => Uses(p, c) \/ c = d

OpeningStep ==
  \A p \in Nodes :
    \/ Alarmed(p)
    \/ /\ m_timer[p] = 0 => m_timer'[p] = 0
       /\ opened'[p] = "closed" => opened[p] = "closed"
       /\ \/ \A c \in Conns : Uses(p, c)' => Uses(p, c)
          \/ opened[p] = "closed" /\ opened'[p] # "closed" /\ Connects(p)

LEMMA MovesAlarm ==
  ASSUME QueuesTyped, NEW XB, NEW XN, NEW XT, Moves(XB, XN, XT),
         \A n \in Nodes : \A t \in XT[n] : Alarming(t) => m_timer[n] # 0 \/ ~Unbroken(n)
  PROVE  AlarmStep
<1>1. ASSUME NEW n \in Nodes, NEW t \in Items(tq'[n]) PROVE t \in Items(tq[n]) \cup XT[n]
  BY <1>1 DEF Moves, From
<1> QED
  BY <1>1 DEF AlarmStep, Alarmed

LEMMA NobodyAlarmed ==
  ASSUME QueuesTyped, NEW XB, NEW XN, Moves(XB, XN, NoTask)
  PROVE  AlarmStep
<1>1. \A n \in Nodes : NoTask[n] = {}
  BY DEF NoTask
<1> QED
  BY <1>1, MovesAlarm

LEMMA TaskAlarms ==
  ASSUME QueuesTyped, NEW n \in Nodes, NEW t, Moves(Nowhere, Nowhere, AsTask(n, t)),
         Alarming(t) => m_timer[n] # 0 \/ ~Unbroken(n)
  PROVE  AlarmStep
<1>1. \A p \in Nodes : \A x \in AsTask(n, t)[p] : x = t /\ p = n
  BY DEF AsTask
<1> QED
  BY <1>1, MovesAlarm

LEMMA StepAlarms ==
  ASSUME TypeOK, [Next]_vars
  PROVE  AlarmStep
<1>1. QueuesTyped /\ NodesTyped
  BY TypeParts DEF SharedTyped
<1>2. ASSUME NEW c \in Conns, BrokerStep(c) PROVE AlarmStep
  <2>1. CASE handle_route_msg(c)
    <3>1. \A n \in Nodes : \A t \in TriggeredAt(c)[n] : ~Alarming(t)
      BY DEF TriggeredAt, Alarming
    <3> QED
      BY <1>1, <2>1, <3>1, RouteMoves, MovesAlarm
  <2>2. CASE ~handle_route_msg(c)
    <3>1. UNCHANGED tq
      BY <1>1, <1>2, <2>2, NoSlaveMessages
      DEF BrokerStep, handle_client_register, handle_broken, reject_client_register,
          handle_broken_unknown, routeVars
    <3> QED
      BY <3>1 DEF AlarmStep, Alarmed
  <2> QED
    BY <2>1, <2>2
<1>3. ASSUME NEW n \in Nodes, RunTask(n) PROVE AlarmStep
  <2>1. CASE Quiet(n)
    BY <1>1, <2>1, QuietMoves, NobodyAlarmed
  <2>2. CASE trigger_interface(n)
    <3>1. \A p \in Nodes : \A t \in Responded(n)[p] : ~Alarming(t)
      BY DEF Responded, ResponseTask, AsTask, Alarming
    <3> QED
      BY <1>1, <2>2, <3>1, TriggerInterfaceMoves, MovesAlarm
  <2>3. CASE call_impl(n) \/ response(n)
    BY <1>1, <2>3, NodeMaps, SendingMoves, NobodyAlarmed
  <2>4. CASE timer_reconnect_broker(n) \/ crash(n)
    BY <1>1, <2>4, ReconnectMoves, NobodyAlarmed
  <2> QED
    BY <1>3, <2>1, <2>2, <2>3, <2>4 DEF RunTask, Quiet
<1>4. ASSUME NEW n \in Nodes, Timer(n) PROVE AlarmStep
  <2>1. m_timer[n] # 0
    BY <1>1, <1>4 DEF Timer, route_call_reconnect, NodesTyped
  <2> QED
    BY <1>1, <1>4, <2>1, ProducerMoves, TaskAlarms DEF Timer
<1>5. ASSUME NEW n \in Nodes, OpenStarts(n) \/ OpenReturns(n) PROVE AlarmStep
  BY <1>1, <1>5, OpenMoves, ProducerMoves, NobodyAlarmed DEF OpenStarts, OpenReturns
<1>6. ASSUME NEW c \in Conns, handle_msg(c) PROVE AlarmStep
  <2>1. PICK t : t = [kind |-> "msg", msg |-> Head(toNode[c])]
    OBVIOUS
  <2>2. ~Alarming(t) /\ Owner[c] \in Nodes
    BY <2>1, SystemAssumption DEF Alarming
  <2> QED
    BY <1>1, <1>6, <2>1, <2>2, HandleMsgMoves, TaskAlarms
<1>7. ASSUME NEW c \in Conns, handle_broken_on_node(c) PROVE AlarmStep
  <2>1. ~Unbroken(Owner[c]) /\ Owner[c] \in Nodes
    BY <1>7, SystemAssumption DEF Unbroken, handle_broken_on_node
  <2> QED
    BY <1>1, <1>7, <2>1, ProducerMoves, TaskAlarms
<1>8. ASSUME NEW c \in Conns, Breaks(c) PROVE AlarmStep
  BY <1>1, <1>8, BreaksMoves, NobodyAlarmed
<1>9. ASSUME NEW k \in Calls, Application(k) PROVE AlarmStep
  <2>1. PICK t : t = [kind |-> "call", call |-> k]
    OBVIOUS
  <2>2. ~Alarming(t) /\ Caller[k] \in Nodes
    BY <2>1, SystemAssumption DEF Alarming
  <2> QED
    BY <1>1, <1>9, <2>1, <2>2, ProducerMoves, TaskAlarms DEF Application
<1>10. UNCHANGED vars => AlarmStep
  BY DEF vars, routeVars, AlarmStep, Alarmed
<1> QED
  BY <1>2, <1>3, <1>4, <1>5, <1>6, <1>7, <1>8, <1>9, <1>10
  DEF Next, BrokerThread, NodeThread, NetworkThread

LEMMA SameLines ==
  UNCHANGED <<m_timer, opened>> /\ NoneConnects => OpeningStep
BY DEF OpeningStep, NoneConnects, Uses

LEMMA ConnectingLines ==
  ASSUME NetTyped, NEW n \in Nodes, ConnectSucceeds(n) \/ ConnectFails(n)
  PROVE  /\ Connects(n)
         /\ \A p \in Nodes \ {n} : \A c \in Conns : Uses(p, c)' => Uses(p, c)
<1>1. UNCHANGED link \/ \E d \in Fresh(n) : link' = [link EXCEPT ![d] = "open"]
  BY DEF ConnectSucceeds, ConnectFails, ConnectAndSend
<1>2. CASE UNCHANGED link
  BY <1>2 DEF Connects, Uses
<1>3. CASE \E d \in Fresh(n) : link' = [link EXCEPT ![d] = "open"]
  <2>1. PICK d \in Fresh(n) : link' = [link EXCEPT ![d] = "open"]
    BY <1>3
  <2>2. Owner[d] = n /\ \A c \in Conns : c # d => link'[c] = link[c]
    BY <2>1 DEF NetTyped, Fresh
  <2> QED
    BY <2>2 DEF Connects, Uses
<1> QED
  BY <1>1, <1>2, <1>3

LEMMA StepOpens ==
  ASSUME TypeOK, [Next]_vars
  PROVE  OpeningStep
<1>1. NetTyped /\ QueuesTyped /\ NodesTyped
  BY TypeParts DEF SharedTyped
<1>2. ASSUME NEW c \in Conns, NEW s, CloseWith(c, s) PROVE NoneConnects
  BY <1>1, <1>2 DEF NetTyped, CloseWith, NoneConnects
<1>3. UNCHANGED link => NoneConnects
  BY DEF NoneConnects
<1>4. ASSUME NEW c \in Conns, BrokerStep(c), UNCHANGED nodeVars PROVE OpeningStep
  <2>1. UNCHANGED link \/ CloseWith(c, Tail(toBroker[c]))
    BY <1>1, <1>4, NoSlaveMessages
    DEF BrokerStep, handle_client_register, handle_route_msg, reject_client_register,
        handle_broken_unknown, handle_broken
  <2> QED
    BY <1>2, <1>3, <1>4, <2>1, SameLines DEF nodeVars
<1>5. ASSUME NEW n \in Nodes, RunTask(n) PROVE OpeningStep
  <2>1. CASE timer_reconnect_broker(n)
    <3>1. Alarmed(n)
      BY <1>1, <2>1, QueuesAre, TakenQueue DEF timer_reconnect_broker, Runs, Task, Alarmed, Alarming
    <3>2. \A p \in Nodes \ {n} : m_timer'[p] = m_timer[p] /\ opened'[p] = opened[p]
      BY <1>1, <2>1 DEF timer_reconnect_broker, NodesTyped
    <3> QED
      BY <1>1, <2>1, <3>1, <3>2, ConnectingLines DEF timer_reconnect_broker, OpeningStep
  <2>2. CASE handle_broken_impl(n)
    <3>1. Alarmed(n)
      BY <1>1, <2>2, QueuesAre, TakenQueue DEF handle_broken_impl, Runs, Task, Alarmed, Alarming
    <3>2. /\ \A p \in Nodes \ {n} : m_timer'[p] = m_timer[p]
          /\ UNCHANGED <<opened, link>>
      BY <1>1, <2>2 DEF handle_broken_impl, NodesTyped
    <3> QED
      BY <3>1, <3>2 DEF OpeningStep, Uses
  <2>3. CASE crash(n)
    BY <2>3, SameLines DEF crash, NoneConnects
  <2>4. CASE ~timer_reconnect_broker(n) /\ ~handle_broken_impl(n) /\ ~crash(n)
    <3>1. UNCHANGED <<m_timer, opened, link>>
      BY <1>5, <2>4 DEF RunTask, handle_unbound_msg, handle_broker_sync_data,
         trigger_callback, trigger_callback_throws, trigger_nothing, call_impl_refused,
         nodeVars, netVars, trigger_interface, call_impl, response
    <3> QED
      BY <1>3, <3>1, SameLines
  <2> QED
    BY <2>1, <2>2, <2>3, <2>4
<1>6. ASSUME NEW n \in Nodes, OpenStarts(n) PROVE OpeningStep
  <2>1. /\ opened[n] = "closed" /\ opened'[n] # "closed" /\ UNCHANGED m_timer
        /\ \A p \in Nodes \ {n} : opened'[p] = opened[p]
    BY <1>1, <1>6 DEF OpenStarts, open, NodesTyped
  <2> QED
    BY <1>1, <1>6, <2>1, ConnectingLines DEF OpenStarts, open, OpeningStep
<1>7. ASSUME NEW n \in Nodes, OpenReturns(n) PROVE OpeningStep
  <2>1. /\ UNCHANGED <<m_timer, link>> /\ opened[n] = "waiting" /\ opened'[n] # "closed"
        /\ \A p \in Nodes \ {n} : opened'[p] = opened[p]
    BY <1>1, <1>7 DEF OpenReturns, open_returns, netVars, NodesTyped
  <2> QED
    BY <2>1 DEF OpeningStep, Uses
<1>8. ASSUME NEW n \in Nodes, Timer(n) PROVE OpeningStep
  <2>1. /\ UNCHANGED <<opened, link>> /\ m_timer[n] # 0
        /\ \A p \in Nodes \ {n} : m_timer'[p] = m_timer[p]
    BY <1>1, <1>8 DEF Timer, route_call_reconnect, netVars, NodesTyped
  <2> QED
    BY <2>1 DEF OpeningStep, Uses
<1>9. ASSUME NEW c \in Conns, Breaks(c) PROVE OpeningStep
  BY <1>2, <1>9, SameLines DEF Breaks, Break, nodeVars
<1>10. ASSUME NEW c \in Conns, NetworkThread(c) PROVE OpeningStep
  BY <1>3, <1>10, SameLines DEF NetworkThread, handle_msg, handle_broken_on_node, netVars, nodeVars
<1>11. ASSUME NEW k \in Calls, Application(k) PROVE OpeningStep
  BY <1>3, <1>11, SameLines DEF Application, call, netVars
<1>12. UNCHANGED vars => OpeningStep
  BY <1>3, SameLines DEF vars, netVars, nodeVars
<1> QED
  BY <1>4, <1>5, <1>6, <1>7, <1>8, <1>9, <1>10, <1>11, <1>12
  DEF Next, BrokerThread, NodeThread

LEMMA SteadyStep ==
  ASSUME TypeOK, SteadyUntilBroken, [Next]_vars
  PROVE  SteadyUntilBroken'
<1> SUFFICES ASSUME NEW p \in Nodes, Unbroken(p)'
             PROVE  Steady(p)'
  BY DEF SteadyUntilBroken
<1>1. Unbroken(p) /\ Steady(p)
  BY StepLinks DEF LinkStep, Unbroken, SteadyUntilBroken
<1>2. ~Alarmed(p)'
  BY <1>1, StepAlarms DEF AlarmStep, Steady
<1>3. /\ m_timer'[p] = 0
      /\ opened'[p] = "closed" => opened[p] = "closed"
      /\ \/ \A c \in Conns : Uses(p, c)' => Uses(p, c)
         \/ opened[p] = "closed" /\ opened'[p] # "closed" /\ Connects(p)
  BY <1>1, StepOpens DEF OpeningStep, Steady
<1>4. CASE \A c \in Conns : Uses(p, c)' => Uses(p, c)
  BY <1>1, <1>2, <1>3, <1>4 DEF Steady, OneConnection
<1>5. CASE opened[p] = "closed" /\ opened'[p] # "closed" /\ Connects(p)
  BY <1>1, <1>2, <1>3, <1>5 DEF Steady, OneConnection, Connects
<1> QED
  BY <1>3, <1>4, <1>5

LEMMA SteadyInit == Init => SteadyUntilBroken
<1> SUFFICES ASSUME Init, NEW p \in Nodes PROVE Steady(p)
  BY DEF SteadyUntilBroken
<1>1. tq[p] = <<>> /\ m_timer[p] = 0 /\ \A c \in Conns : link[c] = "unused"
  BY DEF Init, NetInit, RouteInit, NodeInit
<1>2. Items(tq[p]) = {}
  BY <1>1, EmptyQueue
<1> QED
  BY <1>1, <1>2 DEF Steady, OneConnection, Uses, Alarmed

(* Until one of its connections has broken, a node has made one at most    *)
(* (ffrpc_t::open, ffrpc_t::handle_broken, ffrpc_t::timer_reconnect_broker).*)
THEOREM OneConnectionUntilBroken ==
  Spec => [](\A p \in Nodes : Unbroken(p) => OneConnection(p))
<1>1. ASSUME TypeOK, SteadyUntilBroken, [Next]_vars PROVE SteadyUntilBroken'
  BY <1>1, SteadyStep
<1>2. SteadyUntilBroken => \A p \in Nodes : Unbroken(p) => OneConnection(p)
  BY DEF SteadyUntilBroken, Steady
<1> QED
  BY <1>1, <1>2, SteadyInit, TypeCorrect, PTL DEF Spec

(* While no connection has broken, every service outside the broker's      *)
(* process runs the calls of each node in the order they were made         *)
(* (ffrpc_t::call, ffbroker_t::handle_route_msg, ffrpc_t::trigger_callback).*)
THEOREM UnbrokenCallsAreInOrder ==
  ASSUME \A n \in Local : Interfaces[n] = {}
  PROVE  Spec => []((\A c \in Conns : link[c] # "broken") => CallsInOrder)
<1>1. ASSUME \A p \in Nodes : Unbroken(p) => OneConnection(p),
             (\A p \in Nodes : OneConnection(p)) => CallsInOrder,
             \A c \in Conns : link[c] # "broken"
      PROVE  CallsInOrder
  BY <1>1 DEF Unbroken
<1> QED
  BY <1>1, OneConnectionUntilBroken, CallsAreInOrder, PTL
=============================================================================
