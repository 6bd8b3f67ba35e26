------------------------------- MODULE FFRpc --------------------------------
(***************************************************************************)
(* The ffrpc_t nodes: services and clients.  Every node has one thread,    *)
(* which runs the tasks of its queue tq[n] in order; the network thread,   *)
(* the timer, the application and the broker (in memory) put tasks there.  *)
(*                                                                         *)
(* Not here: connections to slave brokers (the nodes of this module know   *)
(* the master only, so that every bind_broker_id is the master's), calls   *)
(* without a callback, interfaces that answer after they have returned or  *)
(* more than once, and the wrap-around of m_callback_id.                   *)
(***************************************************************************)
EXTENDS Network, MemoryRoute, FiniteSets, FiniteSetsExt

CONSTANTS Local,        \* the nodes in the broker's process
          Owner,        \* Owner[c]: the node that can make connection c
          Service,      \* Service[n]: its service name
          Interfaces,   \* Interfaces[n]: the message names it has called reg() for
          Calls,        \* the calls applications may make, each once
          Caller,       \* Caller[k]: the node call k is made on
          Target,       \* Target[k]: the service name it asks for
          Message,      \* Message[k]: the message name of its argument
          Throwing,     \* the calls whose callback throws when it is run
          Failing,      \* the calls whose interface throws when it is run
          FirstCallbackId,  \* callback ids used before the run begins
          MaxFailures   \* bound: connection attempts that fail

VARIABLES opened,                       \* how far open() is
          m_node_id,
          m_callback_id,
          m_timer,                      \* reconnection timers that are set
          m_master_broker_sock,
          m_ffslot,                     \* the broker commands bound
          m_ffslot_interface,           \* message id -> interface bound
          m_ffslot_callback,            \* callback id -> call waiting
          msg2id,                       \* m_msg2id
          m_broker_client_name2nodeid,
          freed,        \* the interfaces whose callback object was deleted
          crashed,      \* nodes whose process used a deleted object and died
          failures,     \* connection attempts that have failed
          issued,       \* history: issued[n], the calls made on n, in order
          refused,      \* history: calls for which call_impl returned -1
          served,       \* history: served[n], the calls n's interfaces ran
          ran           \* history: ran[k], what k's callback was run with

nodeVars == <<opened, m_node_id, m_callback_id, m_timer, m_master_broker_sock,
              m_ffslot, m_ffslot_interface, m_ffslot_callback, msg2id,
              m_broker_client_name2nodeid, freed, crashed, failures, issued,
              refused, served, ran>>

(* ffrpc_cmd_def_e: the commands a node binds, which m_ffslot keys by int. *)
CommandId(cmd) == IF cmd = "BROKER_SYNC_DATA_MSG" THEN 4 ELSE 5

(* ffslot_t::bind: std::map::insert keeps what the key already holds.      *)
Bound(slot, cmd, cb) == IF cmd \in DOMAIN slot THEN slot ELSE Insert(slot, cmd, cb)

Del(slot, cmd) == [i \in DOMAIN slot \ {cmd} |-> slot[i]]

EmptyMap == [x \in {} |-> 0]

Request(k) == [kind |-> "request", call |-> k]
Answer(k)  == [kind |-> "answer", call |-> k]

NodeInit == /\ opened = [n \in Nodes |-> "closed"]
            /\ m_node_id = [n \in Nodes |-> 0]
            /\ m_callback_id = [n \in Nodes |-> FirstCallbackId]
            /\ m_timer = [n \in Nodes |-> 0]
            /\ m_master_broker_sock = [n \in Nodes |-> NoConn]
            /\ m_ffslot = [n \in Nodes |-> {}]
            /\ m_ffslot_interface = [n \in Nodes |-> EmptyMap]
            /\ m_ffslot_callback = [n \in Nodes |-> EmptyMap]
            /\ msg2id = [n \in Nodes |-> EmptyMap]
            /\ m_broker_client_name2nodeid = [n \in Nodes |-> EmptyMap]
            /\ freed = [n \in Nodes |-> {}]
            /\ crashed = {}
            /\ failures = 0
            /\ issued = [n \in Nodes |-> <<>>]
            /\ refused = {}
            /\ served = [n \in Nodes |-> <<>>]
            /\ ran = [k \in Calls |-> <<>>]

-----------------------------------------------------------------------------
(* connect_to_broker for the master: the new connection starts with the    *)
(* registration.  An attempt may fail, and leaves a NULL socket.           *)
Fresh(n) == {c \in Conns : Owner[c] = n /\ link[c] = "unused"}

ConnectSucceeds(n) ==
  \E c \in Fresh(n) :
    /\ ConnectAndSend(c, RegisterClient(Service[n], Interfaces[n]))
    /\ m_master_broker_sock' = [m_master_broker_sock EXCEPT ![n] = c]
    /\ UNCHANGED failures

ConnectFails(n) == /\ failures < MaxFailures
                   /\ failures' = failures + 1
                   /\ m_master_broker_sock' = [m_master_broker_sock EXCEPT ![n] = NoConn]
                   /\ UNCHANGED <<link, toBroker>>

(* open() up to the loop that waits for the node id.                       *)
open(n) ==
  /\ opened[n] = "closed"
  /\ m_ffslot' = [m_ffslot EXCEPT ![n] = {4, 5}]
  /\ \/ ConnectSucceeds(n) /\ opened' = [opened EXCEPT ![n] = "waiting"]
     \/ ConnectFails(n) /\ opened' = [opened EXCEPT ![n] = "failed"]
  /\ UNCHANGED <<m_node_id, m_callback_id, m_timer, m_ffslot_interface,
                 m_ffslot_callback, msg2id, m_broker_client_name2nodeid, freed,
                 crashed, issued, refused, served, ran, toNode, deleted, routeVars>>

(* The loop ends: the application's thread has seen the node id, and enters*)
(* it in the table of its process, or has seen the socket gone.            *)
open_returns(n) ==
  /\ opened[n] = "waiting"
  /\ \/ /\ m_node_id[n] # 0
        /\ opened' = [opened EXCEPT ![n] = "open"]
        /\ IF n \in Local THEN add_node(m_node_id[n], n) ELSE UNCHANGED m_node_info
     \/ /\ m_master_broker_sock[n] = NoConn
        /\ opened' = [opened EXCEPT ![n] = "failed"]
        /\ UNCHANGED m_node_info
  /\ UNCHANGED <<m_node_id, m_callback_id, m_timer, m_master_broker_sock,
                 m_ffslot, m_ffslot_interface, m_ffslot_callback, msg2id,
                 m_broker_client_name2nodeid, freed, crashed, failures, issued,
                 refused, served, ran, netVars, tq>>

-----------------------------------------------------------------------------
(* What other threads put into the task queue.                             *)
(* Mutant: a task is put in front of the others.                           *)
ProduceInFront(n, task) == tq' = [tq EXCEPT ![n] = <<task>> \o @]

Produce(n, task) == tq' = [tq EXCEPT ![n] = Append(@, task)]

(* call(): by the application, once open() has returned.                   *)
call(k) ==
  LET n == Caller[k]
  IN /\ opened[n] = "open"
     /\ \A i \in 1..Len(issued[n]) : issued[n][i] # k
     /\ issued' = [issued EXCEPT ![n] = Append(@, k)]
     /\ Produce(n, [kind |-> "call", call |-> k])
     /\ UNCHANGED <<opened, m_node_id, m_callback_id, m_timer,
                    m_master_broker_sock, m_ffslot, m_ffslot_interface,
                    m_ffslot_callback, msg2id, m_broker_client_name2nodeid,
                    freed, crashed, failures, refused, served, ran,
                    netVars, m_node_info>>

(* handle_msg(): by the network thread.                                    *)
handle_msg(c) ==
  /\ toNode[c] # <<>>
  /\ Produce(Owner[c], [kind |-> "msg", msg |-> Head(toNode[c])])
  /\ toNode' = [toNode EXCEPT ![c] = Tail(@)]
  /\ UNCHANGED <<nodeVars, link, toBroker, deleted, m_node_info>>

(* handle_broken(): by the network thread, once, after the last message.   *)
BrokenTask(c) == [kind |-> "broken", sock |-> c]

handle_broken_on_node(c) ==
  /\ link[c] = "broken" /\ toNode[c] = <<>>
  /\ <<"node", c>> \notin deleted
  /\ \A i \in 1..Len(tq[Owner[c]]) : tq[Owner[c]][i] # BrokenTask(c)
  /\ Produce(Owner[c], BrokenTask(c))
  /\ UNCHANGED <<nodeVars, netVars, m_node_info>>

(* route_call_reconnect(): by the timer's thread.  The bound on connections*)
(* is here: no timer runs out that could not connect.                      *)
ReconnectTasks(n) == {i \in 1..Len(tq[n]) : tq[n][i].kind = "reconnect"}

route_call_reconnect(n) ==
  /\ m_timer[n] > 0
  /\ Cardinality(ReconnectTasks(n)) < Cardinality(Fresh(n))
  /\ m_timer' = [m_timer EXCEPT ![n] = @ - 1]
  /\ Produce(n, [kind |-> "reconnect"])
  /\ UNCHANGED <<opened, m_node_id, m_callback_id, m_master_broker_sock,
                 m_ffslot, m_ffslot_interface, m_ffslot_callback, msg2id,
                 m_broker_client_name2nodeid, freed, crashed, failures, issued,
                 refused, served, ran, netVars, m_node_info>>

-----------------------------------------------------------------------------
(* Tasks.  Each runs the first task of n's queue.                          *)
Runs(n, kind) == /\ n \notin crashed
                 /\ tq[n] # <<>> /\ Head(tq[n]).kind = kind

Task(n) == Head(tq[n])
Done(n) == tq' = [tq EXCEPT ![n] = Tail(@)]

ReceivesOnNode(n, cmd) == /\ Runs(n, "msg")
                          /\ Task(n).msg.cmd = cmd

(* Nobody has bound the command: handle_msg_impl does nothing.             *)
handle_unbound_msg(n) ==
  /\ Runs(n, "msg")
  /\ CommandId(Task(n).msg.cmd) \notin m_ffslot[n]
  /\ Done(n)
  /\ UNCHANGED <<nodeVars, netVars, m_node_info>>

(* The interfaces a sync binds: the node's own names, but not under an id  *)
(* that a callback waits under.  bind keeps what is already bound.         *)
BoundBy(n, ids) ==
  LET own == {m \in DOMAIN ids \cap Interfaces[n] : ids[m] \notin DOMAIN m_ffslot_callback[n]}
      new == {ids[m] : m \in own} \ DOMAIN m_ffslot_interface[n]
  IN [i \in DOMAIN m_ffslot_interface[n] \cup new |->
        IF i \in new THEN CHOOSE m \in own : ids[m] = i ELSE m_ffslot_interface[n][i]]

(* Mutant: every name leads to the last node.                              *)
NameTableLast(clients) ==
  [s \in {clients[i].service_name : i \in DOMAIN clients} |-> Max(DOMAIN clients)]

(* Service name -> node id; of the nodes with one name the last in the map.*)
NameTable(clients) ==
  LET names == {clients[i].service_name : i \in DOMAIN clients}
  IN [s \in names |-> Max({i \in DOMAIN clients : clients[i].service_name = s})]

handle_broker_sync_data(n) ==
  /\ ReceivesOnNode(n, "BROKER_SYNC_DATA_MSG") /\ 4 \in m_ffslot[n]
  /\ LET m == Task(n).msg
     IN /\ m_node_id' = [m_node_id EXCEPT ![n] = IF m.node_id # 0 THEN m.node_id ELSE @]
        /\ msg2id' = [msg2id EXCEPT ![n] = m.msg2id]
        /\ m_ffslot_interface' = [m_ffslot_interface EXCEPT ![n] = BoundBy(n, m.msg2id)]
        /\ m_broker_client_name2nodeid' =
             [m_broker_client_name2nodeid EXCEPT ![n] = NameTable(m.broker_client_info)]
  /\ Done(n)
  /\ UNCHANGED <<opened, m_callback_id, m_timer, m_master_broker_sock, m_ffslot,
                 m_ffslot_callback, freed, crashed, failures, issued, refused,
                 served, ran, netVars, m_node_info>>

-----------------------------------------------------------------------------
(* The task at the head of the queue calls trigger_callback: its message   *)
(* came by the socket, and the command is bound, or in memory.             *)
Triggers(n) == \/ ReceivesOnNode(n, "BROKER_TO_CLIENT_MSG") /\ 5 \in m_ffslot[n]
               \/ Runs(n, "trigger")

Routed(n) == IF Task(n).kind = "trigger" THEN Task(n).route ELSE Task(n).msg.route

AnswersCallback(n) == /\ Triggers(n)
                      /\ Routed(n).msg_id = 0
                      /\ Routed(n).callback_id \in DOMAIN m_ffslot_callback[n]

CallsInterface(n) == /\ Triggers(n)
                     /\ Routed(n).msg_id # 0
                     /\ Routed(n).msg_id \in DOMAIN m_ffslot_interface[n]

(* exe() of a callback made by gen_callback: it decodes the body and calls *)
(* the function with it, and with the arguments kept since the call.       *)
Exe(k, body) == ran' = [ran EXCEPT ![k] = Append(@, body)]

(* The callback waiting under the id is run with the body and deleted.  A  *)
(* body that is not an answer may still decode as one.                     *)
trigger_callback(n) ==
  /\ AnswersCallback(n)
  /\ LET r == Routed(n)
         k == m_ffslot_callback[n][r.callback_id]
     IN /\ k \notin Throwing
        /\ Exe(k, r.body)
        /\ m_ffslot_callback' = [m_ffslot_callback EXCEPT ![n] = Del(@, r.callback_id)]
  /\ Done(n)
  /\ UNCHANGED <<opened, m_node_id, m_callback_id, m_timer, m_master_broker_sock,
                 m_ffslot, m_ffslot_interface, msg2id, m_broker_client_name2nodeid,
                 freed, crashed, failures, issued, refused, served,
                 netVars, m_node_info>>

(* It throws, or the body does not decode: the command handler bound under *)
(* the number of the callback is deleted.                                  *)
trigger_callback_throws(n) ==
  /\ AnswersCallback(n)
  /\ LET r == Routed(n)
         k == m_ffslot_callback[n][r.callback_id]
     IN /\ \/ k \in Throwing /\ Exe(k, r.body)
           \/ r.body.kind # "answer" /\ UNCHANGED ran
        /\ m_ffslot' = [m_ffslot EXCEPT ![n] = @ \ {r.callback_id}]
  /\ Done(n)
  /\ UNCHANGED <<opened, m_node_id, m_callback_id, m_timer, m_master_broker_sock,
                 m_ffslot_interface, m_ffslot_callback, msg2id,
                 m_broker_client_name2nodeid, freed, crashed, failures, issued,
                 refused, served, netVars, m_node_info>>

(* exe() of an interface.                                                  *)
ExeInterface(n, body) == served' = [served EXCEPT ![n] = Append(@, body.call)]

(* The task response() leaves in the node's own queue.                     *)
ResponseTask(r) == [kind |-> "response", dest |-> r.from_node_id,
                    callback_id |-> r.callback_id, body |-> Answer(r.body.call)]

(* The interface bound to the message id runs, and answers before it       *)
(* returns; or it throws, which is caught, and nobody answers.  A deleted  *)
(* one may still work.                                                     *)
trigger_interface(n) ==
  /\ CallsInterface(n)
  /\ LET r == Routed(n)
     IN /\ ExeInterface(n, r.body)
        /\ \/ /\ r.body.call \notin Failing
              /\ tq' = [tq EXCEPT ![n] = Append(Tail(@), ResponseTask(r))]
           \/ r.body.call \in Failing /\ Done(n)
  /\ UNCHANGED <<opened, m_node_id, m_callback_id, m_timer, m_master_broker_sock,
                 m_ffslot, m_ffslot_interface, m_ffslot_callback, msg2id,
                 m_broker_client_name2nodeid, freed, crashed, failures, issued,
                 refused, ran, netVars, m_node_info>>

(* Nothing is bound under the callback id or the message id.               *)
trigger_nothing(n) ==
  /\ Triggers(n) /\ ~AnswersCallback(n) /\ ~CallsInterface(n)
  /\ Done(n)
  /\ UNCHANGED <<nodeVars, netVars, m_node_info>>

-----------------------------------------------------------------------------
(* send_to_broker_by_nodeid.  Every node is bound to the master.  Only a   *)
(* node in the broker's process could find a broker in its table; whichever*)
(* way, the message is on the broker's queue behind the node's earlier ones*)
send_to_broker_by_nodeid(n, dest, msg, cb, body) ==
  LET r    == Route(m_node_id[n], dest, msg, cb, body)
      sock == m_master_broker_sock[n]
      via  == IF n \in Local /\ client_route_to_broker(dest) THEN "memory" ELSE "socket"
  IN /\ m_node_info' = IF n \in Local THEN Looked(dest) ELSE m_node_info
     /\ toBroker' = IF sock = NoConn THEN toBroker
                    ELSE SentToBroker(sock, RouteMsg(r, via))

(* The service is not known: call_impl returns -1.                         *)
call_impl_refused(n) ==
  /\ Runs(n, "call")
  /\ Target[Task(n).call] \notin DOMAIN m_broker_client_name2nodeid[n]
  /\ refused' = refused \cup {Task(n).call}
  /\ Done(n)
  /\ UNCHANGED <<opened, m_node_id, m_callback_id, m_timer, m_master_broker_sock,
                 m_ffslot, m_ffslot_interface, m_ffslot_callback, msg2id,
                 m_broker_client_name2nodeid, freed, crashed, failures, issued,
                 served, ran, netVars, m_node_info>>

(* Mutant: the lowest id no callback waits under.                          *)
lowest_callback_id(n) ==
  Min((1..(Cardinality(DOMAIN m_ffslot_callback[n]) + 1)) \ DOMAIN m_ffslot_callback[n])

get_callback_id(n) == m_callback_id[n] + 1

(* m_msg2id[msg] enters an unknown message name, with id 0.                *)
IdsAfter(n, msg) ==
  IF msg \in DOMAIN msg2id[n] THEN msg2id[n] ELSE Insert(msg2id[n], msg, 0)

(* The callback waits under a new id, and the request is sent.             *)
call_impl(n) ==
  /\ Runs(n, "call")
  /\ Target[Task(n).call] \in DOMAIN m_broker_client_name2nodeid[n]
  /\ LET k   == Task(n).call
         ids == IdsAfter(n, Message[k])
         cb  == get_callback_id(n)
     IN /\ msg2id' = [msg2id EXCEPT ![n] = ids]
        /\ m_callback_id' = [m_callback_id EXCEPT ![n] = cb]
        /\ m_ffslot_callback' = [m_ffslot_callback EXCEPT ![n] = Bound(@, cb, k)]
        /\ send_to_broker_by_nodeid(n, m_broker_client_name2nodeid[n][Target[k]],
                                    ids[Message[k]], cb, Request(k))
  /\ Done(n)
  /\ UNCHANGED <<opened, m_node_id, m_timer, m_master_broker_sock, m_ffslot,
                 m_ffslot_interface, m_broker_client_name2nodeid, freed, crashed,
                 failures, issued, refused, served, ran, link, toNode, deleted>>

(* What response() has left is sent, under message id 0 and the caller's  *)
(* callback id.                                                            *)
response(n) ==
  /\ Runs(n, "response")
  /\ send_to_broker_by_nodeid(n, Task(n).dest, 0, Task(n).callback_id, Task(n).body)
  /\ Done(n)
  /\ UNCHANGED <<nodeVars, link, toNode, deleted>>

-----------------------------------------------------------------------------
(* handle_broken_impl for a connection to the master, current or not.      *)
Cleared(f, n) == [f EXCEPT ![n] = EmptyMap]

InterfacesBound(n) == {m_ffslot_interface[n][i] : i \in DOMAIN m_ffslot_interface[n]}

handle_broken_impl(n) ==
  /\ Runs(n, "broken")
  /\ m_master_broker_sock' = [m_master_broker_sock EXCEPT ![n] = NoConn]
  /\ m_ffslot_interface' = Cleared(m_ffslot_interface, n)
  /\ freed' = [freed EXCEPT ![n] = @ \cup InterfacesBound(n)]
  /\ m_ffslot_callback' = Cleared(m_ffslot_callback, n)
  /\ msg2id' = Cleared(msg2id, n)
  /\ m_broker_client_name2nodeid' = Cleared(m_broker_client_name2nodeid, n)
  /\ m_timer' = [m_timer EXCEPT ![n] = @ + 1]
  /\ SafeDelete("node", Task(n).sock)
  /\ Done(n)
  /\ UNCHANGED <<opened, m_node_id, m_callback_id, m_ffslot, crashed, failures,
                 issued, refused, served, ran, link, toBroker, toNode, m_node_info>>

(* timer_reconnect_broker: on success it sets the timer again, on failure  *)
(* it does not.                                                            *)
timer_reconnect_broker(n) ==
  /\ Runs(n, "reconnect")
  /\ \/ /\ ConnectSucceeds(n)
        /\ m_timer' = [m_timer EXCEPT ![n] = @ + 1]
     \/ ConnectFails(n) /\ UNCHANGED m_timer
  /\ Done(n)
  /\ UNCHANGED <<opened, m_node_id, m_callback_id, m_ffslot, m_ffslot_interface,
                 m_ffslot_callback, msg2id, m_broker_client_name2nodeid, freed,
                 crashed, issued, refused, served, ran, toNode, deleted, m_node_info>>

(* Undefined behaviour: running or deleting an interface that has been     *)
(* deleted may end the process.  Otherwise the actions above happen.       *)
UsesFreed(n) ==
  \/ Runs(n, "broken") /\ InterfacesBound(n) \cap freed[n] # {}
  \/ CallsInterface(n) /\ m_ffslot_interface[n][Routed(n).msg_id] \in freed[n]

Process(n) == IF n \in Local THEN Local ELSE {n}

crash(n) == /\ UsesFreed(n)
            /\ crashed' = crashed \cup Process(n)
            /\ link' = [c \in Conns |->
                          IF link[c] = "open" /\ (n \in Local \/ Owner[c] = n)
                          THEN "broken" ELSE link[c]]
            /\ UNCHANGED <<opened, m_node_id, m_callback_id, m_timer,
                           m_master_broker_sock, m_ffslot, m_ffslot_interface,
                           m_ffslot_callback, msg2id, m_broker_client_name2nodeid,
                           freed, failures, issued, refused, served, ran,
                           toBroker, toNode, deleted, routeVars>>

RunTask(n) == \/ handle_unbound_msg(n)
              \/ handle_broker_sync_data(n)
              \/ trigger_callback(n)
              \/ trigger_callback_throws(n)
              \/ trigger_interface(n)
              \/ trigger_nothing(n)
              \/ call_impl_refused(n)
              \/ call_impl(n)
              \/ response(n)
              \/ handle_broken_impl(n)
              \/ timer_reconnect_broker(n)
              \/ crash(n)
=============================================================================
