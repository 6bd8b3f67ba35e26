------------------------------- MODULE System -------------------------------
(***************************************************************************)
(* Nodes, the master broker and the connections between them: calls made   *)
(* by applications, requests routed to services, answers routed back, and  *)
(* connections that break while all that is going on.                      *)
(***************************************************************************)
EXTENDS Broker, FFRpc

CONSTANTS Breakable,    \* the nodes whose connections may break
          MaxBreaks     \* bound: connections broken by the network

ASSUME SystemAssumption ==
  /\ Owner \in [Conns -> Nodes] /\ Local \subseteq Nodes /\ NoNode \notin Nodes
  /\ Service \in [Nodes -> Names \cup {NoName}]
  /\ Interfaces \in [Nodes -> SUBSET Msgs]
  /\ Caller \in [Calls -> Nodes] /\ Message \in [Calls -> Msgs]
  /\ FirstCallbackId \in Nat

vars == <<netVars, routeVars, brokerVars, nodeVars>>

Init == NetInit /\ RouteInit /\ BrokerInit /\ NodeInit

BrokerThread == /\ crashed \cap Local = {}
                /\ \E c \in Conns : BrokerStep(c)
                /\ UNCHANGED nodeVars

NodeThread(n) == RunTask(n) /\ UNCHANGED brokerVars

NetworkThread(c) == /\ Owner[c] \notin crashed
                    /\ \/ handle_msg(c)
                       \/ handle_broken_on_node(c)
                    /\ UNCHANGED brokerVars

Timer(n) == n \notin crashed /\ route_call_reconnect(n) /\ UNCHANGED brokerVars

OpenStarts(n) == open(n) /\ UNCHANGED brokerVars

OpenReturns(n) == n \notin crashed /\ open_returns(n) /\ UNCHANGED brokerVars

Application(k) == Caller[k] \notin crashed /\ call(k) /\ UNCHANGED brokerVars

Breaks(c) == /\ Owner[c] \in Breakable
             /\ Cardinality({d \in Conns : link[d] = "broken"}) < MaxBreaks
             /\ Break(c)
             /\ UNCHANGED <<routeVars, brokerVars, nodeVars>>

Next == \/ BrokerThread
        \/ \E n \in Nodes : \/ NodeThread(n) \/ Timer(n)
                            \/ OpenStarts(n) \/ OpenReturns(n)
        \/ \E c \in Conns : NetworkThread(c) \/ Breaks(c)
        \/ \E k \in Calls : Application(k)

Spec == Init /\ [][Next]_vars

(* Threads run their queues, sockets are read, timers expire, and open()   *)
(* polls.  Nothing makes an application call, or a node start.             *)
BrokerServes(c) == crashed \cap Local = {} /\ BrokerStep(c) /\ UNCHANGED nodeVars

Fairness == /\ \A c \in Conns : WF_vars(BrokerServes(c)) /\ WF_vars(NetworkThread(c))
            /\ \A n \in Nodes : /\ WF_vars(NodeThread(n)) /\ WF_vars(Timer(n))
                                /\ WF_vars(OpenReturns(n))

FairSpec == Spec /\ Fairness

-----------------------------------------------------------------------------
(* The types of the messages and the tasks, and the state has its types.   *)
Items(s) == {s[i] : i \in 1..Len(s)}

IsQueue(s) == s \in Seq(Items(s))

Bodies == [kind : {"request", "answer"}, call : Calls]

Routes == [from_node_id : Ids, dest_node_id : Ids, msg_id : Ids,
           callback_id : Nat, body : Bodies]

TypedToBroker(m) ==
  \/ m \in [cmd : {"BROKER_CLIENT_REGISTER"}, service_name : Names \cup {NoName},
            msg_names : SUBSET Msgs]
  \/ m \in [cmd : {"BROKER_ROUTE_MSG"}, route : Routes, via : {"socket", "memory"}]

TypedToNode(m) ==
  \/ m.cmd = "BROKER_SYNC_DATA_MSG" /\ TypedSync(m)
  \/ m \in [cmd : {"BROKER_TO_CLIENT_MSG"}, route : Routes]

TypedTask(t) ==
  \/ t \in [kind : {"call"}, call : Calls]
  \/ t.kind = "msg" /\ TypedToNode(t.msg)
  \/ t \in [kind : {"trigger"}, route : Routes]
  \/ t \in [kind : {"response"}, dest : Ids, callback_id : Nat, body : Bodies]
  \/ t \in [kind : {"broken"}, sock : Conns]
  \/ t \in [kind : {"reconnect"}]

QueuesTyped ==
  /\ DOMAIN toBroker = Conns /\ DOMAIN toNode = Conns /\ DOMAIN tq = Nodes
  /\ \A c \in Conns : /\ IsQueue(toBroker[c]) /\ \A m \in Items(toBroker[c]) : TypedToBroker(m)
                      /\ IsQueue(toNode[c]) /\ \A m \in Items(toNode[c]) : TypedToNode(m)
  /\ \A n \in Nodes : IsQueue(tq[n]) /\ \A t \in Items(tq[n]) : TypedTask(t)

NodeTyped(n) ==
  /\ IsMap(m_ffslot_interface[n], Ids, Interfaces[n])
  /\ IsMap(m_ffslot_callback[n], Nat, Calls)
  /\ IsMap(msg2id[n], Msgs, Ids)
  /\ IsMap(m_broker_client_name2nodeid[n], Names \cup {NoName}, Ids)

NodesTyped ==
  /\ opened \in [Nodes -> {"closed", "waiting", "open", "failed"}]
  /\ m_node_id \in [Nodes -> Ids]
  /\ m_callback_id \in [Nodes -> Nat] /\ m_timer \in [Nodes -> Nat]
  /\ m_master_broker_sock \in [Nodes -> Conns \cup {NoConn}]
  /\ m_ffslot \in [Nodes -> SUBSET {4, 5}]
  /\ DOMAIN m_ffslot_interface = Nodes /\ DOMAIN m_ffslot_callback = Nodes
  /\ DOMAIN msg2id = Nodes /\ DOMAIN m_broker_client_name2nodeid = Nodes
  /\ \A n \in Nodes : NodeTyped(n)
  /\ freed \in [Nodes -> SUBSET Msgs] /\ crashed \subseteq Nodes
  /\ issued \in [Nodes -> Seq(Calls)] /\ refused \subseteq Calls
  /\ served \in [Nodes -> Seq(Calls)] /\ ran \in [Calls -> Seq(Bodies)]

TypeOK ==
  /\ link \in [Conns -> {"unused", "open", "broken"}]
  /\ deleted \subseteq Sides \X Conns
  /\ IsMap(m_node_info, Ids, [ffrpc : Nodes \cup {NoNode}, ffbroker : BOOLEAN])
  /\ QueuesTyped /\ BrokerTyped /\ NodesTyped

-----------------------------------------------------------------------------
(* A call is asked, served by one interface once, and its callback run with*)
(* the answer to that call, once: the promise of CallContract, kept while  *)
(* connections break and nodes register again.                             *)
TimesServed(k) ==
  Cardinality(UNION {{n} \X {i \in DOMAIN served[n] : served[n][i] = k} : n \in Nodes})

Issued(k) == \E i \in 1..Len(issued[Caller[k]]) : issued[Caller[k]][i] = k

StageOf(k) == IF ran[k] = <<Answer(k)>> /\ TimesServed(k) = 1 THEN "answered"
              ELSE IF ran[k] # <<>> \/ TimesServed(k) > 1 THEN "broken"
              ELSE IF TimesServed(k) = 1 THEN "served"
              ELSE IF Issued(k) THEN "asked" ELSE "idle"

Contract == INSTANCE CallContract WITH stage <- [k \in Calls |-> StageOf(k)]

ImplementsContract == Contract!Spec

(* A request only reaches a node that offers the service it asked for and  *)
(* has an interface for its message, though node ids come and go while it  *)
(* travels.                                                                *)
ServedByTarget ==
  \A n \in Nodes : \A i \in 1..Len(served[n]) :
    LET k == served[n][i] IN Service[n] = Target[k] /\ Message[k] \in Interfaces[n]

(* The calls one node makes to one service are served in the order they    *)
(* were made: "call puts the request on that thread, so that all requests  *)
(* are in order".                                                          *)
PositionIn(s, k) == CHOOSE i \in 1..Len(s) : s[i] = k

CallsInOrder ==
  \A n \in Nodes : \A i, j \in 1..Len(served[n]) :
    LET k == served[n][i]
        l == served[n][j]
    IN i < j /\ Caller[k] = Caller[l] =>
         PositionIn(issued[Caller[k]], k) < PositionIn(issued[Caller[l]], l)

(* A node that is registered by the connection it uses, and has done with  *)
(* all its other ones, finds every service where the broker has it now, if *)
(* no synchronisation is on its way.                                       *)
IsSync(m) == m.cmd = "BROKER_SYNC_DATA_MSG"

SyncPending(n) ==
  \/ \E i \in 1..Len(tq[n]) : tq[n][i].kind = "msg" /\ IsSync(tq[n][i].msg)
  \/ \E c \in Conns : Owner[c] = n /\ \E i \in 1..Len(toNode[c]) : IsSync(toNode[c][i])

DoneWith(c) == link[c] = "unused" \/ <<"node", c>> \in deleted

NamesCurrent ==
  \A n \in Nodes :
    LET c == m_master_broker_sock[n]
    IN /\ c # NoConn /\ link[c] = "open" /\ session[c] # 0
       /\ \A d \in Conns \ {c} : Owner[d] = n => DoneWith(d)
       /\ ~SyncPending(n) /\ 4 \in m_ffslot[n]
       => /\ m_broker_client_name2nodeid[n] = NameTable(m_broker_client_info)
          /\ m_node_id[n] = session[c]

(* While nothing breaks, a call for an interface that some node offers ends*)
(* although other calls are for none: its callback runs, or call_impl has  *)
(* found no such service.  There are two exceptions.  An interface that    *)
(* throws has no answer.  And a callback that throws, or cannot decode     *)
(* what it is run with, unbinds a broker command when its id is a          *)
(* command's number: without command 5 a node gets no requests and no      *)
(* answers.                                                                *)
Offered(k) == \E n \in Nodes : Service[n] = Target[k] /\ Message[k] \in Interfaces[n]

FailedInService(k) == k \in Failing /\ TimesServed(k) > 0

Unbound(n) == opened[n] # "closed" /\ 5 \notin m_ffslot[n]

NotReached(k) == Unbound(Caller[k]) \/ \E n \in Nodes : Service[n] = Target[k] /\ Unbound(n)

EveryCallEnds ==
  \A k \in Calls : Offered(k) =>
    (Issued(k) ~> \/ ran[k] # <<>> \/ k \in refused
                  \/ FailedInService(k) \/ NotReached(k))

(* While nothing breaks, open() does not wait for ever for the node id     *)
(* that a synchronisation sent for its own socket must bring.              *)
OpenEnds == \A n \in Nodes : opened[n] = "waiting" ~> opened[n] # "waiting"

-----------------------------------------------------------------------------
(* What the comments of the code say, and the code does not do.            *)

(* "msg_id is 0: this is a callback's message, callback_id has its value": *)
(* a callback is only run with the answer to its own call.                 *)
CallbackGetsAnswer == \A k \in Calls : \A i \in 1..Len(ran[k]) : ran[k][i] = Answer(k)
=============================================================================
