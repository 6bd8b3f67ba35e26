------------------------------ MODULE Network ------------------------------
(***************************************************************************)
(* Connections between ffrpc_t / slave brokers and a broker, as the rpc    *)
(* layer sees them: two FIFO directions, a close that may come from either *)
(* side or from the network, and one socket object per side that its owner *)
(* deletes when it has handled the break.                                  *)
(*                                                                         *)
(* A direction stands for everything between msg_sender_t::send on one     *)
(* side and the handler's task on the other: the send buffer, the kernel,  *)
(* the framing and, for the broker, its task queue.  Only sockets feed the *)
(* broker's queue, so one FIFO per connection and an arbitrary choice      *)
(* among them is the same as one queue with arbitrary arrivals.            *)
(***************************************************************************)
EXTENDS Naturals, Sequences

CONSTANTS Conns,    \* the connections that may be made, each at most once
          NoConn    \* a NULL socket_ptr_t

ASSUME NetworkAssumption == NoConn \notin Conns

VARIABLES link,     \* link[c]: unused, open or broken
          toBroker, \* toBroker[c]: what the broker has not handled yet
          toNode,   \* toNode[c]: what the connecting side has not read yet
          deleted   \* the <<side, c>> whose socket object was safe_delete'd

netVars == <<link, toBroker, toNode, deleted>>

Sides == {"broker", "node"}

(* The message bodies of ffrpc_ops.h, with the command they travel under.  *)
RegisterSlave == [cmd |-> "BROKER_SLAVE_REGISTER"]

RegisterClient(name, names) ==
  [cmd |-> "BROKER_CLIENT_REGISTER", service_name |-> name, msg_names |-> names]

RegisterToSlave(id) == [cmd |-> "CLIENT_REGISTER_TO_SLAVE_BROKER", node_id |-> id]

(* Mutant: the two node ids are encoded in the wrong order.                *)
RouteSwapped(from, dest, msg, cb, body) ==
  [from_node_id |-> dest, dest_node_id |-> from, msg_id |-> msg,
   callback_id |-> cb, body |-> body]

Route(from, dest, msg, cb, body) ==
  [from_node_id |-> from, dest_node_id |-> dest, msg_id |-> msg,
   callback_id |-> cb, body |-> body]

(* via: how it came to the broker's queue, by the socket or in memory.     *)
RouteMsg(r, via) == [cmd |-> "BROKER_ROUTE_MSG", route |-> r, via |-> via]

ToClient(r) == [cmd |-> "BROKER_TO_CLIENT_MSG", route |-> r]

NetInit == /\ link     = [c \in Conns |-> "unused"]
           /\ toBroker = [c \in Conns |-> <<>>]
           /\ toNode   = [c \in Conns |-> <<>>]
           /\ deleted  = {}

(* net_factory_t::connect and the registration the connecting side sends   *)
(* before anything else.                                                   *)
ConnectAndSend(c, m) == /\ link[c] = "unused"
                        /\ link' = [link EXCEPT ![c] = "open"]
                        /\ toBroker' = [toBroker EXCEPT ![c] = <<m>>]

(* The value of toBroker after msg_sender_t::send(c, m) at the connecting  *)
(* side; a closed socket drops the message.                                *)
SentToBroker(c, m) ==
  IF link[c] = "open" THEN [toBroker EXCEPT ![c] = Append(@, m)] ELSE toBroker

(* The value of toNode after the broker has sent m[c] to each c of dests.  *)
SentToNodes(dests, m) ==
  [c \in Conns |-> IF c \in dests /\ link[c] = "open"
                   THEN Append(toNode[c], m[c]) ELSE toNode[c]]

(* The connection goes down while s is what the broker has yet to handle.  *)
(* What was sent and not read may be lost from any point on.               *)
CloseWith(c, s) ==
  /\ link[c] = "open"
  /\ link' = [link EXCEPT ![c] = "broken"]
  /\ \E p \in {SubSeq(s, 1, i) : i \in 0..Len(s)} :
       toBroker' = [toBroker EXCEPT ![c] = p]
  /\ \E i \in 0..Len(toNode[c]) :
       toNode' = [toNode EXCEPT ![c] = SubSeq(@, 1, i)]

(* A peer, or the network, closes the connection.                          *)
Break(c) == CloseWith(c, toBroker[c]) /\ UNCHANGED deleted

(* handle_broken runs on a side once, after everything that side read.     *)
BreakSeenByBroker(c) == /\ link[c] = "broken" /\ toBroker[c] = <<>>
                        /\ <<"broker", c>> \notin deleted

SafeDelete(side, c) == deleted' = deleted \cup {<<side, c>>}
=============================================================================
