---------------------------- MODULE MemoryRoute ----------------------------
(***************************************************************************)
(* ffrpc_memory_route_t: the table, one per process, of the ffrpc_t nodes  *)
(* and the broker that live in the broker's process, and the task queues   *)
(* of the nodes, which the broker's thread fills through it.               *)
(*                                                                         *)
(* Both lookups read the std::map with operator[], so that asking for a    *)
(* node id also enters it, with NULL pointers.  del_node is never called:  *)
(* the table only grows.                                                   *)
(***************************************************************************)
EXTENDS Naturals, Sequences

CONSTANTS Nodes,    \* the ffrpc_t objects
          NoNode    \* a NULL ffrpc_t*

BROKER_MASTER_NODE_ID == 0

VARIABLES m_node_info,  \* node id -> its pointers
          tq            \* tq[n]: the tasks n's thread has yet to run

routeVars == <<m_node_info, tq>>

(* std::map: what m is after m[k] = v.                                     *)
Insert(m, k, v) == [x \in DOMAIN m \cup {k} |-> IF x = k THEN v ELSE m[x]]

dest_node_info_t == [ffrpc |-> NoNode, ffbroker |-> FALSE]

(* The table after m_node_info[id] has been evaluated, and what it holds.  *)
Looked(id) == IF id \in DOMAIN m_node_info THEN m_node_info
              ELSE Insert(m_node_info, id, dest_node_info_t)

(* The master broker has been opened, and has entered itself.              *)
RouteInit ==
  /\ m_node_info = [id \in {BROKER_MASTER_NODE_ID} |->
                      [dest_node_info_t EXCEPT !.ffbroker = TRUE]]
  /\ tq = [n \in Nodes |-> <<>>]

(* add_node(id, this) by a node.                                           *)
add_node(id, n) ==
  m_node_info' = Insert(m_node_info, id, [Looked(id)[id] EXCEPT !.ffrpc = n])

(* A node that can be reached in memory under id.                          *)
LocalNode(id) == Looked(id)[id].ffrpc

(* broker_route_to_client: the task it leaves, when there is a node.       *)
broker_route_to_client(r) ==
  /\ m_node_info' = Looked(r.dest_node_id)
  /\ tq' = IF LocalNode(r.dest_node_id) = NoNode THEN tq
           ELSE [tq EXCEPT ![LocalNode(r.dest_node_id)] =
                   Append(@, [kind |-> "trigger", route |-> r])]

(* client_route_to_broker succeeds: it looks for a broker under the id of  *)
(* the destination node.                                                   *)
client_route_to_broker(dest) == Looked(dest)[dest].ffbroker

get_node_same_process == DOMAIN m_node_info
=============================================================================
