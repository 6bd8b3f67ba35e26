--------------------------- MODULE MCBrokerPeers ---------------------------
(* BrokerPeers on small instances: the connections, names and messages are *)
(* given in the configurations.                                            *)
EXTENDS BrokerPeers, TLC

MCConns == Clients \cup Slaves \cup OwnSlaves

(* Connections of one kind are interchangeable.                            *)
Symmetry == Permutations(Clients) \cup Permutations(Slaves)
=============================================================================
