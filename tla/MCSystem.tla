------------------------------ MODULE MCSystem ------------------------------
(* System with a service, echo, and a client, cli, both named in the       *)
(* configuration.  Connection <<n, i>> is the i-th that n may make, and a  *)
(* call is <<caller, service name, message name, number>>.                 *)
EXTENDS System, TLC

CONSTANTS echo, cli,
          first, second,        \* tell the calls of a client apart
          EchoConns, CliConns,  \* bound: connections of each node
          CliService, CliMsgs   \* the client may be a service as well

MCNodes == {echo, cli}
MCConns == ({echo} \X (1..EchoConns)) \cup ({cli} \X (1..CliConns))
MCOwner == [c \in MCConns |-> c[1]]
MCService == [n \in MCNodes |-> IF n = echo THEN "echo" ELSE CliService]
MCInterfaces == [n \in MCNodes |-> IF n = echo THEN {1} ELSE CliMsgs]

(* Calls of the client; 2 is a message name no node has registered.        *)
OneCall  == {<<cli, "echo", 1, first>>}
TwoCalls == {<<cli, "echo", 1, i>> : i \in {first, second}}
EchoCall == {<<echo, "echo", 1, first>>}
(* The service also calls itself, and the client uses a wrong name.        *)
WrongName == EchoCall \cup {<<cli, "echo", 2, first>>}
AllKinds  == WrongName \cup TwoCalls

MCCaller == [k \in Calls |-> k[1]]
MCTarget == [k \in Calls |-> k[2]]
MCMessage == [k \in Calls |-> k[3]]

(* Two calls that differ in nothing else may be exchanged.                 *)
Symmetry == Permutations({first, second})

(* A node's connections differ in nothing: it makes them in their order.   *)
MadeInOrder == \A c, d \in Conns :
                 c[1] = d[1] /\ c[2] < d[2] /\ link[c] = "unused" => link[d] = "unused"

(* Bound: the client calls twice, or the service connects again, or the    *)
(* client connects a third time.                                           *)
Used(n, i) == \E c \in Conns : c[1] = n /\ c[2] > i /\ link[c] # "unused"

OneOfThree == LET calls == Len(issued[cli])
              IN \/ calls < 2 /\ ~Used(cli, 2)
                 \/ ~Used(echo, 1) /\ (calls = 0 \/ ~Used(cli, 2))
=============================================================================
