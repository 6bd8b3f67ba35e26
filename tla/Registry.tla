------------------------------ MODULE Registry ------------------------------
(***************************************************************************)
(* What a master broker promises about membership: a peer is in from the   *)
(* moment it is accepted to the moment it leaves, once; it keeps the name  *)
(* it came with; and nobody comes in under a name that is held.            *)
(***************************************************************************)
CONSTANTS Peers, Names, NoName

VARIABLES stage,    \* stage[p]: out, in or gone
          name      \* name[p]: the service name p is in under

vars == <<stage, name>>

Init == /\ stage = [p \in Peers |-> "out"]
        /\ name = [p \in Peers |-> NoName]

Held(n) == \E p \in Peers : stage[p] = "in" /\ name[p] = n

Join(p, n) == /\ stage[p] = "out"
              /\ n # NoName => ~Held(n)
              /\ stage' = [stage EXCEPT ![p] = "in"]
              /\ name' = [name EXCEPT ![p] = n]

Leave(p) == /\ stage[p] # "gone"
            /\ stage' = [stage EXCEPT ![p] = "gone"]
            /\ name' = [name EXCEPT ![p] = NoName]

Next == \E p \in Peers : \/ \E n \in Names \cup {NoName} : Join(p, n)
                         \/ Leave(p)

Spec == Init /\ [][Next]_vars
=============================================================================
