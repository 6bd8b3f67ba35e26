---------------------------- MODULE CallContract ----------------------------
(***************************************************************************)
(* What call() promises an application: the request is served at most once,*)
(* the callback is run at most once, after that, with the answer.  Nothing *)
(* promises that a call is served or answered: a connection may break.     *)
(***************************************************************************)
CONSTANT Calls

VARIABLE stage      \* stage[k]: idle, asked, served or answered

Init == stage = [k \in Calls |-> "idle"]

Moves(k, from, to) == stage[k] = from /\ stage' = [stage EXCEPT ![k] = to]

Ask(k)    == Moves(k, "idle", "asked")
Serve(k)  == Moves(k, "asked", "served")
Answer(k) == Moves(k, "served", "answered")

Next == \E k \in Calls : Ask(k) \/ Serve(k) \/ Answer(k)

Spec == Init /\ [][Next]_stage
=============================================================================
