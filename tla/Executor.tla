------------------------------ MODULE Executor ------------------------------
(***************************************************************************)
(* What owners of a task queue with one thread rely on: tasks are run one  *)
(* after another, each once, in the order they were submitted.             *)
(***************************************************************************)
EXTENDS Sequences

CONSTANT Lists     \* the lists of tasks that may be submitted at once

VARIABLES pending, done

Init == pending = <<>> /\ done = <<>>

(* One task, or several at once.                                           *)
Submit(list) == pending' = pending \o list /\ UNCHANGED done

(* The one that has waited longest is run.                                 *)
Run == /\ pending # <<>>
       /\ done' = Append(done, Head(pending))
       /\ pending' = Tail(pending)

Next == Run \/ \E list \in Lists : Submit(list)

Spec == Init /\ [][Next]_<<pending, done>>
=============================================================================
