----------------------------- MODULE TaskQueue -----------------------------
(***************************************************************************)
(* task_queue_t: a list of tasks under a mutex, a condition variable, and  *)
(* the threads that run it with run() or batch_run().                      *)
(*                                                                         *)
(* A step is what one thread does while it holds the mutex: from taking it *)
(* to the return of the method or to m_cond.wait(), which releases it, and *)
(* from a wake-up to the same.  A woken thread looks at the list again     *)
(* like one that has just called consume().                                *)
(***************************************************************************)
EXTENDS Naturals, Sequences, SequencesExt

CONSTANTS Tasks,    \* the tasks, each produced at most once
          Threads,  \* the threads that run the queue
          Batching, \* those that use batch_run(), the others use run()
          MaxBatch  \* bound: tasks in one multi_produce

ASSUME TaskQueueAssumption == Batching \subseteq Threads /\ MaxBatch \in Nat \ {0}

VARIABLES m_flag,       \* FALSE once the queue is closed
          m_tasklist,
          state,        \* state[t]: running, waiting or ended
          taken,        \* taken[t]: tasks t has taken and not run yet
          produced,     \* history: the tasks, in the order they were produced
          onTime,       \* history: those produced before close()
          executed      \* history: executed[t], the tasks t has run, in order

vars == <<m_flag, m_tasklist, state, taken, produced, onTime, executed>>

Init == /\ m_flag = TRUE
        /\ m_tasklist = <<>>
        /\ state = [t \in Threads |-> "running"]
        /\ taken = [t \in Threads |-> <<>>]
        /\ produced = <<>> /\ onTime = {}
        /\ executed = [t \in Threads |-> <<>>]

Waiting == {t \in Threads : state[t] = "waiting"}

-----------------------------------------------------------------------------
(* Mutant: need_sig is read after the tasks are in the list.               *)
need_sig_after(list) == m_tasklist \o list = <<>>

need_sig(list) == m_tasklist = <<>>

(* m_cond.signal(): one of the waiting threads, if there is any.           *)
Signalled == IF Waiting = {} THEN UNCHANGED state
             ELSE \E t \in Waiting : state' = [state EXCEPT ![t] = "running"]

(* Mutant: the tasks are put in front of the others.                       *)
PushedFront(list) == list \o m_tasklist

PushedBack(list) == m_tasklist \o list

(* multi_produce(list).                                                    *)
multi_produce(list) ==
  /\ m_tasklist' = PushedBack(list)
  /\ produced' = produced \o list
  /\ onTime' = IF m_flag THEN onTime \cup {list[i] : i \in DOMAIN list} ELSE onTime
  /\ IF need_sig(list) THEN Signalled ELSE UNCHANGED state
  /\ UNCHANGED <<m_flag, taken, executed>>

produce(task) == multi_produce(<<task>>)

(* A produced list has new tasks only.                                     *)
New == {k \in Tasks : \A i \in DOMAIN produced : produced[i] # k}

NewLists == {list \in BoundedSeq(New, MaxBatch) : IsInjective(list)}

(* Mutant: one thread is woken.                                            *)
WokenByOne == IF Waiting = {} THEN state
              ELSE [state EXCEPT ![CHOOSE t \in Waiting : TRUE] = "running"]

(* m_cond.broadcast().                                                     *)
Woken == [t \in Threads |-> IF state[t] = "waiting" THEN "running" ELSE state[t]]

close == /\ m_flag' = FALSE
         /\ state' = Woken
         /\ UNCHANGED <<m_tasklist, taken, produced, onTime, executed>>

-----------------------------------------------------------------------------
(* A thread that has nothing left to run calls consume() or consume_all(). *)
Consumes(t) == state[t] = "running" /\ taken[t] = <<>>

consume(t) ==
  /\ t \notin Batching
  /\ Consumes(t) /\ m_tasklist # <<>>
  /\ taken' = [taken EXCEPT ![t] = <<Head(m_tasklist)>>]
  /\ m_tasklist' = Tail(m_tasklist)
  /\ UNCHANGED <<m_flag, state, produced, onTime, executed>>

(* Mutant: m_tasklist.clear() is missing.                                  *)
AfterConsumeAllKept == m_tasklist

AfterConsumeAll == <<>>

consume_all(t) ==
  /\ t \in Batching
  /\ Consumes(t) /\ m_tasklist # <<>>
  /\ taken' = [taken EXCEPT ![t] = m_tasklist]
  /\ m_tasklist' = AfterConsumeAll
  /\ UNCHANGED <<m_flag, state, produced, onTime, executed>>

(* The list is empty and the queue open: m_cond.wait().                    *)
wait(t) == /\ Consumes(t) /\ m_tasklist = <<>> /\ m_flag
           /\ state' = [state EXCEPT ![t] = "waiting"]
           /\ UNCHANGED <<m_flag, m_tasklist, taken, produced, onTime, executed>>

(* pthread_cond_wait may return without a signal.                          *)
wake_spuriously(t) ==
  /\ state[t] = "waiting"
  /\ state' = [state EXCEPT ![t] = "running"]
  /\ UNCHANGED <<m_flag, m_tasklist, taken, produced, onTime, executed>>

(* Mutant: the flag is looked at before the list.                          *)
MayEndAtOnce == ~m_flag

MayEnd == ~m_flag /\ m_tasklist = <<>>

(* consume() returns -1, and run() or batch_run() with it.                 *)
end(t) == /\ Consumes(t) /\ MayEnd
          /\ state' = [state EXCEPT ![t] = "ended"]
          /\ UNCHANGED <<m_flag, m_tasklist, taken, produced, onTime, executed>>

(* The first of the tasks taken is run.                                    *)
run(t) == /\ taken[t] # <<>>
          /\ executed' = [executed EXCEPT ![t] = Append(@, Head(taken[t]))]
          /\ taken' = [taken EXCEPT ![t] = Tail(@)]
          /\ UNCHANGED <<m_flag, m_tasklist, state, produced, onTime>>

Serves(t) == consume(t) \/ consume_all(t) \/ wait(t) \/ end(t) \/ run(t)

Next == \/ \E k \in New : produce(k)
        \/ \E list \in NewLists : multi_produce(list)
        \/ close
        \/ \E t \in Threads : Serves(t) \/ wake_spuriously(t)

Spec == Init /\ [][Next]_vars

(* A thread that is not waiting goes on: the mutex is held for short, and  *)
(* tasks return.  Nothing makes a producer produce or an owner close.      *)
FairSpec == Spec /\ \A t \in Threads : WF_vars(Serves(t))

-----------------------------------------------------------------------------
(* The state of a queue has the types of the code.                         *)
TypeOK == /\ m_flag \in BOOLEAN
          /\ m_tasklist \in Seq(Tasks)
          /\ state \in [Threads -> {"running", "waiting", "ended"}]
          /\ taken \in [Threads -> Seq(Tasks)]
          /\ produced \in Seq(Tasks) /\ onTime \subseteq Tasks
          /\ executed \in [Threads -> Seq(Tasks)]

(* No wake-up is lost although produce() signals only when the list was    *)
(* empty: while there are tasks in an open queue some thread is not        *)
(* waiting, and after close() no thread waits.                             *)
NobodyLeftAsleep == /\ m_tasklist # <<>> /\ m_flag => \E t \in Threads : state[t] = "running"
                    /\ ~m_flag => Waiting = {}

(* The places of task k: those in the list, with a thread that has taken   *)
(* it, and among what a thread has run.                                    *)
Indices(s, k) == {i \in DOMAIN s : s[i] = k}

Places(k) ==
  {<<"list", i>> : i \in Indices(m_tasklist, k)}
    \cup (UNION {{<<"taken", t, i>> : i \in Indices(taken[t], k)} : t \in Threads})
    \cup (UNION {{<<"run", t, i>> : i \in Indices(executed[t], k)} : t \in Threads})

(* Every task produced is in one place, once: in the list, with a thread   *)
(* that has taken it, or run by one.  No other task is anywhere.           *)
EachTaskOnce ==
  \A k \in Tasks : Cardinality(Places(k)) = Cardinality(Indices(produced, k))

(* What a thread runs, has taken and could still take comes in the order   *)
(* in which it was produced, whatever the other threads take.              *)
Position(k) == CHOOSE i \in DOMAIN produced : produced[i] = k

InOrder ==
  \A t \in Threads :
    LET s == executed[t] \o taken[t] \o m_tasklist
    IN \A i, j \in DOMAIN s : i < j => Position(s[i]) < Position(s[j])

(* close() drops nothing: a task produced before it is run.                *)
OnTimeTasksRun ==
  \A k \in Tasks : k \in onTime ~> \E t \in Threads : Cardinality(Indices(executed[t], k)) = 1

(* After close() every thread ends, which the owner's join() waits for.    *)
ThreadsEnd == ~m_flag ~> \A t \in Threads : state[t] = "ended"

(* With one thread the queue is what the rest of the code takes it for:    *)
(* tasks are run one by one in the order they were produced.               *)
TheThread == CHOOSE t \in Threads : TRUE

Order == INSTANCE Executor WITH Lists <- BoundedSeq(Tasks, MaxBatch),
                                pending <- taken[TheThread] \o m_tasklist,
                                done <- executed[TheThread]

ImplementsExecutor == Order!Spec
=============================================================================
