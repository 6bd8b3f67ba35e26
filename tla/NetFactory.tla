----------------------------- MODULE NetFactory -----------------------------
(***************************************************************************)
(* net_factory_t: the threads of a process and how they end.  The epoll    *)
(* thread accepts sockets and turns their events into tasks; the pool has  *)
(* a queue and a thread for each, and a socket has one queue for its life. *)
(* The main thread starts all, connects and sends, and at exit the         *)
(* singleton's destructor stops all.                                       *)
(*                                                                         *)
(* A queue is a list of tasks that a thread takes all at once, as in       *)
(* TaskQueue, where its waiting and waking are.                            *)
(***************************************************************************)
EXTENDS Naturals, Sequences, SequencesExt, FiniteSetsExt

CONSTANTS ThreadNum,  \* queues and their threads
          Acceptors,
          MaxFds,     \* bound: sockets accepted or connected
          MaxTasks    \* bound: tasks of one socket

ASSUME NetFactoryAssumption == /\ ThreadNum \in Nat \ {0} /\ MaxFds \in Nat /\ MaxTasks \in Nat
                               /\ Acceptors \cap {"new", "waiting", "ended"} = {}

Queues  == 0..ThreadNum - 1   \* also the threads, in the order of their creation
Fds     == 1..MaxFds
Ended   == ThreadNum       \* of a thread that has returned from its queue
None    == ThreadNum + 1   \* before there is a queue

VARIABLES
  main,           \* "new", "up", "closing", "tg_close", "join", "down"
  tg,             \* the pool: "NULL", "live" or "deleted"
  m_index,        \* of the pool: the next queue to be served
  rand_id,        \* of rand_alloc
  m_flag,         \* of each queue: FALSE once closed
  m_tasklist,     \* of each queue: tasks, records of fd and number
  serves,         \* serves[t]: the queue of a thread, None or Ended
  tasks,          \* tasks[t]: what it has taken and not finished
  acceptor,       \* acceptor[a]: "new", "listening", "closed" or "deleted"
  backlog,        \* backlog[a]: connections to be accepted
  forgotten,      \* history: the last event of a ended in an errno the code does not name
  event,          \* event[a]: the kernel has an event for the epoll thread
  epoll,          \* the epoll thread: "new", "waiting", the acceptor it handles, "ended"
  m_running, interrupted, m_error_fd_set,
  queueOf,        \* queueOf[fd]: the queue of a socket, None before it is made
  produced,       \* history: produced[fd], the tasks a socket has produced so far
  finished,       \* history: finished[fd], the numbers of those that were run
  onTime,         \* history: produced before the pool was closed
  crashed         \* a deleted object was used

pool    == <<m_flag, m_tasklist, produced, onTime>>
threads == <<m_index, serves, tasks, finished>>
backlogs == <<backlog, forgotten>>
loop    == <<event, backlogs, epoll, m_running, interrupted, m_error_fd_set>>
vars == <<main, tg, rand_id, pool, threads, acceptor, loop, queueOf, crashed>>

Init == /\ main = "new" /\ tg = "NULL" /\ m_index = 0 /\ rand_id = 0
        /\ m_flag = [q \in Queues |-> TRUE] /\ m_tasklist = [q \in Queues |-> <<>>]
        /\ serves = [t \in Queues |-> None] /\ tasks = [t \in Queues |-> <<>>]
        /\ acceptor = [a \in Acceptors |-> "new"] /\ backlog = [a \in Acceptors |-> 0]
        /\ event = [a \in Acceptors |-> FALSE] /\ forgotten = [a \in Acceptors |-> FALSE]
        /\ epoll = "new" /\ m_running = TRUE /\ interrupted = FALSE /\ m_error_fd_set = {}
        /\ queueOf = [f \in Fds |-> None] /\ produced = [f \in Fds |-> 0]
        /\ finished = [f \in Fds |-> <<>>] /\ onTime = [f \in Fds |-> 0] /\ crashed = FALSE

Sockets == {f \in Fds : queueOf[f] # None}

-----------------------------------------------------------------------------
(* The main thread, up to exit.                                            *)
start == /\ main = "new"
         /\ main' = "up" /\ tg' = "live" /\ epoll' = "waiting"
         /\ UNCHANGED <<rand_id, pool, threads, acceptor, event, backlogs, m_running, interrupted,
                        m_error_fd_set, queueOf, crashed>>

(* listen, where open() succeeds; where it fails the acceptor is deleted.  *)
listen(a) == /\ main = "up" /\ acceptor[a] = "new"
             /\ acceptor' = [acceptor EXCEPT ![a] = "listening"]
             /\ UNCHANGED <<main, tg, rand_id, pool, threads, loop, queueOf, crashed>>

alloc(id) == id % ThreadNum

(* A new socket has the next descriptor.                                   *)
NextFd == Cardinality(Sockets) + 1

NewSocket(queue) == NextFd \in Fds /\ queueOf' = [queueOf EXCEPT ![NextFd] = queue]

rand_alloc == alloc(rand_id + 1)

connect == /\ main = "up"
           /\ NewSocket(rand_alloc) /\ rand_id' = rand_id + 1
           /\ UNCHANGED <<main, tg, pool, threads, acceptor, loop, crashed>>

QueueFor(f) == queueOf[f]

(* A socket puts a task in its queue.                                      *)
Produce(f) ==
  /\ f \in Sockets /\ produced[f] < MaxTasks
  /\ produced' = [produced EXCEPT ![f] = @ + 1]
  /\ onTime' = IF m_flag[queueOf[f]] THEN [onTime EXCEPT ![f] = @ + 1] ELSE onTime
  /\ m_tasklist' = [m_tasklist EXCEPT ![QueueFor(f)] = Append(@, [fd |-> f, n |-> produced[f] + 1])]
  /\ UNCHANGED m_flag

async_send(f) == /\ main = "up" /\ Produce(f)
                 /\ UNCHANGED <<main, tg, rand_id, threads, acceptor, loop, queueOf, crashed>>

-----------------------------------------------------------------------------
(* stop(), a statement of it at a time.                                    *)
Stopping(from) == main = from /\ UNCHANGED <<rand_id, threads, queueOf, crashed>>

Then(next) == main' = next

stop == /\ Stopping("up") /\ Then("closing")
        /\ UNCHANGED <<tg, pool, acceptor, loop>>

Listening == {a \in Acceptors : acceptor[a] = "listening"}

(* unregister_fd puts the acceptor among those the epoll thread is to tell.*)
stop_closes(a) ==
  /\ Stopping("closing") /\ a \in Listening /\ UNCHANGED main
  /\ acceptor' = [acceptor EXCEPT ![a] = "closed"]
  /\ m_error_fd_set' = m_error_fd_set \cup {a} /\ interrupted' = TRUE
  /\ event' = [event EXCEPT ![a] = FALSE]
  /\ UNCHANGED <<tg, pool, backlogs, epoll, m_running>>

stop_deletes == /\ Stopping("closing") /\ Listening = {} /\ Then("tg_close")
                /\ acceptor' = [a \in Acceptors |-> IF acceptor[a] = "closed" THEN "deleted"
                                                                            ELSE acceptor[a]]
                /\ UNCHANGED <<tg, pool, loop>>

close_queue(q) == /\ Stopping("tg_close") /\ m_flag[q] /\ UNCHANGED main
                  /\ \A p \in Queues : p < q => ~m_flag[p]
                  /\ m_flag' = [m_flag EXCEPT ![q] = FALSE]
                  /\ UNCHANGED <<tg, m_tasklist, produced, onTime, acceptor, loop>>

(* Mutant: the loop is not interrupted.                                    *)
not_interrupted == m_running' = FALSE /\ UNCHANGED interrupted

epoll_close == m_running' = FALSE /\ interrupted' = TRUE

stop_epoll == /\ Stopping("tg_close") /\ (\A q \in Queues : ~m_flag[q]) /\ Then("join")
              /\ epoll_close
              /\ UNCHANGED <<tg, pool, acceptor, event, backlogs, epoll, m_error_fd_set>>

AllEnded == epoll = "ended" /\ \A t \in Queues : serves[t] = Ended

join == /\ Stopping("join") /\ AllEnded /\ Then("down")
        /\ tg' = "deleted"
        /\ UNCHANGED <<pool, acceptor, loop>>

-----------------------------------------------------------------------------
(* The epoll thread.                                                       *)
EpollThread(from, next) ==
  /\ epoll = from /\ epoll' = next
  /\ UNCHANGED <<main, tg, rand_id, threads, acceptor, m_running>>

(* The virtual call of a deleted object.                                   *)
Calls(some) == IF \E a \in some : acceptor[a] = "deleted" THEN crashed' \in BOOLEAN
                                                           ELSE UNCHANGED crashed

interrupt_ends == /\ interrupted /\ ~m_running /\ EpollThread("waiting", "ended")
                  /\ UNCHANGED <<pool, event, backlogs, interrupted, m_error_fd_set, queueOf, crashed>>

fd_del_callback == /\ interrupted /\ m_running /\ EpollThread("waiting", "waiting")
                   /\ Calls(m_error_fd_set)
                   /\ m_error_fd_set' = {} /\ interrupted' = FALSE
                   /\ UNCHANGED <<pool, event, backlogs, queueOf>>

take_event(a) == /\ event[a] /\ EpollThread("waiting", a)
                 /\ event' = [event EXCEPT ![a] = FALSE]
                 /\ forgotten' = [forgotten EXCEPT ![a] = FALSE]
                 /\ UNCHANGED <<pool, backlog, interrupted, m_error_fd_set, queueOf, crashed>>

(* An event of a socket becomes a task.                                    *)
socket_event(f) == /\ Produce(f) /\ EpollThread("waiting", "waiting")
                   /\ UNCHANGED <<event, backlogs, interrupted, m_error_fd_set, queueOf, crashed>>

Handles(a, next) == EpollThread(a, next) /\ UNCHANGED <<pool, interrupted, m_error_fd_set>>

accept(a) == /\ Handles(a, a) /\ acceptor[a] = "listening" /\ backlog[a] > 0
             /\ NewSocket(alloc(NextFd))
             /\ backlog' = [backlog EXCEPT ![a] = @ - 1]
             /\ UNCHANGED <<event, forgotten, crashed>>

(* Mutant: the event is not asked for again.                               *)
NotRearmed(a) == UNCHANGED event

mod_fd(a) == event' = [event EXCEPT ![a] = backlog[a] > 0]

(* accept() fails: as when there are too many files, and the event is asked*)
(* for again; or with an errno the code does not name, and it is not.      *)
accept_fails(a) ==
  /\ Handles(a, "waiting") /\ acceptor[a] = "listening"
  /\ \/ mod_fd(a) /\ UNCHANGED forgotten
     \/ forgotten' = [forgotten EXCEPT ![a] = TRUE] /\ UNCHANGED event
  /\ UNCHANGED <<backlog, queueOf, crashed>>

(* Nothing more to accept, or the acceptor was closed meanwhile.           *)
accept_ends(a) == /\ Handles(a, "waiting")
                  /\ acceptor[a] = "listening" => backlog[a] = 0
                  /\ Calls({a})
                  /\ UNCHANGED <<event, backlogs, queueOf>>

EpollSteps == \/ interrupt_ends \/ fd_del_callback
              \/ \E a \in Acceptors : take_event(a) \/ accept(a) \/ accept_ends(a)

(* A client's connection; the kernel raises an event (edge triggered).     *)
client_connects(a) ==
  /\ a \in Listening
  /\ MapThenSumSet(LAMBDA b : backlog[b], Acceptors) + Cardinality(Sockets) < MaxFds
  /\ backlog' = [backlog EXCEPT ![a] = @ + 1] /\ event' = [event EXCEPT ![a] = TRUE]
  /\ UNCHANGED <<main, tg, rand_id, pool, threads, acceptor, forgotten, epoll, m_running,
                 interrupted, m_error_fd_set, queueOf, crashed>>

-----------------------------------------------------------------------------
(* The threads of the pool.                                                *)
PoolThread == UNCHANGED <<main, tg, rand_id, m_flag, produced, onTime, acceptor, loop, queueOf, crashed>>

(* Mutant: m_index is not advanced.                                        *)
SameIndex == m_index

NextIndex == m_index + 1

(* task_queue_pool_t::run gives a thread its queue.                        *)
run(t) == /\ tg = "live" /\ serves[t] = None
          /\ serves' = [serves EXCEPT ![t] = m_index] /\ m_index' = NextIndex
          /\ UNCHANGED <<m_tasklist, tasks, finished>> /\ PoolThread

Serving(t) == serves[t] \in Queues

consume_all(t) ==
  /\ Serving(t) /\ tasks[t] = <<>> /\ m_tasklist[serves[t]] # <<>>
  /\ tasks' = [tasks EXCEPT ![t] = m_tasklist[serves[t]]]
  /\ m_tasklist' = [m_tasklist EXCEPT ![serves[t]] = <<>>]
  /\ UNCHANGED <<m_index, serves, finished>> /\ PoolThread

run_task(t) ==
  /\ tasks[t] # <<>>
  /\ LET task == Head(tasks[t]) IN finished' = [finished EXCEPT ![task.fd] = Append(@, task.n)]
  /\ tasks' = [tasks EXCEPT ![t] = Tail(@)]
  /\ UNCHANGED <<m_tasklist, m_index, serves>> /\ PoolThread

(* Mutant: a thread ends at once when its queue was closed.                *)
EndsAtOnce(t) == ~m_flag[serves[t]]

Ends(t) == ~m_flag[serves[t]] /\ m_tasklist[serves[t]] = <<>>

batch_run_ends(t) == /\ Serving(t) /\ tasks[t] = <<>> /\ Ends(t)
                     /\ serves' = [serves EXCEPT ![t] = Ended]
                     /\ UNCHANGED <<m_tasklist, m_index, tasks, finished>> /\ PoolThread

PoolSteps(t) == run(t) \/ consume_all(t) \/ run_task(t) \/ batch_run_ends(t)

Stops == \/ \E a \in Acceptors : stop_closes(a)
         \/ stop_deletes \/ stop_epoll \/ join
         \/ \E q \in Queues : close_queue(q)

Others == \/ start \/ connect \/ stop
          \/ \E a \in Acceptors : listen(a) \/ client_connects(a) \/ accept_fails(a)
          \/ \E f \in Fds : async_send(f) \/ socket_event(f)

Next == ~crashed /\ (Others \/ Stops \/ EpollSteps \/ \E t \in Queues : PoolSteps(t))

Spec == Init /\ [][Next]_vars

(* Threads go on.                                                          *)
FairSpec == /\ Spec /\ WF_vars(~crashed /\ Stops) /\ WF_vars(~crashed /\ EpollSteps)
            /\ \A t \in Queues : WF_vars(~crashed /\ PoolSteps(t))

-----------------------------------------------------------------------------
(* The tasks of a socket are run in the order they were produced and never *)
(* by two threads, although the pool has several: a socket keeps its queue *)
(* and a queue has one thread.                                             *)
Holds(t, f) == \E i \in DOMAIN tasks[t] : tasks[t][i].fd = f

SocketInOrder ==
  \A f \in Fds :
    /\ \A i \in DOMAIN finished[f] : finished[f][i] = i
    /\ \A t, u \in Queues : Holds(t, f) /\ Holds(u, f) => t = u

(* What was produced before its queue was closed has been run when the     *)
(* pool is deleted.                                                        *)
NothingDropped == tg = "deleted" => \A f \in Fds : Len(finished[f]) >= onTime[f]

(* While an acceptor listens and connections wait, there is an event, edge *)
(* triggered as it is, or the epoll thread is at it; though accept() fails *)
(* for want of files or memory.  After a failure that the code does not    *)
(* name they wait until another connection raises an event.                *)
EveryConnectionSeen ==
  \A a \in Listening : backlog[a] > 0 => event[a] \/ epoll = a \/ forgotten[a]

(* stop() returns, or the process has ended.                               *)
StopReturns == main = "closing" ~> (main = "down" \/ crashed)
=============================================================================
