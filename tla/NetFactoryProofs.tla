-------------------------- MODULE NetFactoryProofs --------------------------
(***************************************************************************)
(* Theorems about NetFactory, for any number of threads, acceptors,        *)
(* sockets and tasks.                                                      *)
(***************************************************************************)
EXTENDS NetFactory, SequenceTheorems, FiniteSetTheorems, TLAPS

-----------------------------------------------------------------------------
(* Acceptors.  One that does not listen yet has no connections.            *)
Waits == /\ acceptor \in [Acceptors -> {"new", "listening", "closed", "deleted"}]
         /\ backlog \in [Acceptors -> Nat] /\ event \in [Acceptors -> BOOLEAN]
         /\ forgotten \in [Acceptors -> BOOLEAN]
         /\ \A a \in Acceptors : acceptor[a] = "new" => backlog[a] = 0
         /\ main = "new" => epoll = "new"

SeenInv == Waits /\ EveryConnectionSeen

LEMMA NextSeen == ASSUME SeenInv, [Next]_vars PROVE SeenInv'
<1>1. CASE UNCHANGED <<acceptor, backlogs, event, epoll>> /\ (main' = "new" => main = "new")
  BY <1>1 DEF backlogs, SeenInv, Waits, EveryConnectionSeen, Listening
<1>2. ASSUME NEW a \in Acceptors, listen(a) PROVE SeenInv'
  BY <1>2 DEF listen, loop, backlogs, SeenInv, Waits, EveryConnectionSeen, Listening
<1>3. ASSUME NEW a \in Acceptors, client_connects(a) PROVE SeenInv'
  BY <1>3 DEF client_connects, SeenInv, Waits, EveryConnectionSeen, Listening
<1>4. ASSUME NEW a \in Acceptors, accept_fails(a) PROVE SeenInv'
  <2> USE <1>4 DEF accept_fails, Handles, EpollThread
  <2>1. CASE mod_fd(a) /\ UNCHANGED forgotten
    <3> DEFINE more == backlog[a] > 0
    <3>1. /\ more \in BOOLEAN /\ event' = [event EXCEPT ![a] = more]
          /\ epoll = a /\ epoll' = "waiting" /\ UNCHANGED <<acceptor, backlog, main>>
      BY <2>1 DEF mod_fd
    <3> HIDE DEF more
    <3>2. event' \in [Acceptors -> BOOLEAN] /\ (event'[a] <=> more)
          /\ \A b \in Acceptors : b # a => event'[b] = event[b]
      BY <3>1, Zenon DEF SeenInv, Waits
    <3> QED
      BY <2>1, <3>1, <3>2, NetFactoryAssumption
         DEF more, SeenInv, Waits, EveryConnectionSeen, Listening
  <2>2. CASE forgotten' = [forgotten EXCEPT ![a] = TRUE] /\ UNCHANGED event
    BY <2>2, NetFactoryAssumption DEF SeenInv, Waits, EveryConnectionSeen, Listening
  <2> QED BY <2>1, <2>2
<1>5. ASSUME NEW a \in Acceptors, accept(a) PROVE SeenInv'
  BY <1>5, NetFactoryAssumption
     DEF backlogs, accept, Handles, EpollThread, SeenInv, Waits, EveryConnectionSeen, Listening
<1>6. ASSUME NEW a \in Acceptors, accept_ends(a) PROVE SeenInv'
  BY <1>6, NetFactoryAssumption
     DEF backlogs, accept_ends, Handles, EpollThread, SeenInv, Waits, EveryConnectionSeen, Listening
<1>7. ASSUME NEW a \in Acceptors, take_event(a) PROVE SeenInv'
  BY <1>7, NetFactoryAssumption
     DEF take_event, EpollThread, SeenInv, Waits, EveryConnectionSeen, Listening
<1>8. ASSUME NEW a \in Acceptors, stop_closes(a) PROVE SeenInv'
  BY <1>8 DEF backlogs, stop_closes, Stopping, SeenInv, Waits, EveryConnectionSeen, Listening
<1>9. CASE stop_deletes
  BY <1>9
     DEF stop_deletes, Stopping, Then, loop, backlogs, SeenInv, Waits, EveryConnectionSeen, Listening
<1>10. CASE interrupt_ends \/ fd_del_callback \/ start
  BY <1>10, NetFactoryAssumption
     DEF backlogs, interrupt_ends, fd_del_callback, start, EpollThread,
         SeenInv, Waits, EveryConnectionSeen, Listening
<1>11. ASSUME NEW f \in Fds, socket_event(f) PROVE SeenInv'
  BY <1>11, NetFactoryAssumption
     DEF backlogs, socket_event, EpollThread, SeenInv, Waits, EveryConnectionSeen, Listening
<1>12. CASE \/ connect \/ stop \/ stop_epoll \/ join \/ \E q \in Queues : close_queue(q)
            \/ \E f \in Fds : async_send(f)
            \/ \E t \in Queues : PoolSteps(t)
            \/ UNCHANGED vars
  <2>1. UNCHANGED <<acceptor, backlogs, event, epoll>> /\ (main' = "new" => main = "new")
    BY <1>12 DEF Stopping, Then, connect, stop, stop_epoll, join, close_queue, async_send, PoolSteps,
       run, consume_all, run_task, batch_run_ends, PoolThread, vars, loop
  <2> QED BY <1>1, <2>1
<1> QED
  BY <1>2, <1>3, <1>4, <1>5, <1>6, <1>7, <1>8, <1>9, <1>10, <1>11, <1>12
     DEF Next, Others, Stops, EpollSteps

(* A listening acceptor does not forget connections while accept() fails   *)
(* only as the code expects (acceptor_impl.cpp, handle_epoll_read): what   *)
(* waits there has an edge-triggered event to come, or the epoll thread is *)
(* at it.  The errnos the code does not name are excepted, up to the next  *)
(* event: after them the event is not asked for.                           *)
THEOREM ConnectionsSeen == Spec => []EveryConnectionSeen
<1>1. Init => SeenInv
  BY DEF Init, SeenInv, Waits, EveryConnectionSeen, Listening
<1>2. SeenInv /\ [Next]_vars => SeenInv'
  BY NextSeen
<1>3. SeenInv => EveryConnectionSeen
  BY DEF SeenInv
<1> QED BY <1>1, <1>2, <1>3, PTL DEF Spec

-----------------------------------------------------------------------------
(* The pool.  A task is in one place: its socket's queue, or in the hands  *)
(* of the thread that serves the queue.                                    *)
TaskOf == [fd : Fds, n : Nat]

Types ==
  /\ rand_id \in Nat /\ m_index \in Nat
  /\ m_flag \in [Queues -> BOOLEAN]
  /\ m_tasklist \in [Queues -> Seq(TaskOf)] /\ tasks \in [Queues -> Seq(TaskOf)]
  /\ serves \in [Queues -> Nat]
  /\ queueOf \in [Fds -> Queues \cup {None}]
  /\ produced \in [Fds -> Nat] /\ onTime \in [Fds -> Nat] /\ finished \in [Fds -> Seq(Nat)]

(* Sockets get their descriptors, and thereby their queues, one by one.    *)
SocketsFirst == \E k \in 0..MaxFds : Sockets = 1..k

(* A thread serves one queue, and no two threads serve the same.           *)
OneThreadPerQueue ==
  /\ \A t \in Queues : Serving(t) => serves[t] < m_index
  /\ \A t, u \in Queues : Serving(t) /\ serves[t] = serves[u] => t = u
  /\ \A t \in Queues : tasks[t] # <<>> => Serving(t)

Between(task, last, made) == task.n > Len(last[task.fd]) /\ task.n <= made[task.fd]

ToCome(task) == Between(task, finished, produced)

InPlace ==
  /\ \A q \in Queues : \A i \in 1..Len(m_tasklist[q]) :
       queueOf[m_tasklist[q][i].fd] = q /\ ToCome(m_tasklist[q][i])
  /\ \A t \in Queues : \A i \in 1..Len(tasks[t]) :
       queueOf[tasks[t][i].fd] = serves[t] /\ ToCome(tasks[t][i])

(* The tasks of a socket are in the order of their numbers.                *)
Ascending(s) == \A i, j \in 1..Len(s) : i < j /\ s[i].fd = s[j].fd => s[i].n < s[j].n

Before(s, r) == \A i \in 1..Len(s), j \in 1..Len(r) : s[i].fd = r[j].fd => s[i].n < r[j].n

Sorted == \A q \in Queues : /\ Ascending(m_tasklist[q]) /\ Ascending(tasks[q])
                            /\ \A t \in Queues : Before(tasks[t], m_tasklist[q])

(* None is missing.                                                        *)
Has(s, f, n) == \E i \in 1..Len(s) : s[i].fd = f /\ s[i].n = n

NoneMissing ==
  \A f \in Fds :
    /\ queueOf[f] = None => produced[f] = 0
    /\ \A n \in Nat : n > Len(finished[f]) /\ n <= produced[f] =>
         \/ Has(m_tasklist[queueOf[f]], f, n)
         \/ \E t \in Queues : Has(tasks[t], f, n)

RunInOrder ==
  \A f \in Fds : /\ Len(finished[f]) <= produced[f]
                 /\ \A i \in 1..Len(finished[f]) : finished[f][i] = i

PoolInv == /\ Types /\ SocketsFirst /\ OneThreadPerQueue
           /\ InPlace /\ Sorted /\ NoneMissing /\ RunInOrder

LEMMA Distinguished ==
  /\ Queues \subseteq Nat /\ None \in Nat /\ Ended \in Nat
  /\ None \notin Queues /\ Ended \notin Queues /\ None # Ended
BY NetFactoryAssumption DEF Queues, None, Ended

LEMMA Allocated == ASSUME NEW id \in Nat PROVE alloc(id) \in Queues
BY NetFactoryAssumption DEF alloc, Queues

(* A new descriptor is one that no socket has.                             *)
LEMMA NextFdIsNew ==
  ASSUME SocketsFirst
  PROVE  /\ NextFd \in Nat /\ NextFd \notin Sockets
         /\ NextFd \in Fds => \E k \in 0..MaxFds : Sockets \cup {NextFd} = 1..k
<1>1. PICK k \in 0..MaxFds : Sockets = 1..k
  BY DEF SocketsFirst
<1>2. Cardinality(1..k) = k
  BY <1>1, FS_Interval, NetFactoryAssumption
<1>3. NextFd = k + 1
  BY <1>1, <1>2 DEF NextFd
<1> QED
  BY <1>1, <1>3, NetFactoryAssumption DEF Fds

poolState == <<rand_id, m_index, m_flag, m_tasklist, serves, tasks, queueOf, produced, onTime, finished>>

LEMMA SocketMade ==
  ASSUME PoolInv, rand_id' \in Nat, NEW queue \in Queues, NewSocket(queue),
         UNCHANGED <<m_index, m_flag, m_tasklist, serves, tasks, produced, onTime, finished>>
  PROVE  PoolInv'
<1>1. /\ NextFd \in Fds /\ queueOf[NextFd] = None
      /\ queueOf' = [queueOf EXCEPT ![NextFd] = queue]
  BY NextFdIsNew DEF PoolInv, NewSocket, Sockets
<1>2. PICK k \in 0..MaxFds : Sockets \cup {NextFd} = 1..k
  BY <1>1, NextFdIsNew DEF PoolInv
<1> DEFINE fd == NextFd
<1>3. Types'
  BY <1>1 DEF PoolInv, Types
<1> HIDE DEF fd
<1>4. queueOf' = [queueOf EXCEPT ![fd] = queue] /\ queueOf \in [Fds -> Queues \cup {None}]
      /\ fd \in Fds /\ queueOf[fd] = None
  BY <1>1 DEF fd, PoolInv, Types
<1>5. SocketsFirst'
  <2>1. Sockets' = Sockets \cup {fd}
    BY <1>4, Distinguished DEF Sockets
  <2> QED
    BY <1>2, <2>1 DEF SocketsFirst, fd
<1>6. OneThreadPerQueue'
  BY DEF PoolInv, OneThreadPerQueue, Serving
<1>7. produced[fd] = 0
  BY <1>4 DEF PoolInv, NoneMissing
<1>8. InPlace'
  <2>1. ASSUME NEW task \in TaskOf, ToCome(task)
        PROVE  /\ task.fd # fd /\ queueOf'[task.fd] = queueOf[task.fd]
               /\ Between(task, finished', produced')
    <3>1. task.fd \in Fds /\ task.n \in Nat /\ finished[task.fd] \in Seq(Nat)
      BY DEF TaskOf, PoolInv, Types
    <3>2. Len(finished[task.fd]) \in Nat
      BY <3>1, LenProperties
    <3>3. task.fd # fd
      BY <1>7, <2>1, <3>1, <3>2 DEF ToCome, Between
    <3> QED
      BY <1>4, <2>1, <3>1, <3>3 DEF ToCome, Between
  <2>2. \A q \in Queues : \A i \in 1..Len(m_tasklist[q]) : m_tasklist[q][i] \in TaskOf
    BY ElementOfSeq DEF PoolInv, Types
  <2>3. \A q \in Queues : \A i \in 1..Len(tasks[q]) : tasks[q][i] \in TaskOf
    BY ElementOfSeq DEF PoolInv, Types
  <2> QED
    BY <2>1, <2>2, <2>3 DEF PoolInv, InPlace, ToCome
<1>9. Sorted' /\ RunInOrder'
  BY DEF PoolInv, Sorted, Ascending, Before, RunInOrder
<1>10. NoneMissing'
  <2> SUFFICES ASSUME NEW f \in Fds
               PROVE  /\ queueOf'[f] = None => produced[f] = 0
                      /\ \A n \in Nat : n > Len(finished[f]) /\ n <= produced[f] =>
                           \/ Has(m_tasklist[queueOf'[f]], f, n)
                           \/ \E t \in Queues : Has(tasks[t], f, n)
    BY DEF NoneMissing, Has
  <2>1. CASE f = fd
    <3>1. Len(finished[f]) \in Nat
      BY LenProperties DEF PoolInv, Types
    <3> QED
      BY <1>7, <2>1, <3>1
  <2>2. CASE f # fd
    BY <1>4, <2>2 DEF PoolInv, NoneMissing
  <2> QED BY <2>1, <2>2
<1> QED
  BY <1>3, <1>5, <1>6, <1>8, <1>9, <1>10 DEF PoolInv

(* The elements of lists.                                                  *)
LEMMA TasksTyped ==
  ASSUME Types
  PROVE  /\ \A q \in Queues : /\ m_tasklist[q] \in Seq(TaskOf) /\ tasks[q] \in Seq(TaskOf)
                               /\ Len(m_tasklist[q]) \in Nat /\ Len(tasks[q]) \in Nat
         /\ \A q \in Queues : \A i \in 1..Len(m_tasklist[q]) :
              m_tasklist[q][i] \in TaskOf /\ m_tasklist[q][i].fd \in Fds /\ m_tasklist[q][i].n \in Nat
         /\ \A q \in Queues : \A i \in 1..Len(tasks[q]) :
              tasks[q][i] \in TaskOf /\ tasks[q][i].fd \in Fds /\ tasks[q][i].n \in Nat
         /\ \A f \in Fds : finished[f] \in Seq(Nat) /\ Len(finished[f]) \in Nat
                            /\ produced[f] \in Nat
<1>1. \A q \in Queues : m_tasklist[q] \in Seq(TaskOf) /\ tasks[q] \in Seq(TaskOf)
  BY DEF Types
<1>2. \A f \in Fds : finished[f] \in Seq(Nat) /\ produced[f] \in Nat
  BY DEF Types
<1>3. \A task \in TaskOf : task.fd \in Fds /\ task.n \in Nat
  BY DEF TaskOf
<1> HIDE DEF TaskOf
<1> QED
  BY <1>1, <1>2, <1>3, ElementOfSeq, LenProperties

LEMMA TaskProduced ==
  ASSUME PoolInv, NEW f \in Fds, Produce(f),
         UNCHANGED <<rand_id, m_index, serves, tasks, queueOf, finished>>
  PROVE  PoolInv'
<1> DEFINE q == queueOf[f]
<1>0. PICK new : new = [fd |-> f, n |-> produced[f] + 1]
  OBVIOUS
<1>1. /\ q \in Queues /\ produced[f] \in Nat /\ new \in TaskOf
      /\ produced' = [produced EXCEPT ![f] = @ + 1]
      /\ m_tasklist' = [m_tasklist EXCEPT ![q] = Append(@, new)]
      /\ m_flag' = m_flag
  BY <1>0 DEF PoolInv, Types, Produce, QueueFor, Sockets, TaskOf
<1>2. /\ m_tasklist'[q] = Append(m_tasklist[q], new)
      /\ \A p \in Queues : p # q => m_tasklist'[p] = m_tasklist[p]
      /\ produced'[f] = produced[f] + 1
      /\ \A g \in Fds : g # f => produced'[g] = produced[g]
  BY <1>1 DEF PoolInv, Types
<1>3. new.fd = f /\ new.n = produced[f] + 1
  BY <1>0
<1>4. Types /\ q \in Queues /\ queueOf[f] = q
  BY <1>1 DEF PoolInv
<1> HIDE DEF q
<1>5. Types'
  <2>1. onTime' \in [Fds -> Nat]
    BY DEF PoolInv, Types, Produce
  <2>2. m_tasklist' \in [Queues -> Seq(TaskOf)]
    BY <1>1, AppendProperties DEF PoolInv, Types
  <2>3. produced' \in [Fds -> Nat]
    BY <1>1 DEF PoolInv, Types
  <2>4. m_flag' = m_flag
    BY <1>1
  <2> QED
    BY <1>4, <2>1, <2>2, <2>3, <2>4 DEF Types
<1>6. /\ Len(m_tasklist[q]) \in Nat /\ Len(m_tasklist'[q]) = Len(m_tasklist[q]) + 1
      /\ m_tasklist'[q][Len(m_tasklist[q]) + 1] = new
      /\ \A i \in 1..Len(m_tasklist[q]) : m_tasklist'[q][i] = m_tasklist[q][i]
  <2>1. m_tasklist[q] \in Seq(TaskOf) /\ new \in TaskOf
    BY <1>1, <1>4, TasksTyped
  <2>2. m_tasklist'[q] = Append(m_tasklist[q], new)
    BY <1>2
  <2> HIDE DEF TaskOf
  <2> QED
    BY <2>1, <2>2, AppendProperties, LenProperties
(* What a list of the new state holds was in the old one, or is new.       *)
<1>7. ASSUME NEW p \in Queues, NEW i \in 1..Len(m_tasklist'[p])
      PROVE  \/ i \in 1..Len(m_tasklist[p]) /\ m_tasklist'[p][i] = m_tasklist[p][i]
             \/ p = q /\ i = Len(m_tasklist[q]) + 1 /\ m_tasklist'[p][i] = new
  BY <1>2, <1>6
<1>8. \A task \in TaskOf : ToCome(task) => Between(task, finished, produced')
  <2> SUFFICES ASSUME NEW task \in TaskOf, ToCome(task)
               PROVE  Between(task, finished, produced')
    OBVIOUS
  <2>1. task.fd \in Fds /\ task.n \in Nat
    BY DEF TaskOf
  <2> QED
    BY <1>1, <1>2, <2>1, <1>4, TasksTyped DEF ToCome, Between
<1>9. \A g \in Fds : Len(finished[g]) <= produced[g]
  BY DEF PoolInv, RunInOrder
<1>10. InPlace'
  <2>1. Between(new, finished, produced')
    BY <1>2, <1>3, <1>4, <1>9, TasksTyped DEF Between
  <2>2. ASSUME NEW p \in Queues, NEW i \in 1..Len(m_tasklist'[p])
        PROVE  queueOf[m_tasklist'[p][i].fd] = p /\ Between(m_tasklist'[p][i], finished, produced')
    <3>1. CASE i \in 1..Len(m_tasklist[p]) /\ m_tasklist'[p][i] = m_tasklist[p][i]
      BY <1>4, <1>8, <3>1, TasksTyped DEF PoolInv, InPlace
    <3>2. CASE p = q /\ m_tasklist'[p][i] = new
      BY <1>3, <1>4, <2>1, <3>2
    <3> QED BY <1>7, <3>1, <3>2
  <2>3. \A t \in Queues : \A i \in 1..Len(tasks[t]) :
          queueOf[tasks[t][i].fd] = serves[t] /\ Between(tasks[t][i], finished, produced')
    BY <1>4, <1>8, TasksTyped DEF PoolInv, InPlace
  <2> QED BY <2>2, <2>3 DEF InPlace, ToCome
<1>11. \A task \in TaskOf : ToCome(task) /\ task.fd = f => task.n < new.n
  BY <1>1, <1>3 DEF ToCome, Between, TaskOf
<1>12. Sorted'
  <2>1. ASSUME NEW p \in Queues, NEW i \in 1..Len(m_tasklist'[p]),
               NEW j \in 1..Len(m_tasklist'[p]), i < j,
               m_tasklist'[p][i].fd = m_tasklist'[p][j].fd
        PROVE  m_tasklist'[p][i].n < m_tasklist'[p][j].n
    <3>1. CASE i \in 1..Len(m_tasklist[p]) /\ m_tasklist'[p][i] = m_tasklist[p][i]
      <4>1. CASE j \in 1..Len(m_tasklist[p]) /\ m_tasklist'[p][j] = m_tasklist[p][j]
        BY <2>1, <3>1, <4>1 DEF PoolInv, Sorted, Ascending
      <4>2. CASE p = q /\ m_tasklist'[p][j] = new
        BY <1>3, <1>4, <1>11, <2>1, <3>1, <4>2, TasksTyped DEF PoolInv, InPlace
      <4> QED BY <1>7, <4>1, <4>2
    <3>2. CASE p = q /\ i = Len(m_tasklist[q]) + 1
      BY <1>6, <2>1, <3>2
    <3> QED BY <1>7, <3>1, <3>2
  <2>2. ASSUME NEW t \in Queues, NEW p \in Queues, NEW i \in 1..Len(tasks[t]),
               NEW j \in 1..Len(m_tasklist'[p]), tasks[t][i].fd = m_tasklist'[p][j].fd
        PROVE  tasks[t][i].n < m_tasklist'[p][j].n
    <3>1. CASE j \in 1..Len(m_tasklist[p]) /\ m_tasklist'[p][j] = m_tasklist[p][j]
      BY <2>2, <3>1 DEF PoolInv, Sorted, Before
    <3>2. CASE p = q /\ m_tasklist'[p][j] = new
      BY <1>3, <1>4, <1>11, <2>2, <3>2, TasksTyped DEF PoolInv, InPlace
    <3> QED BY <1>7, <3>1, <3>2
  <2> QED
    BY <2>1, <2>2 DEF PoolInv, Sorted, Ascending, Before
<1>13. NoneMissing'
  <2>1. ASSUME NEW g \in Fds, NEW n \in Nat, Has(m_tasklist[queueOf[g]], g, n),
               queueOf[g] \in Queues
        PROVE  Has(m_tasklist'[queueOf[g]], g, n)
    <3>1. CASE queueOf[g] = q
      <4>1. PICK i \in 1..Len(m_tasklist[q]) : m_tasklist[q][i].fd = g /\ m_tasklist[q][i].n = n
        BY <2>1, <3>1 DEF Has
      <4>2. i \in 1..Len(m_tasklist'[q]) /\ m_tasklist'[q][i] = m_tasklist[q][i]
        BY <1>6
      <4> QED BY <3>1, <4>1, <4>2 DEF Has
    <3>2. CASE queueOf[g] # q
      BY <1>2, <2>1, <3>2
    <3> QED BY <3>1, <3>2
  <2>2. Has(m_tasklist'[q], f, produced[f] + 1)
    BY <1>3, <1>6 DEF Has
  <2>3. ASSUME NEW g \in Fds, NEW n \in Nat, n > Len(finished[g]), n <= produced'[g]
        PROVE  \/ Has(m_tasklist'[queueOf[g]], g, n)
               \/ \E t \in Queues : Has(tasks[t], g, n)
    <3>1. CASE g = f /\ n = produced[f] + 1
      BY <1>4, <2>2, <3>1
    <3>2. CASE n <= produced[g]
      <4>1. \/ Has(m_tasklist[queueOf[g]], g, n)
            \/ \E t \in Queues : Has(tasks[t], g, n)
        BY <2>3, <3>2 DEF PoolInv, NoneMissing
      <4>2. queueOf[g] \in Queues
        <5>1. produced[g] # 0
          BY <1>4, <2>3, <3>2, TasksTyped
        <5> QED
          BY <5>1 DEF PoolInv, NoneMissing, Types
      <4> QED BY <2>1, <4>1, <4>2
    <3> QED
      BY <1>1, <1>2, <2>3, <1>4, <3>1, <3>2, TasksTyped
  <2>4. \A g \in Fds : queueOf[g] = None => produced'[g] = 0
    BY <1>2, <1>4, Distinguished DEF PoolInv, NoneMissing
  <2> QED BY <2>3, <2>4 DEF NoneMissing
<1>14. SocketsFirst' /\ OneThreadPerQueue'
  BY DEF PoolInv, SocketsFirst, Sockets, OneThreadPerQueue, Serving
<1>15. RunInOrder'
  BY <1>2, <1>4, <1>9, TasksTyped DEF PoolInv, RunInOrder
<1> QED
  BY <1>5, <1>10, <1>12, <1>13, <1>14, <1>15 DEF PoolInv

(* A thread gets a queue, leaves it, or takes what is there.               *)
LEMMA ServesChanges ==
  ASSUME PoolInv, NEW t \in Queues, run(t) \/ batch_run_ends(t)
  PROVE  PoolInv'
<1>1. /\ UNCHANGED <<rand_id, m_flag, m_tasklist, tasks, queueOf, produced, onTime, finished>>
      /\ \/ serves[t] = None /\ serves' = [serves EXCEPT ![t] = m_index] /\ m_index' = m_index + 1
         \/ serves' = [serves EXCEPT ![t] = Ended] /\ tasks[t] = <<>> /\ m_index' = m_index
  BY DEF run, batch_run_ends, NextIndex, PoolThread
<1>2. m_index \in Nat /\ serves \in [Queues -> Nat]
  BY DEF PoolInv, Types
<1>3. Types'
  <2>1. serves' \in [Queues -> Nat] /\ m_index' \in Nat
    BY <1>1, <1>2, Distinguished
  <2>2. Types
    BY DEF PoolInv
  <2> QED BY <1>1, <2>1, <2>2 DEF Types
<1>4. tasks[t] = <<>>
  BY <1>1, Distinguished DEF PoolInv, OneThreadPerQueue, Serving
<1>5. \A u \in Queues : u # t => serves'[u] = serves[u]
  BY <1>1, <1>2
<1>6. OneThreadPerQueue'
  <2>1. CASE /\ serves[t] = None /\ serves' = [serves EXCEPT ![t] = m_index]
             /\ m_index' = m_index + 1
    BY <1>1, <1>2, <1>4, <1>5, <2>1, Distinguished DEF PoolInv, OneThreadPerQueue, Serving
  <2>2. CASE serves' = [serves EXCEPT ![t] = Ended] /\ m_index' = m_index
    BY <1>1, <1>2, <1>4, <1>5, <2>2, Distinguished DEF PoolInv, OneThreadPerQueue, Serving
  <2> QED BY <1>1, <2>1, <2>2
<1>7. InPlace'
  <2>1. Len(tasks[t]) = 0
    BY <1>4
  <2> QED
    BY <1>1, <1>5, <2>1 DEF PoolInv, InPlace, ToCome
<1>8. SocketsFirst' /\ Sorted' /\ NoneMissing' /\ RunInOrder'
  BY <1>1 DEF PoolInv, SocketsFirst, Sockets, Sorted, NoneMissing, RunInOrder
<1> QED
  BY <1>3, <1>6, <1>7, <1>8 DEF PoolInv

LEMMA AllConsumed ==
  ASSUME PoolInv, NEW t \in Queues, consume_all(t)
  PROVE  PoolInv'
<1> DEFINE q == serves[t]
<1>1. /\ q \in Queues /\ tasks[t] = <<>>
      /\ tasks' = [tasks EXCEPT ![t] = m_tasklist[q]]
      /\ m_tasklist' = [m_tasklist EXCEPT ![q] = <<>>]
      /\ UNCHANGED <<rand_id, m_index, m_flag, serves, queueOf, produced, onTime, finished>>
  BY DEF consume_all, Serving, PoolThread
<1>2. Types
  BY DEF PoolInv
<1>3. /\ tasks'[t] = m_tasklist[q] /\ m_tasklist'[q] = <<>> /\ Len(m_tasklist'[q]) = 0
      /\ \A u \in Queues : u # t => tasks'[u] = tasks[u]
      /\ \A p \in Queues : p # q => m_tasklist'[p] = m_tasklist[p]
  BY <1>1, <1>2 DEF Types
<1>4. serves[t] = q
  OBVIOUS
<1> HIDE DEF q
<1>5. Types'
  BY <1>1, <1>2 DEF Types
<1>6. OneThreadPerQueue'
  BY <1>1, <1>3, <1>4 DEF PoolInv, OneThreadPerQueue, Serving
<1>7. InPlace'
  BY <1>1, <1>3, <1>4 DEF PoolInv, InPlace, ToCome
<1>8. Sorted'
  <2>1. ASSUME NEW u \in Queues, NEW p \in Queues PROVE Before(tasks'[u], m_tasklist'[p])
    <3>1. CASE p = q
      BY <1>3, <3>1 DEF Before
    <3>2. CASE p # q /\ u # t
      BY <1>3, <3>2 DEF PoolInv, Sorted
    <3>3. CASE p # q /\ u = t
      BY <1>1, <1>3, <3>3 DEF PoolInv, InPlace, Before
    <3> QED BY <3>1, <3>2, <3>3
  <2>2. ASSUME NEW p \in Queues PROVE Ascending(m_tasklist'[p]) /\ Ascending(tasks'[p])
    <3>1. Ascending(m_tasklist'[p])
      BY <1>3 DEF PoolInv, Sorted, Ascending
    <3>2. Ascending(tasks'[p])
      BY <1>1, <1>3 DEF PoolInv, Sorted
    <3> QED BY <3>1, <3>2
  <2> QED BY <2>1, <2>2 DEF Sorted
<1>9. NoneMissing'
  <2>1. ASSUME NEW f \in Fds, NEW n \in Nat, queueOf[f] \in Queues,
               Has(m_tasklist[queueOf[f]], f, n)
        PROVE  \/ Has(m_tasklist'[queueOf[f]], f, n)
               \/ \E u \in Queues : Has(tasks'[u], f, n)
    BY <1>3, <2>1
  <2>2. ASSUME NEW f \in Fds, NEW n \in Nat, NEW u \in Queues, Has(tasks[u], f, n)
        PROVE  Has(tasks'[u], f, n)
    <3>1. u # t
      BY <1>1, <2>2 DEF Has
    <3> QED BY <1>3, <2>2, <3>1
  <2>3. ASSUME NEW f \in Fds, queueOf[f] \notin Queues, NEW n \in Nat,
               n > Len(finished[f]), n <= produced[f]
        PROVE  FALSE
    BY <1>2, <2>3, TasksTyped DEF PoolInv, NoneMissing, Types
  <2> QED
    BY <1>1, <2>1, <2>2, <2>3 DEF PoolInv, NoneMissing
<1>10. SocketsFirst' /\ RunInOrder'
  BY <1>1 DEF PoolInv, SocketsFirst, Sockets, RunInOrder
<1> QED
  BY <1>5, <1>6, <1>7, <1>8, <1>9, <1>10 DEF PoolInv

(* The first task a thread has is the one its socket waits for.            *)
LEMMA HeadIsNext ==
  ASSUME PoolInv, NEW t \in Queues, tasks[t] # <<>>
  PROVE  /\ Head(tasks[t]) = tasks[t][1] /\ 1 \in 1..Len(tasks[t])
         /\ tasks[t][1].n = Len(finished[tasks[t][1].fd]) + 1
<1>1. Types
  BY DEF PoolInv
<1>2. Head(tasks[t]) = tasks[t][1] /\ Len(tasks[t]) >= 1 /\ Len(tasks[t]) \in Nat
  <2>1. tasks[t] \in Seq(TaskOf)
    BY <1>1, TasksTyped
  <2> HIDE DEF TaskOf
  <2> QED BY <2>1, HeadTailProperties, EmptySeq, LenProperties
<1>3. 1 \in 1..Len(tasks[t])
  BY <1>2
<1> DEFINE task == tasks[t][1]
           f == task.fd
           n == Len(finished[f]) + 1
<1>4. f \in Fds /\ task.n \in Nat /\ Len(finished[f]) \in Nat /\ produced[f] \in Nat
  BY <1>1, <1>3, TasksTyped
<1>5. /\ serves[t] \in Queues /\ queueOf[f] = serves[t]
      /\ task.n > Len(finished[f]) /\ task.n <= produced[f]
  BY <1>3 DEF PoolInv, OneThreadPerQueue, Serving, InPlace, ToCome, Between
<1> HIDE DEF f
<1>6. n \in Nat /\ n > Len(finished[f]) /\ n <= produced[f]
  BY <1>4, <1>5
<1> HIDE DEF n
<1>7. \/ Has(m_tasklist[queueOf[f]], f, n)
      \/ \E u \in Queues : Has(tasks[u], f, n)
  BY <1>4, <1>6 DEF PoolInv, NoneMissing
<1>8. CASE Has(m_tasklist[queueOf[f]], f, n)
  <2>1. PICK j \in 1..Len(m_tasklist[serves[t]]) :
          m_tasklist[serves[t]][j].fd = f /\ m_tasklist[serves[t]][j].n = n
    BY <1>5, <1>8 DEF Has
  <2>2. task.n < n
    BY <1>3, <1>5, <2>1 DEF PoolInv, Sorted, Before, f
  <2> QED
    BY <1>4, <1>5, <2>2 DEF n
<1>9. ASSUME NEW u \in Queues, Has(tasks[u], f, n)
      PROVE  task.n = n
  <2>1. PICK j \in 1..Len(tasks[u]) : tasks[u][j].fd = f /\ tasks[u][j].n = n
    BY <1>9 DEF Has
  <2>2. u = t
    BY <1>5, <2>1 DEF PoolInv, InPlace, OneThreadPerQueue, Serving
  <2>3. CASE j = 1
    BY <2>1, <2>2, <2>3
  <2>4. CASE j > 1
    <3>1. task.n < n
      BY <1>3, <2>1, <2>2, <2>4 DEF PoolInv, Sorted, Ascending, f
    <3> QED
      BY <1>4, <1>5, <3>1 DEF n
  <2> QED
    BY <1>2, <2>1, <2>2, <2>3, <2>4
<1> QED
  BY <1>2, <1>3, <1>7, <1>8, <1>9 DEF n, f

LEMMA TaskRun ==
  ASSUME PoolInv, NEW t \in Queues, run_task(t)
  PROVE  PoolInv'
<1> DEFINE task == tasks[t][1]
           f == task.fd
           last == Len(finished[f])
<1>1. /\ tasks[t] # <<>>
      /\ finished' = [finished EXCEPT ![Head(tasks[t]).fd] = Append(@, Head(tasks[t]).n)]
      /\ tasks' = [tasks EXCEPT ![t] = Tail(@)]
      /\ UNCHANGED <<rand_id, m_index, m_flag, m_tasklist, serves, queueOf, produced, onTime>>
  BY DEF run_task, PoolThread
<1>2. Head(tasks[t]) = task /\ 1 \in 1..Len(tasks[t]) /\ task.n = last + 1
  BY <1>1, HeadIsNext
<1>3. Types
  BY DEF PoolInv
<1>4. f \in Fds /\ last \in Nat /\ finished[f] \in Seq(Nat) /\ task.n \in Nat /\ produced[f] \in Nat
  BY <1>2, <1>3, TasksTyped
<1>5. serves[t] \in Queues /\ queueOf[f] = serves[t] /\ last + 1 <= produced[f]
  <2>1. serves[t] \in Queues
    BY <1>1 DEF PoolInv, OneThreadPerQueue, Serving
  <2>2. queueOf[f] = serves[t] /\ ToCome(task)
    BY <1>2 DEF PoolInv, InPlace
  <2> QED BY <1>2, <2>1, <2>2 DEF ToCome, Between
<1>6. finished' = [finished EXCEPT ![f] = Append(@, last + 1)]
  BY <1>1, <1>2
<1>7. tasks[t][1].fd = f /\ tasks[t][1].n = last + 1
  BY <1>2
<1>8. last = Len(finished[f])
  OBVIOUS
<1> HIDE DEF task, f, last
<1>9. /\ finished'[f] = Append(finished[f], last + 1)
      /\ Len(finished'[f]) = last + 1
      /\ \A i \in 1..last : finished'[f][i] = finished[f][i]
      /\ finished'[f][last + 1] = last + 1
      /\ \A g \in Fds : g # f => finished'[g] = finished[g]
  BY <1>3, <1>4, <1>6, <1>8, AppendProperties DEF Types
<1>10. /\ tasks'[t] = Tail(tasks[t]) /\ tasks'[t] \in Seq(TaskOf)
       /\ Len(tasks'[t]) = Len(tasks[t]) - 1
       /\ \A i \in 1..Len(tasks'[t]) : tasks'[t][i] = tasks[t][i + 1]
       /\ \A u \in Queues : u # t => tasks'[u] = tasks[u]
  <2>1. tasks[t] \in Seq(TaskOf) /\ tasks \in [Queues -> Seq(TaskOf)]
    BY <1>3 DEF Types
  <2> HIDE DEF TaskOf
  <2> QED BY <1>1, <2>1, HeadTailProperties
<1>11. Len(tasks[t]) \in Nat /\ \A u \in Queues : Len(tasks'[u]) \in Nat
  BY <1>3, <1>10, TasksTyped, LenProperties
(* What a thread has after the step, it had before: not the first.         *)
<1>12. ASSUME NEW u \in Queues, NEW i \in 1..Len(tasks'[u])
       PROVE  IF u = t THEN i + 1 \in 1..Len(tasks[t]) /\ tasks'[u][i] = tasks[t][i + 1]
                       ELSE i \in 1..Len(tasks[u]) /\ tasks'[u][i] = tasks[u][i]
  <2>1. CASE u = t
    <3>1. i \in 1..Len(tasks'[t]) /\ tasks'[u][i] = tasks[t][i + 1]
      BY <1>10, <2>1
    <3>2. i + 1 \in 1..Len(tasks[t])
      <4>1. Len(tasks'[t]) = Len(tasks[t]) - 1
        BY <1>10
      <4> QED BY <1>11, <3>1, <4>1
    <3> QED BY <2>1, <3>1, <3>2
  <2>2. CASE u # t
    BY <1>10, <2>2
  <2> QED BY <2>1, <2>2
<1>13. Types'
  <2>1. finished' \in [Fds -> Seq(Nat)]
    BY <1>3, <1>4, <1>6, AppendProperties DEF Types
  <2>2. tasks' \in [Queues -> Seq(TaskOf)]
    BY <1>1, <1>3, <1>10 DEF Types
  <2> QED BY <1>1, <1>3, <2>1, <2>2 DEF Types
<1>14. SocketsFirst' /\ OneThreadPerQueue'
  <2>1. \A u \in Queues : tasks'[u] # <<>> => tasks[u] # <<>>
    BY <1>1, <1>10
  <2> QED
    BY <1>1, <2>1 DEF PoolInv, SocketsFirst, Sockets, OneThreadPerQueue, Serving
<1>15. ASSUME NEW some \in TaskOf, ToCome(some), some.fd = f => some.n # last + 1
       PROVE  Between(some, finished', produced)
  <2>1. some.fd \in Fds /\ some.n \in Nat
    BY DEF TaskOf
  <2>2. CASE some.fd = f
    BY <1>4, <1>8, <1>9, <1>15, <2>1, <2>2 DEF ToCome, Between
  <2>3. CASE some.fd # f
    BY <1>9, <1>15, <2>1, <2>3 DEF ToCome, Between
  <2> QED BY <2>2, <2>3
<1>16. InPlace'
  <2>1. ASSUME NEW q \in Queues, NEW i \in 1..Len(m_tasklist[q])
        PROVE  queueOf[m_tasklist[q][i].fd] = q /\ Between(m_tasklist[q][i], finished', produced)
    <3>1. queueOf[m_tasklist[q][i].fd] = q /\ ToCome(m_tasklist[q][i])
      BY DEF PoolInv, InPlace
    <3>2. m_tasklist[q][i].fd = f => last + 1 < m_tasklist[q][i].n
      BY <1>2, <1>7 DEF PoolInv, Sorted, Before
    <3>3. m_tasklist[q][i] \in TaskOf
      BY <1>3, TasksTyped
    <3> QED BY <1>4, <1>15, <3>1, <3>2, <3>3
  <2>2. ASSUME NEW u \in Queues, NEW i \in 1..Len(tasks'[u])
        PROVE  /\ queueOf[tasks'[u][i].fd] = serves[u]
               /\ Between(tasks'[u][i], finished', produced)
    <3>1. CASE u = t
      <4>1. i + 1 \in 1..Len(tasks[t]) /\ tasks'[u][i] = tasks[t][i + 1] /\ 1 < i + 1
        BY <1>11, <1>12, <3>1
      <4>2. /\ queueOf[tasks[t][i + 1].fd] = serves[t] /\ ToCome(tasks[t][i + 1])
            /\ tasks[t][i + 1] \in TaskOf
        BY <1>3, <4>1, TasksTyped DEF PoolInv, InPlace
      <4>3. tasks[t][i + 1].fd = f => last + 1 < tasks[t][i + 1].n
        BY <1>2, <1>7, <4>1 DEF PoolInv, Sorted, Ascending
      <4> QED BY <1>4, <1>15, <3>1, <4>1, <4>2, <4>3
    <3>2. CASE u # t
      <4>1. i \in 1..Len(tasks[u]) /\ tasks'[u][i] = tasks[u][i]
        BY <1>12, <3>2
      <4>2. queueOf[tasks[u][i].fd] = serves[u] /\ ToCome(tasks[u][i]) /\ tasks[u][i] \in TaskOf
        BY <1>3, <4>1, TasksTyped DEF PoolInv, InPlace
      <4>3. tasks[u][i].fd # f
        BY <1>5, <3>2, <4>2 DEF PoolInv, OneThreadPerQueue, Serving
      <4> QED BY <1>15, <4>1, <4>2, <4>3
    <3> QED BY <3>1, <3>2
  <2>3. /\ m_tasklist' = m_tasklist /\ queueOf' = queueOf /\ serves' = serves
        /\ produced' = produced
    BY <1>1
  <2> QED BY <2>1, <2>2, <2>3 DEF InPlace, ToCome
<1>17. Sorted'
  <2>1. ASSUME NEW u \in Queues PROVE Ascending(tasks'[u])
    <3>1. CASE u = t
      <4> SUFFICES ASSUME NEW i \in 1..Len(tasks'[u]), NEW j \in 1..Len(tasks'[u]), i < j,
                          tasks'[u][i].fd = tasks'[u][j].fd
                   PROVE  tasks'[u][i].n < tasks'[u][j].n
        BY DEF Ascending
      <4>1. /\ i + 1 \in 1..Len(tasks[t]) /\ tasks'[u][i] = tasks[t][i + 1]
            /\ j + 1 \in 1..Len(tasks[t]) /\ tasks'[u][j] = tasks[t][j + 1] /\ i + 1 < j + 1
        BY <1>11, <1>12, <3>1
      <4> QED BY <3>1, <4>1 DEF PoolInv, Sorted, Ascending
    <3>2. CASE u # t
      BY <1>10, <3>2 DEF PoolInv, Sorted
    <3> QED BY <3>1, <3>2
  <2>2. ASSUME NEW u \in Queues, NEW q \in Queues PROVE Before(tasks'[u], m_tasklist[q])
    <3> SUFFICES ASSUME NEW i \in 1..Len(tasks'[u]), NEW j \in 1..Len(m_tasklist[q]),
                        tasks'[u][i].fd = m_tasklist[q][j].fd
                 PROVE  tasks'[u][i].n < m_tasklist[q][j].n
      BY DEF Before
    <3>1. \E k \in 1..Len(tasks[u]) : tasks'[u][i] = tasks[u][k]
      <4>1. CASE u = t
        BY <1>12, <4>1
      <4>2. CASE u # t
        BY <1>12, <4>2
      <4> QED BY <4>1, <4>2
    <3>2. Before(tasks[u], m_tasklist[q])
      BY DEF PoolInv, Sorted
    <3> QED BY <3>1, <3>2 DEF Before
  <2> QED BY <1>1, <2>1, <2>2 DEF PoolInv, Sorted
<1>18. NoneMissing'
  <2>1. ASSUME NEW g \in Fds, NEW n \in Nat, n > Len(finished'[g]), n <= produced[g]
        PROVE  \/ Has(m_tasklist[queueOf[g]], g, n)
               \/ \E u \in Queues : Has(tasks'[u], g, n)
    <3>1. n > Len(finished[g]) /\ (g = f => n > last + 1)
      BY <1>3, <1>4, <1>8, <1>9, <2>1, TasksTyped
    <3>2. ASSUME NEW u \in Queues, Has(tasks[u], g, n)
          PROVE  Has(tasks'[u], g, n)
      <4>1. CASE u # t
        BY <1>10, <3>2, <4>1
      <4>2. CASE u = t
        <5>1. PICK j \in 1..Len(tasks[t]) : tasks[t][j].fd = g /\ tasks[t][j].n = n
          BY <3>2, <4>2 DEF Has
        <5>2. j # 1
          BY <1>4, <1>7, <3>1, <5>1
        <5>3. j - 1 \in 1..Len(tasks'[t]) /\ (j - 1) + 1 = j
          BY <1>10, <1>11, <5>2
        <5>4. tasks'[t][j - 1] = tasks[t][j]
          BY <1>10, <5>3
        <5> QED BY <4>2, <5>1, <5>3, <5>4 DEF Has
      <4> QED BY <4>1, <4>2
    <3>3. \/ Has(m_tasklist[queueOf[g]], g, n)
          \/ \E u \in Queues : Has(tasks[u], g, n)
      BY <2>1, <3>1 DEF PoolInv, NoneMissing
    <3> QED BY <3>2, <3>3
  <2> QED BY <1>1, <2>1 DEF PoolInv, NoneMissing
<1>19. RunInOrder'
  <2> SUFFICES ASSUME NEW g \in Fds
               PROVE  /\ Len(finished'[g]) <= produced[g]
                      /\ \A i \in 1..Len(finished'[g]) : finished'[g][i] = i
    BY <1>1 DEF RunInOrder
  <2>1. CASE g = f
    <3>1. \A i \in 1..last : finished[f][i] = i
      BY <1>4, <1>8 DEF PoolInv, RunInOrder
    <3>2. \A i \in 1..last + 1 : i \in 1..last \/ i = last + 1
      BY <1>4
    <3> QED BY <1>5, <1>9, <2>1, <3>1, <3>2
  <2>2. CASE g # f
    BY <1>9, <2>2 DEF PoolInv, RunInOrder
  <2> QED BY <2>1, <2>2
<1> QED
  BY <1>13, <1>14, <1>16, <1>17, <1>18, <1>19 DEF PoolInv

LEMMA PoolUntouched ==
  ASSUME PoolInv, m_flag' \in [Queues -> BOOLEAN],
         UNCHANGED <<rand_id, m_index, m_tasklist, serves, tasks, queueOf, produced, onTime, finished>>
  PROVE  PoolInv'
<1>1. Types' /\ SocketsFirst' /\ OneThreadPerQueue'
  BY DEF PoolInv, Types, SocketsFirst, Sockets, OneThreadPerQueue, Serving
<1>2. InPlace'
  BY DEF PoolInv, InPlace, ToCome
<1>3. Sorted' /\ NoneMissing' /\ RunInOrder'
  BY DEF PoolInv, Sorted, NoneMissing, RunInOrder
<1> QED BY <1>1, <1>2, <1>3 DEF PoolInv

LEMMA InitPool == Init => PoolInv
<1> SUFFICES ASSUME Init PROVE PoolInv
  OBVIOUS
<1>1. /\ \A q \in Queues : m_tasklist[q] = <<>> /\ tasks[q] = <<>> /\ serves[q] = None
      /\ \A f \in Fds : queueOf[f] = None /\ produced[f] = 0 /\ finished[f] = <<>>
  BY DEF Init
<1>2. Types
  BY Distinguished DEF Init, Types
<1>3. SocketsFirst
  <2>1. Sockets = 1..0
    BY <1>1 DEF Sockets
  <2> QED BY <2>1, NetFactoryAssumption DEF SocketsFirst
<1>4. OneThreadPerQueue
  BY <1>1, Distinguished DEF OneThreadPerQueue, Serving
<1>5. InPlace /\ Sorted
  BY <1>1 DEF InPlace, Sorted, Ascending, Before
<1>6. NoneMissing /\ RunInOrder
  BY <1>1 DEF NoneMissing, RunInOrder
<1> QED BY <1>2, <1>3, <1>4, <1>5, <1>6 DEF PoolInv

LEMMA NextPool == ASSUME PoolInv, [Next]_vars PROVE PoolInv'
<1>1. CASE connect
  <2>1. rand_id \in Nat /\ rand_alloc \in Queues
    BY Allocated DEF PoolInv, Types, rand_alloc
  <2> QED BY <1>1, <2>1, SocketMade DEF connect, pool, threads
<1>2. ASSUME NEW a \in Acceptors, accept(a) PROVE PoolInv'
  <2>1. rand_id \in Nat /\ alloc(NextFd) \in Queues
    BY Allocated, NextFdIsNew DEF PoolInv, Types
  <2> QED
    BY <1>2, <2>1, SocketMade DEF backlogs, accept, Handles, EpollThread, pool, threads
<1>3. ASSUME NEW f \in Fds, async_send(f) \/ socket_event(f) PROVE PoolInv'
  BY <1>3, TaskProduced DEF async_send, socket_event, EpollThread, threads
<1>4. ASSUME NEW t \in Queues, PoolSteps(t) PROVE PoolInv'
  BY <1>4, ServesChanges, AllConsumed, TaskRun DEF PoolSteps
<1>5. ASSUME NEW q \in Queues, close_queue(q) PROVE PoolInv'
  <2>1. m_flag' \in [Queues -> BOOLEAN]
    BY <1>5 DEF close_queue, PoolInv, Types
  <2> QED
    BY <1>5, <2>1, PoolUntouched DEF close_queue, Stopping, threads
<1>6. CASE \/ start \/ stop \/ stop_deletes \/ stop_epoll \/ join
           \/ interrupt_ends \/ fd_del_callback
           \/ \E a \in Acceptors : \/ listen(a) \/ client_connects(a) \/ accept_fails(a)
                                   \/ stop_closes(a) \/ take_event(a) \/ accept_ends(a)
           \/ UNCHANGED vars
  <2>1. UNCHANGED poolState
    BY <1>6 DEF start, stop, stop_deletes, stop_epoll, join, Stopping, interrupt_ends,
                fd_del_callback, EpollThread, listen, client_connects, accept_fails, stop_closes,
                take_event, accept_ends, Handles, vars, pool, threads, poolState
  <2> QED
    BY <2>1, PoolUntouched DEF poolState, PoolInv, Types
<1> QED
  BY <1>1, <1>2, <1>3, <1>4, <1>5, <1>6 DEF Next, Others, Stops, EpollSteps

(* The tasks of a socket are run one by one in the order they were         *)
(* produced, by one thread (task_queue_pool.cpp: a queue for each thread;  *)
(* socket_impl.cpp: a queue for each socket), for any number of threads.   *)
THEOREM SocketsInOrder == Spec => []SocketInOrder
<1>1. Init => PoolInv
  BY InitPool
<1>2. PoolInv /\ [Next]_vars => PoolInv'
  BY NextPool
<1>3. PoolInv => SocketInOrder
  <2> SUFFICES ASSUME PoolInv, NEW f \in Fds
               PROVE  /\ \A i \in DOMAIN finished[f] : finished[f][i] = i
                      /\ \A t, u \in Queues : Holds(t, f) /\ Holds(u, f) => t = u
    BY DEF SocketInOrder
  <2>1. DOMAIN finished[f] = 1..Len(finished[f])
    BY LenProperties DEF PoolInv, Types
  <2>2. \A t \in Queues : DOMAIN tasks[t] = 1..Len(tasks[t])
    BY LenProperties DEF PoolInv, Types
  <2>3. ASSUME NEW t \in Queues, Holds(t, f) PROVE queueOf[f] = serves[t] /\ Serving(t)
    BY <2>2, <2>3 DEF Holds, PoolInv, InPlace, OneThreadPerQueue
  <2> QED
    BY <2>1, <2>3 DEF PoolInv, OneThreadPerQueue, RunInOrder
<1> QED BY <1>1, <1>2, <1>3, PTL DEF Spec

-----------------------------------------------------------------------------
(* The end of the pool.  A thread leaves its queue when it is closed and   *)
(* empty, every queue has had its thread, and join waits for them all.     *)
Begun == {t \in Queues : serves[t] # None}

MadeInTime == \A f \in Fds : onTime[f] <= produced[f]

Drained(q) == ~m_flag[q] /\ \A f \in Fds : queueOf[f] = q => onTime[f] <= Len(finished[f])

LeftDrained == \A q \in Queues : q < m_index /\ (\A t \in Queues : serves[t] # q) => Drained(q)

EndInv == /\ PoolInv /\ MadeInTime /\ LeftDrained
          /\ m_index = Cardinality(Begun)
          /\ tg = "deleted" => \A t \in Queues : serves[t] = Ended

LEMMA QueuesCounted ==
  /\ IsFiniteSet(Queues) /\ Cardinality(Queues) = ThreadNum
  /\ \A S \in SUBSET Queues : IsFiniteSet(S) /\ Cardinality(S) \in Nat
<1>1. IsFiniteSet(Queues) /\ Cardinality(Queues) = ThreadNum
  BY NetFactoryAssumption, FS_Interval DEF Queues
<1>2. \A S \in SUBSET Queues : IsFiniteSet(S)
  BY <1>1, FS_Subset
<1> QED BY <1>1, <1>2, FS_CardinalityType

LEMMA EndMade ==
  ASSUME EndInv, PoolInv', UNCHANGED <<m_index, serves, tg, m_flag, onTime, produced>>,
         \A f \in Fds : \/ queueOf'[f] = queueOf[f] /\ Len(finished[f]) <= Len(finished'[f])
                        \/ onTime[f] = 0
  PROVE  EndInv'
<1>1. \A f \in Fds : Len(finished[f]) \in Nat /\ Len(finished'[f]) \in Nat /\ onTime[f] \in Nat
  BY LenProperties DEF EndInv, PoolInv, Types
<1>2. ASSUME NEW q \in Queues, Drained(q) PROVE Drained(q)'
  BY <1>1, <1>2 DEF Drained
<1> QED
  BY <1>2 DEF EndInv, MadeInTime, LeftDrained, Begun

LEMMA EndSocketMade ==
  ASSUME EndInv, PoolInv', NEW queue \in Queues, NewSocket(queue),
         UNCHANGED <<m_index, m_flag, serves, tg, produced, onTime, finished>>
  PROVE  EndInv'
<1>1. /\ NextFd \in Fds /\ queueOf[NextFd] = None
      /\ queueOf' = [queueOf EXCEPT ![NextFd] = queue]
  BY NextFdIsNew DEF EndInv, PoolInv, NewSocket, Sockets
<1> DEFINE fd == NextFd
<1>2. onTime[fd] = 0
  <2>1. produced[fd] = 0 /\ onTime[fd] \in Nat /\ onTime[fd] <= produced[fd]
    BY <1>1 DEF EndInv, PoolInv, NoneMissing, MadeInTime, Types
  <2> QED BY <2>1
<1>3. \A f \in Fds : Len(finished[f]) \in Nat
  BY LenProperties DEF EndInv, PoolInv, Types
<1> HIDE DEF fd
<1>4. \A f \in Fds : f # fd => queueOf'[f] = queueOf[f]
  BY <1>1 DEF fd
<1> QED BY <1>2, <1>3, <1>4, EndMade

LEMMA EndTaskProduced ==
  ASSUME EndInv, PoolInv', NEW f \in Fds, Produce(f),
         UNCHANGED <<m_index, serves, tg, queueOf, finished>>
  PROVE  EndInv'
<1>1. /\ queueOf[f] \in Queues /\ m_flag' = m_flag
      /\ produced' = [produced EXCEPT ![f] = @ + 1]
      /\ onTime' = IF m_flag[queueOf[f]] THEN [onTime EXCEPT ![f] = @ + 1] ELSE onTime
  BY DEF EndInv, PoolInv, Types, Produce, Sockets
<1>2. onTime \in [Fds -> Nat] /\ produced \in [Fds -> Nat]
  BY DEF EndInv, PoolInv, Types
<1>3. MadeInTime'
  BY <1>1, <1>2 DEF EndInv, MadeInTime
<1>4. ASSUME NEW q \in Queues, Drained(q) PROVE Drained(q)'
  BY <1>1, <1>2, <1>4 DEF Drained
<1> QED
  BY <1>3, <1>4 DEF EndInv, LeftDrained, Begun

LEMMA EndQueueClosed ==
  ASSUME EndInv, PoolInv', NEW q \in Queues, close_queue(q)
  PROVE  EndInv'
<1>1. /\ m_flag' = [m_flag EXCEPT ![q] = FALSE] /\ m_flag \in [Queues -> BOOLEAN]
      /\ UNCHANGED <<m_index, serves, tg, queueOf, produced, onTime, finished>>
  BY DEF close_queue, Stopping, threads, EndInv, PoolInv, Types
<1>2. ASSUME NEW p \in Queues, Drained(p) PROVE Drained(p)'
  BY <1>1, <1>2 DEF Drained
<1> QED
  BY <1>1, <1>2 DEF EndInv, MadeInTime, LeftDrained, Begun

LEMMA EndRun ==
  ASSUME EndInv, PoolInv', NEW t \in Queues, run(t)
  PROVE  EndInv'
<1>1. /\ serves[t] = None /\ serves' = [serves EXCEPT ![t] = m_index] /\ m_index' = m_index + 1
      /\ tg = "live"
      /\ UNCHANGED <<tg, m_flag, queueOf, produced, onTime, finished>>
  BY DEF run, NextIndex, PoolThread
<1>2. serves \in [Queues -> Nat] /\ m_index \in Nat /\ m_index = Cardinality(Begun)
  BY DEF EndInv, PoolInv, Types
<1>3. Begun \in SUBSET (Queues \ {t})
  BY <1>1 DEF Begun
<1>4. m_index < ThreadNum
  <2>1. IsFiniteSet(Queues \ {t}) /\ Cardinality(Queues \ {t}) = ThreadNum - 1
    BY QueuesCounted, FS_RemoveElement
  <2>2. Cardinality(Begun) <= Cardinality(Queues \ {t})
    BY <1>3, <2>1, FS_Subset
  <2> QED BY <1>2, <2>1, <2>2, NetFactoryAssumption
<1>5. m_index # None
  BY <1>2, <1>4, NetFactoryAssumption DEF None
<1>6. Begun' = Begun \cup {t}
  BY <1>1, <1>2, <1>5 DEF Begun
<1>7. m_index' = Cardinality(Begun')
  <2>1. IsFiniteSet(Begun) /\ t \notin Begun
    BY <1>3, QueuesCounted
  <2> QED BY <1>1, <1>2, <1>6, <2>1, FS_AddElement
<1>8. LeftDrained'
  <2> SUFFICES ASSUME NEW q \in Queues, q < m_index', \A u \in Queues : serves'[u] # q
               PROVE  Drained(q)
    BY <1>1 DEF LeftDrained, Drained
  <2>1. q # m_index
    BY <1>1, <1>2
  <2>2. q < m_index
    BY <1>1, <1>2, <2>1, Distinguished
  <2>3. \A u \in Queues : serves[u] # q
    BY <1>1, <1>2, Distinguished
  <2> QED BY <2>2, <2>3 DEF EndInv, LeftDrained
<1> QED
  BY <1>1, <1>7, <1>8 DEF EndInv, MadeInTime

LEMMA EndOfThread ==
  ASSUME EndInv, PoolInv', NEW t \in Queues, batch_run_ends(t)
  PROVE  EndInv'
<1> DEFINE mine == serves[t]
<1>1. /\ mine \in Queues /\ tasks[t] = <<>> /\ ~m_flag[mine] /\ m_tasklist[mine] = <<>>
      /\ serves' = [serves EXCEPT ![t] = Ended]
      /\ UNCHANGED <<m_index, tg, m_flag, queueOf, produced, onTime, finished>>
  BY DEF batch_run_ends, Serving, Ends, PoolThread
<1>2. serves \in [Queues -> Nat] /\ Types
  BY DEF EndInv, PoolInv, Types
<1>3. Begun' = Begun
  BY <1>1, <1>2, Distinguished DEF Begun
<1>4. Drained(mine)
  <2> SUFFICES ASSUME NEW f \in Fds, queueOf[f] = mine
               PROVE  onTime[f] <= Len(finished[f])
    BY <1>1 DEF Drained
  <2>1. /\ onTime[f] \in Nat /\ produced[f] \in Nat /\ Len(finished[f]) \in Nat
        /\ onTime[f] <= produced[f]
    BY <1>2, TasksTyped DEF EndInv, MadeInTime, Types
  <2>2. SUFFICES ASSUME produced[f] > Len(finished[f]) PROVE FALSE
    BY <2>1
  <2>3. \/ Has(m_tasklist[mine], f, produced[f])
        \/ \E u \in Queues : Has(tasks[u], f, produced[f])
    BY <2>1, <2>2 DEF EndInv, PoolInv, NoneMissing
  <2>4. ~Has(m_tasklist[mine], f, produced[f])
    BY <1>1 DEF Has
  <2>5. ASSUME NEW u \in Queues, Has(tasks[u], f, produced[f]) PROVE FALSE
    <3>1. PICK i \in 1..Len(tasks[u]) : tasks[u][i].fd = f
      BY <2>5 DEF Has
    <3>2. serves[u] = mine
      BY <3>1 DEF EndInv, PoolInv, InPlace
    <3>3. u = t
      BY <1>1, <3>2 DEF EndInv, PoolInv, OneThreadPerQueue, Serving
    <3> QED BY <1>1, <3>1, <3>3
  <2> QED BY <2>3, <2>4, <2>5
<1>5. LeftDrained'
  <2> SUFFICES ASSUME NEW q \in Queues, q < m_index, \A u \in Queues : serves'[u] # q
               PROVE  Drained(q)
    BY <1>1 DEF LeftDrained, Drained
  <2>1. \A u \in Queues : u # t => serves[u] # q
    BY <1>1, <1>2
  <2>2. CASE q = mine
    BY <1>4, <2>2
  <2>3. CASE q # mine
    BY <2>1, <2>3 DEF EndInv, LeftDrained
  <2> QED BY <2>2, <2>3
<1>6. tg' = "deleted" => \A u \in Queues : serves'[u] = Ended
  BY <1>1, <1>2 DEF EndInv
<1> QED
  BY <1>1, <1>3, <1>5, <1>6 DEF EndInv, MadeInTime

LEMMA NextEnd == ASSUME EndInv, [Next]_vars PROVE EndInv'
<1>0. PoolInv'
  BY NextPool DEF EndInv
<1>1. CASE connect
  <2>1. rand_id \in Nat /\ rand_alloc \in Queues
    BY Allocated DEF EndInv, PoolInv, Types, rand_alloc
  <2> QED BY <1>0, <1>1, <2>1, EndSocketMade DEF connect, pool, threads
<1>2. ASSUME NEW a \in Acceptors, accept(a) PROVE EndInv'
  <2>1. alloc(NextFd) \in Queues
    BY Allocated, NextFdIsNew DEF EndInv, PoolInv
  <2> QED
    BY <1>0, <1>2, <2>1, EndSocketMade DEF backlogs, accept, Handles, EpollThread, pool, threads
<1>3. ASSUME NEW f \in Fds, async_send(f) \/ socket_event(f) PROVE EndInv'
  BY <1>0, <1>3, EndTaskProduced DEF async_send, socket_event, EpollThread, threads
<1>4. ASSUME NEW t \in Queues, PoolSteps(t) PROVE EndInv'
  <2>1. CASE run(t)
    BY <1>0, <2>1, EndRun
  <2>2. CASE batch_run_ends(t)
    BY <1>0, <2>2, EndOfThread
  <2>3. CASE consume_all(t)
    <3>1. UNCHANGED <<m_index, serves, tg, m_flag, onTime, produced, queueOf, finished>>
      BY <2>3 DEF consume_all, PoolThread
    <3>2. \A f \in Fds : Len(finished[f]) \in Nat
      BY TasksTyped DEF EndInv, PoolInv
    <3> QED BY <1>0, <3>1, <3>2, EndMade
  <2>4. CASE run_task(t)
    <3> DEFINE task == Head(tasks[t])
    <3>1. /\ UNCHANGED <<m_index, serves, tg, m_flag, onTime, produced, queueOf>>
          /\ finished' = [finished EXCEPT ![task.fd] = Append(@, task.n)]
          /\ tasks[t] # <<>>
      BY <2>4 DEF run_task, PoolThread
    <3>2. task.fd \in Fds /\ task.n \in Nat
      BY <3>1, HeadIsNext, TasksTyped DEF EndInv, PoolInv
    <3> HIDE DEF task
    <3>3. \A f \in Fds : finished[f] \in Seq(Nat) /\ Len(finished[f]) \in Nat
      BY TasksTyped DEF EndInv, PoolInv
    <3>4. finished \in [Fds -> Seq(Nat)]
      BY DEF EndInv, PoolInv, Types
    <3>5. ASSUME NEW f \in Fds PROVE Len(finished[f]) <= Len(finished'[f])
      BY <3>1, <3>2, <3>3, <3>4, AppendProperties
    <3> QED BY <1>0, <3>1, <3>5, EndMade
  <2> QED BY <1>4, <2>1, <2>2, <2>3, <2>4 DEF PoolSteps
<1>5. ASSUME NEW q \in Queues, close_queue(q) PROVE EndInv'
  BY <1>0, <1>5, EndQueueClosed
<1>6. CASE start \/ join
  <2>1. /\ UNCHANGED <<m_index, serves, m_flag, onTime, produced, queueOf, finished>>
        /\ tg' = "deleted" => \A t \in Queues : serves[t] = Ended
    BY <1>6 DEF start, join, AllEnded, Stopping, pool, threads
  <2> QED
    BY <1>0, <2>1 DEF EndInv, MadeInTime, LeftDrained, Drained, Begun
<1>7. CASE \/ stop \/ stop_deletes \/ stop_epoll
           \/ interrupt_ends \/ fd_del_callback
           \/ \E a \in Acceptors : \/ listen(a) \/ client_connects(a) \/ accept_fails(a)
                                   \/ stop_closes(a) \/ take_event(a) \/ accept_ends(a)
           \/ UNCHANGED vars
  <2>1. UNCHANGED <<m_index, serves, tg, m_flag, onTime, produced, queueOf, finished>>
    BY <1>7 DEF stop, stop_deletes, stop_epoll, Stopping, interrupt_ends,
                fd_del_callback, EpollThread, listen, client_connects, accept_fails, stop_closes,
                take_event, accept_ends, Handles, vars, pool, threads
  <2> QED
    BY <1>0, <2>1 DEF EndInv, MadeInTime, LeftDrained, Drained, Begun
<1> QED
  BY <1>1, <1>2, <1>3, <1>4, <1>5, <1>6, <1>7 DEF Next, Others, Stops, EpollSteps

(* When the pool is deleted every task produced before its queue was       *)
(* closed has been run (task_queue_impl.cpp, batch_run: a thread ends when *)
(* its queue is closed and empty; task_queue_pool.cpp, run: every queue    *)
(* has a thread; net_factory.cpp, stop: join before the delete).           *)
THEOREM AllTasksRun == Spec => []NothingDropped
<1>1. Init => EndInv
  <2> SUFFICES ASSUME Init PROVE EndInv
    OBVIOUS
  <2>1. Begun = {}
    BY DEF Init, Begun
  <2>2. m_index = Cardinality(Begun)
    BY <2>1, FS_EmptySet DEF Init
  <2>3. LeftDrained
    BY Distinguished DEF Init, LeftDrained
  <2> QED
    BY <2>2, <2>3, InitPool DEF Init, EndInv, MadeInTime
<1>2. EndInv /\ [Next]_vars => EndInv'
  BY NextEnd
<1>3. EndInv => NothingDropped
  <2> SUFFICES ASSUME EndInv, tg = "deleted", NEW f \in Fds
               PROVE  Len(finished[f]) >= onTime[f]
    BY DEF NothingDropped
  <2>1. /\ Len(finished[f]) \in Nat /\ onTime[f] \in Nat /\ produced[f] \in Nat
        /\ queueOf[f] \in Queues \cup {None}
    BY TasksTyped DEF EndInv, PoolInv, Types
  <2>2. \A t \in Queues : serves[t] = Ended
    BY DEF EndInv
  <2>3. m_index = ThreadNum
    <3>1. Begun = Queues
      BY <2>2, Distinguished DEF Begun
    <3> QED BY <3>1, QueuesCounted DEF EndInv
  <2>4. CASE queueOf[f] \in Queues
    <3>1. queueOf[f] < m_index
      BY <2>3, <2>4, NetFactoryAssumption DEF Queues
    <3>2. Drained(queueOf[f])
      BY <2>2, <2>4, <3>1, Distinguished DEF EndInv, LeftDrained
    <3> QED BY <2>1, <3>2 DEF Drained
  <2>5. CASE queueOf[f] = None
    BY <2>1, <2>5 DEF EndInv, MadeInTime, PoolInv, NoneMissing
  <2> QED BY <2>1, <2>4, <2>5
<1> QED BY <1>1, <1>2, <1>3, PTL DEF Spec
=============================================================================
