------------------------------- MODULE Socket -------------------------------
(***************************************************************************)
(* One connection, socket_impl_t, its task queue and the event loop,       *)
(* epoll_impl_t, which shares its batches with other sockets.              *)
(*                                                                         *)
(* The bytes the owner gives are numbered in the order of the calls; what  *)
(* is left of a message is the interval of its numbers.  Three threads:    *)
(* the event loop, the one that runs the queue, and the owner's.  A step   *)
(* of the event loop puts one task in the queue, a step of the queue is    *)
(* one system call with what is done about its result.                     *)
(***************************************************************************)
EXTENDS Naturals, Sequences, FiniteSets

CONSTANTS MaxGiven,    \* bound: bytes the owner sends
          MaxHeard,    \* bound: bytes the peer sends
          RecvSize,    \* RECV_BUFFER_SIZE - 1, bytes one read() takes
          MaxTasks     \* bound: the owner adds no task when so many wait

ASSUME SocketAssumption == /\ MaxGiven \in Nat /\ MaxHeard \in Nat /\ MaxTasks \in Nat
                           /\ RecvSize \in Nat \ {0}

VARIABLES
  m_fd,           \* "open" or "closed" (-1)
  m_send_buffer,  \* messages not sent yet, the first perhaps in part
  tasks,          \* the task queue
  object,         \* the socket object: "alive", "leaving" (safe_delete) or "deleted"
  crashed,        \* the deleted object was used, and the process has ended
  m_error_fd_set, \* how often this socket is among the sockets in error
  interrupted,    \* the interrupt descriptor has an event
  armed,          \* the socket is on the kernel's list of ready descriptors
  batch,          \* events of the current batch that are left to handle
  peer, rcv, full, \* kernel: "open", "fin" or "reset"; bytes to read; no room to send
  given, wire, heard, told \* history: bytes given, sent and read; calls of handle_error

kernel == <<peer, rcv, full>>
loop   == <<m_error_fd_set, interrupted, armed, batch>>
vars   == <<m_fd, m_send_buffer, tasks, object, crashed, loop, kernel, given, wire, heard, told>>

Task(o) == [op |-> o]
SendTask(a, b) == [op |-> "send", from |-> a, to |-> b]

Produced(list) == tasks' = tasks \o list

(* socket_impl_t::open: the descriptor is registered, and there is room to *)
(* send, which is an event.  So is the interrupt descriptor's room, or     *)
(* another socket has just been unregistered.                              *)
Init == /\ m_fd = "open" /\ m_send_buffer = <<>> /\ tasks = <<>>
        /\ object = "alive" /\ crashed = FALSE
        /\ m_error_fd_set = 0 /\ interrupted = TRUE /\ armed = TRUE
        /\ batch = <<>>
        /\ peer = "open" /\ rcv = 0 /\ full = FALSE
        /\ given = 0 /\ wire = <<>> /\ heard = 0 /\ told = 0

-----------------------------------------------------------------------------
(* The peer and the kernel.  A change is an event of a registered socket.  *)
Noticed == armed' = (armed \/ m_fd = "open")

KernelChanges == /\ Noticed
                 /\ UNCHANGED <<m_fd, m_send_buffer, tasks, object, crashed, m_error_fd_set,
                                interrupted, batch, given, wire, heard, told>>

peer_sends == /\ peer = "open" /\ m_fd = "open"
              /\ \E n \in 1..(MaxHeard - heard - rcv) : rcv' = rcv + n
              /\ UNCHANGED <<peer, full>> /\ KernelChanges

peer_shuts_down == /\ peer = "open"
                   /\ peer' = "fin"
                   /\ UNCHANGED <<rcv, full>> /\ KernelChanges

(* What was received and not read is gone as well.                         *)
peer_resets == /\ peer # "reset"
               /\ peer' = "reset" /\ rcv' = 0 /\ full' = FALSE
               /\ KernelChanges

peer_reads == /\ full
              /\ full' = FALSE
              /\ UNCHANGED <<peer, rcv>> /\ KernelChanges

-----------------------------------------------------------------------------
(* The owner: it does not touch the socket after it was told of the break, *)
(* but for deleting it.                                                    *)
OwnerDoes(list) == /\ Produced(list)
                   /\ UNCHANGED <<m_fd, m_send_buffer, crashed, loop, kernel, wire, heard, told>>

async_send(length) == /\ told = 0
                      /\ given' = given + length
                      /\ OwnerDoes(<<SendTask(given + 1, given + length)>>)
                      /\ UNCHANGED object

close == /\ told = 0
         /\ OwnerDoes(<<Task("close")>>)
         /\ UNCHANGED <<given, object>>

safe_delete == /\ told > 0 /\ object = "alive"
               /\ object' = "leaving"
               /\ OwnerDoes(<<Task("delete")>>)
               /\ UNCHANGED given

-----------------------------------------------------------------------------
(* The thread of the task queue.                                           *)
Runs(op) == tasks # <<>> /\ Head(tasks).op = op

Done(list) == tasks' = Tail(tasks) \o list

Sockets == UNCHANGED <<object, crashed, batch, given, told>>

(* Mutant: m_fd keeps its value.                                           *)
FdStays == m_fd' = m_fd

FdGone == m_fd' = "closed"

(* Mutant: the loop is not interrupted.                                    *)
NotInterrupted == UNCHANGED interrupted

interupt_loop == interrupted' = TRUE

(* close_impl, with unregister_fd.                                         *)
close_impl == /\ Runs("close")
              /\ Done(<<>>)
              /\ IF m_fd = "open"
                   THEN /\ FdGone /\ armed' = FALSE
                        /\ m_error_fd_set' = m_error_fd_set + 1
                        /\ interupt_loop
                   ELSE UNCHANGED <<m_fd, armed, m_error_fd_set, interrupted>>
              /\ UNCHANGED <<m_send_buffer, kernel, wire, heard>> /\ Sockets

Reads == /\ UNCHANGED <<m_fd, m_send_buffer, m_error_fd_set, interrupted, armed, peer, full, wire>>
         /\ Sockets

(* A short read ends the loop ("equal EWOULDBLOCK").                       *)
EndsReading(n) == n < RecvSize

ReadNow == IF rcv < RecvSize THEN rcv ELSE RecvSize

(* One turn of the loop of handle_epoll_read_impl that reads something.    *)
read_some == LET n == ReadNow
             IN /\ Runs("read") /\ m_fd = "open" /\ rcv > 0
                /\ rcv' = rcv - n /\ heard' = heard + n
                /\ IF EndsReading(n) THEN Done(<<>>) ELSE UNCHANGED tasks
                /\ Reads

(* End of file, or an error.                                               *)
read_ends == /\ Runs("read") /\ m_fd = "open" /\ rcv = 0 /\ peer # "open"
             /\ Done(<<Task("close")>>)
             /\ UNCHANGED <<rcv, heard>> /\ Reads

(* Nothing to read, or the socket is closed.                               *)
read_nothing == /\ Runs("read") /\ (m_fd = "closed" \/ (rcv = 0 /\ peer = "open"))
                /\ Done(<<>>)
                /\ UNCHANGED <<rcv, heard>> /\ Reads

Writes == /\ UNCHANGED <<m_fd, m_error_fd_set, interrupted, armed, peer, rcv, heard>>
          /\ Sockets

(* do_send: the kernel takes the first n bytes of m, and more than none    *)
(* when it has room; having taken all it may be full as well.              *)
Taken(m) == IF full THEN {0} ELSE 1..(m.to - m.from + 1)

Left(m, n) == [from |-> m.from + n, to |-> m.to]

Sends(m, n) == /\ peer # "reset" /\ n \in Taken(m)
               /\ wire' = wire \o [i \in 1..n |-> m.from + i - 1]
               /\ full' \in {TRUE, n <= m.to - m.from}

LeftFirst(m, n) == <<Left(m, n)>> \o Tail(m_send_buffer)

(* One turn of the loop of handle_epoll_write_impl.                        *)
write_front ==
  /\ Runs("write") /\ m_fd = "open" /\ m_send_buffer # <<>>
  /\ LET m == Head(m_send_buffer)
     IN \E n \in 0..(m.to - m.from + 1) :
          /\ Sends(m, n)
          /\ IF n <= m.to - m.from
               THEN m_send_buffer' = LeftFirst(m, n) /\ Done(<<>>)
               ELSE /\ m_send_buffer' = Tail(m_send_buffer)
                    /\ IF Len(m_send_buffer) = 1 THEN Done(<<>>) ELSE UNCHANGED tasks
  /\ Writes

write_nothing == /\ Runs("write") /\ (m_fd = "closed" \/ m_send_buffer = <<>>)
                 /\ Done(<<>>)
                 /\ UNCHANGED <<m_send_buffer, full, wire>> /\ Writes

(* Mutant: a message is sent past those that wait.                         *)
PastOthers == TRUE

NobodyWaits == m_send_buffer = <<>>

send_impl ==
  /\ Runs("send") /\ m_fd = "open" /\ NobodyWaits
  /\ LET m == Left(Head(tasks), 0)
     IN \E n \in 0..(m.to - m.from + 1) :
          /\ Sends(m, n)
          /\ m_send_buffer' = IF n <= m.to - m.from THEN Append(m_send_buffer, Left(m, n))
                                                    ELSE m_send_buffer
  /\ Done(<<>>) /\ Writes

send_later == /\ Runs("send") /\ m_fd = "open" /\ ~NobodyWaits
              /\ m_send_buffer' = Append(m_send_buffer, Left(Head(tasks), 0))
              /\ Done(<<>>)
              /\ UNCHANGED <<full, wire>> /\ Writes

send_dropped == /\ Runs("send") /\ m_fd = "closed"
                /\ Done(<<>>)
                /\ UNCHANGED <<m_send_buffer, full, wire>> /\ Writes

(* do_send meets an error and closes, and its caller closes again.         *)
send_fails == /\ m_fd = "open" /\ peer = "reset"
              /\ \/ Runs("write") /\ m_send_buffer # <<>>
                 \/ Runs("send") /\ NobodyWaits
              /\ Done(<<Task("close"), Task("close")>>)
              /\ UNCHANGED <<m_send_buffer, full, wire>> /\ Writes

(* The controller tells the owner.                                         *)
handle_error == /\ Runs("error")
                /\ told' = told + 1
                /\ Done(<<>>)
                /\ UNCHANGED <<m_fd, m_send_buffer, object, crashed, loop, kernel, given, wire, heard>>

deleted == /\ Runs("delete")
           /\ object' = "deleted"
           /\ Done(<<>>)
           /\ UNCHANGED <<m_fd, m_send_buffer, crashed, loop, kernel, given, wire, heard, told>>

RunTask == \/ close_impl \/ read_some \/ read_ends \/ read_nothing
           \/ write_front \/ write_nothing \/ send_impl \/ send_later \/ send_dropped \/ send_fails
           \/ handle_error \/ deleted

-----------------------------------------------------------------------------
(* The event loop.  Mutant: EPOLLIN is missing.                            *)
RegisteredToWrite == {"write", "close"}

(* EPOLLIN, EPOLLOUT, and EPOLLERR or EPOLLHUP, edge-triggered.            *)
Registered == {"read", "write", "close"}

(* What epoll_wait says of a ready socket is how it is at that moment.     *)
Events == {e \in Registered :
             \/ e = "read" /\ (rcv > 0 \/ peer # "open")
             \/ e = "write" /\ ~full
             \/ e = "close" /\ peer = "reset"}

Socket(events) == [of |-> "socket", events |-> events]
Interrupt == [of |-> "interrupt", events |-> {}]

(* A batch may hold the interrupt and the socket in any order.             *)
epoll_wait ==
  /\ batch = <<>>
  /\ LET ready == IF armed /\ Events # {} THEN {<<Socket(Events)>>} ELSE {<<>>}
         intr  == IF interrupted THEN {<<Interrupt>>} ELSE {<<>>}
     IN \E s \in ready, i \in intr : s \o i # <<>> /\ batch' \in {s \o i, i \o s}
  /\ armed' = FALSE /\ interrupted' = FALSE
  /\ UNCHANGED <<m_fd, m_send_buffer, tasks, object, crashed, m_error_fd_set, kernel,
                 given, wire, heard, told>>

(* The interrupt: every socket in error is told.  (A socket in error is    *)
(* told before its owner deletes it.)                                      *)
fd_del_callback == /\ batch # <<>> /\ Head(batch) = Interrupt
                   /\ Produced([i \in 1..m_error_fd_set |-> Task("error")])
                   /\ m_error_fd_set' = 0
                   /\ batch' = Tail(batch)
                   /\ UNCHANGED <<m_fd, m_send_buffer, object, crashed, interrupted, armed,
                                  kernel, given, wire, heard, told>>

(* handle_epoll_read, handle_epoll_write and close, in this order.         *)
First(events) == CASE "read" \in events -> "read"
                   [] "read" \notin events /\ "write" \in events -> "write"
                   [] OTHER -> "close"

(* Mutant: "else if" for the second test.                                  *)
NoMore(events) == {}

Others(events) == events \ {First(events)}

Handled == LET left == Others(Head(batch).events)
           IN /\ batch' = IF left = {} THEN Tail(batch) ELSE <<Socket(left)>> \o Tail(batch)
              /\ UNCHANGED <<m_fd, m_send_buffer, object, m_error_fd_set, interrupted, armed,
                             kernel, given, wire, heard, told>>

handle_event == /\ batch # <<>> /\ Head(batch) # Interrupt /\ object # "deleted"
                /\ Produced(<<Task(First(Head(batch).events))>>)
                /\ UNCHANGED crashed /\ Handled

(* Undefined: the object is gone.  The process ends, or nothing happens.   *)
handle_event_of_deleted == /\ batch # <<>> /\ Head(batch) # Interrupt /\ object = "deleted"
                           /\ crashed' \in BOOLEAN
                           /\ UNCHANGED tasks /\ Handled

EventLoop == epoll_wait \/ fd_del_callback \/ handle_event \/ handle_event_of_deleted

Owner == \/ /\ Len(tasks) < MaxTasks
            /\ close \/ \E length \in 1..(MaxGiven - given) : async_send(length)
         \/ safe_delete

Peer == peer_sends \/ peer_shuts_down \/ peer_resets \/ peer_reads

(* Undefined: a task behind the one that deletes the object runs on it.    *)
(* The process ends, or it is as if the socket were only closed (RunTask). *)
task_of_deleted == /\ tasks # <<>> /\ object = "deleted"
                   /\ crashed' = TRUE
                   /\ UNCHANGED <<m_fd, m_send_buffer, tasks, object, loop, kernel,
                                  given, wire, heard, told>>

(* A process that has crashed does nothing more.                           *)
Next == ~crashed /\ (Peer \/ Owner \/ RunTask \/ task_of_deleted \/ EventLoop)

Spec == Init /\ [][Next]_vars

(* The two threads of the library go on; owner and peer need not.          *)
FairSpec == Spec /\ WF_vars(~crashed /\ RunTask) /\ WF_vars(~crashed /\ EventLoop)
-----------------------------------------------------------------------------
(* The state of the connection has the types of the code.                  *)
TypeOK ==
  /\ m_fd \in {"open", "closed"} /\ object \in {"alive", "leaving", "deleted"}
  /\ crashed \in BOOLEAN /\ interrupted \in BOOLEAN /\ armed \in BOOLEAN /\ full \in BOOLEAN
  /\ peer \in {"open", "fin", "reset"} /\ rcv \in 0..MaxHeard
  /\ m_error_fd_set \in Nat
  /\ given \in 0..MaxGiven /\ heard \in 0..MaxHeard /\ told \in Nat

(* The wire carries the bytes in the order in which they were given,       *)
(* whatever the kernel takes at a time; and a byte that has not been sent  *)
(* waits in the buffer or in the queue, and one that has been, does not.   *)
Waits(b) ==
  \/ \E i \in DOMAIN m_send_buffer : b \in m_send_buffer[i].from..m_send_buffer[i].to
  \/ \E i \in DOMAIN tasks : tasks[i].op = "send" /\ b \in tasks[i].from..tasks[i].to

BytesInOrder ==
  /\ \A i \in DOMAIN wire : wire[i] = i
  /\ m_fd = "open" /\ peer # "reset" => \A b \in 1..given : Waits(b) <=> b > Len(wire)

(* The socket is what its owner takes it for: nothing leaves or is heard   *)
(* once it is down, and the owner is told once.                            *)
Link == INSTANCE ByteLink WITH up <- m_fd = "open", gone <- Len(wire)

ImplementsLink == Link!Spec

(* A break that the kernel reports, or a close, is told to the owner,      *)
(* though the interrupt may come while the loop handles an earlier batch.  *)
BreakIsTold == (peer = "reset" \/ m_fd = "closed") ~> (told > 0 \/ crashed)

(* Edge-triggered events come once: as long as there is something to read, *)
(* a task that will read it is in the queue or on its way there; and as    *)
(* long as messages wait and there is room, one that will send them.       *)
Coming(event) == \/ armed
                 \/ \E i \in DOMAIN batch : event \in batch[i].events
                 \/ \E i \in DOMAIN tasks : tasks[i].op = event

AllWillBeRead == rcv > 0 /\ m_fd = "open" => Coming("read")

AllWillBeSent == m_send_buffer # <<>> /\ ~full /\ m_fd = "open" /\ peer # "reset" => Coming("write")

NoEventLost == AllWillBeRead /\ AllWillBeSent

(* A peer that has shut down is noticed, and the owner told.               *)
BreakTold == peer = "fin" ~> (told > 0 \/ crashed)
=============================================================================
