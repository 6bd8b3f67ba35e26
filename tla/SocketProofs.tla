---------------------------- MODULE SocketProofs ----------------------------
(***************************************************************************)
(* Theorems about Socket, for any number of bytes, any size of the buffer  *)
(* and any length of the queue.                                            *)
(***************************************************************************)
EXTENDS Socket, SequenceTheorems, TLAPS

-----------------------------------------------------------------------------
(* The inductive invariant.                                                *)
Messages == [from : Nat, to : Nat]

Plain == [op : {"read", "write", "close", "error", "delete"}]

Tasks == Plain \cup [op : {"send"}, from : Nat, to : Nat]

AllEvents == {"read", "write", "close"}

Happened == [of : {"socket", "interrupt"}, events : SUBSET AllEvents]

Types == /\ TypeOK /\ rcv + heard <= MaxHeard
         /\ m_send_buffer \in Seq(Messages) /\ tasks \in Seq(Tasks)
         /\ batch \in Seq(Happened) /\ wire \in Seq(Nat)

(* A socket is closed before it gets into the set of those in error, which *)
(* becomes a task, which becomes the one call of handle_error, after which *)
(* the owner may delete it.                                                *)
Telling(i) == tasks[i].op = "error"

ToldOnce ==
  /\ m_error_fd_set \in {0, 1} /\ told \in {0, 1}
  /\ m_error_fd_set = 1 => told = 0
  /\ m_error_fd_set = 1 \/ told = 1 => \A i \in DOMAIN tasks : ~Telling(i)
  /\ \A i, j \in DOMAIN tasks : Telling(i) /\ Telling(j) => i = j

ClosedFirst ==
  m_fd = "open" =>
    /\ m_error_fd_set = 0 /\ told = 0 /\ object # "deleted"
    /\ \A i \in DOMAIN tasks : tasks[i].op \notin {"error", "delete"}

(* The messages that wait, in the buffer and in the queue, are intervals   *)
(* of bytes given and not sent, each behind those before it.               *)
Unsent(m) == Len(wire) < m.from /\ m.from <= m.to /\ m.to <= given

Sending(i) == tasks[i].op = "send"

InOrder ==
  /\ \A i \in DOMAIN m_send_buffer : Unsent(m_send_buffer[i])
  /\ \A i \in DOMAIN tasks : Sending(i) => Unsent(tasks[i])
  /\ \A i, j \in DOMAIN m_send_buffer : i < j => m_send_buffer[i].to < m_send_buffer[j].from
  /\ \A i \in DOMAIN m_send_buffer, j \in DOMAIN tasks :
       Sending(j) => m_send_buffer[i].to < tasks[j].from
  /\ \A i, j \in DOMAIN tasks : i < j /\ Sending(i) /\ Sending(j) => tasks[i].to < tasks[j].from

(* None is missing.                                                        *)
AllWait == \A b \in (Len(wire) + 1)..given : Waits(b)

Ordered == /\ \A i \in DOMAIN wire : wire[i] = i
           /\ Len(wire) <= given
           /\ m_fd = "open" /\ peer # "reset" => InOrder /\ AllWait

Inv == Types /\ ToldOnce /\ ClosedFirst /\ NoEventLost /\ Ordered

-----------------------------------------------------------------------------
(* What becomes of the queue when a task is done, and when some are put in.*)
LEMMA DoneIs ==
  ASSUME tasks \in Seq(Tasks), tasks # <<>>, NEW list \in Seq(Tasks), Done(list)
  PROVE  /\ tasks' \in Seq(Tasks)
         /\ Len(tasks) \in Nat \ {0} /\ Len(list) \in Nat
         /\ DOMAIN tasks = 1..Len(tasks)
         /\ DOMAIN tasks' = 1..(Len(tasks) - 1 + Len(list))
         /\ Head(tasks) = tasks[1]
         /\ \A i \in 1..(Len(tasks) - 1) : tasks'[i] = tasks[i + 1]
         /\ \A i \in 1..Len(list) : tasks'[Len(tasks) - 1 + i] = list[i]
<1>1. /\ Tail(tasks) \in Seq(Tasks) /\ Len(Tail(tasks)) = Len(tasks) - 1
      /\ \A i \in 1..Len(Tail(tasks)) : Tail(tasks)[i] = tasks[i + 1]
  BY HeadTailProperties
<1>2. Len(tasks) \in Nat \ {0} /\ DOMAIN tasks = 1..Len(tasks) /\ Len(list) \in Nat
  BY EmptySeq, LenProperties
<1>3. /\ tasks' \in Seq(Tasks) /\ Len(tasks') = Len(tasks) - 1 + Len(list)
      /\ \A i \in 1..(Len(tasks) - 1 + Len(list)) :
           tasks'[i] = IF i <= Len(tasks) - 1 THEN Tail(tasks)[i] ELSE list[i - (Len(tasks) - 1)]
  BY <1>1, ConcatProperties DEF Done
<1>4. DOMAIN tasks' = 1..(Len(tasks) - 1 + Len(list))
  BY <1>3, LenProperties
<1>5. \A i \in 1..(Len(tasks) - 1) : tasks'[i] = tasks[i + 1]
  BY <1>1, <1>2, <1>3
<1>6. \A i \in 1..Len(list) : tasks'[Len(tasks) - 1 + i] = list[i]
  <2> TAKE i \in 1..Len(list)
  <2>1. Len(tasks) - 1 + i \in 1..(Len(tasks) - 1 + Len(list))
    BY <1>2
  <2>2. ~(Len(tasks) - 1 + i <= Len(tasks) - 1) /\ Len(tasks) - 1 + i - (Len(tasks) - 1) = i
    BY <1>2
  <2> QED BY <1>3, <2>1, <2>2
<1>7. Head(tasks) = tasks[1]
  OBVIOUS
<1> QED BY <1>2, <1>3, <1>4, <1>5, <1>6, <1>7

LEMMA ProducedIs ==
  ASSUME tasks \in Seq(Tasks), NEW list \in Seq(Tasks), Produced(list)
  PROVE  /\ tasks' \in Seq(Tasks)
         /\ Len(tasks) \in Nat /\ Len(list) \in Nat
         /\ DOMAIN tasks = 1..Len(tasks)
         /\ DOMAIN tasks' = 1..(Len(tasks) + Len(list))
         /\ \A i \in 1..Len(tasks) : tasks'[i] = tasks[i]
         /\ \A i \in 1..Len(list) : tasks'[Len(tasks) + i] = list[i]
<1>1. Len(tasks) \in Nat /\ DOMAIN tasks = 1..Len(tasks) /\ Len(list) \in Nat
  BY LenProperties
<1>2. /\ tasks' \in Seq(Tasks) /\ Len(tasks') = Len(tasks) + Len(list)
      /\ \A i \in 1..(Len(tasks) + Len(list)) :
           tasks'[i] = IF i <= Len(tasks) THEN tasks[i] ELSE list[i - Len(tasks)]
  BY ConcatProperties DEF Produced
<1>3. DOMAIN tasks' = 1..(Len(tasks) + Len(list))
  BY <1>2, LenProperties
<1>4. \A i \in 1..Len(tasks) : tasks'[i] = tasks[i]
  BY <1>1, <1>2
<1>5. \A i \in 1..Len(list) : tasks'[Len(tasks) + i] = list[i]
  <2> TAKE i \in 1..Len(list)
  <2>1. /\ Len(tasks) + i \in 1..(Len(tasks) + Len(list)) /\ ~(Len(tasks) + i <= Len(tasks))
        /\ Len(tasks) + i - Len(tasks) = i
    BY <1>1
  <2> QED BY <1>2, <2>1
<1> QED BY <1>1, <1>2, <1>3, <1>4, <1>5

(* The lists of tasks that steps put in the queue.                         *)
LEMMA ShortLists ==
  /\ <<>> \in Seq(Tasks) /\ Len(<<>>) = 0
  /\ \A t \in Tasks : /\ <<t>> \in Seq(Tasks) /\ Len(<<t>>) = 1 /\ <<t>>[1] = t
                      /\ <<t, t>> \in Seq(Tasks) /\ Len(<<t, t>>) = 2
                      /\ <<t, t>>[1] = t /\ <<t, t>>[2] = t
  OBVIOUS

LEMMA PlainTasks ==
  /\ \A o \in {"read", "write", "close", "error", "delete"} :
       Task(o) \in Tasks /\ Task(o).op = o
  /\ \A a, b \in Nat : /\ SendTask(a, b) \in Tasks /\ SendTask(a, b).op = "send"
                       /\ SendTask(a, b).from = a /\ SendTask(a, b).to = b
  BY DEF Task, SendTask, Tasks, Plain

LEMMA SendTasks ==
  ASSUME NEW t \in Tasks, t.op = "send"
  PROVE  t \in [op : {"send"}, from : Nat, to : Nat]
  BY DEF Tasks, Plain

-----------------------------------------------------------------------------
(* Types.                                                                  *)
LEMMA RunTypes ==
  ASSUME Types, NEW list \in Seq(Tasks), tasks # <<>>, Done(list)
  PROVE  tasks' \in Seq(Tasks) /\ tasks[1] \in Tasks /\ Head(tasks) = tasks[1]
BY DoneIs, ElementOfSeq DEF Types

LEMMA SendsTypes ==
  ASSUME Types, NEW m, m.from \in Nat, m.to \in Nat, m.from <= m.to,
         NEW n \in 0..(m.to - m.from + 1), Sends(m, n)
  PROVE  /\ wire' \in Seq(Nat) /\ Len(wire') = Len(wire) + n /\ Len(wire) \in Nat
         /\ \A i \in 1..Len(wire) : wire'[i] = wire[i]
         /\ \A i \in 1..n : wire'[Len(wire) + i] = m.from + i - 1
         /\ full' \in BOOLEAN
<1> DEFINE sent == [i \in 1..n |-> m.from + i - 1]
<1>1. n \in Nat /\ sent \in Seq(Nat) /\ Len(sent) = n
  <2>1. n \in Nat
    OBVIOUS
  <2>2. \A i \in 1..n : m.from + i - 1 \in Nat
    BY <2>1
  <2>3. sent \in Seq(Nat)
    <3>1. sent \in [1..n -> Nat]
      BY <2>2
    <3> QED BY <2>1, <3>1, SeqDef
  <2>4. Len(sent) = n
    BY <2>1
  <2> QED BY <2>1, <2>3, <2>4
<1>2. Len(wire) \in Nat /\ wire \in Seq(Nat)
  BY LenProperties DEF Types
<1>3. wire' = wire \o sent
  BY DEF Sends
<1> HIDE DEF sent
<1>4. /\ wire' \in Seq(Nat) /\ Len(wire') = Len(wire) + n
      /\ \A i \in 1..(Len(wire) + n) :
           wire'[i] = IF i <= Len(wire) THEN wire[i] ELSE sent[i - Len(wire)]
  BY <1>1, <1>2, <1>3, ConcatProperties
<1>5. \A i \in 1..Len(wire) : wire'[i] = wire[i]
  BY <1>1, <1>2, <1>4
<1>6. \A i \in 1..n : wire'[Len(wire) + i] = sent[i]
  <2> TAKE i \in 1..n
  <2>1. /\ Len(wire) + i \in 1..(Len(wire) + n) /\ ~(Len(wire) + i <= Len(wire))
        /\ Len(wire) + i - Len(wire) = i
    BY <1>1, <1>2
  <2> QED BY <1>4, <2>1
<1>7. full' \in BOOLEAN
  <2>1. (n <= m.to - m.from) \in BOOLEAN
    OBVIOUS
  <2>2. full' = TRUE \/ full' = (n <= m.to - m.from)
    BY Zenon DEF Sends
  <2> QED BY <2>1, <2>2, Zenon
<1> QED BY <1>2, <1>4, <1>5, <1>6, <1>7 DEF sent

(* What is left of a message is one, and so is the list it goes back to.   *)
LEMMA LeftTypes ==
  ASSUME NEW m, m.from \in Nat, m.to \in Nat, m.from <= m.to, NEW n \in 0..(m.to - m.from)
  PROVE  /\ Left(m, n) \in Messages /\ Left(m, n).from = m.from + n /\ Left(m, n).to = m.to
         /\ Left(m, n).from <= Left(m, n).to
  BY DEF Left, Messages

LEMMA BufferAppended ==
  ASSUME m_send_buffer \in Seq(Messages), NEW m \in Messages,
         m_send_buffer' = Append(m_send_buffer, m)
  PROVE  /\ m_send_buffer' \in Seq(Messages) /\ Len(m_send_buffer) \in Nat
         /\ m_send_buffer' # <<>>
         /\ DOMAIN m_send_buffer = 1..Len(m_send_buffer)
         /\ DOMAIN m_send_buffer' = 1..(Len(m_send_buffer) + 1)
         /\ \A i \in 1..Len(m_send_buffer) : m_send_buffer'[i] = m_send_buffer[i]
         /\ m_send_buffer'[Len(m_send_buffer) + 1] = m
  BY AppendProperties, LenProperties

LEMMA TailIs ==
  ASSUME NEW S, NEW s \in Seq(S), s # <<>>
  PROVE  /\ Tail(s) \in Seq(S) /\ Len(s) \in Nat \ {0} /\ DOMAIN s = 1..Len(s)
         /\ Len(Tail(s)) = Len(s) - 1 /\ DOMAIN Tail(s) = 1..(Len(s) - 1)
         /\ \A i \in 1..(Len(s) - 1) : Tail(s)[i] = s[i + 1]
         /\ Head(s) = s[1] /\ s[1] \in S
<1>1. /\ Tail(s) \in Seq(S) /\ Len(Tail(s)) = Len(s) - 1
      /\ \A i \in 1..Len(Tail(s)) : Tail(s)[i] = s[i + 1]
  BY HeadTailProperties
<1>2. Len(s) \in Nat \ {0} /\ DOMAIN s = 1..Len(s) /\ DOMAIN Tail(s) = 1..Len(Tail(s))
  BY <1>1, EmptySeq, LenProperties
<1>3. s[1] \in S
  BY <1>2, ElementOfSeq
<1>4. Head(s) = s[1]
  OBVIOUS
<1> QED BY <1>1, <1>2, <1>3, <1>4

(* The first element is replaced.                                          *)
LEMMA FrontIs ==
  ASSUME NEW S, NEW s \in Seq(S), s # <<>>, NEW m \in S, NEW r, r = <<m>> \o Tail(s)
  PROVE  /\ r \in Seq(S) /\ DOMAIN r = 1..Len(s) /\ r[1] = m
         /\ \A i \in 2..Len(s) : r[i] = s[i]
<1>1. <<m>> \in Seq(S) /\ Len(<<m>>) = 1 /\ <<m>>[1] = m
  OBVIOUS
<1>2. /\ r \in Seq(S) /\ Len(r) = 1 + Len(Tail(s))
      /\ \A i \in 1..(1 + Len(Tail(s))) : r[i] = IF i <= 1 THEN <<m>>[i] ELSE Tail(s)[i - 1]
  BY <1>1, TailIs, ConcatProperties
<1>3. DOMAIN r = 1..Len(s)
  BY <1>2, TailIs, LenProperties
<1>4. r[1] = m
  BY <1>1, <1>2, TailIs
<1>5. \A i \in 2..Len(s) : r[i] = s[i]
  <2> TAKE i \in 2..Len(s)
  <2>1. i - 1 \in 1..(Len(s) - 1) /\ ~(i <= 1) /\ i \in 1..(1 + Len(Tail(s))) /\ (i - 1) + 1 = i
    BY TailIs
  <2> QED BY <1>2, <2>1, TailIs
<1> QED BY <1>2, <1>3, <1>4, <1>5

(* The message that is sent next, from the queue or from the buffer.       *)
LEMMA SendingNow ==
  ASSUME Types, Ordered, Runs("send"), m_fd = "open", peer # "reset"
  PROVE  /\ Head(tasks) = tasks[1] /\ 1 \in DOMAIN tasks /\ tasks[1].op = "send"
         /\ tasks[1].from \in Nat /\ tasks[1].to \in Nat /\ Unsent(tasks[1])
         /\ Left(tasks[1], 0) \in Messages
         /\ Left(tasks[1], 0).from = tasks[1].from /\ Left(tasks[1], 0).to = tasks[1].to
<1>1. Len(tasks) \in Nat \ {0} /\ DOMAIN tasks = 1..Len(tasks)
  BY EmptySeq, LenProperties DEF Types, Runs
<1>2. Head(tasks) = tasks[1] /\ 1 \in DOMAIN tasks /\ tasks[1] \in Tasks
  BY <1>1, ElementOfSeq DEF Types
<1>3. tasks[1].op = "send" /\ tasks[1].from \in Nat /\ tasks[1].to \in Nat
  BY <1>2, SendTasks DEF Runs
<1>4. Unsent(tasks[1])
  BY <1>2, <1>3 DEF Ordered, InOrder, Sending
<1>5. /\ Left(tasks[1], 0) \in Messages
      /\ Left(tasks[1], 0).from = tasks[1].from /\ Left(tasks[1], 0).to = tasks[1].to
  BY <1>3 DEF Left, Messages
<1> QED BY <1>2, <1>3, <1>4, <1>5

LEMMA WritingNow ==
  ASSUME Types, Ordered, m_send_buffer # <<>>, m_fd = "open", peer # "reset"
  PROVE  /\ Head(m_send_buffer) = m_send_buffer[1] /\ 1 \in DOMAIN m_send_buffer
         /\ m_send_buffer[1].from \in Nat /\ m_send_buffer[1].to \in Nat
         /\ Unsent(m_send_buffer[1])
<1>1. /\ Head(m_send_buffer) = m_send_buffer[1] /\ 1 \in DOMAIN m_send_buffer
      /\ m_send_buffer[1] \in Messages
  BY TailIs DEF Types
<1> QED BY <1>1 DEF Ordered, InOrder, Messages

LEMMA PeerTypes == ASSUME Types, Peer PROVE Types'
<1>1. CASE peer_sends
  BY <1>1, SocketAssumption DEF peer_sends, KernelChanges, Noticed, Types, TypeOK
<1>2. CASE peer_shuts_down
  BY <1>2 DEF peer_shuts_down, KernelChanges, Noticed, Types, TypeOK
<1>3. CASE peer_resets
  <2>1. rcv' \in 0..MaxHeard /\ rcv' + heard' <= MaxHeard
    BY <1>3, SocketAssumption DEF peer_resets, KernelChanges, Types, TypeOK
  <2> QED BY <1>3, <2>1 DEF peer_resets, KernelChanges, Noticed, Types, TypeOK
<1>4. CASE peer_reads
  BY <1>4 DEF peer_reads, KernelChanges, Noticed, Types, TypeOK
<1> QED BY <1>1, <1>2, <1>3, <1>4 DEF Peer

LEMMA OwnerTypes == ASSUME Types, Owner PROVE Types'
<1>1. ASSUME NEW length \in 1..(MaxGiven - given), async_send(length)
      PROVE  Types'
  <2>1. given + 1 \in Nat /\ given + length \in 0..MaxGiven
    BY <1>1, SocketAssumption DEF Types, TypeOK
  <2>2. <<SendTask(given + 1, given + length)>> \in Seq(Tasks)
    BY <2>1, PlainTasks, ShortLists, SocketAssumption
  <2>3. tasks' \in Seq(Tasks)
    BY <1>1, <2>2, ProducedIs DEF Types, async_send, OwnerDoes
  <2> QED BY <1>1, <2>1, <2>3 DEF async_send, OwnerDoes, loop, kernel, Types, TypeOK
<1>2. ASSUME NEW o \in {"close", "delete"}, Produced(<<Task(o)>>)
      PROVE  tasks' \in Seq(Tasks) \/ ~Types
  BY <1>2, PlainTasks, ShortLists, ProducedIs DEF Types
<1>3. CASE close
  BY <1>2, <1>3 DEF close, OwnerDoes, loop, kernel, Types, TypeOK
<1>4. CASE safe_delete
  BY <1>2, <1>4 DEF safe_delete, OwnerDoes, loop, kernel, Types, TypeOK
<1> QED BY <1>1, <1>3, <1>4 DEF Owner

(* The lists that a task leaves behind: its own followers.                 *)
Followers == {<<>>, <<Task("close")>>, <<Task("close"), Task("close")>>}

LEMMA FollowersTyped == Followers \subseteq Seq(Tasks)
  BY PlainTasks, ShortLists DEF Followers

LEMMA RunTaskQueue ==
  ASSUME Types, RunTask
  PROVE  \/ tasks' = tasks /\ tasks # <<>>
         \/ \E list \in Followers : Done(list) /\ tasks # <<>>
<1>1. /\ <<>> \in Followers /\ <<Task("close")>> \in Followers
      /\ <<Task("close"), Task("close")>> \in Followers
  BY DEF Followers
<1>2. tasks # <<>>
  BY DEF RunTask, close_impl, read_some, read_ends, read_nothing, write_front, write_nothing,
         send_impl, send_later, send_dropped, send_fails, handle_error, deleted, Runs
<1>3. CASE close_impl \/ read_nothing \/ write_nothing \/ send_impl \/ send_later
             \/ send_dropped \/ handle_error \/ deleted
  BY <1>1, <1>2, <1>3 DEF close_impl, read_nothing, write_nothing, send_impl, send_later,
                          send_dropped, handle_error, deleted
<1>4. CASE read_some
  BY <1>1, <1>2, <1>4 DEF read_some
<1>5. CASE read_ends \/ send_fails
  BY <1>1, <1>2, <1>5 DEF read_ends, send_fails
<1>6. CASE write_front
  BY <1>1, <1>2, <1>6 DEF write_front
<1> QED BY <1>3, <1>4, <1>5, <1>6 DEF RunTask

LEMMA RunTaskTypes == ASSUME Types, Ordered, RunTask PROVE Types'
<1>1. tasks' \in Seq(Tasks)
  BY RunTaskQueue, FollowersTyped, DoneIs DEF Types
<1>2. CASE close_impl
  <2>1. m_error_fd_set' \in Nat
    BY <1>2 DEF close_impl, Types, TypeOK
  <2>2. m_fd' \in {"open", "closed"} /\ armed' \in BOOLEAN /\ interrupted' \in BOOLEAN
    BY <1>2 DEF close_impl, FdGone, interupt_loop, Types, TypeOK
  <2> QED BY <1>1, <1>2, <2>1, <2>2 DEF close_impl, Sockets, kernel, Types, TypeOK
<1>3. CASE read_some
  BY <1>1, <1>3, SocketAssumption DEF read_some, ReadNow, Reads, Sockets, Types, TypeOK
<1>4. CASE read_ends \/ read_nothing
  BY <1>1, <1>4 DEF read_ends, read_nothing, Reads, Sockets, Types, TypeOK
<1>5. CASE write_front
  <2> DEFINE m == Head(m_send_buffer)
  <2>1. PICK n \in 0..(m.to - m.from + 1) :
          /\ Sends(m, n)
          /\ IF n <= m.to - m.from THEN m_send_buffer' = LeftFirst(m, n)
                                   ELSE m_send_buffer' = Tail(m_send_buffer)
    BY <1>5 DEF write_front
  <2>2. /\ m_send_buffer # <<>> /\ m.from \in Nat /\ m.to \in Nat /\ m.from <= m.to
    BY <1>5, <2>1, WritingNow DEF write_front, Sends, Unsent
  <2>3. wire' \in Seq(Nat) /\ full' \in BOOLEAN
    <3> HIDE DEF m
    <3> QED BY <2>1, <2>2, SendsTypes
  <2>4. m_send_buffer' \in Seq(Messages)
    <3> HIDE DEF m
    <3>1. CASE n <= m.to - m.from
      <4>1. n \in 0..(m.to - m.from)
        BY <2>1, <2>2, <3>1
      <4>2. Left(m, n) \in Messages
        BY <2>2, <4>1, LeftTypes
      <4>3. m_send_buffer' = <<Left(m, n)>> \o Tail(m_send_buffer)
        BY <2>1, <3>1 DEF LeftFirst
      <4>4. m_send_buffer \in Seq(Messages)
        BY DEF Types
      <4> QED BY <2>2, <4>2, <4>3, <4>4, FrontIs
    <3>2. CASE ~(n <= m.to - m.from)
      <4>1. m_send_buffer' = Tail(m_send_buffer) /\ m_send_buffer \in Seq(Messages)
        BY <2>1, <3>2 DEF Types
      <4> QED BY <2>2, <4>1, TailIs
    <3> QED BY <3>1, <3>2
  <2> QED BY <1>1, <1>5, <2>3, <2>4 DEF write_front, Writes, Sockets, Types, TypeOK
<1>6. CASE send_impl
  <2> DEFINE m == Left(Head(tasks), 0)
  <2>1. PICK n \in 0..(m.to - m.from + 1) :
          /\ Sends(m, n)
          /\ m_send_buffer' = IF n <= m.to - m.from THEN Append(m_send_buffer, Left(m, n))
                                                    ELSE m_send_buffer
    BY <1>6 DEF send_impl
  <2>2. m.from \in Nat /\ m.to \in Nat /\ m.from <= m.to
    BY <1>6, <2>1, SendingNow DEF send_impl, Sends, Unsent
  <2> HIDE DEF m
  <2>3. wire' \in Seq(Nat) /\ full' \in BOOLEAN
    BY <2>1, <2>2, SendsTypes
  <2>4. m_send_buffer' \in Seq(Messages)
    <3>1. CASE n <= m.to - m.from
      <4>1. n \in 0..(m.to - m.from)
        BY <2>1, <2>2, <3>1
      <4> QED BY <2>1, <2>2, <3>1, <4>1, LeftTypes, BufferAppended DEF Types
    <3>2. CASE ~(n <= m.to - m.from)
      BY <2>1, <3>2 DEF Types
    <3> QED BY <3>1, <3>2
  <2> QED BY <1>1, <1>6, <2>3, <2>4 DEF send_impl, Writes, Sockets, Types, TypeOK
<1>7. CASE send_later
  <2>1. tasks # <<>> /\ Head(tasks).op = "send"
    BY <1>7 DEF send_later, Runs
  <2>2. tasks[1] \in Tasks /\ Head(tasks) = tasks[1]
    <3>1. Len(tasks) \in Nat \ {0}
      BY <2>1, EmptySeq DEF Types
    <3> QED BY <3>1, ElementOfSeq DEF Types
  <2>3. Left(Head(tasks), 0) \in Messages
    BY <2>1, <2>2, SendTasks DEF Left, Messages
  <2>4. m_send_buffer' \in Seq(Messages)
    BY <1>7, <2>3, BufferAppended DEF send_later, Types
  <2> QED BY <1>1, <1>7, <2>4 DEF send_later, Writes, Sockets, Types, TypeOK
<1>8. CASE write_nothing \/ send_dropped \/ send_fails
  <2>1. CASE write_nothing
    BY <1>1, <2>1 DEF write_nothing, Writes, Sockets, Types, TypeOK
  <2>2. CASE send_dropped
    BY <1>1, <2>2 DEF send_dropped, Writes, Sockets, Types, TypeOK
  <2>3. CASE send_fails
    BY <1>1, <2>3 DEF send_fails, Writes, Sockets, Types, TypeOK
  <2> QED BY <1>8, <2>1, <2>2, <2>3
<1>9. CASE handle_error \/ deleted
  <2>1. CASE handle_error
    BY <1>1, <2>1 DEF handle_error, loop, kernel, Types, TypeOK
  <2>2. CASE deleted
    BY <1>1, <2>2 DEF deleted, loop, kernel, Types, TypeOK
  <2> QED BY <1>9, <2>1, <2>2
<1> QED BY <1>2, <1>3, <1>4, <1>5, <1>6, <1>7, <1>8, <1>9 DEF RunTask

LEMMA EventsTyped ==
  /\ Events \in SUBSET AllEvents /\ Interrupt \in Happened /\ Socket(Events) \in Happened
  /\ Socket(Events).events = Events /\ Interrupt.events = {}
  BY DEF Events, Registered, AllEvents, Happened, Interrupt, Socket

(* A batch has the events of the socket if it is ready, in either order    *)
(* with the interrupt.                                                     *)
LEMMA NewBatch ==
  ASSUME epoll_wait
  PROVE  /\ batch' \in Seq(Happened)
         /\ armed /\ Events # {} => \E i \in DOMAIN batch' : batch'[i].events = Events
<1> DEFINE ready == IF armed /\ Events # {} THEN {<<Socket(Events)>>} ELSE {<<>>}
           intr  == IF interrupted THEN {<<Interrupt>>} ELSE {<<>>}
<1>1. PICK s \in ready, i \in intr : batch' \in {s \o i, i \o s}
  BY DEF epoll_wait
<1>2. s \in Seq(Happened) /\ i \in Seq(Happened)
  <2>1. /\ <<Socket(Events)>> \in Seq(Happened) /\ <<Interrupt>> \in Seq(Happened)
        /\ <<>> \in Seq(Happened)
    BY EventsTyped
  <2> QED BY <2>1
<1>3. batch' \in Seq(Happened)
  BY <1>1, <1>2, ConcatProperties
<1>4. ASSUME armed, Events # {}
      PROVE  \E k \in DOMAIN batch' : batch'[k].events = Events
  <2>1. s = <<Socket(Events)>> /\ Len(s) = 1 /\ s[1] = Socket(Events)
    BY <1>4
  <2>2. Len(i) \in Nat
    BY <1>2, LenProperties
  <2>3. CASE batch' = s \o i
    <3>1. Len(batch') = 1 + Len(i) /\ DOMAIN batch' = 1..Len(batch') /\ batch'[1] = s[1]
      BY <1>2, <1>3, <2>1, <2>2, <2>3, ConcatProperties, LenProperties
    <3> QED BY <2>1, <2>2, <3>1, EventsTyped
  <2>4. CASE batch' = i \o s
    <3>1. /\ Len(batch') = Len(i) + 1 /\ DOMAIN batch' = 1..Len(batch')
          /\ \A k \in 1..(Len(i) + 1) : batch'[k] = IF k <= Len(i) THEN i[k] ELSE s[k - Len(i)]
      BY <1>2, <1>3, <2>1, <2>2, <2>4, ConcatProperties, LenProperties
    <3>2. Len(i) + 1 \in 1..(Len(i) + 1) /\ ~(Len(i) + 1 <= Len(i)) /\ Len(i) + 1 - Len(i) = 1
      BY <2>2
    <3>3. batch'[Len(i) + 1] = s[1]
      BY <3>1, <3>2
    <3> QED BY <2>1, <3>1, <3>2, <3>3, EventsTyped
  <2> QED BY <1>1, <2>3, <2>4
<1> QED BY <1>3, <1>4

LEMMA HandledBatch ==
  ASSUME Types, batch # <<>>, Handled
  PROVE  /\ batch' \in Seq(Happened)
         /\ Head(batch) = batch[1] /\ batch[1] \in Happened
         /\ \A e \in AllEvents :
              (\E i \in DOMAIN batch : e \in batch[i].events)
                => e = First(Head(batch).events) \/ \E i \in DOMAIN batch' : e \in batch'[i].events
<1> DEFINE left == Others(Head(batch).events)
<1>1. /\ Head(batch) = batch[1] /\ batch[1] \in Happened /\ Len(batch) \in Nat \ {0}
      /\ DOMAIN batch = 1..Len(batch)
  BY TailIs DEF Types
<1>2. left = batch[1].events \ {First(batch[1].events)}
  BY <1>1 DEF Others
<1>3. Socket(left) \in Happened /\ Socket(left).events = left
  BY <1>1, <1>2 DEF Happened, Socket
<1> HIDE DEF left
<1>4. CASE left = {}
  <2>1. batch' = Tail(batch)
    BY <1>4 DEF Handled, left
  <2>2. /\ batch' \in Seq(Happened) /\ DOMAIN batch' = 1..(Len(batch) - 1)
        /\ \A i \in 1..(Len(batch) - 1) : batch'[i] = batch[i + 1]
    BY <2>1, TailIs DEF Types
  <2>3. ASSUME NEW e \in AllEvents, NEW i \in DOMAIN batch, e \in batch[i].events, i # 1
        PROVE  \E j \in DOMAIN batch' : e \in batch'[j].events
    <3>1. i - 1 \in 1..(Len(batch) - 1) /\ (i - 1) + 1 = i
      BY <1>1, <2>3
    <3> QED BY <2>2, <2>3, <3>1
  <2> QED BY <1>1, <1>2, <1>4, <2>2, <2>3
<1>5. CASE left # {}
  <2>1. batch' = <<Socket(left)>> \o Tail(batch)
    BY <1>5 DEF Handled, left
  <2>2. /\ batch' \in Seq(Happened) /\ DOMAIN batch' = 1..Len(batch)
        /\ batch'[1] = Socket(left) /\ \A i \in 2..Len(batch) : batch'[i] = batch[i]
    BY <1>3, <2>1, FrontIs DEF Types
  <2>3. ASSUME NEW e \in AllEvents, NEW i \in DOMAIN batch, e \in batch[i].events,
               e # First(batch[1].events)
        PROVE  \E j \in DOMAIN batch' : e \in batch'[j].events
    <3>1. i = 1 \/ i \in 2..Len(batch)
      BY <1>1
    <3>2. CASE i = 1
      BY <1>1, <1>2, <1>3, <2>2, <2>3, <3>2
    <3>3. CASE i \in 2..Len(batch)
      BY <1>1, <2>2, <2>3, <3>3
    <3> QED BY <3>1, <3>2, <3>3
  <2> QED BY <1>1, <2>2, <2>3
<1> QED BY <1>4, <1>5

LEMMA FirstTyped ==
  ASSUME NEW s \in SUBSET AllEvents PROVE First(s) \in AllEvents
BY DEF First, AllEvents

LEMMA EventLoopTypes ==
  ASSUME Types, m_error_fd_set \in {0, 1}, EventLoop PROVE Types'
<1>1. CASE epoll_wait
  BY <1>1, NewBatch DEF epoll_wait, kernel, Types, TypeOK
<1>2. CASE fd_del_callback
  <2>1. [i \in 1..m_error_fd_set |-> Task("error")] \in Seq(Tasks)
    <3>1. Task("error") \in Tasks
      BY PlainTasks
    <3>2. [i \in 1..m_error_fd_set |-> Task("error")] \in [1..m_error_fd_set -> Tasks]
      BY <3>1
    <3> QED BY <3>2, SeqDef
  <2>2. tasks' \in Seq(Tasks)
    BY <1>2, <2>1, ProducedIs DEF fd_del_callback, Types
  <2>3. batch' \in Seq(Happened)
    BY <1>2, TailIs DEF fd_del_callback, Types
  <2> QED BY <1>2, <2>2, <2>3 DEF fd_del_callback, kernel, Types, TypeOK
<1>3. CASE handle_event
  <2>1. Head(batch) \in Happened /\ batch' \in Seq(Happened)
    BY <1>3, HandledBatch DEF handle_event
  <2>2. First(Head(batch).events) \in AllEvents
    BY <2>1, FirstTyped DEF Happened
  <2>3. tasks' \in Seq(Tasks)
    BY <1>3, <2>2, PlainTasks, ShortLists, ProducedIs DEF handle_event, AllEvents, Types
  <2> QED BY <1>3, <2>1, <2>3 DEF handle_event, Handled, kernel, Types, TypeOK
<1>4. CASE handle_event_of_deleted
  BY <1>4, HandledBatch DEF handle_event_of_deleted, Handled, kernel, Types, TypeOK
<1> QED BY <1>1, <1>2, <1>3, <1>4 DEF EventLoop

LEMMA TypesKept == ASSUME Types, Ordered, ToldOnce, [Next]_vars PROVE Types'
<1>1. CASE task_of_deleted \/ UNCHANGED vars
  BY <1>1 DEF task_of_deleted, vars, loop, kernel, Types, TypeOK
<1>2. m_error_fd_set \in {0, 1}
  BY DEF ToldOnce
<1> QED BY <1>1, <1>2, PeerTypes, OwnerTypes, RunTaskTypes, EventLoopTypes DEF Next

-----------------------------------------------------------------------------
(* The queue loses its first k tasks, and gets some with operations of ops.*)
Shifted(k, ops) ==
  /\ \A i \in DOMAIN tasks' : \/ i + k \in DOMAIN tasks /\ tasks'[i] = tasks[i + k]
                              \/ tasks'[i].op \in ops
  /\ \A i \in DOMAIN tasks : i > k => i - k \in DOMAIN tasks' /\ tasks'[i - k] = tasks[i]

LEMMA DoneShifts ==
  ASSUME Types, tasks # <<>>, NEW list \in Seq(Tasks), Done(list),
         NEW ops, \A i \in 1..Len(list) : list[i].op \in ops
  PROVE  Shifted(1, ops)
<1>1. /\ Len(tasks) \in Nat \ {0} /\ Len(list) \in Nat
      /\ DOMAIN tasks = 1..Len(tasks) /\ DOMAIN tasks' = 1..(Len(tasks) - 1 + Len(list))
      /\ \A i \in 1..(Len(tasks) - 1) : tasks'[i] = tasks[i + 1]
      /\ \A i \in 1..Len(list) : tasks'[Len(tasks) - 1 + i] = list[i]
  BY DoneIs DEF Types
<1>2. ASSUME NEW i \in DOMAIN tasks'
      PROVE  \/ i + 1 \in DOMAIN tasks /\ tasks'[i] = tasks[i + 1]
             \/ tasks'[i].op \in ops
  <2>1. CASE i <= Len(tasks) - 1
    BY <1>1, <2>1
  <2>2. CASE ~(i <= Len(tasks) - 1)
    <3>1. i - (Len(tasks) - 1) \in 1..Len(list) /\ Len(tasks) - 1 + (i - (Len(tasks) - 1)) = i
      BY <1>1, <1>2, <2>2
    <3>2. tasks'[i] = list[i - (Len(tasks) - 1)]
      BY <1>1, <3>1
    <3> QED BY <3>1, <3>2
  <2> QED BY <2>1, <2>2
<1>3. ASSUME NEW i \in DOMAIN tasks, i > 1
      PROVE  i - 1 \in DOMAIN tasks' /\ tasks'[i - 1] = tasks[i]
  <2>1. i - 1 \in 1..(Len(tasks) - 1) /\ (i - 1) + 1 = i /\ i - 1 \in DOMAIN tasks'
    BY <1>1, <1>3
  <2> QED BY <1>1, <2>1
<1> QED BY <1>2, <1>3 DEF Shifted

LEMMA ProducedShifts ==
  ASSUME Types, NEW list \in Seq(Tasks), Produced(list),
         NEW ops, \A i \in 1..Len(list) : list[i].op \in ops
  PROVE  Shifted(0, ops)
<1>1. /\ Len(tasks) \in Nat /\ Len(list) \in Nat
      /\ DOMAIN tasks = 1..Len(tasks) /\ DOMAIN tasks' = 1..(Len(tasks) + Len(list))
      /\ \A i \in 1..Len(tasks) : tasks'[i] = tasks[i]
      /\ \A i \in 1..Len(list) : tasks'[Len(tasks) + i] = list[i]
  BY ProducedIs DEF Types
<1>2. ASSUME NEW i \in DOMAIN tasks'
      PROVE  \/ i + 0 \in DOMAIN tasks /\ tasks'[i] = tasks[i + 0]
             \/ tasks'[i].op \in ops
  <2>1. CASE i <= Len(tasks)
    BY <1>1, <2>1
  <2>2. CASE ~(i <= Len(tasks))
    <3>1. i - Len(tasks) \in 1..Len(list) /\ Len(tasks) + (i - Len(tasks)) = i
      BY <1>1, <1>2, <2>2
    <3>2. tasks'[i] = list[i - Len(tasks)]
      BY <1>1, <3>1
    <3> QED BY <3>1, <3>2
  <2> QED BY <2>1, <2>2
<1>3. ASSUME NEW i \in DOMAIN tasks
      PROVE  i - 0 \in DOMAIN tasks' /\ tasks'[i - 0] = tasks[i]
  BY <1>1
<1> QED BY <1>2, <1>3 DEF Shifted

LEMMA OneShifts ==
  ASSUME Types, NEW t \in Tasks, Produced(<<t>>), NEW ops, t.op \in ops
  PROVE  Shifted(0, ops)
<1>1. <<t>> \in Seq(Tasks) /\ \A i \in 1..Len(<<t>>) : <<t>>[i].op \in ops
  BY ShortLists
<1> QED BY <1>1, ProducedShifts

LEMMA SameShifts ==
  ASSUME Types, tasks' = tasks PROVE Shifted(0, {})
<1>1. DOMAIN tasks \subseteq Nat
  BY LenProperties DEF Types
<1> QED BY <1>1 DEF Shifted

(* A task leaves nothing but calls of close behind.                        *)
LEMMA RunTaskShifts ==
  ASSUME Types, RunTask
  PROVE  \E k \in {0, 1} : Shifted(k, {"close"}) /\ (k = 0 => tasks' = tasks)
<1>1. CASE tasks' = tasks
  BY <1>1, SameShifts DEF Shifted
<1>2. ASSUME NEW list \in Followers, Done(list), tasks # <<>>
      PROVE  Shifted(1, {"close"})
  <2>1. \A i \in 1..Len(list) : list[i].op \in {"close"}
    BY <1>2, PlainTasks, ShortLists DEF Followers
  <2> QED BY <1>2, <2>1, FollowersTyped, DoneShifts
<1> QED BY <1>1, <1>2, RunTaskQueue

LEMMA QueueIndexes ==
  ASSUME Types PROVE DOMAIN tasks \subseteq Nat \ {0}
BY LenProperties DEF Types

LEMMA ToldOnceStays ==
  ASSUME Types, Types', ToldOnce, NEW k \in {0, 1}, NEW ops, "error" \notin ops, Shifted(k, ops),
         UNCHANGED <<m_error_fd_set, told>>
  PROVE  ToldOnce'
<1>1. DOMAIN tasks' \subseteq Nat
  BY LenProperties DEF Types
<1>2. \A i \in DOMAIN tasks' : tasks'[i].op = "error" =>
        i + k \in DOMAIN tasks /\ tasks[i + k].op = "error"
  BY DEF Shifted
<1>3. \A i, j \in DOMAIN tasks' : tasks'[i].op = "error" /\ tasks'[j].op = "error" => i = j
  <2> TAKE i, j \in DOMAIN tasks'
  <2> HAVE tasks'[i].op = "error" /\ tasks'[j].op = "error"
  <2>1. i + k = j + k
    BY <1>2 DEF ToldOnce, Telling
  <2> QED BY <1>1, <2>1
<1> QED BY <1>2, <1>3 DEF ToldOnce, Telling

LEMMA ClosedFirstStays ==
  ASSUME ClosedFirst, NEW k \in {0, 1}, NEW ops, ops \cap {"error", "delete"} = {}, Shifted(k, ops),
         UNCHANGED <<m_error_fd_set, told, m_fd>>, object' \in {object, "leaving"}
  PROVE  ClosedFirst'
BY DEF ClosedFirst, Shifted

(* Each kind of step keeps the chain from the break to handle_error.       *)
LEMMA CloseTells ==
  ASSUME Types, Types', ToldOnce, ClosedFirst, close_impl
  PROVE  ToldOnce' /\ ClosedFirst'
<1>1. PICK k \in {0, 1} : Shifted(k, {"close"})
  BY RunTaskShifts DEF RunTask
<1>2. told' = told /\ object' = object
  BY DEF close_impl, Sockets
<1>3. CASE m_fd = "open"
  <2>1. m_fd' = "closed" /\ m_error_fd_set' = 1 /\ told' = 0
    BY <1>2, <1>3 DEF close_impl, FdGone, ClosedFirst
  <2>2. \A i \in DOMAIN tasks' : tasks'[i].op # "error"
    BY <1>1, <1>3 DEF ClosedFirst, Shifted
  <2> QED BY <2>1, <2>2 DEF ToldOnce, Telling, ClosedFirst
<1>4. CASE m_fd # "open"
  <2>1. UNCHANGED <<m_fd, m_error_fd_set, told>>
    BY <1>2, <1>4 DEF close_impl
  <2> QED BY <1>1, <1>2, <2>1, ToldOnceStays, ClosedFirstStays
<1> QED BY <1>3, <1>4

LEMMA ErrorTells ==
  ASSUME Types, Types', ToldOnce, ClosedFirst, handle_error
  PROVE  ToldOnce' /\ ClosedFirst'
<1>1. /\ 1 \in DOMAIN tasks /\ tasks[1].op = "error" /\ Len(tasks) \in Nat \ {0}
      /\ DOMAIN tasks = 1..Len(tasks) /\ DOMAIN tasks' = 1..(Len(tasks) - 1)
      /\ \A i \in 1..(Len(tasks) - 1) : tasks'[i] = tasks[i + 1]
  <2>1. tasks # <<>> /\ Head(tasks).op = "error" /\ Done(<<>>)
    BY DEF handle_error, Runs
  <2>2. /\ Len(tasks) \in Nat \ {0} /\ DOMAIN tasks = 1..Len(tasks)
        /\ DOMAIN tasks' = 1..(Len(tasks) - 1 + 0) /\ Head(tasks) = tasks[1]
        /\ \A i \in 1..(Len(tasks) - 1) : tasks'[i] = tasks[i + 1]
    BY <2>1, ShortLists, DoneIs DEF Types
  <2> QED BY <2>1, <2>2
<1>2. told = 0 /\ m_error_fd_set = 0 /\ m_fd # "open"
  BY <1>1 DEF ToldOnce, Telling, ClosedFirst
<1>3. told' = 1 /\ m_error_fd_set' = 0 /\ m_fd' # "open"
  BY <1>2 DEF handle_error, loop
<1>4. \A i \in DOMAIN tasks' : tasks'[i].op # "error"
  <2> SUFFICES ASSUME NEW i \in DOMAIN tasks', tasks'[i].op = "error" PROVE FALSE
    OBVIOUS
  <2>1. i + 1 \in DOMAIN tasks /\ tasks[i + 1].op = "error" /\ i + 1 # 1
    BY <1>1
  <2> QED BY <1>1, <2>1 DEF ToldOnce, Telling
<1> QED BY <1>3, <1>4 DEF ToldOnce, Telling, ClosedFirst

LEMMA InterruptTells ==
  ASSUME Types, Types', ToldOnce, ClosedFirst, fd_del_callback
  PROVE  ToldOnce' /\ ClosedFirst'
<1> DEFINE list == [i \in 1..m_error_fd_set |-> Task("error")]
<1>1. m_error_fd_set \in {0, 1} /\ m_error_fd_set' = 0 /\ UNCHANGED <<told, m_fd, object>>
  BY DEF fd_del_callback, ToldOnce
<1>2. list \in Seq(Tasks) /\ Len(list) = m_error_fd_set
      /\ \A i \in 1..Len(list) : list[i] = Task("error")
  <2>1. Task("error") \in Tasks
    BY PlainTasks
  <2>2. list \in [1..m_error_fd_set -> Tasks]
    BY <2>1
  <2>3. list \in Seq(Tasks)
    BY <1>1, <2>2, SeqDef
  <2> QED BY <1>1, <2>2, <2>3, LenProperties
<1>3. Produced(list)
  BY DEF fd_del_callback
<1> HIDE DEF list
<1>4. CASE m_error_fd_set = 0
  <2>1. Shifted(0, {})
    <3>1. \A i \in 1..Len(list) : list[i].op \in {}
      BY <1>2, <1>4
    <3> QED BY <1>2, <1>3, <3>1, ProducedShifts
  <2>2. UNCHANGED <<m_error_fd_set, told, m_fd>> /\ object' \in {object, "leaving"}
    BY <1>1, <1>4
  <2> QED BY <2>1, <2>2, ToldOnceStays, ClosedFirstStays
<1>5. CASE m_error_fd_set = 1
  <2>1. told = 0 /\ m_fd # "open" /\ \A i \in DOMAIN tasks : tasks[i].op # "error"
    BY <1>5 DEF ToldOnce, ClosedFirst, Telling
  <2>2. /\ Len(tasks) \in Nat /\ DOMAIN tasks' = 1..(Len(tasks) + 1)
        /\ DOMAIN tasks = 1..Len(tasks)
        /\ \A i \in 1..Len(tasks) : tasks'[i] = tasks[i]
    BY <1>2, <1>3, <1>5, ProducedIs DEF Types
  <2>3. \A i \in DOMAIN tasks' : tasks'[i].op = "error" => i = Len(tasks) + 1
    BY <2>1, <2>2
  <2> QED BY <1>1, <2>1, <2>3 DEF ToldOnce, Telling, ClosedFirst
<1> QED BY <1>1, <1>4, <1>5

LEMMA OwnerShifts ==
  ASSUME Types, Owner
  PROVE  \/ Shifted(0, {"send", "close"}) /\ object' = object
         \/ Shifted(0, {"delete"}) /\ told > 0 /\ object' = "leaving"
<1>1. ASSUME NEW length \in 1..(MaxGiven - given), async_send(length)
      PROVE  Shifted(0, {"send", "close"}) /\ object' = object
  <2>1. /\ SendTask(given + 1, given + length) \in Tasks
        /\ SendTask(given + 1, given + length).op = "send"
    <3>1. given + 1 \in Nat /\ given + length \in Nat
      BY SocketAssumption DEF Types, TypeOK
    <3> QED BY <3>1, PlainTasks
  <2>2. Produced(<<SendTask(given + 1, given + length)>>) /\ object' = object
    BY <1>1 DEF async_send, OwnerDoes
  <2> QED BY <2>1, <2>2, OneShifts
<1>2. CASE close
  <2>1. Produced(<<Task("close")>>) /\ object' = object
    BY <1>2 DEF close, OwnerDoes
  <2> QED BY <2>1, PlainTasks, OneShifts
<1>3. CASE safe_delete
  <2>1. Produced(<<Task("delete")>>) /\ told > 0 /\ object' = "leaving"
    BY <1>3 DEF safe_delete, OwnerDoes
  <2> QED BY <2>1, PlainTasks, OneShifts
<1> QED BY <1>1, <1>2, <1>3 DEF Owner

LEMMA OwnerTells ==
  ASSUME Types, Types', ToldOnce, ClosedFirst, Owner
  PROVE  ToldOnce' /\ ClosedFirst'
<1>1. UNCHANGED <<m_error_fd_set, told, m_fd>>
  BY DEF Owner, async_send, close, safe_delete, OwnerDoes, loop
<1>2. CASE Shifted(0, {"send", "close"}) /\ object' = object
  BY <1>1, <1>2, ToldOnceStays, ClosedFirstStays
<1>3. CASE Shifted(0, {"delete"}) /\ told > 0
  <2>1. m_fd' # "open"
    BY <1>1, <1>3 DEF ClosedFirst
  <2>2. ToldOnce'
    BY <1>1, <1>3, ToldOnceStays
  <2> QED BY <2>1, <2>2 DEF ClosedFirst
<1> QED BY <1>2, <1>3, OwnerShifts

LEMMA DeleteTells ==
  ASSUME Types, Types', ToldOnce, ClosedFirst, deleted
  PROVE  ToldOnce' /\ ClosedFirst'
<1>1. PICK k \in {0, 1} : Shifted(k, {"close"})
  BY RunTaskShifts DEF RunTask
<1>2. UNCHANGED <<m_error_fd_set, told, m_fd>>
  BY DEF deleted, loop
<1>3. m_fd # "open"
  <2>1. tasks # <<>> /\ Head(tasks).op = "delete"
    BY DEF deleted, Runs
  <2>2. 1 \in DOMAIN tasks /\ Head(tasks) = tasks[1]
    <3>1. tasks \in Seq(Tasks)
      BY DEF Types
    <3> QED BY <2>1, <3>1, TailIs
  <2> QED BY <2>1, <2>2 DEF ClosedFirst
<1>4. ToldOnce'
  BY <1>1, <1>2, ToldOnceStays
<1> QED BY <1>2, <1>3, <1>4 DEF ClosedFirst

(* Everything else leaves the socket and what the owner was told alone.    *)
LEMMA EventShifts ==
  ASSUME Types, handle_event
  PROVE  Shifted(0, AllEvents)
<1>1. First(Head(batch).events) \in AllEvents
  BY HandledBatch, FirstTyped DEF handle_event, Happened
<1>2. /\ Task(First(Head(batch).events)) \in Tasks
      /\ Task(First(Head(batch).events)).op \in AllEvents
  BY <1>1, PlainTasks DEF AllEvents
<1> QED BY <1>2, OneShifts DEF handle_event

LEMMA TellingKept ==
  ASSUME Types, Types', ToldOnce, ClosedFirst, [Next]_vars
  PROVE  ToldOnce' /\ ClosedFirst'
<1> DEFINE Same == UNCHANGED <<m_error_fd_set, told, m_fd, object>>
<1>1. CASE Peer \/ epoll_wait \/ handle_event_of_deleted \/ task_of_deleted \/ UNCHANGED vars
  <2>1. Same /\ tasks' = tasks
    BY <1>1 DEF Peer, peer_sends, peer_shuts_down, peer_resets, peer_reads, KernelChanges,
                epoll_wait, handle_event_of_deleted, Handled, task_of_deleted, vars, loop
  <2> QED BY <2>1, SameShifts, ToldOnceStays, ClosedFirstStays
<1>2. CASE handle_event
  <2>1. Same
    BY <1>2 DEF handle_event, Handled
  <2>2. "error" \notin AllEvents /\ AllEvents \cap {"error", "delete"} = {}
    BY DEF AllEvents
  <2> QED BY <1>2, <2>1, <2>2, EventShifts, ToldOnceStays, ClosedFirstStays
<1>3. CASE read_some \/ read_ends \/ read_nothing \/ write_front \/ write_nothing
             \/ send_impl \/ send_later \/ send_dropped \/ send_fails
  <2>1. Same
    BY <1>3 DEF read_some, read_ends, read_nothing, write_front, write_nothing, send_impl,
                send_later, send_dropped, send_fails, Reads, Writes, Sockets
  <2>2. PICK k \in {0, 1} : Shifted(k, {"close"})
    BY <1>3, RunTaskShifts DEF RunTask
  <2> QED BY <2>1, <2>2, ToldOnceStays, ClosedFirstStays
<1> QED BY <1>1, <1>2, <1>3, CloseTells, ErrorTells, InterruptTells, OwnerTells, DeleteTells
        DEF Next, RunTask, EventLoop

-----------------------------------------------------------------------------
(* The tasks and events that a step of the event loop leaves in place.     *)
LEMMA InterruptQueue ==
  ASSUME Types, ToldOnce, fd_del_callback
  PROVE  \A i \in DOMAIN tasks : i \in DOMAIN tasks' /\ tasks'[i] = tasks[i]
<1>1. [i \in 1..m_error_fd_set |-> Task("error")] \in Seq(Tasks)
  <2>1. Task("error") \in Tasks /\ m_error_fd_set \in Nat
    BY PlainTasks DEF ToldOnce
  <2>2. [i \in 1..m_error_fd_set |-> Task("error")] \in [1..m_error_fd_set -> Tasks]
    BY <2>1
  <2> QED BY <2>1, <2>2, SeqDef
<1> DEFINE list == [i \in 1..m_error_fd_set |-> Task("error")]
<1>2. Produced(list) /\ list \in Seq(Tasks)
  BY <1>1 DEF fd_del_callback
<1> HIDE DEF list
<1>3. /\ Len(tasks) \in Nat /\ Len(list) \in Nat /\ DOMAIN tasks = 1..Len(tasks)
      /\ DOMAIN tasks' = 1..(Len(tasks) + Len(list))
      /\ \A i \in 1..Len(tasks) : tasks'[i] = tasks[i]
  BY <1>2, ProducedIs DEF Types
<1> QED BY <1>3

LEMMA InterruptBatch ==
  ASSUME Types, fd_del_callback, NEW e, NEW i \in DOMAIN batch, e \in batch[i].events
  PROVE  \E j \in DOMAIN batch' : e \in batch'[j].events
<1>1. batch \in Seq(Happened) /\ batch # <<>> /\ batch' = Tail(batch) /\ Head(batch) = Interrupt
  BY DEF Types, fd_del_callback
<1>2. /\ Len(batch) \in Nat \ {0} /\ DOMAIN batch = 1..Len(batch)
      /\ DOMAIN batch' = 1..(Len(batch) - 1) /\ batch[1] = Interrupt
      /\ \A j \in 1..(Len(batch) - 1) : batch'[j] = batch[j + 1]
  BY <1>1, TailIs
<1>3. i # 1
  BY <1>2, EventsTyped
<1>4. i - 1 \in 1..(Len(batch) - 1) /\ (i - 1) + 1 = i
  BY <1>2, <1>3
<1> QED BY <1>2, <1>4

LEMMA AppendedTask ==
  ASSUME Types, NEW e \in AllEvents, Produced(<<Task(e)>>)
  PROVE  \E i \in DOMAIN tasks' : tasks'[i].op = e
<1>1. Task(e) \in Tasks /\ Task(e).op = e /\ <<Task(e)>> \in Seq(Tasks)
      /\ Len(<<Task(e)>>) = 1 /\ <<Task(e)>>[1] = Task(e)
  BY PlainTasks, ShortLists DEF AllEvents
<1>2. /\ Len(tasks) \in Nat /\ DOMAIN tasks' = 1..(Len(tasks) + 1)
      /\ tasks'[Len(tasks) + 1] = Task(e)
  <2> DEFINE list == <<Task(e)>>
  <2>1. list \in Seq(Tasks) /\ Len(list) = 1 /\ list[1] = Task(e) /\ Produced(list)
    BY <1>1
  <2> HIDE DEF list
  <2>2. /\ Len(tasks) \in Nat /\ DOMAIN tasks' = 1..(Len(tasks) + Len(list))
        /\ \A i \in 1..Len(list) : tasks'[Len(tasks) + i] = list[i]
    BY <2>1, ProducedIs DEF Types
  <2> QED BY <2>1, <2>2
<1> QED BY <1>1, <1>2

-----------------------------------------------------------------------------
(* No event is lost.                                                       *)
LEMMA ComingStays ==
  ASSUME Types, NEW e, NEW k \in {0, 1}, NEW ops, Shifted(k, ops),
         k = 1 => tasks[1].op # e, Coming(e), armed => armed',
         \A i \in DOMAIN batch : e \in batch[i].events =>
                                   \E j \in DOMAIN batch' : e \in batch'[j].events
  PROVE  Coming(e)'
<1>1. CASE armed
  BY <1>1 DEF Coming
<1>2. CASE \E i \in DOMAIN batch : e \in batch[i].events
  BY <1>2 DEF Coming
<1>3. ASSUME NEW i \in DOMAIN tasks, tasks[i].op = e
      PROVE  Coming(e)'
  <2>1. i \in Nat \ {0} /\ i > k
    BY <1>3, QueueIndexes
  <2>2. i - k \in DOMAIN tasks' /\ tasks'[i - k].op = e
    BY <1>3, <2>1 DEF Shifted
  <2> QED BY <2>2 DEF Coming
<1> QED BY <1>1, <1>2, <1>3 DEF Coming

(* A task of another kind keeps what is coming.                            *)
LEMMA TaskKeepsComing ==
  ASSUME Types, RunTask, NEW e, tasks[1].op # e, UNCHANGED <<armed, batch>>, Coming(e)
  PROVE  Coming(e)'
<1>1. PICK k \in {0, 1} : Shifted(k, {"close"})
  BY RunTaskShifts
<1> QED BY <1>1, ComingStays

LEMMA FirstTask ==
  ASSUME Types, NEW o, Runs(o)
  PROVE  1 \in DOMAIN tasks /\ Head(tasks) = tasks[1] /\ tasks[1].op = o
<1>1. tasks \in Seq(Tasks) /\ tasks # <<>>
  BY DEF Types, Runs
<1> QED BY <1>1, TailIs DEF Runs

LEMMA ReadingKept ==
  ASSUME Types, NoEventLost, read_some \/ read_ends \/ read_nothing
  PROVE  NoEventLost'
<1>1. /\ Runs("read") /\ RunTask
      /\ UNCHANGED <<m_fd, m_send_buffer, armed, peer, full, batch>>
  BY DEF read_some, read_ends, read_nothing, Reads, Sockets, RunTask
<1>2. 1 \in DOMAIN tasks /\ tasks[1].op = "read"
  BY <1>1, FirstTask
<1>3. AllWillBeSent'
  <2>1. Coming("write") => Coming("write")'
    BY <1>1, <1>2, TaskKeepsComing
  <2> QED BY <1>1, <2>1 DEF NoEventLost, AllWillBeSent
<1>4. AllWillBeRead'
  <2>1. CASE read_some
    <3>1. CASE EndsReading(ReadNow)
      <4>1. rcv' = 0
        BY <2>1, <3>1, SocketAssumption DEF read_some, EndsReading, ReadNow, Types, TypeOK
      <4> QED BY <4>1 DEF AllWillBeRead
    <3>2. CASE ~EndsReading(ReadNow)
      <4>1. tasks' = tasks
        BY <2>1, <3>2 DEF read_some
      <4> QED BY <1>2, <4>1 DEF AllWillBeRead, Coming
    <3> QED BY <3>1, <3>2
  <2>2. CASE read_ends \/ read_nothing
    <3>1. rcv' = 0 \/ m_fd' # "open"
      BY <2>2 DEF read_ends, read_nothing, Reads
    <3> QED BY <3>1 DEF AllWillBeRead
  <2> QED BY <2>1, <2>2
<1> QED BY <1>3, <1>4 DEF NoEventLost

(* A task that may send: what is to be read is not its matter.             *)
LEMMA WritersRead ==
  ASSUME Types, AllWillBeRead, RunTask, Runs("send") \/ Runs("write"), Writes
  PROVE  AllWillBeRead'
<1>1. tasks[1].op # "read"
  BY FirstTask
<1>2. UNCHANGED <<m_fd, rcv, armed, batch>>
  BY DEF Writes, Sockets
<1>3. Coming("read") => Coming("read")'
  BY <1>1, <1>2, TaskKeepsComing
<1> QED BY <1>2, <1>3 DEF AllWillBeRead

LEMMA WritingKept ==
  ASSUME Types, NoEventLost, write_front \/ write_nothing
  PROVE  NoEventLost'
<1>1. Runs("write") /\ RunTask /\ Writes
  BY DEF write_front, write_nothing, RunTask
<1>2. AllWillBeRead'
  BY <1>1, WritersRead DEF NoEventLost
<1>3. AllWillBeSent'
  <2>1. CASE write_front
    <3> DEFINE m == Head(m_send_buffer)
    <3>1. PICK n \in 0..(m.to - m.from + 1) :
            /\ Sends(m, n)
            /\ IF n <= m.to - m.from
                 THEN m_send_buffer' = LeftFirst(m, n) /\ Done(<<>>)
                 ELSE /\ m_send_buffer' = Tail(m_send_buffer)
                      /\ IF Len(m_send_buffer) = 1 THEN Done(<<>>) ELSE UNCHANGED tasks
      BY <2>1 DEF write_front
    <3> HIDE DEF m
    <3>2. CASE n <= m.to - m.from
      <4>1. full' = TRUE
        BY <3>1, <3>2 DEF Sends
      <4> QED BY <4>1 DEF AllWillBeSent
    <3>3. CASE ~(n <= m.to - m.from) /\ Len(m_send_buffer) = 1
      <4>1. m_send_buffer' = Tail(m_send_buffer)
        BY <3>1, <3>3
      <4>2. m_send_buffer \in Seq(Messages) /\ m_send_buffer # <<>>
        BY <2>1 DEF write_front, Types
      <4>3. m_send_buffer' \in Seq(Messages) /\ Len(m_send_buffer') = 0
        BY <3>3, <4>1, <4>2, TailIs
      <4>4. m_send_buffer' = <<>>
        BY <4>3, EmptySeq
      <4> QED BY <4>4 DEF AllWillBeSent
    <3>4. CASE ~(n <= m.to - m.from) /\ Len(m_send_buffer) # 1
      <4>1. tasks' = tasks
        BY <3>1, <3>4
      <4>2. 1 \in DOMAIN tasks /\ tasks[1].op = "write"
        BY <1>1, FirstTask
      <4> QED BY <4>1, <4>2 DEF AllWillBeSent, Coming
    <3> QED BY <3>2, <3>3, <3>4
  <2>2. CASE write_nothing
    <3>1. m_fd' # "open" \/ m_send_buffer' = <<>>
      BY <2>2 DEF write_nothing, Writes
    <3> QED BY <3>1 DEF AllWillBeSent
  <2> QED BY <2>1, <2>2
<1> QED BY <1>2, <1>3 DEF NoEventLost

LEMMA SendingKept ==
  ASSUME Types, NoEventLost, send_impl \/ send_later \/ send_dropped \/ send_fails
  PROVE  NoEventLost'
<1>1. RunTask /\ Writes /\ (Runs("send") \/ Runs("write"))
  BY DEF send_impl, send_later, send_dropped, send_fails, RunTask
<1>2. AllWillBeRead'
  BY <1>1, WritersRead DEF NoEventLost
<1>3. AllWillBeSent'
  <2>1. CASE send_impl
    <3> DEFINE m == Left(Head(tasks), 0)
    <3>1. PICK n \in 0..(m.to - m.from + 1) :
            /\ Sends(m, n)
            /\ m_send_buffer' = IF n <= m.to - m.from THEN Append(m_send_buffer, Left(m, n))
                                                      ELSE m_send_buffer
      BY <2>1 DEF send_impl
    <3> HIDE DEF m
    <3>2. CASE n <= m.to - m.from
      <4>1. full' = TRUE
        BY <3>1, <3>2 DEF Sends
      <4> QED BY <4>1 DEF AllWillBeSent
    <3>3. CASE ~(n <= m.to - m.from)
      <4>1. m_send_buffer' = m_send_buffer /\ m_send_buffer = <<>>
        BY <2>1, <3>1, <3>3 DEF send_impl, NobodyWaits
      <4> QED BY <4>1 DEF AllWillBeSent
    <3> QED BY <3>2, <3>3
  <2>2. CASE send_later
    <3>1. /\ m_send_buffer # <<>> /\ Runs("send")
          /\ UNCHANGED <<full, m_fd, peer, armed, batch>>
      BY <2>2 DEF send_later, NobodyWaits, Writes, Sockets
    <3>2. tasks[1].op # "write"
      BY <3>1, FirstTask
    <3>3. Coming("write") => Coming("write")'
      BY <1>1, <3>1, <3>2, TaskKeepsComing
    <3> QED BY <3>1, <3>3 DEF NoEventLost, AllWillBeSent
  <2>3. CASE send_dropped \/ send_fails
    <3>1. m_fd' # "open" \/ peer' = "reset"
      BY <2>3 DEF send_dropped, send_fails, Writes
    <3> QED BY <3>1 DEF AllWillBeSent
  <2> QED BY <2>1, <2>2, <2>3
<1> QED BY <1>2, <1>3 DEF NoEventLost

LEMMA EventsKept ==
  ASSUME Types, ToldOnce, ClosedFirst, NoEventLost, [Next]_vars
  PROVE  NoEventLost'
<1>1. CASE Peer
  <2>1. m_fd' = m_fd /\ (m_fd = "open" => armed')
    BY <1>1 DEF Peer, peer_sends, peer_shuts_down, peer_resets, peer_reads, KernelChanges, Noticed
  <2> QED BY <2>1 DEF NoEventLost, AllWillBeRead, AllWillBeSent, Coming
<1>2. CASE Owner
  <2>1. UNCHANGED <<rcv, m_fd, m_send_buffer, full, peer, armed, batch>>
    BY <1>2 DEF Owner, async_send, close, safe_delete, OwnerDoes, loop, kernel
  <2>2. \A e : Coming(e) => Coming(e)'
    BY <1>2, <2>1, OwnerShifts, ComingStays
  <2> QED BY <2>1, <2>2 DEF NoEventLost, AllWillBeRead, AllWillBeSent
<1>3. CASE close_impl
  <2>1. m_fd' # "open"
    BY <1>3 DEF close_impl, FdGone
  <2> QED BY <2>1 DEF NoEventLost, AllWillBeRead, AllWillBeSent
<1>4. CASE handle_error \/ deleted
  <2>1. UNCHANGED <<rcv, m_fd, m_send_buffer, full, peer, armed, batch>>
    BY <1>4 DEF handle_error, deleted, loop, kernel
  <2>2. tasks[1].op # "read" /\ tasks[1].op # "write"
    BY <1>4, FirstTask DEF handle_error, deleted
  <2>3. /\ Coming("read") => Coming("read")'
        /\ Coming("write") => Coming("write")'
    BY <1>4, <2>1, <2>2, TaskKeepsComing DEF RunTask
  <2> QED BY <2>1, <2>3 DEF NoEventLost, AllWillBeRead, AllWillBeSent
<1>5. CASE epoll_wait
  <2>1. /\ UNCHANGED <<rcv, m_fd, m_send_buffer, full, peer, tasks>>
        /\ DOMAIN batch = {}
    BY <1>5, EmptySeq DEF epoll_wait, kernel
  <2>2. ASSUME NEW e \in AllEvents, e \in Events, Coming(e) PROVE Coming(e)'
    <3>1. CASE armed
      BY <1>5, <2>2, <3>1, NewBatch DEF Coming
    <3>2. CASE \E i \in DOMAIN tasks : tasks[i].op = e
      BY <2>1, <3>2 DEF Coming
    <3> QED BY <2>1, <2>2, <3>1, <3>2 DEF Coming
  <2>3. /\ rcv > 0 => "read" \in Events
        /\ ~full => "write" \in Events
    BY DEF Events, Registered
  <2>4. "read" \in AllEvents /\ "write" \in AllEvents
    BY DEF AllEvents
  <2> QED BY <2>1, <2>2, <2>3, <2>4 DEF NoEventLost, AllWillBeRead, AllWillBeSent
<1>6. CASE fd_del_callback
  <2>1. UNCHANGED <<rcv, m_fd, m_send_buffer, full, peer, armed>>
    BY <1>6 DEF fd_del_callback, kernel
  <2>2. \A i \in DOMAIN tasks : i \in DOMAIN tasks' /\ tasks'[i] = tasks[i]
    BY <1>6, InterruptQueue
  <2>3. \A e : \A i \in DOMAIN batch : e \in batch[i].events =>
                                   \E j \in DOMAIN batch' : e \in batch'[j].events
    BY <1>6, InterruptBatch
  <2>4. \A e : Coming(e) => Coming(e)'
    BY <2>1, <2>2, <2>3 DEF Coming
  <2> QED BY <2>1, <2>4 DEF NoEventLost, AllWillBeRead, AllWillBeSent
<1>7. CASE handle_event
  <2>1. /\ UNCHANGED <<rcv, m_fd, m_send_buffer, full, peer, armed>>
        /\ batch # <<>> /\ Handled /\ Produced(<<Task(First(Head(batch).events))>>)
    BY <1>7 DEF handle_event, Handled, kernel
  <2>2. ASSUME NEW e \in AllEvents, Coming(e) PROVE Coming(e)'
    <3>1. CASE \E i \in DOMAIN batch : e \in batch[i].events
      <4>1. e = First(Head(batch).events) \/ \E i \in DOMAIN batch' : e \in batch'[i].events
        BY <2>1, <3>1, HandledBatch
      <4>2. CASE e = First(Head(batch).events)
        <5>1. \E i \in DOMAIN tasks' : tasks'[i].op = e
          BY <2>1, <2>2, <4>2, AppendedTask
        <5> QED BY <5>1 DEF Coming
      <4> QED BY <4>1, <4>2 DEF Coming
    <3>2. CASE armed
      BY <2>1, <3>2 DEF Coming
    <3>3. ASSUME NEW i \in DOMAIN tasks, tasks[i].op = e PROVE Coming(e)'
      <4>1. i - 0 \in DOMAIN tasks' /\ tasks'[i - 0] = tasks[i]
        BY <1>7, EventShifts, QueueIndexes DEF Shifted
      <4> QED BY <3>3, <4>1 DEF Coming
    <3> QED BY <2>2, <3>1, <3>2, <3>3 DEF Coming
  <2>3. "read" \in AllEvents /\ "write" \in AllEvents
    BY DEF AllEvents
  <2> QED BY <2>1, <2>2, <2>3 DEF NoEventLost, AllWillBeRead, AllWillBeSent
<1>8. CASE handle_event_of_deleted
  <2>1. m_fd' # "open"
    BY <1>8 DEF handle_event_of_deleted, Handled, ClosedFirst
  <2> QED BY <2>1 DEF NoEventLost, AllWillBeRead, AllWillBeSent
<1>9. CASE task_of_deleted \/ UNCHANGED vars
  BY <1>9 DEF task_of_deleted, vars, loop, kernel, NoEventLost, AllWillBeRead, AllWillBeSent, Coming
<1> QED BY <1>1, <1>2, <1>3, <1>4, <1>5, <1>6, <1>7, <1>8, <1>9,
           ReadingKept, WritingKept, SendingKept DEF Next, RunTask, EventLoop

-----------------------------------------------------------------------------
(* Bytes leave in the order in which they were given.                      *)
Sound == m_fd = "open" /\ peer # "reset"

LEMMA Numbers ==
  ASSUME Types
  PROVE  /\ DOMAIN tasks \subseteq Nat \ {0} /\ DOMAIN m_send_buffer \subseteq Nat \ {0}
         /\ \A i \in DOMAIN m_send_buffer :
              m_send_buffer[i].from \in Nat /\ m_send_buffer[i].to \in Nat
         /\ \A i \in DOMAIN tasks : Sending(i) => tasks[i].from \in Nat /\ tasks[i].to \in Nat
         /\ Len(wire) \in Nat /\ DOMAIN wire = 1..Len(wire) /\ given \in Nat
<1>1. /\ DOMAIN tasks = 1..Len(tasks) /\ DOMAIN m_send_buffer = 1..Len(m_send_buffer)
      /\ Len(wire) \in Nat /\ DOMAIN wire = 1..Len(wire)
  BY LenProperties DEF Types
<1>2. \A i \in DOMAIN m_send_buffer : m_send_buffer[i] \in Messages
  BY <1>1, ElementOfSeq DEF Types
<1>3. \A i \in DOMAIN tasks : tasks[i] \in Tasks
  BY <1>1, ElementOfSeq DEF Types
<1>4. \A i \in DOMAIN tasks : Sending(i) => tasks[i].from \in Nat /\ tasks[i].to \in Nat
  BY <1>3, SendTasks DEF Sending
<1>5. given \in Nat
  BY SocketAssumption DEF Types, TypeOK
<1>6. /\ DOMAIN tasks \subseteq Nat \ {0} /\ DOMAIN m_send_buffer \subseteq Nat \ {0}
  BY <1>1
<1> QED BY <1>1, <1>2, <1>4, <1>5, <1>6 DEF Messages

(* The queue loses its first k tasks, the buffer its first d messages, and *)
(* of the next the wire has taken the first part, if any.                  *)
LEMMA TrimmedInOrder ==
  ASSUME Types, Types', InOrder, AllWait, given' = given, NEW k \in {0, 1}, NEW d \in {0, 1},
         NEW ops, "send" \notin ops, Shifted(k, ops),
         Len(wire) <= Len(wire'),
         \A i \in DOMAIN m_send_buffer' :
           /\ i + d \in DOMAIN m_send_buffer
           /\ m_send_buffer'[i].to = m_send_buffer[i + d].to
           /\ m_send_buffer[i + d].from <= m_send_buffer'[i].from
           /\ Len(wire') < m_send_buffer'[i].from /\ m_send_buffer'[i].from <= m_send_buffer'[i].to,
         \A i \in DOMAIN m_send_buffer : i > d =>
           /\ i - d \in DOMAIN m_send_buffer' /\ m_send_buffer'[i - d].to = m_send_buffer[i].to
           /\ \/ m_send_buffer'[i - d].from = m_send_buffer[i].from
              \/ m_send_buffer'[i - d].from = Len(wire') + 1,
         d = 1 /\ 1 \in DOMAIN m_send_buffer => m_send_buffer[1].to <= Len(wire'),
         k = 1 /\ 1 \in DOMAIN tasks /\ Sending(1) => tasks[1].to <= Len(wire'),
         \A i \in DOMAIN tasks : i > k /\ Sending(i) => Len(wire') < tasks[i].from
  PROVE  (InOrder /\ AllWait)'
<1>1. \A i \in DOMAIN tasks' : tasks'[i].op = "send" =>
        i + k \in DOMAIN tasks /\ Sending(i + k) /\ tasks'[i] = tasks[i + k] /\ i + k > k
  <2>1. DOMAIN tasks' \subseteq Nat \ {0}
    BY LenProperties DEF Types
  <2> QED BY <2>1 DEF Shifted, Sending
<1>2. /\ DOMAIN m_send_buffer' \subseteq Nat \ {0} /\ DOMAIN tasks' \subseteq Nat \ {0}
      /\ \A i \in DOMAIN m_send_buffer' :
           m_send_buffer'[i].from \in Nat /\ m_send_buffer'[i].to \in Nat
      /\ Len(wire') \in Nat /\ given' \in Nat
  <2>1. /\ DOMAIN tasks' = 1..Len(tasks') /\ DOMAIN m_send_buffer' = 1..Len(m_send_buffer')
        /\ Len(wire') \in Nat
    BY LenProperties DEF Types
  <2>2. \A i \in DOMAIN m_send_buffer' : m_send_buffer'[i] \in Messages
    BY <2>1, ElementOfSeq DEF Types
  <2> QED BY <2>1, <2>2, Numbers DEF Messages
<1>3. \A i \in DOMAIN m_send_buffer' : /\ Len(wire') < m_send_buffer'[i].from
                                        /\ m_send_buffer'[i].from <= m_send_buffer'[i].to
                                        /\ m_send_buffer'[i].to <= given'
  BY <1>2, Numbers DEF Unsent, InOrder
<1>4. \A i \in DOMAIN tasks' : tasks'[i].op = "send" => /\ Len(wire') < tasks'[i].from
                                                        /\ tasks'[i].from <= tasks'[i].to
                                                        /\ tasks'[i].to <= given'
  BY <1>1 DEF Unsent, InOrder
<1>5. \A i, j \in DOMAIN m_send_buffer' : i < j => m_send_buffer'[i].to < m_send_buffer'[j].from
  <2> TAKE i, j \in DOMAIN m_send_buffer'
  <2> HAVE i < j
  <2>1. m_send_buffer[i + d].to < m_send_buffer[j + d].from
    BY <1>2 DEF InOrder
  <2> QED BY <1>2, <2>1, Numbers
<1>6. \A i \in DOMAIN m_send_buffer', j \in DOMAIN tasks' :
        tasks'[j].op = "send" => m_send_buffer'[i].to < tasks'[j].from
  BY <1>1 DEF InOrder
<1>7. \A i, j \in DOMAIN tasks' :
        i < j /\ tasks'[i].op = "send" /\ tasks'[j].op = "send" => tasks'[i].to < tasks'[j].from
  <2> TAKE i, j \in DOMAIN tasks'
  <2> HAVE i < j /\ tasks'[i].op = "send" /\ tasks'[j].op = "send"
  <2>1. i + k < j + k
    BY <1>2
  <2> QED BY <1>1, <2>1 DEF InOrder
<1>8. ASSUME NEW b \in (Len(wire') + 1)..given' PROVE Waits(b)'
  <2>1. b \in (Len(wire) + 1)..given /\ b \in Nat /\ b > Len(wire')
    BY <1>2, Numbers
  <2>2. ASSUME NEW i \in DOMAIN m_send_buffer, b \in m_send_buffer[i].from..m_send_buffer[i].to
        PROVE  Waits(b)'
    <3>1. i > d
      BY <2>1, <2>2, <1>2, Numbers
    <3>2. /\ i - d \in DOMAIN m_send_buffer'
          /\ b \in m_send_buffer'[i - d].from..m_send_buffer'[i - d].to
      BY <2>1, <2>2, <3>1, <1>2, Numbers
    <3> QED BY <3>2 DEF Waits
  <2>3. ASSUME NEW i \in DOMAIN tasks, Sending(i), b \in tasks[i].from..tasks[i].to
        PROVE  Waits(b)'
    <3>1. i > k
      BY <2>1, <2>3, <1>2, Numbers
    <3>2. i - k \in DOMAIN tasks' /\ tasks'[i - k] = tasks[i]
      BY <3>1 DEF Shifted
    <3> QED BY <2>3, <3>2 DEF Waits, Sending
  <2> QED BY <2>1, <2>2, <2>3 DEF AllWait, Waits, Sending
<1> QED BY <1>3, <1>4, <1>5, <1>6, <1>7, <1>8 DEF InOrder, Unsent, AllWait, Sending

(* The first task's message, or what is left of it, goes into the buffer.  *)
LEMMA MovedInOrder ==
  ASSUME Types, Types', InOrder, AllWait, given' = given, NEW ops, "send" \notin ops,
         Shifted(1, ops), 1 \in DOMAIN tasks, Sending(1), Len(wire) <= Len(wire'),
         NEW p \in Messages, m_send_buffer' = Append(m_send_buffer, p),
         tasks[1].from <= p.from, p.from <= p.to, p.to = tasks[1].to, Len(wire') < p.from,
         p.from = tasks[1].from \/ p.from = Len(wire') + 1,
         \A i \in DOMAIN m_send_buffer : Len(wire') < m_send_buffer[i].from
  PROVE  (InOrder /\ AllWait)'
<1> DEFINE n == Len(m_send_buffer)
<1>1. /\ n \in Nat /\ DOMAIN m_send_buffer = 1..n /\ DOMAIN m_send_buffer' = 1..(n + 1)
      /\ \A i \in 1..n : m_send_buffer'[i] = m_send_buffer[i]
      /\ m_send_buffer'[n + 1] = p
  BY BufferAppended DEF Types
<1> HIDE DEF n
<1>2. /\ Len(wire') \in Nat /\ DOMAIN tasks' \subseteq Nat \ {0} /\ p.from \in Nat /\ p.to \in Nat
  BY LenProperties DEF Types, Messages
<1>3. \A i \in DOMAIN tasks' : tasks'[i].op = "send" =>
        i + 1 \in DOMAIN tasks /\ Sending(i + 1) /\ tasks'[i] = tasks[i + 1] /\ 1 < i + 1
  BY <1>2 DEF Shifted, Sending
<1>4. ASSUME NEW i \in DOMAIN tasks, Sending(i), i > 1
      PROVE  tasks[1].to < tasks[i].from
  BY <1>4 DEF InOrder
<1>5. \A i \in DOMAIN m_send_buffer' : /\ Len(wire') < m_send_buffer'[i].from
                                       /\ m_send_buffer'[i].from <= m_send_buffer'[i].to
                                       /\ m_send_buffer'[i].to <= given'
  <2> TAKE i \in DOMAIN m_send_buffer'
  <2>1. CASE i \in 1..n
    BY <1>1, <2>1 DEF InOrder, Unsent
  <2>2. CASE i = n + 1
    BY <1>1, <2>2 DEF InOrder, Unsent
  <2> QED BY <1>1, <2>1, <2>2
<1>6. \A i \in DOMAIN tasks' : tasks'[i].op = "send" => /\ Len(wire') < tasks'[i].from
                                                        /\ tasks'[i].from <= tasks'[i].to
                                                        /\ tasks'[i].to <= given'
  <2> TAKE i \in DOMAIN tasks'
  <2> HAVE tasks'[i].op = "send"
  <2>1. tasks[1].to < tasks[i + 1].from /\ tasks'[i] = tasks[i + 1] /\ Unsent(tasks[i + 1])
        /\ tasks[i + 1].from \in Nat /\ tasks[1].to \in Nat
    BY <1>3, <1>4, Numbers DEF InOrder
  <2> QED BY <1>2, <2>1 DEF Unsent
<1>7. \A i, j \in DOMAIN m_send_buffer' : i < j => m_send_buffer'[i].to < m_send_buffer'[j].from
  <2> TAKE i, j \in DOMAIN m_send_buffer'
  <2> HAVE i < j
  <2>1. i \in 1..n /\ m_send_buffer'[i] = m_send_buffer[i]
    BY <1>1
  <2>2. CASE j \in 1..n
    BY <1>1, <2>1, <2>2 DEF InOrder
  <2>3. CASE j = n + 1
    <3>1. m_send_buffer[i].to < tasks[1].from
      BY <1>1, <2>1 DEF InOrder
    <3> QED BY <1>1, <1>2, <2>1, <2>3, <3>1, Numbers
  <2> QED BY <1>1, <2>2, <2>3
<1>8. \A i \in DOMAIN m_send_buffer', j \in DOMAIN tasks' :
        tasks'[j].op = "send" => m_send_buffer'[i].to < tasks'[j].from
  <2> TAKE i \in DOMAIN m_send_buffer', j \in DOMAIN tasks'
  <2> HAVE tasks'[j].op = "send"
  <2>1. CASE i \in 1..n
    BY <1>1, <1>3, <2>1 DEF InOrder
  <2>2. CASE i = n + 1
    BY <1>1, <1>3, <1>4, <2>2
  <2> QED BY <1>1, <2>1, <2>2
<1>9. \A i, j \in DOMAIN tasks' :
        i < j /\ tasks'[i].op = "send" /\ tasks'[j].op = "send" => tasks'[i].to < tasks'[j].from
  <2> TAKE i, j \in DOMAIN tasks'
  <2> HAVE i < j /\ tasks'[i].op = "send" /\ tasks'[j].op = "send"
  <2>1. i + 1 < j + 1
    BY <1>2
  <2> QED BY <1>3, <2>1 DEF InOrder
<1>10. ASSUME NEW b \in (Len(wire') + 1)..given' PROVE Waits(b)'
  <2>1. b \in (Len(wire) + 1)..given /\ b \in Nat /\ b > Len(wire')
    BY <1>2, Numbers
  <2>2. ASSUME NEW i \in DOMAIN m_send_buffer, b \in m_send_buffer[i].from..m_send_buffer[i].to
        PROVE  Waits(b)'
    <3>1. i \in DOMAIN m_send_buffer' /\ m_send_buffer'[i] = m_send_buffer[i]
      BY <1>1
    <3> QED BY <2>2, <3>1 DEF Waits
  <2>3. ASSUME NEW i \in DOMAIN tasks, Sending(i), b \in tasks[i].from..tasks[i].to
        PROVE  Waits(b)'
    <3>1. CASE i = 1
      <4>1. b \in p.from..p.to /\ n + 1 \in DOMAIN m_send_buffer'
        BY <1>1, <1>2, <2>1, <2>3, <3>1, Numbers
      <4> QED BY <1>1, <4>1 DEF Waits
    <3>2. CASE i > 1
      <4>1. i - 1 \in DOMAIN tasks' /\ tasks'[i - 1] = tasks[i]
        BY <3>2 DEF Shifted
      <4> QED BY <2>3, <4>1 DEF Waits, Sending
    <3> QED BY <3>1, <3>2, Numbers
  <2> QED BY <2>1, <2>2, <2>3 DEF AllWait, Waits, Sending
<1> QED BY <1>5, <1>6, <1>7, <1>8, <1>9, <1>10 DEF InOrder, Unsent, AllWait, Sending

(* The owner gives more bytes.                                             *)
LEMMA GivenInOrder ==
  ASSUME Types, Types', Ordered, NEW length \in 1..(MaxGiven - given), async_send(length)
  PROVE  Ordered'
<1> DEFINE t == SendTask(given + 1, given + length)
           n == Len(tasks)
<1>1. /\ UNCHANGED <<m_fd, m_send_buffer, peer, wire>> /\ given' = given + length
      /\ Produced(<<t>>)
  BY DEF async_send, OwnerDoes, kernel
<1>2. /\ given \in Nat /\ length \in Nat \ {0} /\ t \in Tasks /\ t.op = "send"
      /\ t.from = given + 1 /\ t.to = given + length
  <2>1. given \in Nat /\ length \in Nat \ {0}
    BY Numbers, SocketAssumption
  <2>2. given + 1 \in Nat /\ given + length \in Nat
    BY <2>1
  <2> QED BY <2>1, <2>2, PlainTasks
<1> HIDE DEF t
<1>3. /\ n \in Nat /\ DOMAIN tasks = 1..n /\ DOMAIN tasks' = 1..(n + 1)
      /\ \A i \in 1..n : tasks'[i] = tasks[i]
      /\ tasks'[n + 1] = t
  <2> DEFINE list == <<t>>
  <2>1. list \in Seq(Tasks) /\ Len(list) = 1 /\ list[1] = t /\ Produced(list)
    BY <1>1, <1>2
  <2> HIDE DEF list
  <2>2. /\ n \in Nat /\ DOMAIN tasks = 1..n /\ DOMAIN tasks' = 1..(n + Len(list))
        /\ \A i \in 1..n : tasks'[i] = tasks[i]
        /\ \A i \in 1..Len(list) : tasks'[n + i] = list[i]
    BY <2>1, ProducedIs DEF Types
  <2> QED BY <2>1, <2>2
<1> HIDE DEF n
<1>4. Len(wire) <= given'
  BY <1>1, <1>2, Numbers DEF Ordered
<1>5. ASSUME Sound PROVE (InOrder /\ AllWait)'
  <2>1. InOrder /\ AllWait
    BY <1>5 DEF Sound, Ordered
  <2>2. \A i \in DOMAIN m_send_buffer : Unsent(m_send_buffer[i])'
    BY <1>1, <1>2, <2>1, Numbers DEF InOrder, Unsent
  <2>3. ASSUME NEW i \in DOMAIN tasks', tasks'[i].op = "send"
        PROVE  /\ Len(wire) < tasks'[i].from /\ tasks'[i].from <= tasks'[i].to
               /\ tasks'[i].to <= given'
    <3>1. CASE i \in 1..n
      BY <1>1, <1>2, <1>3, <2>1, <2>3, <3>1, Numbers DEF InOrder, Unsent, Sending
    <3>2. CASE i = n + 1
      BY <1>1, <1>2, <1>3, <3>2, Numbers DEF Ordered
    <3> QED BY <1>3, <3>1, <3>2
  <2>4. ASSUME NEW i \in DOMAIN m_send_buffer, NEW j \in DOMAIN tasks', tasks'[j].op = "send"
        PROVE  m_send_buffer[i].to < tasks'[j].from
    <3>1. CASE j \in 1..n
      BY <1>3, <2>1, <2>4, <3>1 DEF InOrder, Sending
    <3>2. CASE j = n + 1
      BY <1>2, <1>3, <2>1, <3>2, Numbers DEF InOrder, Unsent
    <3> QED BY <1>3, <3>1, <3>2
  <2>5. ASSUME NEW i \in DOMAIN tasks', NEW j \in DOMAIN tasks', i < j,
               tasks'[i].op = "send", tasks'[j].op = "send"
        PROVE  tasks'[i].to < tasks'[j].from
    <3>1. i \in 1..n /\ tasks'[i] = tasks[i] /\ Sending(i)
      BY <1>3, <2>5 DEF Sending
    <3>2. CASE j \in 1..n
      BY <1>3, <2>1, <2>5, <3>1, <3>2 DEF InOrder, Sending
    <3>3. CASE j = n + 1
      BY <1>2, <1>3, <2>1, <3>1, <3>3, Numbers DEF InOrder, Unsent
    <3> QED BY <1>3, <3>2, <3>3
  <2>6. ASSUME NEW b \in (Len(wire) + 1)..given' PROVE Waits(b)'
    <3>1. CASE b <= given
      <4>1. Waits(b)
        BY <1>1, <1>2, <2>1, <3>1, Numbers DEF AllWait
      <4> QED BY <1>1, <1>3, <4>1 DEF Waits
    <3>2. CASE b > given
      <4>1. b \in t.from..t.to
        BY <1>1, <1>2, <3>2, Numbers
      <4>2. n + 1 \in DOMAIN tasks' /\ tasks'[n + 1].op = "send"
        BY <1>2, <1>3
      <4> QED BY <1>3, <4>1, <4>2 DEF Waits
    <3> QED BY <1>2, <3>1, <3>2, Numbers
  <2> QED BY <1>1, <2>1, <2>2, <2>3, <2>4, <2>5, <2>6 DEF InOrder, Unsent, AllWait, Sending
<1> QED BY <1>1, <1>4, <1>5 DEF Ordered, Sound

(* What is sent next is what follows the bytes on the wire.                *)
LEMMA NextFromQueue ==
  ASSUME Types, Ordered, Sound, Runs("send"), m_send_buffer = <<>>
  PROVE  tasks[1].from = Len(wire) + 1
<1>1. /\ 1 \in DOMAIN tasks /\ Sending(1) /\ Unsent(tasks[1]) /\ InOrder /\ AllWait
      /\ tasks[1].from \in Nat /\ tasks[1].to \in Nat /\ DOMAIN m_send_buffer = {}
  BY SendingNow, EmptySeq DEF Ordered, Sound, Sending
<1>2. Len(wire) + 1 \in (Len(wire) + 1)..given
  BY <1>1, Numbers DEF Unsent
<1>3. PICK i \in DOMAIN tasks : Sending(i) /\ Len(wire) + 1 \in tasks[i].from..tasks[i].to
  BY <1>1, <1>2 DEF AllWait, Waits, Sending
<1>4. CASE i = 1
  BY <1>1, <1>3, <1>4, Numbers DEF Unsent
<1>5. CASE i > 1
  <2>1. tasks[1].to < tasks[i].from
    BY <1>1, <1>3, <1>5 DEF InOrder
  <2> QED BY <1>1, <1>3, <2>1, Numbers DEF Unsent
<1> QED BY <1>4, <1>5, Numbers

LEMMA NextFromBuffer ==
  ASSUME Types, Ordered, Sound, m_send_buffer # <<>>
  PROVE  m_send_buffer[1].from = Len(wire) + 1
<1>1. /\ 1 \in DOMAIN m_send_buffer /\ Unsent(m_send_buffer[1]) /\ InOrder /\ AllWait
      /\ m_send_buffer[1].from \in Nat /\ m_send_buffer[1].to \in Nat
  BY WritingNow DEF Ordered, Sound
<1>2. Len(wire) + 1 \in (Len(wire) + 1)..given
  BY <1>1, Numbers DEF Unsent
<1>3. CASE \E i \in DOMAIN m_send_buffer :
             Len(wire) + 1 \in m_send_buffer[i].from..m_send_buffer[i].to
  <2>1. PICK i \in DOMAIN m_send_buffer :
               Len(wire) + 1 \in m_send_buffer[i].from..m_send_buffer[i].to
    BY <1>3
  <2>2. CASE i = 1
    BY <1>1, <2>1, <2>2, Numbers DEF Unsent
  <2>3. CASE i > 1
    <3>1. m_send_buffer[1].to < m_send_buffer[i].from
      BY <1>1, <2>3 DEF InOrder
    <3> QED BY <1>1, <2>1, <3>1, Numbers DEF Unsent
  <2> QED BY <2>2, <2>3, Numbers
<1>4. ASSUME NEW i \in DOMAIN tasks, Sending(i), Len(wire) + 1 \in tasks[i].from..tasks[i].to
      PROVE  FALSE
  <2>1. m_send_buffer[1].to < tasks[i].from
    BY <1>1, <1>4 DEF InOrder
  <2> QED BY <1>1, <1>4, <2>1, Numbers DEF Unsent
<1> QED BY <1>1, <1>2, <1>3, <1>4 DEF AllWait, Waits, Sending

LEMMA WireGrows ==
  ASSUME Types, Ordered, NEW m, m.from \in Nat, m.to \in Nat, m.from <= m.to,
         m.from = Len(wire) + 1, m.to <= given,
         NEW n \in 0..(m.to - m.from + 1), Sends(m, n)
  PROVE  /\ \A i \in DOMAIN wire' : wire'[i] = i
         /\ Len(wire') = Len(wire) + n /\ Len(wire') <= given
<1>1. /\ wire' \in Seq(Nat) /\ Len(wire') = Len(wire) + n /\ Len(wire) \in Nat
      /\ \A i \in 1..Len(wire) : wire'[i] = wire[i]
      /\ \A i \in 1..n : wire'[Len(wire) + i] = m.from + i - 1
  BY SendsTypes
<1>2. DOMAIN wire' = 1..(Len(wire) + n) /\ n \in Nat /\ DOMAIN wire = 1..Len(wire)
  BY <1>1, LenProperties, Numbers
<1>3. ASSUME NEW i \in DOMAIN wire' PROVE wire'[i] = i
  <2>1. CASE i \in 1..Len(wire)
    BY <1>1, <1>2, <2>1 DEF Ordered
  <2>2. CASE i > Len(wire)
    <3>1. i - Len(wire) \in 1..n /\ Len(wire) + (i - Len(wire)) = i
      BY <1>1, <1>2, <2>2
    <3>2. wire'[i] = m.from + (i - Len(wire)) - 1
      BY <1>1, <3>1
    <3> QED BY <1>1, <1>2, <3>2
  <2> QED BY <1>1, <1>2, <2>1, <2>2
<1>4. Len(wire') <= given
  BY <1>1, Numbers
<1> QED BY <1>1, <1>3, <1>4

LEMMA OrderedStays ==
  ASSUME Types, Types', Ordered, NEW k \in {0, 1}, NEW ops, "send" \notin ops, Shifted(k, ops),
         k = 1 /\ 1 \in DOMAIN tasks => tasks[1].op # "send",
         UNCHANGED <<wire, given, m_send_buffer>>, Sound' => Sound
  PROVE  Ordered'
<1>1. ASSUME Sound PROVE (InOrder /\ AllWait)'
  <2>1. InOrder /\ AllWait
    BY <1>1 DEF Sound, Ordered
  <2>2. \A i \in DOMAIN m_send_buffer : i + 0 = i /\ i - 0 = i
    BY Numbers
  <2>3. Len(wire) <= Len(wire)
    BY Numbers
  <2>4. \A i \in DOMAIN m_send_buffer' :
           /\ i + 0 \in DOMAIN m_send_buffer
           /\ m_send_buffer'[i].to = m_send_buffer[i + 0].to
           /\ m_send_buffer[i + 0].from <= m_send_buffer'[i].from
           /\ Len(wire') < m_send_buffer'[i].from /\ m_send_buffer'[i].from <= m_send_buffer'[i].to
    BY <2>1, <2>2, Numbers DEF InOrder, Unsent
  <2>5. \A i \in DOMAIN m_send_buffer : i > 0 =>
           /\ i - 0 \in DOMAIN m_send_buffer' /\ m_send_buffer'[i - 0].to = m_send_buffer[i].to
           /\ \/ m_send_buffer'[i - 0].from = m_send_buffer[i].from
              \/ m_send_buffer'[i - 0].from = Len(wire') + 1
    BY <2>2
  <2>6. \A i \in DOMAIN tasks : Sending(i) => Len(wire') < tasks[i].from
    BY <2>1 DEF InOrder, Unsent
  <2> QED BY <2>1, <2>3, <2>4, <2>5, <2>6, TrimmedInOrder DEF Sending
<1> QED BY <1>1 DEF Ordered, Sound

(* After a break nothing is sent.                                          *)
LEMMA OrderedWhenDown ==
  ASSUME Types, Ordered, UNCHANGED <<wire, given>>, ~Sound'
  PROVE  Ordered'
BY DEF Ordered, Sound

LEMMA WrittenInOrder ==
  ASSUME Types, Types', Ordered, write_front
  PROVE  Ordered'
<1> DEFINE m == Head(m_send_buffer)
<1>1. PICK n \in 0..(m.to - m.from + 1) :
        /\ Sends(m, n)
        /\ IF n <= m.to - m.from THEN m_send_buffer' = LeftFirst(m, n)
                                 ELSE m_send_buffer' = Tail(m_send_buffer)
  BY DEF write_front
<1>2. /\ Sound /\ Sound' /\ m_send_buffer # <<>> /\ given' = given /\ Runs("write") /\ RunTask
      /\ InOrder /\ AllWait
  BY <1>1 DEF write_front, Sends, Writes, Sockets, Sound, RunTask, Ordered
<1>3. /\ m = m_send_buffer[1] /\ m.from \in Nat /\ m.to \in Nat /\ Unsent(m)
      /\ m.from = Len(wire) + 1 /\ 1 \in DOMAIN m_send_buffer
  BY <1>2, WritingNow, NextFromBuffer DEF Sound
<1> HIDE DEF m
<1>4. /\ \A i \in DOMAIN wire' : wire'[i] = i
      /\ Len(wire') = Len(wire) + n /\ Len(wire') <= given
  BY <1>1, <1>3, WireGrows DEF Unsent
<1>5. PICK k \in {0, 1} : Shifted(k, {"close"})
  BY <1>2, RunTaskShifts
<1>6. tasks[1].op # "send"
  BY <1>2, FirstTask
<1>7. \A i \in DOMAIN tasks : Sending(i) => m.to < tasks[i].from
  BY <1>2, <1>3 DEF InOrder
<1>8. n \in Nat /\ Len(wire') \in Nat /\ Len(wire') <= m.to /\ Len(wire) <= Len(wire')
  BY <1>3, <1>4, Numbers
<1>9. \A i \in DOMAIN tasks : Sending(i) => Len(wire') < tasks[i].from
  BY <1>3, <1>7, <1>8, Numbers
<1>10. \A i \in DOMAIN m_send_buffer : i > 1 => m.to < m_send_buffer[i].from
  BY <1>2, <1>3 DEF InOrder
<1>11. (InOrder /\ AllWait)'
  <2>1. CASE n <= m.to - m.from
    <3>1. Left(m, n) \in Messages /\ Left(m, n).from = m.from + n /\ Left(m, n).to = m.to
          /\ Left(m, n).from <= Left(m, n).to
      <4>1. n \in 0..(m.to - m.from) /\ m.from <= m.to
        BY <1>3, <2>1 DEF Unsent
      <4> QED BY <1>3, <4>1, LeftTypes
    <3>2. m_send_buffer' = <<Left(m, n)>> \o Tail(m_send_buffer) /\ m_send_buffer \in Seq(Messages)
      BY <1>1, <2>1 DEF LeftFirst, Types
    <3>3. /\ DOMAIN m_send_buffer' = 1..Len(m_send_buffer) /\ m_send_buffer'[1] = Left(m, n)
          /\ \A i \in 2..Len(m_send_buffer) : m_send_buffer'[i] = m_send_buffer[i]
          /\ DOMAIN m_send_buffer = 1..Len(m_send_buffer) /\ Len(m_send_buffer) \in Nat
      BY <1>2, <3>1, <3>2, FrontIs, TailIs
    <3>4. Len(wire') + 1 = m.from + n
      BY <1>3, <1>4, Numbers
    <3>5. \A i \in DOMAIN m_send_buffer' :
           /\ i + 0 \in DOMAIN m_send_buffer
           /\ m_send_buffer'[i].to = m_send_buffer[i + 0].to
           /\ m_send_buffer[i + 0].from <= m_send_buffer'[i].from
           /\ Len(wire') < m_send_buffer'[i].from /\ m_send_buffer'[i].from <= m_send_buffer'[i].to
      <4> TAKE i \in DOMAIN m_send_buffer'
      <4>1. CASE i = 1
        <5>1. /\ i + 0 \in DOMAIN m_send_buffer /\ m_send_buffer[i + 0] = m
              /\ m_send_buffer'[i] = Left(m, n)
          BY <1>3, <3>3, <4>1
        <5>2. m.from <= Left(m, n).from /\ Len(wire') < Left(m, n).from
          BY <1>3, <1>8, <3>1, <3>4
        <5> QED BY <3>1, <5>1, <5>2
      <4>2. CASE i \in 2..Len(m_send_buffer)
        <5>1. /\ i \in DOMAIN m_send_buffer /\ i + 0 = i /\ i > 1
              /\ m_send_buffer'[i] = m_send_buffer[i]
          BY <3>3, <4>2
        <5>2. Unsent(m_send_buffer[i]) /\ m.to < m_send_buffer[i].from
          BY <1>2, <1>10, <5>1 DEF InOrder
        <5>3. m_send_buffer[i].from \in Nat /\ m_send_buffer[i].to \in Nat
          BY <5>1, Numbers
        <5>4. Len(wire') < m_send_buffer[i].from
          BY <1>3, <1>8, <5>2, <5>3
        <5> QED BY <5>1, <5>2, <5>3, <5>4 DEF Unsent
      <4> QED BY <3>3, <4>1, <4>2
    <3>6. \A i \in DOMAIN m_send_buffer : i > 0 =>
           /\ i - 0 \in DOMAIN m_send_buffer' /\ m_send_buffer'[i - 0].to = m_send_buffer[i].to
           /\ \/ m_send_buffer'[i - 0].from = m_send_buffer[i].from
              \/ m_send_buffer'[i - 0].from = Len(wire') + 1
      <4> TAKE i \in DOMAIN m_send_buffer
      <4>1. CASE i = 1
        BY <1>3, <3>1, <3>3, <3>4, <4>1
      <4>2. CASE i \in 2..Len(m_send_buffer)
        BY <3>3, <4>2
      <4> QED BY <3>3, <4>1, <4>2
    <3> QED BY <1>2, <1>5, <1>6, <1>8, <1>9, <3>5, <3>6, TrimmedInOrder DEF Sending
  <2>2. CASE ~(n <= m.to - m.from)
    <3>1. m_send_buffer' = Tail(m_send_buffer) /\ m_send_buffer \in Seq(Messages)
      BY <1>1, <2>2 DEF Types
    <3>2. /\ DOMAIN m_send_buffer = 1..Len(m_send_buffer) /\ Len(m_send_buffer) \in Nat \ {0}
          /\ DOMAIN m_send_buffer' = 1..(Len(m_send_buffer) - 1)
          /\ \A i \in 1..(Len(m_send_buffer) - 1) : m_send_buffer'[i] = m_send_buffer[i + 1]
      BY <1>2, <3>1, TailIs
    <3>3. \A i \in DOMAIN m_send_buffer' :
           /\ i + 1 \in DOMAIN m_send_buffer
           /\ m_send_buffer'[i].to = m_send_buffer[i + 1].to
           /\ m_send_buffer[i + 1].from <= m_send_buffer'[i].from
           /\ Len(wire') < m_send_buffer'[i].from /\ m_send_buffer'[i].from <= m_send_buffer'[i].to
      <4> TAKE i \in DOMAIN m_send_buffer'
      <4>1. i + 1 \in DOMAIN m_send_buffer /\ i + 1 > 1 /\ m_send_buffer'[i] = m_send_buffer[i + 1]
        BY <3>2
      <4> QED BY <1>2, <1>3, <1>8, <1>10, <4>1, Numbers DEF InOrder, Unsent
    <3>4. \A i \in DOMAIN m_send_buffer : i > 1 =>
           /\ i - 1 \in DOMAIN m_send_buffer' /\ m_send_buffer'[i - 1].to = m_send_buffer[i].to
           /\ m_send_buffer'[i - 1].from = m_send_buffer[i].from
      <4> TAKE i \in DOMAIN m_send_buffer
      <4> HAVE i > 1
      <4>1. i - 1 \in 1..(Len(m_send_buffer) - 1) /\ (i - 1) + 1 = i
        BY <3>2
      <4> QED BY <3>2, <4>1
    <3>5. m_send_buffer[1].to <= Len(wire')
      BY <1>3, <1>4, <2>2, Numbers
    <3> QED BY <1>2, <1>5, <1>6, <1>8, <1>9, <3>3, <3>4, <3>5, TrimmedInOrder DEF Sending
  <2> QED BY <2>1, <2>2
<1> QED BY <1>2, <1>4, <1>11 DEF Ordered

(* A message goes to the kernel as it comes from the queue, or to the end  *)
(* of the buffer, or the rest of it does.                                  *)
LEMMA QueueShortened ==
  ASSUME Types, tasks # <<>>, Done(<<>>)
  PROVE  Shifted(1, {})
<1>1. \A i \in 1..Len(<<>>) : (<<>>)[i].op \in {}
  BY ShortLists
<1> QED BY <1>1, ShortLists, DoneShifts

LEMMA SentInOrder ==
  ASSUME Types, Types', Ordered, send_impl
  PROVE  Ordered'
<1> DEFINE m == Left(Head(tasks), 0)
<1>1. /\ Runs("send") /\ m_fd = "open" /\ m_send_buffer = <<>> /\ Done(<<>>)
      /\ tasks # <<>> /\ UNCHANGED <<given, m_fd, peer>>
  BY DEF send_impl, NobodyWaits, Writes, Sockets, Runs
<1>2. PICK n \in 0..(m.to - m.from + 1) :
        /\ Sends(m, n)
        /\ m_send_buffer' = IF n <= m.to - m.from THEN Append(m_send_buffer, Left(m, n))
                                                  ELSE m_send_buffer
  BY DEF send_impl
<1>3. Sound /\ Sound' /\ InOrder /\ AllWait
  BY <1>1, <1>2 DEF Sends, Sound, Ordered
<1>4. /\ m.from = tasks[1].from /\ m.to = tasks[1].to /\ m.from \in Nat /\ m.to \in Nat
      /\ Unsent(tasks[1]) /\ 1 \in DOMAIN tasks /\ Sending(1)
      /\ m.from = Len(wire) + 1
  BY <1>1, <1>3, SendingNow, NextFromQueue DEF Sound, Sending
<1> HIDE DEF m
<1>5. Len(wire) < m.from /\ m.from <= m.to /\ m.to <= given
  BY <1>4 DEF Unsent
<1>6. /\ \A i \in DOMAIN wire' : wire'[i] = i
      /\ Len(wire') = Len(wire) + n /\ Len(wire') <= given
  BY <1>2, <1>4, <1>5, WireGrows
<1>7. n \in Nat /\ Len(wire') \in Nat /\ Len(wire) <= Len(wire') /\ Len(wire) \in Nat
  BY <1>4, <1>6, Numbers
<1>8. Shifted(1, {}) /\ DOMAIN m_send_buffer = {}
  BY <1>1, QueueShortened
<1>9. (InOrder /\ AllWait)'
  <2>1. CASE n <= m.to - m.from
    <3>1. n \in 0..(m.to - m.from)
      BY <1>4, <1>7, <2>1
    <3>2. /\ Left(m, n) \in Messages /\ Left(m, n).from = m.from + n /\ Left(m, n).to = m.to
          /\ Left(m, n).from <= Left(m, n).to
      BY <1>4, <1>5, <3>1, LeftTypes
    <3>3. /\ m_send_buffer' = Append(m_send_buffer, Left(m, n))
          /\ tasks[1].from <= Left(m, n).from /\ Left(m, n).to = tasks[1].to
          /\ Left(m, n).from = Len(wire') + 1 /\ Len(wire') < Left(m, n).from
      BY <1>2, <1>4, <1>6, <1>7, <2>1, <3>2
    <3> QED BY <1>1, <1>3, <1>4, <1>7, <1>8, <3>2, <3>3, MovedInOrder
  <2>2. CASE ~(n <= m.to - m.from)
    <3>1. m_send_buffer' = m_send_buffer /\ tasks[1].to <= Len(wire') /\ Len(wire') = tasks[1].to
      BY <1>2, <1>4, <1>6, <1>7, <2>2
    <3>2. \A i \in DOMAIN tasks : i > 1 /\ Sending(i) => Len(wire') < tasks[i].from
      BY <1>3, <1>4, <3>1 DEF InOrder
    <3> QED BY <1>1, <1>3, <1>4, <1>7, <1>8, <3>1, <3>2, TrimmedInOrder
  <2> QED BY <2>1, <2>2
<1> QED BY <1>1, <1>6, <1>9 DEF Ordered

LEMMA LaterInOrder ==
  ASSUME Types, Types', Ordered, send_later
  PROVE  Ordered'
<1>1. /\ Runs("send") /\ m_fd = "open" /\ Done(<<>>) /\ tasks # <<>>
      /\ UNCHANGED <<given, m_fd, peer, wire>>
      /\ m_send_buffer' = Append(m_send_buffer, Left(Head(tasks), 0))
  BY DEF send_later, Writes, Sockets, Runs
<1>2. CASE Sound
  <2> DEFINE p == Left(Head(tasks), 0)
  <2>1. /\ p \in Messages /\ p.from = tasks[1].from /\ p.to = tasks[1].to
        /\ Unsent(tasks[1]) /\ 1 \in DOMAIN tasks /\ Sending(1)
        /\ tasks[1].from \in Nat /\ tasks[1].to \in Nat
        /\ m_send_buffer' = Append(m_send_buffer, p)
    BY <1>1, <1>2, SendingNow DEF Sound, Sending
  <2> HIDE DEF p
  <2>2. InOrder /\ AllWait /\ Shifted(1, {}) /\ Len(wire) <= Len(wire') /\ wire' = wire
    BY <1>1, <1>2, QueueShortened, Numbers DEF Ordered, Sound
  <2>3. /\ tasks[1].from <= p.from /\ p.from <= p.to /\ Len(wire') < p.from
        /\ \A i \in DOMAIN m_send_buffer : Len(wire') < m_send_buffer[i].from
    BY <2>1, <2>2 DEF InOrder, Unsent
  <2>4. (InOrder /\ AllWait)'
    BY <1>1, <2>1, <2>2, <2>3, MovedInOrder
  <2> QED BY <1>1, <2>4 DEF Ordered
<1>3. CASE ~Sound
  <2>1. ~Sound'
    BY <1>1, <1>3 DEF Sound
  <2> QED BY <1>1, <2>1, OrderedWhenDown
<1> QED BY <1>2, <1>3

(* The loop may put calls of handle_error in the queue.                    *)
LEMMA InterruptShifts ==
  ASSUME Types, ToldOnce, fd_del_callback
  PROVE  Shifted(0, {"error"})
<1> DEFINE list == [i \in 1..m_error_fd_set |-> Task("error")]
<1>1. m_error_fd_set \in Nat /\ Produced(list)
  BY DEF fd_del_callback, ToldOnce
<1>2. list \in [1..m_error_fd_set -> Tasks]
  BY PlainTasks
<1>3. list \in Seq(Tasks) /\ Len(list) = m_error_fd_set
  BY <1>1, <1>2, SeqDef
<1>4. \A i \in 1..Len(list) : list[i].op \in {"error"}
  BY <1>3, PlainTasks
<1> HIDE DEF list
<1> QED BY <1>1, <1>3, <1>4, ProducedShifts

LEMMA OrderedKept ==
  ASSUME Types, Types', ToldOnce, Ordered, [Next]_vars
  PROVE  Ordered'
<1>1. CASE Peer \/ epoll_wait \/ handle_event_of_deleted \/ task_of_deleted \/ UNCHANGED vars
  <2>1. UNCHANGED <<wire, given, m_send_buffer, tasks>> /\ (Sound' => Sound)
    BY <1>1 DEF Peer, peer_sends, peer_shuts_down, peer_resets, peer_reads, KernelChanges,
                epoll_wait, handle_event_of_deleted, Handled, task_of_deleted, vars, loop, kernel, Sound
  <2>2. tasks[1].op # "send" \/ 0 # 1
    OBVIOUS
  <2> QED BY <2>1, SameShifts, OrderedStays
<1>2. CASE Owner
  <2>1. ASSUME NEW length \in 1..(MaxGiven - given), async_send(length) PROVE Ordered'
    BY <2>1, GivenInOrder
  <2>2. CASE close \/ safe_delete
    <3>1. UNCHANGED <<wire, given, m_send_buffer>> /\ (Sound' => Sound)
      BY <2>2 DEF close, safe_delete, OwnerDoes, loop, kernel, Sound
    <3>2. Shifted(0, {"close"}) \/ Shifted(0, {"delete"})
      BY <2>2, PlainTasks, OneShifts DEF close, safe_delete, OwnerDoes
    <3> QED BY <3>1, <3>2, OrderedStays
  <2> QED BY <1>2, <2>1, <2>2 DEF Owner
<1>3. CASE close_impl \/ read_some \/ read_ends \/ read_nothing \/ write_nothing
             \/ handle_error \/ deleted
  <2>1. UNCHANGED <<wire, given, m_send_buffer>> /\ (Sound' => Sound)
    BY <1>3 DEF close_impl, read_some, read_ends, read_nothing, write_nothing, handle_error,
                deleted, Reads, Writes, Sockets, loop, kernel, FdGone, Sound
  <2>2. PICK k \in {0, 1} : Shifted(k, {"close"})
    BY <1>3, RunTaskShifts DEF RunTask
  <2>3. PICK o \in {"close", "read", "write", "error", "delete"} : Runs(o)
    BY <1>3 DEF close_impl, read_some, read_ends, read_nothing, write_nothing, handle_error,
                deleted
  <2>4. tasks[1].op # "send"
    BY <2>3, FirstTask
  <2> QED BY <2>1, <2>2, <2>4, OrderedStays
<1>4. CASE send_dropped \/ send_fails
  <2>1. UNCHANGED <<wire, given>> /\ ~Sound'
    BY <1>4 DEF send_dropped, send_fails, Writes, Sockets, Sound
  <2> QED BY <2>1, OrderedWhenDown
<1>5. CASE handle_event \/ fd_del_callback
  <2>1. UNCHANGED <<wire, given, m_send_buffer>> /\ (Sound' => Sound)
    BY <1>5 DEF handle_event, fd_del_callback, Handled, kernel, Sound
  <2>2. PICK ops \in {AllEvents, {"error"}} : Shifted(0, ops)
    BY <1>5, EventShifts, InterruptShifts
  <2>3. "send" \notin ops
    BY DEF AllEvents
  <2> QED BY <2>1, <2>2, <2>3, OrderedStays
<1> QED BY <1>1, <1>2, <1>3, <1>4, <1>5, WrittenInOrder, SentInOrder, LaterInOrder
        DEF Next, RunTask, EventLoop

-----------------------------------------------------------------------------
(* The invariant holds in the beginning, and every step keeps it.          *)
LEMMA InitInv == ASSUME Init PROVE Inv
<1>1. /\ <<>> \in Seq(Messages) /\ <<>> \in Seq(Tasks) /\ <<>> \in Seq(Happened)
      /\ <<>> \in Seq(Nat) /\ Len(<<>>) = 0 /\ DOMAIN <<>> = {}
  OBVIOUS
<1>2. 0 \in 0..MaxHeard /\ 0 \in 0..MaxGiven /\ 0 + 0 <= MaxHeard
  BY SocketAssumption
<1>3. Types
  BY <1>1, <1>2 DEF Init, Types, TypeOK
<1>4. ToldOnce /\ ClosedFirst
  BY <1>1 DEF Init, ToldOnce, ClosedFirst
<1>5. NoEventLost
  BY DEF Init, NoEventLost, AllWillBeRead, AllWillBeSent, Coming
<1>6. Ordered
  <2>1. given = 0 /\ wire = <<>> /\ m_send_buffer = <<>> /\ tasks = <<>> /\ (Len(wire) + 1)..given = {}
    BY <1>1 DEF Init
  <2> QED BY <1>1, <2>1 DEF Ordered, InOrder, AllWait
<1> QED BY <1>3, <1>4, <1>5, <1>6 DEF Inv

LEMMA NextInv == ASSUME Inv, [Next]_vars PROVE Inv'
<1>1. Types'
  BY TypesKept DEF Inv
<1>2. ToldOnce' /\ ClosedFirst' /\ NoEventLost' /\ Ordered'
  BY <1>1, TellingKept, EventsKept, OrderedKept DEF Inv
<1> QED BY <1>1, <1>2 DEF Inv

LEMMA Invariant == Spec => []Inv
<1>1. Init => Inv
  BY InitInv
<1>2. Inv /\ [Next]_vars => Inv'
  BY NextInv
<1> QED BY <1>1, <1>2, PTL DEF Spec

(* The state of a connection has the types of the code.                    *)
THEOREM TypeCorrect == Spec => []TypeOK
<1>1. Inv => TypeOK
  BY DEF Inv, Types
<1> QED BY <1>1, Invariant, PTL

(* Whatever the peer, the owner and the kernel do and in whatever order    *)
(* the three threads run, an edge-triggered event that socket_impl_t needs *)
(* is not lost: something that is read, or sent, later has its task coming.*)
THEOREM EventsArrive == Spec => []NoEventLost
<1>1. Inv => NoEventLost
  BY DEF Inv
<1> QED BY <1>1, Invariant, PTL

(* However the kernel cuts the messages up, m_send_buffer and the task     *)
(* queue keep the bytes in the order of the calls of async_send, and none  *)
(* is missing or sent twice.                                               *)
THEOREM BytesLeaveInOrder == Spec => []BytesInOrder
<1>1. ASSUME Inv PROVE BytesInOrder
  <2>1. Types /\ Ordered
    BY <1>1 DEF Inv
  <2>2. ASSUME Sound, NEW b \in 1..given PROVE Waits(b) <=> b > Len(wire)
    <3>1. InOrder /\ AllWait /\ b \in Nat
      BY <2>1, <2>2 DEF Ordered, Sound
    <3>2. ASSUME b > Len(wire) PROVE Waits(b)
      BY <2>1, <2>2, <3>1, <3>2, Numbers DEF AllWait
    <3>3. ASSUME NEW i \in DOMAIN m_send_buffer, b \in m_send_buffer[i].from..m_send_buffer[i].to
          PROVE  b > Len(wire)
      BY <2>1, <3>1, <3>3, Numbers DEF InOrder, Unsent
    <3>4. ASSUME NEW i \in DOMAIN tasks, Sending(i), b \in tasks[i].from..tasks[i].to
          PROVE  b > Len(wire)
      BY <2>1, <3>1, <3>4, Numbers DEF InOrder, Unsent
    <3> QED BY <3>2, <3>3, <3>4 DEF Waits, Sending
  <2> QED BY <2>1, <2>2 DEF BytesInOrder, Ordered, Sound
<1> QED BY <1>1, Invariant, PTL

-----------------------------------------------------------------------------
(* Every step is one of the abstract link, or none.                        *)
LinkVars == <<m_fd = "open", told, given, Len(wire), heard>>

LinkSame == UNCHANGED <<m_fd, told, given, wire, heard>>

LEMMA StutterSteps ==
  ASSUME Peer \/ close \/ safe_delete \/ EventLoop \/ read_ends \/ read_nothing \/ write_nothing
         \/ send_later \/ send_dropped \/ send_fails \/ deleted \/ task_of_deleted \/ UNCHANGED vars
  PROVE  LinkSame
<1>1. CASE Peer
  BY <1>1 DEF Peer, peer_sends, peer_shuts_down, peer_resets, peer_reads, KernelChanges, LinkSame
<1>2. CASE close \/ safe_delete
  BY <1>2 DEF close, safe_delete, OwnerDoes, LinkSame
<1>3. CASE EventLoop
  BY <1>3 DEF EventLoop, epoll_wait, fd_del_callback, handle_event, handle_event_of_deleted,
              Handled, LinkSame
<1>4. CASE read_ends \/ read_nothing \/ write_nothing \/ send_later \/ send_dropped \/ send_fails
           \/ deleted
  BY <1>4 DEF read_ends, read_nothing, write_nothing, send_later, send_dropped, send_fails,
              deleted, Reads, Writes, Sockets, LinkSame
<1>5. CASE task_of_deleted \/ UNCHANGED vars
  BY <1>5 DEF task_of_deleted, vars, LinkSame
<1> QED BY <1>1, <1>2, <1>3, <1>4, <1>5

(* A system call takes some bytes, or none.                                *)
LEMMA SomeTaken ==
  ASSUME Types, NEW m, m.from \in Nat, m.to \in Nat, m.from <= m.to,
         NEW n \in 0..(m.to - m.from + 1), Sends(m, n)
  PROVE  \E k \in Nat : Len(wire') = Len(wire) + k /\ (k = 0 => wire' = wire)
<1>1. /\ wire' \in Seq(Nat) /\ Len(wire') = Len(wire) + n /\ Len(wire) \in Nat
      /\ \A i \in 1..Len(wire) : wire'[i] = wire[i]
  BY SendsTypes
<1>2. n \in Nat
  BY Numbers
<1>3. ASSUME n = 0 PROVE wire' = wire
  <2>1. wire \in Seq(Nat) /\ Len(wire') = Len(wire)
    BY <1>1, <1>3 DEF Types
  <2> QED BY <1>1, <2>1, SeqEqual
<1> QED BY <1>1, <1>2, <1>3

LEMMA SendingSteps ==
  ASSUME Inv, Inv', write_front \/ send_impl
  PROVE  Link!Leave \/ LinkSame
<1>1. UNCHANGED <<m_fd, told, given, heard>> /\ m_fd = "open"
  BY DEF write_front, send_impl, Writes, Sockets
<1>2. Types /\ Ordered /\ Len(wire') <= given' /\ Len(wire') \in Nat /\ given \in Nat
  BY Numbers, LenProperties DEF Inv, Ordered, Types
<1>3. \E k \in Nat : Len(wire') = Len(wire) + k /\ (k = 0 => wire' = wire)
  <2>1. CASE write_front
    <3> DEFINE m == Head(m_send_buffer)
    <3>1. PICK n \in 0..(m.to - m.from + 1) : Sends(m, n)
      BY <2>1 DEF write_front
    <3>2. m.from \in Nat /\ m.to \in Nat /\ m.from <= m.to
      BY <1>1, <1>2, <2>1, <3>1, WritingNow DEF write_front, Sends, Unsent
    <3> HIDE DEF m
    <3> QED BY <1>2, <3>1, <3>2, SomeTaken
  <2>2. CASE send_impl
    <3> DEFINE m == Left(Head(tasks), 0)
    <3>1. PICK n \in 0..(m.to - m.from + 1) : Sends(m, n)
      BY <2>2 DEF send_impl
    <3>2. m.from \in Nat /\ m.to \in Nat /\ m.from <= m.to
      BY <1>1, <1>2, <2>2, <3>1, SendingNow DEF send_impl, Sends, Unsent
    <3> HIDE DEF m
    <3> QED BY <1>2, <3>1, <3>2, SomeTaken
  <2> QED BY <2>1, <2>2
<1>4. PICK k \in Nat : Len(wire') = Len(wire) + k /\ (k = 0 => wire' = wire)
  BY <1>3
<1>5. CASE k = 0
  BY <1>1, <1>4, <1>5 DEF LinkSame
<1>6. CASE k # 0
  <2>1. Len(wire') \in (Len(wire) + 1)..given
    BY <1>1, <1>2, <1>4, <1>6, Numbers
  <2>2. (m_fd = "open")' <=> (m_fd = "open")
    BY <1>1
  <2> QED BY <1>1, <2>1, <2>2 DEF Link!Leave
<1> QED BY <1>5, <1>6

LEMMA GivingSteps ==
  ASSUME Inv, Inv', NEW length \in 1..(MaxGiven - given), async_send(length)
  PROVE  Link!Give
<1>1. UNCHANGED <<m_fd, told, wire, heard>> /\ given' = given + length
  BY DEF async_send, OwnerDoes
<1>2. given' \in (given + 1)..MaxGiven
  BY <1>1, SocketAssumption DEF Inv, Types, TypeOK
<1>3. (m_fd = "open")' <=> (m_fd = "open")
  BY <1>1
<1> QED BY <1>1, <1>2, <1>3 DEF Link!Give

LEMMA HearingSteps ==
  ASSUME Inv, Inv', read_some
  PROVE  Link!Hear
<1>1. /\ UNCHANGED <<m_fd, told, given, wire>> /\ m_fd = "open" /\ rcv > 0
      /\ heard' = heard + ReadNow
  BY DEF read_some, Reads, Sockets
<1>2. heard' \in (heard + 1)..MaxHeard
  <2>1. rcv \in Nat /\ heard \in Nat /\ heard' \in 0..MaxHeard
    BY SocketAssumption DEF Inv, Types, TypeOK
  <2>2. ReadNow \in Nat \ {0}
    BY <1>1, <2>1, SocketAssumption DEF ReadNow
  <2> QED BY <1>1, <2>1, <2>2, SocketAssumption
<1>3. (m_fd = "open")' <=> (m_fd = "open")
  BY <1>1
<1> QED BY <1>1, <1>2, <1>3 DEF Link!Hear

LEMMA ClosingSteps ==
  ASSUME close_impl
  PROVE  Link!Down \/ LinkSame
<1>1. UNCHANGED <<told, given, wire, heard>>
  BY DEF close_impl, Sockets
<1>2. CASE m_fd = "open"
  <2>1. (m_fd = "open")' <=> FALSE
    BY <1>2 DEF close_impl, FdGone
  <2> QED BY <1>1, <1>2, <2>1 DEF Link!Down
<1>3. CASE m_fd # "open"
  BY <1>1, <1>3 DEF close_impl, LinkSame
<1> QED BY <1>2, <1>3

LEMMA TellingSteps ==
  ASSUME Inv, Inv', handle_error
  PROVE  Link!Tell
<1>1. UNCHANGED <<m_fd, given, wire, heard>> /\ told' = told + 1 /\ Runs("error")
  BY DEF handle_error
<1>2. told = 0 /\ told' = 1
  BY <1>1 DEF Inv, ToldOnce
<1>3. 1 \in DOMAIN tasks /\ tasks[1].op = "error"
  BY <1>1, FirstTask DEF Inv
<1>4. m_fd # "open"
  BY <1>3 DEF Inv, ClosedFirst
<1>5. (m_fd = "open")' <=> (m_fd = "open")
  BY <1>1
<1> QED BY <1>1, <1>2, <1>4, <1>5 DEF Link!Tell

(* The owner of a socket_impl_t may take it for the link of ByteLink: the  *)
(* bytes leave in order, none after the break, of which it is told once.   *)
THEOREM LinkImplemented == Spec => ImplementsLink
<1>1. Init => Link!Init
  <2> SUFFICES ASSUME Init PROVE Link!Init
    OBVIOUS
  <2>1. Len(wire) = 0 /\ (m_fd = "open" <=> TRUE) /\ told = 0 /\ given = 0 /\ heard = 0
    BY DEF Init
  <2> QED BY <2>1 DEF Link!Init
<1>2. Inv /\ Inv' /\ [Next]_vars => [Link!Next]_LinkVars
  <2> SUFFICES ASSUME Inv, Inv', [Next]_vars PROVE Link!Next \/ LinkSame
    BY DEF LinkSame, LinkVars
  <2>1. CASE Owner
    BY <2>1, GivingSteps, StutterSteps DEF Owner, Link!Next
  <2>2. CASE RunTask
    BY <2>2, StutterSteps, SendingSteps, HearingSteps, ClosingSteps, TellingSteps
       DEF RunTask, Link!Next
  <2>3. CASE Peer \/ EventLoop \/ task_of_deleted \/ UNCHANGED vars
    BY <2>3, StutterSteps
  <2> QED BY <2>1, <2>2, <2>3 DEF Next
<1> QED BY <1>1, <1>2, Invariant, PTL DEF Spec, ImplementsLink, Link!Spec, LinkVars
=============================================================================
