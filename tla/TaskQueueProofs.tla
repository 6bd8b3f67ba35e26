-------------------------- MODULE TaskQueueProofs --------------------------
(***************************************************************************)
(* Theorems about TaskQueue, for any tasks and threads.                    *)
(***************************************************************************)
EXTENDS TaskQueue, SequenceTheorems, FiniteSetTheorems, TLAPS

-----------------------------------------------------------------------------
(* What a produced list is.                                                *)
LEMMA NewListsTyped ==
  ASSUME NEW list \in NewLists
  PROVE  list \in BoundedSeq(Tasks, MaxBatch) /\ list \in Seq(Tasks)
<1>1. PICK n \in 0..MaxBatch : list \in [1..n -> New]
  BY DEF NewLists, BoundedSeq, SeqOf
<1>2. n \in Nat /\ list \in [1..n -> Tasks]
  BY <1>1, TaskQueueAssumption DEF New
<1>3. list \in Seq(Tasks)
  BY <1>2, IsASeq
<1> QED BY <1>1, <1>2, <1>3 DEF BoundedSeq, SeqOf

LEMMA OneTaskTyped ==
  ASSUME NEW k \in New
  PROVE  <<k>> \in BoundedSeq(Tasks, MaxBatch) /\ <<k>> \in Seq(Tasks)
<1>1. k \in Tasks /\ 1 \in 0..MaxBatch
  BY TaskQueueAssumption DEF New
<1>2. <<k>> \in [1..1 -> Tasks]
  BY <1>1
<1> QED BY <1>1, <1>2 DEF BoundedSeq, SeqOf

-----------------------------------------------------------------------------
(* The state keeps its types.                                              *)
LEMMA SignalledTyped ==
  ASSUME TypeOK, Signalled
  PROVE  state' \in [Threads -> {"running", "waiting", "ended"}]
<1>1. CASE Waiting = {}
  BY <1>1 DEF TypeOK, Signalled
<1>2. CASE Waiting # {}
  BY <1>2 DEF TypeOK, Signalled
<1> QED BY <1>1, <1>2

LEMMA MultiProduceTyped ==
  ASSUME TypeOK, NEW list \in Seq(Tasks), multi_produce(list)
  PROVE  TypeOK'
<1>1. m_tasklist' \in Seq(Tasks) /\ produced' \in Seq(Tasks)
  BY ConcatProperties DEF TypeOK, multi_produce, PushedBack
<1>2. onTime' \subseteq Tasks
  <2>1. \A i \in DOMAIN list : list[i] \in Tasks
    BY ElementOfSeq, LenProperties
  <2> QED BY <2>1 DEF TypeOK, multi_produce
<1>3. state' \in [Threads -> {"running", "waiting", "ended"}]
  BY SignalledTyped DEF TypeOK, multi_produce
<1> QED BY <1>1, <1>2, <1>3 DEF TypeOK, multi_produce

LEMMA ServesTyped ==
  ASSUME TypeOK, NEW t \in Threads, Serves(t)
  PROVE  TypeOK'
<1>1. CASE consume(t)
  <2>1. <<Head(m_tasklist)>> \in Seq(Tasks) /\ Tail(m_tasklist) \in Seq(Tasks)
    BY <1>1, HeadTailProperties DEF TypeOK, consume
  <2> QED BY <1>1, <2>1 DEF TypeOK, consume
<1>2. CASE consume_all(t)
  BY <1>2, EmptySeq DEF TypeOK, consume_all, AfterConsumeAll
<1>3. CASE wait(t)
  BY <1>3 DEF TypeOK, wait
<1>4. CASE end(t)
  BY <1>4 DEF TypeOK, end
<1>5. CASE run(t)
  <2>1. Head(taken[t]) \in Tasks /\ Tail(taken[t]) \in Seq(Tasks)
    BY <1>5, HeadTailProperties DEF TypeOK, run
  <2>2. Append(executed[t], Head(taken[t])) \in Seq(Tasks)
    BY <2>1, AppendProperties DEF TypeOK
  <2> QED BY <1>5, <2>1, <2>2 DEF TypeOK, run
<1> QED BY <1>1, <1>2, <1>3, <1>4, <1>5 DEF Serves

(* Every reachable state of a queue has the types of the code.             *)
THEOREM TypeCorrect == Spec => []TypeOK
<1>1. Init => TypeOK
  BY EmptySeq DEF Init, TypeOK
<1>2. TypeOK /\ [Next]_vars => TypeOK'
  <2> SUFFICES ASSUME TypeOK, [Next]_vars PROVE TypeOK'
    OBVIOUS
  <2>1. CASE \E k \in New : produce(k)
    BY <2>1, OneTaskTyped, MultiProduceTyped DEF produce
  <2>2. CASE \E list \in NewLists : multi_produce(list)
    BY <2>2, NewListsTyped, MultiProduceTyped
  <2>3. CASE close
    BY <2>3 DEF TypeOK, close, Woken
  <2>4. CASE \E t \in Threads : Serves(t)
    BY <2>4, ServesTyped
  <2>5. CASE \E t \in Threads : wake_spuriously(t)
    BY <2>5 DEF TypeOK, wake_spuriously
  <2>6. CASE UNCHANGED vars
    BY <2>6 DEF TypeOK, vars
  <2> QED BY <2>1, <2>2, <2>3, <2>4, <2>5, <2>6 DEF Next
<1> QED BY <1>1, <1>2, PTL DEF Spec

-----------------------------------------------------------------------------
(* No wake-up is lost.  The invariant is inductive once it says that while *)
(* the queue is open no thread has ended.                                  *)
NoneEnded == m_flag => \A t \in Threads : state[t] # "ended"

WakeInv == TypeOK /\ NobodyLeftAsleep /\ NoneEnded

LEMMA SignalledWakes ==
  ASSUME TypeOK, Signalled, NEW u \in Threads, NoneEnded, m_flag
  PROVE  /\ \E t \in Threads : state'[t] = "running"
         /\ \A t \in Threads : state'[t] # "ended"
<1>1. CASE Waiting = {}
  BY <1>1 DEF TypeOK, Signalled, NoneEnded, Waiting
<1>2. CASE Waiting # {}
  BY <1>2 DEF TypeOK, Signalled, NoneEnded, Waiting
<1> QED BY <1>1, <1>2

LEMMA MultiProduceWakes ==
  ASSUME Threads # {}, WakeInv, NEW list \in Seq(Tasks), multi_produce(list)
  PROVE  NobodyLeftAsleep' /\ NoneEnded'
<1>1. CASE ~m_flag
  <2>1. Waiting = {}
    BY <1>1 DEF WakeInv, NobodyLeftAsleep
  <2>2. state' = state /\ ~m_flag'
    BY <1>1, <2>1 DEF multi_produce, Signalled
  <2> QED BY <2>1, <2>2 DEF NobodyLeftAsleep, NoneEnded, Waiting
<1>2. CASE m_flag /\ m_tasklist = <<>>
  <2>1. Signalled /\ m_flag'
    BY <1>2 DEF multi_produce, need_sig
  <2> QED BY <1>2, <2>1, SignalledWakes DEF WakeInv, NobodyLeftAsleep, NoneEnded
<1>3. CASE m_flag /\ m_tasklist # <<>>
  BY <1>3 DEF WakeInv, multi_produce, need_sig, NobodyLeftAsleep, NoneEnded
<1> QED BY <1>1, <1>2, <1>3

LEMMA ServesKeepsAwake ==
  ASSUME WakeInv, NEW t \in Threads, Serves(t)
  PROVE  NobodyLeftAsleep' /\ NoneEnded'
<1>1. CASE consume(t) \/ consume_all(t) \/ run(t)
  <2>1. /\ state' = state /\ m_flag' = m_flag
        /\ m_tasklist' # <<>> => state[t] = "running" \/ m_tasklist # <<>>
    BY <1>1 DEF consume, consume_all, run, Consumes
  <2> QED BY <2>1 DEF WakeInv, NobodyLeftAsleep, NoneEnded, Waiting
<1>2. CASE wait(t)
  BY <1>2 DEF WakeInv, TypeOK, wait, NobodyLeftAsleep, NoneEnded, Waiting
<1>3. CASE end(t)
  BY <1>3 DEF WakeInv, TypeOK, end, MayEnd, NobodyLeftAsleep, NoneEnded, Waiting
<1> QED BY <1>1, <1>2, <1>3 DEF Serves

(* With at least one thread on the queue, no task waits in an open queue   *)
(* for threads that all wait for a signal, and none waits after close().   *)
THEOREM NoLostWakeUp == Threads # {} /\ Spec => []NobodyLeftAsleep
<1>1. Init => NobodyLeftAsleep /\ NoneEnded
  BY DEF Init, NobodyLeftAsleep, NoneEnded, Waiting
<1> SUFFICES ASSUME Threads # {} PROVE Spec => []NobodyLeftAsleep
  OBVIOUS
<1>2. TypeOK /\ NobodyLeftAsleep /\ NoneEnded /\ [Next]_vars
        => (NobodyLeftAsleep /\ NoneEnded)'
  <2> SUFFICES ASSUME WakeInv, [Next]_vars
               PROVE  NobodyLeftAsleep' /\ NoneEnded'
    BY DEF WakeInv
  <2>1. CASE \E k \in New : produce(k)
    BY <2>1, OneTaskTyped, MultiProduceWakes DEF produce
  <2>2. CASE \E list \in NewLists : multi_produce(list)
    BY <2>2, NewListsTyped, MultiProduceWakes
  <2>3. CASE close
    BY <2>3 DEF WakeInv, TypeOK, close, Woken, NobodyLeftAsleep, NoneEnded, Waiting
  <2>4. CASE \E t \in Threads : Serves(t)
    BY <2>4, ServesKeepsAwake
  <2>5. CASE \E t \in Threads : wake_spuriously(t)
    BY <2>5 DEF WakeInv, TypeOK, wake_spuriously, NobodyLeftAsleep, NoneEnded, Waiting
  <2>6. CASE UNCHANGED vars
    BY <2>6 DEF WakeInv, vars, NobodyLeftAsleep, NoneEnded, Waiting
  <2> QED BY <2>1, <2>2, <2>3, <2>4, <2>5, <2>6 DEF Next
<1> QED BY <1>1, <1>2, TypeCorrect, PTL DEF Spec

-----------------------------------------------------------------------------
(* The queue of one thread: what the thread has taken, followed by what is *)
(* in the list, is what the abstract executor has pending.                 *)
OneThread == \E t \in Threads : Threads = {t}

Pending == taken[TheThread] \o m_tasklist

LEMMA TheThreadIs ==
  ASSUME OneThread
  PROVE  TheThread \in Threads /\ \A t \in Threads : t = TheThread
BY DEF OneThread, TheThread

(* Concatenation is associative.                                           *)
LEMMA ConcatTasks == \A a, b, c \in Seq(Tasks) : (a \o b) \o c = a \o (b \o c)
BY ConcatAssociative

LEMMA ProduceSubmits ==
  ASSUME OneThread, TypeOK, NEW list \in Seq(Tasks), multi_produce(list)
  PROVE  Order!Submit(list)
<1>1. taken[TheThread] \in Seq(Tasks) /\ m_tasklist \in Seq(Tasks)
  BY TheThreadIs DEF TypeOK
<1>2. Pending' = taken[TheThread] \o (m_tasklist \o list)
  BY DEF Pending, multi_produce, PushedBack
<1>3. \A a, b, c \in Seq(Tasks) : (a \o b) \o c = a \o (b \o c)
  BY ConcatTasks, Zenon
<1>4. Pending' = Pending \o list
  BY <1>1, <1>2, <1>3, Zenon DEF Pending
<1> QED BY <1>4 DEF Order!Submit, Pending, multi_produce

LEMMA TakingStutters ==
  ASSUME OneThread, TypeOK, NEW t \in Threads, consume(t) \/ consume_all(t)
  PROVE  UNCHANGED <<taken[TheThread] \o m_tasklist, executed[TheThread]>>
<1>1. /\ t = TheThread /\ taken[t] = <<>> /\ m_tasklist \in Seq(Tasks)
      /\ m_tasklist # <<>> /\ executed' = executed
  BY TheThreadIs DEF TypeOK, consume, consume_all, Consumes
<1>2. Pending = m_tasklist
  BY <1>1, ConcatEmptySeq DEF Pending
<1>3. Pending' = m_tasklist
  <2>1. CASE consume(t)
    <3>1. Pending' = <<Head(m_tasklist)>> \o Tail(m_tasklist)
      BY <1>1, <2>1 DEF consume, Pending, TypeOK
    <3> QED BY <1>1, <3>1
  <2>2. CASE consume_all(t)
    <3>1. Pending' = m_tasklist \o <<>>
      BY <1>1, <2>2 DEF consume_all, AfterConsumeAll, Pending, TypeOK
    <3> QED BY <1>1, <3>1, ConcatEmptySeq
  <2> QED BY <2>1, <2>2
<1> QED BY <1>1, <1>2, <1>3 DEF Pending

LEMMA HeadTailOfConcat ==
  ASSUME NEW S, NEW a \in Seq(S), NEW b \in Seq(S), a # <<>>
  PROVE  /\ a \o b # <<>>
         /\ Head(a \o b) = Head(a)
         /\ Tail(a \o b) = Tail(a) \o b
<1>1. /\ a \o b \in Seq(S) /\ Len(a \o b) = Len(a) + Len(b)
      /\ \A i \in 1..Len(a) + Len(b) :
            (a \o b)[i] = IF i <= Len(a) THEN a[i] ELSE b[i - Len(a)]
  BY ConcatProperties
<1>2. Len(a) \in Nat \ {0} /\ Len(b) \in Nat
  BY LenProperties, EmptySeq
<1>3. a \o b # <<>>
  BY <1>1, <1>2, EmptySeq
<1>4. Head(a \o b) = Head(a)
  BY <1>1, <1>2
<1>5. /\ Tail(a) \in Seq(S) /\ Len(Tail(a)) = Len(a) - 1
      /\ \A i \in 1..Len(a) - 1 : Tail(a)[i] = a[i + 1]
  BY HeadTailProperties
<1>6. /\ Tail(a \o b) \in Seq(S) /\ Len(Tail(a \o b)) = Len(a) + Len(b) - 1
      /\ \A i \in 1..Len(a) + Len(b) - 1 : Tail(a \o b)[i] = (a \o b)[i + 1]
  BY <1>1, <1>3, HeadTailProperties
<1>7. /\ Tail(a) \o b \in Seq(S) /\ Len(Tail(a) \o b) = Len(a) + Len(b) - 1
      /\ \A i \in 1..Len(a) + Len(b) - 1 :
            (Tail(a) \o b)[i] = IF i <= Len(a) - 1 THEN Tail(a)[i] ELSE b[i - (Len(a) - 1)]
  <2>1. Len(Tail(a)) + Len(b) = Len(a) + Len(b) - 1
    BY <1>2, <1>5
  <2> QED BY <1>5, <2>1, ConcatProperties
<1>8. \A i \in 1..Len(a) + Len(b) - 1 : Tail(a \o b)[i] = (Tail(a) \o b)[i]
  <2> TAKE i \in 1..Len(a) + Len(b) - 1
  <2>1. Tail(a \o b)[i] = IF i + 1 <= Len(a) THEN a[i + 1] ELSE b[i + 1 - Len(a)]
    BY <1>1, <1>2, <1>6
  <2>2. (Tail(a) \o b)[i] = IF i + 1 <= Len(a) THEN a[i + 1] ELSE b[i + 1 - Len(a)]
    BY <1>2, <1>5, <1>7
  <2> QED BY <2>1, <2>2
<1>9. Tail(a \o b) = Tail(a) \o b
  BY <1>6, <1>7, <1>8, SeqEqual
<1> QED BY <1>3, <1>4, <1>9

LEMMA RunRuns ==
  ASSUME OneThread, TypeOK, NEW t \in Threads, run(t)
  PROVE  Order!Run
<1>1. /\ t = TheThread /\ taken[t] \in Seq(Tasks) /\ taken[t] # <<>>
      /\ m_tasklist \in Seq(Tasks) /\ m_tasklist' = m_tasklist
  BY TheThreadIs DEF TypeOK, run
<1>2. Pending # <<>> /\ Head(Pending) = Head(taken[t])
      /\ Tail(Pending) = Tail(taken[t]) \o m_tasklist
  BY <1>1, HeadTailOfConcat DEF Pending
<1>3. Pending' = Tail(taken[t]) \o m_tasklist
  BY <1>1 DEF run, Pending, TypeOK
<1>4. executed'[TheThread] = Append(executed[TheThread], Head(taken[t]))
  BY <1>1 DEF run, TypeOK
<1> QED BY <1>2, <1>3, <1>4 DEF Order!Run, Pending

(* A queue with one thread, run() or batch_run(), is the executor that the *)
(* broker and the nodes rely on: each task once, in the order produced.    *)
THEOREM OneThreadIsExecutor == OneThread /\ Spec => ImplementsExecutor
<1> SUFFICES ASSUME OneThread PROVE Spec => ImplementsExecutor
  OBVIOUS
<1>1. Init => Order!Init
  BY TheThreadIs DEF Init, Order!Init
<1>2. TypeOK /\ [Next]_vars
        => [Order!Next]_<<taken[TheThread] \o m_tasklist, executed[TheThread]>>
  <2> SUFFICES ASSUME TypeOK, [Next]_vars
               PROVE  [Order!Next]_<<taken[TheThread] \o m_tasklist, executed[TheThread]>>
    OBVIOUS
  <2>1. CASE \E k \in New : produce(k)
    BY <2>1, OneTaskTyped, ProduceSubmits DEF produce, Order!Next
  <2>2. CASE \E list \in NewLists : multi_produce(list)
    BY <2>2, NewListsTyped, ProduceSubmits DEF Order!Next
  <2>3. CASE \E t \in Threads : consume(t) \/ consume_all(t)
    BY <2>3, TakingStutters
  <2>4. CASE \E t \in Threads : run(t)
    BY <2>4, RunRuns DEF Order!Next
  <2>5. CASE close \/ \E t \in Threads : wait(t) \/ end(t) \/ wake_spuriously(t)
    BY <2>5 DEF close, wait, end, wake_spuriously
  <2>6. CASE UNCHANGED vars
    BY <2>6 DEF vars
  <2> QED BY <2>1, <2>2, <2>3, <2>4, <2>5, <2>6 DEF Next, Serves
<1> QED BY <1>1, <1>2, TypeCorrect, PTL DEF Spec, ImplementsExecutor, Order!Spec

-----------------------------------------------------------------------------
(* Order, with any number of threads.  What thread t has run, has taken and*)
(* can still take is a part of what was produced, in the same order.       *)
Queued(t) == executed[t] \o taken[t] \o m_tasklist

Comes(s, p) == \A i \in 1..Len(s) : \E a \in 1..Len(p) : p[a] = s[i]

Ascends(s, p) ==
  \A i, j \in 1..Len(s) : i < j =>
    \E a, b \in 1..Len(p) : a < b /\ p[a] = s[i] /\ p[b] = s[j]

Distinct(p) == \A i, j \in 1..Len(p) : p[i] = p[j] => i = j

OrderInv == /\ TypeOK /\ Distinct(produced)
            /\ \A t \in Threads : Comes(Queued(t), produced) /\ Ascends(Queued(t), produced)

(* An index into the second part of a concatenation.                       *)
LEMMA ShiftedIndex ==
  \A m, n \in Nat : \A j \in 1..n :
    m + j \in 1..(m + n) /\ ~(m + j <= m) /\ m + j - m = j
OBVIOUS

(* A part of an ordered sequence is ordered.                               *)
LEMMA PartOrdered ==
  ASSUME NEW s \in Seq(Tasks), NEW r \in Seq(Tasks), NEW p \in Seq(Tasks),
         Comes(s, p), Ascends(s, p),
         NEW f \in [1..Len(r) -> 1..Len(s)],
         \A i, j \in 1..Len(r) : i < j => f[i] < f[j],
         \A i \in 1..Len(r) : r[i] = s[f[i]]
  PROVE  Comes(r, p) /\ Ascends(r, p)
<1>1. Comes(r, p)
  BY DEF Comes
<1>2. ASSUME NEW i \in 1..Len(r), NEW j \in 1..Len(r), i < j
      PROVE  \E a, b \in 1..Len(p) : a < b /\ p[a] = r[i] /\ p[b] = r[j]
  <2>1. f[i] \in 1..Len(s) /\ f[j] \in 1..Len(s) /\ f[i] < f[j]
    BY <1>2
  <2>2. \E a, b \in 1..Len(p) : a < b /\ p[a] = s[f[i]] /\ p[b] = s[f[j]]
    BY <2>1 DEF Ascends
  <2> QED BY <2>2
<1> QED BY <1>1, <1>2 DEF Ascends

(* What is produced goes to the end of both.                               *)
LEMMA BothExtended ==
  ASSUME NEW s \in Seq(Tasks), NEW p \in Seq(Tasks), NEW list \in Seq(Tasks),
         Comes(s, p), Ascends(s, p)
  PROVE  Comes(s \o list, p \o list) /\ Ascends(s \o list, p \o list)
<1> DEFINE S == s \o list
           P == p \o list
<1>1. /\ Len(s) \in Nat /\ Len(p) \in Nat /\ Len(list) \in Nat
      /\ Len(S) = Len(s) + Len(list) /\ Len(P) = Len(p) + Len(list)
      /\ \A i \in 1..Len(S) : S[i] = IF i <= Len(s) THEN s[i] ELSE list[i - Len(s)]
      /\ \A i \in 1..Len(P) : P[i] = IF i <= Len(p) THEN p[i] ELSE list[i - Len(p)]
  BY ConcatProperties, LenProperties
<1> HIDE DEF S, P
<1>2. \A a \in 1..Len(p) : a \in 1..Len(P) /\ P[a] = p[a]
  BY <1>1
<1>3. ASSUME NEW i \in 1..Len(S), ~(i <= Len(s))
      PROVE  /\ Len(p) + (i - Len(s)) \in 1..Len(P)
             /\ P[Len(p) + (i - Len(s))] = S[i]
  <2>1. i - Len(s) \in 1..Len(list) /\ S[i] = list[i - Len(s)]
    BY <1>1, <1>3
  <2>2. /\ Len(p) + (i - Len(s)) \in 1..Len(P) /\ ~(Len(p) + (i - Len(s)) <= Len(p))
        /\ Len(p) + (i - Len(s)) - Len(p) = i - Len(s)
    BY <1>1, <2>1, ShiftedIndex, Zenon
  <2>3. P[Len(p) + (i - Len(s))] = list[Len(p) + (i - Len(s)) - Len(p)]
    BY <1>1, <2>2
  <2> QED BY <2>1, <2>2, <2>3
<1>4. \A i \in 1..Len(S) : i <= Len(s) => i \in 1..Len(s) /\ S[i] = s[i]
  BY <1>1
<1>5. Comes(S, P)
  <2> SUFFICES ASSUME NEW i \in 1..Len(S) PROVE \E a \in 1..Len(P) : P[a] = S[i]
    BY DEF Comes
  <2>1. CASE i <= Len(s)
    BY <1>2, <1>4, <2>1 DEF Comes
  <2> QED BY <1>3, <2>1
<1>6. Ascends(S, P)
  <2> SUFFICES ASSUME NEW i \in 1..Len(S), NEW j \in 1..Len(S), i < j
               PROVE  \E a, b \in 1..Len(P) : a < b /\ P[a] = S[i] /\ P[b] = S[j]
    BY DEF Ascends
  <2>1. CASE j <= Len(s)
    <3>1. i <= Len(s)
      BY <1>1, <2>1
    <3>2. PICK a \in 1..Len(p), b \in 1..Len(p) : a < b /\ p[a] = s[i] /\ p[b] = s[j]
      BY <1>4, <2>1, <3>1 DEF Ascends
    <3> QED BY <1>2, <1>4, <2>1, <3>1, <3>2
  <2>2. CASE i <= Len(s) /\ ~(j <= Len(s))
    <3>1. PICK a \in 1..Len(p) : p[a] = s[i]
      BY <1>4, <2>2 DEF Comes
    <3>2. a < Len(p) + (j - Len(s))
      BY <1>1, <2>2
    <3> QED BY <1>2, <1>3, <1>4, <2>2, <3>1, <3>2
  <2>3. CASE ~(i <= Len(s)) /\ ~(j <= Len(s))
    <3>1. Len(p) + (i - Len(s)) < Len(p) + (j - Len(s))
      BY <1>1
    <3> QED BY <1>3, <2>3, <3>1
  <2>4. ~(i <= Len(s)) => ~(j <= Len(s))
    BY <1>1
  <2> QED BY <2>1, <2>2, <2>3, <2>4
<1> QED BY <1>5, <1>6 DEF S, P

LEMMA DistinctExtended ==
  ASSUME NEW p \in Seq(Tasks), NEW list \in Seq(Tasks), Distinct(p), Distinct(list),
         \A i \in 1..Len(p), j \in 1..Len(list) : p[i] # list[j]
  PROVE  Distinct(p \o list)
<1> DEFINE P == p \o list
<1>1. /\ Len(p) \in Nat /\ Len(list) \in Nat /\ Len(P) = Len(p) + Len(list)
      /\ \A i \in 1..Len(P) : P[i] = IF i <= Len(p) THEN p[i] ELSE list[i - Len(p)]
  BY ConcatProperties, LenProperties
<1> HIDE DEF P
<1>2. \A i \in 1..Len(P) : IF i <= Len(p) THEN i \in 1..Len(p) /\ P[i] = p[i]
                           ELSE i - Len(p) \in 1..Len(list) /\ P[i] = list[i - Len(p)]
  BY <1>1
<1>3. ASSUME NEW i \in 1..Len(P), NEW j \in 1..Len(P), P[i] = P[j]
      PROVE  i = j
  <2>1. CASE i <= Len(p) /\ j <= Len(p)
    BY <1>2, <1>3, <2>1 DEF Distinct
  <2>2. CASE ~(i <= Len(p)) /\ ~(j <= Len(p))
    <3>1. i - Len(p) = j - Len(p)
      BY <1>2, <1>3, <2>2 DEF Distinct
    <3> QED BY <1>1, <3>1
  <2> QED BY <1>2, <1>3, <2>1, <2>2
<1> QED BY <1>3 DEF Distinct, P

(* The steps.  A thread that takes or runs moves tasks within its own      *)
(* sequence, and takes them out of the others'.                            *)
LEMMA QueuedTyped ==
  ASSUME TypeOK, NEW t \in Threads
  PROVE  /\ executed[t] \in Seq(Tasks) /\ taken[t] \in Seq(Tasks)
         /\ m_tasklist \in Seq(Tasks) /\ produced \in Seq(Tasks)
         /\ executed[t] \o taken[t] \in Seq(Tasks) /\ Queued(t) \in Seq(Tasks)
BY ConcatProperties DEF TypeOK, Queued

LEMMA ProducedLast ==
  ASSUME TypeOK, NEW list \in Seq(Tasks), multi_produce(list), NEW t \in Threads
  PROVE  Queued(t)' = Queued(t) \o list
<1>1. Queued(t)' = (executed[t] \o taken[t]) \o (m_tasklist \o list)
  BY DEF Queued, multi_produce, PushedBack
<1>2. \A a, b, c \in Seq(Tasks) : (a \o b) \o c = a \o (b \o c)
  BY ConcatTasks, Zenon
<1>3. executed[t] \o taken[t] \in Seq(Tasks) /\ m_tasklist \in Seq(Tasks)
  BY QueuedTyped
<1> DEFINE q == executed[t] \o taken[t]
<1> HIDE DEF q
<1>4. (q \o m_tasklist) \o list = q \o (m_tasklist \o list)
  BY <1>2, <1>3, Zenon DEF q
<1> QED BY <1>1, <1>4, Zenon DEF Queued, q

LEMMA ProduceOrdered ==
  ASSUME OrderInv, NEW list \in Seq(Tasks), Distinct(list),
         \A i \in 1..Len(list) : list[i] \in New, multi_produce(list)
  PROVE  /\ Distinct(produced')
         /\ \A t \in Threads : /\ Comes(Queued(t)', produced')
                               /\ Ascends(Queued(t)', produced')
<1>1. produced \in Seq(Tasks) /\ produced' = produced \o list
  BY DEF OrderInv, TypeOK, multi_produce
<1>2. \A i \in 1..Len(produced), j \in 1..Len(list) : produced[i] # list[j]
  <2>1. DOMAIN produced = 1..Len(produced)
    BY <1>1, LenProperties
  <2> QED BY <2>1 DEF New
<1>3. Distinct(produced')
  BY <1>1, <1>2, DistinctExtended DEF OrderInv
<1>4. ASSUME NEW t \in Threads
      PROVE  Comes(Queued(t)', produced') /\ Ascends(Queued(t)', produced')
  <2>1. Queued(t)' = Queued(t) \o list
    BY ProducedLast DEF OrderInv
  <2>2. Queued(t) \in Seq(Tasks)
    BY QueuedTyped DEF OrderInv
  <2> HIDE DEF Queued
  <2> QED BY <1>1, <2>1, <2>2, BothExtended DEF OrderInv
<1> QED BY <1>3, <1>4

LEMMA RunKeepsOwned ==
  ASSUME TypeOK, NEW t \in Threads, run(t), NEW u \in Threads
  PROVE  executed'[u] \o taken'[u] = executed[u] \o taken[u]
<1>1. /\ taken[t] # <<>>
      /\ executed' = [executed EXCEPT ![t] = Append(executed[t], Head(taken[t]))]
      /\ taken' = [taken EXCEPT ![t] = Tail(taken[t])]
  BY DEF run
<1>2. CASE u # t
  BY <1>1, <1>2 DEF TypeOK
<1>3. CASE u = t
  <2> DEFINE e == executed[t]
             k == taken[t]
             h == <<Head(k)>>
  <2>1. e \in Seq(Tasks) /\ k \in Seq(Tasks) /\ k # <<>>
    BY <1>1, QueuedTyped
  <2>2. executed'[t] = Append(e, Head(k)) /\ taken'[t] = Tail(k)
    BY <1>1 DEF TypeOK
  <2> HIDE DEF e, k
  <2>3. Head(k) \in Tasks /\ Tail(k) \in Seq(Tasks) /\ h \in Seq(Tasks)
    BY <2>1, HeadTailProperties
  <2>4. Append(e, Head(k)) = e \o h
    BY <2>1, <2>3, AppendIsConcat
  <2>5. h \o Tail(k) = k
    BY <2>1
  <2> HIDE DEF h
  <2>6. (e \o h) \o Tail(k) = e \o (h \o Tail(k))
    BY <2>1, <2>3, ConcatTasks, Zenon
  <2>7. executed'[t] \o taken'[t] = e \o k
    BY <2>2, <2>4, <2>5, <2>6
  <2> QED BY <1>3, <2>7 DEF e, k
<1> QED BY <1>2, <1>3

LEMMA RunKeepsQueued ==
  ASSUME TypeOK, NEW t \in Threads, run(t), NEW u \in Threads
  PROVE  Queued(u)' = Queued(u)
<1>1. executed'[u] \o taken'[u] = executed[u] \o taken[u] /\ m_tasklist' = m_tasklist
  BY RunKeepsOwned DEF run
<1> QED BY <1>1 DEF Queued

LEMMA TakeOrdered ==
  ASSUME OrderInv, NEW t \in Threads, consume(t) \/ consume_all(t), NEW u \in Threads
  PROVE  Comes(Queued(u)', produced') /\ Ascends(Queued(u)', produced')
<1> DEFINE l == m_tasklist
           q == executed[u] \o taken[u]
<1>1. /\ TypeOK /\ q \in Seq(Tasks) /\ l \in Seq(Tasks) /\ l # <<>>
      /\ produced' = produced /\ executed' = executed
      /\ Queued(u) = q \o l
      /\ Queued(u) \in Seq(Tasks) /\ produced \in Seq(Tasks)
      /\ Comes(Queued(u), produced) /\ Ascends(Queued(u), produced)
  BY QueuedTyped DEF OrderInv, consume, consume_all, Queued
<1>2. taken[t] = <<>> /\ executed[t] \in Seq(Tasks)
  BY <1>1, QueuedTyped DEF consume, consume_all, Consumes
<1>3. CASE u = t
  <2>1. q = executed[t]
    BY <1>2, <1>3, ConcatEmptySeq
  <2>2. Queued(u)' = q \o l
    <3>1. CASE consume(t)
      <4>1. Queued(u)' = (executed[t] \o <<Head(l)>>) \o Tail(l)
        BY <1>1, <1>3, <3>1 DEF consume, Queued, TypeOK
      <4> HIDE DEF l
      <4>2. <<Head(l)>> \in Seq(Tasks) /\ Tail(l) \in Seq(Tasks)
        BY <1>1, HeadTailProperties
      <4>3. (executed[t] \o <<Head(l)>>) \o Tail(l) = executed[t] \o (<<Head(l)>> \o Tail(l))
        BY <1>2, <4>2, ConcatAssociative
      <4>4. <<Head(l)>> \o Tail(l) = l
        BY <1>1
      <4> QED BY <2>1, <4>1, <4>3, <4>4
    <3>2. CASE consume_all(t)
      <4>1. Queued(u)' = (executed[t] \o l) \o <<>>
        BY <1>1, <1>3, <3>2 DEF consume_all, AfterConsumeAll, Queued, TypeOK
      <4>2. executed[t] \o l \in Seq(Tasks)
        BY <1>1, <1>2, ConcatProperties
      <4> QED BY <2>1, <4>1, <4>2, ConcatEmptySeq
    <3> QED BY <3>1, <3>2
  <2> QED BY <1>1, <2>2
<1>4. CASE u # t
  <2> DEFINE n == Len(q)
             r == q \o m_tasklist'
  <2>1. Queued(u)' = r
    BY <1>1, <1>4 DEF consume, consume_all, Queued, TypeOK
  <2>2. \/ m_tasklist' = Tail(l)
        \/ m_tasklist' = <<>>
    BY DEF consume, consume_all, AfterConsumeAll
  <2> HIDE DEF q, l
  <2>3. /\ m_tasklist' \in Seq(Tasks) /\ n \in Nat
        /\ Len(m_tasklist') \in Nat /\ Len(l) \in Nat /\ Len(m_tasklist') <= Len(l) - 1
        /\ \A i \in 1..Len(m_tasklist') : m_tasklist'[i] = l[i + 1]
    <3>1. Len(l) \in Nat /\ Len(l) # 0
      BY <1>1, LenProperties, EmptySeq
    <3>2. CASE m_tasklist' = Tail(l)
      BY <1>1, <3>1, <3>2, HeadTailProperties, LenProperties
    <3>3. CASE m_tasklist' = <<>>
      BY <1>1, <3>1, <3>3, EmptySeq, LenProperties
    <3> QED BY <2>2, <3>2, <3>3
  <2>4. /\ r \in Seq(Tasks) /\ Len(r) = n + Len(m_tasklist')
        /\ \A i \in 1..Len(r) : r[i] = IF i <= n THEN q[i] ELSE m_tasklist'[i - n]
        /\ Len(q \o l) = n + Len(l)
        /\ \A i \in 1..n + Len(l) : (q \o l)[i] = IF i <= n THEN q[i] ELSE l[i - n]
    BY <1>1, <2>3, ConcatProperties
  <2> DEFINE f == [i \in 1..Len(r) |-> IF i <= n THEN i ELSE i + 1]
  <2> HIDE DEF n, r
  <2>5. f \in [1..Len(r) -> 1..Len(q \o l)]
    BY <2>3, <2>4
  <2>6. \A i, j \in 1..Len(r) : i < j => f[i] < f[j]
    BY <2>3, <2>4
  <2>7. \A i \in 1..Len(r) : r[i] = (q \o l)[f[i]]
    <3> TAKE i \in 1..Len(r)
    <3>1. CASE i <= n
      BY <2>3, <2>4, <3>1
    <3>2. CASE ~(i <= n)
      <4>1. i - n \in 1..Len(m_tasklist') /\ f[i] = i + 1
        BY <2>3, <2>4, <3>2
      <4>2. r[i] = l[i - n + 1]
        BY <2>3, <2>4, <3>2, <4>1
      <4>3. (q \o l)[i + 1] = l[i + 1 - n]
        BY <2>3, <2>4, <3>2
      <4>4. i - n + 1 = i + 1 - n
        BY <2>3, <2>4
      <4> QED BY <4>1, <4>2, <4>3, <4>4
    <3> QED BY <3>1, <3>2
  <2> HIDE DEF f
  <2>8. q \o l \in Seq(Tasks) /\ Comes(q \o l, produced) /\ Ascends(q \o l, produced)
    BY <1>1
  <2>9. Comes(r, produced) /\ Ascends(r, produced)
    BY <1>1, <2>4, <2>5, <2>6, <2>7, <2>8, PartOrdered, ZenonT(30)
  <2> QED BY <1>1, <2>1, <2>9
<1> QED BY <1>3, <1>4

LEMMA NextOrdered ==
  ASSUME OrderInv, TypeOK', [Next]_vars
  PROVE  OrderInv'
<1>1. ASSUME NEW list \in Seq(Tasks), Distinct(list),
             \A i \in 1..Len(list) : list[i] \in New, multi_produce(list)
      PROVE  OrderInv'
  BY <1>1, ProduceOrdered DEF OrderInv
<1>2. CASE \E k \in New : produce(k)
  <2>1. PICK k \in New : multi_produce(<<k>>)
    BY <1>2 DEF produce
  <2>2. <<k>> \in Seq(Tasks) /\ Len(<<k>>) = 1 /\ <<k>>[1] = k
    BY OneTaskTyped
  <2>3. Distinct(<<k>>) /\ \A i \in 1..Len(<<k>>) : <<k>>[i] \in New
    BY <2>2 DEF Distinct
  <2> QED BY <1>1, <2>1, <2>2, <2>3
<1>3. CASE \E list \in NewLists : multi_produce(list)
  <2>1. PICK list \in NewLists : multi_produce(list)
    BY <1>3
  <2>2. PICK n \in 0..MaxBatch : list \in [1..n -> New]
    BY <2>1 DEF NewLists, BoundedSeq, SeqOf
  <2>3. list \in Seq(Tasks) /\ DOMAIN list = 1..Len(list)
    BY <2>1, NewListsTyped, LenProperties
  <2>4. \A i \in 1..Len(list) : list[i] \in New
    BY <2>2, <2>3
  <2>5. Distinct(list)
    BY <2>1, <2>3 DEF NewLists, IsInjective, Distinct
  <2> QED BY <1>1, <2>1, <2>3, <2>4, <2>5
<1>4. CASE \E t \in Threads : consume(t) \/ consume_all(t)
  <2>1. produced' = produced
    BY <1>4 DEF consume, consume_all
  <2> QED BY <1>4, <2>1, TakeOrdered DEF OrderInv
<1>5. CASE \E t \in Threads : run(t)
  <2>1. PICK t \in Threads : run(t)
    BY <1>5
  <2>2. produced' = produced
    BY <2>1 DEF run
  <2>3. \A u \in Threads : Queued(u)' = Queued(u)
    BY <2>1, RunKeepsQueued DEF OrderInv
  <2> QED BY <2>2, <2>3 DEF OrderInv
<1>6. CASE UNCHANGED <<m_tasklist, taken, produced, executed>>
  BY <1>6 DEF OrderInv, Queued
<1>7. CASE close \/ \E t \in Threads : wait(t) \/ end(t) \/ wake_spuriously(t)
  BY <1>6, <1>7 DEF close, wait, end, wake_spuriously
<1> QED BY <1>2, <1>3, <1>4, <1>5, <1>6, <1>7 DEF Next, Serves, vars

LEMMA OrderedIs == OrderInv => InOrder
<1> SUFFICES ASSUME OrderInv PROVE InOrder
  OBVIOUS
<1>1. produced \in Seq(Tasks) /\ DOMAIN produced = 1..Len(produced)
  BY LenProperties DEF OrderInv, TypeOK
<1>2. \A a \in 1..Len(produced) : Position(produced[a]) = a
  BY <1>1 DEF OrderInv, Distinct, Position
<1>3. ASSUME NEW t \in Threads, NEW i \in DOMAIN Queued(t), NEW j \in DOMAIN Queued(t), i < j
      PROVE  Position(Queued(t)[i]) < Position(Queued(t)[j])
  <2>1. Queued(t) \in Seq(Tasks) /\ DOMAIN Queued(t) = 1..Len(Queued(t))
    BY QueuedTyped, LenProperties DEF OrderInv
  <2>2. Ascends(Queued(t), produced)
    BY DEF OrderInv
  <2> DEFINE s == Queued(t)
  <2>3. i \in 1..Len(s) /\ j \in 1..Len(s)
    BY <2>1
  <2> HIDE DEF s
  <2>4. \E a, b \in 1..Len(produced) : a < b /\ produced[a] = s[i] /\ produced[b] = s[j]
    <3>1. Ascends(s, produced)
      BY <2>2 DEF s
    <3> QED BY <1>3, <2>3, <3>1 DEF Ascends
  <2> QED BY <1>2, <2>4 DEF s
<1> QED BY <1>3 DEF InOrder, Queued

(* However many threads run a queue and whichever way they take from it,   *)
(* what each runs, has taken and could still take is in the order produced *)
(* (task_queue_impl.h: consume takes from the front, produce puts behind). *)
THEOREM ThreadsKeepOrder == Spec => []InOrder
<1>1. Init => OrderInv
  <2> SUFFICES ASSUME Init PROVE OrderInv
    OBVIOUS
  <2>1. TypeOK
    BY EmptySeq DEF Init, TypeOK
  <2>2. produced = <<>> /\ \A t \in Threads : Queued(t) = <<>>
    <3>1. <<>> \in Seq(Tasks)
      BY EmptySeq
    <3> QED BY <3>1, ConcatEmptySeq DEF Init, Queued
  <2>3. Len(<<>>) = 0
    OBVIOUS
  <2> QED BY <2>1, <2>2, <2>3 DEF OrderInv, Distinct, Comes, Ascends
<1>2. TypeOK' /\ OrderInv /\ [Next]_vars => OrderInv'
  BY NextOrdered
<1> QED BY <1>1, <1>2, TypeCorrect, OrderedIs, PTL DEF Spec

-----------------------------------------------------------------------------
(* Each task in one place.  A thread owns what it has run and taken; what  *)
(* the threads own and what is in the list are parts of what was produced, *)
(* without repetition, no two of them with a task in common.               *)
Owned(t) == executed[t] \o taken[t]

Of(s) == {s[i] : i \in 1..Len(s)}

OnceInv == /\ TypeOK /\ Distinct(produced) /\ Distinct(m_tasklist)
           /\ \A t \in Threads : /\ Distinct(Owned(t))
                                 /\ Of(Owned(t)) \cap Of(m_tasklist) = {}
           /\ \A t, u \in Threads : t # u => Of(Owned(t)) \cap Of(Owned(u)) = {}
           /\ \A k : k \in Of(produced)
                    <=> k \in Of(m_tasklist) \/ \E t \in Threads : k \in Of(Owned(t))

LEMMA OfConcat ==
  ASSUME NEW a \in Seq(Tasks), NEW b \in Seq(Tasks)
  PROVE  Of(a \o b) = Of(a) \cup Of(b)
<1> DEFINE c == a \o b
<1>1. /\ Len(a) \in Nat /\ Len(b) \in Nat /\ Len(c) = Len(a) + Len(b)
      /\ \A i \in 1..Len(c) : c[i] = IF i <= Len(a) THEN a[i] ELSE b[i - Len(a)]
  BY ConcatProperties, LenProperties
<1> HIDE DEF c
<1>2. ASSUME NEW i \in 1..Len(c) PROVE c[i] \in Of(a) \cup Of(b)
  <2>1. CASE i <= Len(a)
    BY <1>1, <2>1 DEF Of
  <2>2. CASE ~(i <= Len(a))
    <3>1. i - Len(a) \in 1..Len(b) /\ c[i] = b[i - Len(a)]
      BY <1>1, <2>2
    <3> QED BY <3>1 DEF Of
  <2> QED BY <2>1, <2>2
<1>3. ASSUME NEW i \in 1..Len(a) PROVE a[i] \in Of(c)
  <2>1. i \in 1..Len(c) /\ c[i] = a[i]
    BY <1>1
  <2> QED BY <2>1 DEF Of
<1>4. ASSUME NEW i \in 1..Len(b) PROVE b[i] \in Of(c)
  <2>1. Len(a) + i \in 1..Len(c) /\ c[Len(a) + i] = b[Len(a) + i - Len(a)]
    BY <1>1
  <2>2. Len(a) + i - Len(a) = i
    BY <1>1
  <2> QED BY <2>1, <2>2 DEF Of
<1> QED BY <1>2, <1>3, <1>4 DEF Of, c

(* The parts of a sequence without repetition have none, and share nothing.*)
LEMMA DistinctSplit ==
  ASSUME NEW a \in Seq(Tasks), NEW b \in Seq(Tasks), Distinct(a \o b)
  PROVE  Distinct(a) /\ Distinct(b) /\ Of(a) \cap Of(b) = {}
<1> DEFINE c == a \o b
<1>1. /\ Len(a) \in Nat /\ Len(b) \in Nat /\ Len(c) = Len(a) + Len(b)
      /\ \A i \in 1..Len(c) : c[i] = IF i <= Len(a) THEN a[i] ELSE b[i - Len(a)]
  BY ConcatProperties, LenProperties
<1>2. \A i, j \in 1..Len(c) : c[i] = c[j] => i = j
  BY DEF Distinct
<1> HIDE DEF c
<1>3. \A i \in 1..Len(a) : i \in 1..Len(c) /\ c[i] = a[i]
  BY <1>1
<1>4. ASSUME NEW i \in 1..Len(b)
      PROVE  Len(a) + i \in 1..Len(c) /\ c[Len(a) + i] = b[i] /\ ~(Len(a) + i <= Len(a))
  <2>1. Len(a) + i \in 1..Len(c) /\ ~(Len(a) + i <= Len(a)) /\ Len(a) + i - Len(a) = i
    BY <1>1
  <2> QED BY <1>1, <2>1
<1>5. Distinct(a)
  BY <1>2, <1>3 DEF Distinct
<1>6. Distinct(b)
  <2> SUFFICES ASSUME NEW i \in 1..Len(b), NEW j \in 1..Len(b), b[i] = b[j] PROVE i = j
    BY DEF Distinct
  <2>1. Len(a) + i = Len(a) + j
    BY <1>2, <1>4
  <2> QED BY <1>1, <2>1
<1>7. ASSUME NEW i \in 1..Len(a), NEW j \in 1..Len(b) PROVE a[i] # b[j]
  <2>1. a[i] = b[j] => i = Len(a) + j
    BY <1>2, <1>3, <1>4
  <2> QED BY <1>1, <1>4, <2>1
<1> QED BY <1>5, <1>6, <1>7 DEF Of

LEMMA DistinctJoined ==
  ASSUME NEW a \in Seq(Tasks), NEW b \in Seq(Tasks), Distinct(a), Distinct(b),
         Of(a) \cap Of(b) = {}
  PROVE  Distinct(a \o b)
<1>1. \A i \in 1..Len(a), j \in 1..Len(b) : a[i] # b[j]
  BY DEF Of
<1> QED BY <1>1, DistinctExtended

LEMMA OwnedTyped ==
  ASSUME TypeOK, NEW t \in Threads
  PROVE  /\ executed[t] \in Seq(Tasks) /\ taken[t] \in Seq(Tasks)
         /\ Owned(t) \in Seq(Tasks)
         /\ m_tasklist \in Seq(Tasks) /\ produced \in Seq(Tasks)
BY QueuedTyped DEF Owned

(* What is produced is new, and goes to the list.                          *)
LEMMA ProduceOnce ==
  ASSUME OnceInv, TypeOK', NEW list \in Seq(Tasks), Distinct(list),
         \A i \in 1..Len(list) : list[i] \in New, multi_produce(list)
  PROVE  OnceInv'
<1>1. /\ produced' = produced \o list /\ m_tasklist' = m_tasklist \o list
      /\ \A t \in Threads : Owned(t)' = Owned(t)
  BY DEF multi_produce, PushedBack, Owned
<1>2. produced \in Seq(Tasks) /\ m_tasklist \in Seq(Tasks)
  BY DEF OnceInv, TypeOK
<1>3. Of(produced) \cap Of(list) = {}
  <2>1. DOMAIN produced = 1..Len(produced)
    BY <1>2, LenProperties
  <2> QED BY <2>1 DEF Of, New
<1>4. /\ Of(produced') = Of(produced) \cup Of(list)
      /\ Of(m_tasklist') = Of(m_tasklist) \cup Of(list)
  BY <1>1, <1>2, OfConcat
<1>5. /\ Of(m_tasklist) \subseteq Of(produced)
      /\ \A t \in Threads : Of(Owned(t)) \subseteq Of(produced)
  BY DEF OnceInv
<1>6. Distinct(produced') /\ Distinct(m_tasklist')
  <2>1. Of(m_tasklist) \cap Of(list) = {}
    BY <1>3, <1>5
  <2> QED BY <1>1, <1>2, <1>3, <2>1, DistinctJoined DEF OnceInv
<1>7. \A t \in Threads : /\ Distinct(Owned(t)')
                         /\ Of(Owned(t)') \cap Of(m_tasklist') = {}
  BY <1>1, <1>3, <1>4, <1>5 DEF OnceInv
<1>8. \A t, u \in Threads : t # u => Of(Owned(t)') \cap Of(Owned(u)') = {}
  BY <1>1 DEF OnceInv
<1>9. \A k : k \in Of(produced')
            <=> k \in Of(m_tasklist') \/ \E t \in Threads : k \in Of(Owned(t)')
  BY <1>1, <1>4 DEF OnceInv
<1> QED BY <1>6, <1>7, <1>8, <1>9 DEF OnceInv, Of

(* A thread that has nothing left takes a front part of the list.          *)
LEMMA TakesFront ==
  ASSUME TypeOK, NEW t \in Threads, consume(t) \/ consume_all(t)
  PROVE  \E x \in Seq(Tasks) :
           /\ m_tasklist = x \o m_tasklist'
           /\ Owned(t)' = Owned(t) \o x
<1>1. /\ taken[t] = <<>> /\ executed[t] \in Seq(Tasks) /\ executed' = executed
      /\ m_tasklist \in Seq(Tasks) /\ m_tasklist # <<>>
  BY QueuedTyped DEF consume, consume_all, Consumes
<1>2. Owned(t) = executed[t]
  BY <1>1, ConcatEmptySeq DEF Owned
<1>3. CASE consume(t)
  <2>1. <<Head(m_tasklist)>> \in Seq(Tasks)
    BY <1>1, HeadTailProperties
  <2>2. m_tasklist = <<Head(m_tasklist)>> \o m_tasklist'
    BY <1>1, <1>3 DEF consume
  <2>3. Owned(t)' = Owned(t) \o <<Head(m_tasklist)>>
    BY <1>1, <1>2, <1>3 DEF consume, Owned, TypeOK
  <2> QED BY <2>1, <2>2, <2>3
<1>4. CASE consume_all(t)
  <2>1. m_tasklist' = <<>>
    BY <1>4 DEF consume_all, AfterConsumeAll
  <2>2. m_tasklist = m_tasklist \o m_tasklist'
    BY <1>1, <2>1, ConcatEmptySeq
  <2>3. Owned(t)' = Owned(t) \o m_tasklist
    BY <1>1, <1>2, <1>4 DEF consume_all, Owned, TypeOK
  <2> QED BY <1>1, <2>2, <2>3
<1> QED BY <1>3, <1>4

LEMMA TakeOnce ==
  ASSUME OnceInv, TypeOK', NEW t \in Threads, consume(t) \/ consume_all(t)
  PROVE  OnceInv'
<1>1. PICK x \in Seq(Tasks) : m_tasklist = x \o m_tasklist' /\ Owned(t)' = Owned(t) \o x
  BY TakesFront DEF OnceInv
<1>2. m_tasklist' \in Seq(Tasks) /\ \A u \in Threads : Owned(u) \in Seq(Tasks)
  BY OwnedTyped DEF OnceInv, TypeOK
<1>3. /\ produced' = produced
      /\ \A u \in Threads : u # t => Owned(u)' = Owned(u)
  BY DEF consume, consume_all, Owned, OnceInv, TypeOK
<1>4. /\ Distinct(x) /\ Distinct(m_tasklist') /\ Of(x) \cap Of(m_tasklist') = {}
      /\ Of(m_tasklist) = Of(x) \cup Of(m_tasklist')
  <2> DEFINE r == m_tasklist'
  <2> HIDE DEF r
  <2>1. m_tasklist = x \o r /\ r \in Seq(Tasks)
    BY <1>1, <1>2 DEF r
  <2>2. Distinct(x \o r)
    BY <2>1 DEF OnceInv
  <2> QED BY <2>1, <2>2, DistinctSplit, OfConcat DEF r
<1>5. Of(Owned(t)') = Of(Owned(t)) \cup Of(x)
  BY <1>1, <1>2, OfConcat
<1>6. Distinct(Owned(t)')
  <2>1. Of(Owned(t)) \cap Of(x) = {}
    BY <1>4 DEF OnceInv
  <2> QED BY <1>1, <1>2, <1>4, <2>1, DistinctJoined DEF OnceInv
<1>7. \A u \in Threads : /\ Distinct(Owned(u)')
                         /\ Of(Owned(u)') \cap Of(m_tasklist') = {}
  BY <1>3, <1>4, <1>5, <1>6 DEF OnceInv
<1>8. \A u, w \in Threads : u # w => Of(Owned(u)') \cap Of(Owned(w)') = {}
  <2> SUFFICES ASSUME NEW u \in Threads, NEW w \in Threads, u # w
               PROVE  Of(Owned(u)') \cap Of(Owned(w)') = {}
    OBVIOUS
  <2>1. Of(Owned(u)) \cap Of(Owned(w)) = {}
    BY DEF OnceInv
  <2>2. Of(Owned(u)) \cap Of(x) = {} /\ Of(Owned(w)) \cap Of(x) = {}
    BY <1>4 DEF OnceInv
  <2> QED BY <1>3, <1>5, <2>1, <2>2
<1>9. \A k : k \in Of(produced')
            <=> k \in Of(m_tasklist') \/ \E u \in Threads : k \in Of(Owned(u)')
  <2> TAKE k
  <2>1. k \in Of(produced') <=> k \in Of(m_tasklist) \/ \E u \in Threads : k \in Of(Owned(u))
    BY <1>3 DEF OnceInv
  <2>2. (\E u \in Threads : k \in Of(Owned(u)'))
          <=> k \in Of(x) \/ \E u \in Threads : k \in Of(Owned(u))
    BY <1>3, <1>5
  <2> QED BY <1>4, <2>1, <2>2
<1>10. Distinct(produced')
  BY <1>3 DEF OnceInv
<1> QED BY <1>4, <1>7, <1>8, <1>9, <1>10 DEF OnceInv, Of, Distinct

LEMMA NextOnce ==
  ASSUME OnceInv, TypeOK', [Next]_vars
  PROVE  OnceInv'
<1>1. CASE \E k \in New : produce(k)
  <2>1. PICK k \in New : multi_produce(<<k>>)
    BY <1>1 DEF produce
  <2>2. <<k>> \in Seq(Tasks) /\ Len(<<k>>) = 1 /\ <<k>>[1] = k
    BY OneTaskTyped
  <2>3. Distinct(<<k>>) /\ \A i \in 1..Len(<<k>>) : <<k>>[i] \in New
    BY <2>2 DEF Distinct
  <2> QED BY <2>1, <2>2, <2>3, ProduceOnce
<1>2. CASE \E list \in NewLists : multi_produce(list)
  <2>1. PICK list \in NewLists : multi_produce(list)
    BY <1>2
  <2>2. PICK n \in 0..MaxBatch : list \in [1..n -> New]
    BY <2>1 DEF NewLists, BoundedSeq, SeqOf
  <2>3. list \in Seq(Tasks) /\ DOMAIN list = 1..Len(list)
    BY <2>1, NewListsTyped, LenProperties
  <2>4. \A i \in 1..Len(list) : list[i] \in New
    BY <2>2, <2>3
  <2>5. Distinct(list)
    BY <2>1, <2>3 DEF NewLists, IsInjective, Distinct
  <2> QED BY <2>1, <2>3, <2>4, <2>5, ProduceOnce
<1>3. CASE \E t \in Threads : consume(t) \/ consume_all(t)
  BY <1>3, TakeOnce
<1>4. ASSUME m_tasklist' = m_tasklist, produced' = produced,
             \A u \in Threads : Owned(u)' = Owned(u)
      PROVE  OnceInv'
  <2>1. /\ Of(produced)' = Of(produced) /\ Of(m_tasklist)' = Of(m_tasklist)
        /\ \A u \in Threads : Of(Owned(u))' = Of(Owned(u))
    BY <1>4 DEF Of
  <2> QED BY <1>4, <2>1 DEF OnceInv, Distinct
<1>5. CASE \E t \in Threads : run(t)
  <2>1. PICK t \in Threads : run(t)
    BY <1>5
  <2>2. \A u \in Threads : Owned(u)' = Owned(u)
    BY <2>1, RunKeepsOwned DEF OnceInv, Owned
  <2> QED BY <1>4, <2>1, <2>2 DEF run
<1>6. CASE UNCHANGED <<m_tasklist, taken, produced, executed>>
  <2>1. \A u \in Threads : Owned(u)' = Owned(u)
    BY <1>6 DEF Owned
  <2> QED BY <1>4, <1>6, <2>1
<1>7. CASE close \/ \E t \in Threads : wait(t) \/ end(t) \/ wake_spuriously(t)
  BY <1>6, <1>7 DEF close, wait, end, wake_spuriously
<1> QED BY <1>1, <1>2, <1>3, <1>5, <1>6, <1>7 DEF Next, Serves, vars

(* What a thread owns it has either run or taken, and once.                *)
LEMMA OnceInOwned ==
  ASSUME OnceInv, NEW t \in Threads
  PROVE  /\ Distinct(executed[t]) /\ Distinct(taken[t])
         /\ Of(executed[t]) \cap Of(taken[t]) = {}
         /\ Of(Owned(t)) = Of(executed[t]) \cup Of(taken[t])
BY OwnedTyped, DistinctSplit, OfConcat DEF OnceInv, Owned

LEMMA IndicesOf ==
  ASSUME NEW s \in Seq(Tasks), NEW k
  PROVE  /\ Indices(s, k) # {} <=> k \in Of(s)
         /\ Distinct(s) => \A i, j \in Indices(s, k) : i = j
<1>1. DOMAIN s = 1..Len(s)
  BY LenProperties
<1> QED BY <1>1 DEF Indices, Of, Distinct

LEMMA OneOrNone ==
  ASSUME NEW S, \A a, b \in S : a = b
  PROVE  Cardinality(S) = IF S = {} THEN 0 ELSE 1
<1>1. CASE S = {}
  BY <1>1, FS_EmptySet
<1>2. CASE S # {}
  <2>1. PICK a \in S : S = {a}
    BY <1>2
  <2> QED BY <1>2, <2>1, FS_Singleton
<1> QED BY <1>1, <1>2

LEMMA OnePlace ==
  ASSUME OnceInv, NEW k
  PROVE  /\ \A p, q \in Places(k) : p = q
         /\ Places(k) # {} <=> k \in Of(produced)
<1>1. /\ m_tasklist \in Seq(Tasks)
      /\ \A t \in Threads : executed[t] \in Seq(Tasks) /\ taken[t] \in Seq(Tasks)
  BY OwnedTyped DEF OnceInv, TypeOK
<1> DEFINE L == Indices(m_tasklist, k)
           T(t) == Indices(taken[t], k)
           R(t) == Indices(executed[t], k)
<1>2. /\ \A i, j \in L : i = j
      /\ \A t \in Threads : /\ \A i, j \in T(t) : i = j
                            /\ \A i, j \in R(t) : i = j
  BY <1>1, IndicesOf, OnceInOwned DEF OnceInv
<1>3. /\ L # {} <=> k \in Of(m_tasklist)
      /\ \A t \in Threads : /\ T(t) # {} <=> k \in Of(taken[t])
                            /\ R(t) # {} <=> k \in Of(executed[t])
  BY <1>1, IndicesOf
<1>4. \A t \in Threads : /\ k \in Of(Owned(t)) <=> T(t) # {} \/ R(t) # {}
                         /\ ~(T(t) # {} /\ R(t) # {})
  BY <1>3, OnceInOwned
<1>5. /\ \A t \in Threads : L # {} => T(t) = {} /\ R(t) = {}
      /\ \A t, u \in Threads : T(t) # {} \/ R(t) # {} => u = t \/ (T(u) = {} /\ R(u) = {})
  BY <1>3, <1>4 DEF OnceInv
<1> HIDE DEF L, T, R
<1>6. \A p : p \in Places(k) <=> \/ \E i \in L : p = <<"list", i>>
                                 \/ \E t \in Threads : \E i \in T(t) : p = <<"taken", t, i>>
                                 \/ \E t \in Threads : \E i \in R(t) : p = <<"run", t, i>>
  <2> DEFINE A == {<<"list", i>> : i \in L}
             B == UNION {{<<"taken", t, i>> : i \in T(t)} : t \in Threads}
             C == UNION {{<<"run", t, i>> : i \in R(t)} : t \in Threads}
  <2>1. Places(k) = A \cup B \cup C
    BY DEF Places, L, T, R
  <2>2. \A p : p \in A <=> \E i \in L : p = <<"list", i>>
    OBVIOUS
  <2>3. \A p : p \in B <=> \E t \in Threads : \E i \in T(t) : p = <<"taken", t, i>>
    OBVIOUS
  <2>4. \A p : p \in C <=> \E t \in Threads : \E i \in R(t) : p = <<"run", t, i>>
    OBVIOUS
  <2> HIDE DEF A, B, C
  <2> QED BY <2>1, <2>2, <2>3, <2>4
<1>7. k \in Of(produced) <=> L # {} \/ \E t \in Threads : T(t) # {} \/ R(t) # {}
  BY <1>3, <1>4 DEF OnceInv
<1>8. \A p, q \in Places(k) : p = q
  <2> SUFFICES ASSUME NEW p \in Places(k), NEW q \in Places(k) PROVE p = q
    OBVIOUS
  <2>1. CASE \E i \in L : p = <<"list", i>>
    BY <1>2, <1>5, <1>6, <2>1
  <2>2. CASE \E t \in Threads : \E i \in T(t) : p = <<"taken", t, i>>
    <3>1. PICK t \in Threads : \E i \in T(t) : p = <<"taken", t, i>>
      BY <2>2
    <3>2. L = {} /\ R(t) = {} /\ \A u \in Threads : u = t \/ (T(u) = {} /\ R(u) = {})
      BY <1>4, <1>5, <3>1
    <3>3. PICK i \in T(t) : p = <<"taken", t, i>>
      BY <3>1
    <3>4. PICK j \in T(t) : q = <<"taken", t, j>>
      BY <1>6, <3>2
    <3> QED BY <1>2, <3>3, <3>4
  <2>3. CASE \E t \in Threads : \E i \in R(t) : p = <<"run", t, i>>
    <3>1. PICK t \in Threads : \E i \in R(t) : p = <<"run", t, i>>
      BY <2>3
    <3>2. L = {} /\ T(t) = {} /\ \A u \in Threads : u = t \/ (T(u) = {} /\ R(u) = {})
      BY <1>4, <1>5, <3>1
    <3>3. PICK i \in R(t) : p = <<"run", t, i>>
      BY <3>1
    <3>4. PICK j \in R(t) : q = <<"run", t, j>>
      BY <1>6, <3>2
    <3> QED BY <1>2, <3>3, <3>4
  <2> QED BY <1>6, <2>1, <2>2, <2>3
<1>9. Places(k) # {} <=> k \in Of(produced)
  BY <1>6, <1>7
<1> QED BY <1>8, <1>9

LEMMA OnceIs == OnceInv => EachTaskOnce
<1> SUFFICES ASSUME OnceInv, NEW k \in Tasks
             PROVE  Cardinality(Places(k)) = Cardinality(Indices(produced, k))
  BY DEF EachTaskOnce
<1>1. produced \in Seq(Tasks) /\ Distinct(produced)
  BY DEF OnceInv, TypeOK
<1>2. /\ \A i, j \in Indices(produced, k) : i = j
      /\ Indices(produced, k) # {} <=> k \in Of(produced)
  BY <1>1, IndicesOf
<1> QED BY <1>2, OnePlace, OneOrNone

(* However many threads run a queue and whichever way they take from it,   *)
(* no task produced is lost and none is taken or run twice, by one thread  *)
(* or by two (task_queue_impl.h: consume, consume_all and produce change   *)
(* the list only under the mutex, and consume_all clears what it copied).  *)
THEOREM TasksRunOnce == Spec => []EachTaskOnce
<1>1. Init => OnceInv
  <2> SUFFICES ASSUME Init PROVE OnceInv
    OBVIOUS
  <2>1. TypeOK
    BY EmptySeq DEF Init, TypeOK
  <2>2. /\ produced = <<>> /\ m_tasklist = <<>>
        /\ \A t \in Threads : Owned(t) = <<>>
    <3>1. <<>> \in Seq(Tasks)
      BY EmptySeq
    <3> QED BY <3>1, ConcatEmptySeq DEF Init, Owned
  <2>3. Len(<<>>) = 0
    OBVIOUS
  <2>4. Of(<<>>) = {} /\ Distinct(<<>>)
    BY <2>3 DEF Of, Distinct
  <2> QED BY <2>1, <2>2, <2>4 DEF OnceInv
<1>2. TypeOK' /\ OnceInv /\ [Next]_vars => OnceInv'
  BY NextOnce
<1> QED BY <1>1, <1>2, TypeCorrect, OnceIs, PTL DEF Spec
=============================================================================
