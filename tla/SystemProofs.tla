---------------------------- MODULE SystemProofs ----------------------------
(***************************************************************************)
(* What holds of the nodes and the master broker together, for every       *)
(* number of nodes, connections, services and calls.                       *)
(***************************************************************************)
EXTENDS System, BrokerLemmas

(* Queues: what an operation leaves in one.                                *)
LEMMA EmptyQueue == IsQueue(<<>>) /\ Items(<<>>) = {} /\ Len(<<>>) = 0
BY DEF IsQueue, Items

LEMMA QueueLength ==
  ASSUME NEW s, IsQueue(s)
  PROVE  /\ Len(s) \in Nat
         /\ s = <<>> <=> Len(s) = 0
         /\ \A i \in 1..Len(s) : s[i] \in Items(s)
         /\ \A x \in Items(s) : \E i \in 1..Len(s) : s[i] = x
BY DEF IsQueue, Items

LEMMA AppendedQueue ==
  ASSUME NEW s, IsQueue(s), NEW x
  PROVE  /\ IsQueue(Append(s, x))
         /\ Items(Append(s, x)) = Items(s) \cup {x}
         /\ Len(Append(s, x)) = Len(s) + 1
         /\ \A i \in 1..Len(s) : Append(s, x)[i] = s[i]
         /\ Append(s, x)[Len(s) + 1] = x
<1> DEFINE S == Items(s) \cup {x}
           t == Append(s, x)
<1>1. s \in Seq(S)
  BY DEF IsQueue
<1>2. x \in S
  OBVIOUS
<1> HIDE DEF S
<1>3. /\ t \in Seq(S) /\ Len(t) = Len(s) + 1 /\ Len(s) \in Nat
      /\ \A i \in 1..Len(s) : t[i] = s[i]
      /\ t[Len(s) + 1] = x
  BY <1>1, <1>2
<1> HIDE DEF t
<1>4. Items(t) = S
  <2>1. \A i \in 1..Len(t) : i \in 1..Len(s) \/ i = Len(s) + 1
    BY <1>3
  <2>2. 1..Len(s) \subseteq 1..Len(t) /\ Len(s) + 1 \in 1..Len(t)
    BY <1>3
  <2> QED
    BY <1>3, <2>1, <2>2 DEF Items, S
<1> QED
  BY <1>3, <1>4 DEF IsQueue, S, t

LEMMA TakenQueue ==
  ASSUME NEW s, IsQueue(s), s # <<>>
  PROVE  /\ Head(s) \in Items(s) /\ Head(s) = s[1]
         /\ IsQueue(Tail(s))
         /\ Items(Tail(s)) \subseteq Items(s)
         /\ Len(s) \in Nat \ {0} /\ Len(Tail(s)) = Len(s) - 1
         /\ \A i \in 1..Len(Tail(s)) : Tail(s)[i] = s[i + 1]
<1> DEFINE S == Items(s)
           t == Tail(s)
<1>1. s \in Seq(S)
  BY DEF IsQueue
<1>2. /\ t \in Seq(S) /\ Len(s) \in Nat \ {0} /\ Len(t) = Len(s) - 1
      /\ \A i \in 1..Len(t) : t[i] = s[i + 1]
      /\ Head(s) = s[1]
  <2> HIDE DEF S
  <2> QED
    BY <1>1, HeadTailProperties
<1> HIDE DEF t
<1>3. \A i \in 1..Len(t) : i + 1 \in 1..Len(s)
  BY <1>2
<1>4. Items(t) \subseteq S
  BY <1>2, <1>3 DEF Items
<1>5. t \in Seq(Items(t))
  <2>1. \A i \in 1..Len(t) : t[i] \in Items(t)
    BY DEF Items
  <2> HIDE DEF S
  <2> QED
    BY <1>2, <2>1
<1>6. 1 \in 1..Len(s)
  BY <1>2
<1>7. s[1] \in Items(s)
  BY <1>6 DEF Items
<1> QED
  BY <1>2, <1>4, <1>5, <1>7 DEF IsQueue, t

LEMMA CutQueue ==
  ASSUME NEW s, IsQueue(s), NEW k \in 0..Len(s)
  PROVE  /\ IsQueue(SubSeq(s, 1, k))
         /\ Items(SubSeq(s, 1, k)) \subseteq Items(s)
         /\ Len(SubSeq(s, 1, k)) = k /\ k \in Nat /\ k <= Len(s) /\ Len(s) \in Nat
         /\ \A i \in 1..k : SubSeq(s, 1, k)[i] = s[i]
<1> DEFINE S == Items(s)
           t == SubSeq(s, 1, k)
<1>1. s \in Seq(S)
  BY DEF IsQueue
<1>2. /\ t \in Seq(S) /\ Len(t) = k /\ k \in Nat /\ k <= Len(s) /\ Len(s) \in Nat
      /\ \A i \in 1..k : t[i] = s[i]
  <2> HIDE DEF S
  <2> QED
    BY <1>1, SubSeqProperties
<1> HIDE DEF t
<1>3. Items(t) \subseteq S
  <2>1. \A i \in 1..Len(t) : i \in 1..Len(s)
    BY <1>2
  <2> QED
    BY <1>2, <2>1 DEF Items
<1>4. t \in Seq(Items(t))
  <2>1. \A i \in 1..Len(t) : t[i] \in Items(t)
    BY DEF Items
  <2> HIDE DEF S
  <2> QED
    BY <1>2, <2>1
<1> QED
  BY <1>2, <1>3, <1>4 DEF IsQueue, t

(* The queue t is s without its first d items, with at most one item of X  *)
(* added, or cut short.                                                    *)
Follows(s, t, d, X) ==
  \A i \in 1..Len(t) : \/ i + d \in 1..Len(s) /\ t[i] = s[i + d]
                       \/ i = Len(t) /\ t[i] \in X

LEMMA FollowsAppended ==
  ASSUME NEW s, IsQueue(s), NEW X, NEW x \in X
  PROVE  Follows(s, Append(s, x), 0, X)
<1> DEFINE t == Append(s, x)
<1>1. /\ Len(t) = Len(s) + 1 /\ Len(s) \in Nat /\ t[Len(s) + 1] = x
      /\ \A i \in 1..Len(s) : t[i] = s[i]
  BY AppendedQueue, QueueLength
<1> HIDE DEF t
<1>2. \A i \in 1..Len(t) : i = Len(s) + 1 \/ (i + 0 \in 1..Len(s) /\ i + 0 = i /\ i \in 1..Len(s))
  BY <1>1
<1>3. Follows(s, t, 0, X)
  BY <1>1, <1>2 DEF Follows
<1> QED
  BY <1>3 DEF t

LEMMA FollowsTaken ==
  ASSUME NEW s, IsQueue(s), s # <<>>, NEW X
  PROVE  /\ Follows(s, Tail(s), 1, X)
         /\ \A x \in X : Follows(s, Append(Tail(s), x), 1, X)
         /\ \A k \in 0..Len(Tail(s)) : Follows(s, SubSeq(Tail(s), 1, k), 1, X)
<1> DEFINE r == Tail(s)
<1>1. /\ IsQueue(r) /\ Len(s) \in Nat \ {0} /\ Len(r) = Len(s) - 1
      /\ \A i \in 1..Len(r) : r[i] = s[i + 1]
  BY TakenQueue
<1> HIDE DEF r
<1>2. \A i \in 1..Len(r) : i + 1 \in 1..Len(s)
  BY <1>1
<1>3. ASSUME NEW x \in X PROVE Follows(s, Append(r, x), 1, X)
  <2> DEFINE t == Append(r, x)
  <2>1. /\ Len(t) = Len(r) + 1 /\ Len(r) \in Nat /\ t[Len(r) + 1] = x
        /\ \A i \in 1..Len(r) : t[i] = r[i]
    BY <1>1, AppendedQueue, QueueLength
  <2> HIDE DEF t
  <2>2. \A i \in 1..Len(t) : i = Len(t) \/ i \in 1..Len(r)
    BY <2>1
  <2>3. Follows(s, t, 1, X)
    BY <1>1, <1>2, <2>1, <2>2 DEF Follows
  <2> QED
    BY <2>3 DEF t
<1>4. ASSUME NEW k \in 0..Len(r) PROVE Follows(s, SubSeq(r, 1, k), 1, X)
  <2>1. /\ Len(SubSeq(r, 1, k)) = k /\ k \in Nat /\ k <= Len(r) /\ Len(r) \in Nat
        /\ \A i \in 1..k : SubSeq(r, 1, k)[i] = r[i]
    BY <1>1, CutQueue
  <2>2. \A i \in 1..k : i \in 1..Len(r)
    BY <2>1
  <2> QED
    BY <1>1, <1>2, <2>1, <2>2 DEF Follows
<1>5. Follows(s, r, 1, X)
  BY <1>1, <1>2 DEF Follows
<1> QED
  BY <1>3, <1>4, <1>5 DEF r

LEMMA FollowsCut ==
  ASSUME NEW s, IsQueue(s), NEW X
  PROVE  /\ Follows(s, s, 0, X)
         /\ \A k \in 0..Len(s) : Follows(s, SubSeq(s, 1, k), 0, X)
<1>1. Len(s) \in Nat /\ \A i \in 1..Len(s) : i + 0 = i
  BY QueueLength
<1>2. ASSUME NEW k \in 0..Len(s) PROVE Follows(s, SubSeq(s, 1, k), 0, X)
  <2>1. /\ Len(SubSeq(s, 1, k)) = k /\ k \in Nat /\ k <= Len(s)
        /\ \A i \in 1..k : SubSeq(s, 1, k)[i] = s[i]
    BY CutQueue
  <2>2. \A i \in 1..k : i \in 1..Len(s)
    BY <1>1, <2>1
  <2> QED
    BY <1>1, <2>1, <2>2 DEF Follows
<1> QED
  BY <1>1, <1>2 DEF Follows

(* The queue t holds items of s, and of the set X, in the order of s.      *)
From(s, t, X) == /\ IsQueue(t) /\ Items(t) \subseteq Items(s) \cup X
                 /\ \E d \in {0, 1} : Follows(s, t, d, X)

LEMMA FromMore ==
  ASSUME NEW s, NEW t, NEW X, NEW Y, X \subseteq Y, From(s, t, X)
  PROVE  From(s, t, Y)
<1>1. PICK d \in {0, 1} : Follows(s, t, d, X)
  BY DEF From
<1>2. Follows(s, t, d, Y)
  BY <1>1 DEF Follows
<1> QED
  BY <1>2 DEF From

LEMMA FromQueue ==
  ASSUME NEW s, IsQueue(s), NEW X
  PROVE  /\ From(s, s, X)
         /\ \A x \in X : From(s, Append(s, x), X)
         /\ s # <<>> => From(s, Tail(s), X)
         /\ s # <<>> => \A x \in X : From(s, Append(Tail(s), x), X)
         /\ \A k \in 0..Len(s) : From(s, SubSeq(s, 1, k), X)
         /\ s # <<>> => \A k \in 0..Len(Tail(s)) : From(s, SubSeq(Tail(s), 1, k), X)
<1>1. From(s, s, X)
  BY FollowsCut DEF From
<1>2. \A x \in X : From(s, Append(s, x), X)
  BY AppendedQueue, FollowsAppended DEF From
<1>3. ASSUME s # <<>>
      PROVE  /\ From(s, Tail(s), X) /\ \A x \in X : From(s, Append(Tail(s), x), X)
             /\ \A k \in 0..Len(Tail(s)) : From(s, SubSeq(Tail(s), 1, k), X)
  <2>1. IsQueue(Tail(s)) /\ Items(Tail(s)) \subseteq Items(s)
    BY <1>3, TakenQueue
  <2>2. \A x \in X : /\ IsQueue(Append(Tail(s), x))
                    /\ Items(Append(Tail(s), x)) = Items(Tail(s)) \cup {x}
    BY <2>1, AppendedQueue
  <2>3. \A k \in 0..Len(Tail(s)) : /\ IsQueue(SubSeq(Tail(s), 1, k))
                                   /\ Items(SubSeq(Tail(s), 1, k)) \subseteq Items(Tail(s))
    BY <2>1, CutQueue
  <2>4. /\ Follows(s, Tail(s), 1, X)
        /\ \A x \in X : Follows(s, Append(Tail(s), x), 1, X)
        /\ \A k \in 0..Len(Tail(s)) : Follows(s, SubSeq(Tail(s), 1, k), 1, X)
    BY <1>3, FollowsTaken
  <2> QED
    BY <2>1, <2>2, <2>3, <2>4 DEF From
<1>4. \A k \in 0..Len(s) : From(s, SubSeq(s, 1, k), X)
  BY CutQueue, FollowsCut DEF From
<1> QED
  BY <1>1, <1>2, <1>3, <1>4

-----------------------------------------------------------------------------
(* What a step puts into the queues: XB[c], XN[c] and XT[n] are what is new*)
(* for the broker, for a connecting side and for a node's thread.          *)
Moves(XB, XN, XT) ==
  /\ DOMAIN toBroker' = Conns /\ DOMAIN toNode' = Conns /\ DOMAIN tq' = Nodes
  /\ \A c \in Conns : /\ From(toBroker[c], toBroker'[c], XB[c])
                      /\ From(toNode[c], toNode'[c], XN[c])
  /\ \A n \in Nodes : From(tq[n], tq'[n], XT[n])

Nowhere == [c \in Conns |-> {}]
NoTask == [n \in Nodes |-> {}]
OnConn(c, x) == [d \in Conns |-> IF d = c THEN {x} ELSE {}]
AsTask(n, t) == [p \in Nodes |-> IF p = n THEN {t} ELSE {}]

LEMMA QueuesAre ==
  ASSUME QueuesTyped
  PROVE  /\ DOMAIN toBroker = Conns /\ DOMAIN toNode = Conns /\ DOMAIN tq = Nodes
         /\ \A c \in Conns : IsQueue(toBroker[c]) /\ IsQueue(toNode[c])
         /\ \A n \in Nodes : IsQueue(tq[n])
BY DEF QueuesTyped

(* The three kinds of queue, one by one.                                   *)
SameToBroker(XB) == /\ DOMAIN toBroker' = Conns
                    /\ \A c \in Conns : From(toBroker[c], toBroker'[c], XB[c])

SameToNode(XN) == /\ DOMAIN toNode' = Conns
                  /\ \A c \in Conns : From(toNode[c], toNode'[c], XN[c])

SameTasks(XT) == /\ DOMAIN tq' = Nodes
                 /\ \A n \in Nodes : From(tq[n], tq'[n], XT[n])

LEMMA MovesAre ==
  ASSUME NEW XB, NEW XN, NEW XT, SameToBroker(XB), SameToNode(XN), SameTasks(XT)
  PROVE  Moves(XB, XN, XT)
BY DEF Moves, SameToBroker, SameToNode, SameTasks

LEMMA NothingMoves ==
  ASSUME QueuesTyped
  PROVE  /\ toBroker' = toBroker => \A X : SameToBroker(X)
         /\ toNode' = toNode => \A X : SameToNode(X)
         /\ tq' = tq => \A X : SameTasks(X)
BY QueuesAre, FromQueue DEF SameToBroker, SameToNode, SameTasks

LEMMA ConsumedMoves ==
  ASSUME QueuesTyped, NEW c \in Conns, toBroker[c] # <<>>, Consumed(c)
  PROVE  SameToBroker(Nowhere)
<1>1. /\ DOMAIN toBroker' = Conns /\ toBroker'[c] = Tail(toBroker[c])
      /\ \A d \in Conns : d # c => toBroker'[d] = toBroker[d]
  BY QueuesAre DEF Consumed
<1> QED
  BY <1>1, QueuesAre, FromQueue DEF SameToBroker

LEMMA SentMoves ==
  ASSUME QueuesTyped, NEW dests, NEW m, toNode' = SentToNodes(dests, m)
  PROVE  SameToNode([c \in Conns |-> IF c \in dests THEN {m[c]} ELSE {}])
<1>1. DOMAIN toNode' = Conns
  BY DEF SentToNodes
<1>2. \A c \in Conns : \/ toNode'[c] = toNode[c]
                       \/ c \in dests /\ toNode'[c] = Append(toNode[c], m[c])
  BY DEF SentToNodes
<1> QED
  BY <1>1, <1>2, QueuesAre, FromQueue DEF SameToNode

LEMMA ClosedMoves ==
  ASSUME QueuesTyped, NEW c \in Conns, NEW s,
         s = toBroker[c] \/ (toBroker[c] # <<>> /\ s = Tail(toBroker[c])),
         CloseWith(c, s)
  PROVE  SameToBroker(Nowhere) /\ SameToNode(Nowhere)
<1>1. PICK i \in 0..Len(s) : toBroker' = [toBroker EXCEPT ![c] = SubSeq(s, 1, i)]
  BY DEF CloseWith
<1>2. PICK j \in 0..Len(toNode[c]) : toNode' = [toNode EXCEPT ![c] = SubSeq(@, 1, j)]
  BY DEF CloseWith
<1>3. IsQueue(toBroker[c])
  BY QueuesAre
<1>4. From(toBroker[c], SubSeq(s, 1, i), {})
  <2>1. CASE s = toBroker[c]
    BY <1>3, <2>1, FromQueue
  <2>2. CASE toBroker[c] # <<>> /\ s = Tail(toBroker[c])
    BY <1>3, <2>2, FromQueue
  <2> QED
    BY <2>1, <2>2
<1>5. From(toNode[c], SubSeq(toNode[c], 1, j), {})
  BY QueuesAre, FromQueue
<1>6. \A d \in Conns : /\ From(toBroker[d], toBroker'[d], {})
                      /\ From(toNode[d], toNode'[d], {})
  BY <1>1, <1>2, <1>4, <1>5, QueuesAre, FromQueue
<1> QED
  BY <1>1, <1>2, <1>6, QueuesAre DEF SameToBroker, SameToNode, Nowhere

LEMMA ProducedMoves ==
  ASSUME QueuesTyped, NEW n \in Nodes, NEW t, Produce(n, t)
  PROVE  SameTasks(AsTask(n, t))
<1>1. /\ DOMAIN tq' = Nodes /\ tq'[n] = Append(tq[n], t)
      /\ \A p \in Nodes : p # n => tq'[p] = tq[p]
  BY QueuesAre DEF Produce
<1> QED
  BY <1>1, QueuesAre, FromQueue DEF SameTasks, AsTask

LEMMA DoneMoves ==
  ASSUME QueuesTyped, NEW n \in Nodes, tq[n] # <<>>, Done(n)
  PROVE  SameTasks(NoTask)
<1>1. /\ DOMAIN tq' = Nodes /\ tq'[n] = Tail(tq[n])
      /\ \A p \in Nodes : p # n => tq'[p] = tq[p]
  BY QueuesAre DEF Done
<1> QED
  BY <1>1, QueuesAre, FromQueue DEF SameTasks, NoTask

LEMMA SentToBrokerMoves ==
  ASSUME QueuesTyped, NEW c \in Conns, NEW m, toBroker' = SentToBroker(c, m)
  PROVE  SameToBroker(OnConn(c, m))
<1>1. /\ DOMAIN toBroker' = Conns /\ toBroker'[c] \in {toBroker[c], Append(toBroker[c], m)}
      /\ \A d \in Conns : d # c => toBroker'[d] = toBroker[d]
  BY QueuesAre DEF SentToBroker
<1> QED
  BY <1>1, QueuesAre, FromQueue DEF SameToBroker, OnConn

LEMMA ConnectMoves ==
  ASSUME QueuesTyped, NEW c \in Conns, NEW m, ConnectAndSend(c, m)
  PROVE  SameToBroker(OnConn(c, m))
<1>1. /\ DOMAIN toBroker' = Conns /\ toBroker'[c] = <<m>>
      /\ \A d \in Conns : d # c => toBroker'[d] = toBroker[d]
  BY QueuesAre DEF ConnectAndSend
<1>2. From(toBroker[c], <<m>>, {m})
  <2>1. Items(<<m>>) = {m}
    BY DEF Items
  <2>2. <<m>> \in Seq({m})
    OBVIOUS
  <2>3. Len(<<m>>) = 1 /\ <<m>>[1] = m
    OBVIOUS
  <2>4. Follows(toBroker[c], <<m>>, 0, {m})
    BY <2>3 DEF Follows
  <2> QED
    BY <2>1, <2>2, <2>4 DEF From, IsQueue
<1> QED
  BY <1>1, <1>2, QueuesAre, FromQueue DEF SameToBroker, OnConn

(* What a synchronisation puts on each connection.                         *)
Syncs(id, ids, slaves, clients) ==
  [d \in Conns |-> {SyncData(i, ids, slaves, clients) : i \in {0, id}}]

LEMMA SyncMoves ==
  ASSUME QueuesTyped, NEW c, NEW id, NEW ids, NEW slaves, NEW clients, NEW k,
         sync_all_register_info(c, id, ids, slaves, clients, k)
  PROVE  SameToNode(Syncs(id, ids, DOMAIN slaves, m_broker_client_info'))
<1> DEFINE X == Syncs(id, ids, DOMAIN slaves, m_broker_client_info')
<1>1. DOMAIN toNode' = Conns
  BY DEF sync_all_register_info, SentToNodes
<1>2. \A d \in Conns : \/ toNode'[d] = toNode[d]
                      \/ \E x \in X[d] : toNode'[d] = Append(toNode[d], x)
  <2> TAKE d \in Conns
  <2>1. \/ toNode'[d] = toNode[d]
        \/ \E e \in Entries(slaves, m_broker_client_info') :
             toNode'[d] = Append(toNode[d],
                 SyncData(NodeIdAt(e, c, id, slaves, m_broker_client_info'),
                          ids, DOMAIN slaves, m_broker_client_info'))
    BY SyncSends
  <2>2. ASSUME NEW e, toNode'[d] = Append(toNode[d],
                 SyncData(NodeIdAt(e, c, id, slaves, m_broker_client_info'),
                          ids, DOMAIN slaves, m_broker_client_info'))
        PROVE  \E x \in X[d] : toNode'[d] = Append(toNode[d], x)
    <3>1. NodeIdAt(e, c, id, slaves, m_broker_client_info') \in {0, id}
      BY DEF NodeIdAt
    <3> QED
      BY <2>2, <3>1 DEF Syncs
  <2> QED
    BY <2>1, <2>2
<1> HIDE DEF X
<1>3. \A d \in Conns : From(toNode[d], toNode'[d], X[d])
  <2> TAKE d \in Conns
  <2>1. IsQueue(toNode[d])
    BY QueuesAre
  <2> QED
    BY <1>2, <2>1, FromQueue
<1> QED
  BY <1>1, <1>3 DEF SameToNode, X

(* No message of a node to the broker is a slave broker's.                 *)
LEMMA FirstToBroker ==
  ASSUME QueuesTyped, NEW c \in Conns, toBroker[c] # <<>>
  PROVE  TypedToBroker(Head(toBroker[c]))
<1>1. IsQueue(toBroker[c]) /\ \A m \in Items(toBroker[c]) : TypedToBroker(m)
  BY DEF QueuesTyped
<1> QED
  BY <1>1, TakenQueue

LEMMA NoSlaveMessages ==
  ASSUME QueuesTyped, NEW c \in Conns
  PROVE  ~handle_slave_register(c) /\ ~handle_client_register_slave_broker(c)
BY FirstToBroker
DEF TypedToBroker, handle_slave_register, handle_client_register_slave_broker, Receives

(* The messages of one handler of the broker.                              *)
LEMMA ClientRegisterMoves ==
  ASSUME QueuesTyped, NEW c \in Conns, handle_client_register(c)
  PROVE  Moves(Nowhere,
               Syncs(alloc_id(1), m_msg2id', DOMAIN m_slave_broker_sockets,
                     m_broker_client_info'), NoTask)
<1>1. SameToBroker(Nowhere)
  BY ConsumedMoves DEF handle_client_register, Receives
<1>2. SameToNode(Syncs(alloc_id(1), m_msg2id', DOMAIN m_slave_broker_sockets,
                       m_broker_client_info'))
  BY SyncMoves DEF handle_client_register
<1>3. SameTasks(NoTask)
  BY NothingMoves DEF handle_client_register, routeVars
<1> QED
  BY <1>1, <1>2, <1>3, MovesAre

LEMMA RejectMoves ==
  ASSUME QueuesTyped, NEW c \in Conns, reject_client_register(c)
  PROVE  Moves(Nowhere, Nowhere, NoTask)
<1>1. SameToBroker(Nowhere) /\ SameToNode(Nowhere)
  BY ConsumedMoves, ClosedMoves, NothingMoves DEF reject_client_register, Receives
<1>2. SameTasks(NoTask)
  BY NothingMoves DEF reject_client_register, routeVars
<1> QED
  BY <1>1, <1>2, MovesAre

(* Where a routed message goes.                                            *)
RouteOf(c) == Head(toBroker[c]).route

RoutedTo(c) ==
  [d \in Conns |->
     IF /\ LocalNode(RouteOf(c).dest_node_id) = NoNode
        /\ RouteOf(c).dest_node_id \in DOMAIN m_broker_client_info
        /\ d = m_broker_client_info[RouteOf(c).dest_node_id].sock
     THEN {ToClient(RouteOf(c))} ELSE {}]

TriggeredAt(c) ==
  [n \in Nodes |-> IF n = LocalNode(RouteOf(c).dest_node_id)
                   THEN {[kind |-> "trigger", route |-> RouteOf(c)]} ELSE {}]

LEMMA RouteMoves ==
  ASSUME QueuesTyped, NEW c \in Conns, handle_route_msg(c)
  PROVE  Moves(Nowhere, RoutedTo(c), TriggeredAt(c))
<1> DEFINE r == RouteOf(c)
           dest == r.dest_node_id
           sock == m_broker_client_info[dest].sock
<1>1. SameToBroker(Nowhere)
  BY ConsumedMoves DEF handle_route_msg, Receives
<1>2. SameToNode(RoutedTo(c))
  <2>1. CASE LocalNode(dest) = NoNode /\ dest \in DOMAIN m_broker_client_info
    <3> DEFINE m == [d \in Conns |-> ToClient(r)]
    <3>1. toNode' = SentToNodes({sock}, m)
      BY <2>1 DEF handle_route_msg, RouteOf
    <3>2. SameToNode([d \in Conns |-> IF d \in {sock} THEN {m[d]} ELSE {}])
      BY <3>1, SentMoves
    <3>3. \A d \in Conns : m[d] = ToClient(r)
      OBVIOUS
    <3> HIDE DEF m
    <3>4. [d \in Conns |-> IF d \in {sock} THEN {m[d]} ELSE {}] = RoutedTo(c)
      BY <2>1, <3>3 DEF RoutedTo
    <3> QED
      BY <3>2, <3>4
  <2>2. CASE ~(LocalNode(dest) = NoNode /\ dest \in DOMAIN m_broker_client_info)
    BY <2>2, NothingMoves DEF handle_route_msg, RouteOf
  <2> QED
    BY <2>1, <2>2
<1>3. SameTasks(TriggeredAt(c))
  <2> DEFINE p == LocalNode(dest)
             task == [kind |-> "trigger", route |-> r]
  <2>1. tq' = IF p = NoNode THEN tq ELSE [tq EXCEPT ![p] = Append(@, task)]
    BY DEF handle_route_msg, broker_route_to_client, RouteOf
  <2>2. /\ DOMAIN tq' = Nodes
        /\ \A n \in Nodes : tq'[n] = tq[n] \/ (n = p /\ tq'[n] = Append(tq[n], task))
    BY <2>1, QueuesAre
  <2>3. \A n \in Nodes : n = p => TriggeredAt(c)[n] = {task}
    BY DEF TriggeredAt
  <2> HIDE DEF p, task
  <2> QED
    BY <2>2, <2>3, QueuesAre, FromQueue DEF SameTasks
<1> QED
  BY <1>1, <1>2, <1>3, MovesAre

LEMMA BrokenMoves ==
  ASSUME QueuesTyped, NEW c \in Conns
  PROVE  /\ handle_broken_unknown(c) => Moves(Nowhere, Nowhere, NoTask)
         /\ handle_broken(c) =>
              Moves(Nowhere, Syncs(0, m_msg2id, DOMAIN m_slave_broker_sockets',
                                   m_broker_client_info'), NoTask)
<1>1. handle_broken_unknown(c) => Moves(Nowhere, Nowhere, NoTask)
  BY NothingMoves, MovesAre DEF handle_broken_unknown, routeVars
<1>2. ASSUME handle_broken(c)
      PROVE  Moves(Nowhere, Syncs(0, m_msg2id, DOMAIN m_slave_broker_sockets',
                                  m_broker_client_info'), NoTask)
  <2>1. SameToBroker(Nowhere) /\ SameTasks(NoTask)
    BY <1>2, NothingMoves DEF handle_broken, routeVars
  <2>2. SameToNode(Syncs(0, m_msg2id, DOMAIN m_slave_broker_sockets',
                         m_broker_client_info'))
    <3> DEFINE slaves == Erase(m_slave_broker_sockets, session[c])
               clients == Erase(m_broker_client_info, session[c])
    <3>1. /\ m_slave_broker_sockets' = slaves
          /\ sync_all_register_info(NoConn, 0, m_msg2id, slaves, clients, 0)
      BY <1>2 DEF handle_broken
    <3> HIDE DEF slaves, clients
    <3> QED
      BY <3>1, SyncMoves
  <2> QED
    BY <2>1, <2>2, MovesAre
<1> QED
  BY <1>1, <1>2

(* What a node sends to the broker.                                        *)
NodeSent(n, dest, msg, cb, body) ==
  [d \in Conns |-> IF d = m_master_broker_sock[n]
                   THEN {RouteMsg(Route(m_node_id[n], dest, msg, cb, body), via) :
                           via \in {"socket", "memory"}} ELSE {}]

LEMMA NodeSendMoves ==
  ASSUME QueuesTyped, NEW n \in Nodes, m_master_broker_sock[n] \in Conns \cup {NoConn},
         NEW dest, NEW msg, NEW cb, NEW body,
         send_to_broker_by_nodeid(n, dest, msg, cb, body)
  PROVE  SameToBroker(NodeSent(n, dest, msg, cb, body))
<1> DEFINE sock == m_master_broker_sock[n]
           r == Route(m_node_id[n], dest, msg, cb, body)
           X == NodeSent(n, dest, msg, cb, body)
<1>1. CASE sock = NoConn
  BY <1>1, NothingMoves DEF send_to_broker_by_nodeid
<1>2. CASE sock \in Conns
  <2> DEFINE via == IF n \in Local /\ client_route_to_broker(dest) THEN "memory" ELSE "socket"
  <2>1. sock # NoConn
    BY <1>2, NetworkAssumption
  <2>2. toBroker' = SentToBroker(sock, RouteMsg(r, via))
    BY <2>1 DEF send_to_broker_by_nodeid
  <2>3. via \in {"socket", "memory"}
    OBVIOUS
  <2> HIDE DEF via
  <2>4. RouteMsg(r, via) \in X[sock]
    BY <1>2, <2>3 DEF NodeSent
  <2>5. SameToBroker(OnConn(sock, RouteMsg(r, via)))
    BY <1>2, <2>2, SentToBrokerMoves
  <2> HIDE DEF sock, r, X
  <2>6. \A d \in Conns : OnConn(sock, RouteMsg(r, via))[d] \subseteq X[d]
    BY <2>4 DEF OnConn
  <2> QED
    BY <2>5, <2>6, FromMore DEF SameToBroker, X, r, sock
<1> QED
  BY <1>1, <1>2

(* The messages and tasks of the node's side, of one action each.          *)
LEMMA HandleMsgMoves ==
  ASSUME QueuesTyped, NEW c \in Conns, Owner[c] \in Nodes, handle_msg(c)
  PROVE  Moves(Nowhere, Nowhere,
               AsTask(Owner[c], [kind |-> "msg", msg |-> Head(toNode[c])]))
<1>1. SameTasks(AsTask(Owner[c], [kind |-> "msg", msg |-> Head(toNode[c])]))
  BY ProducedMoves DEF handle_msg
<1>2. SameToBroker(Nowhere)
  BY NothingMoves DEF handle_msg
<1>3. /\ DOMAIN toNode' = Conns /\ toNode'[c] = Tail(toNode[c])
      /\ \A d \in Conns : d # c => toNode'[d] = toNode[d]
  BY QueuesAre DEF handle_msg
<1>4. SameToNode(Nowhere)
  BY <1>3, QueuesAre, FromQueue DEF SameToNode, handle_msg
<1> QED
  BY <1>1, <1>2, <1>4, MovesAre

LEMMA ProducerMoves ==
  ASSUME QueuesTyped
  PROVE  /\ \A c \in Conns : Owner[c] \in Nodes /\ handle_broken_on_node(c) =>
              Moves(Nowhere, Nowhere, AsTask(Owner[c], BrokenTask(c)))
         /\ \A n \in Nodes : route_call_reconnect(n) =>
              Moves(Nowhere, Nowhere, AsTask(n, [kind |-> "reconnect"]))
         /\ \A n \in Nodes : open_returns(n) => Moves(Nowhere, Nowhere, NoTask)
         /\ \A k \in Calls : Caller[k] \in Nodes /\ call(k) =>
              Moves(Nowhere, Nowhere, AsTask(Caller[k], [kind |-> "call", call |-> k]))
<1>1. ASSUME NEW c \in Conns, Owner[c] \in Nodes, handle_broken_on_node(c)
      PROVE  Moves(Nowhere, Nowhere, AsTask(Owner[c], BrokenTask(c)))
  <2>1. UNCHANGED <<toBroker, toNode>> /\ Produce(Owner[c], BrokenTask(c))
    BY <1>1 DEF handle_broken_on_node, netVars
  <2> QED
    BY <1>1, <2>1, NothingMoves, ProducedMoves, MovesAre
<1>2. ASSUME NEW n \in Nodes, route_call_reconnect(n)
      PROVE  Moves(Nowhere, Nowhere, AsTask(n, [kind |-> "reconnect"]))
  <2>1. UNCHANGED <<toBroker, toNode>> /\ Produce(n, [kind |-> "reconnect"])
    BY <1>2 DEF route_call_reconnect, netVars
  <2> QED
    BY <2>1, NothingMoves, ProducedMoves, MovesAre
<1>3. ASSUME NEW n \in Nodes, open_returns(n)
      PROVE  Moves(Nowhere, Nowhere, NoTask)
  <2>1. UNCHANGED <<toBroker, toNode, tq>>
    BY <1>3 DEF open_returns, netVars
  <2> QED
    BY <2>1, NothingMoves, MovesAre
<1>4. ASSUME NEW k \in Calls, Caller[k] \in Nodes, call(k)
      PROVE  Moves(Nowhere, Nowhere, AsTask(Caller[k], [kind |-> "call", call |-> k]))
  <2>1. UNCHANGED <<toBroker, toNode>> /\ Produce(Caller[k], [kind |-> "call", call |-> k])
    BY <1>4 DEF call, netVars
  <2> QED
    BY <1>4, <2>1, NothingMoves, ProducedMoves, MovesAre
<1> QED
  BY <1>1, <1>2, <1>3, <1>4

(* A connection is made: the registration is all there is on it.           *)
Registering(n) ==
  [c \in Conns |-> IF c \in Fresh(n)
                   THEN {RegisterClient(Service[n], Interfaces[n])} ELSE {}]

LEMMA ConnectingMoves ==
  ASSUME QueuesTyped, NEW n \in Nodes
  PROVE  /\ ConnectSucceeds(n) => SameToBroker(Registering(n))
         /\ ConnectFails(n) => SameToBroker(Registering(n))
<1> DEFINE m == RegisterClient(Service[n], Interfaces[n])
<1>1. ASSUME NEW c \in Fresh(n), ConnectAndSend(c, m)
      PROVE  SameToBroker(Registering(n))
  <2>1. c \in Conns
    BY <1>1 DEF Fresh
  <2>2. SameToBroker(OnConn(c, m))
    BY <1>1, <2>1, ConnectMoves
  <2>3. \A d \in Conns : OnConn(c, m)[d] \subseteq Registering(n)[d]
    BY <1>1 DEF OnConn, Registering
  <2> HIDE DEF m
  <2> QED
    BY <2>2, <2>3, FromMore DEF SameToBroker
<1>2. ConnectFails(n) => SameToBroker(Registering(n))
  BY NothingMoves DEF ConnectFails
<1> QED
  BY <1>1, <1>2 DEF ConnectSucceeds

LEMMA OpenMoves ==
  ASSUME QueuesTyped, NEW n \in Nodes, open(n)
  PROVE  Moves(Registering(n), Nowhere, NoTask)
<1>1. UNCHANGED <<toNode, tq>>
  BY DEF open, routeVars
<1>2. SameToBroker(Registering(n))
  BY ConnectingMoves DEF open
<1> QED
  BY <1>1, <1>2, NothingMoves, MovesAre

(* Tasks that send nothing.                                                *)
Quiet(n) == \/ handle_unbound_msg(n)
            \/ handle_broker_sync_data(n)
            \/ trigger_callback(n)
            \/ trigger_callback_throws(n)
            \/ trigger_nothing(n)
            \/ call_impl_refused(n)
            \/ handle_broken_impl(n)

LEMMA QuietMoves ==
  ASSUME QueuesTyped, NEW n \in Nodes, Quiet(n)
  PROVE  Moves(Nowhere, Nowhere, NoTask)
<1>1. tq[n] # <<>> /\ Done(n)
  BY DEF Quiet, handle_unbound_msg, handle_broker_sync_data, trigger_callback,
         trigger_callback_throws, trigger_nothing, call_impl_refused,
         handle_broken_impl, Runs, ReceivesOnNode, Triggers, AnswersCallback
<1>2. UNCHANGED <<toBroker, toNode>>
  BY DEF Quiet, handle_unbound_msg, handle_broker_sync_data, trigger_callback,
         trigger_callback_throws, trigger_nothing, call_impl_refused,
         handle_broken_impl, netVars
<1> QED
  BY <1>1, <1>2, DoneMoves, NothingMoves, MovesAre

(* The answer of an interface.                                             *)
Responded(n) == AsTask(n, ResponseTask(Routed(n)))

LEMMA TriggerInterfaceMoves ==
  ASSUME QueuesTyped, NEW n \in Nodes, trigger_interface(n)
  PROVE  Moves(Nowhere, Nowhere, Responded(n))
<1> DEFINE t == ResponseTask(Routed(n))
<1>1. /\ tq[n] # <<>>
      /\ tq' = [tq EXCEPT ![n] = Append(Tail(@), t)] \/ tq' = [tq EXCEPT ![n] = Tail(@)]
  BY DEF trigger_interface, CallsInterface, Triggers, ReceivesOnNode, Runs, Done
<1>2. UNCHANGED <<toBroker, toNode>>
  BY DEF trigger_interface, netVars
<1> HIDE DEF t
<1>3. SameTasks(AsTask(n, t))
  <2>1. /\ DOMAIN tq' = Nodes /\ tq'[n] \in {Append(Tail(tq[n]), t), Tail(tq[n])}
        /\ \A p \in Nodes : p # n => tq'[p] = tq[p]
    BY <1>1, QueuesAre
  <2>2. From(tq[n], tq'[n], {t}) /\ \A p \in Nodes : p # n => From(tq[p], tq'[p], {})
    BY <1>1, <2>1, QueuesAre, FromQueue
  <2> QED
    BY <2>1, <2>2 DEF SameTasks, AsTask
<1> QED
  BY <1>2, <1>3, NothingMoves, MovesAre DEF t, Responded

(* The request of a call, and the message of an answer.                    *)
Requested(n) ==
  LET k == Task(n).call
  IN NodeSent(n, m_broker_client_name2nodeid[n][Target[k]],
              IdsAfter(n, Message[k])[Message[k]], get_callback_id(n), Request(k))

Answered(n) == NodeSent(n, Task(n).dest, 0, Task(n).callback_id, Task(n).body)

LEMMA SendingMoves ==
  ASSUME QueuesTyped, NEW n \in Nodes, m_master_broker_sock[n] \in Conns \cup {NoConn}
  PROVE  /\ call_impl(n) => Moves(Requested(n), Nowhere, NoTask)
         /\ response(n) => Moves(Answered(n), Nowhere, NoTask)
<1>1. ASSUME call_impl(n)
      PROVE  Moves(Requested(n), Nowhere, NoTask)
  <2>1. SameToBroker(Requested(n))
    BY <1>1, NodeSendMoves DEF call_impl, Requested
  <2>2. tq[n] # <<>> /\ Done(n) /\ UNCHANGED toNode
    BY <1>1 DEF call_impl, Runs
  <2> QED
    BY <2>1, <2>2, DoneMoves, NothingMoves, MovesAre
<1>2. ASSUME response(n)
      PROVE  Moves(Answered(n), Nowhere, NoTask)
  <2>1. SameToBroker(Answered(n))
    BY <1>2, NodeSendMoves DEF response, Answered
  <2>2. tq[n] # <<>> /\ Done(n) /\ UNCHANGED toNode
    BY <1>2 DEF response, Runs
  <2> QED
    BY <2>1, <2>2, DoneMoves, NothingMoves, MovesAre
<1> QED
  BY <1>1, <1>2

LEMMA ReconnectMoves ==
  ASSUME QueuesTyped, NEW n \in Nodes
  PROVE  /\ timer_reconnect_broker(n) => Moves(Registering(n), Nowhere, NoTask)
         /\ crash(n) => Moves(Nowhere, Nowhere, NoTask)
<1>1. ASSUME timer_reconnect_broker(n)
      PROVE  Moves(Registering(n), Nowhere, NoTask)
  <2>1. SameToBroker(Registering(n))
    BY <1>1, ConnectingMoves DEF timer_reconnect_broker
  <2>2. tq[n] # <<>> /\ Done(n) /\ UNCHANGED toNode
    BY <1>1 DEF timer_reconnect_broker, Runs
  <2> QED
    BY <2>1, <2>2, DoneMoves, NothingMoves, MovesAre
<1>2. crash(n) => Moves(Nowhere, Nowhere, NoTask)
  BY NothingMoves, MovesAre DEF crash, routeVars
<1> QED
  BY <1>1, <1>2

LEMMA BreaksMoves ==
  ASSUME QueuesTyped, NEW c \in Conns, Breaks(c)
  PROVE  Moves(Nowhere, Nowhere, NoTask)
<1>1. CloseWith(c, toBroker[c]) /\ UNCHANGED tq
  BY DEF Breaks, Break, routeVars
<1>2. SameToBroker(Nowhere) /\ SameToNode(Nowhere)
  BY <1>1, ClosedMoves
<1> QED
  BY <1>1, <1>2, NothingMoves, MovesAre

-----------------------------------------------------------------------------
(* Types.                                                                  *)
LEMMA FirstToNode ==
  ASSUME QueuesTyped, NEW c \in Conns, toNode[c] # <<>>
  PROVE  TypedToNode(Head(toNode[c]))
<1>1. IsQueue(toNode[c]) /\ \A m \in Items(toNode[c]) : TypedToNode(m)
  BY DEF QueuesTyped
<1> QED
  BY <1>1, TakenQueue

LEMMA FirstTask ==
  ASSUME QueuesTyped, NEW n \in Nodes, tq[n] # <<>>
  PROVE  TypedTask(Task(n))
<1>1. IsQueue(tq[n]) /\ \A t \in Items(tq[n]) : TypedTask(t)
  BY DEF QueuesTyped
<1> QED
  BY <1>1, TakenQueue DEF Task

LEMMA QueuesStayTyped ==
  ASSUME QueuesTyped, NEW XB, NEW XN, NEW XT, Moves(XB, XN, XT),
         \A c \in Conns : /\ \A m \in XB[c] : TypedToBroker(m)
                          /\ \A m \in XN[c] : TypedToNode(m),
         \A n \in Nodes : \A t \in XT[n] : TypedTask(t)
  PROVE  QueuesTyped'
<1>1. \A c \in Conns : /\ IsQueue(toBroker'[c]) /\ \A m \in Items(toBroker'[c]) : TypedToBroker(m)
                      /\ IsQueue(toNode'[c]) /\ \A m \in Items(toNode'[c]) : TypedToNode(m)
  BY DEF QueuesTyped, Moves, From
<1>2. \A n \in Nodes : IsQueue(tq'[n]) /\ \A t \in Items(tq'[n]) : TypedTask(t)
  BY DEF QueuesTyped, Moves, From
<1> QED
  BY <1>1, <1>2 DEF QueuesTyped, Moves

LEMMA NothingNew ==
  ASSUME QueuesTyped, Moves(Nowhere, Nowhere, NoTask)
  PROVE  QueuesTyped'
BY QueuesStayTyped DEF Nowhere, NoTask

LEMMA SyncsTyped ==
  ASSUME NEW id \in Ids, NEW ids, IsMap(ids, Msgs, Ids), NEW slaves \in SUBSET Ids,
         NEW clients, IsMap(clients, Ids \ {0}, ClientInfo)
  PROVE  \A c \in Conns : \A m \in Syncs(id, ids, slaves, clients)[c] : TypedToNode(m)
<1>1. ASSUME NEW i \in {0, id}
      PROVE  TypedToNode(SyncData(i, ids, slaves, clients))
  <2> DEFINE entry(j) == [bind_broker_id |-> clients[j].bind_broker_id,
                          service_name   |-> clients[j].service_name]
             info == [j \in DOMAIN clients |-> entry(j)]
  <2>1. \A j \in DOMAIN clients : entry(j) \in ClientEntry /\ j \in Ids
    BY DEF IsMap, ClientInfo, ClientEntry
  <2> HIDE DEF entry
  <2>2. IsMap(info, Ids, ClientEntry)
    BY <2>1 DEF IsMap
  <2>3. /\ SyncData(i, ids, slaves, clients).cmd = "BROKER_SYNC_DATA_MSG"
        /\ SyncData(i, ids, slaves, clients).node_id = i
        /\ SyncData(i, ids, slaves, clients).msg2id = ids
        /\ SyncData(i, ids, slaves, clients).slave_broker_info = slaves
        /\ SyncData(i, ids, slaves, clients).broker_client_info = info
    BY DEF SyncData, entry
  <2>4. i \in Ids
    BY BrokerAssumption DEF Ids
  <2> QED
    BY <2>2, <2>3, <2>4 DEF TypedToNode, TypedSync
<1> QED
  BY <1>1 DEF Syncs

(* The table of nodes in the process.                                      *)
TypedTable == IsMap(m_node_info, Ids, [ffrpc : Nodes \cup {NoNode}, ffbroker : BOOLEAN])

LEMMA LookedTyped ==
  ASSUME TypedTable, NEW id \in Ids
  PROVE  /\ IsMap(Looked(id), Ids, [ffrpc : Nodes \cup {NoNode}, ffbroker : BOOLEAN])
         /\ DOMAIN Looked(id) = DOMAIN m_node_info \cup {id}
         /\ LocalNode(id) \in Nodes \cup {NoNode}
         /\ \A i \in DOMAIN m_node_info : Looked(id)[i] = m_node_info[i]
         /\ id \notin DOMAIN m_node_info => LocalNode(id) = NoNode
<1> DEFINE V == [ffrpc : Nodes \cup {NoNode}, ffbroker : BOOLEAN]
<1>1. dest_node_info_t \in V /\ dest_node_info_t.ffrpc = NoNode
  BY DEF dest_node_info_t
<1>2. \A v \in V : v.ffrpc \in Nodes \cup {NoNode}
  OBVIOUS
<1> HIDE DEF V
<1>3. CASE id \in DOMAIN m_node_info
  <2>1. Looked(id) = m_node_info /\ m_node_info[id] \in V
    BY <1>3 DEF Looked, TypedTable, IsMap, V
  <2> QED
    BY <1>2, <1>3, <2>1 DEF LocalNode, TypedTable, V
<1>4. CASE id \notin DOMAIN m_node_info
  <2>1. Looked(id) = [x \in DOMAIN m_node_info \cup {id} |->
                        IF x = id THEN dest_node_info_t ELSE m_node_info[x]]
    BY <1>4 DEF Looked, Insert
  <2>2. DOMAIN m_node_info \subseteq Ids /\ \A i \in DOMAIN m_node_info : m_node_info[i] \in V
    BY DEF TypedTable, IsMap, V
  <2>3. IsMap(Looked(id), Ids, V)
    BY <1>1, <2>1, <2>2 DEF IsMap
  <2> QED
    BY <1>1, <1>4, <2>1, <2>3 DEF LocalNode, V
<1> QED
  BY <1>3, <1>4

-----------------------------------------------------------------------------
(* The broker's step.                                                      *)
NetTyped == /\ link \in [Conns -> {"unused", "open", "broken"}]
            /\ deleted \subseteq Sides \X Conns

SharedTyped == NetTyped /\ TypedTable /\ QueuesTyped /\ BrokerTyped

LEMMA TypeParts == /\ TypeOK <=> SharedTyped /\ NodesTyped
                   /\ TypeOK' <=> SharedTyped' /\ NodesTyped'
BY DEF TypeOK, SharedTyped, NetTyped, TypedTable

LEMMA ClientRegisterTyped ==
  ASSUME SharedTyped, NEW c \in Conns, handle_client_register(c)
  PROVE  SharedTyped'
<1> DEFINE msg == Head(toBroker[c])
           id == alloc_id(1)
           slaves == DOMAIN m_slave_broker_sockets
           info == [bind_broker_id |-> alloc_broker_id(slaves, 0),
                    service_name   |-> msg.service_name,
                    sock           |-> c]
<1> USE DEF SharedTyped
<1>1. msg \in [cmd : {"BROKER_CLIENT_REGISTER"}, service_name : Names \cup {NoName},
               msg_names : SUBSET Msgs]
  BY FirstToBroker DEF handle_client_register, Receives, TypedToBroker
<1>2. m_node_id_index \in Ids /\ IsMap(m_msg2id, Msgs, Ids \ {0}) /\ allocs \in Nat
  BY DEF BrokerTyped
<1>3. id \in Ids \ {0}
  BY <1>2, NewIdTyped
<1>4. slaves \in SUBSET Ids /\ IsMap(m_slave_broker_sockets, Ids \ {0}, Conns)
  BY DEF BrokerTyped, IsMap
<1>5. info \in ClientInfo
  <2>1. alloc_broker_id(slaves, 0) \in Ids
    BY <1>4, BrokerIdTyped DEF BrokerTyped
  <2> QED
    BY <1>1, <2>1 DEF ClientInfo
<1>6. IsMap(Insert(m_broker_client_info, id, info), Ids \ {0}, ClientInfo)
  BY <1>3, <1>5, InsertTyped DEF BrokerTyped
<1>7. /\ m_msg2id' = NewMsgIds(msg.msg_names)
      /\ session' = [session EXCEPT ![c] = id]
      /\ Allocated(1 + Cardinality(msg.msg_names \ DOMAIN m_msg2id))
      /\ sync_all_register_info(c, id, m_msg2id', m_slave_broker_sockets,
           Insert(m_broker_client_info, id, info), 1)
      /\ UNCHANGED <<m_slave_broker_sockets, link, deleted, m_node_info>>
  BY DEF handle_client_register, routeVars
<1>8. /\ IsMap(m_msg2id', Msgs, Ids \ {0})
      /\ 1 + Cardinality(msg.msg_names \ DOMAIN m_msg2id) \in 1..MaxId
  BY <1>1, <1>2, <1>7, NewIdsTyped
<1>9. m_node_id_index' \in Ids /\ allocs' \in Nat
  BY <1>2, <1>7, <1>8, AllocIds, BrokerAssumption DEF Allocated
<1> HIDE DEF info
<1>10. /\ IsMap(m_broker_client_info', Ids \ {0}, ClientInfo)
       /\ m_alloc_slave_broker_index' \in Ids
  BY <1>4, <1>6, <1>7, SyncTables DEF BrokerTyped
<1>11. session' \in [Conns -> Ids]
  BY <1>3, <1>7 DEF BrokerTyped
<1>12. BrokerTyped'
  BY <1>4, <1>7, <1>8, <1>9, <1>10, <1>11 DEF BrokerTyped
<1>13. QueuesTyped'
  <2> DEFINE X == Syncs(id, m_msg2id', slaves, m_broker_client_info')
  <2>1. Moves(Nowhere, X, NoTask)
    BY ClientRegisterMoves
  <2>2. IsMap(m_msg2id', Msgs, Ids)
    BY <1>8 DEF IsMap
  <2>3. \A d \in Conns : \A m \in X[d] : TypedToNode(m)
    BY <1>3, <1>4, <1>10, <2>2, SyncsTyped
  <2> HIDE DEF X
  <2> QED
    BY <2>1, <2>3, QueuesStayTyped DEF Nowhere, NoTask
<1> QED
  BY <1>7, <1>12, <1>13 DEF NetTyped, TypedTable

LEMMA BrokenTyped ==
  ASSUME SharedTyped, NEW c \in Conns, handle_broken(c)
  PROVE  SharedTyped'
<1> DEFINE slaves == Erase(m_slave_broker_sockets, session[c])
           clients == Erase(m_broker_client_info, session[c])
<1> USE DEF SharedTyped
<1>1. /\ IsMap(slaves, Ids \ {0}, Conns)
      /\ IsMap(clients, Ids \ {0}, ClientInfo)
      /\ DOMAIN slaves \in SUBSET Ids
  <2>1. IsMap(slaves, Ids \ {0}, Conns) /\ IsMap(clients, Ids \ {0}, ClientInfo)
    BY EraseTyped DEF BrokerTyped
  <2> QED
    BY <2>1 DEF IsMap
<1>2. /\ m_slave_broker_sockets' = slaves
      /\ sync_all_register_info(NoConn, 0, m_msg2id, slaves, clients, 0)
      /\ session' = [session EXCEPT ![c] = 0]
      /\ deleted' = deleted \cup {<<"broker", c>>}
      /\ UNCHANGED <<m_node_id_index, m_msg2id, allocs, link, m_node_info>>
  BY DEF handle_broken, SafeDelete, routeVars
<1> HIDE DEF slaves, clients
<1>3. /\ IsMap(m_broker_client_info', Ids \ {0}, ClientInfo)
      /\ m_alloc_slave_broker_index' \in Ids
  BY <1>1, <1>2, SyncTables DEF BrokerTyped
<1>4. BrokerTyped'
  BY <1>1, <1>2, <1>3, BrokerAssumption DEF BrokerTyped, Ids
<1>5. QueuesTyped'
  <2> DEFINE X == Syncs(0, m_msg2id, DOMAIN slaves, m_broker_client_info')
  <2>1. Moves(Nowhere, X, NoTask)
    BY <1>2, BrokenMoves
  <2>2. IsMap(m_msg2id, Msgs, Ids) /\ 0 \in Ids
    BY BrokerAssumption DEF BrokerTyped, IsMap, Ids
  <2>3. \A d \in Conns : \A m \in X[d] : TypedToNode(m)
    BY <1>1, <1>3, <2>2, SyncsTyped
  <2> HIDE DEF X
  <2> QED
    BY <2>1, <2>3, QueuesStayTyped DEF Nowhere, NoTask
<1> QED
  BY <1>2, <1>4, <1>5 DEF NetTyped, TypedTable, Sides

LEMMA RouteTyped ==
  ASSUME SharedTyped, NEW c \in Conns, handle_route_msg(c)
  PROVE  SharedTyped'
<1> USE DEF SharedTyped
<1>1. RouteOf(c) \in Routes
  BY FirstToBroker DEF handle_route_msg, Receives, TypedToBroker, RouteOf
<1>2. m_node_info' = Looked(RouteOf(c).dest_node_id) /\ RouteOf(c).dest_node_id \in Ids
  BY <1>1 DEF handle_route_msg, broker_route_to_client, RouteOf, Routes
<1>3. TypedTable'
  BY <1>2, LookedTyped DEF TypedTable
<1>4. QueuesTyped'
  <2>1. Moves(Nowhere, RoutedTo(c), TriggeredAt(c))
    BY RouteMoves
  <2>2. \A d \in Conns : \A m \in RoutedTo(c)[d] : TypedToNode(m)
    BY <1>1 DEF RoutedTo, ToClient, TypedToNode
  <2>3. \A n \in Nodes : \A t \in TriggeredAt(c)[n] : TypedTask(t)
    BY <1>1 DEF TriggeredAt, TypedTask
  <2> QED
    BY <2>1, <2>2, <2>3, QueuesStayTyped DEF Nowhere
<1>5. UNCHANGED <<brokerVars, link, deleted>>
  BY DEF handle_route_msg
<1> QED
  BY <1>3, <1>4, <1>5 DEF NetTyped, BrokerTyped, brokerVars

LEMMA ClosedTyped ==
  ASSUME NetTyped, NEW c \in Conns, NEW s, CloseWith(c, s), UNCHANGED deleted
  PROVE  NetTyped'
BY DEF NetTyped, CloseWith

LEMMA BrokerStepTyped ==
  ASSUME SharedTyped, NEW c \in Conns, BrokerStep(c)
  PROVE  SharedTyped'
<1> USE DEF SharedTyped
<1>1. ASSUME reject_client_register(c) PROVE SharedTyped'
  <2>1. UNCHANGED <<brokerVars, deleted, m_node_info>>
    BY <1>1 DEF reject_client_register, routeVars
  <2>2. NetTyped'
    BY <1>1, <2>1, ClosedTyped DEF reject_client_register, NetTyped
  <2>3. QueuesTyped'
    BY <1>1, RejectMoves, NothingNew
  <2> QED
    BY <2>1, <2>2, <2>3 DEF TypedTable, BrokerTyped, brokerVars
<1>2. ASSUME handle_broken_unknown(c) PROVE SharedTyped'
  <2>1. /\ UNCHANGED <<brokerVars, link, m_node_info>>
        /\ deleted' = deleted \cup {<<"broker", c>>}
    BY <1>2 DEF handle_broken_unknown, routeVars, SafeDelete
  <2>2. QueuesTyped'
    BY <1>2, BrokenMoves, NothingNew
  <2> QED
    BY <2>1, <2>2 DEF NetTyped, Sides, TypedTable, BrokerTyped, brokerVars
<1> QED
  BY <1>1, <1>2, NoSlaveMessages, ClientRegisterTyped, RouteTyped, BrokenTyped DEF BrokerStep

-----------------------------------------------------------------------------
(* The nodes' steps.                                                       *)
LEMMA UnchangedNodes ==
  ASSUME NodesTyped, UNCHANGED nodeVars
  PROVE  NodesTyped'
BY DEF NodesTyped, NodeTyped, nodeVars

LEMMA UnchangedShared ==
  ASSUME SharedTyped, UNCHANGED <<link, deleted, m_node_info, brokerVars>>, QueuesTyped'
  PROVE  SharedTyped'
BY DEF SharedTyped, NetTyped, TypedTable, BrokerTyped, brokerVars

(* What is in the maps of one node.                                        *)
LEMMA NodeMaps ==
  ASSUME NodesTyped, NEW n \in Nodes
  PROVE  /\ NodeTyped(n)
         /\ m_node_id[n] \in Ids /\ m_callback_id[n] \in Nat /\ m_timer[n] \in Nat
         /\ m_master_broker_sock[n] \in Conns \cup {NoConn}
         /\ issued[n] \in Seq(Calls) /\ served[n] \in Seq(Calls)
         /\ freed[n] \in SUBSET Msgs
BY DEF NodesTyped

LEMMA EmptyMapTyped == \A K, V : IsMap(EmptyMap, K, V)
BY DEF IsMap, EmptyMap

(* What a trigger names.                                                   *)
LEMMA RoutedTyped ==
  ASSUME QueuesTyped, NEW n \in Nodes, Triggers(n)
  PROVE  Routed(n) \in Routes
<1>1. tq[n] # <<>>
  BY DEF Triggers, ReceivesOnNode, Runs
<1>2. TypedTask(Task(n))
  BY <1>1, FirstTask
<1>3. CASE Task(n).kind = "trigger"
  BY <1>2, <1>3 DEF TypedTask, Routed
<1>4. CASE Task(n).kind # "trigger"
  <2>1. Task(n).kind = "msg" /\ Task(n).msg.cmd = "BROKER_TO_CLIENT_MSG"
    BY <1>4 DEF Triggers, ReceivesOnNode, Runs, Task
  <2>2. TypedToNode(Task(n).msg)
    BY <1>2, <2>1 DEF TypedTask
  <2> QED
    BY <1>4, <2>1, <2>2 DEF TypedToNode, Routed
<1> QED
  BY <1>3, <1>4

LEMMA SyncTaskTyped ==
  ASSUME QueuesTyped, NEW n \in Nodes, ReceivesOnNode(n, "BROKER_SYNC_DATA_MSG")
  PROVE  Task(n).msg.cmd = "BROKER_SYNC_DATA_MSG" /\ TypedSync(Task(n).msg)
<1>1. /\ tq[n] # <<>> /\ Task(n).kind = "msg"
      /\ Task(n).msg.cmd = "BROKER_SYNC_DATA_MSG"
  BY DEF ReceivesOnNode, Runs, Task
<1>2. TypedTask(Task(n))
  BY <1>1, FirstTask
<1>3. TypedToNode(Task(n).msg)
  BY <1>1, <1>2 DEF TypedTask
<1> QED
  BY <1>1, <1>3 DEF TypedToNode

(* The interfaces after a synchronisation are the node's own.              *)
LEMMA BoundTyped ==
  ASSUME NEW n \in Nodes, NodeTyped(n), NEW ids, IsMap(ids, Msgs, Ids)
  PROVE  IsMap(BoundBy(n, ids), Ids, Interfaces[n])
<1> DEFINE own == {m \in DOMAIN ids \cap Interfaces[n] : ids[m] \notin DOMAIN m_ffslot_callback[n]}
           new == {ids[m] : m \in own} \ DOMAIN m_ffslot_interface[n]
           nm(i) == CHOOSE m \in own : ids[m] = i
<1>1. \A i \in new : nm(i) \in own /\ i \in Ids
  BY DEF IsMap
<1>2. BoundBy(n, ids) = [i \in DOMAIN m_ffslot_interface[n] \cup new |->
        IF i \in new THEN nm(i) ELSE m_ffslot_interface[n][i]]
  BY DEF BoundBy
<1>3. own \subseteq Interfaces[n]
  OBVIOUS
<1>4. IsMap(m_ffslot_interface[n], Ids, Interfaces[n])
  BY DEF NodeTyped
<1> HIDE DEF own, new, nm
<1> QED
  BY <1>1, <1>2, <1>3, <1>4 DEF IsMap

(* A service name leads to the id of a node that has it.                   *)
LEMMA NameTableHas ==
  ASSUME NEW clients, DOMAIN clients \subseteq Ids
  PROVE  /\ DOMAIN NameTable(clients) = {clients[i].service_name : i \in DOMAIN clients}
         /\ \A s \in DOMAIN NameTable(clients) :
              /\ NameTable(clients)[s] \in DOMAIN clients
              /\ clients[NameTable(clients)[s]].service_name = s
<1> DEFINE with(s) == {i \in DOMAIN clients : clients[i].service_name = s}
<1>1. NameTable(clients) =
        [s \in {clients[i].service_name : i \in DOMAIN clients} |-> Max(with(s))]
  BY DEF NameTable
<1>2. ASSUME NEW s \in {clients[i].service_name : i \in DOMAIN clients}
      PROVE  Max(with(s)) \in with(s)
  <2>1. with(s) # {} /\ with(s) \in SUBSET Ids
    OBVIOUS
  <2> HIDE DEF with
  <2>2. IsFiniteSet(with(s)) /\ with(s) \in SUBSET Nat
    BY <2>1, IdsFinite
  <2> QED
    BY <2>1, <2>2, MinMaxInSet
<1> QED
  BY <1>1, <1>2

LEMMA NameTableTyped ==
  ASSUME NEW clients, IsMap(clients, Ids, ClientEntry)
  PROVE  IsMap(NameTable(clients), Names \cup {NoName}, Ids)
<1>1. NameTable(clients) = [s \in DOMAIN NameTable(clients) |-> NameTable(clients)[s]]
  BY DEF NameTable
<1>2. DOMAIN clients \subseteq Ids /\ \A i \in DOMAIN clients : clients[i] \in ClientEntry
  BY DEF IsMap
<1>3. \A i \in DOMAIN clients : clients[i].service_name \in Names \cup {NoName}
  BY <1>2 DEF ClientEntry
<1> DEFINE table == NameTable(clients)
<1> HIDE DEF table, Ids
<1>4. /\ DOMAIN table \subseteq Names \cup {NoName}
      /\ \A s \in DOMAIN table : table[s] \in Ids
  <2>1. /\ DOMAIN table = {clients[i].service_name : i \in DOMAIN clients}
        /\ \A s \in DOMAIN table : table[s] \in DOMAIN clients
    BY <1>2, NameTableHas DEF table
  <2> QED
    BY <1>2, <1>3, <2>1
<1>5. table = [s \in DOMAIN table |-> table[s]]
  BY <1>1, Zenon DEF table
<1>6. IsMap(table, Names \cup {NoName}, Ids)
  BY <1>4, <1>5, Zenon DEF IsMap
<1> QED
  BY <1>6 DEF table

(* open() and its connection.                                              *)
LEMMA ConnectTyped ==
  ASSUME NetTyped, NodesTyped, NEW n \in Nodes,
         ConnectSucceeds(n) \/ ConnectFails(n), UNCHANGED deleted
  PROVE  /\ NetTyped'
         /\ m_master_broker_sock' \in [Nodes -> Conns \cup {NoConn}]
<1>1. ASSUME ConnectFails(n)
      PROVE  NetTyped' /\ m_master_broker_sock' \in [Nodes -> Conns \cup {NoConn}]
  BY <1>1 DEF ConnectFails, NetTyped, NodesTyped
<1>2. ASSUME ConnectSucceeds(n)
      PROVE  NetTyped' /\ m_master_broker_sock' \in [Nodes -> Conns \cup {NoConn}]
  <2>1. PICK c \in Fresh(n) :
          /\ link' = [link EXCEPT ![c] = "open"]
          /\ m_master_broker_sock' = [m_master_broker_sock EXCEPT ![n] = c]
    BY <1>2 DEF ConnectSucceeds, ConnectAndSend
  <2>2. c \in Conns
    BY DEF Fresh
  <2> QED
    BY <2>1, <2>2 DEF NetTyped, NodesTyped
<1> QED
  BY <1>1, <1>2

LEMMA RegisteringTyped ==
  ASSUME QueuesTyped, NEW n \in Nodes, Moves(Registering(n), Nowhere, NoTask)
  PROVE  QueuesTyped'
<1>1. TypedToBroker(RegisterClient(Service[n], Interfaces[n]))
  BY SystemAssumption DEF TypedToBroker, RegisterClient
<1> QED
  BY <1>1, QueuesStayTyped DEF Registering, Nowhere, NoTask

LEMMA OpenTyped ==
  ASSUME TypeOK, NEW n \in Nodes, OpenStarts(n)
  PROVE  TypeOK'
<1>1. SharedTyped /\ NodesTyped
  BY TypeParts
<1>2. QueuesTyped'
  BY <1>1, OpenMoves, RegisteringTyped DEF SharedTyped, OpenStarts
<1>3. /\ UNCHANGED <<deleted, m_node_info, brokerVars>>
      /\ ConnectSucceeds(n) \/ ConnectFails(n)
  BY DEF OpenStarts, open, routeVars
<1>4. NetTyped' /\ m_master_broker_sock' \in [Nodes -> Conns \cup {NoConn}]
  BY <1>1, <1>3, ConnectTyped DEF SharedTyped
<1>5. /\ m_ffslot' = [m_ffslot EXCEPT ![n] = {4, 5}]
      /\ \/ opened' = [opened EXCEPT ![n] = "waiting"]
         \/ opened' = [opened EXCEPT ![n] = "failed"]
      /\ UNCHANGED <<m_node_id, m_callback_id, m_timer, m_ffslot_interface,
                 m_ffslot_callback, msg2id, m_broker_client_name2nodeid, freed,
                 crashed, issued, refused, served, ran>>
  BY DEF OpenStarts, open
<1>6. NodesTyped'
  BY <1>1, <1>4, <1>5 DEF NodesTyped, NodeTyped
<1> QED
  BY <1>1, <1>2, <1>3, <1>4, <1>6, TypeParts DEF SharedTyped, TypedTable, BrokerTyped, brokerVars

LEMMA OpenReturnsTyped ==
  ASSUME TypeOK, NEW n \in Nodes, OpenReturns(n)
  PROVE  TypeOK'
<1>1. SharedTyped /\ NodesTyped
  BY TypeParts
<1>2. QueuesTyped'
  BY <1>1, ProducerMoves, NothingNew DEF SharedTyped, OpenReturns
<1>3. TypedTable'
  <2>1. CASE UNCHANGED m_node_info
    BY <1>1, <2>1 DEF SharedTyped, TypedTable
  <2>2. CASE add_node(m_node_id[n], n)
    <3> DEFINE id == m_node_id[n]
               v == [Looked(id)[id] EXCEPT !.ffrpc = n]
    <3>1. id \in Ids
      BY <1>1, NodeMaps
    <3>2. Looked(id)[id] \in [ffrpc : Nodes \cup {NoNode}, ffbroker : BOOLEAN]
      BY <1>1, <3>1, LookedTyped DEF SharedTyped, IsMap
    <3>3. v \in [ffrpc : Nodes \cup {NoNode}, ffbroker : BOOLEAN]
      BY <3>2
    <3>4. m_node_info' = Insert(m_node_info, id, v)
      BY <2>2 DEF add_node
    <3> HIDE DEF id, v
    <3> QED
      BY <1>1, <3>1, <3>3, <3>4, InsertTyped DEF SharedTyped, TypedTable
  <2> QED
    BY <2>1, <2>2 DEF OpenReturns, open_returns
<1>4. /\ \E s \in {"open", "failed"} : opened' = [opened EXCEPT ![n] = s]
      /\ UNCHANGED <<link, deleted, brokerVars>>
      /\ UNCHANGED <<m_node_id, m_callback_id, m_timer, m_master_broker_sock,
                 m_ffslot, m_ffslot_interface, m_ffslot_callback, msg2id,
                 m_broker_client_name2nodeid, freed, crashed, issued,
                 refused, served, ran>>
  BY DEF OpenReturns, open_returns, netVars
<1>5. NodesTyped'
  BY <1>1, <1>4 DEF NodesTyped, NodeTyped
<1> QED
  BY <1>1, <1>2, <1>3, <1>4, <1>5, TypeParts DEF SharedTyped, NetTyped, BrokerTyped, brokerVars

LEMMA ApplicationTyped ==
  ASSUME TypeOK, NEW k \in Calls, Application(k)
  PROVE  TypeOK'
<1>1. SharedTyped /\ NodesTyped /\ Caller[k] \in Nodes
  BY TypeParts, SystemAssumption
<1>2. call(k) /\ UNCHANGED brokerVars
  BY DEF Application
<1>3. QueuesTyped'
  <2>1. Moves(Nowhere, Nowhere, AsTask(Caller[k], [kind |-> "call", call |-> k]))
    BY <1>1, <1>2, ProducerMoves DEF SharedTyped
  <2>2. TypedTask([kind |-> "call", call |-> k])
    BY DEF TypedTask
  <2> QED
    BY <1>1, <2>1, <2>2, QueuesStayTyped DEF SharedTyped, Nowhere, AsTask
<1>4. /\ issued' = [issued EXCEPT ![Caller[k]] = Append(@, k)]
      /\ UNCHANGED <<link, deleted, m_node_info>>
      /\ UNCHANGED <<opened, m_node_id, m_callback_id, m_timer, m_master_broker_sock,
                 m_ffslot, m_ffslot_interface, m_ffslot_callback, msg2id,
                 m_broker_client_name2nodeid, freed, crashed, refused, served, ran>>
  BY <1>2 DEF call, netVars
<1>5. SharedTyped'
  BY <1>1, <1>2, <1>3, <1>4, UnchangedShared
<1>6. NodesTyped'
  <2>1. issued' \in [Nodes -> Seq(Calls)]
    BY <1>1, <1>4 DEF NodesTyped
  <2> QED
    BY <1>1, <1>4, <2>1 DEF NodesTyped, NodeTyped
<1> QED
  BY <1>5, <1>6, TypeParts

LEMMA NetworkTyped ==
  ASSUME TypeOK, NEW c \in Conns
  PROVE  NetworkThread(c) \/ Breaks(c) => TypeOK'
<1>1. SharedTyped /\ NodesTyped /\ Owner[c] \in Nodes
  BY TypeParts, SystemAssumption
<1>2. ASSUME handle_msg(c), UNCHANGED brokerVars
      PROVE  TypeOK'
  <2> DEFINE t == [kind |-> "msg", msg |-> Head(toNode[c])]
  <2>1. Moves(Nowhere, Nowhere, AsTask(Owner[c], t))
    BY <1>1, <1>2, HandleMsgMoves DEF SharedTyped
  <2>2. TypedTask(t)
    BY <1>1, <1>2, FirstToNode DEF TypedTask, SharedTyped, handle_msg
  <2> HIDE DEF t
  <2>3. QueuesTyped'
    BY <1>1, <2>1, <2>2, QueuesStayTyped DEF SharedTyped, Nowhere, AsTask
  <2>4. UNCHANGED <<nodeVars, link, deleted, m_node_info>>
    BY <1>2 DEF handle_msg
  <2> QED
    BY <1>1, <1>2, <2>3, <2>4, UnchangedShared, UnchangedNodes, TypeParts
<1>3. ASSUME handle_broken_on_node(c), UNCHANGED brokerVars
      PROVE  TypeOK'
  <2>1. Moves(Nowhere, Nowhere, AsTask(Owner[c], BrokenTask(c)))
    BY <1>1, <1>3, ProducerMoves DEF SharedTyped
  <2>2. TypedTask(BrokenTask(c))
    BY DEF TypedTask, BrokenTask
  <2>3. QueuesTyped'
    BY <1>1, <2>1, <2>2, QueuesStayTyped DEF SharedTyped, Nowhere, AsTask
  <2>4. UNCHANGED <<nodeVars, link, deleted, m_node_info>>
    BY <1>3 DEF handle_broken_on_node, netVars
  <2> QED
    BY <1>1, <1>3, <2>3, <2>4, UnchangedShared, UnchangedNodes, TypeParts
<1>4. ASSUME Breaks(c)
      PROVE  TypeOK'
  <2>1. QueuesTyped'
    BY <1>1, <1>4, BreaksMoves, NothingNew DEF SharedTyped
  <2>2. CloseWith(c, toBroker[c]) /\ UNCHANGED <<deleted, routeVars, brokerVars, nodeVars>>
    BY <1>4 DEF Breaks, Break
  <2>3. NetTyped'
    BY <1>1, <2>2, ClosedTyped DEF SharedTyped
  <2> QED
    BY <1>1, <2>1, <2>2, <2>3, UnchangedNodes, TypeParts
    DEF SharedTyped, TypedTable, BrokerTyped, brokerVars, routeVars
<1> QED
  BY <1>2, <1>3, <1>4 DEF NetworkThread

LEMMA TimerTyped ==
  ASSUME TypeOK, NEW n \in Nodes, Timer(n)
  PROVE  TypeOK'
<1>1. SharedTyped /\ NodesTyped
  BY TypeParts
<1>2. QueuesTyped'
  <2>1. Moves(Nowhere, Nowhere, AsTask(n, [kind |-> "reconnect"]))
    BY <1>1, ProducerMoves DEF SharedTyped, Timer
  <2>2. TypedTask([kind |-> "reconnect"])
    BY DEF TypedTask
  <2> QED
    BY <1>1, <2>1, <2>2, QueuesStayTyped DEF SharedTyped, Nowhere, AsTask
<1>3. /\ m_timer' = [m_timer EXCEPT ![n] = @ - 1] /\ m_timer[n] > 0
      /\ UNCHANGED <<link, deleted, m_node_info, brokerVars>>
      /\ UNCHANGED <<opened, m_node_id, m_callback_id, m_master_broker_sock,
                 m_ffslot, m_ffslot_interface, m_ffslot_callback, msg2id,
                 m_broker_client_name2nodeid, freed, crashed, issued,
                 refused, served, ran>>
  BY DEF Timer, route_call_reconnect, netVars
<1>4. m_timer' \in [Nodes -> Nat]
  BY <1>1, <1>3 DEF NodesTyped
<1>5. NodesTyped'
  BY <1>1, <1>3, <1>4 DEF NodesTyped, NodeTyped
<1> QED
  BY <1>1, <1>2, <1>3, <1>5, UnchangedShared, TypeParts

-----------------------------------------------------------------------------
(* The tasks.                                                              *)
LEMMA QuietTyped ==
  ASSUME TypeOK, NEW n \in Nodes, Quiet(n), UNCHANGED brokerVars
  PROVE  TypeOK'
<1>1. SharedTyped /\ NodesTyped /\ QueuesTyped /\ NodeTyped(n)
  BY TypeParts, NodeMaps DEF SharedTyped
<1>2. QueuesTyped'
  BY <1>1, QuietMoves, NothingNew
<1>3. UNCHANGED <<link, m_node_info>>
  BY DEF Quiet, handle_unbound_msg, handle_broker_sync_data, trigger_callback,
         trigger_callback_throws, trigger_nothing, call_impl_refused,
         handle_broken_impl, netVars
<1>4. ASSUME handle_unbound_msg(n) \/ trigger_nothing(n)
      PROVE  NodesTyped' /\ UNCHANGED deleted
  BY <1>1, <1>4, UnchangedNodes DEF handle_unbound_msg, trigger_nothing, netVars
<1>5. ASSUME handle_broker_sync_data(n)
      PROVE  NodesTyped' /\ UNCHANGED deleted
  <2> DEFINE m == Task(n).msg
  <2>1. /\ m_node_id' = [m_node_id EXCEPT ![n] = IF m.node_id # 0 THEN m.node_id ELSE @]
        /\ msg2id' = [msg2id EXCEPT ![n] = m.msg2id]
        /\ m_ffslot_interface' = [m_ffslot_interface EXCEPT ![n] = BoundBy(n, m.msg2id)]
        /\ m_broker_client_name2nodeid' =
             [m_broker_client_name2nodeid EXCEPT ![n] = NameTable(m.broker_client_info)]
        /\ UNCHANGED <<opened, m_callback_id, m_timer, m_master_broker_sock, m_ffslot,
                 m_ffslot_callback, freed, crashed, issued, refused,
                 served, ran, deleted>>
    BY <1>5 DEF handle_broker_sync_data, netVars
  <2>2. /\ m.node_id \in Ids /\ IsMap(m.msg2id, Msgs, Ids)
        /\ IsMap(m.broker_client_info, Ids, ClientEntry)
    BY <1>1, <1>5, SyncTaskTyped DEF handle_broker_sync_data, TypedSync
  <2> HIDE DEF m
  <2>3. IsMap(BoundBy(n, m.msg2id), Ids, Interfaces[n])
    BY <1>1, <2>2, BoundTyped
  <2>4. IsMap(NameTable(m.broker_client_info), Names \cup {NoName}, Ids)
    BY <2>2, NameTableTyped
  <2>5. \A p \in Nodes : NodeTyped(p)'
    <3>1. \A p \in Nodes :
            /\ m_ffslot_interface'[p] = IF p = n THEN BoundBy(n, m.msg2id)
                                        ELSE m_ffslot_interface[p]
            /\ msg2id'[p] = IF p = n THEN m.msg2id ELSE msg2id[p]
            /\ m_broker_client_name2nodeid'[p] =
                 IF p = n THEN NameTable(m.broker_client_info)
                 ELSE m_broker_client_name2nodeid[p]
            /\ m_ffslot_callback'[p] = m_ffslot_callback[p]
      BY <1>1, <2>1 DEF NodesTyped
    <3>2. \A p \in Nodes : NodeTyped(p)
      BY <1>1 DEF NodesTyped
    <3> QED
      BY <2>2, <2>3, <2>4, <3>1, <3>2 DEF NodeTyped
  <2>6. m_node_id' \in [Nodes -> Ids]
    BY <1>1, <2>1, <2>2 DEF NodesTyped
  <2> QED
    BY <1>1, <2>1, <2>5, <2>6 DEF NodesTyped
<1>6. ASSUME trigger_callback(n)
      PROVE  NodesTyped' /\ UNCHANGED deleted
  <2> DEFINE r == Routed(n)
             k == m_ffslot_callback[n][r.callback_id]
  <2>1. /\ r \in Routes /\ r.callback_id \in DOMAIN m_ffslot_callback[n]
    BY <1>1, <1>6, RoutedTyped DEF trigger_callback, AnswersCallback
  <2>2. k \in Calls /\ r.body \in Bodies
    BY <1>1, <2>1 DEF NodeTyped, IsMap, Routes
  <2>3. /\ ran' = [ran EXCEPT ![k] = Append(@, r.body)]
        /\ m_ffslot_callback' = [m_ffslot_callback EXCEPT ![n] = Del(@, r.callback_id)]
        /\ UNCHANGED <<opened, m_node_id, m_callback_id, m_timer, m_master_broker_sock,
                 m_ffslot, m_ffslot_interface, msg2id, m_broker_client_name2nodeid,
                 freed, crashed, issued, refused, served, deleted>>
    BY <1>6 DEF trigger_callback, Exe, netVars
  <2> HIDE DEF r, k
  <2>4. ran' \in [Calls -> Seq(Bodies)]
    BY <1>1, <2>2, <2>3 DEF NodesTyped
  <2>5. IsMap(Del(m_ffslot_callback[n], r.callback_id), Nat, Calls)
    BY <1>1 DEF NodeTyped, IsMap, Del
  <2>6. \A p \in Nodes : m_ffslot_callback'[p] = IF p = n THEN Del(m_ffslot_callback[n], r.callback_id)
                                                ELSE m_ffslot_callback[p]
    BY <1>1, <2>3 DEF NodesTyped
  <2>7. \A p \in Nodes : NodeTyped(p)'
    BY <1>1, <2>3, <2>5, <2>6 DEF NodesTyped, NodeTyped
  <2> QED
    BY <1>1, <2>3, <2>4, <2>7 DEF NodesTyped
<1>7. ASSUME trigger_callback_throws(n)
      PROVE  NodesTyped' /\ UNCHANGED deleted
  <2> DEFINE r == Routed(n)
             k == m_ffslot_callback[n][r.callback_id]
  <2>1. /\ r \in Routes /\ r.callback_id \in DOMAIN m_ffslot_callback[n]
    BY <1>1, <1>7, RoutedTyped DEF trigger_callback_throws, AnswersCallback
  <2>2. k \in Calls /\ r.body \in Bodies
    BY <1>1, <2>1 DEF NodeTyped, IsMap, Routes
  <2>3. /\ ran' = ran \/ ran' = [ran EXCEPT ![k] = Append(@, r.body)]
        /\ m_ffslot' = [m_ffslot EXCEPT ![n] = @ \ {r.callback_id}]
        /\ UNCHANGED <<opened, m_node_id, m_callback_id, m_timer, m_master_broker_sock,
                 m_ffslot_interface, m_ffslot_callback, msg2id, m_broker_client_name2nodeid,
                 freed, crashed, issued, refused, served, deleted>>
    BY <1>7 DEF trigger_callback_throws, Exe, netVars
  <2> HIDE DEF r, k
  <2>4. ran' \in [Calls -> Seq(Bodies)]
    <3>1. ran \in [Calls -> Seq(Bodies)]
      BY <1>1 DEF NodesTyped
    <3>2. [ran EXCEPT ![k] = Append(@, r.body)] \in [Calls -> Seq(Bodies)]
      BY <2>2, <3>1
    <3> QED
      BY <2>3, <3>1, <3>2
  <2>5. m_ffslot' \in [Nodes -> SUBSET {4, 5}]
    BY <1>1, <2>3 DEF NodesTyped
  <2> QED
    BY <1>1, <2>3, <2>4, <2>5 DEF NodesTyped, NodeTyped
<1>8. ASSUME call_impl_refused(n)
      PROVE  NodesTyped' /\ UNCHANGED deleted
  <2>1. Task(n).call \in Calls
    BY <1>1, <1>8, FirstTask DEF call_impl_refused, Runs, TypedTask, Task
  <2>2. /\ refused' = refused \cup {Task(n).call}
        /\ UNCHANGED <<opened, m_node_id, m_callback_id, m_timer, m_master_broker_sock,
                 m_ffslot, m_ffslot_interface, m_ffslot_callback, msg2id,
                 m_broker_client_name2nodeid, freed, crashed, issued,
                 served, ran, deleted>>
    BY <1>8 DEF call_impl_refused, netVars
  <2> QED
    BY <1>1, <2>1, <2>2 DEF NodesTyped, NodeTyped
<1>9. ASSUME handle_broken_impl(n)
      PROVE  NodesTyped' /\ deleted' \subseteq Sides \X Conns
  <2>1. Task(n).sock \in Conns
    BY <1>1, <1>9, FirstTask DEF handle_broken_impl, Runs, TypedTask, Task
  <2>2. /\ m_master_broker_sock' = [m_master_broker_sock EXCEPT ![n] = NoConn]
        /\ m_ffslot_interface' = [m_ffslot_interface EXCEPT ![n] = EmptyMap]
        /\ freed' = [freed EXCEPT ![n] = @ \cup InterfacesBound(n)]
        /\ m_ffslot_callback' = [m_ffslot_callback EXCEPT ![n] = EmptyMap]
        /\ msg2id' = [msg2id EXCEPT ![n] = EmptyMap]
        /\ m_broker_client_name2nodeid' = [m_broker_client_name2nodeid EXCEPT ![n] = EmptyMap]
        /\ m_timer' = [m_timer EXCEPT ![n] = @ + 1]
        /\ deleted' = deleted \cup {<<"node", Task(n).sock>>}
        /\ UNCHANGED <<opened, m_node_id, m_callback_id, m_ffslot, crashed,
                 issued, refused, served, ran>>
    BY <1>9 DEF handle_broken_impl, Cleared, SafeDelete
  <2>3. deleted' \subseteq Sides \X Conns
    BY <1>1, <2>1, <2>2 DEF SharedTyped, NetTyped, Sides
  <2>4. InterfacesBound(n) \in SUBSET Msgs
    BY <1>1, SystemAssumption DEF NodeTyped, IsMap, InterfacesBound
  <2>5. /\ freed' \in [Nodes -> SUBSET Msgs]
        /\ m_timer' \in [Nodes -> Nat]
        /\ m_master_broker_sock' \in [Nodes -> Conns \cup {NoConn}]
    BY <1>1, <2>2, <2>4 DEF NodesTyped
  <2> HIDE DEF EmptyMap
  <2>6. \A p \in Nodes : NodeTyped(p)'
    <3>1. \A p \in Nodes :
            \/ p # n /\ m_ffslot_interface'[p] = m_ffslot_interface[p]
               /\ m_ffslot_callback'[p] = m_ffslot_callback[p]
               /\ msg2id'[p] = msg2id[p]
               /\ m_broker_client_name2nodeid'[p] = m_broker_client_name2nodeid[p]
            \/ m_ffslot_interface'[p] = EmptyMap /\ m_ffslot_callback'[p] = EmptyMap
               /\ msg2id'[p] = EmptyMap /\ m_broker_client_name2nodeid'[p] = EmptyMap
      BY <1>1, <2>2 DEF NodesTyped
    <3>2. \A p \in Nodes : NodeTyped(p)
      BY <1>1 DEF NodesTyped
    <3> QED
      BY <3>1, <3>2, EmptyMapTyped DEF NodeTyped
  <2> QED
    BY <1>1, <2>2, <2>3, <2>5, <2>6 DEF NodesTyped
<1>10. NodesTyped' /\ deleted' \subseteq Sides \X Conns
  <2>1. deleted \subseteq Sides \X Conns
    BY <1>1 DEF SharedTyped, NetTyped
  <2> QED
    BY <1>4, <1>5, <1>6, <1>7, <1>8, <1>9, <2>1 DEF Quiet
<1>11. SharedTyped'
  BY <1>1, <1>2, <1>3, <1>10 DEF SharedTyped, NetTyped, TypedTable, BrokerTyped, brokerVars
<1> QED
  BY <1>10, <1>11, TypeParts

LEMMA SendTyped ==
  ASSUME NodesTyped, TypedTable, NEW n \in Nodes,
         NEW dest \in Ids, NEW msg \in Ids, NEW cb \in Nat, NEW body \in Bodies,
         send_to_broker_by_nodeid(n, dest, msg, cb, body)
  PROVE  /\ TypedTable'
         /\ \A c \in Conns : \A m \in NodeSent(n, dest, msg, cb, body)[c] : TypedToBroker(m)
<1>1. TypedTable'
  BY LookedTyped DEF send_to_broker_by_nodeid, TypedTable
<1>2. Route(m_node_id[n], dest, msg, cb, body) \in Routes
  BY NodeMaps DEF Route, Routes
<1> QED
  BY <1>1, <1>2 DEF NodeSent, RouteMsg, TypedToBroker

LEMMA SendingTyped ==
  ASSUME TypeOK, NEW n \in Nodes, UNCHANGED brokerVars
  PROVE  /\ call_impl(n) => TypeOK'
         /\ response(n) => TypeOK'
         /\ trigger_interface(n) => TypeOK'
<1>1. SharedTyped /\ NodesTyped /\ QueuesTyped /\ TypedTable /\ NodeTyped(n)
      /\ m_master_broker_sock[n] \in Conns \cup {NoConn}
  BY TypeParts, NodeMaps DEF SharedTyped
<1>2. ASSUME call_impl(n)
      PROVE  TypeOK'
  <2> DEFINE k == Task(n).call
             ids == IdsAfter(n, Message[k])
             cb == get_callback_id(n)
             dest == m_broker_client_name2nodeid[n][Target[k]]
  <2>1. k \in Calls
    BY <1>1, <1>2, FirstTask DEF call_impl, Runs, TypedTask, Task
  <2>2. /\ Message[k] \in Msgs
        /\ Target[k] \in DOMAIN m_broker_client_name2nodeid[n]
    BY <1>2, <2>1, SystemAssumption DEF call_impl
  <2>3. IsMap(ids, Msgs, Ids) /\ ids[Message[k]] \in Ids
    <3>1. IsMap(msg2id[n], Msgs, Ids) /\ 0 \in Ids
      BY <1>1, BrokerAssumption DEF NodeTyped, Ids
    <3>2. IsMap(ids, Msgs, Ids)
      BY <2>2, <3>1, InsertTyped DEF IdsAfter
    <3>3. Message[k] \in DOMAIN ids
      BY DEF IdsAfter, Insert
    <3> QED
      BY <3>2, <3>3 DEF IsMap
  <2>4. dest \in Ids
    BY <1>1, <2>2 DEF NodeTyped, IsMap
  <2>5. cb \in Nat
    BY <1>1, NodeMaps DEF get_callback_id
  <2>6. Request(k) \in Bodies
    BY <2>1 DEF Request, Bodies
  <2>7. /\ send_to_broker_by_nodeid(n, dest, ids[Message[k]], cb, Request(k))
        /\ msg2id' = [msg2id EXCEPT ![n] = ids]
        /\ m_callback_id' = [m_callback_id EXCEPT ![n] = cb]
        /\ m_ffslot_callback' = [m_ffslot_callback EXCEPT ![n] = Bound(@, cb, k)]
        /\ UNCHANGED <<opened, m_node_id, m_timer, m_master_broker_sock, m_ffslot,
                 m_ffslot_interface, m_broker_client_name2nodeid, freed, crashed,
                 issued, refused, served, ran, link, deleted>>
    BY <1>2 DEF call_impl
  <2>8. Moves(NodeSent(n, dest, ids[Message[k]], cb, Request(k)), Nowhere, NoTask)
    BY <1>1, <1>2, SendingMoves DEF Requested
  <2> HIDE DEF k, ids, cb, dest
  <2>9. TypedTable' /\ QueuesTyped'
    BY <1>1, <2>3, <2>4, <2>5, <2>6, <2>7, <2>8, SendTyped, QueuesStayTyped
    DEF Nowhere, NoTask
  <2>10. IsMap(Bound(m_ffslot_callback[n], cb, k), Nat, Calls)
    BY <1>1, <2>1, <2>5, InsertTyped DEF Bound, NodeTyped
  <2>11. \A p \in Nodes :
           /\ m_ffslot_callback'[p] = IF p = n THEN Bound(m_ffslot_callback[n], cb, k)
                                      ELSE m_ffslot_callback[p]
           /\ msg2id'[p] = IF p = n THEN ids ELSE msg2id[p]
    BY <1>1, <2>7 DEF NodesTyped
  <2>12. \A p \in Nodes : NodeTyped(p)'
    BY <1>1, <2>3, <2>7, <2>10, <2>11 DEF NodesTyped, NodeTyped
  <2>13. m_callback_id' \in [Nodes -> Nat]
    BY <1>1, <2>5, <2>7 DEF NodesTyped
  <2>14. NodesTyped'
    BY <1>1, <2>7, <2>12, <2>13 DEF NodesTyped
  <2>15. SharedTyped'
    BY <1>1, <2>7, <2>9 DEF SharedTyped, NetTyped, BrokerTyped, brokerVars
  <2> QED
    BY <2>14, <2>15, TypeParts
<1>3. ASSUME response(n)
      PROVE  TypeOK'
  <2>1. Task(n) \in [kind : {"response"}, dest : Ids, callback_id : Nat, body : Bodies]
    BY <1>1, <1>3, FirstTask DEF response, Runs, TypedTask, Task
  <2>2. /\ send_to_broker_by_nodeid(n, Task(n).dest, 0, Task(n).callback_id, Task(n).body)
        /\ UNCHANGED <<nodeVars, link, deleted>>
    BY <1>3 DEF response
  <2>3. Moves(NodeSent(n, Task(n).dest, 0, Task(n).callback_id, Task(n).body), Nowhere, NoTask)
    BY <1>1, <1>3, SendingMoves DEF Answered
  <2>4. 0 \in Ids
    BY BrokerAssumption DEF Ids
  <2>5. TypedTable' /\ QueuesTyped'
    BY <1>1, <2>1, <2>2, <2>3, <2>4, SendTyped, QueuesStayTyped DEF Nowhere, NoTask
  <2> QED
    BY <1>1, <2>2, <2>5, UnchangedNodes, TypeParts
    DEF SharedTyped, NetTyped, BrokerTyped, brokerVars
<1>4. ASSUME trigger_interface(n)
      PROVE  TypeOK'
  <2>1. Routed(n) \in Routes
    BY <1>1, <1>4, RoutedTyped DEF trigger_interface, CallsInterface
  <2>2. Moves(Nowhere, Nowhere, Responded(n))
    BY <1>1, <1>4, TriggerInterfaceMoves
  <2>3. \A p \in Nodes : \A t \in Responded(n)[p] : TypedTask(t)
    BY <2>1 DEF Responded, ResponseTask, AsTask, TypedTask, Routes, Bodies, Answer
  <2>4. QueuesTyped'
    BY <1>1, <2>2, <2>3, QueuesStayTyped DEF Nowhere
  <2>5. /\ served' = [served EXCEPT ![n] = Append(@, Routed(n).body.call)]
        /\ UNCHANGED <<link, deleted, m_node_info>>
        /\ UNCHANGED <<opened, m_node_id, m_callback_id, m_timer, m_master_broker_sock,
                 m_ffslot, m_ffslot_interface, m_ffslot_callback, msg2id,
                 m_broker_client_name2nodeid, freed, crashed, issued,
                 refused, ran>>
    BY <1>4 DEF trigger_interface, ExeInterface, netVars
  <2>6. Routed(n).body.call \in Calls
    BY <2>1 DEF Routes, Bodies
  <2>7. served' \in [Nodes -> Seq(Calls)]
    BY <1>1, <2>5, <2>6 DEF NodesTyped
  <2>8. NodesTyped'
    BY <1>1, <2>5, <2>7 DEF NodesTyped, NodeTyped
  <2> QED
    BY <1>1, <2>4, <2>5, <2>8, UnchangedShared, TypeParts
<1> QED
  BY <1>2, <1>3, <1>4

LEMMA ReconnectTyped ==
  ASSUME TypeOK, NEW n \in Nodes, UNCHANGED brokerVars
  PROVE  /\ timer_reconnect_broker(n) => TypeOK'
         /\ crash(n) => TypeOK'
<1>1. SharedTyped /\ NodesTyped /\ QueuesTyped
  BY TypeParts DEF SharedTyped
<1>2. ASSUME timer_reconnect_broker(n)
      PROVE  TypeOK'
  <2>1. QueuesTyped'
    BY <1>1, <1>2, ReconnectMoves, RegisteringTyped
  <2>2. /\ ConnectSucceeds(n) \/ ConnectFails(n)
        /\ m_timer' = [m_timer EXCEPT ![n] = @ + 1] \/ m_timer' = m_timer
        /\ UNCHANGED <<opened, m_node_id, m_callback_id, m_ffslot, m_ffslot_interface,
                 m_ffslot_callback, msg2id, m_broker_client_name2nodeid, freed,
                 crashed, issued, refused, served, ran, deleted, m_node_info>>
    BY <1>2 DEF timer_reconnect_broker
  <2>3. NetTyped' /\ m_master_broker_sock' \in [Nodes -> Conns \cup {NoConn}]
    BY <1>1, <2>2, ConnectTyped DEF SharedTyped
  <2>4. m_timer' \in [Nodes -> Nat]
    <3>1. m_timer \in [Nodes -> Nat]
      BY <1>1 DEF NodesTyped
    <3>2. [m_timer EXCEPT ![n] = @ + 1] \in [Nodes -> Nat]
      BY <3>1
    <3> QED
      BY <2>2, <3>1, <3>2
  <2>5. NodesTyped'
    BY <1>1, <2>2, <2>3, <2>4 DEF NodesTyped, NodeTyped
  <2> QED
    BY <1>1, <2>1, <2>2, <2>3, <2>5, TypeParts
    DEF SharedTyped, TypedTable, BrokerTyped, brokerVars
<1>3. ASSUME crash(n)
      PROVE  TypeOK'
  <2>1. QueuesTyped'
    BY <1>1, <1>3, ReconnectMoves, NothingNew
  <2>2. /\ crashed' = crashed \cup Process(n)
        /\ link' = [c \in Conns |->
                          IF link[c] = "open" /\ (n \in Local \/ Owner[c] = n)
                          THEN "broken" ELSE link[c]]
        /\ UNCHANGED <<opened, m_node_id, m_callback_id, m_timer,
                       m_master_broker_sock, m_ffslot, m_ffslot_interface,
                       m_ffslot_callback, msg2id, m_broker_client_name2nodeid,
                       freed, issued, refused, served, ran, deleted, m_node_info>>
    BY <1>3 DEF crash, routeVars
  <2>3. NetTyped'
    BY <1>1, <2>2 DEF SharedTyped, NetTyped
  <2>4. crashed' \subseteq Nodes
    BY <1>1, <2>2, SystemAssumption DEF NodesTyped, Process
  <2>5. NodesTyped'
    BY <1>1, <2>2, <2>4 DEF NodesTyped, NodeTyped
  <2> QED
    BY <1>1, <2>1, <2>2, <2>3, <2>5, TypeParts
    DEF SharedTyped, TypedTable, BrokerTyped, brokerVars
<1> QED
  BY <1>2, <1>3

LEMMA InitTyped == Init => TypeOK
<1> SUFFICES ASSUME Init PROVE TypeOK
  OBVIOUS
<1> USE DEF Init
<1>1. NetTyped
  BY DEF NetInit, NetTyped
<1>2. QueuesTyped
  <2>1. /\ DOMAIN toBroker = Conns /\ DOMAIN toNode = Conns /\ DOMAIN tq = Nodes
        /\ \A c \in Conns : toBroker[c] = <<>> /\ toNode[c] = <<>>
        /\ \A n \in Nodes : tq[n] = <<>>
    BY DEF NetInit, RouteInit
  <2> QED
    BY <2>1, EmptyQueue DEF QueuesTyped
<1>3. TypedTable
  <2> DEFINE V == [ffrpc : Nodes \cup {NoNode}, ffbroker : BOOLEAN]
             v == [dest_node_info_t EXCEPT !.ffbroker = TRUE]
  <2>1. v \in V
    BY DEF dest_node_info_t
  <2>2. m_node_info = [id \in {0} |-> v]
    BY DEF RouteInit, BROKER_MASTER_NODE_ID
  <2>3. 0 \in Ids
    BY BrokerAssumption DEF Ids
  <2> HIDE DEF V, v
  <2>4. IsMap(m_node_info, Ids, V)
    BY <2>1, <2>2, <2>3 DEF IsMap
  <2> QED
    BY <2>4 DEF TypedTable, V
<1>4. BrokerTyped
  BY BrokerAssumption DEF BrokerInit, BrokerTyped, IsMap, Ids
<1>5. NodesTyped
  <2> USE DEF NodeInit
  <2>1. /\ opened \in [Nodes -> {"closed", "waiting", "open", "failed"}]
        /\ m_node_id \in [Nodes -> Ids]
        /\ m_callback_id \in [Nodes -> Nat] /\ m_timer \in [Nodes -> Nat]
        /\ m_master_broker_sock \in [Nodes -> Conns \cup {NoConn}]
        /\ m_ffslot \in [Nodes -> SUBSET {4, 5}]
    BY BrokerAssumption, SystemAssumption DEF Ids
  <2> HIDE DEF EmptyMap
  <2>2. /\ DOMAIN m_ffslot_interface = Nodes /\ DOMAIN m_ffslot_callback = Nodes
        /\ DOMAIN msg2id = Nodes /\ DOMAIN m_broker_client_name2nodeid = Nodes
        /\ \A n \in Nodes : NodeTyped(n)
    BY EmptyMapTyped DEF NodeTyped
  <2>3. /\ freed \in [Nodes -> SUBSET Msgs] /\ crashed \subseteq Nodes
        /\ issued \in [Nodes -> Seq(Calls)] /\ refused \subseteq Calls
        /\ served \in [Nodes -> Seq(Calls)] /\ ran \in [Calls -> Seq(Bodies)]
    OBVIOUS
  <2> QED
    BY <2>1, <2>2, <2>3 DEF NodesTyped
<1> QED
  BY <1>1, <1>2, <1>3, <1>4, <1>5, TypeParts DEF SharedTyped

LEMMA StepTyped ==
  ASSUME TypeOK, [Next]_vars
  PROVE  TypeOK'
<1>1. ASSUME BrokerThread PROVE TypeOK'
  <2>1. SharedTyped' /\ UNCHANGED nodeVars
    BY <1>1, TypeParts, BrokerStepTyped DEF BrokerThread
  <2> QED
    BY <2>1, TypeParts, UnchangedNodes
<1>2. ASSUME NEW n \in Nodes, NodeThread(n) PROVE TypeOK'
  BY <1>2, QuietTyped, SendingTyped, ReconnectTyped DEF NodeThread, RunTask, Quiet
<1>3. ASSUME UNCHANGED vars PROVE TypeOK'
  <2>1. UNCHANGED <<netVars, routeVars, brokerVars, nodeVars>>
    BY <1>3 DEF vars
  <2>2. QueuesTyped'
    BY <2>1, TypeParts DEF SharedTyped, QueuesTyped, netVars, routeVars
  <2> QED
    BY <2>1, <2>2, TypeParts, UnchangedShared, UnchangedNodes DEF netVars, routeVars
<1> QED
  BY <1>1, <1>2, <1>3, TimerTyped, OpenTyped, OpenReturnsTyped, NetworkTyped,
     ApplicationTyped DEF Next

(* The state of the system has its types: a message on a connection is one *)
(* that its reader decodes, and a task is one that its thread can run.     *)
THEOREM TypeCorrect == Spec => []TypeOK
<1>1. Init => TypeOK
  BY InitTyped
<1>2. TypeOK /\ [Next]_vars => TypeOK'
  BY StepTyped
<1> QED
  BY <1>1, <1>2, PTL DEF Spec
=============================================================================
