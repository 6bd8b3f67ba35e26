----------------------------- MODULE BrokerLemmas -----------------------------
(***************************************************************************)
(* What the operators of Broker do, whatever system the broker is part of: *)
(* ids, bindings, the tables after a synchronisation and what it sends.    *)
(***************************************************************************)
EXTENDS Broker, FiniteSetTheorems, FunctionTheorems, SequenceTheorems, TLAPS

-----------------------------------------------------------------------------
(* Sets of ids are finite, and each rank below the size of one is the rank *)
(* of a member: ranks are injective, into a set of the same size.          *)
LEMMA IdsFinite ==
  ASSUME NEW S \in SUBSET Ids
  PROVE  IsFiniteSet(S) /\ Cardinality(S) \in Nat /\ S \subseteq Nat
<1>1. MaxId \in Nat
  BY BrokerAssumption
<1>2. IsFiniteSet(0..MaxId)
  BY <1>1, FS_Interval
<1>3. IsFiniteSet(S)
  BY <1>2, FS_Subset DEF Ids
<1> QED
  BY <1>1, <1>3, FS_CardinalityType DEF Ids

LEMMA RankExists ==
  ASSUME NEW S \in SUBSET Nat, IsFiniteSet(S), NEW r \in 0..(Cardinality(S) - 1)
  PROVE  \E s \in S : Cardinality({t \in S : t < s}) = r
<1> DEFINE Below(s) == {t \in S : t < s}
           T == 0..(Cardinality(S) - 1)
           rank == [s \in S |-> Cardinality(Below(s))]
<1>1. Cardinality(S) \in Nat
  BY FS_CardinalityType
<1>2. \A s \in S : IsFiniteSet(Below(s)) /\ Cardinality(Below(s)) \in T
  <2> TAKE s \in S
  <2>1. IsFiniteSet(Below(s)) /\ Cardinality(Below(s)) <= Cardinality(S)
    BY FS_Subset
  <2>2. Cardinality(Below(s)) # Cardinality(S)
    <3>1. s \notin Below(s)
      OBVIOUS
    <3> QED
      BY <3>1, FS_Subset
  <2> QED
    BY <1>1, <2>1, <2>2, FS_CardinalityType
<1>3. \A s, t \in S : s < t => Cardinality(Below(s)) < Cardinality(Below(t))
  <2> SUFFICES ASSUME NEW s \in S, NEW t \in S, s < t
               PROVE  Cardinality(Below(s)) < Cardinality(Below(t))
    OBVIOUS
  <2>1. Below(s) \subseteq Below(t) /\ s \in Below(t) /\ s \notin Below(s)
    <3>1. \A u \in S : u < s => u < t
      OBVIOUS
    <3>2. ~(s < s)
      OBVIOUS
    <3> QED
      BY <3>1, <3>2
  <2>2. Cardinality(Below(s)) <= Cardinality(Below(t))
    BY <1>2, <2>1, FS_Subset
  <2>3. Cardinality(Below(s)) # Cardinality(Below(t))
    BY <1>2, <2>1, FS_Subset
  <2> QED
    BY <1>1, <1>2, <2>2, <2>3
<1>4. rank \in Injection(S, T)
  <2>1. rank \in [S -> T]
    BY <1>2
  <2>2. \A s, t \in S : rank[s] = rank[t] => s = t
    BY <1>1, <1>2, <1>3
  <2> QED
    BY <2>1, <2>2, Fun_IsInj
<1>5. IsFiniteSet(T) /\ Cardinality(T) = Cardinality(S)
  BY <1>1, FS_Interval
<1>6. rank \in Surjection(S, T)
  BY <1>4, <1>5, FS_Injection
<1>7. \E s \in S : rank[s] = r
  BY <1>6 DEF Surjection
<1> QED
  BY <1>7

(* A finite non-empty set of numbers has a least and a greatest member.    *)
LEMMA MinMaxInSet ==
  ASSUME NEW S \in SUBSET Nat, IsFiniteSet(S), S # {}
  PROVE  Min(S) \in S /\ Max(S) \in S
<1> DEFINE Below(s) == {t \in S : t < s}
           n == Cardinality(S)
<1>1. n \in Nat /\ n # 0
  BY FS_CardinalityType, FS_EmptySet
<1>2. \E s \in S : \A t \in S : s <= t
  <2>1. PICK s \in S : Cardinality(Below(s)) = 0
    BY <1>1, RankExists
  <2>2. Below(s) = {}
    BY <2>1, FS_Subset, FS_EmptySet
  <2>3. \A t \in S : ~(t < s)
    BY <2>2
  <2> QED
    BY <2>3
<1>3. \E s \in S : \A t \in S : t <= s
  <2>1. PICK s \in S : Cardinality(Below(s)) = n - 1
    BY <1>1, RankExists
  <2>2. IsFiniteSet(Below(s)) /\ s \notin Below(s)
    BY FS_Subset
  <2>3. Cardinality(Below(s) \cup {s}) = n
    <3> HIDE DEF Below
    <3>1. Cardinality(Below(s) \cup {s}) = Cardinality(Below(s)) + 1
      BY <2>2, FS_AddElement, Zenon
    <3> QED
      BY <1>1, <2>1, <3>1
  <2>4. Below(s) \cup {s} = S
    <3>1. Below(s) \cup {s} \in SUBSET S
      OBVIOUS
    <3> HIDE DEF Below
    <3> QED
      BY <2>3, <3>1, FS_Subset
  <2>5. \A t \in S : t < s \/ t = s
    BY <2>4
  <2> QED
    BY <2>5
<1> QED
  BY <1>2, <1>3 DEF Min, Max

-----------------------------------------------------------------------------
(* alloc_id hands out ids, and never 0.                                    *)
LEMMA AllocIds ==
  ASSUME m_node_id_index \in Ids, NEW k \in 1..MaxId
  PROVE  alloc_id(k) \in Ids \ {0}
BY BrokerAssumption DEF alloc_id, Ids

LEMMA NewIdTyped ==
  ASSUME m_node_id_index \in Ids
  PROVE  alloc_id(1) \in Ids \ {0}
<1>1. Cardinality(Msgs) \in Nat
  BY BrokerAssumption, FS_CardinalityType
<1>2. 1 \in 1..MaxId
  BY <1>1, BrokerAssumption
<1> QED
  BY <1>2, AllocIds

LEMMA NewIdsTyped ==
  ASSUME m_node_id_index \in Ids, IsMap(m_msg2id, Msgs, Ids \ {0}),
         NEW names \in SUBSET Msgs
  PROVE  /\ IsMap(NewMsgIds(names), Msgs, Ids \ {0})
         /\ 1 + Cardinality(names \ DOMAIN m_msg2id) \in 1..MaxId
<1> DEFINE new == names \ DOMAIN m_msg2id
           upto(m) == {x \in new : x <= m}
<1>1. \A T \in SUBSET Msgs : 1 + Cardinality(T) \in 1..MaxId
  <2> TAKE T \in SUBSET Msgs
  <2>1. IsFiniteSet(T) /\ Cardinality(T) <= Cardinality(Msgs)
    BY BrokerAssumption, FS_Subset
  <2>2. Cardinality(T) \in Nat /\ Cardinality(Msgs) \in Nat
    BY <2>1, BrokerAssumption, FS_CardinalityType
  <2> QED
    BY <2>1, <2>2, BrokerAssumption
<1>2. \A m \in new : alloc_id(1 + Cardinality(upto(m))) \in Ids \ {0}
  BY <1>1, AllocIds
<1>3. \A m \in DOMAIN m_msg2id : m_msg2id[m] \in Ids \ {0}
  BY DEF IsMap
<1>4. DOMAIN m_msg2id \subseteq Msgs
  BY DEF IsMap
<1> HIDE DEF upto
<1>5. NewMsgIds(names) = [m \in DOMAIN m_msg2id \cup new |->
         IF m \in new THEN alloc_id(1 + Cardinality(upto(m))) ELSE m_msg2id[m]]
  BY DEF NewMsgIds, upto
<1>6. IsMap(NewMsgIds(names), Msgs, Ids \ {0})
  BY <1>2, <1>3, <1>4, <1>5 DEF IsMap
<1> QED
  BY <1>1, <1>6

(* std::map::insert and erase.                                             *)
LEMMA InsertTyped ==
  ASSUME NEW K, NEW V, NEW m, IsMap(m, K, V), NEW k \in K, NEW v \in V
  PROVE  IsMap(Insert(m, k, v), K, V)
BY DEF IsMap, Insert

LEMMA EraseTyped ==
  ASSUME NEW K, NEW V, NEW m, IsMap(m, K, V), NEW k
  PROVE  IsMap(Erase(m, k), K, V)
BY DEF IsMap, Erase

-----------------------------------------------------------------------------
(* Whatever the table of slaves, a client is bound to an id.               *)
LEMMA BrokerIdTyped ==
  ASSUME m_alloc_slave_broker_index \in Ids,
         NEW slaves \in SUBSET Ids, NEW k \in Nat
  PROVE  alloc_broker_id(slaves, k) \in Ids
<1> DEFINE here == SlavesHere(slaves)
<1>1. CASE here # {}
  <2>1. here \in SUBSET Ids /\ here \subseteq slaves
    BY DEF SlavesHere
  <2>2. Min(here) \in here
    BY <1>1, <2>1, IdsFinite, MinMaxInSet
  <2> QED
    BY <1>1, <2>1, <2>2 DEF alloc_broker_id
<1>2. CASE here = {} /\ slaves = {}
  BY <1>2, BrokerAssumption DEF alloc_broker_id, Ids, BROKER_MASTER_NODE_ID
<1>3. CASE here = {} /\ slaves # {}
  <2> DEFINE index == Wrap(m_alloc_slave_broker_index + k) % Cardinality(slaves)
  <2>1. IsFiniteSet(slaves) /\ Cardinality(slaves) \in Nat /\ slaves \in SUBSET Nat
    BY IdsFinite
  <2>2. Cardinality(slaves) # 0
    BY <1>3, <2>1, FS_EmptySet
  <2>3. Wrap(m_alloc_slave_broker_index + k) \in Nat
    BY BrokerAssumption DEF Wrap, Ids
  <2> HIDE DEF here
  <2>4. index \in 0..(Cardinality(slaves) - 1)
    BY <2>1, <2>2, <2>3
  <2>5. \E s \in slaves : Cardinality({t \in slaves : t < s}) = index
    BY <2>1, <2>4, RankExists
  <2>6. alloc_broker_id(slaves, k) =
          CHOOSE s \in slaves : Cardinality({t \in slaves : t < s}) = index
    BY <1>3 DEF alloc_broker_id, here
  <2> HIDE DEF index
  <2> QED
    BY <2>5, <2>6
<1> QED
  BY <1>1, <1>2, <1>3

LEMMA IndexTyped ==
  ASSUME m_alloc_slave_broker_index \in Ids,
         NEW slaves \in SUBSET Ids, NEW k \in Nat
  PROVE  IndexAfter(slaves, k) \in Ids
BY BrokerAssumption DEF IndexAfter, Wrap, Ids

SameEntries(f, g) ==
  /\ DOMAIN f = DOMAIN g
  /\ \A i \in DOMAIN g : f[i].service_name = g[i].service_name /\ f[i].sock = g[i].sock

(* Rebinding changes nothing but bindings.                                 *)
LEMMA ReboundTyped ==
  ASSUME m_alloc_slave_broker_index \in Ids,
         NEW slaves \in SUBSET Ids, NEW k \in Nat,
         NEW clients, IsMap(clients, Ids \ {0}, ClientInfo)
  PROVE  /\ Cardinality(StaleBinds(clients, slaves)) \in Nat
         /\ IsMap(Rebound(clients, slaves, k), Ids \ {0}, ClientInfo)
         /\ SameEntries(Rebound(clients, slaves, k), clients)
<1> DEFINE stale == StaleBinds(clients, slaves)
           nth(i) == k + Cardinality({j \in stale : j < i})
           now == Rebound(clients, slaves, k)
<1>1. stale \in SUBSET Ids
  BY DEF StaleBinds, IsMap
<1>2. Cardinality(stale) \in Nat
  BY <1>1, IdsFinite
<1>3. \A i : nth(i) \in Nat
  <2> TAKE i
  <2>1. {j \in stale : j < i} \in SUBSET Ids
    BY <1>1
  <2> HIDE DEF stale
  <2>2. Cardinality({j \in stale : j < i}) \in Nat
    BY <2>1, IdsFinite
  <2> QED
    BY <2>2
<1> HIDE DEF nth
<1>4. \A i : alloc_broker_id(slaves, nth(i)) \in Ids
  BY <1>3, BrokerIdTyped
<1>5. now = [i \in DOMAIN clients |->
               IF i \in stale
               THEN [clients[i] EXCEPT !.bind_broker_id = alloc_broker_id(slaves, nth(i))]
               ELSE clients[i]]
  BY DEF Rebound, nth
<1> HIDE DEF now, stale
<1>6. \A i \in DOMAIN clients : clients[i] \in ClientInfo
  BY DEF IsMap
<1>7. \A i \in DOMAIN clients :
        /\ now[i] \in ClientInfo
        /\ now[i].service_name = clients[i].service_name
        /\ now[i].sock = clients[i].sock
  BY <1>4, <1>5, <1>6 DEF ClientInfo
<1>8. IsMap(now, Ids \ {0}, ClientInfo)
  BY <1>5, <1>7 DEF IsMap
<1> QED
  BY <1>2, <1>5, <1>7, <1>8 DEF now, stale, SameEntries

(* What a synchronisation leaves in the tables.                            *)
LEMMA SyncTables ==
  ASSUME m_alloc_slave_broker_index \in Ids,
         NEW c, NEW id, NEW ids,
         NEW slaves, IsMap(slaves, Ids \ {0}, Conns),
         NEW clients, IsMap(clients, Ids \ {0}, ClientInfo),
         NEW k \in Nat,
         sync_all_register_info(c, id, ids, slaves, clients, k)
  PROVE  /\ IsMap(m_broker_client_info', Ids \ {0}, ClientInfo)
         /\ SameEntries(m_broker_client_info', clients)
         /\ m_alloc_slave_broker_index' \in Ids
<1> DEFINE now == Rebound(clients, DOMAIN slaves, k)
<1>1. DOMAIN slaves \in SUBSET Ids
  BY DEF IsMap
<1>2. /\ Cardinality(StaleBinds(clients, DOMAIN slaves)) \in Nat
      /\ IsMap(now, Ids \ {0}, ClientInfo)
      /\ SameEntries(now, clients)
  BY <1>1, ReboundTyped
<1>3. /\ m_broker_client_info' = now
      /\ m_alloc_slave_broker_index' =
           IndexAfter(DOMAIN slaves, k + Cardinality(StaleBinds(clients, DOMAIN slaves)))
  BY DEF sync_all_register_info
<1> HIDE DEF now
<1>4. m_alloc_slave_broker_index' \in Ids
  <2>1. k + Cardinality(StaleBinds(clients, DOMAIN slaves)) \in Nat
    BY <1>2
  <2> QED
    BY <1>1, <1>3, <2>1, IndexTyped
<1> QED
  BY <1>2, <1>3, <1>4

-----------------------------------------------------------------------------
(* Ids.  Until the counter wraps it is the number of ids handed out, and   *)
(* no session and no message name has an id beyond it.                     *)
Counted ==
  /\ m_node_id_index = allocs
  /\ \A c \in Conns : session[c] <= allocs
  /\ \A m \in DOMAIN m_msg2id : m_msg2id[m] <= allocs

FreshIds == NotWrapped => Counted /\ IdsDistinct

LEMMA AllocUnwrapped ==
  ASSUME allocs \in Nat, m_node_id_index = allocs,
         NEW k \in Nat, allocs + k <= MaxId
  PROVE  alloc_id(k) = allocs + k
BY BrokerAssumption DEF alloc_id

(* The ranks of the members of a finite set of numbers differ.             *)
LEMMA RanksDiffer ==
  ASSUME NEW S \in SUBSET Nat, IsFiniteSet(S)
  PROVE  /\ \A m \in S : Cardinality({x \in S : x <= m}) \in 1..Cardinality(S)
         /\ \A m, n \in S : Cardinality({x \in S : x <= m}) = Cardinality({x \in S : x <= n})
                              => m = n
<1> DEFINE upto(m) == {x \in S : x <= m}
<1>1. \A m \in S : /\ IsFiniteSet(upto(m)) /\ Cardinality(upto(m)) <= Cardinality(S)
                   /\ Cardinality(upto(m)) \in Nat /\ Cardinality(S) \in Nat
                   /\ m \in upto(m)
  BY FS_Subset, FS_CardinalityType
<1>2. \A m \in S : upto(m) # {} /\ Cardinality(upto(m)) # 0
  BY <1>1, FS_EmptySet
<1>3. ASSUME NEW m \in S, NEW n \in S, m < n
      PROVE  Cardinality(upto(m)) # Cardinality(upto(n))
  <2>1. upto(m) \subseteq upto(n) /\ n \notin upto(m)
    <3>1. \A x \in S : x <= m => x <= n
      BY <1>3
    <3>2. ~(n <= m)
      BY <1>3
    <3> QED
      BY <3>1, <3>2
  <2>2. upto(m) # upto(n)
    BY <1>1, <2>1
  <2> HIDE DEF upto
  <2> QED
    BY <1>1, <2>1, <2>2, FS_Subset
<1>4. ASSUME NEW m \in S, NEW n \in S, Cardinality(upto(m)) = Cardinality(upto(n))
      PROVE  m = n
  BY <1>3, <1>4
<1> HIDE DEF upto
<1>5. \A m \in S : Cardinality(upto(m)) \in 1..Cardinality(S)
  BY <1>1, <1>2
<1> QED
  BY <1>4, <1>5 DEF upto

(* What a registration and a break do to ids.                              *)
LEMMA ClientRegisterIds ==
  ASSUME BrokerTyped, FreshIds, NEW c \in Conns, handle_client_register(c),
         Head(toBroker[c]).msg_names \in SUBSET Msgs
  PROVE  FreshIds'
<1> SUFFICES ASSUME NotWrapped' PROVE Counted' /\ IdsDistinct'
  BY DEF FreshIds
<1> DEFINE names == Head(toBroker[c]).msg_names
           new == names \ DOMAIN m_msg2id
           upto(m) == {x \in new : x <= m}
           n == 1 + Cardinality(new)
<1>1. /\ allocs' = allocs + n /\ m_node_id_index' = IF n = 0 THEN m_node_id_index ELSE alloc_id(n)
      /\ session' = [session EXCEPT ![c] = alloc_id(1)]
      /\ m_msg2id' = NewMsgIds(names)
  BY DEF handle_client_register, Allocated
<1>2. names \in SUBSET Msgs
  OBVIOUS
<1>3. /\ allocs \in Nat /\ session \in [Conns -> Ids] /\ MaxId \in Nat
      /\ IsMap(m_msg2id, Msgs, Ids \ {0})
  BY BrokerAssumption DEF BrokerTyped
<1>4. new \in SUBSET Nat /\ IsFiniteSet(new) /\ Cardinality(new) \in Nat
  BY <1>2, BrokerAssumption, FS_Subset, FS_CardinalityType
<1> HIDE DEF names, new
<1>5. allocs + n <= MaxId /\ Counted /\ IdsDistinct
  BY <1>1, <1>3, <1>4 DEF FreshIds, NotWrapped
<1>6. \A k \in 1..n : alloc_id(k) = allocs + k
  BY <1>3, <1>4, <1>5, AllocUnwrapped DEF Counted
<1>7. /\ \A m \in new : Cardinality(upto(m)) \in 1..Cardinality(new)
      /\ \A m, k \in new : Cardinality(upto(m)) = Cardinality(upto(k)) => m = k
  BY <1>4, RanksDiffer
<1>8. m_msg2id' = [m \in DOMAIN m_msg2id \cup new |->
        IF m \in new THEN alloc_id(1 + Cardinality(upto(m))) ELSE m_msg2id[m]]
  BY <1>1 DEF NewMsgIds, new
<1> HIDE DEF upto
<1>9. \A m \in new : alloc_id(1 + Cardinality(upto(m))) = allocs + 1 + Cardinality(upto(m))
  <2> TAKE m \in new
  <2> DEFINE r == 1 + Cardinality(upto(m))
  <2>1. r \in 1..n /\ Cardinality(upto(m)) \in Nat
    BY <1>4, <1>7
  <2> HIDE DEF r
  <2>2. alloc_id(r) = allocs + r
    BY <1>6, <2>1
  <2>3. allocs + r = allocs + 1 + Cardinality(upto(m))
    BY <1>3, <2>1 DEF r
  <2> QED
    BY <2>2, <2>3 DEF r
<1>10. /\ alloc_id(1) = allocs + 1
       /\ m_node_id_index' = allocs + n
  BY <1>1, <1>4, <1>6
<1>11. /\ \A d \in Conns : session[d] \in Nat /\ session[d] <= allocs
       /\ \A m \in DOMAIN m_msg2id : m_msg2id[m] \in Nat /\ m_msg2id[m] <= allocs
  BY <1>3, <1>5 DEF Counted, IsMap, Ids
<1>12. /\ DOMAIN m_msg2id' = DOMAIN m_msg2id \cup new
       /\ \A m \in new : m_msg2id'[m] = allocs + 1 + Cardinality(upto(m))
       /\ \A m \in DOMAIN m_msg2id : m_msg2id'[m] = m_msg2id[m]
  BY <1>8, <1>9 DEF new
<1>13. /\ session'[c] = allocs + 1
       /\ \A d \in Conns : d # c => session'[d] = session[d]
  BY <1>1, <1>3, <1>10
<1> DEFINE rank(m) == Cardinality(upto(m))
<1>14. \A m \in new : rank(m) \in Nat /\ rank(m) >= 1 /\ rank(m) <= Cardinality(new)
  BY <1>4, <1>7
<1>15. \A m \in new : m_msg2id'[m] = allocs + 1 + rank(m)
  BY <1>12
<1> HIDE DEF rank
<1>16. Counted'
  <2>1. allocs' = m_node_id_index' /\ allocs' = allocs + 1 + Cardinality(new)
    BY <1>1, <1>3, <1>4, <1>10
  <2>2. \A d \in Conns : session'[d] <= allocs'
    BY <1>3, <1>4, <1>11, <1>13, <2>1
  <2>3. \A m \in DOMAIN m_msg2id : m_msg2id'[m] <= allocs'
    BY <1>3, <1>4, <1>11, <1>12, <2>1
  <2>4. \A m \in new : m_msg2id'[m] <= allocs'
    BY <1>3, <1>4, <1>14, <1>15, <2>1
  <2> QED
    BY <1>12, <2>1, <2>2, <2>3, <2>4 DEF Counted
<1>17. \A d, e \in Conns : session'[d] = session'[e] /\ session'[d] # 0 => d = e
  BY <1>3, <1>5, <1>11, <1>13 DEF IdsDistinct
<1>18. \A m, k \in DOMAIN m_msg2id' : m_msg2id'[m] = m_msg2id'[k] => m = k
  <2>1. \A m \in DOMAIN m_msg2id, k \in new : m_msg2id'[m] # m_msg2id'[k]
    BY <1>3, <1>11, <1>12, <1>14, <1>15
  <2>2. \A m, k \in new : m_msg2id'[m] = m_msg2id'[k] => m = k
    <3>1. \A m, k \in new : m_msg2id'[m] = m_msg2id'[k] => rank(m) = rank(k)
      BY <1>3, <1>14, <1>15
    <3> QED
      BY <1>7, <3>1 DEF rank
  <2>3. \A m, k \in DOMAIN m_msg2id : m_msg2id'[m] = m_msg2id'[k] => m = k
    BY <1>5, <1>12 DEF IdsDistinct
  <2> QED
    BY <1>12, <2>1, <2>2, <2>3
<1>19. \A d \in Conns, m \in DOMAIN m_msg2id' : session'[d] # m_msg2id'[m]
  <2>1. \A d \in Conns, m \in new : session'[d] # m_msg2id'[m]
    BY <1>3, <1>11, <1>13, <1>14, <1>15
  <2>2. \A d \in Conns, m \in DOMAIN m_msg2id : session'[d] # m_msg2id'[m]
    BY <1>3, <1>5, <1>11, <1>12, <1>13 DEF IdsDistinct
  <2> QED
    BY <1>12, <2>1, <2>2
<1>20. IdsDistinct'
  BY <1>17, <1>18, <1>19 DEF IdsDistinct
<1> QED
  BY <1>16, <1>20

LEMMA BrokenIds ==
  ASSUME BrokerTyped, FreshIds, NEW c \in Conns, handle_broken(c)
  PROVE  FreshIds'
<1>1. /\ session' = [session EXCEPT ![c] = 0]
      /\ UNCHANGED <<m_node_id_index, m_msg2id, allocs>>
  BY DEF handle_broken
<1>2. session \in [Conns -> Ids] /\ allocs \in Nat
  BY DEF BrokerTyped
<1>3. \A m \in DOMAIN m_msg2id : m_msg2id[m] # 0
  BY DEF BrokerTyped, IsMap
<1> QED
  BY <1>1, <1>2, <1>3 DEF FreshIds, NotWrapped, Counted, IdsDistinct

-----------------------------------------------------------------------------
LEMMA GreatestIs ==
  ASSUME NEW S \in SUBSET Nat, NEW x \in S, \A y \in S : y <= x
  PROVE  Max(S) = x
<1>1. \E z \in S : \A y \in S : z >= y
  OBVIOUS
<1>2. Max(S) \in S /\ \A y \in S : Max(S) >= y
  BY <1>1 DEF Max
<1>3. Max(S) >= x /\ Max(S) <= x /\ Max(S) \in Nat /\ x \in Nat
  BY <1>2
<1> HIDE DEF Max
<1> QED
  BY <1>3

(* The sends of one synchronisation.                                       *)
LEMMA SyncSends ==
  ASSUME NEW c, NEW id, NEW ids, NEW slaves, NEW clients, NEW k,
         sync_all_register_info(c, id, ids, slaves, clients, k), NEW d \in Conns
  PROVE  LET now == m_broker_client_info'
         IN IF link[d] = "open" /\ \E e \in Entries(slaves, now) : EntrySock(slaves, now, e) = d
            THEN \E e \in Entries(slaves, now) :
                   /\ EntrySock(slaves, now, e) = d
                   /\ toNode'[d] = Append(toNode[d],
                        SyncData(NodeIdAt(e, c, id, slaves, now), ids, DOMAIN slaves, now))
            ELSE toNode'[d] = toNode[d]
<1> DEFINE now == m_broker_client_info'
           dest(b) == {e \in Entries(slaves, now) : EntrySock(slaves, now, e) = b}
           msg(b) == LET e == CHOOSE e \in dest(b) : TRUE
                     IN SyncData(NodeIdAt(e, c, id, slaves, now), ids, DOMAIN slaves, now)
<1>1. toNode' = SentToNodes({b \in Conns : dest(b) # {}}, [b \in Conns |-> msg(b)])
  BY DEF sync_all_register_info
<1> HIDE DEF msg
<1>2. toNode'[d] = IF dest(d) # {} /\ link[d] = "open"
                   THEN Append(toNode[d], msg(d)) ELSE toNode[d]
  BY <1>1 DEF SentToNodes
<1>3. ASSUME dest(d) # {}
      PROVE  \E e \in dest(d) :
               msg(d) = SyncData(NodeIdAt(e, c, id, slaves, now), ids, DOMAIN slaves, now)
  BY <1>3 DEF msg
<1> HIDE DEF now
<1>4. dest(d) # {} <=> \E e \in Entries(slaves, now) : EntrySock(slaves, now, e) = d
  OBVIOUS
<1> QED
  BY <1>2, <1>3, <1>4 DEF now

LEMMA EntryAt ==
  ASSUME NEW slaves, NEW clients
  PROVE  /\ \A i \in DOMAIN slaves :
              /\ <<i, 0>> \in Entries(slaves, clients)
              /\ EntrySock(slaves, clients, <<i, 0>>) = slaves[i]
         /\ \A i \in DOMAIN clients :
              /\ <<i, 1>> \in Entries(slaves, clients)
              /\ EntrySock(slaves, clients, <<i, 1>>) = clients[i].sock
BY DEF Entries, EntrySock

LEMMA EntryIs ==
  ASSUME NEW slaves, NEW clients, NEW e \in Entries(slaves, clients)
  PROVE  \/ /\ e[1] \in DOMAIN slaves /\ e[2] = 0 /\ e = <<e[1], 0>>
            /\ EntrySock(slaves, clients, e) = slaves[e[1]]
         \/ /\ e[1] \in DOMAIN clients /\ e[2] = 1 /\ e = <<e[1], 1>>
            /\ EntrySock(slaves, clients, e) = clients[e[1]].sock
BY DEF Entries, EntrySock

LEMMA SyncDataHas ==
  ASSUME NEW n, NEW ids, NEW slaves, NEW clients
  PROVE  /\ SyncData(n, ids, slaves, clients).cmd = "BROKER_SYNC_DATA_MSG"
         /\ SyncData(n, ids, slaves, clients).node_id = n
BY DEF SyncData

(* The sockets of the tables are connections, and their keys are not 0.    *)
LEMMA TableSocks ==
  ASSUME BrokerTyped
  PROVE  /\ \A i \in DOMAIN m_broker_client_info :
              /\ m_broker_client_info[i].sock \in Conns
              /\ i \in Ids \ {0}
         /\ \A i \in DOMAIN m_slave_broker_sockets :
              /\ m_slave_broker_sockets[i] \in Conns
              /\ i \in Ids \ {0}
BY DEF BrokerTyped, IsMap, ClientInfo

(* An id that is new is a key of no table, and no session's.               *)
LEMMA NewIdUnused ==
  ASSUME BrokerTyped, Counted, EntriesOwned, allocs + 1 <= MaxId
  PROVE  /\ alloc_id(1) = allocs + 1
         /\ alloc_id(1) \notin DOMAIN m_broker_client_info
         /\ alloc_id(1) \notin DOMAIN m_slave_broker_sockets
         /\ \A c \in Conns : session[c] # alloc_id(1)
<1>1. allocs \in Nat /\ session \in [Conns -> Ids]
  BY DEF BrokerTyped
<1>2. alloc_id(1) = allocs + 1
  BY <1>1, AllocUnwrapped DEF Counted
<1>3. \A c \in Conns : session[c] # allocs + 1
  <2> TAKE c \in Conns
  <2>1. session[c] \in Nat /\ session[c] <= allocs
    BY <1>1 DEF Counted, Ids
  <2> QED
    BY <1>1, <2>1
<1> QED
  BY <1>2, <1>3, TableSocks DEF EntriesOwned

(* The new entry is the last: only its own socket is told the id.          *)
LEMMA OnlyNewTold ==
  ASSUME BrokerTyped, Counted, EntriesOwned, allocs + 1 <= MaxId,
         NEW c \in Conns, session[c] = 0, NEW info, info.sock = c,
         NEW clients, SameEntries(clients, Insert(m_broker_client_info, alloc_id(1), info)),
         NEW e \in Entries(m_slave_broker_sockets, clients)
  PROVE  \/ NodeIdAt(e, c, alloc_id(1), m_slave_broker_sockets, clients) = 0
         \/ /\ NodeIdAt(e, c, alloc_id(1), m_slave_broker_sockets, clients) = alloc_id(1)
            /\ EntrySock(m_slave_broker_sockets, clients, e) = c
<1> DEFINE id == alloc_id(1)
           slaves == m_slave_broker_sockets
<1>1. /\ id = allocs + 1 /\ id \in Nat /\ allocs \in Nat
      /\ id \notin DOMAIN m_broker_client_info
  BY NewIdUnused, BrokerAssumption DEF BrokerTyped
<1>2. /\ DOMAIN clients = DOMAIN m_broker_client_info \cup {id}
      /\ clients[id].sock = c
      /\ \A i \in DOMAIN m_broker_client_info : clients[i].sock = m_broker_client_info[i].sock
  BY <1>1 DEF SameEntries, Insert
<1>3. \A i \in DOMAIN m_broker_client_info : i \in Nat /\ i < id /\ clients[i].sock # c
  <2> TAKE i \in DOMAIN m_broker_client_info
  <2>1. /\ m_broker_client_info[i].sock \in Conns /\ i \in Ids \ {0}
        /\ session[m_broker_client_info[i].sock] = i
    BY TableSocks DEF EntriesOwned
  <2>2. i <= allocs /\ i \in Nat
    BY <1>1, <2>1 DEF Counted, Ids
  <2> QED
    BY <1>1, <1>2, <2>1, <2>2
<1>4. \A i \in DOMAIN slaves : slaves[i] # c
  BY TableSocks DEF EntriesOwned
<1> HIDE DEF id
<1>5. ASSUME NEW f \in Entries(slaves, clients), EntrySock(slaves, clients, f) = c
      PROVE  f = <<id, 1>>
  <2>1. \/ f[1] \in DOMAIN slaves /\ EntrySock(slaves, clients, f) = slaves[f[1]]
        \/ /\ f[1] \in DOMAIN clients /\ f = <<f[1], 1>>
           /\ EntrySock(slaves, clients, f) = clients[f[1]].sock
    BY EntryIs
  <2> QED
    BY <1>2, <1>3, <1>4, <1>5, <2>1
<1>6. ASSUME NotAfter(<<id, 1>>, e)
      PROVE  EntrySock(slaves, clients, e) = c
  <2>1. \/ e[2] = 0
        \/ /\ e[1] \in DOMAIN clients /\ e[2] = 1
           /\ EntrySock(slaves, clients, e) = clients[e[1]].sock
    BY EntryIs
  <2>2. ~(1 < 0)
    OBVIOUS
  <2>3. e[2] = 1 /\ id <= e[1]
    BY <1>6, <2>1, <2>2 DEF NotAfter
  <2> QED
    BY <1>1, <1>2, <1>3, <2>1, <2>3
<1> QED
  BY <1>5, <1>6 DEF NodeIdAt, id
=============================================================================
