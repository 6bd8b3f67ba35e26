--------------------------- MODULE GatewayProofs ---------------------------
(***************************************************************************)
(* Theorems about Gateway and the timer service under it, for any number   *)
(* of sockets and timers, any timeout, any period and any length of a      *)
(* second.                                                                 *)
(***************************************************************************)
EXTENDS Gateway, FunctionTheorems, SequenceTheorems, FiniteSetTheorems, WellFoundedInduction, TLAPS

-----------------------------------------------------------------------------
(* Numbers.                                                                *)
LEMMA Monotone ==
  ASSUME NEW m \in Int, NEW n \in Int, m <= n, NEW b \in Nat
  PROVE  m * b <= n * b
OBVIOUS

(* The whole seconds of a number of ticks.                                 *)
LEMMA WholeSeconds ==
  ASSUME NEW a \in Nat, NEW b \in Nat \ {0}
  PROVE  a \div b \in Nat /\ (a \div b) * b <= a /\ a < (a \div b + 1) * b
OBVIOUS

LEMMA SecondsBound ==
  ASSUME NEW a \in Nat, NEW b \in Nat \ {0}, NEW q \in Int, a < (q + 1) * b
  PROVE  a \div b <= q
<1> DEFINE d == a \div b
<1>1. d \in Nat /\ d * b <= a
  BY WholeSeconds
<1> HIDE DEF d
<1>2. CASE q + 1 <= d
  <2>1. (q + 1) * b <= d * b
    BY <1>1, <1>2, Monotone
  <2>2. (q + 1) * b \in Int /\ d * b \in Int
    BY <1>1
  <2> QED BY <1>1, <2>1, <2>2
<1>3. d <= q
  BY <1>1, <1>2
<1> QED BY <1>3 DEF d

(* A set of numbers has a least one.                                       *)
LEMMA MinExists ==
  ASSUME NEW S \in SUBSET Nat, S # {}
  PROVE  Min(S) \in S /\ \A y \in S : Min(S) <= y
<1> DEFINE less == {ss \in Nat \X Nat : ss[1] < ss[2]}
<1>1. IsWellFoundedOn(less, Nat)
  BY NatLessThanWellFounded DEF OpToRel
<1>2. \E x \in S : \A y \in S : x <= y
  <2>1. PICK x \in S : \A y \in S : ~(<<y, x>> \in less)
    <3> HIDE DEF less
    <3> QED BY <1>1, WFMin
  <2>2. ASSUME NEW y \in S, y < x PROVE FALSE
    <3>1. <<y, x>> \in Nat \X Nat /\ <<y, x>>[1] < <<y, x>>[2]
      BY <2>2
    <3>2. <<y, x>> \in less
      BY <3>1
    <3> QED BY <2>1, <3>2
  <2>3. \A y \in S : x <= y
    BY <2>2
  <2> QED BY <2>3
<1> QED BY <1>2, Zenon DEF Min

(* A set of numbers up to n has a greatest one.                            *)
LEMMA MaxExists ==
  ASSUME NEW n \in Nat, NEW S \in SUBSET (0..n), S # {}
  PROVE  Max(S) \in S /\ \A y \in S : y <= Max(S)
<1> DEFINE T == {n - x : x \in S}
<1>1. T \in SUBSET Nat /\ T # {}
  <2>1. \A x \in S : n - x \in Nat
    OBVIOUS
  <2> QED BY <2>1
<1>2. Min(T) \in T /\ \A y \in T : Min(T) <= y
  <2> HIDE DEF T
  <2> QED BY <1>1, MinExists
<1>3. PICK x \in S : Min(T) = n - x
  BY <1>2
<1>4. \A y \in S : x >= y
  BY <1>2, <1>3
<1>5. \E z \in S : \A y \in S : z >= y
  BY <1>4
<1>6. Max(S) \in S /\ \A y \in S : Max(S) >= y
  BY <1>5 DEF Max
<1> QED BY <1>6

-----------------------------------------------------------------------------
(* Lists.  What is left when one element is taken out.                     *)
LEMMA WithoutOne ==
  ASSUME NEW R, NEW list \in Seq(R), NEW i \in DOMAIN list
  PROVE  /\ RemoveAt(list, i) \in Seq(R)
         /\ Len(RemoveAt(list, i)) = Len(list) - 1
         /\ \A k \in 1..(Len(list) - 1) :
              RemoveAt(list, i)[k] = IF k < i THEN list[k] ELSE list[k + 1]
<1> DEFINE before == SubSeq(list, 1, i - 1)
           after  == SubSeq(list, i + 1, Len(list))
<1>1. i \in 1..Len(list) /\ Len(list) \in Nat
  BY LenProperties
<1>2. /\ before \in Seq(R) /\ Len(before) = i - 1
      /\ \A k \in 1..(i - 1) : before[k] = list[k]
  BY <1>1, SubSeqProperties
<1>3. /\ after \in Seq(R) /\ Len(after) = Len(list) - i
      /\ \A k \in 1..(Len(list) - i) : after[k] = list[i + k]
  <2>1. /\ after \in Seq(R)
        /\ Len(after) = IF i + 1 <= Len(list) THEN Len(list) - (i + 1) + 1 ELSE 0
        /\ \A k \in 1..(Len(list) - (i + 1) + 1) : after[k] = list[i + 1 + k - 1]
    BY <1>1, SubSeqProperties
  <2> HIDE DEF after
  <2> QED BY <1>1, <2>1
<1> HIDE DEF before, after
<1>4. /\ before \o after \in Seq(R) /\ Len(before \o after) = Len(list) - 1
      /\ \A k \in 1..(Len(list) - 1) :
           (before \o after)[k] = IF k <= i - 1 THEN before[k] ELSE after[k - (i - 1)]
  <2>1. /\ before \o after \in Seq(R) /\ Len(before \o after) = Len(before) + Len(after)
        /\ \A k \in 1..(Len(before) + Len(after)) :
             (before \o after)[k] = IF k <= Len(before) THEN before[k] ELSE after[k - Len(before)]
    BY <1>2, <1>3, ConcatProperties
  <2>2. Len(before) + Len(after) = Len(list) - 1
    BY <1>1, <1>2, <1>3
  <2> QED BY <1>1, <1>2, <2>1, <2>2
<1>5. ASSUME NEW k \in 1..(Len(list) - 1)
      PROVE  (before \o after)[k] = IF k < i THEN list[k] ELSE list[k + 1]
  <2>1. CASE k < i
    BY <1>1, <1>2, <1>4, <2>1
  <2>2. CASE k >= i
    <3>1. k - (i - 1) \in 1..(Len(list) - i) /\ i + (k - (i - 1)) = k + 1
      BY <1>1, <2>2
    <3>2. after[k - (i - 1)] = list[k + 1]
      BY <1>3, <3>1
    <3>3. ~(k <= i - 1) /\ ~(k < i)
      BY <1>1, <2>2
    <3>4. (before \o after)[k] = after[k - (i - 1)]
      BY <1>4, <3>3
    <3> QED BY <3>2, <3>3, <3>4
  <2>3. k < i \/ k >= i
    BY <1>1
  <2> QED BY <2>1, <2>2, <2>3
<1> QED BY <1>4, <1>5 DEF RemoveAt, before, after

(* Insertions in the store permute the timers.                             *)
LEMMA InsertedIs ==
  ASSUME NEW R, NEW all \in Seq(R), \A i \in DOMAIN all : all[i].dest_tm \in Int
  PROVE  /\ Inserted(all) \in Seq(R) /\ Len(Inserted(all)) = Len(all)
         /\ \E p \in [DOMAIN all -> DOMAIN all] :
              /\ \A i, j \in DOMAIN all : p[i] = p[j] => i = j
              /\ \A i \in DOMAIN all : \E k \in DOMAIN all : p[k] = i
              /\ \A k \in DOMAIN all : Inserted(all)[k] = all[p[k]]
<1> DEFINE D == DOMAIN all
           Comes(j, i) == \/ all[j].dest_tm < all[i].dest_tm
                          \/ all[j].dest_tm = all[i].dest_tm /\ j <= i
           Before(i) == {j \in D : Comes(j, i)}
           place == [i \in D |-> Place(all, i)]
           p == [k \in D |-> CHOOSE i \in D : Place(all, i) = k]
<1>1. D = 1..Len(all) /\ Len(all) \in Nat
  BY LenProperties
<1>2. IsFiniteSet(D) /\ Cardinality(D) = Len(all)
  <2>1. 1 \in Int /\ Len(all) \in Int
    BY <1>1
  <2>2. /\ IsFiniteSet(1..Len(all))
        /\ Cardinality(1..Len(all)) = IF 1 > Len(all) THEN 0 ELSE Len(all) - 1 + 1
    BY <2>1, FS_Interval, Zenon
  <2> QED BY <1>1, <2>2
<1>3. \A i \in D : Place(all, i) = Cardinality(Before(i))
  BY Zenon DEF Place
<1>4. \A i \in D : /\ IsFiniteSet(Before(i)) /\ Before(i) \subseteq D /\ i \in Before(i)
                   /\ Cardinality(Before(i)) \in D
  <2> TAKE i \in D
  <2>1. Before(i) \subseteq D /\ i \in Before(i)
    BY <1>1
  <2> HIDE DEF Before, D
  <2>2. /\ IsFiniteSet(Before(i)) /\ Cardinality(Before(i)) <= Cardinality(D)
        /\ Cardinality(Before(i)) \in Nat /\ Cardinality(Before(i)) # 0
    BY <1>2, <2>1, FS_Subset, FS_CardinalityType, FS_EmptySet
  <2> QED BY <1>1, <1>2, <2>1, <2>2
<1>5. ASSUME NEW i \in D, NEW j \in D, i # j, Comes(i, j)
      PROVE  Cardinality(Before(i)) # Cardinality(Before(j))
  <2>1. ~Comes(j, i)
    BY <1>1, <1>5
  <2>2. \A h \in D : Comes(h, i) => Comes(h, j)
    BY <1>1, <1>5
  <2>3. Before(i) \subseteq Before(j) /\ j \notin Before(i)
    BY <2>1, <2>2
  <2> HIDE DEF Before, D, Comes
  <2> QED BY <1>4, <2>3, FS_Subset
<1>6. \A i, j \in D : Comes(i, j) \/ Comes(j, i)
  BY <1>1
<1> HIDE DEF Comes, Before
<1>7. \A i, j \in D : Place(all, i) = Place(all, j) => i = j
  BY <1>3, <1>5, <1>6
<1>8. \A i \in D : Place(all, i) \in D
  BY <1>3, <1>4
<1> HIDE DEF D
<1>9. place \in [D -> D] /\ \A i, j \in D : place[i] = place[j] => i = j
  BY <1>7, <1>8
<1>10. place \in Injection(D, D)
  <2> HIDE DEF place
  <2> QED BY <1>9, Fun_IsInj
<1>11. place \in Surjection(D, D)
  <2> HIDE DEF place
  <2> QED BY <1>2, <1>10, FS_Injection
<1>12. \A k \in D : \E i \in D : Place(all, i) = k
  <2>1. \A k \in D : \E i \in D : place[i] = k
    <3> HIDE DEF place
    <3> QED BY <1>11 DEF Surjection
  <2> QED BY <2>1
<1>13. \A k \in D : p[k] \in D /\ Place(all, p[k]) = k
  BY <1>12
<1>14. Inserted(all) = [k \in D |-> all[p[k]]]
  <2>1. Inserted(all) = [k \in D |-> all[CHOOSE i \in D : Place(all, i) = k]]
    BY Zenon DEF Inserted, D
  <2>2. \A k \in D : p[k] = CHOOSE i \in D : Place(all, i) = k
    OBVIOUS
  <2> HIDE DEF p
  <2> QED BY <2>1, <2>2
<1>15. p \in [D -> D]
  BY <1>13
<1> HIDE DEF p
<1>16. \A i, j \in D : p[i] = p[j] => i = j
  BY <1>13
<1>17. \A i \in D : \E k \in D : p[k] = i
  BY <1>7, <1>8, <1>13
<1>18. \A k \in D : Inserted(all)[k] = all[p[k]]
  BY <1>14
<1>19. Inserted(all) \in Seq(R) /\ Len(Inserted(all)) = Len(all)
  <2>1. \A k \in 1..Len(all) : all[p[k]] \in R
    BY <1>1, <1>15, ElementOfSeq
  <2>2. Inserted(all) = [k \in 1..Len(all) |-> all[p[k]]]
    BY <1>1, <1>14
  <2> QED BY <1>1, <2>1, <2>2, IsASeq
<1> QED BY <1>15, <1>16, <1>17, <1>18, <1>19 DEF D

-----------------------------------------------------------------------------
(* The timer service.                                                      *)
Registered == [id : Nat, what : {"check", "other"}, timeout : Nat, dest_tm : Nat, is_loop : BOOLEAN]

(* A callback is run by the thread while it processes, and is that of the  *)
(* timer that the iterator is at, which is due.                            *)
TimersTyped ==
  /\ clock \in Nat /\ m_runing \in BOOLEAN
  /\ m_tmp_register_list \in Seq(Registered) /\ m_registered_store \in Seq(Registered)
  /\ thread \in {"waiting", "processing", "ended"}
  /\ now_ \in Nat /\ now_ <= clock
  /\ it \in Nat /\ 1 <= it /\ it <= Len(m_registered_store) + 1
  /\ registered \in Nat
  /\ calling \in {"nothing", "check", "other"}
  /\ thread # "processing" => it = 1 /\ calling = "nothing"
  /\ calling # "nothing" => /\ it <= Len(m_registered_store)
                            /\ m_registered_store[it].what = calling
                            /\ m_registered_store[it].dest_tm <= now_

(* What a step of the gateway does to the service.                         *)
check_returns ==
  /\ calling = "check"
  /\ Register("check", Period, FALSE)
  /\ calling' = "nothing" /\ it' = it + 1
  /\ UNCHANGED <<m_runing, m_registered_store, thread, now_, ran>>

(* Time does not pass while a timer is due.                                *)
passes == /\ clock' = clock + 1 /\ UNCHANGED timers /\ thread # "ended"
          /\ ~Due(m_tmp_register_list) /\ ~Due(m_registered_store)

sets_other == once_timer("other", 3) \/ loop_timer("other", 2)

ServiceStep ==
  \/ passes
  \/ /\ UNCHANGED clock
     /\ \/ stops \/ add_new_timer \/ callback \/ processed \/ check_returns \/ sets_other \/ destroy
        \/ calling # "check" /\ callback_returns
        \/ UNCHANGED timers

LEMMA StepOfService ==
  ASSUME [Next]_vars
  PROVE  ServiceStep
<1>1. ASSUME NEW s \in Sockets, Controls(s) PROVE ServiceStep
  BY <1>1 DEF Controls, handle_open, handle_read, peer_breaks, add, update, del, Controller, Goes,
              ServiceStep
<1>2. CASE reads_time
  BY <1>2 DEF reads_time, Timer, ServiceStep
<1>3. CASE handle_timer_check
  BY <1>3 DEF handle_timer_check, check_returns, ServiceStep
<1>4. CASE OtherThread /\ NotTimers
  BY <1>4 DEF OtherThread, NotTimers, ServiceStep
<1>5. CASE set_timer
  BY <1>5 DEF set_timer, sets_other, ServiceStep
<1>6. CASE stop
  BY <1>6 DEF stop, NotTimers, ServiceStep
<1>7. CASE tick
  BY <1>7 DEF tick, passes, ServiceStep
<1>8. CASE UNCHANGED vars
  BY <1>8 DEF vars, ServiceStep
<1> QED BY <1>1, <1>2, <1>3, <1>4, <1>5, <1>6, <1>7, <1>8 DEF Next, TimerThread

LEMMA RegisterTyped ==
  ASSUME TimersTyped, NEW what \in {"check", "other"}, NEW ms \in Nat, NEW is_loop \in BOOLEAN,
         Register(what, ms, is_loop)
  PROVE  /\ m_tmp_register_list' \in Seq(Registered) /\ registered' = registered + 1
         /\ Len(m_tmp_register_list') = Len(m_tmp_register_list) + 1
         /\ \A i \in DOMAIN m_tmp_register_list : m_tmp_register_list'[i] = m_tmp_register_list[i]
         /\ m_tmp_register_list'[Len(m_tmp_register_list) + 1]
              = [id |-> registered + 1, what |-> what, timeout |-> ms,
                 dest_tm |-> clock + ms, is_loop |-> is_loop]
<1> DEFINE r == [id |-> registered + 1, what |-> what, timeout |-> ms,
                 dest_tm |-> clock + ms, is_loop |-> is_loop]
<1>1. r \in Registered
  BY DEF Registered, TimersTyped
<1>2. m_tmp_register_list' = Append(m_tmp_register_list, r) /\ registered' = registered + 1
  BY DEF Register
<1>3. m_tmp_register_list \in Seq(Registered)
  BY DEF TimersTyped
<1> HIDE DEF r
<1>4. /\ Append(m_tmp_register_list, r) \in Seq(Registered)
      /\ Len(Append(m_tmp_register_list, r)) = Len(m_tmp_register_list) + 1
      /\ \A i \in 1..Len(m_tmp_register_list) :
           Append(m_tmp_register_list, r)[i] = m_tmp_register_list[i]
      /\ Append(m_tmp_register_list, r)[Len(m_tmp_register_list) + 1] = r
  BY <1>1, <1>3, AppendProperties
<1> QED BY <1>2, <1>3, <1>4, LenProperties DEF r

(* The store after insertions, and after what was run is erased.           *)
LEMMA StoreTyped ==
  ASSUME TimersTyped
  PROVE  /\ add_new_timer => m_registered_store' \in Seq(Registered)
         /\ processed => /\ m_registered_store' \in Seq(Registered)
                         /\ Len(m_registered_store') = Len(m_registered_store) - (it - 1)
                         /\ \A k \in 1..(Len(m_registered_store) - (it - 1)) :
                              m_registered_store'[k] = m_registered_store[it - 1 + k]
<1>1. /\ m_registered_store \in Seq(Registered) /\ m_tmp_register_list \in Seq(Registered)
      /\ DOMAIN m_registered_store = 1..Len(m_registered_store)
      /\ Len(m_registered_store) \in Nat
      /\ it \in Nat /\ 1 <= it /\ it <= Len(m_registered_store) + 1
  BY LenProperties DEF TimersTyped
<1>2. ASSUME add_new_timer PROVE m_registered_store' \in Seq(Registered)
  <2> DEFINE all == m_registered_store \o m_tmp_register_list
  <2>1. all \in Seq(Registered)
    BY <1>1, ConcatProperties
  <2>2. m_registered_store' = Inserted(all)
    BY <1>2 DEF add_new_timer
  <2> HIDE DEF all
  <2>3. \A i \in DOMAIN all : all[i].dest_tm \in Int
    <3>1. \A i \in DOMAIN all : all[i] \in Registered
      BY <2>1, ElementOfSeq, LenProperties
    <3>2. \A r \in Registered : r.dest_tm \in Int
      BY DEF Registered
    <3> QED BY <3>1, <3>2
  <2> QED BY <2>1, <2>2, <2>3, InsertedIs
<1>3. ASSUME processed
      PROVE  /\ m_registered_store' \in Seq(Registered)
             /\ Len(m_registered_store') = Len(m_registered_store) - (it - 1)
             /\ \A k \in 1..(Len(m_registered_store) - (it - 1)) :
                  m_registered_store'[k] = m_registered_store[it - 1 + k]
  <2>1. CASE it > 1
    <3>1. m_registered_store' = SubSeq(m_registered_store, it, Len(m_registered_store))
      BY <1>3, <2>1 DEF processed, Remaining
    <3>2. \A i \in it..Len(m_registered_store) : m_registered_store[i] \in Registered
      BY <1>1, ElementOfSeq
    <3>3. /\ m_registered_store' \in Seq(Registered)
          /\ Len(m_registered_store') = IF it <= Len(m_registered_store)
                                        THEN Len(m_registered_store) - it + 1 ELSE 0
          /\ \A k \in 1..(Len(m_registered_store) - it + 1) :
               m_registered_store'[k] = m_registered_store[it + k - 1]
      BY <1>1, <3>1, <3>2, SubSeqProperties
    <3>4. Len(m_registered_store) - it + 1 = Len(m_registered_store) - (it - 1)
      BY <1>1
    <3>5. \A k \in 1..(Len(m_registered_store) - (it - 1)) : it + k - 1 = it - 1 + k
      BY <1>1
    <3>6. Len(m_registered_store') = Len(m_registered_store) - (it - 1)
      BY <1>1, <3>3
    <3> QED BY <3>3, <3>4, <3>5, <3>6
  <2>2. CASE it = 1
    <3>1. m_registered_store' = m_registered_store
      BY <1>3, <2>2 DEF processed
    <3> QED BY <1>1, <2>2, <3>1
  <2>3. it > 1 \/ it = 1
    BY <1>1
  <2> QED BY <2>1, <2>2, <2>3, Zenon
<1> QED BY <1>2, <1>3

LEMMA NextTimersTyped ==
  ASSUME TimersTyped, ServiceStep
  PROVE  TimersTyped'
<1>1. CASE passes
  BY <1>1 DEF passes, timers, TimersTyped
<1>2. CASE UNCHANGED clock /\ stops
  BY <1>2 DEF stops, TimersTyped
<1>3. CASE UNCHANGED clock /\ add_new_timer
  <2>1. m_registered_store' \in Seq(Registered) /\ <<>> \in Seq(Registered)
    BY <1>3, StoreTyped, EmptySeq
  <2>2. Len(m_registered_store') \in Nat
    BY <2>1, LenProperties
  <2> QED BY <1>3, <2>1, <2>2 DEF add_new_timer, TimersTyped
<1>4. CASE UNCHANGED clock /\ callback
  <2>1. m_registered_store[it] \in Registered
    BY <1>4, ElementOfSeq, LenProperties DEF callback, IsTimeout, TimersTyped
  <2>2. calling' \in {"check", "other"} /\ calling' = m_registered_store[it].what
    BY <1>4, <2>1 DEF callback, Registered
  <2> QED BY <1>4, <2>1, <2>2 DEF callback, IsTimeout, TimersTyped
<1>5. CASE UNCHANGED clock /\ processed
  <2>1. m_registered_store' \in Seq(Registered) /\ Len(m_registered_store') \in Nat
    BY <1>5, StoreTyped, LenProperties
  <2> QED BY <1>5, <2>1 DEF processed, TimersTyped
<1>6. CASE UNCHANGED clock /\ (check_returns \/ (calling # "check" /\ callback_returns))
  <2>1. /\ thread = "processing" /\ calling # "nothing" /\ it <= Len(m_registered_store)
        /\ calling' = "nothing" /\ it' = it + 1
        /\ UNCHANGED <<clock, m_runing, m_registered_store, thread, now_>>
    BY <1>6 DEF check_returns, callback_returns, TimersTyped
  <2>2. m_tmp_register_list' \in Seq(Registered) /\ registered' \in Nat
    <3>1. CASE check_returns
      <4>1. Period \in Nat /\ "check" \in {"check", "other"} /\ FALSE \in BOOLEAN
        BY GatewayAssumption
      <4>2. Register("check", Period, FALSE)
        BY <3>1 DEF check_returns
      <4>3. m_tmp_register_list' \in Seq(Registered) /\ registered' = registered + 1
        BY <4>1, <4>2, RegisterTyped
      <4> QED BY <4>3 DEF TimersTyped
    <3>2. CASE callback_returns /\ m_registered_store[it].is_loop
      <4>1. m_registered_store[it] \in Registered
        BY <2>1, ElementOfSeq DEF TimersTyped
      <4>2. m_registered_store[it].what \in {"check", "other"} /\ m_registered_store[it].timeout \in Nat
        BY <4>1 DEF Registered
      <4>3. Register(m_registered_store[it].what, m_registered_store[it].timeout, TRUE)
        BY <3>2 DEF callback_returns
      <4>4. TRUE \in BOOLEAN
        OBVIOUS
      <4>5. m_tmp_register_list' \in Seq(Registered) /\ registered' = registered + 1
        BY <4>2, <4>3, <4>4, RegisterTyped
      <4> QED BY <4>5 DEF TimersTyped
    <3>3. CASE callback_returns /\ ~m_registered_store[it].is_loop
      BY <3>3 DEF callback_returns, TimersTyped
    <3> QED BY <1>6, <3>1, <3>2, <3>3
  <2> QED BY <2>1, <2>2 DEF TimersTyped
<1>7. CASE UNCHANGED clock /\ sets_other
  <2>1. PICK ms \in Nat, is_loop \in BOOLEAN : Register("other", ms, is_loop)
    BY <1>7 DEF sets_other, once_timer, loop_timer
  <2>2. m_tmp_register_list' \in Seq(Registered) /\ registered' = registered + 1
    BY <2>1, RegisterTyped
  <2>3. UNCHANGED <<clock, m_runing, m_registered_store, thread, now_, it, calling>>
    BY <1>7 DEF sets_other, once_timer, loop_timer
  <2> QED BY <2>2, <2>3 DEF TimersTyped
<1>8. CASE UNCHANGED clock /\ destroy
  <2>1. /\ m_runing' \in BOOLEAN
        /\ UNCHANGED <<clock, m_tmp_register_list, m_registered_store, thread, now_, it, calling,
                       registered>>
    BY <1>8 DEF destroy
  <2> QED BY <2>1 DEF TimersTyped
<1>9. CASE UNCHANGED clock /\ UNCHANGED timers
  BY <1>9 DEF timers, TimersTyped
<1> QED BY <1>1, <1>2, <1>3, <1>4, <1>5, <1>6, <1>7, <1>8, <1>9 DEF ServiceStep

(* The timers that wait: the rest of the store, then the list.             *)
Listed ==
  /\ Run \in Nat /\ Len(m_registered_store) \in Nat /\ Run <= Len(m_registered_store)
  /\ Len(m_tmp_register_list) \in Nat
  /\ Waiting \in Seq(Registered) /\ DOMAIN Waiting = 1..Len(Waiting)
  /\ Len(Waiting) = Len(m_registered_store) - Run + Len(m_tmp_register_list)
  /\ \A k \in 1..(Len(m_registered_store) - Run) : Waiting[k] = m_registered_store[Run + k]
  /\ \A k \in 1..Len(m_tmp_register_list) :
       Waiting[Len(m_registered_store) - Run + k] = m_tmp_register_list[k]

LEMMA WaitingIs == TimersTyped => Listed
<1> SUFFICES ASSUME TimersTyped PROVE Listed
  OBVIOUS
<1> DEFINE n == Len(m_registered_store)
           rest == SubSeq(m_registered_store, Run + 1, n)
<1>1. /\ m_registered_store \in Seq(Registered) /\ m_tmp_register_list \in Seq(Registered)
      /\ n \in Nat /\ Len(m_tmp_register_list) \in Nat /\ Run \in Nat /\ Run <= n
  BY LenProperties DEF TimersTyped, Run
<1> HIDE DEF n
<1>2. /\ rest \in Seq(Registered) /\ Len(rest) = n - Run
      /\ \A k \in 1..(n - Run) : rest[k] = m_registered_store[Run + k]
  <2>1. \A i \in (Run + 1)..n : m_registered_store[i] \in Registered
    BY <1>1, ElementOfSeq DEF n
  <2>2. /\ rest \in Seq(Registered)
        /\ Len(rest) = IF Run + 1 <= n THEN n - (Run + 1) + 1 ELSE 0
        /\ \A k \in 1..(n - (Run + 1) + 1) : rest[k] = m_registered_store[Run + 1 + k - 1]
    BY <1>1, <2>1, SubSeqProperties
  <2> HIDE DEF rest
  <2> QED BY <1>1, <2>2
<1> HIDE DEF rest
<1>3. /\ rest \o m_tmp_register_list \in Seq(Registered)
      /\ Len(rest \o m_tmp_register_list) = n - Run + Len(m_tmp_register_list)
      /\ \A i \in 1..(n - Run + Len(m_tmp_register_list)) :
           (rest \o m_tmp_register_list)[i] = IF i <= n - Run THEN rest[i]
                                              ELSE m_tmp_register_list[i - (n - Run)]
  <2>1. /\ rest \o m_tmp_register_list \in Seq(Registered)
        /\ Len(rest \o m_tmp_register_list) = Len(rest) + Len(m_tmp_register_list)
        /\ \A i \in 1..(Len(rest) + Len(m_tmp_register_list)) :
             (rest \o m_tmp_register_list)[i] = IF i <= Len(rest) THEN rest[i]
                                                ELSE m_tmp_register_list[i - Len(rest)]
    BY <1>1, <1>2, ConcatProperties
  <2> QED BY <1>1, <1>2, <2>1
<1>4. Waiting = rest \o m_tmp_register_list
  BY DEF Waiting, rest, n
<1>5. \A k \in 1..(n - Run) : Waiting[k] = m_registered_store[Run + k]
  BY <1>1, <1>2, <1>3, <1>4
<1>6. ASSUME NEW k \in 1..Len(m_tmp_register_list)
      PROVE  Waiting[n - Run + k] = m_tmp_register_list[k]
  <2> DEFINE j == n - Run + k
  <2>1. j \in 1..(n - Run + Len(m_tmp_register_list)) /\ ~(j <= n - Run) /\ j - (n - Run) = k
    BY <1>1
  <2> HIDE DEF j
  <2>2. Waiting[j] = m_tmp_register_list[j - (n - Run)]
    BY <1>3, <1>4, <2>1
  <2>3. Waiting[j] = m_tmp_register_list[k]
    BY <2>1, <2>2
  <2> QED BY <2>3 DEF j
<1>7. DOMAIN Waiting = 1..Len(Waiting)
  BY <1>3, <1>4, LenProperties
<1> QED BY <1>1, <1>3, <1>4, <1>5, <1>6, <1>7 DEF n, Listed

LEMMA WaitingNext == TimersTyped' => Listed'
BY WaitingIs, PTL

(* What a step does to them: the first one is run, another is added, or    *)
(* they are put in another order.                                          *)
Begins == /\ Len(Waiting) > 0 /\ Len(Waiting') = Len(Waiting) - 1
          /\ \A k \in 1..(Len(Waiting) - 1) : Waiting'[k] = Waiting[k + 1]
          /\ ran' = ran \cup {Waiting[1].id} /\ registered' = registered
          /\ m_registered_store' = m_registered_store
          /\ Run' = Run + 1 /\ m_registered_store[Run + 1] = Waiting[1]

Adds == /\ Len(Waiting') = Len(Waiting) + 1
        /\ \A k \in 1..Len(Waiting) : Waiting'[k] = Waiting[k]
        /\ Waiting'[Len(Waiting) + 1].id = registered + 1
        /\ Waiting'[Len(Waiting) + 1].dest_tm
             = clock + Waiting'[Len(Waiting) + 1].timeout
        /\ check_returns => /\ Waiting'[Len(Waiting) + 1].what = "check"
                            /\ Waiting'[Len(Waiting) + 1].timeout = Period
        /\ ran' = ran /\ registered' = registered + 1
        /\ m_registered_store' = m_registered_store /\ Run' = Run

Reorders == /\ Len(Waiting') = Len(Waiting)
            /\ \E p \in [DOMAIN Waiting -> DOMAIN Waiting] :
                 /\ \A i, j \in DOMAIN Waiting : p[i] = p[j] => i = j
                 /\ \A i \in DOMAIN Waiting : \E k \in DOMAIN Waiting : p[k] = i
                 /\ \A k \in DOMAIN Waiting : Waiting'[k] = Waiting[p[k]]
            /\ ran' = ran /\ registered' = registered
            /\ Run' = 0 \/ (Run' = Run /\ m_registered_store' = m_registered_store)

LEMMA SameIsReordered ==
  ASSUME TimersTyped, ran' = ran, registered' = registered,
         Len(Waiting') = Len(Waiting), \A k \in DOMAIN Waiting : Waiting'[k] = Waiting[k],
         Run' = 0 \/ (Run' = Run /\ m_registered_store' = m_registered_store)
  PROVE  Reorders
<1> DEFINE D == DOMAIN Waiting
           p == [k \in D |-> k]
<1>1. p \in [D -> D] /\ \A k \in D : p[k] = k
  OBVIOUS
<1> HIDE DEF p, D
<1>2. \E q \in [D -> D] : /\ \A i, j \in D : q[i] = q[j] => i = j
                          /\ \A i \in D : \E k \in D : q[k] = i
                          /\ \A k \in D : Waiting'[k] = Waiting[q[k]]
  <2>1. /\ \A i, j \in D : p[i] = p[j] => i = j
        /\ \A i \in D : \E k \in D : p[k] = i
        /\ \A k \in D : Waiting'[k] = Waiting[p[k]]
    BY <1>1 DEF D
  <2> QED BY <1>1, <2>1
<1> QED BY <1>2, Zenon DEF Reorders, D

LEMMA RegisterAdds ==
  ASSUME TimersTyped, TimersTyped', UNCHANGED <<clock, m_registered_store, ran>>, Run' = Run,
         NEW what \in {"check", "other"}, NEW ms \in Nat, NEW is_loop \in BOOLEAN,
         Register(what, ms, is_loop), check_returns => what = "check" /\ ms = Period
  PROVE  Adds
<1> DEFINE n == Len(m_registered_store) - Run
           m == Len(m_tmp_register_list)
           r == [id |-> registered + 1, what |-> what, timeout |-> ms,
                 dest_tm |-> clock + ms, is_loop |-> is_loop]
<1>1. Listed /\ Listed'
  BY WaitingIs, WaitingNext
<1>2. /\ n \in Nat /\ m \in Nat /\ Len(Waiting) = n + m /\ Len(m_tmp_register_list') = m + 1
      /\ m_tmp_register_list'[m + 1] = r
      /\ \A i \in 1..m : m_tmp_register_list'[i] = m_tmp_register_list[i]
      /\ registered' = registered + 1
  <2>1. DOMAIN m_tmp_register_list = 1..m
    BY LenProperties DEF TimersTyped
  <2>2. /\ Len(m_tmp_register_list') = m + 1 /\ registered' = registered + 1
        /\ m_tmp_register_list'[m + 1] = r
        /\ \A i \in DOMAIN m_tmp_register_list : m_tmp_register_list'[i] = m_tmp_register_list[i]
    BY RegisterTyped
  <2> HIDE DEF r
  <2>3. n \in Nat /\ m \in Nat /\ Len(Waiting) = n + m
    BY <1>1 DEF Listed
  <2> QED BY <2>1, <2>2, <2>3
<1>3. /\ Len(Waiting') = n + (m + 1)
      /\ \A k \in 1..n : Waiting'[k] = m_registered_store[Run + k]
      /\ \A k \in 1..(m + 1) : Waiting'[n + k] = m_tmp_register_list'[k]
  BY <1>1, <1>2 DEF Listed
<1>4. /\ \A k \in 1..n : Waiting[k] = m_registered_store[Run + k]
      /\ \A k \in 1..m : Waiting[n + k] = m_tmp_register_list[k]
  BY <1>1 DEF Listed
<1> HIDE DEF n, m, r
<1>5. \A k \in 1..(n + m) : Waiting'[k] = Waiting[k]
  <2> TAKE k \in 1..(n + m)
  <2>1. CASE k <= n
    BY <1>2, <1>3, <1>4, <2>1
  <2>2. CASE k > n
    <3> DEFINE j == k - n
    <3>1. j \in 1..m /\ j \in 1..(m + 1) /\ n + j = k
      BY <1>2, <2>2
    <3> HIDE DEF j
    <3>2. Waiting'[n + j] = Waiting[n + j]
      BY <1>2, <1>3, <1>4, <3>1
    <3> QED BY <3>1, <3>2
  <2> QED BY <1>2, <2>1, <2>2
<1>6. Waiting'[n + m + 1] = r
  <2>1. m + 1 \in 1..(m + 1) /\ n + (m + 1) = n + m + 1
    BY <1>2
  <2> QED BY <1>2, <1>3, <2>1
<1>7. Len(Waiting') = Len(Waiting) + 1
  BY <1>2, <1>3
<1>8. /\ r.id = registered + 1 /\ r.dest_tm = clock + r.timeout
      /\ r.what = what /\ r.timeout = ms
  BY DEF r
<1>9. Waiting'[Len(Waiting) + 1] = r
  BY <1>2, <1>6
<1> QED BY <1>2, <1>5, <1>7, <1>8, <1>9 DEF Adds

LEMMA CallbackIs ==
  ASSUME TimersTyped, callback
  PROVE  /\ calling' # "nothing" /\ calling = "nothing" /\ thread = "processing"
         /\ it <= Len(m_registered_store) /\ m_registered_store[it] \in Registered
         /\ calling' = m_registered_store[it].what /\ m_registered_store[it].dest_tm <= now_
<1>1. it <= Len(m_registered_store) /\ it \in 1..Len(m_registered_store)
  BY LenProperties DEF callback, IsTimeout, TimersTyped
<1>2. m_registered_store[it] \in Registered
  BY <1>1, ElementOfSeq DEF TimersTyped
<1>3. m_registered_store[it].what \in {"check", "other"}
  BY <1>2 DEF Registered
<1> QED BY <1>1, <1>2, <1>3 DEF callback, IsTimeout

LEMMA StepOfWaiting ==
  ASSUME TimersTyped, ServiceStep
  PROVE  \/ callback /\ Begins
         \/ Adds /\ (check_returns \/ ~callback)
         \/ Reorders /\ ~callback /\ ~check_returns
<1>1. TimersTyped' /\ Listed /\ Listed'
  BY NextTimersTyped, WaitingIs, WaitingNext
<1>2. CASE UNCHANGED <<m_tmp_register_list, m_registered_store, it, calling, ran, registered>>
  <2>1. Run' = Run /\ Waiting' = Waiting
    BY <1>2 DEF Run, Waiting
  <2>2. Reorders
    BY <1>2, <2>1, SameIsReordered
  <2>3. ~callback /\ ~check_returns
    BY <1>2, CallbackIs DEF check_returns
  <2> QED BY <2>2, <2>3
<1>3. CASE add_new_timer
  <2> DEFINE all == m_registered_store \o m_tmp_register_list
             n == Len(m_registered_store)
             m == Len(m_tmp_register_list)
  <2>1. Run = 0 /\ Run' = 0
    BY <1>3 DEF add_new_timer, Run, TimersTyped
  <2>2. /\ m_registered_store \in Seq(Registered) /\ m_tmp_register_list \in Seq(Registered)
        /\ n \in Nat /\ m \in Nat /\ Len(Waiting) = n + m /\ DOMAIN Waiting = 1..(n + m)
        /\ \A k \in 1..n : Waiting[k] = m_registered_store[k]
        /\ \A k \in 1..m : Waiting[n + k] = m_tmp_register_list[k]
    BY <1>1, <2>1 DEF Listed, TimersTyped
  <2> HIDE DEF n, m
  <2>3. /\ all \in Seq(Registered) /\ Len(all) = n + m
        /\ \A k \in 1..(n + m) : all[k] = IF k <= n THEN m_registered_store[k]
                                          ELSE m_tmp_register_list[k - n]
    BY <2>2, ConcatProperties DEF n, m
  <2>6. m_registered_store' = Inserted(all) /\ m_tmp_register_list' = <<>>
    BY <1>3 DEF add_new_timer
  <2> HIDE DEF all
  <2>4. \A k \in 1..(n + m) : all[k] = Waiting[k]
    <3> TAKE k \in 1..(n + m)
    <3>1. CASE k <= n
      BY <2>2, <2>3, <3>1
    <3>2. CASE k > n
      <4> DEFINE j == k - n
      <4>1. j \in 1..m /\ n + j = k /\ ~(k <= n)
        BY <2>2, <3>2
      <4>2. all[k] = m_tmp_register_list[j]
        BY <2>3, <4>1
      <4> HIDE DEF j
      <4> QED BY <2>2, <4>1, <4>2
    <3> QED BY <2>2, <3>1, <3>2
  <2>5. DOMAIN all = 1..(n + m)
    BY <2>3, LenProperties
  <2>7. \A i \in DOMAIN all : all[i].dest_tm \in Int
    <3>1. \A i \in DOMAIN all : all[i] \in Registered
      BY <2>3, <2>5, ElementOfSeq
    <3>2. \A r \in Registered : r.dest_tm \in Int
      BY DEF Registered
    <3> QED BY <3>1, <3>2
  <2>8. /\ Len(m_registered_store') = n + m
        /\ \E p \in [1..(n + m) -> 1..(n + m)] :
             /\ \A i, j \in 1..(n + m) : p[i] = p[j] => i = j
             /\ \A i \in 1..(n + m) : \E k \in 1..(n + m) : p[k] = i
             /\ \A k \in 1..(n + m) : m_registered_store'[k] = all[p[k]]
    <3>1. /\ Len(Inserted(all)) = Len(all)
          /\ \E p \in [DOMAIN all -> DOMAIN all] :
               /\ \A i, j \in DOMAIN all : p[i] = p[j] => i = j
               /\ \A i \in DOMAIN all : \E k \in DOMAIN all : p[k] = i
               /\ \A k \in DOMAIN all : Inserted(all)[k] = all[p[k]]
      BY <2>3, <2>7, InsertedIs, Zenon
    <3>2. Len(m_registered_store') = n + m
      BY <2>3, <2>6, <3>1
    <3>3. PICK p \in [DOMAIN all -> DOMAIN all] :
               /\ \A i, j \in DOMAIN all : p[i] = p[j] => i = j
               /\ \A i \in DOMAIN all : \E k \in DOMAIN all : p[k] = i
               /\ \A k \in DOMAIN all : m_registered_store'[k] = all[p[k]]
      BY <2>6, <3>1
    <3>4. /\ p \in [1..(n + m) -> 1..(n + m)]
          /\ \A i, j \in 1..(n + m) : p[i] = p[j] => i = j
          /\ \A i \in 1..(n + m) : \E k \in 1..(n + m) : p[k] = i
          /\ \A k \in 1..(n + m) : m_registered_store'[k] = all[p[k]]
      BY <2>5, <3>3
    <3> QED BY <3>2, <3>4
  <2>9. /\ Len(Waiting') = n + m
        /\ \A k \in 1..(n + m) : Waiting'[k] = m_registered_store'[k]
    <3>1. Len(m_tmp_register_list') = 0
      BY <2>6, EmptySeq
    <3> QED BY <1>1, <2>1, <2>2, <2>8, <3>1 DEF Listed
  <2>10. PICK p \in [1..(n + m) -> 1..(n + m)] :
             /\ \A i, j \in 1..(n + m) : p[i] = p[j] => i = j
             /\ \A i \in 1..(n + m) : \E k \in 1..(n + m) : p[k] = i
             /\ \A k \in 1..(n + m) : m_registered_store'[k] = all[p[k]]
    BY <2>8
  <2>11. \A k \in 1..(n + m) : Waiting'[k] = Waiting[p[k]]
    BY <2>4, <2>9, <2>10
  <2>12. Reorders
    <3>1. \E q \in [DOMAIN Waiting -> DOMAIN Waiting] :
             /\ \A i, j \in DOMAIN Waiting : q[i] = q[j] => i = j
             /\ \A i \in DOMAIN Waiting : \E k \in DOMAIN Waiting : q[k] = i
             /\ \A k \in DOMAIN Waiting : Waiting'[k] = Waiting[q[k]]
      <4>1. /\ p \in [DOMAIN Waiting -> DOMAIN Waiting]
            /\ \A i, j \in DOMAIN Waiting : p[i] = p[j] => i = j
            /\ \A i \in DOMAIN Waiting : \E k \in DOMAIN Waiting : p[k] = i
            /\ \A k \in DOMAIN Waiting : Waiting'[k] = Waiting[p[k]]
        BY <2>2, <2>10, <2>11, Zenon
      <4> QED BY <4>1, Zenon
    <3>2. Len(Waiting') = Len(Waiting) /\ ran' = ran /\ registered' = registered
      BY <1>3, <2>2, <2>9 DEF add_new_timer
    <3> QED BY <2>1, <3>1, <3>2, Zenon DEF Reorders
  <2>13. ~callback /\ ~check_returns
    BY <1>3, CallbackIs DEF add_new_timer, check_returns, TimersTyped
  <2> QED BY <2>12, <2>13
<1>4. CASE callback
  <2> DEFINE n == Len(m_registered_store) - Run
             m == Len(m_tmp_register_list)
  <2>1. /\ Run = it - 1 /\ Run' = it /\ it <= Len(m_registered_store)
        /\ UNCHANGED <<m_registered_store, m_tmp_register_list, registered>>
        /\ ran' = ran \cup {m_registered_store[it].id}
    <3>1. calling = "nothing" /\ calling' # "nothing" /\ it' = it
      BY <1>4, CallbackIs DEF callback
    <3>2. Run = it - 1 /\ Run' = it
      BY <3>1 DEF Run
    <3>3. it <= Len(m_registered_store)
      BY <1>4, CallbackIs
    <3> QED BY <1>4, <3>2, <3>3 DEF callback
  <2>2. /\ n \in Nat /\ n > 0 /\ m \in Nat /\ Run + 1 = it /\ Len(Waiting) = n + m
        /\ Len(m_registered_store) - it = n - 1
    BY <1>1, <2>1 DEF Listed, TimersTyped
  <2>3. /\ \A k \in 1..n : Waiting[k] = m_registered_store[Run + k]
        /\ \A k \in 1..m : Waiting[n + k] = m_tmp_register_list[k]
    BY <1>1 DEF Listed
  <2>4. /\ Len(Waiting') = n - 1 + m
        /\ \A k \in 1..(n - 1) : Waiting'[k] = m_registered_store[it + k]
        /\ \A k \in 1..m : Waiting'[n - 1 + k] = m_tmp_register_list[k]
    BY <1>1, <2>1, <2>2 DEF Listed
  <2> HIDE DEF n, m
  <2>5. ASSUME NEW k \in 1..(n + m - 1) PROVE Waiting'[k] = Waiting[k + 1]
    <3>1. CASE k <= n - 1
      <4> DEFINE j == k + 1
      <4>0. Run \in Nat
        BY <1>1 DEF Listed
      <4>1. j \in 1..n /\ k \in 1..(n - 1) /\ it + k = Run + j
        BY <2>2, <3>1, <4>0
      <4> HIDE DEF j
      <4>2. Waiting[j] = m_registered_store[Run + j]
        BY <2>3, <4>1
      <4>3. Waiting'[k] = m_registered_store[it + k]
        BY <2>4, <4>1
      <4>4. Waiting'[k] = Waiting[j]
        BY <4>1, <4>2, <4>3
      <4> QED BY <4>4 DEF j
    <3>2. CASE k > n - 1
      <4> DEFINE j == k - (n - 1)
      <4>1. j \in 1..m /\ n + j = k + 1 /\ n - 1 + j = k
        BY <2>2, <3>2
      <4> HIDE DEF j
      <4>2. Waiting'[n - 1 + j] = Waiting[n + j]
        BY <2>3, <2>4, <4>1
      <4> QED BY <4>1, <4>2
    <3> QED BY <2>2, <3>1, <3>2
  <2>6. Waiting[1] = m_registered_store[it]
    <3>1. 1 \in 1..n /\ Run + 1 = it
      BY <2>2
    <3> QED BY <2>3, <3>1
  <2>7. /\ Len(Waiting) > 0 /\ Len(Waiting') = Len(Waiting) - 1
        /\ Len(Waiting) - 1 = n + m - 1
    <3>1. Len(Waiting) = n + m /\ Len(Waiting') = n - 1 + m /\ n \in Nat /\ m \in Nat /\ n > 0
      BY <2>2, <2>4
    <3> QED BY <3>1
  <2> QED BY <1>4, <2>1, <2>2, <2>5, <2>6, <2>7 DEF Begins
<1>5. CASE processed
  <2> DEFINE n == Len(m_registered_store) - Run
             m == Len(m_tmp_register_list)
  <2>1. /\ Run = it - 1 /\ Run' = 0
        /\ UNCHANGED <<m_tmp_register_list, ran, registered>>
    BY <1>5 DEF processed, Run
  <2>2. /\ n \in Nat /\ m \in Nat /\ DOMAIN Waiting = 1..(n + m) /\ Len(Waiting) = n + m
        /\ \A k \in 1..n : Waiting[k] = m_registered_store[Run + k]
        /\ \A k \in 1..m : Waiting[n + k] = m_tmp_register_list[k]
    BY <1>1, SMTT(30) DEF Listed
  <2>3. /\ Len(m_registered_store') = n
        /\ \A k \in 1..n : m_registered_store'[k] = m_registered_store[Run + k]
    BY <1>5, <2>1, StoreTyped
  <2>4. /\ Len(Waiting') = n + m
        /\ \A k \in 1..n : Waiting'[k] = m_registered_store'[k]
        /\ \A k \in 1..m : Waiting'[n + k] = m_tmp_register_list[k]
    <3>1. n - 0 = n /\ \A k \in 1..n : 0 + k = k
      BY <2>2
    <3> QED BY <1>1, <2>1, <2>2, <2>3, <3>1, SMTT(30) DEF Listed
  <2> HIDE DEF n, m
  <2>5. ASSUME NEW k \in 1..(n + m) PROVE Waiting'[k] = Waiting[k]
    <3>1. CASE k <= n
      BY <2>2, <2>3, <2>4, <3>1
    <3>2. CASE k > n
      <4> DEFINE j == k - n
      <4>1. j \in 1..m /\ n + j = k
        BY <2>2, <3>2
      <4> HIDE DEF j
      <4> QED BY <2>2, <2>4, <4>1
    <3> QED BY <2>2, <3>1, <3>2
  <2>6. Reorders
    BY <2>1, <2>2, <2>4, <2>5, SameIsReordered
  <2>7. ~callback /\ ~check_returns
    BY <1>5 DEF processed, callback, check_returns
  <2> QED BY <2>6, <2>7
<1>6. CASE UNCHANGED clock /\ (check_returns \/ (calling # "check" /\ callback_returns))
  <2>1. /\ thread = "processing" /\ calling # "nothing" /\ it <= Len(m_registered_store)
        /\ calling' = "nothing" /\ it' = it + 1
        /\ UNCHANGED <<clock, m_registered_store, ran>>
    BY <1>6 DEF check_returns, callback_returns, TimersTyped
  <2>2. Run' = Run /\ ~callback
    BY <2>1 DEF Run, callback, TimersTyped
  <2>3. CASE check_returns
    <3>1. Period \in Nat /\ "check" \in {"check", "other"} /\ FALSE \in BOOLEAN
      BY GatewayAssumption
    <3>2. Register("check", Period, FALSE)
      BY <2>3 DEF check_returns
    <3> QED BY <1>1, <2>1, <2>2, <2>3, <3>1, <3>2, RegisterAdds
  <2>4. CASE calling # "check" /\ callback_returns /\ m_registered_store[it].is_loop
    <3>1. m_registered_store[it] \in Registered
      BY <2>1, ElementOfSeq DEF TimersTyped
    <3>2. /\ m_registered_store[it].what \in {"check", "other"}
          /\ m_registered_store[it].timeout \in Nat /\ TRUE \in BOOLEAN
      BY <3>1 DEF Registered
    <3>3. /\ Register(m_registered_store[it].what, m_registered_store[it].timeout, TRUE)
          /\ ~check_returns
      BY <2>4 DEF callback_returns, check_returns
    <3> QED BY <1>1, <2>1, <2>2, <3>2, <3>3, RegisterAdds
  <2>5. CASE calling # "check" /\ callback_returns /\ ~m_registered_store[it].is_loop
    <3>1. UNCHANGED <<m_tmp_register_list, registered>> /\ ~check_returns
      BY <2>5 DEF callback_returns, check_returns
    <3>2. Waiting' = Waiting
      BY <2>1, <2>2, <3>1 DEF Waiting
    <3> QED BY <2>1, <2>2, <3>1, <3>2, SameIsReordered
  <2> QED BY <1>6, <2>3, <2>4, <2>5
<1>7. CASE UNCHANGED clock /\ sets_other
  <2>1. PICK ms \in Nat, is_loop \in BOOLEAN : Register("other", ms, is_loop)
    BY <1>7 DEF sets_other, once_timer, loop_timer
  <2>2. UNCHANGED <<clock, m_registered_store, ran, it, calling>>
    BY <1>7 DEF sets_other, once_timer, loop_timer
  <2>3. Run' = Run
    BY <2>2 DEF Run
  <2>4. ~callback /\ ~check_returns
    BY <2>2, CallbackIs DEF check_returns
  <2>5. "other" \in {"check", "other"} /\ (check_returns => "other" = "check" /\ ms = Period)
    BY <2>4
  <2>6. UNCHANGED <<clock, m_registered_store, ran>>
    BY <2>2
  <2>7. Adds
    BY <1>1, <2>1, <2>3, <2>5, <2>6, RegisterAdds
  <2> QED BY <2>4, <2>7
<1>8. CASE passes \/ stops \/ destroy \/ UNCHANGED timers
  BY <1>2, <1>8 DEF passes, stops, destroy, timers
<1> QED BY <1>3, <1>4, <1>5, <1>6, <1>7, <1>8 DEF ServiceStep

-----------------------------------------------------------------------------
(* Each timer is in one place.                                             *)
Once == /\ \A i, j \in DOMAIN Waiting : Waiting[i].id = Waiting[j].id => i = j
        /\ \A i \in DOMAIN Waiting : Waiting[i].id \in (1..registered) \ ran
        /\ \A x \in (1..registered) \ ran : \E i \in DOMAIN Waiting : Waiting[i].id = x
        /\ ran \subseteq 1..registered
        /\ \A i \in 1..Run : m_registered_store[i].id \in ran

TimersInv == TimersTyped /\ Once

LEMMA BeginsOnce ==
  ASSUME TimersInv, TimersTyped', Begins
  PROVE  Once'
<1> DEFINE n == Len(Waiting)
<1>1. n \in Nat /\ n > 0 /\ DOMAIN Waiting = 1..n /\ DOMAIN (Waiting') = 1..(n - 1)
  BY WaitingIs, WaitingNext DEF TimersInv, Listed, Begins
<1> HIDE DEF n
<1>2. \A k \in 1..(n - 1) : Waiting'[k] = Waiting[k + 1] /\ k + 1 \in 1..n
  BY <1>1 DEF Begins, n
<1>3. \A i, j \in 1..(n - 1) : Waiting'[i].id = Waiting'[j].id => i = j
  <2> TAKE i, j \in 1..(n - 1)
  <2>1. Waiting[i + 1].id = Waiting[j + 1].id => i + 1 = j + 1
    BY <1>1, <1>2 DEF TimersInv, Once
  <2> QED BY <1>2, <2>1
<1>4. ran' = ran \cup {Waiting[1].id} /\ registered' = registered
  BY DEF Begins
<1>5. \A i \in 1..(n - 1) : Waiting'[i].id \in (1..registered) \ ran'
  <2> TAKE i \in 1..(n - 1)
  <2>1. Waiting[i + 1].id \in (1..registered) \ ran
    BY <1>1, <1>2 DEF TimersInv, Once
  <2>2. 1 \in 1..n /\ i + 1 \in 1..n /\ i + 1 # 1
    BY <1>1
  <2>3. Waiting[i + 1].id # Waiting[1].id
    BY <1>1, <2>2 DEF TimersInv, Once
  <2> QED BY <1>2, <1>4, <2>1, <2>3
<1>6. ASSUME NEW x \in (1..registered) \ ran' PROVE \E i \in 1..(n - 1) : Waiting'[i].id = x
  <2>1. PICK k \in 1..n : Waiting[k].id = x
    BY <1>1, <1>4 DEF TimersInv, Once
  <2>2. k # 1
    BY <1>4, <2>1
  <2> DEFINE i == k - 1
  <2>3. i \in 1..(n - 1) /\ i + 1 = k
    BY <1>1, <2>2
  <2> HIDE DEF i
  <2>4. Waiting'[i].id = x
    BY <1>2, <2>1, <2>3
  <2> QED BY <2>3, <2>4
<1>7. ran' \subseteq 1..registered
  <2>1. 1 \in 1..n
    BY <1>1
  <2>2. Waiting[1].id \in 1..registered /\ ran \subseteq 1..registered
    BY <1>1, <2>1 DEF TimersInv, Once
  <2> QED BY <1>4, <2>2
<1>8. \A i \in 1..Run' : m_registered_store'[i].id \in ran'
  <2> TAKE i \in 1..Run'
  <2>1. Run \in Nat /\ Run' = Run + 1 /\ m_registered_store' = m_registered_store
        /\ m_registered_store[Run + 1] = Waiting[1]
    BY WaitingIs DEF Begins, TimersInv, Listed
  <2>2. CASE i = Run + 1
    BY <1>4, <2>1, <2>2
  <2>3. CASE i \in 1..Run
    BY <1>4, <2>1, <2>3 DEF TimersInv, Once
  <2> QED BY <2>1, <2>2, <2>3
<1> QED BY <1>1, <1>3, <1>4, <1>5, <1>6, <1>7, <1>8 DEF Once

LEMMA AddsOnce ==
  ASSUME TimersInv, TimersTyped', Adds
  PROVE  Once'
<1> DEFINE n == Len(Waiting)
<1>1. n \in Nat /\ DOMAIN Waiting = 1..n /\ DOMAIN (Waiting') = 1..(n + 1) /\ registered \in Nat
  BY WaitingIs, WaitingNext DEF TimersInv, TimersTyped, Listed, Adds
<1> HIDE DEF n
<1>2. /\ \A k \in 1..n : Waiting'[k] = Waiting[k]
      /\ Waiting'[n + 1].id = registered + 1
      /\ ran' = ran /\ registered' = registered + 1
      /\ m_registered_store' = m_registered_store /\ Run' = Run
  BY DEF Adds, n
<1>3. /\ \A i \in 1..n : Waiting'[i].id \in (1..registered) \ ran
      /\ \A i, j \in 1..n : Waiting'[i].id = Waiting'[j].id => i = j
      /\ ran \subseteq 1..registered
  <2>1. /\ \A i \in 1..n : Waiting[i].id \in (1..registered) \ ran
        /\ \A i, j \in 1..n : Waiting[i].id = Waiting[j].id => i = j
        /\ ran \subseteq 1..registered
    BY <1>1, Zenon DEF TimersInv, Once
  <2> HIDE DEF Waiting
  <2>2. \A i \in 1..n : Waiting'[i].id = Waiting[i].id
    BY <1>2
  <2> QED BY <2>1, <2>2, Zenon
<1>4. \A k \in 1..(n + 1) : k \in 1..n \/ k = n + 1
  BY <1>1
<1>5. registered + 1 \notin 1..registered /\ 1..(registered + 1) = (1..registered) \cup {registered + 1}
  BY <1>1
<1>6. \A i, j \in 1..(n + 1) : Waiting'[i].id = Waiting'[j].id => i = j
  BY <1>2, <1>3, <1>4, <1>5
<1>7. \A i \in 1..(n + 1) : Waiting'[i].id \in (1..registered') \ ran'
  BY <1>2, <1>3, <1>4, <1>5
<1>8. ASSUME NEW x \in (1..registered') \ ran' PROVE \E i \in 1..(n + 1) : Waiting'[i].id = x
  <2>1. CASE x = registered + 1
    <3>1. n + 1 \in 1..(n + 1)
      BY <1>1
    <3> QED BY <1>2, <2>1, <3>1
  <2>2. CASE x \in (1..registered) \ ran
    <3>1. PICK i \in 1..n : Waiting[i].id = x
      BY <1>1, <2>2 DEF TimersInv, Once
    <3>2. i \in 1..(n + 1)
      BY <1>1
    <3> QED BY <1>2, <3>1, <3>2
  <2> QED BY <1>2, <1>5, <2>1, <2>2
<1>9. ran' \subseteq 1..registered'
  BY <1>2, <1>3, <1>5
<1>10. \A i \in 1..Run' : m_registered_store'[i].id \in ran'
  BY <1>2 DEF TimersInv, Once
<1> QED BY <1>1, <1>6, <1>7, <1>8, <1>9, <1>10 DEF Once

LEMMA ReordersOnce ==
  ASSUME TimersInv, TimersTyped', Reorders
  PROVE  Once'
<1> DEFINE D == DOMAIN Waiting
<1>1. DOMAIN (Waiting') = D
  BY WaitingIs, WaitingNext DEF TimersInv, Listed, Reorders
<1> HIDE DEF D
<1>2. PICK p \in [D -> D] : /\ \A i, j \in D : p[i] = p[j] => i = j
                            /\ \A i \in D : \E k \in D : p[k] = i
                            /\ \A k \in D : Waiting'[k] = Waiting[p[k]]
  BY DEF Reorders, D
<1>3. ran' = ran /\ registered' = registered
  BY DEF Reorders
<1>4. \A i \in D : p[i] \in D
  BY <1>2
<1>5. \A i, j \in D : Waiting'[i].id = Waiting'[j].id => i = j
  BY <1>2, <1>4 DEF TimersInv, Once, D
<1>6. \A i \in D : Waiting'[i].id \in (1..registered) \ ran
  BY <1>2, <1>4 DEF TimersInv, Once, D
<1>7. \A x \in (1..registered) \ ran : \E i \in D : Waiting'[i].id = x
  <2> TAKE x \in (1..registered) \ ran
  <2>1. PICK i \in D : Waiting[i].id = x
    BY DEF TimersInv, Once, D
  <2>2. PICK k \in D : p[k] = i
    BY <1>2
  <2> QED BY <1>2, <2>1, <2>2
<1>8. \A i \in 1..Run' : m_registered_store'[i].id \in ran
  BY DEF Reorders, TimersInv, Once
<1> QED BY <1>1, <1>3, <1>5, <1>6, <1>7, <1>8 DEF TimersInv, Once

LEMMA NextTimers == TimersInv /\ [Next]_vars => TimersInv'
<1> SUFFICES ASSUME TimersInv, [Next]_vars PROVE TimersInv'
  OBVIOUS
<1>1. ServiceStep
  BY StepOfService
<1>2. TimersTyped'
  BY <1>1, NextTimersTyped DEF TimersInv
<1>3. Begins \/ Adds \/ Reorders
  BY <1>1, StepOfWaiting DEF TimersInv
<1> QED BY <1>2, <1>3, BeginsOnce, AddsOnce, ReordersOnce DEF TimersInv

LEMMA InitTimers == Init => TimersInv
<1> SUFFICES ASSUME Init PROVE TimersInv
  OBVIOUS
<1> DEFINE check == [id |-> 1, what |-> "check", timeout |-> Period,
                     dest_tm |-> Period, is_loop |-> FALSE]
<1>1. check \in Registered
  BY GatewayAssumption DEF Registered
<1>2. /\ <<check>> \in Seq(Registered) /\ <<>> \in Seq(Registered)
      /\ Len(<<check>>) = 1 /\ <<check>>[1] = check /\ Len(<<>>) = 0
  BY <1>1, EmptySeq
<1>3. check.id = 1
  OBVIOUS
<1>4. m_tmp_register_list = <<check>> /\ m_registered_store = <<>>
  BY DEF Init
<1> HIDE DEF check
<1>5. TimersTyped
  <2>1. /\ clock = 0 /\ m_runing = TRUE /\ thread = "waiting" /\ now_ = 0 /\ it = 1
        /\ calling = "nothing" /\ registered = 1
    BY DEF Init
  <2>2. /\ m_tmp_register_list \in Seq(Registered) /\ m_registered_store \in Seq(Registered)
        /\ Len(m_registered_store) = 0
    BY <1>2, <1>4
  <2>3. m_runing \in BOOLEAN
    BY <2>1
  <2> QED BY <2>1, <2>2, <2>3 DEF TimersTyped
<1>6. Run = 0
  BY DEF Init, Run
<1>7. Len(Waiting) = 1 /\ DOMAIN Waiting = 1..1 /\ Waiting[1] = check
  <2>1. Listed
    BY <1>5, WaitingIs
  <2>2. Len(m_registered_store) = 0 /\ Len(m_tmp_register_list) = 1 /\ m_tmp_register_list[1] = check
    BY <1>2, <1>4
  <2>3. Len(Waiting) = 1 /\ DOMAIN Waiting = 1..Len(Waiting)
    BY <1>6, <2>1, <2>2 DEF Listed
  <2>4. 1 \in 1..Len(m_tmp_register_list) /\ Len(m_registered_store) - Run + 1 = 1
    BY <1>6, <2>2
  <2>5. Waiting[1] = m_tmp_register_list[1]
    BY <2>1, <2>4 DEF Listed
  <2> QED BY <2>2, <2>3, <2>5
<1>8. registered = 1 /\ ran = {} /\ \A i \in 1..1 : i = 1
  BY DEF Init
<1>9. Once
  BY <1>3, <1>6, <1>7, <1>8 DEF Once
<1> QED BY <1>5, <1>9 DEF TimersInv

LEMMA TimersHold == Spec => []TimersInv
BY InitTimers, NextTimers, PTL DEF Spec

(* A timer that was set waits in one place, or its callback was run, once: *)
(* none is lost or run twice while the thread moves timers from the list   *)
(* to the store, although callbacks and other threads set timers.          *)
THEOREM TimersRunOnce == Spec => []EachTimerOnce
<1>1. TimersInv => EachTimerOnce
  <2> SUFFICES ASSUME TimersInv PROVE EachTimerOnce
    OBVIOUS
  <2> DEFINE ids == Ids(Waiting)
  <2>1. DOMAIN ids = DOMAIN Waiting /\ \A i \in DOMAIN Waiting : ids[i] = Waiting[i].id
    BY DEF Ids
  <2> HIDE DEF ids
  <2>2. IsInjective(ids)
    BY <2>1 DEF TimersInv, Once, IsInjective
  <2>3. \A x \in Range(ids) : x \in (1..registered) \ ran
    BY <2>1 DEF TimersInv, Once, Range
  <2>4. \A x \in (1..registered) \ ran : x \in Range(ids)
    BY <2>1 DEF TimersInv, Once, Range
  <2>5. Range(ids) \cap ran = {} /\ Range(ids) \cup ran = 1..registered
    BY <2>3, <2>4 DEF TimersInv, Once
  <2> QED BY <2>2, <2>5 DEF EachTimerOnce, ids, TimersInv, Once
<1> QED BY <1>1, TimersHold, PTL

-----------------------------------------------------------------------------
(* The heartbeat.  The map has the sockets that it was told of and that    *)
(* were not closed since.                                                  *)
Node == [node : Nat, value : Sockets, timeout : Nat]

Stages == {"new", "adding", "idle", "updating", "broken"}

HeartTyped ==
  /\ m_cur_tick \in Nat
  /\ m_data_map \in [DOMAIN m_data_map -> Nat]
  /\ DOMAIN m_data_map = {s \in Sockets : stage[s] \in {"idle", "updating"}}
  /\ m_time_sort_list \in Seq(Node)
  /\ stage \in [Sockets -> Stages]
  /\ new_tm \in [Sockets -> Nat] /\ m_last_update_tm \in [Sockets -> Nat]
  /\ lastRead \in [Sockets -> Nat]
  /\ Opened = 1..Cardinality(Opened)

(* A change of the list: of the nodes only those at S are left, in the     *)
(* same order, behind a new one if there is one.                           *)
Changed(S, new) ==
  \E from \in [DOMAIN m_time_sort_list' -> {0} \cup S] :
    /\ \A k, l \in DOMAIN m_time_sort_list' : k < l => from[k] < from[l]
    /\ \A k \in DOMAIN m_time_sort_list' :
         IF from[k] = 0 THEN m_time_sort_list'[k] \in new
                        ELSE m_time_sort_list'[k] = m_time_sort_list[from[k]]
    /\ \A i \in S : \E k \in DOMAIN m_time_sort_list' : from[k] = i
    /\ new # {} => \E k \in DOMAIN m_time_sort_list' : from[k] = 0

LEMMA CutIs ==
  ASSUME m_time_sort_list \in Seq(Node), NEW n \in 0..Len(m_time_sort_list),
         m_time_sort_list' = SubSeq(m_time_sort_list, 1, n)
  PROVE  m_time_sort_list' \in Seq(Node) /\ Changed(1..n, {})
<1>1. Len(m_time_sort_list) \in Nat /\ n \in Nat /\ n <= Len(m_time_sort_list)
  BY LenProperties
<1>2. \A i \in 1..n : m_time_sort_list[i] \in Node
  BY <1>1, ElementOfSeq
<1>3. /\ m_time_sort_list' \in Seq(Node)
      /\ Len(m_time_sort_list') = IF 1 <= n THEN n - 1 + 1 ELSE 0
      /\ \A i \in 1..(n - 1 + 1) : m_time_sort_list'[i] = m_time_sort_list[1 + i - 1]
  BY <1>1, <1>2, SubSeqProperties
<1>4. Len(m_time_sort_list') = n /\ \A i \in 1..n : m_time_sort_list'[i] = m_time_sort_list[i]
  BY <1>1, <1>3
<1>5. DOMAIN m_time_sort_list' = 1..n
  BY <1>3, <1>4, LenProperties
<1> DEFINE from == [k \in 1..n |-> k]
<1>6. from \in [1..n -> {0} \cup 1..n] /\ \A k \in 1..n : from[k] = k /\ from[k] # 0
  BY <1>1
<1> HIDE DEF from
<1>7. /\ \A k, l \in 1..n : k < l => from[k] < from[l]
      /\ \A k \in 1..n : IF from[k] = 0 THEN m_time_sort_list'[k] \in {}
                         ELSE m_time_sort_list'[k] = m_time_sort_list[from[k]]
      /\ \A i \in 1..n : \E k \in 1..n : from[k] = i
  BY <1>4, <1>6
<1> QED BY <1>3, <1>5, <1>6, <1>7, SMTT(30) DEF Changed

(* One node is erased, the one of that number if there is one.             *)
LEMMA ErasedIs ==
  ASSUME m_time_sort_list \in Seq(Node), NEW node \in Nat,
         \A i, j \in DOMAIN m_time_sort_list :
           m_time_sort_list[i].node = m_time_sort_list[j].node => i = j
  PROVE  LET list == Erased(m_time_sort_list, node)
             S == {i \in DOMAIN m_time_sort_list : m_time_sort_list[i].node # node}
         IN /\ list \in Seq(Node)
            /\ \E from \in [DOMAIN list -> S] :
                 /\ \A k, l \in DOMAIN list : k < l => from[k] < from[l]
                 /\ \A k \in DOMAIN list : list[k] = m_time_sort_list[from[k]]
                 /\ \A i \in S : \E k \in DOMAIN list : from[k] = i
<1> DEFINE old == m_time_sort_list
           list == Erased(old, node)
           D == DOMAIN old
           S == {i \in D : old[i].node # node}
           at == {i \in D : old[i].node = node}
           n == Len(old)
<1>1. n \in Nat /\ D = 1..n
  BY LenProperties
<1>2. CASE at = {}
  <2>1. list = old
    BY <1>2 DEF Erased
  <2> DEFINE from == [k \in D |-> k]
  <2>2. from \in [D -> S] /\ \A k \in D : from[k] = k
    BY <1>2
  <2>3. S \subseteq D
    OBVIOUS
  <2> HIDE DEF from, D, S, list, at
  <2>4. /\ \A k, l \in D : k < l => from[k] < from[l]
        /\ \A k \in D : old[k] = old[from[k]]
        /\ \A i \in S : \E k \in D : from[k] = i
    BY <2>2, <2>3
  <2>5. list \in Seq(Node) /\ DOMAIN list = D
    BY <2>1 DEF D
  <2>6. /\ from \in [DOMAIN list -> S]
        /\ \A k, l \in DOMAIN list : k < l => from[k] < from[l]
        /\ \A k \in DOMAIN list : list[k] = old[from[k]]
        /\ \A i \in S : \E k \in DOMAIN list : from[k] = i
    BY <2>1, <2>2, <2>4, <2>5
  <2> QED BY <2>5, <2>6 DEF list, S, D
<1>3. CASE at # {}
  <2> DEFINE c == CHOOSE i \in at : TRUE
  <2>1. c \in D /\ old[c].node = node /\ list = RemoveAt(old, c)
    BY <1>3 DEF Erased
  <2> HIDE DEF c, list
  <2>2. \A i \in D : i \in S <=> i # c
    BY <2>1
  <2> HIDE DEF D, S
  <2>3. /\ list \in Seq(Node) /\ Len(list) = n - 1
        /\ \A k \in 1..(n - 1) : list[k] = IF k < c THEN old[k] ELSE old[k + 1]
    BY <2>1, WithoutOne DEF D
  <2>4. DOMAIN list = 1..(n - 1) /\ c \in 1..n
    BY <1>1, <2>1, <2>3, LenProperties
  <2> HIDE DEF n
  <2> DEFINE from == [k \in 1..(n - 1) |-> IF k < c THEN k ELSE k + 1]
  <2>5. \A k \in 1..(n - 1) : /\ from[k] = IF k < c THEN k ELSE k + 1
                              /\ from[k] \in 1..n /\ from[k] # c
    BY <1>1, <2>4
  <2>6. from \in [1..(n - 1) -> S]
    <3>1. \A k \in 1..(n - 1) : (IF k < c THEN k ELSE k + 1) \in S
      BY <1>1, <2>2, <2>5
    <3> QED BY <3>1
  <2> HIDE DEF from
  <2>7. \A k, l \in 1..(n - 1) : k < l => from[k] < from[l]
    BY <1>1, <2>4, <2>5
  <2>8. \A k \in 1..(n - 1) : list[k] = old[from[k]]
    BY <2>3, <2>5
  <2>9. ASSUME NEW i \in S PROVE \E k \in 1..(n - 1) : from[k] = i
    <3>1. i \in 1..n /\ i # c
      BY <1>1, <2>2 DEF S
    <3>2. CASE i < c
      <4>1. i \in 1..(n - 1) /\ from[i] = i
        BY <1>1, <2>4, <2>5, <3>1, <3>2
      <4> QED BY <4>1
    <3>3. CASE i > c
      <4> DEFINE k == i - 1
      <4>1. k \in 1..(n - 1) /\ ~(k < c) /\ k + 1 = i
        BY <1>1, <2>4, <3>1, <3>3
      <4> HIDE DEF k
      <4>2. from[k] = i
        BY <2>5, <4>1
      <4> QED BY <4>1, <4>2
    <3> QED BY <1>1, <2>4, <3>1, <3>2, <3>3
  <2>10. /\ from \in [DOMAIN list -> S]
         /\ \A k, l \in DOMAIN list : k < l => from[k] < from[l]
         /\ \A k \in DOMAIN list : list[k] = old[from[k]]
         /\ \A i \in S : \E k \in DOMAIN list : from[k] = i
    BY <2>4, <2>6, <2>7, <2>8, <2>9
  <2>11. \E f \in [DOMAIN list -> S] :
           /\ \A k, l \in DOMAIN list : k < l => f[k] < f[l]
           /\ \A k \in DOMAIN list : list[k] = old[f[k]]
           /\ \A i \in S : \E k \in DOMAIN list : f[k] = i
    BY <2>10
  <2> QED BY <2>3, <2>11, Zenon DEF list, S, D
<1> QED BY <1>2, <1>3

LEMMA PushedIs ==
  ASSUME m_time_sort_list \in Seq(Node), NEW list \in Seq(Node), NEW n \in Node,
         NEW S \in SUBSET (Nat \ {0}), NEW from \in [DOMAIN list -> S],
         \A k, l \in DOMAIN list : k < l => from[k] < from[l],
         \A k \in DOMAIN list : list[k] = m_time_sort_list[from[k]],
         \A i \in S : \E k \in DOMAIN list : from[k] = i,
         m_time_sort_list' = PushedFront(list, n)
  PROVE  m_time_sort_list' \in Seq(Node) /\ Changed(S, {n})
<1> DEFINE m == Len(list)
<1>1. m \in Nat /\ DOMAIN list = 1..m
  BY LenProperties
<1>2. <<n>> \in Seq(Node) /\ Len(<<n>>) = 1 /\ <<n>>[1] = n
  OBVIOUS
<1> HIDE DEF m
<1>3. /\ m_time_sort_list' \in Seq(Node) /\ Len(m_time_sort_list') = 1 + m
      /\ \A k \in 1..(1 + m) : m_time_sort_list'[k] = IF k <= 1 THEN <<n>>[k] ELSE list[k - 1]
  BY <1>2, ConcatProperties DEF PushedFront, m
<1>4. DOMAIN m_time_sort_list' = 1..(m + 1)
  BY <1>1, <1>3, LenProperties
<1>5. m_time_sort_list'[1] = n /\ \A k \in 1..m : m_time_sort_list'[k + 1] = list[k]
  <2>1. 1 \in 1..(1 + m)
    BY <1>1
  <2>2. m_time_sort_list'[1] = n
    BY <1>2, <1>3, <2>1
  <2>3. ASSUME NEW k \in 1..m PROVE m_time_sort_list'[k + 1] = list[k]
    <3> DEFINE j == k + 1
    <3>1. j \in 1..(1 + m) /\ ~(j <= 1) /\ j - 1 = k
      BY <1>1
    <3> HIDE DEF j
    <3>2. m_time_sort_list'[j] = list[k]
      BY <1>3, <3>1
    <3> QED BY <3>2 DEF j
  <2> QED BY <2>2, <2>3
<1> DEFINE all == [k \in 1..(m + 1) |-> IF k = 1 THEN 0 ELSE from[k - 1]]
<1>6. /\ all[1] = 0 /\ \A k \in 1..m : all[k + 1] = from[k] /\ from[k] \in S
      /\ \A k \in 1..(m + 1) : k = 1 \/ \E j \in 1..m : k = j + 1
  <2>1. 1 \in 1..(m + 1)
    BY <1>1
  <2>2. ASSUME NEW k \in 1..m PROVE all[k + 1] = from[k] /\ from[k] \in S
    <3>1. k + 1 \in 1..(m + 1) /\ k + 1 # 1 /\ k + 1 - 1 = k
      BY <1>1
    <3> QED BY <1>1, <3>1
  <2>3. ASSUME NEW k \in 1..(m + 1), k # 1 PROVE \E j \in 1..m : k = j + 1
    <3>1. k - 1 \in 1..m /\ k = k - 1 + 1
      BY <1>1, <2>3
    <3> QED BY <3>1
  <2> QED BY <2>1, <2>2, <2>3
<1>7. DOMAIN all = 1..(m + 1) /\ all = [k \in 1..(m + 1) |-> all[k]]
  OBVIOUS
<1> HIDE DEF all
<1> DEFINE First(k) == k = 1 /\ all[k] = 0 /\ m_time_sort_list'[k] = n
           Behind(k, j) == /\ k = j + 1 /\ all[k] = from[j] /\ from[j] \in S
                           /\ m_time_sort_list'[k] = list[j]
<1>8. \A k \in 1..(m + 1) : First(k) \/ \E j \in 1..m : Behind(k, j)
  <2> TAKE k \in 1..(m + 1)
  <2>1. CASE k = 1
    BY <1>5, <1>6, <2>1
  <2>2. ASSUME NEW j \in 1..m, k = j + 1 PROVE Behind(k, j)
    <3>1. all[j + 1] = from[j] /\ from[j] \in S /\ m_time_sort_list'[j + 1] = list[j]
      BY <1>5, <1>6
    <3> QED BY <2>2, <3>1
  <2> QED BY <1>6, <2>1, <2>2
<1>9. all \in [1..(m + 1) -> {0} \cup S]
  <2>1. \A k \in 1..(m + 1) : all[k] \in {0} \cup S
    BY <1>8
  <2> QED BY <1>7, <2>1
<1>10. ASSUME NEW k \in 1..(m + 1), NEW l \in 1..(m + 1), k < l PROVE all[k] < all[l]
  <2>1. PICK j \in 1..m : Behind(l, j)
    <3>1. ~First(l)
      BY <1>1, <1>10
    <3> HIDE DEF First, Behind
    <3> QED BY <1>8, <3>1
  <2>2. CASE First(k)
    <3>1. from[j] \in S
      BY <2>1
    <3>2. from[j] \in Nat \ {0}
      BY <3>1
    <3>3. all[k] = 0 /\ all[l] = from[j]
      BY <2>1, <2>2
    <3> HIDE DEF First, Behind
    <3> QED BY <3>2, <3>3
  <2>3. ASSUME NEW i \in 1..m, Behind(k, i) PROVE all[k] < all[l]
    <3>1. i \in Nat /\ j \in Nat /\ k = i + 1 /\ l = j + 1
      BY <1>1, <2>1, <2>3
    <3>2. i < j
      BY <1>10, <3>1
    <3>3. from[i] < from[j]
      BY <1>1, <3>2
    <3> QED BY <2>1, <2>3, <3>3
  <2> HIDE DEF First, Behind
  <2> QED BY <1>8, <2>2, <2>3
<1>11. \A k \in 1..(m + 1) : IF all[k] = 0 THEN m_time_sort_list'[k] \in {n}
                             ELSE m_time_sort_list'[k] = m_time_sort_list[all[k]]
  <2> TAKE k \in 1..(m + 1)
  <2>1. CASE First(k)
    BY <2>1
  <2>2. ASSUME NEW i \in 1..m, Behind(k, i)
        PROVE  all[k] # 0 /\ m_time_sort_list'[k] = m_time_sort_list[all[k]]
    BY <1>1, <2>2
  <2> HIDE DEF First, Behind
  <2> QED BY <1>8, <2>1, <2>2 DEF First
<1>12. ASSUME NEW i \in S PROVE \E k \in 1..(m + 1) : all[k] = i
  <2>1. PICK k \in 1..m : from[k] = i
    BY <1>1
  <2>2. k + 1 \in 1..(m + 1)
    BY <1>1
  <2> QED BY <1>6, <2>1, <2>2
<1>13. \E k \in 1..(m + 1) : all[k] = 0
  <2>1. 1 \in 1..(m + 1)
    BY <1>1
  <2> QED BY <1>6, <2>1
<1> DEFINE D == DOMAIN m_time_sort_list'
<1>14. /\ all \in [D -> {0} \cup S]
       /\ \A k, l \in D : k < l => all[k] < all[l]
       /\ \A k \in D : IF all[k] = 0 THEN m_time_sort_list'[k] \in {n}
                       ELSE m_time_sort_list'[k] = m_time_sort_list[all[k]]
       /\ \A i \in S : \E k \in D : all[k] = i
       /\ \E k \in D : all[k] = 0
  BY <1>4, <1>9, <1>10, <1>11, <1>12, <1>13
<1> QED BY <1>3, <1>14, Zenon DEF Changed

-----------------------------------------------------------------------------
(* Nodes and sockets.                                                      *)
NodesInv ==
  /\ \A i \in DOMAIN m_time_sort_list :
       /\ m_time_sort_list[i].value \in DOMAIN m_data_map
       /\ m_data_map[m_time_sort_list[i].value] = m_time_sort_list[i].node
  /\ \A i, j \in DOMAIN m_time_sort_list :
       m_time_sort_list[i].node = m_time_sort_list[j].node => i = j
  /\ \A s, t \in DOMAIN m_data_map : m_data_map[s] = m_data_map[t] => s = t
  /\ \A s \in DOMAIN m_data_map \ timedOut :
       \E i \in DOMAIN m_time_sort_list : m_time_sort_list[i].node = m_data_map[s]

HeartInv == HeartTyped /\ NodesInv

(* There is always a number for a new node.                                *)
LEMMA FreshIs ==
  ASSUME HeartInv
  PROVE  /\ Fresh \in Nat
         /\ \A s \in DOMAIN m_data_map : m_data_map[s] # Fresh
         /\ \A i \in DOMAIN m_time_sort_list : m_time_sort_list[i].node # Fresh
<1> DEFINE D == DOMAIN m_data_map
           used == Range(m_data_map)
<1>1. D \subseteq Sockets /\ MaxUsers \in Nat
  BY GatewayAssumption DEF HeartInv, HeartTyped
<1>2. IsFiniteSet(Sockets) /\ Cardinality(Sockets) = MaxUsers
  <2>1. 1 \in Int /\ MaxUsers \in Int
    BY <1>1
  <2>2. /\ IsFiniteSet(1..MaxUsers)
        /\ Cardinality(1..MaxUsers) = IF 1 > MaxUsers THEN 0 ELSE MaxUsers - 1 + 1
    BY <2>1, FS_Interval, Zenon
  <2> QED BY <1>1, <2>2 DEF Sockets
<1>3. IsFiniteSet(D) /\ Cardinality(D) <= MaxUsers /\ Cardinality(D) \in Nat
  BY <1>1, <1>2, FS_Subset, FS_CardinalityType
<1>4. m_data_map \in Surjection(D, used)
  <2>1. m_data_map \in [D -> used] /\ \A t \in used : \E s \in D : m_data_map[s] = t
    BY DEF Range, HeartInv, HeartTyped
  <2> QED BY <2>1 DEF Surjection
<1> HIDE DEF D, used
<1>5. IsFiniteSet(used) /\ Cardinality(used) <= Cardinality(D) /\ Cardinality(used) \in Nat
  BY <1>3, <1>4, FS_Surjection, FS_CardinalityType
<1>6. Cardinality(0..MaxUsers) = MaxUsers + 1
  <2>1. 0 \in Int /\ MaxUsers \in Int
    BY <1>1
  <2>2. Cardinality(0..MaxUsers) = IF 0 > MaxUsers THEN 0 ELSE MaxUsers - 0 + 1
    BY <2>1, FS_Interval, Zenon
  <2> QED BY <1>1, <2>2
<1>7. ~(0..MaxUsers \subseteq used)
  <2> SUFFICES ASSUME 0..MaxUsers \in SUBSET used PROVE FALSE
    OBVIOUS
  <2>1. Cardinality(0..MaxUsers) <= Cardinality(used)
    BY <1>5, FS_Subset
  <2> QED BY <1>1, <1>3, <1>5, <1>6, <2>1
<1>8. PICK n \in 0..MaxUsers : n \notin used
  BY <1>7
<1>9. \A i \in DOMAIN m_time_sort_list : m_time_sort_list[i].node \in used
  BY DEF HeartInv, NodesInv, used, Range
<1>10. n \notin Range(m_data_map) /\ ~InList(n)
  BY <1>8, <1>9 DEF InList, used
<1>11. Fresh \in 0..MaxUsers /\ Fresh \notin Range(m_data_map) /\ ~InList(Fresh)
  BY <1>10, Zenon DEF Fresh
<1> HIDE DEF Fresh
<1>12. Fresh \in Nat
  BY <1>1, <1>11
<1> QED BY <1>11, <1>12 DEF Range, InList

(* The changes that the operations make.                                   *)
Others(s) == {i \in DOMAIN m_time_sort_list : m_time_sort_list[i].node # m_data_map[s]}

LEMMA NewNodeIs ==
  ASSUME HeartInv, NEW s \in Sockets
  PROVE  /\ NewNode(s) \in Node /\ NewNode(s).node = Fresh /\ NewNode(s).value = s
         /\ NewNode(s).timeout = new_tm[s]
<1>1. Fresh \in Nat /\ new_tm[s] \in Nat
  BY FreshIs DEF HeartInv, HeartTyped
<1> QED BY <1>1 DEF NewNode, Node

LEMMA AddIs ==
  ASSUME HeartInv, NEW s \in Sockets, add(s)
  PROVE  m_time_sort_list' \in Seq(Node) /\ Changed(DOMAIN m_time_sort_list, {NewNode(s)})
<1> DEFINE D == DOMAIN m_time_sort_list
           from == [k \in D |-> k]
<1>1. m_time_sort_list \in Seq(Node) /\ D \in SUBSET (Nat \ {0})
  BY LenProperties DEF HeartInv, HeartTyped
<1>2. from \in [D -> D] /\ \A k \in D : from[k] = k
  OBVIOUS
<1>3. m_time_sort_list' = PushedFront(m_time_sort_list, NewNode(s))
  BY DEF add
<1> HIDE DEF from
<1>4. /\ \A k, l \in D : k < l => from[k] < from[l]
      /\ \A k \in D : m_time_sort_list[k] = m_time_sort_list[from[k]]
      /\ \A i \in D : \E k \in D : from[k] = i
  BY <1>2
<1>5. NewNode(s) \in Node
  BY NewNodeIs
<1>6. /\ from \in [DOMAIN m_time_sort_list -> D]
      /\ \A k, l \in DOMAIN m_time_sort_list : k < l => from[k] < from[l]
      /\ \A k \in DOMAIN m_time_sort_list : m_time_sort_list[k] = m_time_sort_list[from[k]]
      /\ \A i \in D : \E k \in DOMAIN m_time_sort_list : from[k] = i
  BY <1>2, <1>4
<1> HIDE DEF D
<1>7. m_time_sort_list' \in Seq(Node) /\ Changed(D, {NewNode(s)})
  BY <1>1, <1>3, <1>5, <1>6, PushedIs
<1> QED BY <1>7 DEF D

LEMMA MappedNode ==
  ASSUME HeartInv, NEW s \in Sockets, stage[s] \in {"idle", "updating"}
  PROVE  s \in DOMAIN m_data_map /\ m_data_map[s] \in Nat
BY DEF HeartInv, HeartTyped

LEMMA OthersErased ==
  ASSUME HeartInv, NEW s \in DOMAIN m_data_map
  PROVE  LET list == Erased(m_time_sort_list, m_data_map[s])
         IN /\ list \in Seq(Node)
            /\ \E from \in [DOMAIN list -> Others(s)] :
                 /\ \A k, l \in DOMAIN list : k < l => from[k] < from[l]
                 /\ \A k \in DOMAIN list : list[k] = m_time_sort_list[from[k]]
                 /\ \A i \in Others(s) : \E k \in DOMAIN list : from[k] = i
<1>1. /\ m_time_sort_list \in Seq(Node) /\ m_data_map[s] \in Nat
      /\ \A i, j \in DOMAIN m_time_sort_list :
           m_time_sort_list[i].node = m_time_sort_list[j].node => i = j
  BY DEF HeartInv, HeartTyped, NodesInv
<1> QED BY <1>1, ErasedIs DEF Others

LEMMA UpdateIs ==
  ASSUME HeartInv, NEW s \in Sockets, update(s)
  PROVE  m_time_sort_list' \in Seq(Node) /\ Changed(Others(s), {NewNode(s)})
<1> DEFINE list == Erased(m_time_sort_list, m_data_map[s])
<1>1. s \in DOMAIN m_data_map
  BY MappedNode DEF update
<1>2. /\ list \in Seq(Node)
      /\ \E from \in [DOMAIN list -> Others(s)] :
           /\ \A k, l \in DOMAIN list : k < l => from[k] < from[l]
           /\ \A k \in DOMAIN list : list[k] = m_time_sort_list[from[k]]
           /\ \A i \in Others(s) : \E k \in DOMAIN list : from[k] = i
  BY <1>1, OthersErased
<1>3. m_time_sort_list' = PushedFront(list, NewNode(s))
  BY DEF update
<1> HIDE DEF list
<1>4. PICK from \in [DOMAIN list -> Others(s)] :
           /\ \A k, l \in DOMAIN list : k < l => from[k] < from[l]
           /\ \A k \in DOMAIN list : list[k] = m_time_sort_list[from[k]]
           /\ \A i \in Others(s) : \E k \in DOMAIN list : from[k] = i
  BY <1>2
<1>5. NewNode(s) \in Node
  BY NewNodeIs
<1>6. m_time_sort_list \in Seq(Node) /\ Others(s) \in SUBSET (Nat \ {0})
  BY LenProperties DEF HeartInv, HeartTyped, Others
<1>7. list \in Seq(Node)
  BY <1>2
<1> DEFINE S == Others(s)
<1>8. /\ from \in [DOMAIN list -> S] /\ S \in SUBSET (Nat \ {0})
      /\ \A k, l \in DOMAIN list : k < l => from[k] < from[l]
      /\ \A k \in DOMAIN list : list[k] = m_time_sort_list[from[k]]
      /\ \A i \in S : \E k \in DOMAIN list : from[k] = i
  BY <1>4, <1>6, Zenon
<1> HIDE DEF S
<1>9. m_time_sort_list' \in Seq(Node) /\ Changed(S, {NewNode(s)})
  BY <1>3, <1>5, <1>6, <1>7, <1>8, PushedIs
<1> QED BY <1>9 DEF S

LEMMA DelIs ==
  ASSUME HeartInv, NEW s \in Sockets, del(s)
  PROVE  m_time_sort_list' \in Seq(Node) /\ Changed(Others(s), {})
<1> DEFINE list == Erased(m_time_sort_list, m_data_map[s])
<1>1. s \in DOMAIN m_data_map
  BY MappedNode DEF del
<1>2. /\ list \in Seq(Node)
      /\ \E from \in [DOMAIN list -> Others(s)] :
           /\ \A k, l \in DOMAIN list : k < l => from[k] < from[l]
           /\ \A k \in DOMAIN list : list[k] = m_time_sort_list[from[k]]
           /\ \A i \in Others(s) : \E k \in DOMAIN list : from[k] = i
  BY <1>1, OthersErased
<1>3. m_time_sort_list' = list
  BY DEF del
<1> HIDE DEF list
<1>4. PICK from \in [DOMAIN list -> Others(s)] :
           /\ \A k, l \in DOMAIN list : k < l => from[k] < from[l]
           /\ \A k \in DOMAIN list : list[k] = m_time_sort_list[from[k]]
           /\ \A i \in Others(s) : \E k \in DOMAIN list : from[k] = i
  BY <1>2
<1>5. \A i \in Others(s) : i # 0
  BY LenProperties DEF HeartInv, HeartTyped, Others
<1>6. /\ from \in [DOMAIN list -> {0} \cup Others(s)]
      /\ \A k \in DOMAIN list : from[k] # 0
  BY <1>5
<1>7. Changed(Others(s), {})
  BY <1>3, <1>4, <1>6 DEF Changed
<1> QED BY <1>2, <1>3, <1>7

LEMMA CheckIs ==
  ASSUME HeartInv, handle_timer_check
  PROVE  /\ Kept \in 0..Len(m_time_sort_list)
         /\ \A i \in DOMAIN m_time_sort_list : i > Kept => Expired(m_time_sort_list[i])
         /\ Kept # 0 => ~Expired(m_time_sort_list[Kept])
         /\ m_time_sort_list' \in Seq(Node) /\ Changed(1..Kept, {})
<1> DEFINE n == Len(m_time_sort_list)
           alive == {0} \cup {i \in DOMAIN m_time_sort_list : ~Expired(m_time_sort_list[i])}
<1>1. m_time_sort_list \in Seq(Node) /\ n \in Nat /\ DOMAIN m_time_sort_list = 1..n
  BY LenProperties DEF HeartInv, HeartTyped
<1>2. alive \in SUBSET (0..n) /\ alive # {} /\ Kept = Max(alive)
  BY <1>1 DEF Kept
<1>3. Kept \in alive /\ \A i \in alive : i <= Kept
  <2> HIDE DEF alive, n
  <2> QED BY <1>1, <1>2, MaxExists
<1>4. Kept \in 0..n
  BY <1>2, <1>3
<1>5. \A i \in DOMAIN m_time_sort_list : i > Kept => Expired(m_time_sort_list[i])
  BY <1>1, <1>3, <1>4
<1>6. Kept # 0 => ~Expired(m_time_sort_list[Kept])
  BY <1>3
<1>7. m_time_sort_list' = SubSeq(m_time_sort_list, 1, Kept)
  BY DEF handle_timer_check
<1> QED BY <1>1, <1>4, <1>5, <1>6, <1>7, CutIs

-----------------------------------------------------------------------------
(* The types of the heartbeat.                                             *)
LEMMA TimeIs ==
  ASSUME TimersTyped
  PROVE  time \in Nat /\ time * Second <= clock /\ clock < (time + 1) * Second
BY GatewayAssumption, WholeSeconds DEF TimersTyped, time

LEMMA MappedIs ==
  ASSUME HeartTyped, NEW s, NEW n \in Nat, Mapped(s, n)
  PROVE  /\ DOMAIN m_data_map' = DOMAIN m_data_map \cup {s}
         /\ m_data_map' \in [DOMAIN m_data_map' -> Nat]
         /\ m_data_map'[s] = n
         /\ \A t \in DOMAIN m_data_map : t # s => m_data_map'[t] = m_data_map[t]
<1> DEFINE D == DOMAIN m_data_map
<1>1. m_data_map' = [k \in D \cup {s} |-> IF k = s THEN n ELSE m_data_map[k]]
  BY DEF Mapped
<1>2. \A k \in D : m_data_map[k] \in Nat
  BY DEF HeartTyped
<1> HIDE DEF D
<1>3. DOMAIN m_data_map' = D \cup {s}
  BY <1>1
<1>4. \A k \in D \cup {s} : (IF k = s THEN n ELSE m_data_map[k]) \in Nat
  BY <1>2
<1>5. m_data_map' \in [D \cup {s} -> Nat]
  BY <1>1, <1>4
<1> QED BY <1>1, <1>3, <1>5 DEF D

(* A socket that was opened stays so.                                      *)
LEMMA SameOpened ==
  ASSUME HeartTyped, NEW s \in Sockets, stage[s] # "new",
         NEW next \in Stages \ {"new"}, stage' = [stage EXCEPT ![s] = next]
  PROVE  stage' \in [Sockets -> Stages] /\ Opened' = Opened
<1>1. stage \in [Sockets -> Stages]
  BY DEF HeartTyped
<1>2. stage'[s] = next /\ \A t \in Sockets : t # s => stage'[t] = stage[t]
  BY <1>1
<1> QED BY <1>1, <1>2 DEF Opened

LEMMA OpensNext ==
  ASSUME HeartTyped, NEW s \in Sockets, handle_open(s)
  PROVE  /\ stage[s] = "new" /\ stage' \in [Sockets -> Stages]
         /\ Opened' = 1..Cardinality(Opened')
<1>1. IsFiniteSet(Opened) /\ Cardinality(Opened) \in Nat
  <2>1. 1 \in Int /\ MaxUsers \in Int
    BY GatewayAssumption
  <2>2. IsFiniteSet(Sockets)
    BY <2>1, FS_Interval DEF Sockets
  <2> QED BY <2>2, FS_Subset, FS_CardinalityType DEF Opened
<1>2. s = Cardinality(Opened) + 1 /\ Opened = 1..Cardinality(Opened)
  BY DEF handle_open, HeartTyped
<1>3. s \notin Opened
  BY <1>1, <1>2
<1>4. stage[s] = "new"
  BY <1>3 DEF Opened
<1>5. stage' = [stage EXCEPT ![s] = "adding"] /\ stage \in [Sockets -> Stages]
  BY DEF handle_open, Computes, HeartTyped
<1>6. Opened' = Opened \cup {s}
  <2>1. stage'[s] = "adding" /\ \A t \in Sockets : t # s => stage'[t] = stage[t]
    BY <1>5
  <2> QED BY <2>1 DEF Opened
<1>7. Cardinality(Opened') = Cardinality(Opened) + 1
  BY <1>1, <1>3, <1>6, FS_AddElement
<1>8. Opened' = 1..(Cardinality(Opened) + 1)
  BY <1>1, <1>2, <1>6
<1>9. stage' \in [Sockets -> Stages]
  BY <1>5 DEF Stages
<1> QED BY <1>4, <1>7, <1>8, <1>9

LEMMA NextHeartTyped ==
  ASSUME TimersTyped, HeartInv, [Next]_vars
  PROVE  HeartTyped'
<1> USE DEF HeartInv
<1>1. time \in Nat /\ time + Timeout \in Nat
  BY TimeIs, GatewayAssumption
<1>2. ASSUME NEW s \in Sockets, handle_open(s) PROVE HeartTyped'
  <2>1. stage[s] = "new" /\ stage' \in [Sockets -> Stages] /\ Opened' = 1..Cardinality(Opened')
    BY <1>2, OpensNext
  <2>2. /\ stage' = [stage EXCEPT ![s] = "adding"]
        /\ new_tm' = [new_tm EXCEPT ![s] = time + Timeout]
        /\ m_last_update_tm' = [m_last_update_tm EXCEPT ![s] = m_cur_tick]
        /\ lastRead' = [lastRead EXCEPT ![s] = time]
        /\ UNCHANGED heartbeat
    BY <1>2 DEF handle_open, Computes
  <2>3. {t \in Sockets : stage'[t] \in {"idle", "updating"}}
          = {t \in Sockets : stage[t] \in {"idle", "updating"}}
    BY <2>1, <2>2 DEF HeartTyped
  <2> QED BY <1>1, <2>1, <2>2, <2>3 DEF HeartTyped, heartbeat
<1>3. ASSUME NEW s \in Sockets, handle_read(s) PROVE HeartTyped'
  <2>1. /\ stage[s] = "idle"
        /\ lastRead' = [lastRead EXCEPT ![s] = time]
        /\ m_last_update_tm' = [m_last_update_tm EXCEPT ![s] = m_cur_tick]
        /\ UNCHANGED heartbeat
    BY <1>3 DEF handle_read
  <2>2. /\ lastRead' \in [Sockets -> Nat] /\ m_last_update_tm' \in [Sockets -> Nat]
    BY <1>1, <2>1 DEF HeartTyped
  <2>3. CASE UNCHANGED <<stage, new_tm>>
    <3>1. Opened' = Opened
      BY <2>3 DEF Opened
    <3> QED BY <2>1, <2>2, <2>3, <3>1 DEF HeartTyped, heartbeat
  <2>4. CASE Computes(s, "updating")
    <3>1. /\ stage' = [stage EXCEPT ![s] = "updating"]
          /\ new_tm' = [new_tm EXCEPT ![s] = time + Timeout]
      BY <2>4 DEF Computes
    <3>2. stage' \in [Sockets -> Stages] /\ Opened' = Opened
      BY <2>1, <3>1, SameOpened DEF Stages
    <3>3. {t \in Sockets : stage'[t] \in {"idle", "updating"}}
            = {t \in Sockets : stage[t] \in {"idle", "updating"}}
      BY <2>1, <3>1 DEF HeartTyped
    <3>4. new_tm' \in [Sockets -> Nat]
      BY <1>1, <3>1 DEF HeartTyped
    <3> QED BY <2>1, <2>2, <3>2, <3>3, <3>4 DEF HeartTyped, heartbeat
  <2> QED BY <1>3, <2>3, <2>4 DEF handle_read
<1>4. ASSUME NEW s \in Sockets, add(s) \/ update(s) PROVE HeartTyped'
  <2>1. /\ stage[s] \in {"adding", "updating"} /\ stage' = [stage EXCEPT ![s] = "idle"]
        /\ new_tm' = [new_tm EXCEPT ![s] = 0]
        /\ UNCHANGED <<m_cur_tick, m_last_update_tm, lastRead>>
        /\ Mapped(s, Fresh)
    BY <1>4 DEF add, update, Goes, TakesNode
  <2>2. stage' \in [Sockets -> Stages] /\ Opened' = Opened
    BY <2>1, SameOpened DEF Stages
  <2>3. {t \in Sockets : stage'[t] \in {"idle", "updating"}}
          = {t \in Sockets : stage[t] \in {"idle", "updating"}} \cup {s}
    BY <2>1 DEF HeartTyped
  <2>4. /\ DOMAIN m_data_map' = DOMAIN m_data_map \cup {s}
        /\ m_data_map' \in [DOMAIN m_data_map' -> Nat]
    BY <2>1, FreshIs, MappedIs
  <2>5. m_time_sort_list' \in Seq(Node)
    BY <1>4, AddIs, UpdateIs
  <2>6. new_tm' \in [Sockets -> Nat]
    BY <2>1 DEF HeartTyped
  <2> QED BY <2>1, <2>2, <2>3, <2>4, <2>5, <2>6 DEF HeartTyped
<1>5. ASSUME NEW s \in Sockets, del(s) PROVE HeartTyped'
  <2>1. /\ stage[s] = "idle" /\ stage' = [stage EXCEPT ![s] = "broken"]
        /\ new_tm' = [new_tm EXCEPT ![s] = 0]
        /\ UNCHANGED <<m_cur_tick, m_last_update_tm, lastRead>>
        /\ m_data_map' = [k \in DOMAIN m_data_map \ {s} |-> m_data_map[k]]
    BY <1>5 DEF del, Goes
  <2>2. stage' \in [Sockets -> Stages] /\ Opened' = Opened
    BY <2>1, SameOpened DEF Stages
  <2>3. {t \in Sockets : stage'[t] \in {"idle", "updating"}}
          = {t \in Sockets : stage[t] \in {"idle", "updating"}} \ {s}
    BY <2>1 DEF HeartTyped
  <2>4. /\ DOMAIN m_data_map' = DOMAIN m_data_map \ {s}
        /\ m_data_map' \in [DOMAIN m_data_map' -> Nat]
    BY <2>1 DEF HeartTyped
  <2>5. m_time_sort_list' \in Seq(Node)
    BY <1>5, DelIs
  <2>6. new_tm' \in [Sockets -> Nat]
    BY <2>1 DEF HeartTyped
  <2> QED BY <2>1, <2>2, <2>3, <2>4, <2>5, <2>6 DEF HeartTyped
<1>6. CASE reads_time
  <2>1. m_cur_tick' \in Nat
    BY <1>1, <1>6 DEF reads_time, HeartTyped
  <2>2. UNCHANGED <<m_data_map, m_time_sort_list, stage, new_tm, m_last_update_tm, lastRead>>
    BY <1>6 DEF reads_time, Timer, sockets
  <2>3. Opened' = Opened
    BY <2>2 DEF Opened
  <2> QED BY <2>1, <2>2, <2>3 DEF HeartTyped
<1>7. CASE handle_timer_check
  <2>1. UNCHANGED <<m_cur_tick, m_data_map, stage, new_tm, m_last_update_tm, lastRead>>
    BY <1>7 DEF handle_timer_check
  <2>2. m_time_sort_list' \in Seq(Node)
    BY <1>7, CheckIs
  <2>3. Opened' = Opened
    BY <2>1 DEF Opened
  <2> QED BY <2>1, <2>2, <2>3 DEF HeartTyped
<1>8. CASE \/ \E s \in Sockets : peer_breaks(s)
           \/ OtherThread /\ NotTimers
           \/ set_timer \/ stop \/ tick \/ UNCHANGED vars
  <2>1. /\ UNCHANGED <<m_cur_tick, m_data_map, m_time_sort_list>>
        /\ UNCHANGED <<stage, new_tm, m_last_update_tm, lastRead>>
    BY <1>8 DEF peer_breaks, NotTimers, set_timer, stop, tick, vars, heartbeat, sockets
  <2>2. Opened' = Opened
    BY <2>1 DEF Opened
  <2> QED BY <2>1, <2>2 DEF HeartTyped
<1> QED BY <1>2, <1>3, <1>4, <1>5, <1>6, <1>7, <1>8 DEF Next, Controls, TimerThread

-----------------------------------------------------------------------------
(* A node for each socket that is not silent, and one at most.             *)
LEMMA PushedNodes ==
  ASSUME HeartInv, HeartTyped', NEW s \in Sockets, Mapped(s, Fresh), UNCHANGED timedOut,
         NEW S \in SUBSET DOMAIN m_time_sort_list, Changed(S, {NewNode(s)}),
         \A i \in S : m_time_sort_list[i].value # s,
         \A i \in DOMAIN m_time_sort_list : m_time_sort_list[i].value # s => i \in S
  PROVE  NodesInv'
<1> DEFINE old == m_time_sort_list
           new == m_time_sort_list'
           D == DOMAIN new
<1>1. PICK from \in [D -> {0} \cup S] :
        /\ \A k, l \in D : k < l => from[k] < from[l]
        /\ \A k \in D : IF from[k] = 0 THEN new[k] \in {NewNode(s)} ELSE new[k] = old[from[k]]
        /\ \A i \in S : \E k \in D : from[k] = i
        /\ \E k \in D : from[k] = 0
  BY Zenon DEF Changed
<1>2. /\ DOMAIN m_data_map' = DOMAIN m_data_map \cup {s} /\ m_data_map'[s] = Fresh
      /\ \A t \in DOMAIN m_data_map : t # s => m_data_map'[t] = m_data_map[t]
  BY FreshIs, MappedIs DEF HeartInv
<1>3. NewNode(s).node = Fresh /\ NewNode(s).value = s
  BY NewNodeIs
<1>4. /\ \A i \in DOMAIN old : old[i].node # Fresh
      /\ \A t \in DOMAIN m_data_map : m_data_map[t] # Fresh
  BY FreshIs
<1>5. \A k \in D : \/ from[k] = 0 /\ new[k].node = Fresh /\ new[k].value = s
                   \/ /\ from[k] \in S /\ new[k] = old[from[k]] /\ new[k].node # Fresh
                      /\ new[k].value # s
  <2> TAKE k \in D
  <2>1. CASE from[k] = 0
    BY <1>1, <1>3, <2>1
  <2>2. CASE from[k] # 0
    <3>1. from[k] \in S /\ new[k] = old[from[k]]
      BY <1>1, <2>2
    <3> QED BY <1>4, <3>1
  <2> QED BY <2>1, <2>2
<1>6. \A k, l \in D : k < l \/ l < k \/ k = l
  BY LenProperties DEF HeartTyped
<1>7. \A k \in D : from[k] \in Nat
  <2>1. \A i \in S : i \in Nat
    BY LenProperties DEF HeartInv, HeartTyped
  <2> QED BY <1>1, <2>1
<1>8. \A k, l \in D : from[k] = from[l] => k = l
  BY <1>1, <1>6, <1>7
<1> HIDE DEF new, D
<1>9. \A k \in D : new[k].value \in DOMAIN m_data_map' /\ m_data_map'[new[k].value] = new[k].node
  <2> TAKE k \in D
  <2>1. CASE new[k].node = Fresh /\ new[k].value = s
    BY <1>2, <2>1
  <2>2. CASE from[k] \in S /\ new[k] = old[from[k]] /\ new[k].value # s
    <3>1. /\ old[from[k]].value \in DOMAIN m_data_map
          /\ m_data_map[old[from[k]].value] = old[from[k]].node
      BY <2>2 DEF HeartInv, NodesInv
    <3> QED BY <1>2, <2>2, <3>1
  <2> QED BY <1>5, <2>1, <2>2
<1>10. \A k, l \in D : new[k].node = new[l].node => k = l
  <2> TAKE k, l \in D
  <2> HAVE new[k].node = new[l].node
  <2>1. CASE from[k] = 0 /\ from[l] = 0
    BY <1>8, <2>1
  <2>2. CASE from[k] \in S /\ from[l] \in S /\ new[k] = old[from[k]] /\ new[l] = old[from[l]]
    <3>1. from[k] = from[l]
      BY <2>2 DEF HeartInv, NodesInv
    <3> QED BY <1>8, <3>1
  <2> QED BY <1>5, <2>1, <2>2
<1>11. \A t, u \in DOMAIN m_data_map' : m_data_map'[t] = m_data_map'[u] => t = u
  BY <1>2, <1>4 DEF HeartInv, NodesInv
<1>12. ASSUME NEW t \in DOMAIN m_data_map' \ timedOut'
       PROVE  \E k \in D : new[k].node = m_data_map'[t]
  <2>1. CASE t = s
    <3>1. PICK k \in D : from[k] = 0
      BY <1>1 DEF D
    <3>2. 0 \notin S
      BY LenProperties, SMTT(30) DEF HeartInv, HeartTyped
    <3> QED BY <1>2, <1>5, <2>1, <3>1, <3>2
  <2>2. CASE t # s
    <3>1. PICK i \in DOMAIN old : old[i].node = m_data_map[t]
      BY <1>2, <2>2 DEF HeartInv, NodesInv
    <3>2. old[i].value \in DOMAIN m_data_map /\ m_data_map[old[i].value] = old[i].node
      BY DEF HeartInv, NodesInv
    <3>3. old[i].value = t
      BY <1>2, <2>2, <3>1, <3>2 DEF HeartInv, NodesInv
    <3>4. i \in S
      BY <2>2, <3>3
    <3>5. PICK k \in D : from[k] = i
      BY <1>1, <3>4 DEF D
    <3>6. i # 0
      BY <3>4, LenProperties, SMTT(30) DEF HeartInv, HeartTyped
    <3>7. new[k] = old[i]
      BY <1>5, <3>5, <3>6
    <3> QED BY <1>2, <2>2, <3>1, <3>7
  <2> QED BY <2>1, <2>2
<1> QED BY <1>9, <1>10, <1>11, <1>12 DEF NodesInv, new, D

LEMMA CutNodes ==
  ASSUME HeartInv, HeartTyped', NEW S \in SUBSET DOMAIN m_time_sort_list, Changed(S, {}),
         DOMAIN m_data_map' \subseteq DOMAIN m_data_map,
         \A t \in DOMAIN m_data_map' : m_data_map'[t] = m_data_map[t],
         timedOut \subseteq timedOut',
         \A i \in S : m_time_sort_list[i].value \in DOMAIN m_data_map',
         \A i \in DOMAIN m_time_sort_list \ S :
           m_time_sort_list[i].value \in timedOut' \/ m_time_sort_list[i].value \notin DOMAIN m_data_map'
  PROVE  NodesInv'
<1> DEFINE old == m_time_sort_list
           new == m_time_sort_list'
           D == DOMAIN new
<1>1. PICK from \in [D -> {0} \cup S] :
        /\ \A k, l \in D : k < l => from[k] < from[l]
        /\ \A k \in D : IF from[k] = 0 THEN new[k] \in {} ELSE new[k] = old[from[k]]
        /\ \A i \in S : \E k \in D : from[k] = i
  BY Zenon DEF Changed
<1>2. \A k \in D : from[k] \in S /\ new[k] = old[from[k]]
  BY <1>1
<1>3. \A k, l \in D : k < l \/ l < k \/ k = l
  BY LenProperties DEF HeartTyped
<1>4. \A i \in S : i \in Nat
  BY LenProperties DEF HeartInv, HeartTyped
<1>5. \A k, l \in D : from[k] = from[l] => k = l
  BY <1>1, <1>2, <1>3, <1>4
<1> HIDE DEF new, D
<1>6. \A k \in D : new[k].value \in DOMAIN m_data_map' /\ m_data_map'[new[k].value] = new[k].node
  BY <1>2 DEF HeartInv, NodesInv
<1>7. \A k, l \in D : new[k].node = new[l].node => k = l
  BY <1>2, <1>5 DEF HeartInv, NodesInv
<1>8. \A t, u \in DOMAIN m_data_map' : m_data_map'[t] = m_data_map'[u] => t = u
  BY DEF HeartInv, NodesInv
<1>9. ASSUME NEW t \in DOMAIN m_data_map' \ timedOut'
      PROVE  \E k \in D : new[k].node = m_data_map'[t]
  <2>1. PICK i \in DOMAIN old : old[i].node = m_data_map[t]
    BY DEF HeartInv, NodesInv
  <2>2. old[i].value \in DOMAIN m_data_map /\ m_data_map[old[i].value] = old[i].node
    BY DEF HeartInv, NodesInv
  <2>3. old[i].value = t
    BY <2>1, <2>2 DEF HeartInv, NodesInv
  <2>4. i \in S
    BY <2>3
  <2>5. PICK k \in D : from[k] = i
    BY <1>1, <2>4 DEF D
  <2> QED BY <1>2, <2>1, <2>5
<1> QED BY <1>6, <1>7, <1>8, <1>9 DEF NodesInv, new, D

(* Which nodes the operations leave.                                       *)
LEMMA OthersAre ==
  ASSUME HeartInv, NEW s \in DOMAIN m_data_map
  PROVE  /\ Others(s) \in SUBSET DOMAIN m_time_sort_list
         /\ \A i \in DOMAIN m_time_sort_list : i \in Others(s) <=> m_time_sort_list[i].value # s
<1>1. Others(s) \in SUBSET DOMAIN m_time_sort_list
  BY DEF Others
<1>2. ASSUME NEW i \in DOMAIN m_time_sort_list
      PROVE  i \in Others(s) <=> m_time_sort_list[i].value # s
  <2>1. /\ m_time_sort_list[i].value \in DOMAIN m_data_map
        /\ m_data_map[m_time_sort_list[i].value] = m_time_sort_list[i].node
        /\ \A t, u \in DOMAIN m_data_map : m_data_map[t] = m_data_map[u] => t = u
    BY DEF HeartInv, NodesInv
  <2>2. i \in Others(s) <=> m_time_sort_list[i].node # m_data_map[s]
    BY DEF Others
  <2> QED BY <2>1, <2>2
<1> QED BY <1>1, <1>2

LEMMA NextNodes ==
  ASSUME TimersTyped, HeartInv, [Next]_vars
  PROVE  NodesInv'
<1>1. HeartTyped'
  BY NextHeartTyped
<1>2. ASSUME NEW s \in Sockets, add(s) PROVE NodesInv'
  <2>1. Mapped(s, Fresh) /\ UNCHANGED timedOut /\ s \notin DOMAIN m_data_map
    BY <1>2 DEF add, Goes, history, HeartInv, HeartTyped
  <2>2. \A i \in DOMAIN m_time_sort_list : m_time_sort_list[i].value # s
    BY <2>1 DEF HeartInv, NodesInv
  <2>3. Changed(DOMAIN m_time_sort_list, {NewNode(s)})
    BY <1>2, AddIs
  <2> QED BY <1>1, <2>1, <2>2, <2>3, PushedNodes
<1>3. ASSUME NEW s \in Sockets, update(s) PROVE NodesInv'
  <2>1. Mapped(s, Fresh) /\ UNCHANGED timedOut /\ s \in DOMAIN m_data_map
    BY <1>3 DEF update, TakesNode, Goes, history, HeartInv, HeartTyped
  <2>2. Changed(Others(s), {NewNode(s)})
    BY <1>3, UpdateIs
  <2> QED BY <1>1, <2>1, <2>2, OthersAre, PushedNodes
<1>4. ASSUME NEW s \in Sockets, del(s) PROVE NodesInv'
  <2>1. /\ m_data_map' = [k \in DOMAIN m_data_map \ {s} |-> m_data_map[k]]
        /\ UNCHANGED timedOut /\ s \in DOMAIN m_data_map
    BY <1>4 DEF del, Goes, history, HeartInv, HeartTyped
  <2>2. Changed(Others(s), {})
    BY <1>4, DelIs
  <2>3. DOMAIN m_data_map' = DOMAIN m_data_map \ {s}
    BY <2>1
  <2>4. \A t \in DOMAIN m_data_map' : m_data_map'[t] = m_data_map[t]
    BY <2>1
  <2>5. \A i \in Others(s) : m_time_sort_list[i].value \in DOMAIN m_data_map'
    BY <2>1, <2>3, OthersAre DEF HeartInv, NodesInv
  <2>6. \A i \in DOMAIN m_time_sort_list \ Others(s) : m_time_sort_list[i].value \notin DOMAIN m_data_map'
    BY <2>1, <2>3, OthersAre
  <2> QED BY <1>1, <2>1, <2>2, <2>3, <2>4, <2>5, <2>6, OthersAre, CutNodes
<1>5. CASE handle_timer_check
  <2> DEFINE n == Len(m_time_sort_list)
             values == {m_time_sort_list[i].value : i \in Popped}
  <2>1. n \in Nat /\ DOMAIN m_time_sort_list = 1..n
    BY LenProperties DEF HeartInv, HeartTyped
  <2>2. Kept \in 0..n /\ Changed(1..Kept, {})
    BY <1>5, CheckIs
  <2>3. UNCHANGED m_data_map /\ timedOut' = timedOut \cup values
    BY <1>5 DEF handle_timer_check
  <2> HIDE DEF n
  <2>4. 1..Kept \in SUBSET DOMAIN m_time_sort_list
    BY <2>1, <2>2
  <2>5. \A i \in DOMAIN m_time_sort_list \ 1..Kept : i \in Popped
    BY <2>1, <2>2 DEF Popped
  <2>6. \A i \in DOMAIN m_time_sort_list \ 1..Kept : m_time_sort_list[i].value \in timedOut'
    BY <2>3, <2>5
  <2>7. \A i \in 1..Kept : m_time_sort_list[i].value \in DOMAIN m_data_map'
    BY <2>3, <2>4 DEF HeartInv, NodesInv
  <2> QED BY <1>1, <2>2, <2>3, <2>4, <2>6, <2>7, CutNodes
<1>6. CASE UNCHANGED <<m_data_map, m_time_sort_list, timedOut>>
  BY <1>6 DEF HeartInv, NodesInv
<1>7. CASE \/ \E s \in Sockets : handle_open(s) \/ handle_read(s) \/ peer_breaks(s)
           \/ OtherThread /\ NotTimers
           \/ reads_time \/ set_timer \/ stop \/ tick \/ UNCHANGED vars
  BY <1>6, <1>7
     DEF handle_open, handle_read, peer_breaks, Controller, NotTimers, reads_time, set_timer, stop,
         tick, vars, heartbeat, history
<1> QED BY <1>2, <1>3, <1>4, <1>5, <1>7 DEF Next, Controls, TimerThread

LEMMA InitHeart == Init => HeartInv
<1> SUFFICES ASSUME Init PROVE HeartInv
  OBVIOUS
<1>1. /\ m_cur_tick = 0 /\ m_data_map = [s \in {} |-> 0] /\ m_time_sort_list = <<>>
      /\ stage = [s \in Sockets |-> "new"] /\ new_tm = [s \in Sockets |-> 0]
      /\ m_last_update_tm = [s \in Sockets |-> 0] /\ lastRead = [s \in Sockets |-> 0]
  BY DEF Init
<1>2. DOMAIN m_data_map = {} /\ m_data_map \in [{} -> Nat]
  BY <1>1
<1>3. Opened = {}
  BY <1>1 DEF Opened
<1>4. Opened = 1..Cardinality(Opened)
  <2>1. Cardinality({}) = 0
    BY FS_EmptySet
  <2>2. 1..0 = {}
    OBVIOUS
  <2> QED BY <1>3, <2>1, <2>2
<1>5. m_time_sort_list \in Seq(Node) /\ DOMAIN m_time_sort_list = {}
  BY <1>1, EmptySeq
<1>6. {s \in Sockets : stage[s] \in {"idle", "updating"}} = {}
  BY <1>1
<1>7. HeartTyped
  BY <1>1, <1>2, <1>4, <1>5, <1>6 DEF HeartTyped, Stages
<1>8. NodesInv
  BY <1>2, <1>5 DEF NodesInv
<1> QED BY <1>7, <1>8 DEF HeartInv

LEMMA HeartHold == Spec => [](TimersInv /\ HeartInv)
<1>1. TimersInv /\ HeartInv /\ [Next]_vars => HeartInv'
  BY NextHeartTyped, NextNodes DEF TimersInv, HeartInv
<1> QED BY InitHeart, TimersHold, <1>1, PTL DEF Spec

(* The heartbeat has one node for a socket that it has not closed, and the *)
(* map leads to it; none for one that is gone, whatever sockets are read,  *)
(* broken and found silent meanwhile.                                      *)
THEOREM NodesMatchSockets == Spec => []OneNodePerSocket
<1>1. HeartInv => OneNodePerSocket
  <2> SUFFICES ASSUME HeartInv, NEW s \in Sockets \ timedOut
               PROVE  {n.node : n \in NodesOf(s)}
                        = IF s \in DOMAIN m_data_map THEN {m_data_map[s]} ELSE {}
    BY DEF OneNodePerSocket
  <2>1. \A n : n \in NodesOf(s) <=> /\ n.value = s
                                    /\ \E i \in DOMAIN m_time_sort_list : n = m_time_sort_list[i]
    BY DEF NodesOf, Range
  <2>2. \A n \in NodesOf(s) : s \in DOMAIN m_data_map /\ m_data_map[s] = n.node
    BY <2>1 DEF HeartInv, NodesInv
  <2>3. CASE s \notin DOMAIN m_data_map
    BY <2>2, <2>3
  <2>4. CASE s \in DOMAIN m_data_map
    <3>1. PICK i \in DOMAIN m_time_sort_list : m_time_sort_list[i].node = m_data_map[s]
      BY <2>4 DEF HeartInv, NodesInv
    <3>2. m_time_sort_list[i].value = s
      BY <2>4, <3>1 DEF HeartInv, NodesInv
    <3>3. m_time_sort_list[i] \in NodesOf(s)
      BY <2>1, <3>2
    <3> QED BY <2>2, <2>4, <3>1, <3>3
  <2> QED BY <2>3, <2>4
<1> QED BY <1>1, HeartHold, PTL

-----------------------------------------------------------------------------
(* Seconds.  The first tick after the second q.                            *)
End(q) == (q + 1) * Second

LEMMA EndIs ==
  ASSUME NEW q \in Int
  PROVE  /\ End(q) \in Int
         /\ \A r \in Int : q <= r => End(q) <= End(r)
         /\ \A r \in Int : q < r => End(q) < End(r)
<1>1. Second \in Nat /\ Second >= 1
  BY GatewayAssumption
<1>2. End(q) \in Int
  BY <1>1 DEF End
<1>3. ASSUME NEW r \in Int, q <= r PROVE End(q) <= End(r)
  <2>1. q + 1 <= r + 1 /\ q + 1 \in Int /\ r + 1 \in Int
    BY <1>3
  <2> QED BY <1>1, <2>1, Monotone DEF End
<1>4. ASSUME NEW r \in Int, q < r PROVE End(q) < End(r)
  <2>1. q + 1 <= r
    BY <1>4
  <2>2. End(q + 1) <= End(r)
    <3>1. q + 1 + 1 <= r + 1 /\ q + 1 + 1 \in Int /\ r + 1 \in Int
      BY <2>1
    <3> QED BY <1>1, <3>1, Monotone DEF End
  <2>3. End(q + 1) = End(q) + Second
    BY <1>1 DEF End
  <2>4. End(r) \in Int
    BY <1>1 DEF End
  <2> QED BY <1>1, <1>2, <2>2, <2>3, <2>4
<1> QED BY <1>2, <1>3, <1>4

LEMMA TimeEnds ==
  ASSUME TimersTyped
  PROVE  /\ time \in Nat /\ clock < End(time)
         /\ \A q \in Int : clock < End(q) => time <= q
<1>1. Second \in Nat \ {0} /\ clock \in Nat
  BY GatewayAssumption DEF TimersTyped
<1>2. ASSUME NEW q \in Int, clock < End(q) PROVE time <= q
  BY <1>1, <1>2, SecondsBound DEF End, time
<1> QED BY <1>2, TimeIs DEF End

LEMMA TimeNext ==
  ASSUME TimersTyped, [Next]_vars
  PROVE  /\ TimersTyped' /\ time' \in Nat /\ time <= time' /\ clock <= clock'
         /\ clock' < End(time')
         /\ \A q \in Int : clock' < End(q) => time' <= q
         /\ ~tick => clock' = clock /\ time' = time
<1>1. ServiceStep /\ TimersTyped'
  BY StepOfService, NextTimersTyped
<1>2. clock \in Nat /\ clock' \in Nat
  BY <1>1 DEF TimersTyped
<1>3. time' \in Nat /\ clock' < End(time') /\ \A q \in Int : clock' < End(q) => time' <= q
  <2>1. clock' \in Nat /\ Second \in Nat \ {0}
    BY <1>2, GatewayAssumption
  <2>2. time' \in Nat /\ clock' < End(time')
    BY <2>1, WholeSeconds DEF time, End
  <2>3. ASSUME NEW q \in Int, clock' < End(q) PROVE time' <= q
    BY <2>1, <2>3, SecondsBound DEF End, time
  <2> QED BY <2>2, <2>3
<1>4. clock <= clock'
  BY <1>1, <1>2 DEF ServiceStep, passes
<1>5. time <= time'
  <2>1. clock < End(time') /\ time' \in Int
    BY <1>2, <1>3, <1>4, EndIs
  <2> QED BY <2>1, TimeEnds
<1>6. ASSUME ~tick PROVE clock' = clock
  BY <1>6 DEF Next, Controls, TimerThread, OtherThread, handle_open, handle_read, peer_breaks, add,
              update, del, Controller, Goes, reads_time, Timer, handle_timer_check, NotTimers,
              set_timer, stop, vars
<1>7. ASSUME ~tick PROVE time' = time
  BY <1>6, <1>7 DEF time
<1> QED BY <1>1, <1>3, <1>4, <1>5, <1>6, <1>7

-----------------------------------------------------------------------------
(* The next check.                                                         *)
Pending(d) == \/ \E k \in DOMAIN Waiting : Waiting[k].what = "check" /\ Waiting[k].dest_tm = d
              \/ calling = "check" /\ m_registered_store[it].dest_tm = d

LEMMA PendingIsDue ==
  ASSUME TimersTyped, NEW d \in Nat, Pending(d), d <= clock
  PROVE  Due(m_registered_store) \/ Due(m_tmp_register_list)
<1> DEFINE n == Len(m_registered_store)
           m == Len(m_tmp_register_list)
<1>1. /\ Listed /\ DOMAIN m_registered_store = 1..n /\ DOMAIN m_tmp_register_list = 1..m
      /\ n \in Nat /\ m \in Nat
  BY WaitingIs, LenProperties DEF TimersTyped
<1>2. ASSUME NEW k \in DOMAIN Waiting, Waiting[k].dest_tm = d
      PROVE  Due(m_registered_store) \/ Due(m_tmp_register_list)
  <2>1. /\ Run \in Nat /\ Run <= n /\ k \in 1..(n - Run + m)
        /\ \A j \in 1..(n - Run) : Waiting[j] = m_registered_store[Run + j]
        /\ \A j \in 1..m : Waiting[n - Run + j] = m_tmp_register_list[j]
    BY <1>1 DEF Listed
  <2> HIDE DEF n, m
  <2>2. CASE k <= n - Run
    <3>1. Run + k \in 1..n /\ k \in 1..(n - Run)
      BY <1>1, <2>1, <2>2
    <3>2. m_registered_store[Run + k].dest_tm = d
      BY <1>2, <2>1, <3>1
    <3> QED BY <1>1, <3>1, <3>2 DEF Due
  <2>3. CASE k > n - Run
    <3> DEFINE j == k - (n - Run)
    <3>1. j \in 1..m /\ n - Run + j = k
      BY <1>1, <2>1, <2>3
    <3> HIDE DEF j
    <3>2. m_tmp_register_list[j].dest_tm = d
      BY <1>2, <2>1, <3>1
    <3> QED BY <1>1, <3>1, <3>2 DEF Due
  <2> QED BY <1>1, <2>1, <2>2, <2>3
<1>3. CASE calling = "check" /\ m_registered_store[it].dest_tm = d
  <2>1. it \in DOMAIN m_registered_store
    BY <1>1, <1>3 DEF TimersTyped
  <2> QED BY <1>3, <2>1 DEF Due
<1> QED BY <1>2, <1>3 DEF Pending

(* A check that returns has set the next.                                  *)
LEMMA CheckSets ==
  ASSUME TimersTyped, ServiceStep, check_returns
  PROVE  \E e \in Nat : e = clock + Period /\ Pending(e)'
<1> DEFINE n == Len(Waiting)
<1>1. Adds
  <2>1. ~callback
    BY CallbackIs DEF check_returns
  <2> QED BY <2>1, StepOfWaiting
<1>2. n \in Nat /\ DOMAIN (Waiting') = 1..Len(Waiting')
  BY NextTimersTyped, WaitingIs, WaitingNext DEF Listed
<1> HIDE DEF n
<1>3. /\ Waiting'[n + 1].what = "check" /\ Waiting'[n + 1].timeout = Period
      /\ Waiting'[n + 1].dest_tm = clock + Waiting'[n + 1].timeout
      /\ Len(Waiting') = n + 1
  BY <1>1 DEF Adds, n
<1>4. n + 1 \in DOMAIN (Waiting')
  BY <1>2, <1>3
<1>5. PICK e \in Nat : e = clock + Period /\ Waiting'[n + 1].dest_tm = e
  BY <1>3, GatewayAssumption DEF TimersTyped
<1>6. Pending(e)'
  BY <1>3, <1>4, <1>5 DEF Pending
<1> QED BY <1>5, <1>6

(* One that is to come stays until it returns.                             *)
LEMMA PendingNext ==
  ASSUME TimersTyped, ServiceStep, NEW d \in Nat, Pending(d)
  PROVE  Pending(d)' \/ check_returns
<1>1. TimersTyped' /\ Listed /\ Listed'
  BY NextTimersTyped, WaitingIs, WaitingNext
<1> DEFINE n == Len(Waiting)
<1>2. n \in Nat /\ DOMAIN Waiting = 1..n /\ DOMAIN (Waiting') = 1..Len(Waiting')
  BY <1>1 DEF Listed
<1> HIDE DEF n
<1>3. CASE callback /\ Begins
  <2>1. /\ calling = "nothing" /\ calling' = m_registered_store[it].what
        /\ Run + 1 = it /\ it' = it /\ m_registered_store' = m_registered_store
    <3>1. calling = "nothing" /\ calling' = m_registered_store[it].what
      BY <1>3, CallbackIs
    <3>2. Run = it - 1 /\ it \in Nat
      BY <3>1 DEF Run, TimersTyped
    <3> QED BY <1>3, <3>1, <3>2 DEF callback
  <2>2. PICK k \in 1..n : Waiting[k].what = "check" /\ Waiting[k].dest_tm = d
    BY <1>2, <2>1 DEF Pending
  <2>3. CASE k = 1
    <3>1. m_registered_store[it] = Waiting[1]
      BY <1>3, <2>1 DEF Begins
    <3> QED BY <2>1, <2>2, <2>3, <3>1 DEF Pending
  <2>4. CASE k # 1
    <3> DEFINE j == k - 1
    <3>1. j \in 1..(n - 1) /\ j + 1 = k
      BY <1>2, <2>4
    <3> HIDE DEF j
    <3>2. Len(Waiting') = n - 1 /\ Waiting'[j] = Waiting[j + 1]
      BY <1>3, <3>1 DEF Begins, n
    <3> QED BY <1>2, <2>2, <3>1, <3>2 DEF Pending
  <2> QED BY <2>3, <2>4
<1>4. CASE (Adds \/ Reorders) /\ ~callback /\ ~check_returns
  <2>1. CASE calling = "check" /\ m_registered_store[it].dest_tm = d
    <3>1. thread = "processing"
      BY <2>1 DEF TimersTyped
    <3>2. UNCHANGED <<calling, it, m_registered_store>>
      BY <1>4, <2>1, <3>1
         DEF ServiceStep, passes, stops, add_new_timer, processed, sets_other, once_timer,
             loop_timer, destroy, timers
    <3> QED BY <2>1, <3>2 DEF Pending
  <2>2. ASSUME NEW k \in 1..n, Waiting[k].what = "check", Waiting[k].dest_tm = d
        PROVE  Pending(d)'
    <3>1. CASE Adds
      <4>1. k \in 1..Len(Waiting') /\ Waiting'[k] = Waiting[k]
        BY <1>2, <3>1 DEF Adds, n
      <4> QED BY <1>2, <2>2, <4>1 DEF Pending
    <3>2. CASE Reorders
      <4>1. DOMAIN (Waiting') = DOMAIN Waiting
        BY <1>2, <3>2 DEF Reorders, n
      <4>2. PICK p \in [DOMAIN Waiting -> DOMAIN Waiting] :
              /\ \A i \in DOMAIN Waiting : \E j \in DOMAIN Waiting : p[j] = i
              /\ \A j \in DOMAIN Waiting : Waiting'[j] = Waiting[p[j]]
        BY <3>2, Zenon DEF Reorders
      <4>3. PICK j \in DOMAIN Waiting : p[j] = k
        BY <1>2, <4>2
      <4>4. Waiting'[j] = Waiting[k]
        BY <4>2, <4>3
      <4> QED BY <2>2, <4>1, <4>4 DEF Pending
    <3> QED BY <1>4, <3>1, <3>2
  <2> QED BY <1>2, <2>1, <2>2 DEF Pending
<1> QED BY <1>3, <1>4, StepOfWaiting

-----------------------------------------------------------------------------
(* The times of the sockets and of the nodes of the heartbeat's list.      *)
Telling == {s \in Sockets : stage[s] \in {"adding", "updating"}}

Clocks == /\ m_cur_tick <= time
          /\ calling = "check" => m_cur_tick = time
          /\ \A s \in Sockets : lastRead[s] <= time

(* What add() or update() has computed is of this second or the last.      *)
Tells == \A s \in Telling :
           /\ Timeout <= new_tm[s] /\ new_tm[s] <= time + Timeout
           /\ clock <= End(new_tm[s] - Timeout)
           /\ lastRead[s] <= new_tm[s] - Timeout
           /\ m_last_update_tm[s] <= new_tm[s] - Timeout

(* The list is in order, but for a second.                                 *)
Ages == /\ \A i \in DOMAIN m_time_sort_list :
             /\ Timeout <= m_time_sort_list[i].timeout
             /\ m_time_sort_list[i].timeout <= time + Timeout
        /\ \A i, j \in DOMAIN m_time_sort_list :
             i < j => m_time_sort_list[j].timeout <= m_time_sort_list[i].timeout + 1

(* A socket that has not told of its last read has told of one since the   *)
(* last check.                                                             *)
Knows == \A i \in DOMAIN m_time_sort_list :
           LET n == m_time_sort_list[i]
           IN stage[n.value] = "idle" =>
                /\ lastRead[n.value] <= n.timeout - Timeout + Late
                /\ m_last_update_tm[n.value] <= n.timeout - Timeout

ClosedLate == early \in Nat /\ early >= Timeout - Late

(* The next check is a period away at most, and not too late for any.      *)
CheckAt(d) ==
  /\ Pending(d)
  /\ d < End(m_cur_tick) + Period
  /\ \A i \in DOMAIN m_time_sort_list : d < End(m_time_sort_list[i].timeout) + Period
  /\ \A s \in Telling : d <= End(new_tm[s] - Timeout) + Period

Checks == \E d \in clock..(clock + Period) : CheckAt(d)

Times == Clocks /\ Tells /\ Ages /\ Knows /\ ClosedLate /\ Checks

TimesInv == TimersTyped /\ HeartInv /\ Times

(* A check is late by less than what Late says.                            *)
LEMMA LateIs ==
  ASSUME TimesInv
  PROVE  Late \in Nat /\ Late >= 1 /\ time <= m_cur_tick + Late
<1> DEFINE w == (Period - 1) \div Second
<1>1. /\ Period \in Nat /\ Period - 1 \in Nat /\ Second \in Nat \ {0}
  BY GatewayAssumption
<1>2. w \in Nat /\ Period - 1 < (w + 1) * Second
  BY <1>1, WholeSeconds
<1>3. Late = 1 + w
  BY DEF Late
<1> HIDE DEF w
<1>4. PICK d \in clock..(clock + Period) : d < End(m_cur_tick) + Period
  BY DEF TimesInv, Times, Checks, CheckAt
<1>5. m_cur_tick \in Nat /\ clock \in Nat /\ clock <= d /\ d \in Int
  BY <1>1, <1>4 DEF TimesInv, TimersTyped, HeartInv, HeartTyped
<1>6. End(m_cur_tick + Late) = End(m_cur_tick) + (w + 1) * Second
  <2>1. \A a, b, c \in Int : (a + (1 + b) + 1) * c = (a + 1) * c + (b + 1) * c
    OBVIOUS
  <2> QED BY <1>1, <1>2, <1>3, <1>5, <2>1 DEF End
<1>7. End(m_cur_tick) \in Int /\ (w + 1) * Second \in Int
  BY <1>1, <1>2, <1>5, EndIs
<1>8. clock < End(m_cur_tick + Late) /\ m_cur_tick + Late \in Int
  BY <1>1, <1>2, <1>3, <1>4, <1>5, <1>6, <1>7
<1>9. time <= m_cur_tick + Late
  BY <1>8, TimeEnds DEF TimesInv
<1> QED BY <1>2, <1>3, <1>9

(* No check is running when time passes.                                   *)
LEMMA NoneRuns ==
  ASSUME TimersTyped, tick
  PROVE  calling = "nothing"
<1>1. SUFFICES ASSUME calling # "nothing" PROVE FALSE
  OBVIOUS
<1>2. it \in DOMAIN m_registered_store /\ m_registered_store[it].dest_tm <= now_
  BY <1>1, LenProperties DEF TimersTyped
<1>3. m_registered_store[it] \in Registered
  BY <1>2, ElementOfSeq, LenProperties DEF TimersTyped
<1>4. m_registered_store[it].dest_tm <= clock
  BY <1>2, <1>3 DEF TimersTyped, Registered
<1> QED BY <1>2, <1>4 DEF tick, Due

LEMMA NextClocks ==
  ASSUME TimesInv, [Next]_vars
  PROVE  Clocks'
<1>1. /\ TimersTyped /\ time \in Nat /\ time' \in Nat /\ time <= time'
      /\ m_cur_tick \in Nat /\ lastRead \in [Sockets -> Nat]
      /\ ~tick => time' = time
  BY TimeEnds, TimeNext DEF TimesInv, HeartInv, HeartTyped
<1>2. /\ m_cur_tick <= time
      /\ calling = "check" => m_cur_tick = time
      /\ \A s \in Sockets : lastRead[s] <= time
  BY DEF TimesInv, Times, Clocks
<1>3. CASE tick
  <2>1. calling = "nothing" /\ UNCHANGED <<calling, m_cur_tick, lastRead>>
    BY <1>1, <1>3, NoneRuns DEF tick, timers, heartbeat, sockets
  <2> QED BY <1>1, <1>2, <2>1 DEF Clocks
<1>4. CASE reads_time
  <2>1. /\ calling' = "check" => m_cur_tick' = time
        /\ m_cur_tick' = time \/ m_cur_tick' = m_cur_tick
        /\ lastRead' = lastRead
    BY <1>4 DEF reads_time, Timer, sockets
  <2>2. time' = time
    BY <1>4, TimeNext DEF reads_time, Timer, time
  <2> QED BY <1>1, <1>2, <2>1, <2>2 DEF Clocks
<1>5. CASE \E s \in Sockets : handle_open(s) \/ handle_read(s)
  <2>1. PICK s \in Sockets : handle_open(s) \/ handle_read(s)
    BY <1>5
  <2>2. /\ UNCHANGED <<clock, calling, m_cur_tick>> /\ lastRead' = [lastRead EXCEPT ![s] = time]
    BY <2>1 DEF handle_open, handle_read, Controller, timers, heartbeat
  <2>3. time' = time
    BY <2>2 DEF time
  <2> QED BY <1>1, <1>2, <2>2, <2>3 DEF Clocks
<1>6. CASE \/ \E s \in Sockets : peer_breaks(s) \/ add(s) \/ update(s) \/ del(s)
           \/ OtherThread /\ NotTimers
           \/ handle_timer_check \/ set_timer \/ stop \/ UNCHANGED vars
  <2>1. UNCHANGED <<clock, m_cur_tick, lastRead>>
    BY <1>6 DEF peer_breaks, add, update, del, Controller, Goes, handle_timer_check, NotTimers,
                set_timer, stop, vars, heartbeat, sockets
  <2>3. calling' = calling \/ calling' = "nothing"
    BY <1>6 DEF peer_breaks, add, update, del, Controller, Goes, handle_timer_check, NotTimers,
                OtherThread, set_timer, once_timer, loop_timer, stop, destroy, stops, add_new_timer,
                processed, callback_returns, vars, timers
  <2>4. time' = time
    BY <2>1 DEF time
  <2> QED BY <1>1, <1>2, <2>1, <2>3, <2>4 DEF Clocks
<1> QED BY <1>3, <1>4, <1>5, <1>6 DEF Next, Controls, TimerThread

LEMMA NextTells ==
  ASSUME TimesInv, [Next]_vars
  PROVE  Tells'
<1>1. /\ TimersTyped /\ time \in Nat /\ time' \in Nat /\ time <= time' /\ Timeout \in Nat
      /\ m_cur_tick \in Nat /\ lastRead \in [Sockets -> Nat] /\ new_tm \in [Sockets -> Nat]
      /\ m_last_update_tm \in [Sockets -> Nat] /\ stage \in [Sockets -> Stages]
      /\ clock \in Nat /\ clock < End(time)
  BY TimeEnds, TimeNext, GatewayAssumption DEF TimesInv, HeartInv, HeartTyped, TimersTyped
<1>2. Tells /\ Clocks
  BY DEF TimesInv, Times
<1>3. CASE tick
  <2>1. UNCHANGED <<stage, new_tm, lastRead, m_last_update_tm>> /\ clock' = clock + 1
    BY <1>3 DEF tick, sockets
  <2>2. \A s \in Telling : clock < End(new_tm[s] - Timeout)
    BY <1>3 DEF tick, Telling, End
  <2>3. ASSUME NEW s \in Telling PROVE End(new_tm[s] - Timeout) \in Int /\ new_tm[s] \in Nat
    <3>1. new_tm[s] \in Nat /\ new_tm[s] - Timeout \in Int
      BY <1>1 DEF Telling
    <3> QED BY <3>1, EndIs
  <2>4. Telling' = Telling
    BY <2>1 DEF Telling
  <2>5. ASSUME NEW s \in Telling
        PROVE  /\ Timeout <= new_tm[s] /\ new_tm[s] <= time' + Timeout
               /\ clock' <= End(new_tm[s] - Timeout)
               /\ lastRead[s] <= new_tm[s] - Timeout
               /\ m_last_update_tm[s] <= new_tm[s] - Timeout
    <3>1. clock' <= End(new_tm[s] - Timeout)
      BY <1>1, <2>1, <2>2, <2>3
    <3>2. new_tm[s] <= time' + Timeout
      BY <1>1, <1>2, <2>3 DEF Tells
    <3> QED BY <1>2, <3>1, <3>2 DEF Tells
  <2>6. \A s : End(new_tm[s] - Timeout)' = End(new_tm[s] - Timeout)
    BY <2>1 DEF End
  <2> QED BY <2>1, <2>4, <2>5, <2>6 DEF Tells
<1>4. ASSUME NEW s \in Sockets, UNCHANGED clock, Computes(s, "adding") \/ Computes(s, "updating"),
             lastRead' = [lastRead EXCEPT ![s] = time],
             m_last_update_tm' = [m_last_update_tm EXCEPT ![s] = m_cur_tick]
      PROVE  Tells'
  <2>1. time' = time /\ m_cur_tick <= time
    BY <1>2, <1>4 DEF time, Clocks
  <2>2. new_tm'[s] = time + Timeout /\ lastRead'[s] = time /\ m_last_update_tm'[s] = m_cur_tick
    BY <1>1, <1>4 DEF Computes
  <2>3. \A t \in Sockets : t # s => /\ stage'[t] = stage[t] /\ new_tm'[t] = new_tm[t]
                                    /\ lastRead'[t] = lastRead[t]
                                    /\ m_last_update_tm'[t] = m_last_update_tm[t]
    BY <1>1, <1>4 DEF Computes
  <2>4. time + Timeout - Timeout = time
    BY <1>1
  <2>5. ASSUME NEW t \in Telling' PROVE
             /\ Timeout <= new_tm'[t] /\ new_tm'[t] <= time + Timeout
             /\ clock <= End(new_tm'[t] - Timeout)
             /\ lastRead'[t] <= new_tm'[t] - Timeout
             /\ m_last_update_tm'[t] <= new_tm'[t] - Timeout
    <3>1. CASE t = s
      <4>1. End(time) \in Int
        BY <1>1, EndIs
      <4> QED BY <1>1, <2>1, <2>2, <2>4, <3>1, <4>1
    <3>2. CASE t # s
      <4>1. t \in Telling
        BY <2>3, <3>2 DEF Telling
      <4> QED BY <1>2, <2>3, <3>2, <4>1 DEF Tells, Telling
    <3> QED BY <3>1, <3>2
  <2> QED BY <1>4, <2>1, <2>5 DEF Tells, End
<1>5. ASSUME NEW s \in Sockets, handle_open(s) PROVE Tells'
  BY <1>4, <1>5 DEF handle_open, Controller
<1>6. ASSUME NEW s \in Sockets, handle_read(s) PROVE Tells'
  <2>1. /\ UNCHANGED clock /\ stage[s] = "idle"
        /\ lastRead' = [lastRead EXCEPT ![s] = time]
        /\ m_last_update_tm' = [m_last_update_tm EXCEPT ![s] = m_cur_tick]
        /\ Computes(s, "updating") \/ UNCHANGED <<stage, new_tm>>
    BY <1>6 DEF handle_read, Controller
  <2>2. CASE UNCHANGED <<stage, new_tm>>
    <3>1. Telling' = Telling /\ s \notin Telling /\ time' = time
      BY <2>1, <2>2 DEF Telling, time
    <3>2. \A t \in Telling : lastRead'[t] = lastRead[t] /\ m_last_update_tm'[t] = m_last_update_tm[t]
      BY <1>1, <2>1, <3>1 DEF Telling
    <3> QED BY <1>2, <2>1, <2>2, <3>1, <3>2 DEF Tells, End
  <2> QED BY <1>4, <2>1, <2>2
<1>7. ASSUME NEW s \in Sockets, add(s) \/ update(s) \/ del(s) PROVE Tells'
  <2>1. /\ UNCHANGED <<clock, lastRead, m_last_update_tm>>
        /\ stage' = [stage EXCEPT ![s] = "idle"] \/ stage' = [stage EXCEPT ![s] = "broken"]
        /\ new_tm' = [new_tm EXCEPT ![s] = 0]
    BY <1>7 DEF add, update, del, Goes
  <2>2. \A t \in Telling' : t \in Telling /\ new_tm'[t] = new_tm[t]
    BY <1>1, <2>1 DEF Telling
  <2>3. time' = time
    BY <2>1 DEF time
  <2> QED BY <1>2, <2>1, <2>2, <2>3 DEF Tells, End
<1>8. CASE \/ \E s \in Sockets : peer_breaks(s)
           \/ OtherThread /\ NotTimers
           \/ reads_time \/ handle_timer_check \/ set_timer \/ stop \/ UNCHANGED vars
  <2>1. UNCHANGED <<clock, stage, new_tm, lastRead, m_last_update_tm>>
    BY <1>8 DEF peer_breaks, Controller, reads_time, Timer, handle_timer_check, NotTimers, set_timer,
                stop, vars, sockets
  <2> QED BY <1>2, <2>1 DEF Tells, Telling, time, End
<1> QED BY <1>3, <1>5, <1>6, <1>7, <1>8 DEF Next, Controls, TimerThread

(* A new node is put before one of a later second, at most.                *)
LEMMA NewNodeTimes ==
  ASSUME TimesInv, NEW s \in Telling
  PROVE  /\ NewNode(s) \in Node /\ NewNode(s).value = s /\ NewNode(s).timeout = new_tm[s]
         /\ Timeout <= NewNode(s).timeout /\ NewNode(s).timeout <= time + Timeout
         /\ \A i \in DOMAIN m_time_sort_list :
              m_time_sort_list[i].timeout <= NewNode(s).timeout + 1
<1>1. /\ time \in Nat /\ clock \in Nat /\ Timeout \in Nat /\ s \in Sockets
      /\ new_tm[s] \in Nat
      /\ \A q \in Int : clock < End(q) => time <= q
  BY TimeEnds, GatewayAssumption DEF TimesInv, TimersTyped, HeartInv, HeartTyped, Telling
<1>2. /\ NewNode(s) \in Node /\ NewNode(s).value = s /\ NewNode(s).timeout = new_tm[s]
  BY <1>1, NewNodeIs DEF TimesInv
<1>3. /\ Timeout <= new_tm[s] /\ new_tm[s] <= time + Timeout
      /\ clock <= End(new_tm[s] - Timeout)
  BY DEF TimesInv, Times, Tells
<1>4. time <= new_tm[s] - Timeout + 1
  <2> DEFINE q == new_tm[s] - Timeout
  <2>1. q \in Int /\ q + 1 \in Int /\ q < q + 1
    BY <1>1
  <2> HIDE DEF q
  <2>2. End(q) < End(q + 1) /\ End(q) \in Int /\ End(q + 1) \in Int
    BY <2>1, EndIs
  <2>3. clock < End(q + 1)
    BY <1>1, <1>3, <2>2 DEF q
  <2>4. time <= q + 1
    BY <1>1, <2>1, <2>3
  <2> QED BY <2>4 DEF q
<1>5. ASSUME NEW i \in DOMAIN m_time_sort_list
      PROVE  m_time_sort_list[i].timeout <= new_tm[s] + 1
  <2>1. m_time_sort_list[i] \in Node
    BY ElementOfSeq, LenProperties DEF TimesInv, HeartInv, HeartTyped
  <2>2. m_time_sort_list[i].timeout \in Nat
    BY <2>1 DEF Node
  <2>3. m_time_sort_list[i].timeout <= time + Timeout
    BY DEF TimesInv, Times, Ages
  <2> QED BY <1>1, <1>4, <2>2, <2>3
<1> QED BY <1>2, <1>3, <1>5

LEMMA AgesChanged ==
  ASSUME TimesInv, [Next]_vars, HeartTyped',
         NEW S \in SUBSET DOMAIN m_time_sort_list, NEW new \in SUBSET Node, Changed(S, new),
         \A n \in new : /\ Timeout <= n.timeout /\ n.timeout <= time + Timeout
                        /\ \A i \in S : m_time_sort_list[i].timeout <= n.timeout + 1
  PROVE  Ages'
<1> DEFINE old == m_time_sort_list
           list == m_time_sort_list'
           D == DOMAIN list
<1>1. PICK from \in [D -> {0} \cup S] :
        /\ \A k, l \in D : k < l => from[k] < from[l]
        /\ \A k \in D : IF from[k] = 0 THEN list[k] \in new ELSE list[k] = old[from[k]]
  BY Zenon DEF Changed
<1>2. /\ time \in Nat /\ time' \in Nat /\ time <= time' /\ Timeout \in Nat
      /\ \A i \in S : i \in Nat /\ i # 0
  BY TimeEnds, TimeNext, GatewayAssumption, LenProperties DEF TimesInv, HeartInv, HeartTyped
<1>3. \A i \in S : /\ old[i].timeout \in Nat
                   /\ Timeout <= old[i].timeout /\ old[i].timeout <= time + Timeout
  <2> TAKE i \in S
  <2>1. old[i] \in Node
    BY ElementOfSeq, LenProperties DEF TimesInv, HeartInv, HeartTyped
  <2>2. old[i].timeout \in Nat
    BY <2>1 DEF Node
  <2> QED BY <2>2 DEF TimesInv, Times, Ages
<1>4. \A n \in new : n.timeout \in Nat
  BY DEF Node
<1> HIDE DEF list, D
<1>5. \A k \in D : \/ from[k] = 0 /\ list[k] \in new
                   \/ from[k] \in S /\ from[k] # 0 /\ list[k] = old[from[k]]
  BY <1>1, <1>2
<1>6. ASSUME NEW k \in D
      PROVE  /\ Timeout <= list[k].timeout /\ list[k].timeout <= time' + Timeout
             /\ list[k].timeout \in Nat
  BY <1>2, <1>3, <1>4, <1>5
<1>7. ASSUME NEW k \in D, NEW l \in D, k < l
      PROVE  list[l].timeout <= list[k].timeout + 1
  <2>1. from[k] < from[l]
    BY <1>1, <1>7
  <2>2. from[l] \in S /\ list[l] = old[from[l]]
    BY <1>2, <1>5, <2>1
  <2>3. CASE from[k] \in S /\ list[k] = old[from[k]]
    <3>1. old[from[l]].timeout <= old[from[k]].timeout + 1
      BY <2>1, <2>2, <2>3 DEF TimesInv, Times, Ages
    <3> QED BY <2>2, <2>3, <3>1
  <2>4. CASE from[k] = 0 /\ list[k] \in new
    BY <2>2, <2>4
  <2> QED BY <1>5, <2>3, <2>4
<1> QED BY <1>6, <1>7 DEF Ages, list, D

LEMMA NextAges ==
  ASSUME TimesInv, [Next]_vars
  PROVE  Ages'
<1>1. HeartTyped' /\ HeartInv
  BY NextHeartTyped DEF TimesInv
<1>2. ASSUME NEW s \in Sockets, add(s) PROVE Ages'
  <2>1. s \in Telling
    BY <1>2 DEF add, Telling
  <2>2. Changed(DOMAIN m_time_sort_list, {NewNode(s)})
    BY <1>1, <1>2, AddIs
  <2> QED BY <1>1, <2>1, <2>2, NewNodeTimes, AgesChanged
<1>3. ASSUME NEW s \in Sockets, update(s) PROVE Ages'
  <2>1. s \in Telling
    BY <1>3 DEF update, Telling
  <2>2. Changed(Others(s), {NewNode(s)}) /\ Others(s) \in SUBSET DOMAIN m_time_sort_list
    BY <1>1, <1>3, UpdateIs DEF Others
  <2> QED BY <1>1, <2>1, <2>2, NewNodeTimes, AgesChanged
<1>4. ASSUME NEW s \in Sockets, del(s) PROVE Ages'
  <2>1. Changed(Others(s), {}) /\ Others(s) \in SUBSET DOMAIN m_time_sort_list
    BY <1>1, <1>4, DelIs DEF Others
  <2> QED BY <1>1, <2>1, AgesChanged
<1>5. CASE handle_timer_check
  <2>1. Kept \in 0..Len(m_time_sort_list) /\ Changed(1..Kept, {})
    BY <1>1, <1>5, CheckIs
  <2>2. Len(m_time_sort_list) \in Nat /\ DOMAIN m_time_sort_list = 1..Len(m_time_sort_list)
    BY <1>1, LenProperties DEF HeartTyped, HeartInv
  <2>3. 1..Kept \in SUBSET DOMAIN m_time_sort_list
    BY <2>1, <2>2
  <2> QED BY <1>1, <2>1, <2>3, AgesChanged
<1>6. CASE UNCHANGED m_time_sort_list
  <2>1. time \in Nat /\ time' \in Nat /\ time <= time' /\ Timeout \in Nat
    BY TimeEnds, TimeNext, GatewayAssumption DEF TimesInv
  <2>2. \A i \in DOMAIN m_time_sort_list : m_time_sort_list[i].timeout \in Nat
    <3>1. \A i \in DOMAIN m_time_sort_list : m_time_sort_list[i] \in Node
      BY <1>1, ElementOfSeq, LenProperties DEF HeartInv, HeartTyped
    <3>2. \A n \in Node : n.timeout \in Nat
      BY DEF Node
    <3> QED BY <3>1, <3>2
  <2>3. Ages
    BY DEF TimesInv, Times
  <2>4. \A i \in DOMAIN m_time_sort_list : m_time_sort_list[i].timeout <= time' + Timeout
    BY <2>1, <2>2, <2>3 DEF Ages
  <2> QED BY <1>6, <2>3, <2>4 DEF Ages
<1>7. CASE \/ \E s \in Sockets : handle_open(s) \/ handle_read(s) \/ peer_breaks(s)
           \/ OtherThread /\ NotTimers
           \/ reads_time \/ set_timer \/ stop \/ tick \/ UNCHANGED vars
  BY <1>6, <1>7
     DEF handle_open, handle_read, peer_breaks, NotTimers, reads_time, set_timer, stop,
         tick, vars, heartbeat
<1> QED BY <1>2, <1>3, <1>4, <1>5, <1>7 DEF Next, Controls, TimerThread

LEMMA ListIs ==
  ASSUME TimesInv
  PROVE  \A i \in DOMAIN m_time_sort_list :
           /\ m_time_sort_list[i] \in Node
           /\ m_time_sort_list[i].value \in Sockets /\ m_time_sort_list[i].timeout \in Nat
           /\ lastRead[m_time_sort_list[i].value] \in Nat
           /\ m_last_update_tm[m_time_sort_list[i].value] \in Nat
<1> TAKE i \in DOMAIN m_time_sort_list
<1>1. m_time_sort_list[i] \in Node
  BY ElementOfSeq, LenProperties DEF TimesInv, HeartInv, HeartTyped
<1>2. m_time_sort_list[i].value \in Sockets /\ m_time_sort_list[i].timeout \in Nat
  BY <1>1 DEF Node
<1> QED BY <1>1, <1>2 DEF TimesInv, HeartInv, HeartTyped

LEMMA KnowsChanged ==
  ASSUME TimesInv,
         NEW S \in SUBSET DOMAIN m_time_sort_list, NEW new, Changed(S, new),
         UNCHANGED <<lastRead, m_last_update_tm>>,
         \A i \in S : stage'[m_time_sort_list[i].value] = "idle"
                        => stage[m_time_sort_list[i].value] = "idle",
         \A n \in new : /\ lastRead[n.value] <= n.timeout - Timeout + Late
                        /\ m_last_update_tm[n.value] <= n.timeout - Timeout
  PROVE  Knows'
<1> DEFINE old == m_time_sort_list
           list == m_time_sort_list'
           D == DOMAIN list
<1>1. PICK from \in [D -> {0} \cup S] :
        \A k \in D : IF from[k] = 0 THEN list[k] \in new ELSE list[k] = old[from[k]]
  BY Zenon DEF Changed
<1> HIDE DEF list, D
<1>2. \A k \in D : list[k] \in new \/ \E i \in S : list[k] = old[i]
  BY <1>1
<1>3. \A i \in S : stage[old[i].value] = "idle" =>
                     /\ lastRead[old[i].value] <= old[i].timeout - Timeout + Late
                     /\ m_last_update_tm[old[i].value] <= old[i].timeout - Timeout
  BY DEF TimesInv, Times, Knows
<1>4. \A k \in D : stage'[list[k].value] = "idle" =>
                     /\ lastRead[list[k].value] <= list[k].timeout - Timeout + Late
                     /\ m_last_update_tm[list[k].value] <= list[k].timeout - Timeout
  BY <1>2, <1>3
<1>5. Late' = Late
  BY DEF Late
<1> QED BY <1>4, <1>5 DEF Knows, list, D

LEMMA NextKnows ==
  ASSUME TimesInv, [Next]_vars
  PROVE  Knows'
<1>1. /\ HeartInv /\ stage \in [Sockets -> Stages] /\ time \in Nat /\ Timeout \in Nat
      /\ lastRead \in [Sockets -> Nat] /\ m_last_update_tm \in [Sockets -> Nat]
      /\ m_cur_tick \in Nat /\ Late \in Nat /\ Late >= 1 /\ time <= m_cur_tick + Late
  BY TimeEnds, LateIs, GatewayAssumption DEF TimesInv, HeartInv, HeartTyped
<1>2. ASSUME NEW s \in Telling
      PROVE  /\ lastRead[NewNode(s).value] <= NewNode(s).timeout - Timeout + Late
             /\ m_last_update_tm[NewNode(s).value] <= NewNode(s).timeout - Timeout
  <2>1. NewNode(s).value = s /\ NewNode(s).timeout = new_tm[s] /\ s \in Sockets
    BY NewNodeTimes DEF Telling
  <2>2. /\ lastRead[s] <= new_tm[s] - Timeout /\ m_last_update_tm[s] <= new_tm[s] - Timeout
    BY DEF TimesInv, Times, Tells
  <2>3. lastRead[s] \in Nat /\ new_tm[s] \in Nat
    BY <1>1, <2>1 DEF HeartInv, HeartTyped
  <2> QED BY <1>1, <2>1, <2>2, <2>3
<1>3. ASSUME NEW s \in Sockets, add(s) PROVE Knows'
  <2>1. /\ s \in Telling /\ stage' = [stage EXCEPT ![s] = "idle"]
        /\ UNCHANGED <<lastRead, m_last_update_tm>> /\ s \notin DOMAIN m_data_map
    BY <1>3 DEF add, Goes, Telling, HeartTyped, TimesInv, HeartInv
  <2>2. \A i \in DOMAIN m_time_sort_list : m_time_sort_list[i].value # s
    BY <1>1, <2>1 DEF HeartInv, NodesInv
  <2>3. \A i \in DOMAIN m_time_sort_list :
          stage'[m_time_sort_list[i].value] = stage[m_time_sort_list[i].value]
    BY <1>1, <2>1, <2>2
  <2>4. Changed(DOMAIN m_time_sort_list, {NewNode(s)})
    BY <1>1, <1>3, AddIs
  <2> QED BY <1>2, <2>1, <2>3, <2>4, KnowsChanged
<1>4. ASSUME NEW s \in Sockets, update(s) PROVE Knows'
  <2>1. /\ s \in Telling /\ stage' = [stage EXCEPT ![s] = "idle"]
        /\ UNCHANGED <<lastRead, m_last_update_tm>> /\ s \in DOMAIN m_data_map
    BY <1>4 DEF update, Goes, Telling, HeartTyped, TimesInv, HeartInv
  <2>2. /\ Others(s) \in SUBSET DOMAIN m_time_sort_list
        /\ \A i \in Others(s) : m_time_sort_list[i].value # s
    BY <1>1, <2>1, OthersAre
  <2>3. \A i \in Others(s) :
          stage'[m_time_sort_list[i].value] = stage[m_time_sort_list[i].value]
    BY <1>1, <2>1, <2>2
  <2>4. Changed(Others(s), {NewNode(s)})
    BY <1>1, <1>4, UpdateIs
  <2> QED BY <1>2, <2>1, <2>2, <2>3, <2>4, KnowsChanged
<1>5. ASSUME NEW s \in Sockets, del(s) PROVE Knows'
  <2>1. /\ stage' = [stage EXCEPT ![s] = "broken"] /\ UNCHANGED <<lastRead, m_last_update_tm>>
    BY <1>5 DEF del, Goes
  <2>2. \A i \in DOMAIN m_time_sort_list : stage'[m_time_sort_list[i].value] = "idle"
                                             => stage[m_time_sort_list[i].value] = "idle"
    BY <1>1, <2>1, ListIs
  <2>3. Changed(Others(s), {}) /\ Others(s) \in SUBSET DOMAIN m_time_sort_list
    BY <1>1, <1>5, DelIs DEF Others
  <2> QED BY <2>1, <2>2, <2>3, KnowsChanged
<1>6. CASE handle_timer_check
  <2>1. Kept \in 0..Len(m_time_sort_list) /\ Changed(1..Kept, {})
    BY <1>1, <1>6, CheckIs
  <2>2. Len(m_time_sort_list) \in Nat /\ DOMAIN m_time_sort_list = 1..Len(m_time_sort_list)
    BY <1>1, LenProperties DEF HeartTyped, HeartInv
  <2>3. 1..Kept \in SUBSET DOMAIN m_time_sort_list
    BY <2>1, <2>2
  <2>4. UNCHANGED <<stage, lastRead, m_last_update_tm>>
    BY <1>6 DEF handle_timer_check
  <2> QED BY <2>1, <2>3, <2>4, KnowsChanged
<1>7. ASSUME NEW s \in Sockets, handle_open(s) PROVE Knows'
  <2>1. /\ stage[s] = "new" /\ stage' = [stage EXCEPT ![s] = "adding"]
        /\ lastRead' = [lastRead EXCEPT ![s] = time]
        /\ m_last_update_tm' = [m_last_update_tm EXCEPT ![s] = m_cur_tick]
        /\ UNCHANGED m_time_sort_list
    BY <1>1, <1>7, OpensNext DEF HeartInv, handle_open, Computes, heartbeat
  <2>2. ASSUME NEW t \in Sockets, stage'[t] = "idle"
        PROVE  stage[t] = "idle" /\ lastRead'[t] = lastRead[t]
                                 /\ m_last_update_tm'[t] = m_last_update_tm[t]
    BY <1>1, <2>1, <2>2
  <2> QED BY <2>1, <2>2, ListIs DEF TimesInv, Times, Knows, Late
<1>8. ASSUME NEW s \in Sockets, handle_read(s) PROVE Knows'
  <2>1. /\ stage[s] = "idle"
        /\ lastRead' = [lastRead EXCEPT ![s] = time]
        /\ m_last_update_tm' = [m_last_update_tm EXCEPT ![s] = m_cur_tick]
        /\ UNCHANGED m_time_sort_list
        /\ IF m_last_update_tm[s] # m_cur_tick THEN stage' = [stage EXCEPT ![s] = "updating"]
                                               ELSE stage' = stage
    BY <1>8 DEF handle_read, Computes, heartbeat
  <2>2. ASSUME NEW i \in DOMAIN m_time_sort_list, stage'[m_time_sort_list[i].value] = "idle"
        PROVE  LET n == m_time_sort_list[i]
               IN /\ lastRead'[n.value] <= n.timeout - Timeout + Late
                  /\ m_last_update_tm'[n.value] <= n.timeout - Timeout
    <3> DEFINE n == m_time_sort_list[i]
    <3>1. /\ n.value \in Sockets /\ n.timeout \in Nat
          /\ lastRead[n.value] \in Nat /\ m_last_update_tm[n.value] \in Nat
      BY ListIs
    <3>2. stage[n.value] = "idle" => /\ lastRead[n.value] <= n.timeout - Timeout + Late
                                     /\ m_last_update_tm[n.value] <= n.timeout - Timeout
      BY DEF TimesInv, Times, Knows
    <3> HIDE DEF n
    <3>3. CASE n.value # s
      <4>1. /\ stage'[n.value] = stage[n.value] /\ lastRead'[n.value] = lastRead[n.value]
            /\ m_last_update_tm'[n.value] = m_last_update_tm[n.value]
        BY <1>1, <2>1, <3>1, <3>3
      <4> QED BY <2>2, <3>2, <4>1 DEF n
    <3>4. CASE n.value = s
      <4>1. lastRead'[s] = time /\ m_last_update_tm'[s] = m_cur_tick
        BY <1>1, <2>1
      <4>2. m_last_update_tm[s] = m_cur_tick
        BY <1>1, <2>1, <2>2, <3>4 DEF n
      <4>3. m_cur_tick <= n.timeout - Timeout
        BY <2>1, <3>2, <3>4, <4>2
      <4>4. time <= n.timeout - Timeout + Late
        BY <1>1, <3>1, <4>3
      <4> QED BY <3>4, <4>1, <4>3, <4>4 DEF n
    <3> QED BY <3>3, <3>4
  <2> QED BY <2>1, <2>2 DEF Knows, Late
<1>9. CASE \/ \E s \in Sockets : peer_breaks(s)
           \/ OtherThread /\ NotTimers
           \/ reads_time \/ set_timer \/ stop \/ tick \/ UNCHANGED vars
  <2>1. UNCHANGED <<m_time_sort_list, stage, lastRead, m_last_update_tm>>
    BY <1>9 DEF peer_breaks, Controller, reads_time, Timer, NotTimers, set_timer, stop, tick, vars,
                sockets, heartbeat
  <2> QED BY <2>1 DEF TimesInv, Times, Knows, Late
<1> QED BY <1>3, <1>4, <1>5, <1>6, <1>7, <1>8, <1>9 DEF Next, Controls, TimerThread

LEMMA NextClosed ==
  ASSUME TimesInv, [Next]_vars
  PROVE  ClosedLate'
<1>1. early \in Nat /\ early >= Timeout - Late /\ Late \in Nat /\ Timeout \in Nat
  BY LateIs, GatewayAssumption DEF TimesInv, Times, ClosedLate
<1>2. Late' = Late
  BY DEF Late
<1>3. CASE handle_timer_check
  <2> DEFINE values == {m_time_sort_list[i].value : i \in Popped}
             silent == {time - lastRead[s] : s \in Idle(values)}
             S == {early} \cup silent
  <2>1. early' = Min(S)
    BY <1>3 DEF handle_timer_check
  <2>2. time \in Nat /\ m_cur_tick = time /\ \A s \in Sockets : lastRead[s] \in Nat /\ lastRead[s] <= time
    BY <1>3, TimeEnds DEF handle_timer_check, TimesInv, Times, Clocks, HeartInv, HeartTyped
  <2>3. ASSUME NEW s \in Idle(values)
        PROVE  time - lastRead[s] \in Nat /\ time - lastRead[s] >= Timeout - Late
    <3>1. PICK i \in DOMAIN m_time_sort_list : i > Kept /\ s = m_time_sort_list[i].value
      BY DEF Idle, Popped
    <3>2. /\ s \in Sockets /\ m_time_sort_list[i].timeout \in Nat
          /\ lastRead[s] \in Nat /\ lastRead[s] <= time
      BY <2>2, <3>1, ListIs
    <3>3. time >= m_time_sort_list[i].timeout
      <4>1. Expired(m_time_sort_list[i])
        BY <1>3, <3>1, CheckIs DEF TimesInv
      <4> QED BY <2>2, <4>1 DEF Expired
    <3>4. lastRead[s] <= m_time_sort_list[i].timeout - Timeout + Late
      <4>1. stage[s] = "idle"
        BY DEF Idle
      <4> QED BY <3>1, <4>1 DEF TimesInv, Times, Knows
    <3> QED BY <1>1, <2>2, <3>2, <3>3, <3>4
  <2>4. \A x \in S : x \in Nat /\ x >= Timeout - Late
    <3> HIDE DEF values
    <3> QED BY <1>1, <2>3
  <2>5. S \in SUBSET Nat /\ S # {}
    BY <2>4
  <2> HIDE DEF S
  <2>6. Min(S) \in S
    BY <2>5, MinExists
  <2> QED BY <1>2, <2>1, <2>4, <2>6 DEF ClosedLate
<1>4. CASE UNCHANGED early
  BY <1>1, <1>2, <1>4 DEF ClosedLate
<1>5. CASE \/ \E s \in Sockets : Controls(s)
           \/ OtherThread /\ NotTimers
           \/ reads_time \/ set_timer \/ stop \/ tick \/ UNCHANGED vars
  BY <1>4, <1>5 DEF Controls, handle_open, handle_read, peer_breaks, add, update, del, Controller, Goes,
                    NotTimers, reads_time, set_timer, stop, tick, vars, history
<1> QED BY <1>3, <1>5 DEF Next, TimerThread

(* What the list has after a step, when its change is known.               *)
LEMMA ElementsAre ==
  ASSUME NEW S, NEW new, Changed(S, new)
  PROVE  \A k \in DOMAIN m_time_sort_list' :
           \/ m_time_sort_list'[k] \in new
           \/ \E i \in S : m_time_sort_list'[k] = m_time_sort_list[i]
<1>1. PICK from \in [DOMAIN m_time_sort_list' -> {0} \cup S] :
        \A k \in DOMAIN m_time_sort_list' :
          IF from[k] = 0 THEN m_time_sort_list'[k] \in new
                         ELSE m_time_sort_list'[k] = m_time_sort_list[from[k]]
  BY Zenon DEF Changed
<1> QED BY <1>1

LEMMA Window ==
  ASSUME NEW a \in Nat, NEW b \in Nat, a <= b, NEW p \in Nat, NEW d \in a..(a + p), b <= d
  PROVE  d \in b..(b + p)
OBVIOUS

(* The check that comes is in time for those that told the heartbeat.      *)
LEMMA InTime ==
  ASSUME TimesInv, [Next]_vars, NEW d \in Nat, CheckAt(d), Pending(d)',
         d \in clock..(clock + Period), clock' <= d
  PROVE  Checks' \/ handle_timer_check
<1> SUFFICES ASSUME ~handle_timer_check PROVE Checks'
  OBVIOUS
<1>1. /\ time \in Nat /\ clock \in Nat /\ clock' \in Nat /\ clock <= clock' /\ clock < End(time)
      /\ Timeout \in Nat /\ Timeout >= 1 /\ Period \in Nat /\ m_cur_tick \in Nat
      /\ stage \in [Sockets -> Stages] /\ new_tm \in [Sockets -> Nat] /\ HeartInv
  <2>1. TimersTyped /\ TimersTyped' /\ HeartInv
    BY TimeNext DEF TimesInv
  <2>2. time \in Nat /\ clock < End(time) /\ clock <= clock'
    BY <2>1, TimeEnds, TimeNext
  <2>3. clock \in Nat /\ clock' \in Nat
    BY <2>1 DEF TimersTyped
  <2>4. m_cur_tick \in Nat /\ stage \in [Sockets -> Stages] /\ new_tm \in [Sockets -> Nat]
    BY <2>1 DEF HeartInv, HeartTyped
  <2>5. Timeout \in Nat /\ Timeout >= 1 /\ Period \in Nat
    BY GatewayAssumption
  <2> QED BY <2>1, <2>2, <2>3, <2>4, <2>5
<1>2. \A q \in Int : End(q) \in Int
  BY EndIs
<1>3. m_cur_tick' = m_cur_tick \/ m_cur_tick' = time
  BY DEF Next, Controls, TimerThread, handle_open, handle_read, peer_breaks, add, update, del, Goes,
         reads_time, NotTimers, set_timer, stop, tick, vars, heartbeat
<1>4. d < End(m_cur_tick') + Period
  <2>1. m_cur_tick <= time
    BY DEF TimesInv, Times, Clocks
  <2>2. End(m_cur_tick) <= End(time)
    BY <1>1, <2>1, EndIs
  <2> QED BY <1>1, <1>2, <1>3, <2>2 DEF CheckAt
<1>5. \A k \in DOMAIN m_time_sort_list' :
        \/ \E i \in DOMAIN m_time_sort_list : m_time_sort_list'[k] = m_time_sort_list[i]
        \/ \E s \in Telling : m_time_sort_list'[k] = NewNode(s)
  <2>1. ASSUME NEW s \in Sockets, add(s) \/ update(s) \/ del(s)
        PROVE  \A k \in DOMAIN m_time_sort_list' :
                 \/ \E i \in DOMAIN m_time_sort_list : m_time_sort_list'[k] = m_time_sort_list[i]
                 \/ s \in Telling /\ m_time_sort_list'[k] = NewNode(s)
    <3>1. CASE add(s)
      <4>1. s \in Telling
        BY <3>1 DEF add, Telling
      <4>2. Changed(DOMAIN m_time_sort_list, {NewNode(s)})
        BY <1>1, <3>1, AddIs
      <4> QED BY <4>1, <4>2, ElementsAre
    <3>2. CASE update(s)
      <4>1. s \in Telling
        BY <3>2 DEF update, Telling
      <4>2. Changed(Others(s), {NewNode(s)}) /\ Others(s) \subseteq DOMAIN m_time_sort_list
        BY <1>1, <3>2, UpdateIs DEF Others
      <4> QED BY <4>1, <4>2, ElementsAre
    <3>3. CASE del(s)
      <4>1. Changed(Others(s), {}) /\ Others(s) \subseteq DOMAIN m_time_sort_list
        BY <1>1, <3>3, DelIs DEF Others
      <4> QED BY <4>1, ElementsAre
    <3> QED BY <2>1, <3>1, <3>2, <3>3
  <2>2. \/ \E s \in Sockets : add(s) \/ update(s) \/ del(s)
        \/ UNCHANGED m_time_sort_list
    BY DEF Next, Controls, TimerThread, handle_open, handle_read, peer_breaks,
           reads_time, NotTimers, set_timer, stop, tick, vars, heartbeat
  <2> QED BY <2>1, <2>2
<1>6. ASSUME NEW k \in DOMAIN m_time_sort_list'
      PROVE  d < End(m_time_sort_list'[k].timeout) + Period
  <2>1. ASSUME NEW i \in DOMAIN m_time_sort_list, m_time_sort_list'[k] = m_time_sort_list[i]
        PROVE  d < End(m_time_sort_list'[k].timeout) + Period
    BY <2>1 DEF CheckAt
  <2>2. ASSUME NEW s \in Telling, m_time_sort_list'[k] = NewNode(s)
        PROVE  d < End(m_time_sort_list'[k].timeout) + Period
    <3>1. m_time_sort_list'[k].timeout = new_tm[s] /\ new_tm[s] \in Nat
      BY <1>1, <2>2, NewNodeTimes DEF Telling
    <3>2. End(new_tm[s] - Timeout) < End(new_tm[s])
      <4>1. new_tm[s] - Timeout \in Int /\ new_tm[s] \in Int /\ new_tm[s] - Timeout < new_tm[s]
        BY <1>1, <3>1
      <4> QED BY <4>1, EndIs
    <3>3. d <= End(new_tm[s] - Timeout) + Period
      BY DEF CheckAt
    <3>4. End(new_tm[s]) \in Int /\ End(new_tm[s] - Timeout) \in Int
      BY <1>1, <1>2, <3>1
    <3> QED BY <1>1, <3>1, <3>2, <3>3, <3>4
  <2> QED BY <1>5, <2>1, <2>2
<1>7. ASSUME NEW t \in Telling' PROVE d <= End(new_tm'[t] - Timeout) + Period
  <2>1. ASSUME NEW s \in Sockets, Computes(s, "adding") \/ Computes(s, "updating")
        PROVE  d <= End(new_tm'[t] - Timeout) + Period
    <3>1. CASE t = s
      <4>1. new_tm'[t] - Timeout = time
        BY <1>1, <2>1, <3>1 DEF Computes
      <4>2. End(time) \in Int
        BY <1>1, <1>2
      <4> QED BY <1>1, <4>1, <4>2
    <3>2. CASE t # s
      <4>1. t \in Telling /\ new_tm'[t] = new_tm[t]
        BY <1>1, <2>1, <3>2 DEF Computes, Telling
      <4> QED BY <4>1 DEF CheckAt
    <3> QED BY <3>1, <3>2
  <2>2. CASE t \in Telling /\ new_tm'[t] = new_tm[t]
    BY <2>2 DEF CheckAt
  <2>3. ASSUME NEW s \in Sockets, add(s) \/ update(s) \/ del(s)
        PROVE  t \in Telling /\ new_tm'[t] = new_tm[t]
    <3>1. /\ stage' = [stage EXCEPT ![s] = "idle"] \/ stage' = [stage EXCEPT ![s] = "broken"]
          /\ new_tm' = [new_tm EXCEPT ![s] = 0]
      BY <2>3 DEF add, update, del, Goes
    <3> QED BY <1>1, <3>1 DEF Telling
  <2>4. \/ \E s \in Sockets : add(s) \/ update(s) \/ del(s)
        \/ \E s \in Sockets : Computes(s, "adding") \/ Computes(s, "updating")
        \/ UNCHANGED <<stage, new_tm>>
    BY DEF Next, Controls, TimerThread, handle_open, handle_read, peer_breaks,
           reads_time, Timer, NotTimers, set_timer, stop, tick, vars, sockets
  <2> QED BY <2>1, <2>2, <2>3, <2>4 DEF Telling
<1>8. d \in clock'..(clock' + Period)
  <2>1. d \in Nat /\ clock \in Nat /\ clock' \in Nat /\ Period \in Nat /\ clock <= clock'
    BY <1>1
  <2> QED BY <2>1, Window
<1>9. CheckAt(d)'
  <2>1. (d < End(m_cur_tick) + Period)'
    BY <1>4 DEF End
  <2>2. (\A i \in DOMAIN m_time_sort_list : d < End(m_time_sort_list[i].timeout) + Period)'
    BY <1>6 DEF End
  <2>3. (\A s \in Telling : d <= End(new_tm[s] - Timeout) + Period)'
    BY <1>7 DEF End
  <2> QED BY <2>1, <2>2, <2>3 DEF CheckAt
<1> QED BY <1>8, <1>9 DEF Checks

LEMMA OnlyCheck ==
  ASSUME TimersTyped, [Next]_vars, check_returns
  PROVE  handle_timer_check
<1>1. calling = "check" /\ calling' = "nothing" /\ thread = "processing"
  BY DEF check_returns, TimersTyped
<1> QED BY <1>1 DEF Next, Controls, TimerThread, OtherThread, handle_open, handle_read, peer_breaks,
                    add, update, del, Controller, Goes, reads_time, callback, stops, add_new_timer,
                    processed, set_timer, once_timer, loop_timer, stop, destroy, tick, vars, timers

(* After a check the next one is a period away, and the nodes it has left  *)
(* are of this second or later: the last has not expired, and the others   *)
(* are behind it by a second at most.                                      *)
LEMMA CheckedInTime ==
  ASSUME TimesInv, [Next]_vars, handle_timer_check
  PROVE  Checks'
<1>1. /\ time \in Nat /\ clock \in Nat /\ clock' = clock /\ clock < End(time)
      /\ Timeout \in Nat /\ Period \in Nat /\ m_cur_tick = time
      /\ stage' = stage /\ new_tm' = new_tm /\ m_cur_tick' = m_cur_tick
      /\ new_tm \in [Sockets -> Nat] /\ HeartInv
  <2>1. time \in Nat /\ clock < End(time) /\ clock \in Nat
    BY TimeEnds DEF TimesInv, TimersTyped
  <2>2. m_cur_tick = time
    BY DEF handle_timer_check, TimesInv, Times, Clocks
  <2>3. new_tm \in [Sockets -> Nat] /\ HeartInv
    BY DEF TimesInv, HeartInv, HeartTyped
  <2> QED BY <2>1, <2>2, <2>3, GatewayAssumption DEF handle_timer_check
<1>2. \A q \in Int : End(q) \in Int
  BY EndIs
<1>3. PICK e \in Nat : e = clock + Period /\ Pending(e)'
  <2>1. ServiceStep /\ TimersTyped /\ check_returns
    BY StepOfService DEF TimesInv, handle_timer_check, check_returns
  <2> QED BY <2>1, CheckSets
<1>4. Kept \in 0..Len(m_time_sort_list) /\ Len(m_time_sort_list) \in Nat
  BY <1>1, CheckIs, LenProperties DEF HeartInv, HeartTyped
<1>5. ASSUME NEW i \in 1..Kept
      PROVE  m_time_sort_list[i].timeout \in Nat /\ time <= m_time_sort_list[i].timeout
  <2>1. /\ i \in DOMAIN m_time_sort_list /\ Kept \in DOMAIN m_time_sort_list /\ Kept # 0
        /\ i < Kept \/ i = Kept
    BY <1>1, <1>4, LenProperties DEF HeartInv, HeartTyped
  <2>2. m_time_sort_list[i].timeout \in Nat /\ m_time_sort_list[Kept].timeout \in Nat
    BY <2>1, ListIs
  <2>3. time < m_time_sort_list[Kept].timeout
    <3>1. ~Expired(m_time_sort_list[Kept])
      BY <1>1, <2>1, CheckIs
    <3> QED BY <1>1, <2>2, <3>1 DEF Expired
  <2>4. i < Kept => m_time_sort_list[Kept].timeout <= m_time_sort_list[i].timeout + 1
    BY <2>1 DEF TimesInv, Times, Ages
  <2> QED BY <1>1, <2>1, <2>2, <2>3, <2>4
<1>6. ASSUME NEW k \in DOMAIN m_time_sort_list'
      PROVE  e < End(m_time_sort_list'[k].timeout) + Period
  <2>1. PICK i \in 1..Kept : m_time_sort_list'[k] = m_time_sort_list[i]
    <3>1. Changed(1..Kept, {})
      BY <1>1, CheckIs
    <3> DEFINE S == 1..Kept
    <3>2. \E i \in S : m_time_sort_list'[k] = m_time_sort_list[i]
      <4> HIDE DEF S
      <4>1. Changed(S, {})
        BY <3>1 DEF S
      <4> QED BY <4>1, ElementsAre
    <3> QED BY <3>2
  <2>2. m_time_sort_list[i].timeout \in Nat /\ time <= m_time_sort_list[i].timeout
    BY <1>5
  <2>3. End(time) <= End(m_time_sort_list[i].timeout) /\ End(time) \in Int
        /\ End(m_time_sort_list[i].timeout) \in Int
    BY <1>1, <2>2, EndIs
  <2> QED BY <1>1, <1>3, <2>1, <2>3
<1>7. ASSUME NEW s \in Telling' PROVE e <= End(new_tm'[s] - Timeout) + Period
  <2>1. s \in Telling /\ s \in Sockets
    BY <1>1 DEF Telling
  <2>2. clock <= End(new_tm[s] - Timeout)
    BY <2>1 DEF TimesInv, Times, Tells
  <2>3. End(new_tm[s] - Timeout) \in Int
    BY <1>1, <1>2, <2>1
  <2> QED BY <1>1, <1>3, <2>2, <2>3
<1>8. e < End(m_cur_tick') + Period
  <2>1. End(time) \in Int
    BY <1>1, <1>2
  <2> QED BY <1>1, <1>3, <2>1
<1>9. CheckAt(e)'
  <2>1. (e < End(m_cur_tick) + Period)'
    BY <1>8 DEF End
  <2>2. (\A i \in DOMAIN m_time_sort_list : e < End(m_time_sort_list[i].timeout) + Period)'
    BY <1>6 DEF End
  <2>3. (\A s \in Telling : e <= End(new_tm[s] - Timeout) + Period)'
    BY <1>7 DEF End
  <2> QED BY <1>3, <2>1, <2>2, <2>3 DEF CheckAt
<1>10. e \in clock'..(clock' + Period)
  BY <1>1, <1>3
<1> QED BY <1>9, <1>10 DEF Checks

LEMMA NextChecks ==
  ASSUME TimesInv, [Next]_vars
  PROVE  Checks'
<1>1. PICK d \in clock..(clock + Period) : CheckAt(d)
  BY DEF TimesInv, Times, Checks
<1>2. /\ TimersTyped /\ ServiceStep /\ clock \in Nat /\ d \in Nat /\ Pending(d)
      /\ ~tick => clock' = clock
  <2>1. TimersTyped /\ ServiceStep /\ clock \in Nat
    BY StepOfService DEF TimesInv, TimersTyped
  <2>2. Period \in Nat
    BY GatewayAssumption
  <2> QED BY <1>1, <2>1, <2>2, TimeNext DEF CheckAt
<1>3. clock' <= d
  <2>1. CASE tick
    <3>1. ~(d <= clock)
      BY <1>2, <2>1, PendingIsDue DEF tick
    <3> QED BY <1>2, <2>1, <3>1 DEF tick
  <2>2. CASE ~tick
    BY <1>1, <1>2, <2>2
  <2> QED BY <2>1, <2>2
<1>4. CASE handle_timer_check
  BY <1>4, CheckedInTime
<1>5. CASE ~handle_timer_check
  <2>1. Pending(d)'
    BY <1>2, <1>5, PendingNext, OnlyCheck
  <2> QED BY <1>1, <1>2, <1>3, <1>5, <2>1, InTime
<1> QED BY <1>4, <1>5

LEMMA InitTimes == Init => Times
<1> SUFFICES ASSUME Init PROVE Times
  OBVIOUS
<1>1. TimersInv /\ HeartInv
  BY InitTimers, InitHeart
<1>2. /\ clock = 0 /\ m_cur_tick = 0 /\ calling = "nothing" /\ early = Timeout
      /\ m_time_sort_list = <<>> /\ stage = [s \in Sockets |-> "new"]
      /\ lastRead = [s \in Sockets |-> 0]
      /\ m_registered_store = <<>> /\ it = 1
      /\ m_tmp_register_list = <<[id |-> 1, what |-> "check", timeout |-> Period,
                                  dest_tm |-> Period, is_loop |-> FALSE]>>
  BY DEF Init
<1>3. Period \in Nat \ {0} /\ Timeout \in Nat /\ Second \in Nat \ {0}
  BY GatewayAssumption
<1>4. time \in Nat /\ time = 0
  <2>1. time \in Nat /\ time * Second <= 0
    BY <1>1, <1>2, TimeIs DEF TimersInv
  <2>2. ~(1 <= time)
    <3> SUFFICES ASSUME 1 <= time PROVE FALSE
      OBVIOUS
    <3>1. 1 * Second <= time * Second
      BY <1>3, <2>1, Monotone
    <3> QED BY <1>3, <2>1, <3>1
  <2> QED BY <2>1, <2>2
<1>5. DOMAIN m_time_sort_list = {} /\ Telling = {}
  BY <1>2 DEF Telling
<1>6. Clocks /\ Tells /\ Ages /\ Knows
  BY <1>2, <1>4, <1>5 DEF Clocks, Tells, Ages, Knows
<1>7. ClosedLate
  <2>1. (Period - 1) \div Second \in Nat
    BY <1>3, WholeSeconds
  <2> QED BY <1>2, <1>3, <2>1 DEF ClosedLate, Late
<1>8. Pending(Period)
  <2>1. Listed
    BY <1>1, WaitingIs DEF TimersInv
  <2>2. Run = 0 /\ Len(m_registered_store) = 0 /\ Len(m_tmp_register_list) = 1
    BY <1>2 DEF Run
  <2>3. 1 \in DOMAIN Waiting /\ Waiting[1] = m_tmp_register_list[1]
    <3>1. Len(Waiting) = 1 /\ DOMAIN Waiting = 1..Len(Waiting)
      BY <2>1, <2>2 DEF Listed
    <3>2. 1 \in 1..Len(m_tmp_register_list) /\ Len(m_registered_store) - Run + 1 = 1
      BY <2>2
    <3>3. Waiting[1] = m_tmp_register_list[1]
      BY <2>1, <3>2 DEF Listed
    <3> QED BY <3>1, <3>3
  <2>4. m_tmp_register_list[1].what = "check" /\ m_tmp_register_list[1].dest_tm = Period
    BY <1>2
  <2> QED BY <2>3, <2>4 DEF Pending
<1>9. CheckAt(Period)
  <2>1. End(0) \in Int /\ End(0) >= 1
    BY <1>3 DEF End
  <2> QED BY <1>2, <1>3, <1>5, <1>8, <2>1 DEF CheckAt
<1>10. Period \in clock..(clock + Period)
  BY <1>2, <1>3
<1> QED BY <1>6, <1>7, <1>9, <1>10 DEF Times, Checks

LEMMA TimesHold == Spec => [](TimersInv /\ HeartInv /\ Times)
<1>1. TimersInv /\ HeartInv /\ Times /\ [Next]_vars => Times'
  <2> SUFFICES ASSUME TimersInv, HeartInv, Times, [Next]_vars PROVE Times'
    OBVIOUS
  <2>1. TimesInv
    BY DEF TimesInv, TimersInv
  <2>2. Clocks' /\ Tells' /\ Ages'
    BY <2>1, NextClocks, NextTells, NextAges
  <2>3. Knows' /\ ClosedLate' /\ Checks'
    BY <2>1, NextKnows, NextClosed, NextChecks
  <2> QED BY <2>2, <2>3 DEF Times
<1> QED BY InitTimes, HeartHold, <1>1, PTL DEF Spec

(* A socket is closed for its silence only when it has been silent for the *)
(* timeout, less what a check can be late.                                 *)
THEOREM OnlySilentAreClosed == Spec => []ClosedOnlyIfSilent
<1>1. Times => ClosedOnlyIfSilent
  BY DEF Times, ClosedLate, ClosedOnlyIfSilent
<1> QED BY <1>1, TimesHold, PTL

(* A socket that has been silent for longer than the timeout, a second and *)
(* a period is not in the list any more: it has been closed.               *)
THEOREM AllSilentAreClosed == Spec => []SilentAreClosed
<1>1. TimersInv /\ HeartInv /\ Times => SilentAreClosed
  <2> SUFFICES ASSUME TimersInv, HeartInv, Times, NEW i \in DOMAIN m_time_sort_list
               PROVE  clock < (m_time_sort_list[i].timeout + 1) * Second + Period
    BY DEF SilentAreClosed
  <2>1. PICK d \in clock..(clock + Period) : CheckAt(d)
    BY DEF Times, Checks
  <2>2. d < End(m_time_sort_list[i].timeout) + Period
    BY <2>1 DEF CheckAt
  <2>3. End(m_time_sort_list[i].timeout) \in Int /\ clock \in Nat /\ Period \in Nat
    <3>1. m_time_sort_list[i].timeout \in Nat
      BY ListIs DEF TimesInv, TimersInv
    <3> QED BY <3>1, EndIs, GatewayAssumption, SMTT(30) DEF TimersInv, TimersTyped
  <2>4. clock < End(m_time_sort_list[i].timeout) + Period
    BY <2>1, <2>2, <2>3
  <2> QED BY <2>4 DEF End
<1> QED BY <1>1, TimesHold, PTL
=============================================================================
