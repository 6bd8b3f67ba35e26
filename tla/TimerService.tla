---------------------------- MODULE TimerService ----------------------------
(***************************************************************************)
(* timer_service_t: timers are put in a list under a mutex; the thread of  *)
(* the service moves them to a store ordered by time, runs those that are  *)
(* due, and erases them.  Timers may be set by callbacks and by other      *)
(* threads.  Time is in ticks (milliseconds in the build).                 *)
(***************************************************************************)
EXTENDS Integers, Sequences, FiniteSets, SequencesExt

VARIABLES clock,
          m_runing,
          m_tmp_register_list,  \* records: id, what the callback does, timeout, dest_tm, is_loop
          m_registered_store,   \* the same, ordered by dest_tm
          thread,      \* of run(): "waiting", "processing", "ended"
          now_, it,    \* arguments and iterator of process_timer_callback
          calling,     \* what the callback being run does, or "nothing"
          registered,  \* history: how many timers were registered; their ids are the numbers
          ran          \* history: ids of the timers whose callback was run

timers == <<m_runing, m_tmp_register_list, m_registered_store, thread, now_, it, calling,
            registered, ran>>

TimersInit == /\ clock = 0 /\ m_runing = TRUE
              /\ m_tmp_register_list = <<>> /\ m_registered_store = <<>>
              /\ thread = "waiting" /\ now_ = 0 /\ it = 1 /\ calling = "nothing"
              /\ registered = 0 /\ ran = {}

-----------------------------------------------------------------------------
(* loop_timer or once_timer, by any thread.                                *)
Register(what, ms, is_loop) ==
  /\ registered' = registered + 1
  /\ m_tmp_register_list' =
       Append(m_tmp_register_list,
              [id |-> registered + 1, what |-> what, timeout |-> ms,
               dest_tm |-> clock + ms, is_loop |-> is_loop])

once_timer(what, ms) ==
  /\ Register(what, ms, FALSE)
  /\ UNCHANGED <<m_runing, m_registered_store, thread, now_, it, calling, ran>>

loop_timer(what, ms) ==
  /\ Register(what, ms, TRUE)
  /\ UNCHANGED <<m_runing, m_registered_store, thread, now_, it, calling, ran>>

(* The destructor, up to the join.                                         *)
destroy == /\ m_runing
           /\ m_runing' = FALSE
           /\ UNCHANGED <<m_tmp_register_list, m_registered_store, thread, now_, it, calling,
                          registered, ran>>

-----------------------------------------------------------------------------
(* Mutant: the flag matters only when there are no timers.                 *)
StopsWithoutTimers == ~m_runing /\ m_registered_store = <<>>

Stops == ~m_runing

(* Insertions in a multimap, of each timer behind those of the same time:  *)
(* how many are not behind the one at i is its place in the store.         *)
Place(all, i) ==
  Cardinality({j \in DOMAIN all : \/ all[j].dest_tm < all[i].dest_tm
                                  \/ all[j].dest_tm = all[i].dest_tm /\ j <= i})

Inserted(all) == [k \in DOMAIN all |-> all[CHOOSE i \in DOMAIN all : Place(all, i) = k]]

(* epoll_wait returns, by its timeout or by the destructor's interrupt.    *)
stops == /\ thread = "waiting" /\ Stops
         /\ thread' = "ended"
         /\ UNCHANGED <<m_runing, m_tmp_register_list, m_registered_store, now_, it, calling,
                        registered, ran>>

(* A timer set between the reading of the clock and the mutex is not due   *)
(* at now_, so that the two are one step.                                  *)
add_new_timer ==
  /\ thread = "waiting" /\ ~Stops
  /\ m_registered_store' = Inserted(m_registered_store \o m_tmp_register_list)
  /\ m_tmp_register_list' = <<>>
  /\ thread' = "processing" /\ now_' = clock
  /\ UNCHANGED <<m_runing, it, calling, registered, ran>>

IsTimeout == it <= Len(m_registered_store) /\ m_registered_store[it].dest_tm <= now_

(* The callback of the next timer that is due begins.                      *)
callback == /\ thread = "processing" /\ calling = "nothing" /\ IsTimeout
            /\ calling' = m_registered_store[it].what
            /\ ran' = ran \cup {m_registered_store[it].id}
            /\ UNCHANGED <<m_runing, m_tmp_register_list, m_registered_store, thread, now_, it, registered>>

(* It returns; a loop timer is registered again.                           *)
callback_returns ==
  /\ calling # "nothing"
  /\ calling' = "nothing" /\ it' = it + 1
  /\ LET t == m_registered_store[it]
     IN IF t.is_loop THEN Register(t.what, t.timeout, TRUE)
                     ELSE UNCHANGED <<m_tmp_register_list, registered>>
  /\ UNCHANGED <<m_runing, m_registered_store, thread, now_, ran>>

(* Mutant: the last of the timers that were due is kept.                   *)
AllButOne == SubSeq(m_registered_store, it - 1, Len(m_registered_store))

Remaining == SubSeq(m_registered_store, it, Len(m_registered_store))

(* None is due any more: those that were are erased.                       *)
processed == /\ thread = "processing" /\ calling = "nothing" /\ ~IsTimeout
             /\ m_registered_store' = IF it > 1 THEN Remaining ELSE m_registered_store
             /\ it' = 1 /\ thread' = "waiting"
             /\ UNCHANGED <<m_runing, m_tmp_register_list, now_, calling, registered, ran>>

-----------------------------------------------------------------------------
Ids(s) == [i \in DOMAIN s |-> s[i].id]

(* How many timers of the store had their callbacks run, and those that    *)
(* wait, in the store and in the list.                                     *)
Run == IF calling = "nothing" THEN it - 1 ELSE it

Waiting == SubSeq(m_registered_store, Run + 1, Len(m_registered_store)) \o m_tmp_register_list

(* A timer that was registered is in one place: in the list, in the store, *)
(* or it was run, and it is run once.                                      *)
EachTimerOnce == /\ IsInjective(Ids(Waiting))
                 /\ Range(Ids(Waiting)) \cap ran = {}
                 /\ Range(Ids(Waiting)) \cup ran = 1..registered
                 /\ \A i \in 1..Run : m_registered_store[i].id \in ran
=============================================================================
