------------------------------ MODULE Gateway ------------------------------
(***************************************************************************)
(* Sockets of a gateway: gateway_socket_controller_t, the heartbeat that   *)
(* closes those that are silent (base_heartbeat_t), and net_stat_t, whose  *)
(* timer makes the heartbeat look.                                         *)
(*                                                                         *)
(* A node of the heartbeat's list is a record with a number of its own;    *)
(* the map's iterator is that number.  Using the iterator of a node that   *)
(* was erased is undefined: the process ends, or goes on as if the node    *)
(* were there.  add() and update() read the clock before they take the     *)
(* mutex, and are two steps.                                               *)
(***************************************************************************)
EXTENDS TimerService, FiniteSetsExt

CONSTANTS MaxUsers,   \* bound: sockets opened and other timers set, together
          Second,     \* ticks of a second, 1000 in the build
          Timeout,    \* m_timeout, in seconds
          Period,     \* ticks between two checks
          MaxClock    \* bound: ticks

Sockets == 1..MaxUsers \* in the order in which they are opened

ASSUME GatewayAssumption ==
  /\ MaxUsers \in Nat /\ MaxClock \in Nat
  /\ Second \in Nat \ {0} /\ Timeout \in Nat \ {0} /\ Period \in Nat \ {0}

VARIABLES
  m_cur_tick,         \* time of the last check
  m_data_map,         \* socket -> its node
  m_time_sort_list,   \* nodes: records of node, value and timeout, the newest first
  stage,              \* stage[s]: "new", "adding", "idle", "updating", "broken"
  new_tm,             \* new_tm[s]: what add() or update() has computed, else 0
  m_last_update_tm,
  closing,            \* the sockets whose close() was called
  others,             \* other timers set so far
  lastRead,           \* history: when a socket was last read
  timedOut,           \* history: the sockets the heartbeat has closed
  early,              \* history: the shortest silence of one it has closed, in seconds
  crashed

heartbeat == <<m_cur_tick, m_data_map, m_time_sort_list>>
sockets   == <<stage, new_tm, m_last_update_tm, closing, lastRead>>
history   == <<timedOut, early>>
vars == <<clock, timers, heartbeat, sockets, others, history, crashed>>

time == clock \div Second

Opened == {s \in Sockets : stage[s] # "new"}

MoreUsers == others + Cardinality(Opened) < MaxUsers

(* net_stat_t::start sets the first check.  The period is m_timeout, which *)
(* counts seconds, taken for milliseconds: less than a second in practice. *)
Init == /\ clock = 0 /\ m_runing = TRUE
        /\ m_tmp_register_list = <<[id |-> 1, what |-> "check", timeout |-> Period,
                                    dest_tm |-> Period, is_loop |-> FALSE]>>
        /\ m_registered_store = <<>>
        /\ thread = "waiting" /\ now_ = 0 /\ it = 1 /\ calling = "nothing"
        /\ registered = 1 /\ ran = {}
        /\ m_cur_tick = 0 /\ m_data_map = [s \in {} |-> 0] /\ m_time_sort_list = <<>>
        /\ stage = [s \in Sockets |-> "new"] /\ new_tm = [s \in Sockets |-> 0]
        /\ m_last_update_tm = [s \in Sockets |-> 0] /\ closing = {}
        /\ others = 0 /\ lastRead = [s \in Sockets |-> 0]
        /\ timedOut = {} /\ early = Timeout /\ crashed = FALSE

-----------------------------------------------------------------------------
(* The controller.                                                         *)
Computes(s, next) == /\ stage' = [stage EXCEPT ![s] = next]
                     /\ new_tm' = [new_tm EXCEPT ![s] = time + Timeout]

Controller == UNCHANGED <<clock, timers, others, history, crashed>>

handle_open(s) == /\ MoreUsers /\ s = Cardinality(Opened) + 1
                  /\ m_last_update_tm' = [m_last_update_tm EXCEPT ![s] = m_cur_tick]
                  /\ lastRead' = [lastRead EXCEPT ![s] = time]
                  /\ Computes(s, "adding")
                  /\ UNCHANGED <<heartbeat, closing>> /\ Controller

(* handle_read: too large a message closes the socket; the heartbeat is    *)
(* told if it has looked since it was last told.                           *)
handle_read(s) ==
  /\ stage[s] = "idle"
  /\ \E too_large \in BOOLEAN : closing' = IF too_large THEN closing \cup {s} ELSE closing
  /\ lastRead' = [lastRead EXCEPT ![s] = time]
  /\ m_last_update_tm' = [m_last_update_tm EXCEPT ![s] = m_cur_tick]
  /\ IF m_last_update_tm[s] # m_cur_tick THEN Computes(s, "updating")
                                          ELSE UNCHANGED <<stage, new_tm>>
  /\ UNCHANGED heartbeat /\ Controller

peer_breaks(s) == /\ stage[s] # "new" /\ s \notin closing
                  /\ closing' = closing \cup {s}
                  /\ UNCHANGED <<heartbeat, stage, new_tm, m_last_update_tm, lastRead>> /\ Controller

-----------------------------------------------------------------------------
(* The heartbeat.                                                          *)
InList(node) == \E i \in DOMAIN m_time_sort_list : m_time_sort_list[i].node = node

(* A node that neither the list nor the map has.                           *)
Fresh == CHOOSE n \in 0..MaxUsers : n \notin Range(m_data_map) /\ ~InList(n)

NewNode(s) == [node |-> Fresh, value |-> s, timeout |-> new_tm[s]]

(* Mutant: new nodes are put at the end that is checked.                   *)
PushedBack(list, n) == Append(list, n)

PushedFront(list, n) == <<n>> \o list

Erased(list, node) == LET at == {i \in DOMAIN list : list[i].node = node}
                      IN IF at = {} THEN list ELSE RemoveAt(list, CHOOSE i \in at : TRUE)

(* What may follow from erasing through an iterator.                       *)
Erases(node) == IF InList(node) THEN UNCHANGED crashed ELSE crashed' \in BOOLEAN

Goes(s, next) == /\ stage' = [stage EXCEPT ![s] = next]
                 /\ new_tm' = [new_tm EXCEPT ![s] = 0]
                 /\ UNCHANGED <<clock, timers, m_cur_tick, m_last_update_tm, closing,
                                lastRead, others, history>>

Mapped(s, node) == m_data_map' = [k \in DOMAIN m_data_map \cup {s} |->
                                    IF k = s THEN node ELSE m_data_map[k]]

add(s) == /\ stage[s] = "adding"
          /\ m_time_sort_list' = PushedFront(m_time_sort_list, NewNode(s))
          /\ Mapped(s, Fresh)
          /\ UNCHANGED crashed /\ Goes(s, "idle")

(* Mutant: the map keeps the old node.                                     *)
KeepsNode(s) == UNCHANGED m_data_map

TakesNode(s) == Mapped(s, Fresh)

update(s) == /\ stage[s] = "updating"
             /\ m_time_sort_list' = PushedFront(Erased(m_time_sort_list, m_data_map[s]), NewNode(s))
             /\ TakesNode(s)
             /\ Erases(m_data_map[s]) /\ Goes(s, "idle")

(* The socket was closed: handle_error, which calls del().                 *)
del(s) == /\ stage[s] = "idle" /\ s \in closing
          /\ m_time_sort_list' = Erased(m_time_sort_list, m_data_map[s])
          /\ m_data_map' = [k \in DOMAIN m_data_map \ {s} |-> m_data_map[k]]
          /\ Erases(m_data_map[s]) /\ Goes(s, "broken")

(* Mutant: a second early.                                                 *)
ExpiredEarly(n) == m_cur_tick + 1 >= n.timeout

Expired(n) == m_cur_tick >= n.timeout

(* timer_check pops the nodes at the end of the list that expired, up to   *)
(* one that has not.                                                       *)
Kept == Max({0} \cup {i \in DOMAIN m_time_sort_list : ~Expired(m_time_sort_list[i])})

Popped == {i \in DOMAIN m_time_sort_list : i > Kept}

-----------------------------------------------------------------------------
(* The timer's thread: handle_timer_check as the callback of the timer.    *)
Timer == UNCHANGED <<clock, sockets, others>>

reads_time == /\ callback
              /\ IF calling' = "check" THEN m_cur_tick' = time ELSE UNCHANGED m_cur_tick
              /\ UNCHANGED <<m_data_map, m_time_sort_list, history, crashed>> /\ Timer

(* Those that are not about to tell the heartbeat of a read, nor closed.   *)
Idle(values) == {s \in values \ closing : stage[s] = "idle"}

timer_close(values) == closing' = closing \cup values

(* timer_check with the mutex held, and the timer is set again.            *)
handle_timer_check ==
  /\ calling = "check"
  /\ LET values == {m_time_sort_list[i].value : i \in Popped}
     IN /\ timer_close(values)
        /\ timedOut' = timedOut \cup values
        /\ early' = Min({early} \cup {time - lastRead[s] : s \in Idle(values)})
  /\ m_time_sort_list' = SubSeq(m_time_sort_list, 1, Kept)
  /\ Register("check", Period, FALSE)
  /\ calling' = "nothing" /\ it' = it + 1
  /\ UNCHANGED <<m_runing, m_registered_store, thread, now_, ran, clock, m_cur_tick, m_data_map,
                 stage, new_tm, m_last_update_tm, lastRead, others, crashed>>

NotTimers == UNCHANGED <<clock, heartbeat, sockets, others, history, crashed>>

OtherThread == stops \/ add_new_timer \/ processed \/ (calling # "check" /\ callback_returns)

TimerThread == reads_time \/ handle_timer_check \/ (OtherThread /\ NotTimers)

(* Another user of the service sets a timer.                               *)
set_timer == /\ MoreUsers /\ m_runing
             /\ others' = others + 1
             /\ once_timer("other", 3) \/ loop_timer("other", 2)
             /\ UNCHANGED <<clock, heartbeat, sockets, history, crashed>>

(* net_stat_t::stop.                                                       *)
stop == destroy /\ NotTimers

(* Time passes.  A timer is late by less than a tick, and add() or         *)
(* update() have the mutex by the beginning of the next second.            *)
Due(list) == \E i \in DOMAIN list : list[i].dest_tm <= clock

tick ==
  /\ clock < MaxClock /\ thread # "ended"
  /\ ~Due(m_tmp_register_list) /\ ~Due(m_registered_store)
  /\ \A s \in Sockets : stage[s] \in {"adding", "updating"} =>
                          clock < (new_tm[s] - Timeout + 1) * Second
  /\ clock' = clock + 1
  /\ UNCHANGED <<timers, heartbeat, sockets, others, history, crashed>>

Controls(s) == handle_open(s) \/ handle_read(s) \/ peer_breaks(s) \/ add(s) \/ update(s) \/ del(s)

(* What sockets do after the stop is as before, and left out.              *)
Next == ~crashed /\ ((\E s \in Sockets : m_runing /\ Controls(s)) \/ TimerThread \/ set_timer \/ stop \/ tick)

Spec == Init /\ [][Next]_vars

(* The timer's thread goes on.                                             *)
FairSpec == Spec /\ WF_vars(~crashed /\ TimerThread)

-----------------------------------------------------------------------------
(* The destructor's join returns, whatever timers there are and even if    *)
(* callbacks set new ones (unless the process ends before).                *)
StopReturns == ~m_runing ~> (thread = "ended" \/ crashed)

NodesOf(s) == {n \in Range(m_time_sort_list) : n.value = s}

(* As long as the heartbeat has not closed a socket, the map leads to its  *)
(* node, the only one the list has for it; a socket that is gone has none. *)
OneNodePerSocket ==
  \A s \in Sockets \ timedOut :
    {n.node : n \in NodesOf(s)} = IF s \in DOMAIN m_data_map THEN {m_data_map[s]} ELSE {}

(* How late a check may be, in seconds: two are counted from whole ones,   *)
(* and the next check comes a period later.                                *)
Late == 1 + (Period - 1) \div Second

(* A socket is closed for its silence only after Timeout seconds of it,    *)
(* less what the check is late.                                            *)
ClosedOnlyIfSilent == early >= Timeout - Late

(* A socket the heartbeat knows is closed when it has been silent for too  *)
(* long: the check finds it although it looks only at the end of the list, *)
(* into which threads may put nodes out of order.                          *)
SilentAreClosed ==
  (m_runing /\ ~crashed) =>
    \A i \in DOMAIN m_time_sort_list :
      clock < (m_time_sort_list[i].timeout + 1) * Second + Period
=============================================================================
