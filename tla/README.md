# FFRPC in TLA+

A specification of FFRPC, a C++ library for remote calls between processes:
nodes (`ffrpc_t`) register the messages they serve with a broker
(`ffbroker_t`), call each other by service name, and get the answer in a
callback. Everything runs in threads that take tasks from queues. The modules
here are written from `src/fflib`; the checks use TLC, the proofs TLAPS.

Contents: [the system](#the-system), [modules](#modules),
[runs](#runs), [bounds](#bounds), [fairness](#fairness), [proofs](#proofs),
[disagreements found](#disagreements-found), [not modelled](#not-modelled),
[what is left](#what-is-left).

## The system

    application --call()--> queue of the node --> node's thread
                                                    |  socket or memory
                                                    v
                                queue of the broker --> broker's thread
                                                    |  socket or memory
                                                    v
                            queue of the service --> service's thread
                            (and the answer back by the same way)

| component | state | operations | hard behaviour | correct when |
|---|---|---|---|---|
| master broker, `rpc/ffbroker.*` | tables of slave brokers and of clients, message ids, id counter, a session per socket | slave and client registration, routing, break of a socket, synchronisation of all peers | registrations, messages and breaks of many sockets in any order; id counter wraps | a name has one owner; tables match sessions; every change reaches every peer; a node's id is told to it alone; no deleted socket is kept |
| slave broker, same files | the tables the master sends | connect to master, route, reconnect | master's break while routing | routes like the master |
| RPC node, `rpc/ffrpc.*` | node id, socket, tables of names, ids, interfaces and waiting callbacks, reconnection timers | `open`, `reg`, `call`, handlers of messages, breaks and timers | `open()` polls what another thread writes; answers late after a break; node ids that change | served once by the right service in order; callback run once with its own answer; reconnected after a break |
| in-process routing table, `rpc/ffrpc_ops.cpp` | node id → node or broker of this process | enter, look up | entries made by lookups, never removed; no lock | a lookup finds the live node |
| callback tables, `base/ffslot.h` | id → callback | `bind`, `del`, `clear` | `bind` keeps what is there; `clear` deletes objects others point to | no deleted object is called |
| connection, `net/socket_impl.*` | send buffer, socket state | `async_send`, `handle_epoll_*`, `close` | partial sends, edge triggering, break while sending | bytes arrive in order; a break is told once |
| event loop, `net/epoll_impl.*` | sockets in error | loop, register, unregister | events of a deleted socket in a batch | no event on a deleted object |
| framing, `net/common_socket_controller.*`, `net/message.h` | bytes received, head, body | `handle_read` | chunk boundaries anywhere | same messages for every chunking |
| gateway, heartbeat, `net/gateway_*`, `net/base_heartbeat.h` | map and time-ordered list | add, update, del, check | timeout racing an update or a close | map and list agree; a timeout is reported once |
| connector, acceptors, `net/net_factory.h` | threads, queues, event loop | `connect`, `listen`, `start`, `stop` | order of stopping | nothing uses a queue that is gone |
| task queue, `base/task_queue_impl.h` | list, flag, mutex, condition | `produce`, `multi_produce`, `consume`, `consume_all`, `close` | wake-ups, close while threads wait | no lost wake-up; each task once; in order; close drops nothing and ends every thread |
| timer, `base/timer_service.h` | two lists of timers, a thread | `timer_callback`, `run`, destructor | timers set by timers, destruction while running | a timer runs once, not early |
| serialisation, `net/codec.h` | — | encode, decode | lengths that a message gives and does not hold | reading back gives what was written; a message cut short throws |
| text and http controllers, `net/text_socket_*`, `net/http_acceptor.*` | protocol, head, body | parsing, replies | chunk boundaries, two requests in a chunk | one call of the handler for each request |
| smart pointers, log, performance daemon, utilities | — | — | — | see [not modelled](#not-modelled) |

Interactions: the network thread turns what a socket reads into tasks of the
node's or the broker's queue; the timer's thread puts reconnection tasks in
the node's queue; the application puts calls there; within one process the
broker's thread puts messages directly into the queue of a node. No table of
a node or of the broker is touched by a thread other than its own, with two
exceptions: the in-process routing table and what `open()` polls. Below that,
the epoll thread turns events of descriptors into tasks of the pool's queues,
one queue to a socket, and the heartbeat closes silent sockets from the thread
of the timer service.

`PROJECT.json` lists every component with its sources, and 37 hazards at the
lines where they bite, with the properties that cover them. A hazard without a
property has a note why: the code does not meet the promise, nothing promises
otherwise, or what follows has no defined outcome to model.

## Modules

| module | models | code |
|---|---|---|
| `Network` | a connection as two FIFO directions, its break, the deletion of the socket object on each side; the message bodies | `net/socket_impl.cpp`, `rpc/ffrpc_ops.h` |
| `MemoryRoute` | the in-process table and the task queues it reaches | `rpc/ffrpc_ops.cpp` |
| `Broker` | the master broker: one action per handler | `rpc/ffbroker.cpp` |
| `BrokerPeers` | `Broker` among arbitrary peers that connect, register, route, read and vanish; the broker's properties | |
| `Registry` | abstract: who is in, and under which name | |
| `FFRpc` | the nodes: one action per task, per producer of tasks, and for `open()` | `rpc/ffrpc.cpp`, `rpc/ffrpc.h`, `base/ffslot.h` |
| `System` | `Broker` and `FFRpc` over `Network`; the properties of calls | |
| `CallContract` | abstract: a call is asked, served, answered, each at most once | |
| `TaskQueue` | `task_queue_t` with any number of threads | `base/task_queue_impl.h` |
| `Executor` | abstract: what the owner of a one-thread queue relies on | |
| `Socket` | one connection: its task queue, the event loop, the kernel and the peer | `net/socket_impl.*`, `net/epoll_impl.*` |
| `ByteLink` | abstract: bytes leave in order, a break is told once | |
| `Framing` | messages from chunks of bytes | `net/common_socket_controller.*`, `net/message.h`, `net/msg_sender.h` |
| `Codec` | serialisation of the types the messages are made of, as functions | `net/codec.h` |
| `MCFraming` | `Framing` with the messages of the broker, serialised by `Codec` | `rpc/ffrpc_ops.h` |
| `TextController` | text requests and http from chunks of characters, replies | `net/text_socket_controller_impl.*` |
| `TimerService` | two lists of timers and the thread, as operators on its variables | `base/timer_service.h` |
| `Gateway` | sockets of a gateway, the heartbeat and the traffic timer, on `TimerService` | `net/gateway_socket_controller.*`, `net/base_heartbeat.h`, `net/net_stat.cpp` |
| `NetFactory` | the threads of a process from `start()` to `stop()`: pool, epoll thread, acceptors | `net/net_factory.h`, `net/acceptor_impl.cpp`, `net/epoll_impl.cpp`, `base/task_queue_impl.h` |
| `MCBrokerPeers`, `MCSystem`, `MCText` | constants for TLC | |
| `BrokerLemmas` | lemmas about the operators of `Broker` and about tables, queues and ids, for the theorems below | |
| `BrokerProofs`, `SystemProofs`, `RoutingProofs`, `TaskQueueProofs`, `SocketProofs`, `NetFactoryProofs`, `GatewayProofs` | theorems | |

How they stand on each other: `TaskQueue` with one thread implements `Executor`,
which is how `Broker`, `FFRpc` and `Socket` take their queues (one task after
another, in the order of production). `Socket` implements `ByteLink`, and
`Framing` gives the messages back that were sent as bytes: together the grounds
on which `Network` takes a connection as a FIFO of messages that breaks once.
`BrokerPeers` and `System` compose `Broker` and `FFRpc` over that network, and
implement `Registry` and `CallContract`.

### How state and actions correspond to the code

*Names.* Variables and actions have the names of the members and methods
they stand for. A `std::map` is a function whose domain changes
(`Insert`, `Erase`); a node's table of names is `m_broker_client_name2nodeid`
in the code and here.

*Granularity.* The broker and every node are single-threaded: their queues
are run by one thread. One handler or one task is therefore one action, with
every call it makes, such as the synchronisation at the end of a registration.
That one thread on a `task_queue_t` really runs tasks one by one and in order
is itself stated (`Executor`) and proved for `TaskQueue`. In `TaskQueue` a step
is what a thread does while it holds the mutex. In `Socket` a step of the queue
is one system call with what is done about its result, and a step of the event
loop is one event of a batch; in `Framing` and `TextController` it is one turn of
the parser's loop; in `Gateway` and `NetFactory` what is done under one lock, or
one statement of `stop()`.

*Links.* A direction of a connection in `Network` stands for send buffer,
kernel, framing and, towards the broker, the broker's queue: since only
sockets feed that queue, one FIFO per connection with an arbitrary choice
among them gives the same orders of handling as the one queue. Towards a node
the node's queue `tq[n]` is explicit, because the broker's thread also fills it
in memory. A break may lose any suffix of what was sent and not read. Each
connection is made at most once (`Conns` are the `socket_ptr_t`s of a run).

*Messages.* Fields the handlers read, no strings. A request's body says which
call it belongs to, and an answer's body which call it answers, so that the
properties can tell whether the right callback was run with the right answer.

*Undefined behaviour.* `handle_broken_impl` deletes callback objects that the
node binds again after it has reconnected. Using such an object either works or
ends the process (`crash`, with all nodes of the process). So it is with an
event handled or a task run on a deleted socket object (`Socket`), with the iterator of an
erased node of the heartbeat's list (`Gateway`) and with a deleted acceptor that
is still among the descriptors in error (`NetFactory`): `crashed` becomes true or
the code goes on. What the text parser reads behind a chunk is any of `Stale`.

*History variables.* `allocs` (how often `alloc_id` was called), `told`,
`view` in `BrokerPeers`; `issued`, `refused`, `served`, `ran` in `FFRpc`;
`produced`, `onTime`, `executed` in `TaskQueue`; `given`, `wire`, `heard`, `told`
in `Socket`; `sent`, `delivered`, `frail` in the parsers; `lastRead`, `early`,
`timedOut`, `ran` under the timers; `finished`, `forgotten` in `NetFactory`. They do not
influence the code's state, except that `told` gives a routing peer its id,
`issued` keeps an application from making one call twice, and some of them bound
what the environment does. They are marked "history" where they are declared.

*Operators called "Mutant".* Beside some definitions stands a wrong version of
it, marked "Mutant" in its comment: a plausible mistake in that code.
`PROJECT.json` pairs each with a property that fails when the wrong version
takes the place of the right one. No specification uses them.

## Runs

Passing runs:

- **BrokerClients** (`BrokerPeers`; three nodes competing for one name, beside
  a slave of this repository): whatever order registrations and breaks come
  in, a name has one owner (`NamesUnique`), tables and sessions match
  (`TablesMatchSessions`), no id is given twice before the counter has wrapped
  (`IdsDistinctUnlessWrapped`), and membership follows `Registry`
  (`ImplementsRegistry`).
- **BrokerSlaves** (two nodes that route messages as well, two slave brokers):
  a client is bound to a live slave or, if there is none, to the master
  (`BoundToLiveBroker`), although lookups enter ids in the routing table that
  `alloc_broker_id` then takes for nodes of this process; no table keeps a
  deleted socket (`NoDanglingSock`), also after the id counter has wrapped;
  what every peer was last sent is what the broker holds (`PeersInSync`). Until
  the wrap a node's id is told to that node alone (`ClientIdToldToOwner`), whatever
  slaves come and go; a slave's id is not (`ffbroker.cpp:304`, see below).
- **SystemCalls** (a service and a client, each with one connection, nothing
  breaks; calls to a service by another node and by itself, one with a message
  name nobody has registered, one whose callback throws, one whose interface
  throws): calls are served in order (`CallsInOrder`), and every `open()` ends
  (`OpenEnds`). A call for an interface that is offered ends (`EveryCallEnds`), with two
  exceptions, both stated in the property and both reached. An interface that
  throws has been served and gives no answer (`ffrpc.cpp:281`). And a callback that
  throws deletes an entry from the table of *commands*, under its own id
  (`ffrpc.cpp:286`): `FirstCallbackId` is 4, so that the first callback of a node has id 5,
  and a node that loses command 5 gets no message any more, neither requests nor
  answers. Calls that such a node makes or should serve may not end; without this
  exception, or without the other, the run fails. It also fails if the exception is
  kept for only one of the two ends of a call.
- **SystemBreaks** (the client in the broker's process, the service outside; one
  connection of either breaks, one attempt to connect fails, nodes register
  again under new ids): a call is served and answered at most once
  (`ImplementsContract`), by the service asked for (`ServedByTarget`). Since each
  success sets the reconnection timer again, a node may hold several connections;
  the broker takes them for different nodes and refuses all but one, and a
  synchronisation of an old one may be handled last and leave the node with names
  and an id that are not true any more. A node with no synchronisation under way,
  which has seen the end of all connections but the one it uses, has the broker's
  table of names and its own id (`NamesCurrent`);
  answers in memory survive the break of the connection the request went by, and
  still no callback is run with another call's answer (`CallbackGetsAnswer`),
  because callback ids are never used again.
- **TaskQueueThreads** (three threads, one of them with `batch_run`, three
  tasks, the queue closed at any moment, spurious wake-ups): no wake-up is lost
  (`NobodyLeftAsleep`) although `produce` signals only when the list was empty;
  each task is in one place (`EachTaskOnce`); every thread takes tasks in order
  (`InOrder`); tasks produced before `close()` are run (`OnTimeTasksRun`) and
  every thread ends after it (`ThreadsEnd`).
- **Sockets** (`Socket`; the owner sends, the peer sends, shuts down or resets,
  sends are cut anywhere, other sockets share the batches of events): the wire
  carries what was given, in order (`BytesInOrder`); as long as there is something
  to read, or to send and room for it, an event or a task for it is on its way
  (`NoEventLost`), which is the hard part of edge triggering; the owner is told of
  a reset or of its own `close()` (`BreakIsTold`), once and only after the
  connection is down (`ImplementsLink`). That an event is handled on an object
  that `safe_delete` has deleted, when both are in one batch, is reachable, and so is
  a task behind the one that deletes; the process then ends or goes on as with a
  closed socket, and the properties promise nothing of one that has ended.
- **FramingValues** (`MCFraming`; two of the broker's messages cut into chunks in
  every way): the handler gets the messages that were sent (`MessagesAsSent`), each
  decodes to the value that was encoded (`ReadBackAsSent`), and what has come of
  a message that is not complete decodes to nothing but an exception
  (`TruncatedThrows`). The properties leave out one kind of chunk (`frail`): one
  that ends inside a head when the bytes of the size received so far are all 0.
  `handle_read` then takes the rest of the head for still to come and a body of
  length 0 for complete, and hands a message on that nobody sent.
- **TextRequests** (`MCText`; three text requests or one over http, in any
  chunks): the handler is called once for each (`OneCallPerRequest`), with the path
  for http (`PathHandled`), and a well-formed line is refused only behind another
  request in one chunk (`FirstLineUnderstood`). Left out are chunks that end
  between CR and LF, which the code does not recognise. A line that is not the
  first of its chunk is copied with a length that counts from the start of the
  chunk: the parser reads behind it, and may send "ERROR". The handler always gets
  an empty body, for the message's head has size 0.
- **Gateway** (two sockets that talk, fall silent or break, other timers set by
  threads and callbacks, the service stopped at any moment): list and map of the
  heartbeat agree for sockets it has not closed (`OneNodePerSocket`), only silent
  sockets are closed (`ClosedOnlyIfSilent`, to a second), each of them is
  (`SilentAreClosed`), although only the end of the list is looked at while
  threads may insert out of order; a timer runs once (`EachTimerOnce`), and
  the destructor's join returns (`StopReturns`). After the heartbeat has closed a
  socket its map keeps an iterator to the erased node; `del` or `update` of that
  socket is undefined, and in the model the process then ends or goes on.
- **NetFactory** (two threads of the pool, an acceptor, two sockets, `stop()` at
  exit): a socket's tasks are run in order and by one thread at a time
  (`SocketInOrder`), what was produced before its queue was closed is run before
  the pool is deleted (`NothingDropped`), an edge-triggered acceptor forgets no
  connection although `accept` may fail (`EveryConnectionSeen`), and `stop()`
  returns (`StopReturns`). Where `accept` fails with an errno the code does not name
  (`acceptor_impl.cpp:126`) the event is not asked for again, and the connections that
  wait are excepted until the next event (`forgotten`). An acceptor deleted by `stop()` while the epoll
  thread still has it to tell of its error is reachable.

The runs **SystemWrongName** and **SocketEof** find violations, see
[disagreements found](#disagreements-found).

Deadlock is not checked, for the systems here really stop: connections, calls,
bytes and timers are finite in number, and a queue that is closed ends its
threads. In place of it the properties with "End", "Told", "Run", "Returns" and
"Closed" in their names say what may not be waited for in vain.

`BrokerClients`, `BrokerSlaves` and `SystemBreaks` use symmetry, over connections
of like nodes or over like calls; their properties over behaviours are safety properties without
fairness. Runs with liveness use no symmetry. `SystemBreaks` has the state
constraints `OneOfThree`: the service connects again, or the client calls twice, or
the client connects a third time, not two of these in one behaviour; and
`MadeInOrder`: connections of one node differ in nothing, and are made in one order.

## Bounds

- `Conns`, and with them reconnections: three nodes show two competing for
  what a third gives up. In `System` a node that may break has two connections,
  so that the second registration, with new ids, meets messages of the first;
  the client has a third, since a success sets the timer again.
- `MaxBreaks`, `MaxFailures`: connections broken by peers or the network, and
  attempts to connect that fail. Two breaks in `BrokerClients` let a name
  be freed twice; closes by the broker itself (a name taken) count among the
  broken connections but are never prevented.
- `MaxQueue`: messages routed that wait on one connection. Registrations,
  synchronisations and answers are not bounded by it.
- `MaxId` is 2^32 − 1 in the build. In `BrokerSlaves` it is 3 while four peers
  register, so that the counter wraps, skips 0 and gives an id that may be in
  use. `NoDanglingSock`, `PeersInSync` and `BoundToLiveBroker` hold there even
  so. `IdsDistinctUnlessWrapped` and `TablesMatchSessions` are claims up to the
  wrap only, and `BrokerClients`, which refines `Registry`, has ids to spare: a
  node whose id is given away leaves the table without having left, which
  `Registry` does not allow. The theorems hold for every `MaxId` that is more
  than the number of message names.
- `HostLength`: the length of a slave's host, which the master decodes as a
  node id (see below). In `BrokerClients` it is an id that no node reaches, as
  in a system with fewer registrations than `tcp://127.0.0.1:10241` has
  characters. With more, the slave takes over the entry of that node, and
  `TablesMatchSessions` fails.
- `FirstCallbackId`: callback ids already used. The counter starts at 0 in
  the code, so that every value is one the program reaches.
- `Fresh` in `FFRpc`: a reconnection timer only expires when a connection is
  left to be made.
- `MaxBatch`: the length of a list given to `multi_produce`.

Messages (`Msgs`) and names are few because handlers only compare them; two
message names suffice for one that is registered and one that is not.
- `Socket`: `MaxGiven` 3 bytes give a message cut in two with one waiting behind
  it; `RecvSize` 2 against `MaxHeard` 2 gives reads that fill the buffer and
  reads that fall short. `MaxTasks` bounds what the owner adds to the queue, not
  what the event loop adds.
- `Framing`: bytes of 5 values, heads of 5 bytes of which 3 are the size, so that
  sizes have 0 as their first byte, as their last and in between. Every message
  type of the broker occurs, two in a stream.
- `Gateway`: a second has two ticks, a timeout two seconds, and time goes to 7
  ticks: open, update, silence and close of two sockets fit. Timers are late by
  less than a tick, and `add` and `update` take the mutex by the beginning of the
  second after the one they read; without some such bound
  nothing could be said of when a socket is closed.
- `NetFactory`: two queues, so that a socket could change its queue; two
  descriptors with two tasks each.

## Fairness

`System!FairSpec` has weak fairness for the broker's thread per connection (its
queue is FIFO, so a message at the head of a connection is reached), for each
node's thread, for the network thread per connection (what a connected socket
receives is read in the end: that edge-triggered events do reach the task is
what `Socket` shows), for timers and for the loop of `open()`, which polls without
end (`usleep(1)`). Nothing forces an application to call, a node to open, or a
connection to break. `TaskQueue!FairSpec` has weak fairness for each thread that
is not waiting on the condition: the mutex is held for a few instructions, and
tasks return. No fairness says that a waiting thread wakes: that it is woken is
what is checked. `Socket!FairSpec` is fair to the thread of the queue and to the
event loop, and to nothing the owner, the peer or the kernel does;
`Gateway!FairSpec` to the thread of the timer service; `NetFactory!FairSpec` to
the main thread once it is in `stop()`, to the epoll thread and to each thread of
the pool, as long as the process has not ended. `BrokerPeers`, `Framing` and
`TextController` have no fairness.

## Proofs

Assumptions, all stated where the constants are declared: `NoConn` is no
connection (`NetworkAssumption`); message names are a finite set of naturals,
fewer than `MaxId` (`BrokerAssumption`; without it the counter could hand out
one id twice within a registration); peers are of the three kinds, and bounds
are naturals (`PeersAssumption`); batching threads are threads and a batch
holds at least one task (`TaskQueueAssumption`); the read buffer takes at least
one byte (`SocketAssumption`); a pool has a thread, and no acceptor is called as a
state of the epoll thread (`NetFactoryAssumption`); a second, the timeout and the
period of checks take some time (`GatewayAssumption`); the functions that describe
nodes and calls have their types (`SystemAssumption`). Some theorems have hypotheses
besides, on behaviours, states or constants. `NotWrapped`: `alloc_id` has not come round
2^32 ids, after which the code itself promises nothing. `NoHostTakenForId` and
`AllOffered` are explained where they are used, with what happens without them.

`BrokerProofs`:

- `TypeCorrect`. The invariant proved is `TypeInv`, stronger than `TypeOK`
  in one place: it types every message on its way to a peer whole, and not only
  synchronisations, as needed for the step that sends and reads. The lemmas follow
  the operators of `Broker`: what `alloc_id` gives (never 0), that the rank of
  an element in a finite set of ids picks one (`RankExists`, for
  `alloc_broker_id`, by an induction of its own over bounds), that rebinding
  keeps the type of the table; then one lemma per action.
- `UniqueNames`. `NamesUnique` is inductive together with `TypeInv`: a
  registration is refused while the name is held, rebinding changes no name,
  and ids wrapping onto a key in use replace that entry and add no name twice.
- `DistinctIds`. `IdsDistinctUnlessWrapped` says nothing of ids that are no longer
  in a table, and is not inductive; `FreshIds` is: until the wrap,
  `m_node_id_index` is the number of allocations, and every id in a session or in
  the table of messages is at most that.
- `LiveBrokers`. `BoundToLiveBroker` is inductive with `TypeInv`: every handler
  that changes the slaves ends with a synchronisation, and what that binds is
  taken from the slaves there are (`BrokerIdRegistered`, which rests on
  `RankExists`), or is the master.
- `NoDeletedSocket` and `MatchingTables`, under
  `NoHostTakenForId == OwnSlaves = {} \/ HostLength \notin Ids`: the length of a
  slave's host is not a number the counter can give. Where it is the id of a
  registered node, `ffbroker.cpp:78` lets the slave take over that node's entry,
  and both properties are false. The invariant `Owned` says that an entry
  stands under the session of its socket (`EntriesOwned`), and which
  messages can still arrive (`Arrivals`): a registration only first and on a
  connection without a session, so that one never changes
  the session an entry relies on; nothing after a break.
  `Entered` adds the other direction, until the wrap: who has a session is in a
  table.

- `PeersToldAll`, under `NoHostTakenForId`. `PeersInSync` speaks of the last
  synchronisation on its way to a peer, or read by it, and is inductive with
  `Owned` once the lemmas say what a handler does to a peer's queue: nothing, or a
  synchronisation with what the broker then holds (`sync_all_register_info` is
  the last thing each handler does), or a cut of the queue by a break, after which
  the peer is not one the property speaks of. Ids may wrap.
- `ClientIdsTold`: `ClientIdToldToOwner`, under the same and `[]NotWrapped`, for any
  slaves. `sync_all_register_info` carries the id it has set to the peers behind, but
  sets that of a node only at the node's own entry, which is the last: no entry has a
  greater id than the one just given. The invariant `ToldInv` also speaks of ids whose
  session has ended, which must not be given again, and of nodes that have no
  session yet.
- `RegistryImplemented`, under `NoHostTakenForId` and `[]NotWrapped`. By `Owned`
  the entries of a connection are one, its session's, or none (`EntriesOneOrNone`),
  so that a step maps to a step of `Registry` by what it does to these: a
  registration adds one under an id that by `FreshIds` nobody has, to a connection that
  by `Owned` has none and under a name no entry has, and is `Join`; a break takes
  away the one, which is nobody else's, and is `Leave`; all else is a stutter.

`SystemProofs`:

- `TypeCorrect`, for nodes, broker and network together. Queues of messages and tasks
  are typed by their elements (`Items`), so that each action needs one fact, what
  it adds: a lemma for each way of changing a queue (append, take, cut, clear)
  says whose elements the new queue has, and at which places (`Follows`).

`RoutingProofs`, the first four theorems under `[]NotWrapped`: one invariant `RoutingInv`
for two, and on top of it `NamesInv` for a third and `CallsInv` for a fourth; the
order of calls has its own invariant, `OrderInv`, and needs no bound on ids. What
was served and run is history, of which nothing follows for the next step; what
follows is from these.

- `Owners`: what the broker knows of a connection is true of the node that made it.
  Only the first message of a connection is a registration, and it is its owner's;
  who has a session sends only messages to route. So an id in the table of
  clients stands for a node with that name and these interfaces.
- `HeldOnce`: an id a node goes by, has been told in a synchronisation on its way, or is
  entered with in the process's routing table, belongs to a connection that this node
  made, and hence to no other node. A node keeps old ids (of connections it has lost
  or has not been told of), and tables keep theirs; none of them ever leads to
  somebody else, because until the wrap no id is given twice.
- `Good`: every id, name and message name in what travels or waits (`GoodItems`) and
  in what nodes have copied (`GoodNodes`) was true once and, by the other two, can
  only lead to the right node or to nobody: a request on its way to an id is for
  the service of that id's owner, its message's number is that of the message
  that its call asks for, an answer on its way to a node carries the callback id
  under which this very node waits, or waited, for it.
- `RequestsReachTarget`: `ServedByTarget`. The service found in the table by number has
  the interface asked for, since the number is that name's.
- `AnswersReachCallback`: `CallbackGetsAnswer`, under `AllOffered`: nodes of a service
  have the interfaces for all that is asked of it. Without it a request can have
  message number 0, which means an answer (**SystemWrongName**). Callback ids are
  not used again, so that an id meets its own callback or none.
- `NamesAreCurrent`: `NamesCurrent`, with the invariant `NamesInv`. `NamesCurrent` speaks of
  a node to which nothing is on its way; `News` of every node that is registered by the
  connection it uses and has no other (`Up`), namely of the last synchronisation on its way:
  of those in the connection, or if there is none in the node's tasks, or if there is
  none there either of what the node has read. It has the table of the broker;
  and for the id likewise, of the last one that has an id. Each registration and
  each break ends with a synchronisation for all that have a session
  (`RegisterNews`, `BrokenNews`, which need that whoever has a session has an entry,
  `SessionsIn`). That no other connection speaks last is `Heard`: a connection
  the node is done with is broken and read to its end, also while the
  task that will delete it waits (`BrokenOver`), and one that has no session yet
  is silent. TLC checked `NamesInv` on the `System` runs before the proof.
- `CallsKeepContract`: `System` implements `CallContract`, under `[]NotWrapped` and
  `AllOffered`. That a call is served once at most does not follow from what the
  interface does, which would serve every request that comes, but from the request being
  in one place at most. `At` enumerates the places where the request or the answer of a
  call can be: on its way to the broker, on its way to a node, in a node's tasks (as the
  call, as a message read, as one routed in memory, as the response), served, and
  run. `CallsInv` says that each of both is at one place, that what is anywhere has been
  asked for, and that an answer is only where its request was served. A step
  takes at most the first item of each queue and adds at most one at the end
  (`Follows`, `PlaceMoves`), so that a step preserves `CallsInv` if it brings nothing to
  two places and puts down only what it has taken (`PassingStep`, `OneGets`): a broken
  connection or a cleared table loses items and doubles none. New are the request
  of a call that was not issued before (`CallInOrder`) and the answer of one that was
  not served before (`InterfaceInOrder`), because the request was then in the
  node's tasks. By `RoutingInv`, what an interface runs is a request and what a callback
  runs with is its own answer. Hence a step of the histories moves one call one stage on
  (`StageStep`), and the stage the refinement reads off them is that (`StageIs`).
- `PairsAreInOrder`, `CallsAreInOrder`: `CallsInOrder`. The way of a call from the node that
  makes it to the one that serves it has five stages (`Spot`): the caller's tasks, its
  connection, the server's connection, the server's tasks, and what it has served. `Tracked`
  says that of two calls of one node the one that is further on was made earlier; for
  two calls that have been served this is the property, since no call is made twice
  (`IssuedOnce`). Every step takes at most the first item of a queue and puts at most
  one at the end; a step that puts a call into a stage takes it from the front of the
  stage before (`Passes`), so that it overtakes nothing and nothing is behind it that was
  made earlier (`PassOrder`); what a break loses leaves the others in order
  (`SpotsShift`). The invariant is stated for each two nodes that have made one connection
  each (`OneConnection`), whatever the others do: which connection a stage is does
  not change then. It rests on `Ownership`: calls are in the queues of the node
  that made them, a node sends on a connection of its own, a connection not made yet is
  empty, and only nodes of the broker's process are given requests in memory. Both
  hypotheses are needed, and TLC has a counterexample without either: a node that
  connects again can have a later request handled by the broker before an earlier
  one still in its broken connection, and a service in the broker's process can
  be given a request in memory while an earlier one is unread in its connection. TLC
  checked `OrderInv` on the bounds of both `System` runs before the proof.
- `OneConnectionUntilBroken`, `UnbrokenCallsAreInOrder`: a node makes a second connection only
  once one of its connections has broken, so that calls are in order while none has.
  The invariant is `SteadyUntilBroken`: until then the node's timer is not set, no task
  that handles a break or connects waits, and a node that is not open has no
  connection. The hypothesis is about links alone and says nothing of what is
  refused or throws.

`TaskQueueProofs`:

- `TypeCorrect`.
- `NoLostWakeUp`: with at least one thread. The inductive invariant is
  `NobodyLeftAsleep` with `NoneEnded`: while the queue is open no thread has
  ended, which is why the thread that a signal finds waiting, or the thread that
  is not waiting when no signal is sent, will come back for the task.
- `ThreadsKeepOrder`, for any number of threads. What a thread has run, has taken
  and could still take (`Queued`), one after another, is an ordered part of what
  was produced; producing appends to both, taking moves within the first or
  drops from it what another thread took.
- `TasksRunOnce`: `EachTaskOnce`, for any number of threads. The invariant `OnceInv` says
  that what was produced, what is in the list and what a thread owns (has run or
  taken) are sequences without repetition, that no two threads, and no thread and the
  list, have a task in common, and that together they have what was produced. A thread takes
  a front part of the list and runs the first of what it has taken; from the invariant
  the number of places follows, one for what was produced and none for other tasks.
- `OneThreadIsExecutor`: initial states map to initial states; `produce` and
  `multi_produce` are `Submit`, `run` is `Run`, and what a thread takes under the
  mutex moves tasks from one part of `pending` to the other, a stutter.

`SocketProofs`:

- `TypeCorrect`, with the inductive invariant `Inv` of all four theorems. Its
  parts: `ToldOnce` and `ClosedFirst` follow a break along its way, from the
  descriptor's closing over the set of descriptors in error and the task
  to the owner, and say that it is at one place of it at a time; `Ordered` says
  that what was sent, what waits in `m_send_buffer` and what waits in the queue
  are the numbers given, one after another, and on a connection that is up none
  is missing.
- `EventsArrive`: `NoEventLost`, inductive with these.
- `BytesLeaveInOrder`: `BytesInOrder` follows from `Ordered`.
- `LinkImplemented`: every step of `Socket` is one of `ByteLink` or a stutter.

`NetFactoryProofs`:

- `ConnectionsSeen`: `EveryConnectionSeen` is inductive once an acceptor that does
  not listen yet has no connections (`Waits`). It excepts what the run excepts:
  an acceptor whose last event ended in a failure the code does not name.
- `SocketsInOrder`. The invariant `PoolInv` says where tasks are: each is in its
  socket's queue or with the thread that serves it, and no two threads serve
  one queue (`InPlace`, `OneThreadPerQueue`); those of a socket are in order in
  each list, and a thread's before the queue's (`Sorted`); and none that was not
  run is missing (`NoneMissing`). Hence the first one a thread has is the one its
  socket waits for (`HeadIsNext`), and `run_task` keeps the order.
- `AllTasksRun`. `EndInv` adds that `m_index` counts the threads that have begun,
  so that when all have ended every queue had one, and that a queue whose thread
  has left it holds nothing produced before `close()` (`LeftDrained`).

`GatewayProofs`, for any number of sockets, timeout, period and length of a second:

- `TimersRunOnce`: `EachTimerOnce` of `TimerService`, in `Gateway`, which is where it runs. What
  waits is one sequence, the rest of the store and then the list (`Waiting`), and a step runs
  the first of it, appends one, or puts it in another order (`StepOfWaiting`). That inserting
  in the store permutes is `InsertedIs`: places are distinct numbers among as many
  timers as there are (`FS_Injection`).
- `NodesMatchSockets`: `OneNodePerSocket`. In `NodesInv` a node in the list is the one the map
  has for its socket, nodes and the map's entries are distinct, and only a socket that the
  heartbeat has closed may have none. A step leaves some nodes in their order and
  may put one before them (`Changed`); there is always a number for it, since
  every number in use is in the map (`FreshIs`).
- `OnlySilentAreClosed` and `AllSilentAreClosed`, from the invariant `Times`. There is always a
  check to come, a period away at most (`Checks`): time does not pass while it is due, and
  the one that runs sets the next. What `add` and `update` have computed is of this second
  or the last (`Tells`), so that the list is in order but for a second (`Ages`); a check that
  stops at a node that has not expired therefore leaves none behind it that is older
  than the current second (`CheckedInTime`), and all of them are found in time by the next.
  For the other direction, a socket is told of a read only if a check has come since
  the last one that was told, so that what the heartbeat does not know of is
  as old as the last check at most (`Knows`), which is `Late` seconds (`LateIs`). TLC
  checked `Times` with periods of one and of three ticks before the proof.

Only model-checked: all liveness (out of the prover's reach); and the parsers (what a
recursive definition such as `Encode` computes for every value is out of the
prover's reach).

## Disagreements found

With a run that TLC refutes; `PROJECT.json` quotes the lines.

1. **SystemWrongName / `CallbackGetsAnswer`** (`ffrpc.cpp:304`): a message name
   nobody registered is sent with id 0, which means an answer (the comment at
   `ffrpc.cpp:250`); the service runs a waiting callback of its own with it.
2. **SocketEof / `BreakTold`** (`socket_impl.cpp:70`): a read that does not fill the
   buffer ends the loop. A peer that shuts down together with its last bytes
   raises one event for both, and `handle_error`, which is to be called "when
   socket broken(whenever)" (`common_socket_controller.cpp:24`), is not.

Seen while modelling, in the modules as the code has it, without a run:

- `ffbroker.cpp:304`: `sync_all_register_info` sets `msg.node_id`, "被分配的node id" (the
  id assigned, `ffrpc_ops.h:470`), within its loops over peers and never resets it;
  when a slave registers, the peers behind it are sent the slave's id, and nodes
  adopt it. No peer of this repository sends `BROKER_SLAVE_REGISTER`, which the
  handler is for.
- `ffbroker.cpp:78`: a slave registers under `CLIENT_REGISTER_TO_SLAVE_BROKER`, though the
  comment three lines above speaks of the registration at the master. The master
  decodes the length of the host's name as a node id and, if that is registered,
  takes the slave's socket for that node's, which makes `TablesMatchSessions` false.
  `OwnSlaves` models this; **BrokerClients** and the theorems take a length that is no
  registered id. The repository's slaves never become slaves of the master.
- `ffrpc.cpp:286`: a callback that throws deletes under its own id from `m_ffslot`, the
  table of the broker's commands, and not from `m_ffslot_callback`. Callback 4 costs
  the node its synchronisations, callback 5 all messages; see the run SystemCalls.
- `ffrpc.cpp:98`: the reconnection timer is set again after a success, so that a
  node makes one connection after another; `ffrpc.cpp:92`: it is not set again after
  a failure, so that a node whose attempt fails stays without a broker.
- `ffrpc.cpp:151`: the interfaces bound after a reconnection are objects deleted at
  the break.
- `ffrpc_ops.cpp:42`: with a node in the broker's process, a request in memory
  overtakes an earlier one that went by the socket.
- `ffrpc_ops.cpp:49`: `client_route_to_broker` looks for a broker under the
  destination node's id, where no broker ever is, so that the way in memory to
  the broker, announced in `README.md:137` of the repository, is not taken.
- `common_socket_controller.cpp:50`, `text_socket_controller_impl.cpp:213`,
  `base_heartbeat.h:165`: see the runs FramingValues, TextRequests and Gateway.
- `acceptor_impl.cpp:126`: after a failure of `accept` with an errno not named above it
  (`EPROTO`, `ENETDOWN` and others) `mod_fd` is not called, so that connections that
  wait are accepted only when another one comes.
- `gateway_socket_controller.cpp:33`: the limit on a message's size is looked at when
  the chunk has been handled and a complete message is no longer there, so that one
  that comes whole in a chunk passes; `handle_error` does not tell the handler.
- `net_stat.cpp:41` sets its timer with seconds where milliseconds are meant, so that
  the heartbeat looks far more often than once a second.

## Not modelled

- Pure input and output, formatting and start-up: log, performance daemon,
  acceptors' system calls (`open()` is its outcome, and always succeeds), daemon,
  time, string and argument helpers, singleton. Wrappers of pthread and of
  atomic builtins.
- `smart_ptr.h`, `fftype.h`, `option_t` in `codec.h`, `loop_timer`, `del_node`,
  `send_to_client`: nothing uses them.
- `rpc_callback.h`, `rpc_future.h`, `rpc_reg.h`: an earlier interface that
  nothing compiled includes. `example/main.cpp`: a demonstration.
- The slave broker past its first message. `open()` never binds
  `handle_broker_sync_data`, so that a slave learns of nobody; connections of
  nodes to slaves come to nothing with it (`ffbroker.cpp:78`).
- The data race on the routing table and on what `open()` polls, below the
  granularity of one operation.
- An interface that keeps its request and answers after it has returned, or more
  than once: in `FFRpc` it answers once before it returns, or throws.
- In `FFRpc`: calls without a callback, the wrap of `m_callback_id`, a descriptor
  leaked by a failed connect.
- In `Socket`: EINTR, after which the code tries again. In `TextController`:
  `check_pre_send`, which formats. In `Gateway`: the size limit, and sockets after
  the service has stopped. In `NetFactory`: `start()` by two threads at once, and
  a process whose other threads use the factory after `stop()`.

## What is left

Composing `Socket` with `Framing`, which today share only the order of bytes, would make
the step to the FIFO of `Network` one refinement.
