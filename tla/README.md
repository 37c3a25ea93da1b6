# tdmonitor in TLA+

tdmonitor is a C++ library for *distributed monitors*: threads of several
processes call `lock`, `unlock`, `wait` and `signal` on a monitor with the same
id, and whoever is inside sees the properties the last one left. The library
has no central server. Every monitor has a token; the token and the monitor's
properties travel together between the nodes by the Suzuki-Kasami algorithm,
and one more token, `___system_token`, carries the set of monitors that exist.

This directory holds TLA+ modules for that library, TLC configurations that
check them on small clusters, and proofs for clusters of every size. Paths
below are relative to the repository; `cluster_loop.cpp:260` is line 260 of
`src/lib/cluster_loop.cpp`.

## Inventory

| component | state it keeps | operations | correct when |
| --- | --- | --- | --- |
| **Token bookkeeping**, `TokenPrivateData`, `SystemToken` (`token.cpp`) | RN, LN and queue; created, owned and locked flags; the system token's monitor set | count and record request numbers, `release`, save and load the travelling part | a request is queued exactly once and served; what travels is enough for the next holder |
| **Cluster loop**, `ClusterLoop` (`cluster_loop.cpp`) | nodes, started flags, handshake count; `m_tokens`, `m_tokenPrivate`; pending grants and requests | one handler for each event: connected, disconnected, new monitor, four packets, lock, unlock, signal | one holder of a token at a time; no token, request or grant lost; every lock call returns |
| **Token (application half)**, `Token` (`token.cpp`) | the `m_granted` flag with its mutex and condition | `grant`, `takeGrant`, the three delegates | a grant wakes the thread it was meant for, and no other |
| **Monitor API**, `Monitor` (`monitor.cpp`) | a process-wide mutex, condition variables, property bindings | `create`, `lock`, `unlock`, `wait`, `signal`, save and load properties | threads of one process and of others exclude each other; a signal wakes a waiter |
| **Cluster (glue)**, `Cluster` (`cluster.cpp`) | TCP client to node mapping, the threads | TCP callbacks to events, API calls to events, shutdown | the events of a node come in the order they happened, EventConnected first |
| **Event queue and loop** (`event.cpp`) | queue, mutex, condition, stop flag; worker threads | `append`, `pop`, `stop`, `run`, `waitForThreads` | FIFO, no lost wake-up, everybody leaves after `stop` |
| **TCP manager**, `TcpManager`, `Client` (`tcp_manager.cpp`) | clients and their states and errors, send queues, receive buffers, connections in progress and planned, the notification pipe | `connect`, `sendTo`, `disconnect`; the select loop's handlers | every buffer is sent once, in order; a dead client is closed once; a connection is retried |
| **Packets** (`packet.cpp`, `packets/core.cpp`, `packet.h`) | none | encode, decode, factory, size limits | what is encoded decodes to the same, or is refused by the sender |
| **Marshaller** (`marshaller.cpp`) | a table of readers and writers by type | read and write values, vectors and objects | a value read is the value written |
| **Selector**, **socket utilities**, **logging** | handles of the operating system | wrappers of epoll, kqueue and sockets | the epoll selector as `TcpManager` uses it; the rest is not modelled, see below |
| **prodconsumer** | a bounded buffer in a monitor | produce, consume | an example of how the API is used |

How they interact. A process has one event-loop thread (`EventLoop(1, ...)`,
`cluster.cpp:106`), one TCP thread and the application's threads. The
application's calls and the TCP thread's callbacks only append events to one
FIFO queue, and the loop's thread alone reads and writes the state of
`ClusterLoop`. The loop talks back in two ways: it sets `Token::m_granted`, for
which the calling thread waits, and it calls the save, load and signal
delegates of the `Monitor` from its own thread. It sends packets by appending
buffers to the clients' send queues and waking the TCP thread through a pipe.

What is hard here:

* the loops of different nodes, the packets between them and the threads of
  the applications interleave freely; channels are FIFO pairwise but not
  across pairs, so a monitor's token can overtake the system token that was to
  say whether the monitor exists, and a request can arrive before the node has
  heard of the monitor;
* the cluster *boots*: nodes connect, count handshakes and accept `create` and
  `lock` before, between and after;
* a token is a piece of data that must be neither duplicated nor dropped, while
  early returns in the handlers drop what they do not expect;
* `m_pendingRequests` and `m_pendingGrants` remember what was asked for, and an
  answer can come in another way than the one they expect;
* `packetClusterHandshake` erases from a set while it iterates over it;
* connections break and nobody reacts; a process can crash;
* `wait` gives the token back before it waits; signals travel on their own;
* TCP connections are retried; send queues are re-armed by a pipe message;
* packets arrive in pieces in a buffer that still holds earlier ones, and are
  decoded with bounds that are those of the buffer;
* the destructor of `Cluster` ends two threads that share a queue, in whatever
  they are doing.

`PROJECT.json` lists these hazards line by line, each with the properties that
would show it going wrong.

## Modules

| module | what it is |
| --- | --- |
| `TokenPrivateData` | RN, LN and queue of one token at one node, one operator for each method of the class |
| `ClusterLoop` | the cluster: the loops of all nodes, the application threads, the network, its failures; all properties of the protocol |
| `DistributedMonitor` | the abstract specification of that: what `lock` and `unlock` promise whatever the nodes do |
| `MonitorThreads` | the threads that use one monitor: mutex, condition variables, requests to the loop and the handlers that answer them |
| `ConditionMonitor` | the abstract specification of that: one monitor with condition variables and properties |
| `ProducerConsumer` | the example application on top of `MonitorThreads` |
| `TcpManager` | the TCP thread of a process with its clients, and what `Cluster` makes of its callbacks |
| `Marshaller` | values of the properties as bytes, one operator for each reader and writer |
| `Packets` | the five packets as bytes, the receive buffer and the packet factory; on top of `Marshaller` |
| `TokenProperties` | what travels with a token: what `TokenPrivateData`, `SystemToken` and `Monitor` save and load; on top of `Packets` |
| `EventQueue` | the event queue, its mutex and condition, and the workers of the event loop |
| `PacketPipeline` | `TokenProperties` and `EventQueue` composed: a packet from one node's handlers to another's, and the destructor of `Cluster` |
| `OrderedDelivery` | the abstract specification of that: a FIFO channel of packets |
| `MCClusterLoop`, `MCMonitorThreads`, `MCProducerConsumer`, `MCTcpManager`, `MCPacketPipeline` | bounds and applications for TLC |
| `ClusterLoopSafetyProofs`, `ClusterLoopDeliveryProofs`, `ClusterLoopSettledProofs`, `ClusterLoopNumbersProofs` | lemmas about `TokenPrivateData` and theorems about `ClusterLoop`; each extends the one before it |
| `MonitorThreadsProofs`, `ProducerConsumerProofs`, `TcpManagerProofs`, `PacketPipelineProofs` | theorems about the modules of these names; the second extends the first |

`ClusterLoop` and `MonitorThreads` cut the system differently. `ClusterLoop` has
every detail of how tokens and requests find each other, from the boot on, and
one thread per node and monitor. `MonitorThreads` has all threads of a process,
the window between posting a request and its handling, and signals; requests
for the token are a set that its owner may learn of at any time, and the order
in which it serves them is any order. `TcpManager` is below both: it shows the
channels that they take for granted, FIFO, whole, with the introduction first
and the disconnection last. It counts pieces of packets; `PacketPipeline` has
their bytes, and takes from `TcpManager` that they leave in order.

### How `ClusterLoop` corresponds to the code

Every handler of `ClusterLoop::handle` is an action of the same name, and the
action is the whole handler: `requestToken`, `grant`, `sendToken` and
`broadcast` are operators of the action, not actions. The state of all nodes is
kept in functions of the node: the keys of `m_tokenPrivate` are `private[n]`,
the keys of `m_tokens` are `public[n]`, and the flags `m_created`, `m_owned`,
`m_locked` are sets of tokens, so a conjunct `t \in owned[n]` reads
`priv->owned()`. `TokenPrivateData` objects are `alg[n][t]`.

* *Network.* `net[p][n]` stands for p's send queue, the socket and that part
  of n's event queue that p's packets have reached: all FIFO, so one sequence.
  Both ends send `EdgeHandshake` first (`cluster.cpp:120-124`, `:139-143`),
  which is how `Init` looks; when it is received the loop gets an
  `EventConnected`, which is `HandleConnect`.
* *Calls.* `create`, `lock` and `unlock` append one event, and the effect is
  only visible once the loop handles it, in any order relative to packets. So
  the call and its handler are one action. `TakeGrant` is the return of
  `Token::takeGrant`.
* *Threads.* One thread per node and monitor. Threads of one process that use
  the same monitor are serialised by `Monitor::m_mutex` before they reach the
  loop; `MonitorThreads` has that, and `wait` and `signal`.
* *Properties.* The application's properties are a number, the count of
  updates made to them; a thread makes one when it enters. That is all that
  "the newest value" needs.
* *Numbers.* `u32` request numbers count modulo `U32`; `Inc32` wraps,
  `UpdateRequestNumber` takes the maximum as the code does.
* *Iteration order.* Requests made in one handler go out in any order of their monitors
  (`Orderings`). The code iterates `m_pendingRequests`, a `std::set` of names
  (`cluster_loop.h:55`); names are model values here, without an order among them.
* *The erasing loop.* `for (auto &x : m_pendingGrants)` calls `grant`, which
  erases `x` (`cluster_loop.cpp:196-208`, `:476`). This is undefined behaviour.
  Three outcomes are modelled (`EraseOutcomes`): "next", the freed node still
  holds its links and the loop goes on as intended; "skip", the links have
  changed and elements are missed; "crash".
* *Failures.* `Disconnect` breaks a connection and loses any suffix of what is
  under way in both directions; afterwards `sendTo` feeds a dead client.
  `handleDisconnect` only logs and nothing reconnects an established pair.
  A crash stops a process for good; its connections may break.
  The program persists nothing, so there is no restart.

`LockWindows` is the one restriction of the environment: the API lets an
application call `lock` at any time after `create` has been handled, also while
the cluster boots or while the system token has not yet said whether the
monitor exists. Some properties fail in those windows, and the runs tell them
apart ("booting", "creating", "settled").

### How `MonitorThreads` corresponds to the code

`pc[t]` is the line of `monitor.cpp` at which a thread is; the module lists them.
A step of a thread ends where another thread or the loop can see a difference:
taking `m_mutex`, appending to the event queue, returning from `takeGrant`,
notifying, sleeping. `lock` is `Lock`, `Acquire`, `SendLockRequest`, `TakeGrant`;
`wait` posts the unlock (`Wait`), sleeps (`Sleep`, which gives up the mutex in the
same step, as `std::condition_variable` does), is woken by `Signal`,
`PacketSignal` or by chance (`WakeSpuriously`), and goes through the end of `lock`. The loop's
handlers are those of `ClusterLoop` for a monitor that exists in a cluster that
runs, plus `RequestSignal` and `PacketSignal`. `PacketSignal` runs on the loop's
thread and takes no mutex, as `callSignal` does not (`token.cpp:195`).

`ProducerConsumer` restricts those threads to what `produce` and `consume` do: each
of its actions is an action of `MonitorThreads` together with the step of the
application; a thread that wakes by chance (`Stir`) checks its condition again. The vector of messages is its length.

### How `TcpManager` corresponds to the code

Each handler of `runLoop` is an action. One `select->wait` returns a set of
events, those of at most `EventLimit` descriptors, which are handled one by one in any order (except that a socket's
write event comes before its read event, as in `selector_epoll.cpp`) and then
the clients of `eraseList` are closed. A handler is one step, unless another
thread can come between: `writeEvent` is split before and after `write`
(`Write`, `Check`) and before `stopWriting` (`StopWriting`), since the event loop's
thread may attach a buffer there (`Attach`) and wake the TCP thread later
(`Notify`); the recursion of `readEvent` is one step per round. A packet has two
pieces, and a read or a write may end between them. A socket is a state of the
connection (`Link`) with a bounded send buffer and the packets the other side
sends. `events[c]` is what the callbacks append to the event queue for a
connection; that it is not empty is the code's `m_clientNodeMapping` having the
client. A write to a connection that has answered an earlier write with an RST, or whose
RST a read has already met (`stopReading` with a buffer still to be written,
`tcp_manager.cpp:690`), raises SIGPIPE, which nothing in the program ignores: the process
ends (`alive`). A connection that cannot be accepted (`tcp_manager.cpp:445-449`) is gone
from the backlog, and nothing else happens.

### How `PacketPipeline` and the modules below it correspond to the code

* *Bytes.* `Marshaller` and `Packets` are operators, not actions. `WriteX(...)` appends
  to a byte sequence what `MarshallHelper::write` appends; a reader is a record of the
  data, the position and the value read last (`m_bytes`, `m_index` of
  `UnmarshallHelper`, or `m_packetReaderPos` of `Packet`). `bad` is the `false` of a
  read: a packet gives up on it, while `DataMarshaller` looks at none. A number in memory is its
  bytes in the order of a little-endian machine, so `HostToNetwork` is a reversal
  that, for a u64, is made of two and a swap of the halves, as in the code.
* *A double* is written through the float member of a union: four bytes of a float and
  four of whatever was in memory, one of `Garbage`.
* *Strings.* The characters of a name or of a string in a vector are one byte of its
  own; the length before them has its four bytes.
* *Maps.* `marshallMap` writes the properties in the order of a hash table. The order
  is part of the `setup`, which also says what each of the two nodes binds: they may
  differ, since nothing makes two programs bind the same ids.
* *Reading.* `ReadSome` is one `read(2)` into `data + received`, which returns one of
  `Pieces` of the bytes it wants; the bytes of earlier packets stay in the buffer.
  `ReadEvent` is the rest of that round of `readEvent` with the callback
  `Cluster::tcpReceive`, which appends an event.
* *Queue.* A critical section of `m_mutex` in `EventQueue` is one step. `notify_one`
  wakes any waiter; a waiter may also wake by itself. `Pop` is the loop of `pop` from
  taking the mutex to sleeping, returning an event or returning `nullptr`.
* *The event loop* handles what it popped in a step of its own (`Handle`): for a token
  it loads LN, queue, monitors and variables; the other packets are only recorded here,
  as `ClusterLoop` has what they do.
* *The destructor* is `~Cluster` line by line: `StopLoop`, `StopQueue`, `JoinTcp`,
  `JoinWorkers`, then the members are freed.

## Runs

Deadlock is checked in `prodconsumer`, whose threads never end. There a thread that sleeps
can always wake by chance, so it is `NeverStuck` and `MessagesFlow` that say that the
program goes on. The others have applications that stop after some calls.

| run | what it asks | states |
| --- | --- | --- |
| `any3` | 3 nodes, a monitor that any of them creates at any time, `lock` in every window, numbers that wrap at 2 or one disconnect, all outcomes of the erasing loop: `MutualExclusion`, `GrantHoldsLock`, `TokenUnique`, `Freshness`, `NoPacketDiscarded`, `QueueSane`, and the refinement of `DistributedMonitor` | 1.3 M |
| `settled3` | 3 nodes that lock only existing monitors over connections that hold; two of them may overtake the third: `LockedImpliesOwned`, `TokenConserved`, `RequestKept`, `RequestWindow`, `LockGranted` | 131 k |
| `booting2` | 2 nodes, 2 monitors, `lock` also while booting: `AccessRequested`, `LockGranted` | 13 k |
| `threads` | two threads of one process and one of another: `CallsAnswered` (no early return of `requestLock` or `requestUnlock` is reached), `LoopKeepsOff` (the loop never touches the properties under a thread that is inside), the refinement of `ConditionMonitor`, `LockReturns`, `SleeperWakes` | 51 k |
| `prodconsumer` | a producer and a consumer in each of two processes: `MessagesAddUp`, `NeverStuck`, `MessagesFlow` | 291 k |
| `tcp` | one process and one connection, made with a second attempt or accepted: `WireInOrder`, `EventsInOrder`, `PointersValid` (the loop's raw pointers), `Armed` (a waiting buffer has the selector's attention), `ConnectOwned` (the connect info has one owner), `AllSent`, `BrokenReported`, `ConnectEnds` (a connect ends in a connection, a report, or the one silent failure) | 340 k |
| `pipeline` | four packets, handshakes first, and a request of the application; the process ends at any time: `VariablesArrive` and `BookkeepingArrives` (what a token carries is what the next holder loads), `ReadsOwnBytes` (a decoder stays within its packet), the refinement of `OrderedDelivery`, `NothingAfterFree`, `EventsHandled`, `DestructorReturns` | 271 k |

`any3`, `threads` and `tcp` check the type invariants of their modules; the theorems
`TypeCorrect` show them for all instances.

Runs that TLC must find violated; each shows something a comment or the README
of the repository says and the code does not do (details in `PROJECT.json`):

| run | property | what happens |
| --- | --- | --- |
| `section_without_token` | `LockedImpliesOwned` | a monitor is locked while it is created; its token overtakes the system token, which then calls `setOwned(false)` under the thread's feet (`cluster_loop.cpp:260`). When the thread leaves, no node owns the token |
| `starved_creator` | `LockGranted` | a node that becomes owner by creation keeps the entry in `m_pendingRequests`; once the token has left, its next `lock` never asks for it |
| `forgotten_lock` | `AccessRequested` | with three nodes, a request of a third one makes a private entry before the own handshakes are over; a lock asked for in that window is in `m_pendingGrants` only, and the end of the handshakes neither grants nor requests it |
| `lost_signal` | `NeverStuck` | `wait` posts the unlock and then sleeps; a remote signal that is handled between the two wakes nobody, and with one thread on each process both sleep for ever |
| `double_property` | `DoublesArrive` | a variable of type double is written through a float and read as eight bytes (`marshaller.cpp:430-435`, `:567-570`): the next holder has another number |

Two more have no line in the repository to contradict them. A connect that fails
at once (`tcp_manager.cpp:653-667`) is over: the attempts left are not made and no
callback says so, which `ConnectEnds` admits as a third end. And if the erasing loop
of `packetClusterHandshake` leaves out an element ("skip"), the node owns the
token, a thread waits for it, and nothing will grant it. Safety holds even so
(`any3`); the liveness runs assume the intended outcome.

### Why the bounds are enough

With two nodes a token has one other place to go; three nodes are the least
with which a queue has two waiters, a packet overtakes another on a different
connection, and a node is asked for a token by somebody else before its own
handshakes are over. One monitor is enough for everything that concerns a single
token plus the system token, for tokens only meet in `TakeSystemToken` and in
the loops over pending sets; `booting2` has two for those, and the theorems hold for
any number. Two lock
calls per node let a node ask again after it was served, which stale entries
and stale numbers need; in `any3` node 0 does, and
`U32 = 2` makes its numbers wrap. The constraint `OneHardship` of `MCClusterLoop` explores
the second call and the broken connection of `any3` apart from each other: neither needs the
other, and together they pass as well (1.8 M states).
`MaxDisconnects = 1` loses any packet once. In `settled3` node 2 asks once, and
nodes 0 and 1 twice, so that it can be overtaken.

In `threads` the process with two threads has contention on its mutex, and a
third thread elsewhere takes the token away; two calls each make a thread wait
and another signal it, or lock again. `prodconsumer` has no bound on calls;
`MaxSignals` holds back a thread's signal while as many of its process
are under way, which only keeps the channels finite, and with capacity 1 both
conditions of the application are waited for. (With capacity 2 and two signals
the safety properties were checked too, 1.0 M states.)

In `tcp` the handshake and one more packet go each way, so that the send buffer
of two pieces is full in the middle of one, a round ends with something left
(`Rounds = 1`), and a break cuts a packet. Two attempts are the least that need
the timer. `Nodes = 2`: a process makes one connection or accepts one, and
connections share nothing but the pipe, the batch of events and the erase list.
The pipe never fills, and `EventLimit = 32`, as in the code (`selector.cpp:29`), is more than
there are descriptors, so that a wait returns all that is ready; that some of it is left
for the next wait, as in a cluster of more than some thirty nodes, is in the theorems only.

In `pipeline` the two handshakes are followed by two packets of any of the
types, so that a short one comes after a long one in the same buffer, a token after a
token, and the second arrives while the first is queued or handled. The buffer
(`MaxSize = 160`) holds most tokens, and not the largest, which is refused. A read
returns all of what it wants, or half of a header or of a long payload, so that both
arrive in pieces.
There are two `Setups`: both nodes bind the same ids, or each binds one that the other
does not and one more widely; scalars of two and eight bytes, a vector, strings and a
double occur, among the token's own properties. A receiver that binds an id more
narrowly than the sender, or to another kind of value, is left out: `loadProperties` then
writes past the variable or casts to a type that is not there. One request of the
application competes with the packets for the queue. There is one worker, as in the
program.

### Fairness

`FairSpec` of `ClusterLoop` asks that the event loop handles a packet that has arrived
(`EventLoop::run` pops as long as it is not stopped, on a thread of its own,
and the TCP thread delivers), that a thread whose grant is there returns
from `takeGrant`, and that an application leaves the section it entered. All
are weak: such a step stays possible until it is taken. Nothing makes an application create or
lock. Liveness is checked without disconnects and crashes, after which the
code does hang: a lost token is never made again.

`MonitorThreads` asks the same of loops and threads, and that a thread that is inside
unlocks or waits at some time. Nobody has to lock, to signal or to write, nobody wakes by
chance, and a thread may lose every race for `m_mutex` as long as others keep
locking it. The owner of the token learns of each request at some time, which is
`LockGranted` of `ClusterLoop`. In `ProducerConsumer` every thread and every loop goes
on as long as it can, for ever, which is what the program's threads do. A condition
variable may wake a thread by chance at any time, and any number of times, but not
for ever (the conjunct `<>[][...]_allVars` of `AppSpec`): a thread that did could win
`m_mutex` each time and give it up for nothing, while another one of its process waits for
it. Safety, and the theorems, do not need that.

`TcpManager` asks that both threads run, that the kernel answers connects and sends
what is in a socket, and strongly that `select->wait` returns the timer: it is
level-triggered and stays readable, but the thread is only sometimes in
`wait`.

`PacketPipeline` asks that the TCP thread reads what is there and leaves when it is told
to, that a worker pops and returns from its handler, and that a destructor that has
begun goes on. The conditions name the part of an action that decides whether it is
possible (`ReadSome` and not `ReadEvent`): the rest of the action never
prevents it. Nobody has to send, to post, or to destroy the cluster.

## Proofs

| theorem | property | hypothesis |
| --- | --- | --- |
| `ClusterLoopSafetyProofs!TypeCorrect` | `TypeOK` | |
| `ClusterLoopSafetyProofs!MutualExclusionHolds`, `TokenUniqueHolds`, `GrantHoldsLockHolds` | the invariants of these names | |
| `ClusterLoopDeliveryProofs!EveryoneStarted` | once any node has counted all handshakes, every node has started, that is, has linked all others | |
| `ClusterLoopDeliveryProofs!NoPacketDiscardedHolds` | `NoPacketDiscarded` | |
| `ClusterLoopDeliveryProofs!FreshnessHolds` | `Freshness` | |
| `ClusterLoopDeliveryProofs!Implements` | `ImplementsPromise`, the refinement of `DistributedMonitor` | |
| `ClusterLoopSettledProofs!LockedImpliesOwnedHolds` | `LockedImpliesOwned` | `Patient` |
| `ClusterLoopSettledProofs!TokenConservedHolds` | `TokenConserved` | `Patient`, `Reliable` |
| `ClusterLoopSettledProofs!AccessRequestedHolds` | `AccessRequested` | `Prompt` |
| `ClusterLoopNumbersProofs!QueueSaneHolds`, `RequestWindowHolds` | `QueueSane`, `RequestWindow` | `Few` |
| `ClusterLoopNumbersProofs!RequestKeptHolds` | `RequestKept` | `Patient`, `Reliable`, `Few` |
| `MonitorThreadsProofs!TypeCorrect`, `CallsAnsweredHolds`, `LoopKeepsOffHolds` | the invariants of these names | |
| `MonitorThreadsProofs!Implements` | `ImplementsPromise`, the refinement of `ConditionMonitor` | |
| `ProducerConsumerProofs!UsesMonitor` | `AppSpec => Spec`: the example program does nothing that `MonitorThreads` does not | |
| `ProducerConsumerProofs!MessagesAddUpHolds` | `MessagesAddUp` | |
| `ProducerConsumerProofs!NeverStuckHolds` | `NeverStuck` | `Mixed` |
| `TcpManagerProofs!TypeCorrect` | `TypeOK` | |
| `TcpManagerProofs!NothingDangles`, `NothingForgotten` | `PointersValid`, `Armed` | |
| `TcpManagerProofs!SentInOrder`, `AppendedInOrder` | `WireInOrder`, `EventsInOrder` | |
| `TcpManagerProofs!InfoHasOneOwner` | `ConnectOwned` | |
| `PacketPipelineProofs!NothingAfterFreeHolds` | `NothingAfterFree` | |

All are theorems of `Spec` (`AppSpec` for `ProducerConsumer`), and none uses fairness, for every value of the constants that
the named assumptions of the modules admit: `NAssumption` (a cluster has a node),
`U32Assumption` (at least two request numbers: with only one, a new request could
not be told from an old one), `MonitorAssumption`
(finitely many monitors, none called `___system_token`), `WindowAssumption`,
`EraseAssumption` and `BoundAssumption` for `ClusterLoop`; `ProcessAssumption` (the token
starts somewhere), `HomeAssumption` (a thread has one process), `ValueAssumption` and
`CallsAssumption` for `MonitorThreads`; `ApplicationAssumption` (the capacity is not 0, the
property is the vector's length, at first 0, and there are two conditions) for `ProducerConsumer`; `AttemptsAssumption`,
`SizeAssumption`, `LimitAssumption`, `BoundAssumption` and `KindAssumption` for `TcpManager` (a connect
call has an attempt, the pipe and a socket hold something, a wait hands out something, the other bounds are numbers). The theorems with a hypothesis hold only under it, and
the sections below say why.

### Types

`TypeOK` of `ClusterLoop` is not inductive alone: when the system token is
loaded, `fresh` are the tokens with an entry and without `m_created`, and their
being *monitors* (so that `known` stays a set of monitors) needs that the system
token's own entry is always created. `SysEntryCreated` says so and is the
strengthening. There is one lemma for each action (`HandleConnectType`, ...,
`DisconnectType`), they are combined in `NextType` and `NextSysEntry`, and
rest on lemmas about messages (`MessageTypes`, `PostType`, `TokenMsgType`)
and on those of `TokenPrivateData` about the bookkeeping: every method
keeps `Alg`, and the orderings of a finite set are sequences over it.

### One token

`ClusterLoopSafetyProofs` proves `MutualExclusion`, `TokenUnique` and
`GrantHoldsLock`, with every lock window, every outcome of the erasing loop,
disconnects and crashes. None is inductive. The invariant is

    IInv == TypeOK /\ SysEntryCreated /\ GrantHoldsLock /\ PendingWaits /\ HeldHasEntry /\ OneCarrier

* `OneCarrier`: a token is in at most one place. A place is a node that has it
  *owned or locked* (a node may be inside without owning, see `section_without_token`,
  and then it is the lock that keeps a second token away) or one packet at one
  index of one channel.
* That no second token is made needs to know where the set of existing monitors
  is. `Registry`, a part of `OneCarrier`: once node 0 has started, the system token
  knows every monitor that has a token, wherever the system token is. `BeforeStart`:
  until then there is no system token, and every monitor with a token has an entry
  at node 0, which registers it when it starts.
* `GrantHoldsLock` and `PendingWaits`: a grant is given once, to a thread that waits
  or is inside, and keeps the node's lock.
* `HeldHasEntry`: what a node holds has an entry in `m_tokenPrivate`, on which the
  guards of the handlers depend.

Each action has a lemma for each part it can disturb (`...Carriers`, `...Entries`,
`...Granting`). Most steps move no token: `QuietStep` covers them, given that the
token packets after the step are among those before it (`Follows`, with an offset
for a packet taken from the front of a channel). Steps that move one are put
together from `Departs` (a token leaves a node), `TakenIsGone` and `Lands` (it
arrives). `NextCarriers`, `NextEntries` and `NextGranting` collect them, `InitIInv`
and `NextIInv` make `IInvInvariant`, and `IInvMutualExclusion` and
`IInvTokenUnique` draw the conclusions.

### No packet is discarded

A node that has not started drops every request and token, and `packetGiveToken` drops
a token that finds no entry, or a node that owns it already (`NoPacketDiscarded`).
`ClusterLoopDeliveryProofs` shows with two invariants that neither happens.

* `Meeting` is about the boot. The `EdgeHandshake` is the first packet of each direction of a
  connection and the only one of its kind, so that the sender is linked before
  anything else of it is handled. Each node sends one `ClusterHandshake`, and not before it
  has linked all others. `m_clusterHandshakes` is then the number of
  *different* nodes heard of (`Heard`), so a node that counts N-1 of them knows that
  all have started: `EveryoneStarted`.
* `Asking` is about requests. A node waits only for monitors it created itself, or for the system
  token (`Wants`), and its requests leave only once it has counted all handshakes (`May`).
  As long as it may not ask for a token it is `Unasked`: no record, no queue and no packet
  anywhere mentions such a request, and so nobody sends it the token.

### The newest properties

`Freshness` needs to know where the newest copy is while nobody looks. `Newer`, in
`ClusterLoopDeliveryProofs`: a node that holds a token has the newest properties
(`HolderIsNewest`), and alone has them once its thread is inside; a packet with the token carries the newest
value, which also some node has (`PacketIsNewest`); and a monitor that was used is `Accounted`
for, registered with the system token or about to be, so that nobody takes it for a new one and starts
again from 0. A newest copy is somewhere even after a packet was lost.

`Implements` follows: the value of the abstract monitor is the maximum of the copies
(`NewestIs` replaces the maximum by any copy that is the newest). `TakeGrant` is `Enter`
(`TakeGrantEnters`), since the thread that enters has the newest copy and nobody else is
inside; a lock call is `Ask`, an unlock call `Leave`; a token that arrives
overwrites a copy by the newest, which leaves the maximum alone (`PacketGiveTokenKeeps`); every
other step of every handler stutters (`NextPromise`).

### Locked, conserved and requested

Three invariants hold in a part of the environments only.

* `Patient`: no application asks for a lock while the system token has not yet said whether the
  monitor exists ("creating"). Without it `LockedImpliesOwned` is false, as the run
  `section_without_token` shows. With it, `Settles`: a node was not asked for, and is not sent, a token
  that it has not created, so that `setOwned(false)` (`cluster_loop.cpp:260`) never
  meets a node that owns the token. Locking while the cluster boots remains allowed, and disconnects
  and crashes as well.
* `Reliable`: no connection breaks and the erasing loop does not crash. A token under way
  is lost otherwise, and the code never makes another. `Conserved`: before node 0 has
  started, each monitor it has an entry for, and will register, has its token somewhere; later the system token has
  a place, and so has every monitor it lists. A place is a node that owns the token or
  a packet.
* `Prompt`: no application locks a monitor before the handshakes are over ("booting"); or the
  cluster has at most two nodes and the undefined loop skips nobody. `AccessRequested` is
  false with booting and three nodes, as the run `forgotten_lock` shows, because a third node's
  request can make a private entry for the monitor too early. The invariant
  has two parts. `Timely`: at a node that has met everybody, whoever waits was asked for, or
  waits for a monitor that is not created while the system token is asked for (`Eager`); and nobody waits
  elsewhere if nobody may lock while booting. `Early`, for two nodes: a channel to a node
  that has not met the other one has its ClusterHandshake before any request (`Polite`), so until
  then the node's entries are those of its own `handleNew`: each is owned or will be
  answered by the system token (`EarlyAt`). Disconnects and crashes are allowed.

### Request numbers

`QueueSane` and `RequestWindow` are the classic argument of Suzuki and Kasami, for this
code's variant of it, in `ClusterLoopNumbersProofs`. The hypothesis `Few` says that no number wraps:

    Few == (\A n \in Node : MaxLocks[n] + 1 < U32) /\ Cardinality(Monitor) + 1 < U32

With the program's numbers of 32 bits it allows 2^32 - 2 lock calls per node and monitor. With
a wrap `UpdateRequestNumber` takes a new number for an old one, and a comparison of numbers
no longer says who asked last. `any3` checks `QueueSane` with numbers that wrap at 2, where the
theorem does not apply; `settled3` satisfies `Few`. The invariant is `Young /\ Numbering` on
top of those above:

* `Bounded`: the number of a node's last request is at most the number of its lock calls, or,
  for the system token, of the monitors it created. With `Few`, adding 1 is then
  adding 1.
* `Truthful`: no node and no request under way has a number above the requester's own.
* `Right(t)`: the record of `t`, wherever it is, `Fits` the requesters' own numbers: LN is
  the own number or one less; who is one behind waits; the queue has no node twice and only such nodes.
  It is stated for the node that holds the token (`Holding`), for a packet
  (`Coming`, whose receiver is one behind and not in the queue), and for a token that is not made
  yet (`Pristine`).
* `Young`: a node that has not counted all handshakes asks for the system token at most and does not
  own what it asks for. Without it a request could be counted twice at the end of the boot.

`FitsStep`, `FitsReleased` and `ReleasedQueue` say what a request and `release` do to a
record that fits. Everything else follows the actions.

`RequestKept` needs more, because it is about every node's knowledge and not only the requester's and the
token's: an invariant `Keeping`, on top of `Numbering`, `Young`, `Meeting`, `Asking` and
`Settles` (from the settled cluster).

* `Unserved(t)`: if a node waits for `t`, its own number is the next after the one in the
  token's record, wherever that is (`Served`: at a node, in a packet, or the first record of a token
  not yet made). `Right` alone allows a waiting node whose number is already served.
* `Heralded(n, t)`: every other node has recorded the number of n's request, or it is under
  way to it (`Knows`). A request that arrives is never above the requester's own number
  (`Truthful`) and `UpdateRequestNumber` keeps the larger one, so the last request is not forgotten.
* `Disjoint`: nobody waits for what it owns. `Linked`: who has started is connected with
  everybody, so that a request is sent to all.

The step goes in two halves. `Stems`: any record after the step agrees, for the nodes that
still wait after it, with a record from before, so no action that takes, gives,
loads or releases the token serves somebody who still waits. `Renews`: who waits after
the step waited before with the same number, or asked in this step with a number one higher and
told everybody. Each hypothesis has its use. A connection that breaks loses requests (`Reliable`);
a node that locks a monitor while it is being created would wait for a token that it may
then make itself (`Patient`, by way of `Settles`); a number that wraps is taken for an old
one (`Few`). `settled3`, which checks the same invariant, satisfies all three.

### Threads of one monitor

`MonitorThreadsProofs` proves about any number of processes, threads, conditions and calls. Its
invariant is

    IInv == TypeOK /\ MutexHeld /\ (\A p \in Process : OneCall(p)) /\ OneToken /\ asked = pending

* `MutexHeld`: a thread between the mutex and the end of its section holds the mutex, so there is one of
  them in a process.
* `OneCall`: a process has at most one lock call that is not answered, and it is in one place: in the
  event queue, in `m_pendingGrants`, or granted. The queue holds at most one lock and one unlock,
  and the lock after the unlock (`Ordered`), because `wait` and `unlock` post the unlock before
  they give up the mutex. `m_locked` always has a reason: a grant, a thread inside, or an
  unlock in the queue. `CallsAnswered` follows.
* `OneToken`: exactly one owner or one packet, which goes to a process that waits for it. With
  `OneCall`, at most one thread is inside anywhere (`OneInside`), and `LoopKeepsOff` follows.

For the refinement of `ConditionMonitor`, `ThreadsPromise` has the steps of threads and `LoopPromise`
those of the loops. The abstract properties are those of the owner, or of the token's
packet (`Sees`); `Acquire` is `Ask`, or `Wake` when the thread comes out of
`wait`, `TakeGrant` is `Enter`, and falling asleep or being woken stutters; every step of a loop stutters, as the token leaves with the copy of its owner
(`SendCurrent`).

### The example program

`ProducerConsumerProofs` extends the proofs of `MonitorThreads`, since each step of the program is a step
of its threads or loops (`UsesMonitor`): what a thread writes is a value, because it is inside
and so its copy is the vector's length, which is not at the limit it just checked
(`BlockedIs`, `ChangeAdds`). The invariant is

    AppInv == IInv /\ AddsUp /\ (Mixed => Moving)

* `AddsUp`: the properties of the owner, or of the token's packet, are what was produced and not
  consumed (`balance`), and who sleeps does so on the condition of its own kind. `MessagesAddUp` follows,
  as a thread inside sees the owner's copy.
* `Mixed`: every thread has one of the other kind on its process, as in the program,
  whose processes all run producers and consumers. Without it `NeverStuck` is false, as `lost_signal` shows:
  a remote signal may be handled between the unlock of `wait` and the sleep. With it remote
  signals are not needed at all.
* `Moving`: some thread is on a side on which the vector is not at its limit, and the
  threads like it on its process are awake or one of the other kind there is about to signal (`Cared`). A
  thread goes to sleep only if the vector stops its kind, and then it is the other kind that can go on; a thread that
  changes the vector wakes its opposites of the same process before it leaves.

### The TCP thread

`TcpManagerProofs` proves all safety invariants of `TcpManager`, with any number of nodes, attempts,
packets and rounds and any sizes of the pipe and the send buffers. They depend on each other, and are proved
together:

    IInv == /\ Shape /\ Timely /\ PointersValid
            /\ \A c \in Made : Traffic(c) /\ Heard(c) /\ InOrder(c)
            /\ Stopped /\ Armed
            /\ \A p \in Called : Sole(p)
            /\ Numbered

* `Shape` is `TypeOK` with the ids of clients that were made: no message, event or pointer names
  another. `Numbered` bounds those ids, which `TypeOK` needs: each client takes another pair of a peer
  and an attempt, or stands for a node after this one.
* `Timely`: what the batch holds has a reason (the timer is set only for planned
  connections), and a client that still connects was not heard of and has nothing to send.
* `PointersValid` is inductive with these: a client is put on `eraseList` once, when it dies, and is
  closed only when the batch is over.
* `Traffic`: the queue has the packets posted last and the buffer the one before them (`Queued`); on
  the wire and in the send buffer are the pieces before that, numbered, and none is missing as long as the socket takes
  more (`Sent`); what has been read is at most what arrived (`Counted`). `WireInOrder` follows.
* `Heard`: the packet whose event was appended last has been read to its end, and everything read after
  it cannot be decoded. `InOrder` is `EventsInOrder` for one client.
* `Stopped`: a write error is not taken back, which is what `Armed` needs in the window before
  `stopWriting`.
* `Sole`: the info of a connect call waits in one of the pipe, the planned connections and the loop over
  them, once, or belongs to one client; and while it does the call is unanswered and has
  attempts left. `ConnectOwned` counts these places.

### The end of a process

`PacketPipelineProofs` has the one property of `PacketPipeline` that is not about data. `Joined`:
the destructor waits for the TCP thread, then for the workers, and frees afterwards. The rest is that a thread
that has left does nothing (`LeftIsOver`, `EndedIsOver`), and that senders only touch the connection.

### What is only model-checked

Liveness: the prover has no fairness and no ENABLED. Of the safety properties:

* `VariablesArrive`, `BookkeepingArrives`, `ReadsOwnBytes` and the refinement of `OrderedDelivery`
  of `PacketPipeline`. They are about what recursive functions over bytes compute, which needs an
  induction over data that the prover cannot do.

No module declares a RECURSIVE operator, for the prover cannot use one.

## Plan

1. *(done)* `TokenPrivateData`, `ClusterLoop`, `DistributedMonitor`: the
   protocol, which is what the library is for.
2. *(done)* type correctness of `ClusterLoop` as a theorem.
3. *(done)* `MutualExclusion`, `TokenUnique` and `GrantHoldsLock` as theorems.
4. *(done)* `MonitorThreads` with `ConditionMonitor`, and `ProducerConsumer`.
5. *(done)* `TcpManager`.
6. *(done)* Proofs about `MonitorThreads`: type correctness, `CallsAnswered` (the requests
   of a process alternate, because the mutex is given up after the unlock is
   posted), `LoopKeepsOff`, and every step of it a step or a stutter of
   `ConditionMonitor`.
7. *(done)* More theorems about `ClusterLoop`: `NoPacketDiscarded`, `Freshness`, the
   refinement of `DistributedMonitor`, `LockedImpliesOwned`, `TokenConserved`,
   `AccessRequested`, `QueueSane` and `RequestWindow`.
8. *(done)* `EventQueue` with the shutdown of `Cluster`.
9. *(done)* `Marshaller`, `Packets`, `TokenProperties` and their composition with the
   queue, `PacketPipeline`, which implements `OrderedDelivery`.
10. *(done)* The safety invariants of `TcpManager`, `MessagesAddUp` and `NeverStuck` of
    `ProducerConsumer`, and `NothingAfterFree` of `PacketPipeline` as theorems.
11. *(done)* `RequestKept` of `ClusterLoop` as a theorem, in the module of the request numbers.

## Not modelled

* *What nobody calls in `TcpManager`*: `disconnectAll`, a graceful `disconnect` and the
  half-closed state it leads to. The pool's `bool` answer to a new connection is
  always true.
* *Selector, socket utilities, address parsing, logging*: thin wrappers of system calls
  without a state of their own. What they promise (readiness, FIFO bytes) is what the
  sockets of `TcpManager` assume. The program picks one of epoll, kqueue and select
  when it is built; epoll is the one modelled.
* *A full notification pipe* (`tcp_manager.cpp:305`): the TCP thread's own callbacks
  write to the pipe that only this thread reads. The guard `HasRoom` of `TcpManager`
  would block it, but thousands of messages are out of reach.
* *Property bindings with undefined behaviour*: an id bound to a narrower or another kind
  of variable on the receiving node. *Registered object types*: `Vector<String>`, the one
  the library registers itself, is in `Marshaller`; those of an application are its own.
* *Two `Monitor` objects with one id in a process*: `handleNew` ignores the
  second, whose `lock` can then never return. The model has one object per
  monitor and node.
* *Destruction* of a cluster is in `PacketPipeline` for the process that ends. What the
  others see of it is a disconnect of `ClusterLoop`: the process never leaves its
  connections in an orderly way, and what is still in its queue is lost.
* *Malicious or malformed packets*: a node that names a wrong id, or duplicates a
  handshake, or sends another packet before it: the nodes of a cluster introduce themselves
  first (`cluster.cpp:120-124`, `:139-143`), so the branch of `tcpReceive` for a packet from
  somebody unknown (`cluster.cpp:194`) is translated and never taken. Nor does a node write a length so
  large that the reader's bounds check wraps (`marshaller.cpp:575`, `packet.h:238`). Packets
  that cannot be decoded or are too large are in `TcpManager`.
