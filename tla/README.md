# Verification of dtmc_linux

`dtmc_linux` is the Linux back end of the DTMC libraries: tasks, semaphores,
queues and locks on POSIX threads, byte streams over TCP, serial lines, CAN,
Modbus and WebSocket, publish/subscribe portals over MQTT and CoAP, an HTTP
server and a few small services. The portable layers above it (`dtcore`,
`dtmc_base`, `dtmc_services`) are git submodules that are empty in this
repository; where the code here uses them (ring FIFO, buffers, manifold, error
chains) they are modelled from that use and marked external in `PROJECT.json`.

The project has TLA+ modules for the parts that carry concurrency, TLC
configurations that check them on small instances, and TLAPS proofs, for every
value of the constants, of the safety properties of the queue, the semaphore, the
tasker, the HTTP server, the byte streams (TCP, TTY, CAN, Modbus TCP, WebSocket) and
the two portals.

## 1. Inventory

All library sources are in `src/dtmc_linux_library/src`.

| Component | State it keeps | Operations | What is hard about it |
|---|---|---|---|
| buffer queue `dtbufferqueue_linux.c` | ring, head, tail, count; one mutex, two condition variables | create, put, get, dispose | barging callers, timeouts that race signals, head = tail both when full and when empty |
| semaphore `dtsemaphore_linux.c` | count, cap; mutex, condition variable | create, post, wait, dispose | a timeout racing a post, posts at the cap |
| lock `dtlock_linux.c` | an error-checking mutex | acquire, release | nothing of its own |
| tasker `dttasker_linux.c` | status, four flags, the pthread, the ready semaphore | create, start, ready, poll, stop, join, dispose | start waits for the new thread, join polls and then joins outside the lock, restart after an exit |
| HTTP server `dthttpd_linux_socket.c` | listening socket, accept task, client slots, active count | configure, loop, stop, join, dispose; accept task, client tasks | slots reused while threads end, descriptors closed by whom, stop against a blocked `accept()`, requests cut up by TCP |
| TCP stream `dtiox_linux_tcp.c` | two descriptors, connected / enabled / overflow flags, ring FIFO, receive semaphore | attach, detach, enable, read, write; receive task | none of the shared fields is guarded; one session's cleanup overlaps the next session |
| TTY stream `dtiox_linux_tty.c` | descriptor, failure and overflow flags, FIFO, none of them guarded | the same operations; receive task with `poll()` | a receive task that outlives a detach, a failure that must reach a sleeping reader |
| CAN stream `dtiox_linux_canbus.c` | descriptor, FIFO behind a mutex, overflow flag | the same operations; receive task | flag set under a mutex and cleared without it, frames that fit in part |
| Modbus TCP and RTU master and slave `dtiox_linux_modbus_*.c` | connection, pending blob, FIFO, flags | the same operations; polling master task, serving slave task | a blob acknowledged before it is fetched, sessions that end |
| WebSocket stream `dtiox_linux_websocket.c` | listening and client descriptors, connected and enabled flags | attach, write, enable, detach, dispose | the listening socket kept across clients, sends that fail inside a frame, clients that leave between probe and send |
| MQTT portal `dtnetportal_mosquitto.c` | connected, one awaited identifier and result, two condition variables, manifold | activate, subscribe, publish, dispose; callbacks of libmosquitto's network thread | callbacks overtake callers, two subscribers share one result |
| CoAP portal `dtnetportal_coap*.c` | buffer queue, wake pipe, stop flag, the libcoap context | activate, publish, subscribe, dispose; I/O loop | wake-ups through a pipe, a loop that is freed under its feet |
| file blob `dtnvblob_linux_file.c` | one file | read, write | truncation before the new content is written |
| HTTP client, SDL display, SHA-1, CPU and runtime helpers | none that is shared | | sequential wrappers, input and output only |
| applications and tests | | | they wire the library together; `src/apps/run_test_matter` is generated |

How they interact. Every task of the library (the accept task, client tasks,
receive tasks, the CoAP loop) is started, polled, stopped and joined through
the **tasker**, whose `start` waits on a **semaphore**. Every byte stream tells
its reader about bytes through a **semaphore**. The CoAP portal passes messages
from publishers to its loop through the **buffer queue**. The HTTP server holds
one **lock** around its slots, and the receive callbacks of the portals run in
the network thread that called them.

What makes the parts correct:

- queue and semaphore: no wake-up is lost, nothing is lost, made or reordered;
- tasker: one thread at a time, `start` reports its own thread, a join returns,
  nothing touches a disposed tasker;
- HTTP server: every accepted connection is closed, once; a slot is not reused
  under a thread; stop and join come to an end; the handler gets exactly the
  body the peer sent;
- byte streams: bytes in order, a gap is reported, a reader is not left waiting
  beside bytes or for a peer or a task that has gone;
- WebSocket: no socket leaks, a client finds whole messages and exactly those
  that `write` reported, attach with a timeout ends;
- portals: what was accepted is sent, what was subscribed is asked of the
  broker, calls return.

`PROJECT.json` lists every component with its status and, under `hazards`, the
places in the code where these could go wrong.

## 2. Modules

| Module | Models | Its actions |
|---|---|---|
| `BoundedFifo` | what the queue promises: a bounded channel | Put, Get |
| `BufferQueue` | the ring, its threads, the condition variables | one per critical section of put and get, deadlines, spurious wake-ups |
| `BufferQueueProofs` | theorems about `BufferQueue` | |
| `Semaphore` | the count, its waiters | Post, WaitCall, WaitResume, Deadline, TimedOut, SpuriousWakeup |
| `Tasker` | one tasker, its callers and its successive threads | one per critical section and per system call of start, stop, join, dispose, ready and the inception function |
| `TaskerProofs` | theorems about `Tasker` | |
| `Httpd` | the owner, the accept task and the client tasks | configure, loop, stop, join, dispose; accept, admit, reject; the client's life |
| `HttpRequest` | one connection: reading the request, the answer | recv of headers and body in pieces, parsing, dispatch, answers |
| `HttpdProofs` | theorems about `Httpd` and about `HttpRequest` | |
| `IoxTcp` | owner, receive tasks, reader and peers of one TCP stream | one per access to the unguarded fields, and per system call |
| `IoxTcpProofs` | theorems about `IoxTcp` | |
| `RxPipe` | what the TTY and CAN streams share: the FIFO, the reader, the semaphore | the reader's wait, its read, its pop |
| `IoxTty` | owner and receive tasks of a TTY stream | one per access to the unguarded fields, and per system call |
| `IoxCanbus` | owner and receive task of a CAN stream | one per critical section, unguarded access and system call |
| `Lines` | a byte stream of either line driver | those of `Semaphore`, `RxPipe` and the driver |
| `LinesProofs` | theorems about `Semaphore`, and about the TTY and the CAN stream | |
| `IoxWebsocket` | the server of one client at a time, and its clients | bind, accept, handshake, probe, header, payload, enable, detach, dispose; connect, send, close of a client; the arrival of its FIN, or of a reset |
| `IoxWebsocketProofs` | theorems about `IoxWebsocket` | |
| `CoapPortal` | publishers, the I/O loop, dispose | one per queue operation, pipe write, `select()` and send |
| `MqttPortal` | activate, subscribers, the network thread, the broker | one per access to what they share |
| `PortalProofs` | theorems about `CoapPortal` and about `MqttPortal` | |
| `ModbusTcp` | Modbus TCP master and slave, composed over their connections | attach, detach, enable, read, write and dispose of each side; one per request and answer of the master's receive task and its writer; accept, reply and command of the slave's task |
| `ModbusTcpProofs` | theorems about `ModbusTcp` | |

`MC*` modules extend them for TLC. Operators named `Mutant_*` are deliberately
wrong forms of the definition that follows them; `PROJECT.json` pairs each
property with one that breaks it. They take no part in any specification.

How steps were chosen. A section of code that holds a mutex and does not block
is one action, since nothing else can see its middle. Where the code shares a
field without a lock (`IoxTcp`, `IoxTty`, parts of `Tasker` and `MqttPortal`), every
access is an action of its own. A system call that can block is an action whose
guard says when it returns.

Composition. `CoapPortal` uses the buffer queue by what `BufferQueue` is shown
to implement, `BoundedFifo`: put waits for room and appends, get without
waiting takes the head. `Tasker` uses the semaphore as its count, which
`Semaphore` justifies (a post is never lost). `Httpd` uses the tasker by its
contract: a started thread posts ready once, a join returns when it has exited.
`IoxTty` and `IoxCanbus` run over `Semaphore` itself: `RxPipe` extends it, the
receive tasks take its action `Post`, and the reader waits through its actions
`WaitCall`, `WaitResume`, `TimedOut`, in every timeout mode; the run `lines`
therefore checks the semaphore in the use it has, and the streams with a
semaphore that can time out, wake up for no reason and drop a post at its
maximum. `HttpRequest` is the inside of `Httpd`'s action `ClientServes`. `ModbusTcp`
holds both ends of a Modbus link, since neither has a promise of its own: what
the master reports as written means something only together with what the slave
does after it has answered.

### Correspondence in detail

*BufferQueue.* `ring`, `head`, `tail`, `count` are the fields. A thread that
waits is "waiting", "woken" or "expired"; after `ETIMEDOUT` the code does not
look at the count again, so an expired thread leaves with a timeout. A caller
in `Careless` passes `was_timeout = NULL`. `should_overwrite` is stored by
create and never read, and is left out. A capacity of zero becomes one.

*Semaphore.* A cap of zero means `INT32_MAX`; create does not compare the
initial count with the cap.

*Tasker.* `thread` is the pthread the handle refers to; a restart overwrites
it. A start whose thread neither calls ready nor fails hangs, which
`StartReturns` names as its exception. A restart whose `pthread_create` fails
leaves `thread_created` set and `thread_exited` cleared. Two threads that start at once would race on the
unlocked test; the runs have one starter. Priorities, names, the registry and
get_info are data nothing here depends on.

*Httpd.* A connection stands for its descriptor. The accept task holds the lock
exactly while it waits for a client's ready. If that ready fails, the client
needs the lock to end and both wait for ever: the state `ReadyFailed`, named as
an exception by the two liveness properties. `send()` has no time limit, so a
peer that does not read its answer keeps its client in "handling".

*HttpRequest.* A request is a record of sizes and of the kinds of defect a
header may have. Headers too long and broken connections get no answer; a
refused or timed-out request gets 400. `_find_header_value` looks through everything
the buffer holds, so when the headers name no Content-Length a line of the body
(`stray`) that has come along with them is taken for one: what `content_length` is
then depends on how TCP cut the stream.

*IoxTcp.* A descriptor is the number of the session that opened it, a byte its
place among all bytes received. The reader waits for a unit of the semaphore and
then reads until a read returns nothing; after a disconnection it reads again
once the owner has attached and enabled. After a detach the owner attaches
again only when the receive task has ended: the code does not enforce this, and
without it an old receive task could serve the new connection. When the task
cannot be started, `fd` and `is_connected` keep what was assigned to them.

*RxPipe, IoxTty, IoxCanbus.* `self` is the driver's object, `fifo` the ring FIFO
with bytes numbered as the device delivered them, `rx` the receive tasks. A
semaphore is optional (`_set_rx_semaphore`); without one the reader polls. Push,
pop and reset of the FIFO are single steps: `dtringfifo` belongs to an empty
submodule, and the TTY driver uses it from two threads without a lock. Detach of
the TTY closes the descriptor and leaves the task in `poll()`; after another
attach two tasks feed one FIFO. The model reaches that state and takes no
further step from it (`LinesNext`), because what unguarded pushes of two threads
do to the ring is not in this repository. The TTY's cleanup posts through
`DTERR_C`, which on an error jumps to the cleanup itself, so without a semaphore
the task never ends; `TtyRxEnds` is then never enabled. The CAN task is started
once, and detach does nothing. `gap`, `late` and `news` are history: the first
byte dropped and not yet reported, reads that went past it, and whether the
reader has heard of the last failure.

*IoxWebsocket.* A call under way is `call`, with its own descriptors beside those
of the object (`self`), which is what makes the ownership of the listening
socket visible. What a client sends is a piece of the request, its acceptable or
unacceptable end, or a frame. A client that closes is "closing" until its FIN arrives
and "closed" after that; a connection that breaks is "reset". The probe before a
write sees only bytes and a FIN that has arrived: while the FIN is under way it
passes, and so does the send, and the error of a reset connection counts as
life, but the send that follows fails. Which requests are acceptable, SHA-1 and base64 are
data. `Header` computes the bytes of a frame's header; `Declared` reads them as
RFC 6455 says. `read` is not implemented by the code and changes nothing.

*CoapPortal.* The specification is `CoapSpec`, its parts `CoapInit` and so on, so that
`PortalProofs` can extend both portals. Any error of `select()`, of
`coap_io_process()` or of a send ends the loop. Callbacks that publish run in the loop's own thread; on a full queue
such a callback waits for itself (`Stuck`). What the loop does after the portal
was freed is not followed. `_is_connected` is written by callbacks and never
read. The libcoap context shared by the portals of a process is not modelled.

*MqttPortal.* `on_connect` sets `connected`, broadcasts and resubscribes; it
unlocks `conn_mutex` without having locked it, so it excludes nobody. The broker
answers in order and forgets subscriptions with the connection (the client asks
for a clean session). `mosquitto_subscribe` may report an error on a standing connection
as well as on a lost one, in `subscribe` and for any of the topics that `on_connect`
goes through; `failed` remembers for which topics it did on this connection. `publish` and `on_message` keep no state.

*ModbusTcp.* All traffic consists of requests of the master. Its receive task
holds the master's lock over the three requests of a poll round, and sleeps
without it between rounds; `write` takes the same lock. The slave answers a
request from its registers (`modbus_reply`, outside its lock) and then acts on
the command, so an acknowledgement precedes the push into the FIFO;
`SlaveReplies` and `SlaveConsumes` are two steps. The slave's look at its two
stop flags is merged with the step before it (`NextTurn`). The server loop
returns after one session, so `session` is the first connection made. After a
request that timed out, libmodbus takes the next answer for the late one and
refuses it (`late`). A connection is a pair of queues that lose what was
sent after it broke, and may still deliver what was sent before. `attach` of the
master has three ends: success, failure with the lock released, and failure to
start the task, which leaves the lock taken. Readers poll, so the post of the
slave's `rx_semaphore` is left out; the master never posts its own. The slave is
disposed only after a detach. The two sides may be configured with different
`max_blob_bytes`, and then the longer blobs are cut without notice; the run uses
equal sizes, which both sides have by default.

## 3. Runs

| Run | Instance | Shows |
|---|---|---|
| `queue` | 1 putter, 2 getters, 2 slots, 4 buffers put | `NoLostWakeup`, `SuccessfulGetDelivers`, and that the queue implements `BoundedFifo` |
| `tasker` | one owner, a second thread that stops, 3 threads | `OneThread`, `DisposedUnused`, `StartMeansReady`, `StartReturns`, `StopThenJoin` |
| `httpd` | up to 2 slots, 3 connections | `CountMatches`, `ClosedExactlyOnce`, `SlotOutlivesThread`, `ConnectionEnds`, `StoppedServerJoins` |
| `http_request` | buffers of 4 and 3 bytes, about 450 requests | `BodyExact`, `OneAnswer` |
| `tcp` | 2 connections, FIFO and chunks of 1, 4 bytes, 1 enable | `DeliveredInOrder`, `LiveSessionConnected`, `GapReported`, `NoStall`, `DisconnectTold` |
| `lines` | TTY or CAN, 2 attaches, FIFO of 1, TTY chunks of 1, CAN frames of up to 2, 3 bytes, 1 enable, semaphore of maximum 1 | `NoLostWakeup`, `UnitsConserved`, `GapReported`, `NoStall`, `FailureTold` |
| `websocket` | 2 clients, 2 listening sockets, 2 messages of 0, 126 or 65536 bytes | `NoSocketLeak`, `WholeMessages`, `OneAfterEnd`, `AttachEnds` |
| `websocket_listener` | the same | violated: a failed handshake closes the listening socket the object keeps |
| `coap` | 2 publishers, queue of 2, pipe of 1, 4 publishes, 1 request | `NoMissedWake`, `NothingSkipped`, `EventuallySent`, `StopEnds` |
| `mqtt` | 1 subscriber, 2 calls, 2 connections | `BrokerAsked`, `ConfirmedOrLost`, `SubscribeReturns` |
| `mqtt_overtaken` | 1 subscriber, 1 call | violated: a SUBACK that comes before the caller waits is dropped |
| `modbus` | blobs of up to 2 bytes, FIFOs of 1, 3 bytes, 2 connections, 2 calls of attach, detach or enable | `StreamToMaster`, `AckedArrives`, `WriteReturns`, `PublishedFetched` |

Why the bounds are enough. The queue wraps twice and two getters compete for
each buffer; several putters, more slots and more buffers are covered by the
proofs. The semaphore has one waiter in `lines`, which is how the streams use it;
any number of waiters is covered by its proofs. Three task
threads allow a restart after a restart. Three connections fill two slots and
ask for a third place. The request buffers are small enough for every split of
the bytes over `recv()` calls, and requests end below, at and above each limit.
In `tcp` four bytes fill a FIFO of one, overflow it and go past the gap twice, and
the second connection overlaps with the first one's cleanup. In `lines` a CAN
frame of two bytes fits in part, a third byte comes from beyond the gap, and six
posts, which are more than three chunks and two ends of tasks, are never the
limit; the semaphore's maximum of one drops posts. In `websocket` the lengths are
zero and the first of each of the two longer header forms, the second client connects during
or after the first, and the second listening socket is the one that a detach or a failed attach makes
necessary. A pipe of one byte is full after the first wake-up. Two connections
are a loss and a reconnection. In `modbus` three bytes make a blob that overflows
a FIFO and a second blob behind it, or one blob each way; the second connection
is the one a slave never accepts.

Deadlock is checked for the queue, whose callers never stop
calling. The other models end when their bounded inputs are used up, and say
so with `CHECK_DEADLOCK FALSE`.

Fairness. Only for threads that are in the middle of a call or of a task, and
weak with one exception: the kernel schedules every thread that can run, every
mutex holder releases it after finitely many instructions, deadlines pass, and a
peer that has gone is reported by `recv()`. Nothing forces a caller to call, a
peer to send, a connection to be made or an operation to fail. In `IoxWebsocket` only the
steps of a handshake under way are fair, among them the end of its `select()`.
`IoxTcp`, `RxPipe` and the two line drivers state what a wake-up must achieve as
invariants, without fairness. In `Httpd` a
client in "handling" progresses only after a shutdown of its socket. The
exception is the writer of `ModbusTcp`, which competes for the lock with a
receive task that takes it again and again: fairness is strong for the writer,
because the task sleeps without the lock after every round
(`dtruntime_sleep_milliseconds`), which is when a blocked writer gets it.

## 4. What the violated runs show

- `websocket_listener`: the changelog says that the server "keeps `listen_fd`
  alive across client reconnects". When a second client is accepted on the kept
  socket and its handshake fails, attach closes that socket in its cleanup and the
  object keeps the number. Every later attach then fails in `accept()`, or
  accepts on whatever file has got the number since, until a detach.
- `mqtt_overtaken`: the identifier is stored for `on_subscribe` after the
  request was sent; a SUBACK that arrives in between is ignored and the caller
  reports `ETIMEDOUT` for a subscription the broker granted.

Facts about the code that the models contain and that are stated as exceptions
of properties, as bounds of runs, or as notes of hazards:

- a getter that passes `was_timeout = NULL` (in `Careless`) cannot tell a
  timeout from a buffer;
- `dttasker_start` says it refuses a task that is "not yet join-complete", but
  tests only whether the thread has exited; an exited thread that was not joined
  is replaced, and then never joined;
- a client task of the HTTP server closes its descriptor without the lock, so
  stop may call `shutdown()` on a number that is closed already, which
  the model, having no descriptor numbers, cannot tell from a late stop;
- dispose of the CoAP portal sets the stop flag, wakes the loop, sleeps one
  millisecond and frees everything without joining the loop's task, so a loop in
  the middle of a turn goes on with freed memory (the model does not follow it);
- a TTY stream that is detached and attached again has two receive tasks on one
  FIFO, the first of which reads the new descriptor as well;
- a TTY task without a semaphore never leaves its cleanup; enable forgets a
  failure of the task that no read has reported;
- a CAN task that ends wakes nobody; enable of a CAN stream leaves the overflow
  flag of the bytes it threw away;
- a CAN `write` that fails after some frames reports no bytes as written;
- the handshake timeout of the WebSocket server restarts with every byte, and
  `write` reports messages that the client, having closed its end, will not read: any
  number of them while the FIN is under way, and at most one after it has arrived;
- two threads that join one tasker both call `pthread_join`;
- two threads that subscribe to one MQTT topic at the same time can both skip
  the broker, and two on different topics can take each other's result;
- `on_connect` can fall between the test and the wait of `activate`, which then
  sleeps out its five seconds although the connection stands;
- all CoAP portals of a process share one libcoap context, whose application data
  is the portal activated last;
- a TCP attach whose receive task cannot be started leaves `fd` and
  `is_connected` set, and a later attach returns success at once;
- `NoStall` needs a FIFO that holds one `recv()` of the TCP stream (1024 bytes) or
  one `read()` of the TTY (256 bytes); a CAN frame may be longer than the FIFO;
- a subscribe that failed, in `mosquitto_subscribe` or at the broker, leaves its
  recipient registered, and a retry reports success without asking again; an error of
  `mosquitto_subscribe` in `on_connect` is logged, and the topic stays without
  messages for that connection;
- without a Content-Length header a POST takes its length from a line of its body,
  if that line came with the headers;
- a Modbus slave serves one connection: its server loop returns with the session,
  and an attach of a slave that listens does nothing;
- `_is_connected` of the Modbus master survives detach and a failed receive task,
  so the next attach makes a context and does not connect it;
- an attach of the Modbus master that cannot start its task keeps the lock;
- a Modbus slave that accepts a blob of no bytes keeps it pending and refuses
  every later write until enable;
- a blob that the slave moved to its registers is lost if the connection fails
  before the master has fetched it.

## 5. Proofs

`BufferQueueProofs`, for any finite sets of threads, any buffers and any
capacity (`ThreadsAssumption`, `BuffersAssumption`, `BoundsAssumption`):

- `TypeCorrect`: `Spec => []TypeOK`. Indices stay in the ring.
- `FifoDeliveryHolds`: `Spec => []FifoDelivery`. `FifoDelivery` is not
  inductive: what an enqueue appends to `Contents` depends on where `tail` is,
  and a slot read by a getter must not hold NULL. The inductive invariant
  `RingInv` adds `IndicesAgree` (tail is count slots ahead of head), that every
  occupied slot holds a buffer, and that a waiting putter still has its
  argument. `Wrap` is kept opaque and reasoned about through the two cases of a
  step by one.
- `QueueRefinesFifo`: `Spec => Fifo!Spec` under the mapping
  `items <- Contents`, `taken <- delivered`, from `RingInv`.
- `NoLostWakeupHolds`: `Spec => []NoLostWakeup`, inductive together with
  `TypeOK`. The argument counts: each put adds one buffer and wakes one getter
  if any waits; each get or renewed wait of a woken getter removes one of both,
  or finds the ring empty; a timeout removes a waiter and nothing else.
- `SuccessfulGetHolds`: `Spec => []SuccessfulGetDelivers`, from `RingInv`, when no
  getter passes `was_timeout = NULL` (`Careless \cap Getters = {}`). For a getter
  that does, the property is false: it cannot tell a timeout from a buffer.

`LinesProofs`, in two layers. The semaphore, for any finite set of waiters and any
counts: `NoLostWakeupHolds` and `UnitsConservedHolds` from `SemInv`, the conjunction
of `TypeOK`, `UnitsConserved`, `Capped` and `NoLostWakeup`. The streams of the TTY
and the CAN driver, for any capacity, chunk, frame and buffer length:
`LinesUseSemaphore` says that every step of a stream is a step of its semaphore or
leaves it alone, so that `SemInv` holds of the stream's semaphore, and `PipeInv` is
inductive beside it. It says who waits (`WaiterOK`), and that a chunk in a task's
hand is younger than what the FIFO holds (`ChunksOK`).

- `GapReportedHolds`: the drivers differ. The CAN driver flags a gap with the
  mutex of the push held, so `gap` and the flag go together (`CanGapOK`), except
  that a reader past its test of the flag may still take what came before the gap:
  the FIFO is then full of it. The TTY driver flags it two steps later
  (`TtyGapOK`): until then the FIFO holds nothing from beyond the gap, and after a
  read went past it the flag is up and the reader has yet to test it.
- `NoStallHolds`: `StallOK` says that a reader which waits beside bytes has a unit or
  is about to get one; that it is not asleep then is `NoLostWakeup` of the semaphore.
  For the TTY this takes a FIFO that holds one `read()` (`ReadMax <= Capacity`; the
  default capacity does, a smaller one can be configured). The CAN driver announces
  a frame of which a part was stored, and `CanNoStallHolds` has no hypothesis.
- `FailureToldHolds`: until the reader has heard of a failed TTY task, the mark is
  set, and a unit is there, owed by the task's cleanup, or just taken (`FailureOK`).

`PortalProofs`, about `CoapPortal`, for any set of publishers, any queue and any pipe:

- `NothingSkippedHolds`: `CoapSpec => []NothingSkipped`, what the loop has sent, the
  message in its hand and the queue are the accepted messages in order. It needs
  `HandFree`, that the loop takes a message only with an empty hand.
- `NoMissedWakeHolds`: `CoapSpec => []NoMissedWake`. By itself it is not inductive,
  since it speaks of the loop inside `select()` only. `Announced` says the same
  of the loop from the moment it has found the queue empty: a message that came
  in behind its back is announced by a byte in the pipe or by a publisher that
  is about to write one. `CoapInv` is the conjunction of these with `CoapTypeOK`
  (`CoapCorrect`).
- `CoapUsesChannel`: `CoapSpec => Channel!Spec`. The portal's own put and get are
  steps of `BoundedFifo` under `items <- queue`, `taken <- sent \o hand`; with
  `QueueRefinesFifo` this joins the two modules: the portal asks of the queue
  nothing but what the ring is proved to do.

`TaskerProofs`, for any number of threads, under the hypothesis `OneOwner` that
one caller starts and joins (others may stop). The code has no lock between the
test of `thread_created` and `pthread_create`, nor between the poll of a join and
its `pthread_join`, so without the hypothesis the properties are false (with two
owners TLC violates each of the three within seconds); every
tasker of the library has one owner. The inductive invariant says, beside
`TypeOK`, that only the youngest thread is alive (`YoungestAlive`), what the flags
and the handle say when no call is under way and at each place of a call
(`CallersOK`, `FlagsOK`), that a unit of the ready semaphore and the thread that
owes it belong to the start that waits for it (`TokenOK`, `PostsOK`), which status
goes with which place of the thread (`StatusOK`), and that nobody is left when the
tasker is disposed (`DisposedUnused`). It gives `OneThreadHolds`,
`DisposedUnusedHolds` and `StartMeansReadyHolds`.

`HttpdProofs`, for any number of slots and connections: `SlotOutlivesThreadHolds`,
`ClosedExactlyOnceHolds`, `CountMatchesHolds`. Each needs the others' parts: a
connection is closed once because the descriptor in a slot is the one its thread
serves (`SlotFds`), no other slot (`DistinctFds`) and not the accept task
(`HandOK`) has it, and whoever holds it has not closed it (`HeldOK`, `ClosesOK`);
the count is right because an active slot is one whose thread has not marked it
finished (`ActiveOK`), less the one that is waiting for its ready while the accept
task has the lock (`CountOK`); a slot outlives its thread because the accept task
and the clients run only in a started server that keeps its slots (`AcceptOK`,
`ClientsOK`).

The same module, about `HttpRequest`, for any buffer sizes and any set of requests: `BodyExactHolds`
and `OneAnswerHolds`. The inductive invariant (`RequestCorrect`) adds that while
the headers are read every byte received is in the header buffer (`HeadersHeld`),
that the body buffer holds a prefix of the body and the next byte of the stream is
the next byte of the body (`BodyPrefix`), and that an answer ends the reading
(`AnswerLast`). How often `recv()` returns, and with how much, is left open.

`IoxTcpProofs`, for any capacity, chunk size, buffer length and number of
connections, over threads that share seven fields without a lock:

- `DeliveredInOrderHolds`: the FIFO is sorted, younger than what was read
  (`FifoOK`) and older than the chunk in a task's hand (`ChunkOK`, `Younger`); that
  only one task has a chunk follows from `SessionsOK`, that nobody connects before
  the last task has let go of the descriptor. The same conjunct gives
  `LiveSessionConnectedHolds`.
- `GapReportedHolds`: `late <= 1` is not inductive. `GapOK` adds that until the
  flag is raised the task is about to raise it and the FIFO holds nothing from
  beyond the gap, and that after a read went past the gap the flag is up and the
  reader is not between its test of the flag and its pop.
- `DisconnectToldHolds`: when a task has ended, `is_connected` is down (`LostOK`)
  and the reader has a unit or is about to find out (`WokenOK`).
- `NoStallHolds`, for a FIFO that holds one `recv()` (`ChunkMax <= Capacity`, which
  the run's instance satisfies and a configured capacity below 1024 would not):
  `StallOK` covers the reader that an enable is about to send back to waiting.

`IoxWebsocketProofs`, for any clients, sockets and message lengths:

- `HeaderDeclares`: for every length up to `INT32_MAX`, the type of `write`'s
  argument, the bytes the code puts before a message are a whole header from which
  a client reads that length. The run evaluates it in each of the three forms.
- `NoSocketLeakHolds` and `OneAfterEndHolds`, from `SocketInv`: it adds
  `HeldOK`, which descriptors belong to the call under way and which to the object
  at each place of a call, and `SilenceOK`, that a report after the client's
  FIN had arrived was the last of its connection.
- `WholeMessagesHold`, from `WireOK`: the wire carries the frames of what `write`
  reported, and behind them at most one that is not whole. With `HeaderDeclares`,
  what the client takes apart is what was reported.

The same module, about `MqttPortal`, for any callers and topics. `LinkOK` says what
`connected` is worth:
it is set as long as the connection is up, and longer. `CallersOK` carries over
a caller's steps that a connection it saw up and did not lose is still up.

- `BrokerAskedHolds`, for callers that share no topic (`OwnTopics`): a topic with
  recipients was asked for on this connection, or `mosquitto_subscribe` reported an
  error for it, or its caller stands between counting itself and asking (`AskedOK`).
  Two callers of one topic can both count themselves before either looks, then each
  finds a count of two and nobody asks; TLC finds that within seconds when
  `OwnTopics` does not hold.
- `ConfirmedOrLostHolds`, for one caller (`Alone`): it waits for the identifier it was
  given (`WaitOK`), and a SUBACK that grants a subscription is the broker's word for
  it (`AcksOK`). Several callers share `suback_mid_waiting` and `suback_result`, and the
  run `mqtt_overtaken` shows what comes of it.
- `MqttTypeOK`: an identifier in use is one that `mosquitto_subscribe` gave out
  (`MidsKnown`, inductive beside `MqttInv`).

`ModbusTcpProofs`, for any sizes of blobs, FIFOs and read buffers and any number of
bytes, connections and calls, in two layers.

- `BaseCorrect`: one request at a time (`BaseInv`). The master's lock is held over a
  poll round and over a write (`LockOK`), so on the one connection that the slave
  serves (`ConnsOK`) there is the request its holder waits for, or the answer to it,
  or neither (`WireOK`); a connection with an overdue answer is not used again.
  `RoomOK`, `BlobsOK` and `RegsOK` bound the FIFOs, the blobs under way and the
  slave's registers. `ModbusTypeOK` follows.
- `StreamToMasterHolds`: `MasterInv` adds that a poll is under way only when the last
  blob was delivered (`PollsOK`), that the answers of one round speak of the blob in
  the registers, which is either delivered or behind everything that was read
  (`RoundOK`), and that what was read, what is in the registers and what is pending
  follow each other with nothing missing (`PublishedOK`).
- `AckedArrivesHolds`: `SlaveInv` adds that what was received, the registers, the
  requests under way and the write that waits for the lock follow each other
  (`SentOK`), and that the answer to a blob is there only when its bytes have arrived
  (`AckOK`).

The two theorems have a hypothesis on the sizes: `SlaveMax <= MasterMax` for the
stream to the master and `MasterMax <= SlaveMax` for the other. Both sides have the same
`max_blob_bytes` by default. When the receiver's is smaller it cuts a longer blob off
without a report (`dtiox_linux_modbus_tcp_master__rxtask.c:65`,
`dtiox_linux_modbus_tcp_slave__helpers.c:131`), and TLC violates each within seconds.
`BaseCorrect` needs no hypothesis.

How the invariants were found. Each inductive invariant was first checked by TLC as
an invariant of the run's instance, and of `IoxTcp` on five instances with
different capacities, chunks, buffers and numbers of connections (up to 5.2
million states), of the line drivers on four (up to 2.9 million), of
`MqttPortal` on three (one caller, two with a topic each, two that share one; up
to a million) and of `ModbusTcp` on six (up to 2.4 million); then proved action by
action. `TypeOK` is a conjunct of each of
them.

Only model-checked: every liveness property (`StartReturns`, `StopThenJoin`,
`ConnectionEnds`, `StoppedServerJoins`, `AttachEnds`, `EventuallySent`, `StopEnds`,
`SubscribeReturns`, `WriteReturns`, `PublishedFetched`), because the prover does not
handle fairness. Every safety property that a passing run checks is also proved, under
the hypotheses named above.

## 6. What is not modelled

The HTTP client, the SDL display, SHA-1, clocks and version strings have no
shared state. Applications wire parts together; the Matter test is generated.
The lock is mutual exclusion. Descriptor numbers and their reuse by unrelated
files, memory after it was freed, the priorities of threads, the wording of
errors and logs, and the libraries libcoap, libmosquitto, libmodbus, libcurl
and SDL beyond the calls the code makes are left out.

The Modbus RTU master has the loop, the lock and the flags of the TCP master. It
differs in that `write` cuts a message into blobs, that it posts `rx_semaphore`
itself, and that there is no connection to lose; its other end, an RTU slave, is
not in this repository, so there is nothing to compose it with.

The file blob has one thread and no state beside its file: `write` opens with
`"wb"`, which truncates, and then writes, flushes and closes, without a temporary
file and without `fsync`. What a crash leaves (the old content, nothing, a part,
the new content) is decided by the file system, and the code has no recovery.

## 7. Plan

Done: the models of section 2 and the proofs of section 5. Open: the
Modbus RTU master, when its other end is in the repository; and what two receive tasks of
one TTY do to the FIFO, when the code of `dtringfifo` is.

## 8. Running

In this directory: `tlc -config <run>.cfg <MC module>` for a run of
`PROJECT.json`, and `tlapm <module>.tla` for each of the eight `*Proofs` modules.
