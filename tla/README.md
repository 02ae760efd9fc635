# DanLib in TLA+

DanLib is a C++17 library of network and device classes built on standalone
asio: signals with slots, tcp, ssl, websocket and udp servers and clients, http
on top of tcp, one-shot http requests, a serial port, packets for a robot and
image classes. This directory holds TLA+ models of its concurrent core and of the
ownership in its images, the TLC configurations that check them on small instances,
and TLAPS proofs of all but one of the invariants, of the action properties and of the
refinements for every instance.

All paths below are relative to `src/`.

## 1. The system

Everything networked has the same shape. An object owns an `mIoService`, run by
its *IO threads*, and an `mCallbackService`, run by its *callback threads*.
Completion handlers of sockets, timers and lookups run on IO threads; what the
user is told of is mostly *posted* to the callback service, so that slots (user
code connected to a `dl::Signal`) run there. Objects live by `shared_ptr`: a
handler or job that captured a `shared_ptr` keeps its session alive, one that
captured a `weak_ptr` locks it first, and one that captured a raw `this` has to
hope. Most of what can go wrong is in these three: which thread gets there
first, who still owns the object, and what has been posted but not yet run.

| Component | State | Operations | Talks to | Hard part | Correct when |
|---|---|---|---|---|---|
| `dl::Signal` (`Utility/Signal/Signal.hpp`) | the slots, one mutex | `Connect`, emission, `GetConnectedSlotCount` | its slots, which call other signals while the mutex is held | nested locks of several threads | no circular wait, a slot list never changes under an emission |
| `tcp::Server` (`Tcp/Tcp/Server.*`) | `mpNewSession`, `mActiveSessions` | accept, broadcast, disconnect slot, destructor | sessions, user slots | the session's own slot owns the session | sessions announced before read, removed and destroyed once closed |
| `tcp::Session` (`Tcp/Tcp/Session.*`) | socket, `mData`, `mWriteQueue`, `mWriteBuffer`, strand | `Start`, `Write`, `AsyncWrite`, `OnRead` | server or client that made it | raw `this` in handlers; overlapping writes over one buffer | bytes in order, no handler on a dead session |
| `tcp::Client` (`Tcp/Tcp/Client.hpp`), `tcp::SslClient` | `mpSession`, timer, lookup and connect under way | connect, retry, reconnect, write | sessions, user slots | timer, answer, end of connection and reconnection race | never silently at rest; the user hears of each connection and of its end once |
| `tcp::SslSession` | tls stream, otherwise as Session | blocking handshake, `AsyncWrite`, `OnRead` | SslClient | buffer over a local, handshake blocks an IO thread | as Session |
| `ws::Session`, `ws::Server` (`Websockets/Websockets`) | stream, `mWriteQueue`, `mIsSending`; `mActiveSessions` | handshake, read, queued write, broadcast | user slots | broadcasts before the handshake; the flag that gates the queue | messages whole and in order; closed sessions told of and destroyed |
| `ws::Client` | one websocket for all its connections, timer, write queue | connect, (ssl) handshake, read, write, reconnect | user slots | attempts overlap on one stream | one operation on a connection, never at rest, messages told between connection and end, none lost or sent twice |
| `http::Request`, `Responce`, `Server` (`Http/Http`) | bytes so far, header, length, body; callbacks by route | `AddBytes`, `Register`, answer | `tcp::Server` sessions | tcp splits the stream anywhere | an accepted answer is the answer; nobody waits for bytes that never come |
| `dl::request` (`Requests`) | a detached thread, a promise and a condition variable per request | `Get`, `Post` | `tcp::Client`, `http::Responce` | slots race the thread that makes and destroys what they use | what was sent is answered, once |
| `serial::Serial` | port, `mData`, `mWriteQueue` | read loop, write | user slots | one buffer for read and posted callback; several writes under way | chunks handed on as received, messages whole |
| `udp::Server`, `Session` | socket, one Session a receive | receive loop, send | user slots | the buffer of a send belongs to the caller | each datagram handed on once |
| `robot::PacketAssembler`, `Decoder`, `Encoder` | bytes so far | `AddBytes`, `Decode`, `Encode` | a byte stream, user slots | several packets in one chunk; padded and packed headers | what comes out does not depend on how the stream is cut |
| `image::Image`, `Bitmap` | measures, `mpOwnedData`, `mpData` | construct, copy, move, `Set`, draw, save | the user's buffers | ownership under assignment; drawing at the edges | no block freed twice, shared or lost; an image is a value; a bitmap holds its rows |
| `Utility`, `TypeTraits`, mains and tests | - | stateless or compile-time | - | - | - |

The hazards, each with its line and the properties that would notice it going
wrong, are listed under "hazards" in `PROJECT.json`. Where the code does go wrong and the properties
except the case, the hazard has no property and a note that says so.

## 2. Modules

| Module | Models | Lines of code it stands for |
|---|---|---|
| `Signal` | `dl::Signal`, any number of signals and threads | `Utility/Signal/Signal.hpp` |
| `TcpServer` | `tcp::Server` with the read side and lifetime of its sessions | `Tcp/Tcp/Server.cpp`, `Tcp/Tcp/Session.cpp:12-40, 88-122` |
| `Writers` | write sides of `tcp::Session`, `tcp::SslSession`, `serial::Serial` and `ws::Session` | `Tcp/Tcp/Session.cpp:44-86`, `Tcp/Tcp/SslSession.cpp:46-75`, `Serial/Serial/Serial.cpp:104-148`, `Websockets/Websockets/Session.cpp:136-198` |
| `Receivers` | receive loops and destructors of `serial::Serial` and `udp::Server`, `udp` sends, and the robot packets | `Serial/Serial/Serial.cpp`, `Udp/Udp/*.cpp`, `Robot/Robot/PacketAssembler.cpp`, `PacketDecoder.hpp:29-41` |
| `WsServer` | `ws::Server` with handshake, reads and lifetime of its sessions | `Websockets/Websockets/Server.cpp`, `Session.cpp` |
| `TcpClient` | `tcp::Client` with either class of session, and the start of `SslSession` | `Tcp/Tcp/Client.hpp`, `Tcp/Tcp/SslSession.cpp:28-40` |
| `WsClient` | `ws::Client` | `Websockets/Websockets/Client.cpp` |
| `Requests` | `dl::request::MakeRequest` | `Requests/Requests/Requests.cpp:77-151` |
| `Http` | `http::Server`, `Request`, `Responce`, both ends of one connection | `Http/Http/*.cpp` |
| `Images` | `image::Image`, `image::CreateBitmap`, and the memory they use | `Image/Image/Image.cpp`, `Bitmap.cpp` |
| `IoStrand` | asio's `io_service` queue and strand (external), used by the write sides | - |
| `FifoWriter` | no code: what `Write` promises its callers | - |
| `ImageValues` | no code: what an image is to the program that uses it | - |

`Writers` `EXTENDS` `IoStrand` and is shown to implement `FifoWriter` through an
`INSTANCE` with a refinement mapping; `Images` implements `ImageValues` in the same way. Every module `M`
with runs has an `MMC` that names its model values. `SignalProofs`, `TcpServerProofs`, `WritersProofs`, `ReceiversProofs`,
`TcpClientProofs`, `WsClientProofs`, `HttpProofs` and `ImagesProofs` each extend the module they are named after and hold its theorems;
`HttpProofs` also extends `Requests`, whose requests have one such connection each, and holds its theorems; `TcpServerProofs` has an instance of `WsServer` and holds those.

How a model corresponds to the code:

* **Step size.** A handler is one action as long as nothing it does can be
  observed half done. Where it can be, it is cut: an emission of `Signal`
  is lock, one step per slot, unlock; `Server::OnAccept` is four
  steps because callback threads run between them; `OnResolve` and
  `OnConnect` of both clients are cut before each call that another IO
  thread's handler could overtake.
* **Ownership.** `TcpServer`, `WsServer` and `TcpClient` keep no reference counts. Each of
  the owners of a session (server's list, `mpNewSession`, slots, pending
  handlers, posted and running jobs) is a piece of state, and a session is
  `Alive` when one of them holds it.
* **Jobs.** A posted lambda is a record of its kind and its session; the
  kind says whether it captured a `shared_ptr`, a `weak_ptr` or a raw `this`.
* **Data.** Messages and slots are model values, a chunk is its number, a transmission is a sequence of
  *parts* (what one socket write accepts). In `Http` a stream is a sequence of
  words, with `\r\n` as a word of its own, and is split anywhere between words.
* **asio** is modelled by its contract: a completion handler runs once, on some
  thread that runs the service, never inside the initiating call; closing a
  socket or cancelling a timer completes its pending operations with an error, unless the
  completion is already queued; `async_write` is composed of several writes; a strand runs
  its handlers one at a time.

### Signal

`stack[t]` is the stack of calls thread `t` has in progress, one frame per
call with `locked` and the number of slots already run. A slot may itself make
a call (`Body`), as the slots of `tcp::Client::Connect` and of `Server::OnAccept`
do: new frames are pushed while the mutexes below stay locked.

### TcpServer, WsServer

`accept` is the progress of the accept loop, `reading`/`pending` the reads under way,
`queue` and `running` the callback service. `peer` and `sent` are the other end of
each connection: it sends, closes or fails at any moment. `Stop` is the destructor.
`WsServer` differs as the code does: a session is listed *before*
its handshake, all handlers lock a `weak_ptr`, a failed handshake emits the
disconnect on the IO thread, and the write queue is gated by `mIsSending`.
`early` remembers the sessions that got a broadcast before their handshake was done.

### Writers, FifoWriter

`class` (chosen initially) is which of the four classes the connection is. A write is posted, taken by an IO
thread, entered into the strand (`IoStrand`), queued, and transmitted part by part: an operation of `socket` waits for
the connection, `AsyncWrite` is shared and the classes differ in three places. `mIsSending` is set by `ws` only;
`mWriteBuffer` is the memory that `tcp` and `ws` send from, `ssl` and `serial` send from a local copy that is gone when
`AsyncWrite` returns; `serial` writes with `async_write_some`, so that the rest of a message goes back to its queue.
What is sent from memory that was assigned again or freed is `Garbage` or, if nobody has used that memory since, the message.
An ssl engine encrypts a message as soon as it is written, so that the copy is only read late for the rest of a long
message, or while two operations wait already (`Copied`).

`FifoWriter` says: what was submitted goes out whole, once and in order until the connection
breaks. All four classes implement it over the order in which writes *enter the strand*; two IO threads may swap two
writes of one caller before that. `ws` does so for ever. The others do until `loose`: a message is started
while another one still has bytes to send (`Overtakes`), or bytes are sent from a copy that is gone.

### Receivers

`read` is the receive that is always under way, `jobs` and `running` the callback service, `handed` what the user's slots
got. For `serial` the posted job reads `mData` when it runs; if the next receive has written there, it hands on `Spoiled`.
For `udp` each receive has its own `udp::Session`. `stopped`, `mpNullWork`, `exited` and `destroyed` are the steps of the destructor,
which may be called at any time. `fed`, `cut` and `assembled` are a `PacketAssembler` in the slot of a serial port: the bytes it was
given, the bytes it has cut off, and the packets it emitted. The stream is any bytes, cut into chunks anywhere. All that
matters of them is the `size_t` that begins at each position, `SizeAt`. `DecodeHeader` reads it where the decoder does,
behind a `type_index` (`TypeWidth`) and a `uint8_t` without padding, while `AssemblePacket` waits for and cuts off
`HeaderSize` bytes, which is `sizeof(Header)` with its padding; `PacketSize` is their sum in a `size_t` (`% SizeRange`). A stream that fits both does
not exist, and none is assumed: `Start[k]` and `Whole(k)` say where the packets lie when the same headers
are read in one piece, and `PacketsComeOutInOrder` that cutting the stream changes nothing.
What a decoder does with an assembled packet is left out.

### Images, ImageValues

`image[i]` has the measures and both pointers of a variable, `heap[b]` the bytes of the block at address `b`, or `Free`.
Constructors, assignments and `Set` are one action each, with their order of allocating, freeing and reading in
`Copied` and `Moved`. The pixels that a drawing call reaches are computed from the code's loops (`Circle`, `Line`, `ThickLine`), and
`AsSize` is the conversion of their `double` coordinates to `size_t` on the way to `SetPixel`: of a negative one the language says
nothing, so that it may become 0 or a number beyond the image, and everything claimed is claimed of both.
When `SetPixel` runs past a colour or a block, nothing is known of the program any more and the model ends (`spoilt`).
`ImageValues` has no memory at all: what one image shows changes by calls on that image, or through a buffer it is a view of.

Some facts of this code can be read off one place and are left to the reader: the header of a bitmap has a pixel
offset of 0 (`Bitmap.cpp:89`), it announces 8 bits a channel while three bytes a pixel follow
(`:94`), and an image assigned to itself loses its pixels, which `ImageValues!Copy` states.

### TcpClient, WsClient

`handler` counts the IO threads at each point in the middle of `OnResolve` and `OnConnect`, `overtaken` remembers that such a
handler was interrupted by another one between two of its calls, which needs two IO threads. With `SslSession` (`secure` of `TcpClient`, chosen initially)
`Start` is a handshake that blocks its thread (`handshakes`), ends in a read or throws out of the thread. `timer` and `timeouts` are the retry timer and its queued
handlers, `resolves` and `connects` the pending operations, `started`, `starts`,
`connections` and `disconnects` what the user has been told. The constructor's default
is two IO threads (`Client.hpp:30`), which is why the runs use two.
`WsClient` adds both handshakes, one stream for all connections, messages read, and the write queue; `secure` (chosen initially)
tells the two constructors apart. An operation and its handler are two steps: what is pending (`connects`, `sslShakes`, `shakes`, `reading`) completes, and is then
queued (`connectsDone`, `sslDone`, `shakesDone`, `readsDone`) until an IO thread runs the handler. `CloseSocket`, with which the `async_connect` of an attempt begins, ends what is
pending and leaves alone what is queued, so that a handler can find another connection than the one its operation was for; `stale` remembers that
it happened. `OnRead` posts the message and reads on. Data types and the destructor are left out, and
so are two facts that can be read off one statement each, that `mBuffer` is
never consumed (`Websockets/Client.cpp:291`), so that every message is handed on with all those before it in front, and that `SslWrite` ignores the data type (`:371`).

### Requests

`worker[r]` is the thread of a request: it makes the client, connects three
slots one after another, waits and destroys everything. The client's
connection is reduced to `link`, with the connects, tells and reconnects of `TcpClient`.
An answer's header is taken to come whole in the first chunk; `Http` splits it anywhere.

### Http

`request` is the record behind a session's `Request`, `responce` that of the client;
`AddToRequest` and the operators around it follow `AddBytes`. `server = "crashed"` stands for reading
`mHeader[0]` of an empty vector. The client's slot stays connected after it has accepted an answer (`promised`), so that later chunks are parsed too:
`client` becomes `"out_of_range"` when `substr` throws and `"future_error"` when a second answer is accepted and the promise settled again.
`headerSplit` remembers that the first chunk of the answer ended before its header.
Which words there are (`Words`) and how a length is written (`LengthLine`) are constants: all that the parsers need is that
lengths can be told apart (`LengthAssumption`). `HttpMC` takes strings and decimal numbers.

## 3. Runs

All runs use the default breadth-first search and no state constraint; `Images` alone uses symmetry (of its two
variables; it has no liveness property).
`CHECK_DEADLOCK FALSE` is set everywhere: in every model the bounds run out, and with
the destructor or a terminated program the system really stops. That nobody waits for
everybody is stated as a property instead (`NoCircularWait`, `CallsReturn`, and the liveness properties).

| Run | Instance | States | Shows |
|---|---|---|---|
| `Signal` | 2 threads, 3 nested signals, 5 calls | 43 000 | no circular wait; a slot list never changes under an emission; every call returns |
| `TcpServer` | 2 connections and the next accept, 2 chunks, 1 write, 1 callback thread | 271 000 | `PendingReadIsOwned`: a read's raw `this` never dangles. `AnnouncedFirst`, `DeliveredInOrder`: users see a session, its bytes in order, its end. `OnlyEndedSessionsLeave`, `ClosedSessionsAreDestroyed`: removal at the end only, and then destruction |
| `Writers` | 4 classes, 3 messages of 2 parts, 2 IO threads | 427 000 | `IsFifo`: all implement `FifoWriter`, liveness included, `ws` for ever and the others until `loose`. `EveryWriteIsAccountedFor`, `EveryWriteEnds`: even then none is lost and all complete. `QueueIsServed`: no message is stranded |
| `TcpSessionTwo` | `tcp` only, 2 messages, 1 IO thread | 70 until found | **violation**, see Findings |
| `Receivers` | 2 classes, 2 callback threads (`udp`), a stream of 8 bytes in chunks of 1 to 3, headers of 4 bytes, sizes modulo 8, 3 datagrams, 1 failing receive, 2 sends | 422 000 | `HandedOnAsReceived`, `EveryChunkIsHandedOn`; `DestructorReturns`; `PacketsComeOutInOrder`: packets do not depend on the cuts, and none that is whole waits unless `crowded` |
| `Images` | 2 variables, 3 shapes, 3 blocks, coordinates from -1 to 2, thickness 1 to 4 | 172 000 | `EveryBlockHasOneOwner`, `PixelsAreThere`: no pointer is used or freed once too often. `ImagesAreValues`. `LinesAreBands`, `BitmapHoldsRows` |
| `WsServer` | 1 connection and the next accept, 2 chunks, 3 broadcasts | 39 000 | `BroadcastsArrive` unless `early`; `ClosedSessionsAreDone`: all that was read is handed on, the end is told, the session is destroyed |
| `TcpClient` | plain and ssl sessions, 2 IO threads, 1 callback thread, 3 sessions; 1 refusal, failed lookup or write, 1 silence, 1 closing | 746 000 | `NeverAtRest`, `ConnectsAgain`, `EveryStartEndsOnce`, `ConnectionIsToldFirst`, `OnlyCurrentSessionIsRead` |
| `WsClient` | 2 IO threads, 1 callback thread, 2 messages written, 1 read, 2 completions queued at a time, 1 handler overtaken, 2 troubles of any kind | 1 133 000 | `NeverAtRest`, `ConnectsAgain`; one stream for all connections: `OneOperationPerConnection` unless `stale`; `UserKnows`, `MessagesComeBetween`: what the user hears; the queue: `QueueIsServed`, `NoneLostOrTwice` |
| `Requests` | 2 requests, 2 chunks, 2 refusals, 1 reconnection | 17 600 | `NeverSentTwice`, `WokenWhenAnswered`, `WrittenIsAnswered` |
| `RequestsSecond` | 2 requests, no trouble | 1 500 | **violation**, see Findings |
| `Http` | 2 requests out of 3, 2 chunks | 1 258 000 | `AcceptedIsAnswer` when the header came in one chunk, also after further chunks; `NoEndlessWait` |

**Why the bounds are enough.** Each is the smallest at which the interesting cases meet.
Two connections make one session end while another is being accepted and read; two chunks can be
swapped; three overlapping messages let a third follow while the second waits behind the first;
three sessions of a client are the first, the one that a timeout puts in its place
and the one after; two requests share the `static`; five calls with nested signals
fill both threads' stacks to their depth of three; three messages in `Writers` let two overlap and a third find the engine of `ssl` full;
the stream of `Receivers` has two sizes so large that `PacketSize` wraps, to less than a header, and a packet with payload behind them, and a chunk of three bytes can make two packets whole;
two completions of `WsClient` can be queued when an attempt closes the socket, and one handler overtaken is all that its properties tell from none;
two images can be assigned to each other and to themselves. One callback thread is a *premise* of
`DeliveredInOrder`: with two (the default of `Client.hpp:31`) chunks do overtake each other.
`WsServer` has one connection, since two exceed what a run can afford; its sessions
share only the server's list, which `TcpServer` exercises with two.

**Fairness.** `FairSpec` of each module has weak fairness only. Threads keep running (`io_service.run`
returns only when stopped), so a handler that is ready and a posted job are
eventually run: `IoStep`, `CallbackStep`, `Step(t)`. A client of `Http` is only taken to read until it has accepted: nothing waits for what it reads after that. Timers expire (`Expire`), and a pending lookup,
connect or handshake is eventually answered, positively or not (`Answer`): for a lookup or connect the operating system
gives up at some point; for the handshake of an `SslSession` it is a premise, since a peer that stays silent blocks the thread for as long as it likes. Bytes that wait are eventually transmitted, or end with an error on a broken connection (`Network`). Nothing
is assumed of peers, users or the call of a destructor: they may stop at any moment; a destructor that was called goes on (`CallbackThreadsExit`, `Join`).

**Premises.** Some properties name what they do not cover, in the formula and in the comment above it.
`NeverAtRest` of the clients excepts failed lookups, read errors and (`ws::Client`) failed handshakes, which the code only reports,
and handlers overtaken by another IO thread: TLC finds it violated without that premise,
so the exception is a fact about the code and is listed as a hazard.
`BroadcastsArrive` excepts `early` sessions for the same reason: their `mIsSending` stays set for good.
`OneOperationPerConnection` excepts `stale`, a socket closed over a queued handler: without the premise TLC finds two operations under way on one connection.
`MessagesComeBetween` and `UserKnows` except handlers overtaken and an expiry before the answer (`late`), which mix two connections; the first is about one callback thread.
`QueueIsServed` and `EveryWriteEnds` of `ws` end with its first failed write, `IsFifo` with `loose`, `WokenWhenAnswered` is about notifications and not spurious wake-ups,
`AcceptedIsAnswer` about headers in one chunk.
`HandedOnAsReceived` lets a serial chunk be `Spoiled` when another came before it was handed on (`ahead`), `PacketsComeOutInOrder` lets a packet wait after a
chunk that made two whole (`crowded`), `BitmapHoldsRows` excepts the first row, `PixelsAreThere` images of fewer than three channels.
`LinesAreBands` claims the width of thick lines drawn to the right or down only, nothing of thickness 1, and allows for what is painted astray in the first row or
column where a line leaves the image there. `ImageValues!Copy` has an image that is assigned to itself lose its pixels. Each of these is what the code does.

**Type invariants.** Those of the modules with proofs are proved (section 4) and not run again; `ReceiversProofs`, `TcpClientProofs`, `WritersProofs`, `WsClientProofs`, `HttpProofs` and `ImagesProofs` define them, as the first conjuncts of their inductive invariants.

**Mutants.** For each property `PROJECT.json` names an operator that changes one mapped definition as a
plausible bug would (a dropped guard, a missing reset, a swapped order), and the property is violated by it.
The operators stand just before what they mutate, under the comment `Mutant of`.

## 4. Proofs

TLAPS checks 44 theorems in 8 modules, for every value of the constants. Between them they state every
invariant that a run checks, the action properties, and the refinements, that of `Writers` without its liveness.

* `SignalProofs`. `TypeCorrect`; `LocksMatch` (a mutex is held by exactly the thread that has a
  locked frame for it); `NoCircularWaitHolds`; `SlotsStable`. The last three assume `Nested(rank)`: there is
  a ranking of the signals such that a slot only calls signals of lower rank, as the slots that the
  library connects do (session to client, new connection to session). It is needed: a slot that emits its own signal waits
  for itself. `SignalMC` has TLC evaluate the same assumption on the instance.
  `NoCircularWait` is not inductive: the invariant `IInv(rank)` adds `LockMatchesCalls` and `CallsDescend(rank)` (ranks fall along each
  stack), so that on a circle of waiting threads the rank of the wanted signal would have to fall for ever.
* `TcpServerProofs`. `TypeCorrect`, `ReadsNeverDangle` (`PendingReadIsOwned`), `AnnouncedFirstHolds`,
  `OpenSessionsStay` (`OnlyEndedSessionsLeave`), from
  `ServerIInv == TypeOK /\ PendingReadIsOwned /\ AnnouncedFirst /\ OnlyEndedSessionsLeave /\ AcceptOwns /\ ReadsAreStarted /\ DisconnectIsLast`.
  The argument: a read handler owns nothing, so some other owner must outlast the read. The server's list does, since
  only the disconnect job removes from it, that job is posted only by the end of the read loop, and no read
  follows it. `AcceptOwns` carries a session through `OnAccept` before it is listed and started.
  `OneThreadDelivers` (`DeliveredInOrder`) is about one callback thread, `CallbackThreads = {c}`; its invariant `LineIInv(c)` puts
  the job that the thread is at and the queue in one line: the chunks of a session in the line are those read and not handed on,
  in rising order (`NoChunkIsMissing`, `ChunksInOrder`), and its end stands behind them (`EndStandsLast`).
* `WsServer`, in `TcpServerProofs` as the instance `W`, because the lemmas about the jobs and their line are those of `TcpServer`: they are stated on the
  variables that the two modules share. From `WsIInv`: `WsHandlersFindTheirSession` (a session with an operation pending is in the server's list and its own slot,
  so that no `lock()` of a handler fails), `WsSessionsAreAnnouncedFirst`, `WsBroadcastsMissNone`, and `WsSessionsAreLetGo`, the safety half of `ClosedSessionsAreDone`:
  what owns itself has an operation pending or its end posted, unless a read failed. `WsUnstarted` (what `OnAccept` has not come to yet) and `WsEndIsLast` (whose end
  is posted is read no more) make it inductive; `WsHandshakeFirst` lets a handshake fail without a job, since nothing of that session is in line.
  `WsOneThreadDelivers` adds `LineIInv(c)`. From `WsWritesIInv`: `WsMessagesAreAccountedFor`, that a broadcast is not lost between the strand, the queue and the wire,
  and `WsEarlySessionsStayMute`, the exception of `BroadcastsArrive`: a session that was to transmit before its handshake was done never does.
* `WritersProofs`. `InOnePlaceHolds`: no message is in two places (`OnePlace`), which is what makes the count of
  `EveryWriteIsAccountedFor` (`WritesAreAccountedFor`) go up and down by one; `QueueServed` (`QueueIsServed`).
  `WriterIsFifo` is the refinement of `FifoWriter` without its fairness, for each class of connection: what was submitted is the order in which
  writes entered the strand (`EnteredOnce`), and `Ordered` says how far of it was started and where the message stands whose parts
  are on their way. `OrderedUntilLoose`: `WireIsOrdered` for as long as no message overtook another or was sent from memory that is gone,
  so that the violation of `TcpSessionTwo` has no other cause.
* `ReceiversProofs`. `HandedOnWhole` (`HandedOnAsReceived`) from `SerialLine`, the one line of chunks from the port to the slots,
  `Buffer`, which of them `mData` holds, and `UdpChunks`, that each datagram is in one place. `PacketsInOrder` (`PacketsComeOutInOrder`) from `Stream` and `Fed` (what was
  handed on is a prefix of the stream) and `Cuts` (the assembler cuts where a packet starts and nowhere else), for any stream, header, padding and range of sizes.
* `TcpClientProofs`. `ClientNeverAtRest`, from `ClientTypes`, `StartedIsRead` and itself: whatever
  the network does, a client that no handler overtook has a connection being read, an attempt, a timer or a
  reconnection pending. `StartedIsRead` is needed so that the session that `OnConnect` has started, or is in the handshake of, is still the current one and read when the timer is cancelled.
  `StartsAreAccountedFor` (`EveryStartEndsOnce`) is a sum over all sessions; `ToldInOrder` (`ConnectionIsToldFirst`) needs
  that sum, that one thread is in `OnConnect` (`Alone`) and what it has to announce (`Announced`); `OthersAreNotRead` (`OnlyCurrentSessionIsRead`)
  enumerates the stages that a client without a race goes through (`OneAtATime`).
* `WsClientProofs`. `OneOperationAtATime` from `OneOperation` (no connect is to be handled on an open socket either), `ServedUntilAnError` (`QueueIsServed`), `WritesAreKept` (`NoneLostOrTwice`);
  `RestsAfterErrorsOnly` (`NeverAtRest`) with `Begun` (what a handler has started is pending when it goes on); `UserIsToldTheTruth` (`UserKnows`)
  and `MessagesAreAnnounced` (`MessagesComeBetween`) with `OneAtATime`, as for `tcp::Client`.
* `HttpProofs`. `AnswerIsAccepted` (`AcceptedIsAnswer`), from `HttpTypes`, `FirstIsServed` and `FirstIsRead`: the property speaks of the
  promise that the client has settled, the invariant of everything that is on the way. Until the server has answered, what it
  has yet to read begins with the first request's header (`FirstIsServed`); what the client has of the body and what is still on its way
  begin with the body that was answered, and end with it as long as there is one answer (`FirstIsRead`). That holds for every place at which a stream
  is cut, since the lemmas find the first blank line of any stream that begins with a header (`HeadOf`, `ToBytes`). Two more follow from it:
  `WholeHeaderNeverThrows`, that only a header in parts makes `substr` throw, in chunks that come after the answer too (with one in parts it happens in the run's instance), and `CrashesBeforeItAnswers`, that the
  null pointer is read by a session's first chunk or never.
  For `Requests`, `SentOnce` (`NeverSentTwice`) needs `FirstTimeGuards`: who writes has seen `FirstTime` set, and resets it.
  `WokenAfterTheAnswer` (`WokenWhenAnswered`) needs `AnsweredOnce`. `LatecomersAreNotWritten` says in general what `RequestsSecond` shows once:
  a request that has not found `FirstTime` set when the first one is written is never written.
* `ImagesProofs`. `OneOwnerHolds` and `PixelsStayThere` from `Ownership`, which says pointwise what `EveryBlockHasOneOwner` counts.
  `ImagesImplementValues`: every step is a step of `ImageValues` or leaves values and buffer alone. Copies and moves
  need that owners are alone, views that the user has one buffer, drawing that what it writes, byte by byte, are whole pixels.
  `BitmapsHoldRows` and `LinesCoverBands` are about operators and need little of the state; the former is an induction over the rows, the latter goes
  from the points of a line through `AsSize` to the pixels of the image, for both outcomes of a negative coordinate.

Each module proves `Init => IInv`, that each action (or group of actions) keeps it, `IInv => ` the property, and takes a last PTL step.
The assumptions are those named in the modules (`ConstantsAssumption`, `ServerAssumption`, `ClientAssumption`, `IdleAssumption`,
`WsServerAssumption`, `WritersAssumption`, `WsClientAssumption`, `RequestsAssumption`, `HttpAssumption`, `LengthAssumption`, `ReceiversAssumption`, `MarksAssumption`, and `BlocksAssumption`, `ShapesAssumption`,
`ColourAssumption`, `CoordsAssumption`, `NoneAssumption` of `Images`): bounds are numbers, model values are none of the values they stand beside, shapes have pixels.
TLC evaluates them in every run. The premises beside them are the two above, `Nested(rank)` and the one callback thread of `OneThreadDelivers` and `WsOneThreadDelivers`.

Where a definition is recursive (`Start` of `Receivers`, `SumFunction`, `FlattenSeq`), the induction is done on a set of naturals:
those for which the claim holds contain 0 and with each number the next, so that none is left out, since their order is well founded (`NatSetInduction`).
This serves a claim about one fixed definition at a time; an induction principle for any predicate cannot be instantiated by the provers.

Only model-checked: all liveness properties, the liveness of `IsFifo` with them (no installed prover
handles `ENABLED` or fairness here). Both properties of `WsServer`'s run are leads-to; the theorems above are what of them is safety.

## 5. Findings

1. **Overlapping tcp writes corrupt each other** (`Tcp/Tcp/Session.cpp:61`, run `TcpSessionTwo`).
   `mWriteBuffer` is assigned for the second message while the first is still sent from it; `Tcp/Test/ClientTest.cpp:21` writes in a loop without a pause.
2. **The second request of a program is never sent** (`Requests/Requests/Requests.cpp:124`, run `RequestsSecond`).
   `FirstTime` is a static local shared by all requests.

Met while modelling, and no statement of the repository to hold against them (hazards without a property, or premises above):
the write-error job of `tcp::Session` captures the raw `this` and may run on a destroyed session (`Tcp/Tcp/Session.cpp:79`);
the posted job of `serial::Serial` reads `mData` late (`Serial.cpp:95`); one `AddBytes` cuts off at most one packet (`PacketAssembler.cpp:33`);
a header is read packed and measured padded (`PacketDecoder.hpp:34`, `PacketAssembler.hpp:32`); a handler of `ws::Client` that was queued goes on with the next connection (`Websockets/Client.cpp:299`);
a bitmap never holds the first row (`Bitmap.cpp:28`); thick lines are only thick to the right and down (`Image.cpp:299`).

## 6. Plan

Done, in this order: `Signal`, `TcpServer`, the write sides and `FifoWriter`, `TcpClient`, `Requests`, `WsClient`, `Http`, `WsServer`, the proofs of `Signal`, `TcpServer` and `TcpClient`,
`Writers` (which took the place of two modules for `tcp` and `ws`), `Receivers`, `Images` and `ImageValues`, the handshake of `SslSession` in `TcpClient`,
and the proofs of `Writers`, `Images`, `WsClient`, `Requests`, `Receivers`, `Http`, of what was left of `TcpClient` and `TcpServer`, of `ImageValues`, and of `WsServer`.

Next, proving: what section 4 leaves to TLC can only follow with other provers.

Next, extending the model: `WsServer` and `Writers` composed, so that the broadcast ends in the strand instead of a counter.

## 7. Not modelled

* Wording and layout: log lines, request text, status texts, URL splitting, file and terminal output.
* `Utility` helpers other than `Signal`, `TypeTraits`, the mains and tests: stateless, compile-time or wiring.
* Floating-point arithmetic (`Utility/Math`), and with it lines that are not parallel to an axis (`Image.cpp:233-253` rounds slopes of doubles); colour spaces and the gray conversion.
* `robot::PacketEncoder`, what `PacketDecoder` does with an assembled packet, and the byte order of headers: layout only. Nothing in `src/` sends an encoded packet to an assembler.
* `udp::Session` as an object of its own: it holds the buffer and the endpoint of one receive, and is the `chunk` of a job.
* Data races as such: `mpSession` of `tcp::Client` is read and assigned by different threads without a lock, `ws::Client` uses one stream from several threads. The models take each access as atomic.
* The scan of `/dev` for serial ports, and everything asio, beast and openssl do inside.
* What OpenSSL does with a stream that had a connection before: after an eof `Client` connects and shakes hands on the same `mStream` (`SslSession.cpp:32`); `TcpClient` lets that go as on a new one.
* `Tcp/Tcp/SslClient.cpp`, a copy of `Client.hpp` that is not built into the library: `TcpClient` with `secure` is its control.
