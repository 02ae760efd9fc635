------------------------------ MODULE WsClient ------------------------------
(***************************************************************************)
(* dl::ws::Client (Websockets/Websockets/Client.cpp): resolve, connect,     *)
(* shake hands, read, write, and connect again when the peer closes.  One   *)
(* websocket serves every connection, so that a new attempt closes what the *)
(* attempt before has opened, and the write queue with its mIsSending       *)
(* outlives the connections.  An operation on it that has completed is      *)
(* queued until an IO thread runs its handler; closing the socket ends the  *)
(* operations that are pending, and no more.  The handlers of a write run   *)
(* in mStrand, one at a time.  What the bytes in mBuffer are is left out,   *)
(* and ~Client, which only ends the behaviour.                              *)
(***************************************************************************)
EXTENDS Naturals, Sequences, FiniteSets

CONSTANTS
  IoThreads,        \* the threads that run mIoService
  CallbackThreads,  \* the threads that run mCallbackService
  MaxWritten,       \* bound: messages the user writes
  MaxReceived,      \* bound: messages the peer sends
  MaxQueued,        \* bound: completed operations queued for their handlers at once
  MaxOvertaken,     \* bound: handlers that run while another thread is in one
  MaxTroubles       \* bound: attempts refused, lookups or handshakes that fail, connections the
                    \* peer ends, times the timer expires before an answer, in all

ASSUME WsClientAssumption == {MaxWritten, MaxReceived, MaxQueued, MaxOvertaken, MaxTroubles} \subseteq Nat

VARIABLES
  secure,        \* mWebsocket is the stream over ssl
  resolves,      \* async_resolves pending
  connects,      \* async_connects pending
  handler,       \* where each IO thread is in OnResolve, OnConnect or OnHandshake
  overtaken,     \* how often a handler ran while another thread was in one of those
  timer,         \* an async_wait of mTimer is pending
  timeouts,      \* OnTimeout handlers queued without an error
  link,          \* the connection of mWebsocket
  sslShakes,     \* ssl handshakes pending on it
  shakes,        \* websocket handshakes pending on it
  reading,       \* async_reads pending on it
  connectsDone,  \* the handlers queued without an error: OnConnect,
  sslDone,       \* OnSslHandshake,
  shakesDone,    \* OnHandshake
  readsDone,     \* and OnRead
  stale,         \* history: the socket was closed while one of those was queued
  received,      \* messages the peer has sent, for the bound
  jobs,          \* what OnRead has posted to mCallbackService: "rx" with a message, "end"
  slot,          \* where each callback thread is in an "end" job
  written,       \* how many messages the user has passed to Write; they are numbered
  mWriteQueue, mIsSending,
  transmit,      \* the async_write: none, pending on the connection, closed under, or done
  sent,          \* the messages sent
  connected,     \* whether the user was last told of a connection or of its end
  gaveUp,        \* a lookup, handshake or read has ended and nothing more is tried
  writeErrors,   \* writes that failed
  late,          \* the timer has expired although an answer could still come
  troubles       \* for the bound

attempt == <<resolves, connects, handler, overtaken>>
clock == <<timer, timeouts>>
stream == <<link, sslShakes, shakes, reading>>
done == <<connectsDone, sslDone, shakesDone, readsDone, stale, received>>
callbacks == <<jobs, slot>>
writer == <<written, mWriteQueue, mIsSending, transmit, sent, writeErrors>>
told == <<connected, gaveUp>>
bounds == <<late, troubles>>
vars == <<secure, attempt, clock, stream, done, callbacks, writer, told, bounds>>

NoWrite == [on |-> "none"]

(* The two constructors, and the user's Connect().                           *)
Init ==
  /\ secure \in BOOLEAN
  /\ resolves = 1 /\ connects = 0
  /\ handler = [t \in IoThreads |-> "idle"] /\ overtaken = 0
  /\ timer = FALSE /\ timeouts = 0
  /\ link = "closed" /\ sslShakes = 0 /\ shakes = 0 /\ reading = 0
  /\ connectsDone = 0 /\ sslDone = 0 /\ shakesDone = 0 /\ readsDone = 0
  /\ stale = FALSE /\ received = 0
  /\ jobs = <<>> /\ slot = [c \in CallbackThreads |-> "idle"]
  /\ written = 0 /\ mWriteQueue = <<>> /\ mIsSending = FALSE /\ transmit = NoWrite /\ sent = <<>>
  /\ connected = FALSE /\ gaveUp = FALSE /\ writeErrors = 0
  /\ late = FALSE /\ troubles = 0

InHandler == {t \in IoThreads : handler[t] # "idle"}

(* A thread of mIoService takes a handler.                                   *)
IoReady == /\ InHandler # IoThreads
           /\ IF InHandler = {} THEN UNCHANGED overtaken
                                ELSE overtaken < MaxOvertaken /\ overtaken' = overtaken + 1

(* Thread t begins a handler that has a step after this one, or goes on.     *)
Begin(t, step) == IoReady /\ handler[t] = "idle" /\ handler' = [handler EXCEPT ![t] = step]
Proceed(t, from, to) == /\ handler[t] = from
                        /\ handler' = [handler EXCEPT ![t] = to] /\ UNCHANGED overtaken

(* The operations that have completed and whose handlers have not run.       *)
Queued == connectsDone + sslDone + shakesDone + readsDone

(* async_connect closes the socket, under everything pending on it: the      *)
(* handler of a handshake or read only emits, or posts, mSignalError then.   *)
(* A handler that is queued already runs as if nothing had happened.         *)
CloseSocket ==
  /\ link' = "closed" /\ sslShakes' = 0 /\ shakes' = 0 /\ reading' = 0
  /\ transmit' = IF transmit = NoWrite \/ transmit.on = "done" THEN transmit
                                                              ELSE [transmit EXCEPT !.on = "closed"]
  /\ stale' = (stale \/ Queued > 0)
  /\ UNCHANGED <<connectsDone, sslDone, shakesDone, readsDone, received>>

Trouble == troubles < MaxTroubles /\ troubles' = troubles + 1

-----------------------------------------------------------------------------
(* OnResolve without an error, in two steps: the attempt is under way before *)
(* its timer is.                                                             *)
OnResolve(t) ==
  /\ Begin(t, "resolved") /\ resolves > 0 /\ resolves' = resolves - 1
  /\ timer' = FALSE
  /\ connects' = connects + 1 /\ CloseSocket
  /\ UNCHANGED <<secure, timeouts, callbacks, written, mWriteQueue, mIsSending, sent, writeErrors,
                 told, bounds>>

ArmTimer(t) ==
  /\ Proceed(t, "resolved", "idle") /\ timer' = TRUE
  /\ UNCHANGED <<secure, resolves, connects, timeouts, stream, done, callbacks, writer, told,
                 bounds>>

(* OnResolve with one: mSignalError, and nothing else.                       *)
OnResolveError ==
  /\ IoReady /\ resolves > 0 /\ resolves' = resolves - 1
  /\ gaveUp' = TRUE /\ Trouble /\ UNCHANGED late
  /\ UNCHANGED <<secure, connects, handler, clock, stream, done, callbacks, writer, connected>>

(* The peer accepts: OnConnect is queued.                                    *)
ConnectDone ==
  /\ Queued < MaxQueued /\ connects > 0 /\ connects' = connects - 1 /\ connectsDone' = connectsDone + 1
  /\ link = "closed" /\ link' = "tcp"
  /\ UNCHANGED <<secure, resolves, handler, overtaken, clock, sslShakes, shakes, reading, sslDone,
                 shakesDone, readsDone, stale, received, callbacks, writer, told, bounds>>

(* OnConnect without an error, in two steps: the handshake, then the timer.  *)
OnConnect(t) ==
  /\ Begin(t, "connected") /\ connectsDone > 0 /\ connectsDone' = connectsDone - 1
  /\ IF secure THEN sslShakes' = sslShakes + 1 /\ UNCHANGED shakes
               ELSE shakes' = shakes + 1 /\ UNCHANGED sslShakes
  /\ UNCHANGED <<secure, resolves, connects, clock, link, reading, sslDone, shakesDone, readsDone,
                 stale, received, callbacks, writer, told, bounds>>

CancelTimer(t) ==
  /\ Proceed(t, "connected", "idle") /\ timer' = FALSE
  /\ UNCHANGED <<secure, resolves, connects, timeouts, stream, done, callbacks, writer, told,
                 bounds>>

(* OnConnect with an error: mSignalError; the timer is left to run.          *)
OnConnectError ==
  /\ IoReady /\ connects > 0 /\ connects' = connects - 1
  /\ \/ Trouble /\ UNCHANGED late
     \/ (connects > 1 \/ link # "closed") /\ UNCHANGED bounds      \* the other attempt closed it
  /\ UNCHANGED <<secure, resolves, handler, clock, stream, done, callbacks, writer, told>>

(* Of two async_connects on the socket, one goes on to its next endpoint and *)
(* closes the connection of the other, which had cancelled the timer.        *)
NextEndpoint ==
  /\ connects > 0 /\ link # "closed" /\ CloseSocket
  /\ gaveUp' = (gaveUp \/ sslShakes + shakes + reading > 0)
  /\ UNCHANGED <<secure, attempt, clock, callbacks, written, mWriteQueue, mIsSending, sent,
                 writeErrors, connected, bounds>>

(* Two seconds have passed.                                                  *)
Expire ==
  /\ timer
  /\ IF resolves + connects + connectsDone > 0 \/ InHandler # {}
       THEN Trouble /\ late' = TRUE
       ELSE UNCHANGED <<troubles, late>>
  /\ timer' = FALSE /\ timeouts' = timeouts + 1
  /\ UNCHANGED <<secure, attempt, stream, done, callbacks, writer, told>>

(* Mutant of OnTimeout: no new attempt is made.                              *)
OnTimeoutIgnored ==
  /\ IoReady /\ timeouts > 0 /\ timeouts' = timeouts - 1
  /\ UNCHANGED <<secure, resolves, connects, handler, timer, stream, done, callbacks, writer, told,
                 bounds>>

(* OnTimeout without an error: Connect().                                    *)
OnTimeout ==
  /\ IoReady /\ timeouts > 0 /\ timeouts' = timeouts - 1 /\ resolves' = resolves + 1
  /\ UNCHANGED <<secure, connects, handler, timer, stream, done, callbacks, writer, told, bounds>>

-----------------------------------------------------------------------------
(* The peer has answered a handshake: its handler is queued.                 *)
SslDone ==
  /\ Queued < MaxQueued /\ sslShakes > 0 /\ link \in {"tcp", "open"}
  /\ sslShakes' = sslShakes - 1 /\ sslDone' = sslDone + 1
  /\ UNCHANGED <<secure, attempt, clock, link, shakes, reading, connectsDone, shakesDone, readsDone,
                 stale, received, callbacks, writer, told, bounds>>

ShakeDone ==
  /\ Queued < MaxQueued /\ shakes > 0 /\ link \in {"tcp", "open"}
  /\ shakes' = shakes - 1 /\ shakesDone' = shakesDone + 1
  /\ UNCHANGED <<secure, attempt, clock, link, sslShakes, reading, connectsDone, sslDone, readsDone,
                 stale, received, callbacks, writer, told, bounds>>

OnSslHandshake ==
  /\ IoReady /\ sslDone > 0
  /\ sslDone' = sslDone - 1 /\ shakes' = shakes + 1
  /\ UNCHANGED <<secure, resolves, connects, handler, clock, link, sslShakes, reading, connectsDone,
                 shakesDone, readsDone, stale, received, callbacks, writer, told, bounds>>

(* The websocket is open to reads and writes when OnHandshake is called.     *)
Open == link' = IF link = "tcp" THEN "open" ELSE link

(* Mutant of OnHandshake: two reads are armed.                               *)
OnHandshakeReadTwice(t) ==
  /\ Begin(t, "reading") /\ shakesDone > 0
  /\ shakesDone' = shakesDone - 1 /\ Open /\ reading' = reading + 2
  /\ UNCHANGED <<secure, resolves, connects, clock, sslShakes, shakes, connectsDone, sslDone,
                 readsDone, stale, received, callbacks, writer, told, bounds>>

(* OnHandshake without an error, in two steps: DoRead, then the user.        *)
OnHandshake(t) ==
  /\ Begin(t, "reading") /\ shakesDone > 0
  /\ shakesDone' = shakesDone - 1 /\ Open /\ reading' = reading + 1
  /\ UNCHANGED <<secure, resolves, connects, clock, sslShakes, shakes, connectsDone, sslDone,
                 readsDone, stale, received, callbacks, writer, told, bounds>>

SignalConnection(t) ==
  /\ Proceed(t, "reading", "idle") /\ connected' = TRUE
  /\ UNCHANGED <<secure, resolves, connects, clock, stream, done, callbacks, writer, gaveUp, bounds>>

(* Either handshake fails: mSignalError; the timer was cancelled before.     *)
OnHandshakeError ==
  /\ IoReady
  /\ \/ sslShakes > 0 /\ sslShakes' = sslShakes - 1 /\ UNCHANGED shakes
     \/ shakes > 0 /\ shakes' = shakes - 1 /\ UNCHANGED sslShakes
  /\ IF link = "tcp" THEN Trouble /\ UNCHANGED late ELSE UNCHANGED bounds
  /\ gaveUp' = TRUE
  /\ UNCHANGED <<secure, resolves, connects, handler, clock, link, reading, done, callbacks, writer,
                 connected>>

-----------------------------------------------------------------------------
(* The peer has sent a message: OnRead is queued.                            *)
ReadDone ==
  /\ Queued < MaxQueued /\ reading > 0 /\ link = "open" /\ received < MaxReceived
  /\ reading' = reading - 1 /\ readsDone' = readsDone + 1 /\ received' = received + 1
  /\ UNCHANGED <<secure, attempt, clock, link, sslShakes, shakes, connectsDone, sslDone, shakesDone,
                 stale, callbacks, writer, told, bounds>>

(* OnRead without an error: the message is posted, and DoRead reads the next *)
(* one from whatever the socket is connected to by now.                      *)
OnRead ==
  /\ IoReady /\ readsDone > 0 /\ readsDone' = readsDone - 1
  /\ jobs' = Append(jobs, "rx") /\ reading' = reading + 1
  /\ UNCHANGED <<secure, resolves, connects, handler, clock, link, sslShakes, shakes, connectsDone,
                 sslDone, shakesDone, stale, received, slot, writer, told, bounds>>

(* Mutants of OnReadEnd: nothing is posted; the job does not go to the end   *)
(* of the queue.                                                             *)
OnReadEndQuietly ==
  /\ IoReady /\ reading > 0 /\ link = "ended" /\ reading' = reading - 1
  /\ UNCHANGED <<secure, resolves, connects, handler, clock, link, sslShakes, shakes, done,
                 callbacks, writer, told, bounds>>

OnReadEndAtOnce ==
  /\ IoReady /\ reading > 0 /\ link = "ended"
  /\ reading' = reading - 1 /\ jobs' = <<"end">> \o jobs
  /\ UNCHANGED <<secure, resolves, connects, handler, clock, link, sslShakes, shakes, done, slot,
                 writer, told, bounds>>

(* OnRead with closed or eof.                                                *)
OnReadEnd ==
  /\ IoReady /\ reading > 0 /\ link = "ended"
  /\ reading' = reading - 1 /\ jobs' = Append(jobs, "end")
  /\ UNCHANGED <<secure, resolves, connects, handler, clock, link, sslShakes, shakes, done, slot,
                 writer, told, bounds>>

(* OnRead with another error, a reset among them, or because what it reads   *)
(* is not a websocket: mSignalError is posted.                               *)
OnReadError ==
  /\ IoReady /\ reading > 0 /\ link \in {"failed", "closed", "tcp"}
  /\ reading' = reading - 1 /\ gaveUp' = TRUE
  /\ UNCHANGED <<secure, resolves, connects, handler, clock, link, sslShakes, shakes, done,
                 callbacks, writer, connected, bounds>>

(* The peer ends the connection, by closing it or in another way.            *)
PeerEnds(how) ==
  /\ link \in {"tcp", "open"} /\ Trouble /\ UNCHANGED late
  /\ link' = how
  /\ UNCHANGED <<secure, attempt, clock, sslShakes, shakes, reading, done, callbacks, writer, told>>

-----------------------------------------------------------------------------
(* The jobs that OnRead posted: mSignalOnRx; mSignalOnDisconnect, then       *)
(* Connect.                                                                  *)
TakeJob(c, job) == slot[c] = "idle" /\ jobs # <<>> /\ Head(jobs) = job /\ jobs' = Tail(jobs)

SignalOnRx(c) ==
  /\ TakeJob(c, "rx")
  /\ UNCHANGED <<secure, attempt, clock, stream, done, slot, writer, told, bounds>>

SignalDisconnect(c) ==
  /\ TakeJob(c, "end") /\ slot' = [slot EXCEPT ![c] = "told"] /\ connected' = FALSE
  /\ UNCHANGED <<secure, attempt, clock, stream, done, writer, gaveUp, bounds>>

(* Mutant of Reconnect: the client does not connect again.                   *)
StayAway(c) ==
  /\ slot[c] = "told" /\ slot' = [slot EXCEPT ![c] = "idle"]
  /\ UNCHANGED <<secure, attempt, clock, stream, done, jobs, writer, told, bounds>>

Reconnect(c) ==
  /\ slot[c] = "told" /\ slot' = [slot EXCEPT ![c] = "idle"] /\ resolves' = resolves + 1
  /\ UNCHANGED <<secure, connects, handler, overtaken, clock, stream, done, jobs, writer, told,
                 bounds>>

-----------------------------------------------------------------------------
(* Mutant of AsyncWrite: no test of mIsSending.                              *)
SendAnyway(queue, sending) ==
  IF queue # <<>>
    THEN /\ mWriteQueue' = Tail(queue) /\ mIsSending' = TRUE
         /\ transmit' = [on |-> "link", msg |-> Head(queue)]
    ELSE mWriteQueue' = queue /\ mIsSending' = sending /\ UNCHANGED transmit

(* AsyncWrite, on the queue and the flag its caller has set.                 *)
AsyncWrite(queue, sending) ==
  IF queue # <<>> /\ ~sending
    THEN /\ mWriteQueue' = Tail(queue) /\ mIsSending' = TRUE
         /\ transmit' = [on |-> "link", msg |-> Head(queue)]
    ELSE mWriteQueue' = queue /\ mIsSending' = sending /\ UNCHANGED transmit

(* Client::Write, by the user at any time, and the handler that it posts to  *)
(* the strand, unobserved until it runs.                                     *)
Write ==
  /\ IoReady /\ written < MaxWritten /\ written' = written + 1
  /\ AsyncWrite(Append(mWriteQueue, written'), mIsSending)
  /\ UNCHANGED <<secure, resolves, connects, handler, clock, stream, done, callbacks, sent,
                 writeErrors, told, bounds>>

(* async_write can send: its connection is open, or the client has not read  *)
(* that it is not, or has opened it with the handshake of another.           *)
CanSend == /\ transmit.on = "link"
           /\ \/ link = "open"
              \/ link \in {"ended", "failed"} /\ reading > 0
              \/ link = "tcp" /\ stale

WriteDone ==
  /\ transmit # NoWrite /\ CanSend /\ transmit' = [transmit EXCEPT !.on = "done"]
  /\ UNCHANGED <<secure, attempt, clock, stream, done, callbacks, written, mWriteQueue, mIsSending,
                 sent, writeErrors, told, bounds>>

(* The completion handler without an error: mIsSending is reset and the next *)
(* message is started.                                                       *)
OnWritten ==
  /\ IoReady /\ transmit # NoWrite /\ transmit.on = "done"
  /\ sent' = Append(sent, transmit.msg)
  /\ IF mWriteQueue = <<>> THEN transmit' = NoWrite /\ mIsSending' = FALSE /\ UNCHANGED mWriteQueue
                           ELSE AsyncWrite(mWriteQueue, FALSE)
  /\ UNCHANGED <<secure, resolves, connects, handler, clock, stream, done, callbacks, written,
                 writeErrors, told, bounds>>

(* A write fails before the handshake or after the end of the connection.    *)
CannotSend == /\ transmit # NoWrite
              /\ transmit.on = "closed" \/ (transmit.on = "link" /\ link # "open")

(* Mutant of OnWriteError: it goes on as after a success.                    *)
OnWriteErrorGoesOn ==
  /\ IoReady /\ CannotSend
  /\ writeErrors' = writeErrors + 1
  /\ transmit' = NoWrite /\ mIsSending' = FALSE /\ UNCHANGED mWriteQueue
  /\ UNCHANGED <<secure, resolves, connects, handler, clock, stream, done, callbacks, written, sent,
                 told, bounds>>

(* The handler with an error: mSignalError is posted, mIsSending stays.      *)
OnWriteError ==
  /\ IoReady /\ CannotSend
  /\ writeErrors' = writeErrors + 1 /\ transmit' = NoWrite
  /\ UNCHANGED <<secure, resolves, connects, handler, clock, stream, done, callbacks, written,
                 mWriteQueue, mIsSending, sent, told, bounds>>

-----------------------------------------------------------------------------
IoStep ==
  \/ OnResolveError \/ OnTimeout
  \/ \E t \in IoThreads : \/ OnResolve(t) \/ ArmTimer(t) \/ OnConnect(t) \/ CancelTimer(t)
                         \/ OnHandshake(t) \/ SignalConnection(t)
  \/ OnSslHandshake \/ OnRead \/ OnReadEnd \/ OnReadError
WriteStep == WriteDone \/ OnWritten \/ OnWriteError
Answer == ConnectDone \/ OnConnectError \/ SslDone \/ ShakeDone \/ OnHandshakeError
CallbackStep(c) == SignalOnRx(c) \/ SignalDisconnect(c) \/ Reconnect(c)
Environment == NextEndpoint \/ ReadDone \/ Write \/ \E how \in {"ended", "failed"} : PeerEnds(how)

Next == IoStep \/ WriteStep \/ Answer \/ Expire \/ Environment
          \/ \E c \in CallbackThreads : CallbackStep(c)

Spec == Init /\ [][Next]_vars

(* The threads run what is queued, the timer expires, and the network and    *)
(* the peer answer an attempt in the end.                                    *)
FairSpec == /\ Spec /\ WF_vars(IoStep) /\ WF_vars(WriteStep) /\ WF_vars(Answer) /\ WF_vars(Expire)
            /\ \A c \in CallbackThreads : WF_vars(CallbackStep(c))

-----------------------------------------------------------------------------
(* The handshakes, reads and handlers that some connection accounts for.     *)
Shaking == sslShakes + sslDone + shakes + shakesDone
Underway == connectsDone + Shaking + reading + readsDone

(* One websocket, one user of it: attempts and connections may overlap, but  *)
(* as long as no handler was queued when an attempt closed the socket, what  *)
(* was begun on a connection ends with it: no two handshakes or reads are    *)
(* under way, none on a closed socket, and none is read before its handshake *)
(* (Client.cpp:168-186, 229-241, 289-300).  A handler that was queued goes   *)
(* on with the connection that is opened next.                               *)
OneOperationPerConnection ==
  ~stale =>
    /\ Underway <= 1
    /\ link = "closed" => Underway = 0
    /\ link = "open" => Shaking = 0

(* The end of a connection is posted and not told yet.                       *)
EndQueued == \E i \in 1..Len(jobs) : jobs[i] = "end"

(* Something the client waits for.                                           *)
Trying == \/ resolves > 0 \/ timer \/ timeouts > 0 \/ InHandler # {} \/ Underway > 0
          \/ EndQueued \/ \E c \in CallbackThreads : slot[c] = "told"

(* As long as handlers are not overtaken the client does not come to rest    *)
(* but after an error that the code only reports: a lookup, a handshake, or  *)
(* a read that ends otherwise than with closed or eof (Client.cpp:113-321).  *)
NeverAtRest == overtaken = 0 /\ ~gaveUp => Trying

(* What the user was last told, by an IO thread of the connection or by a    *)
(* callback thread of its end, is so: a flag like that of ClientTest.cpp:22  *)
(* is set if and only if the connection is read or its end is about to be    *)
(* told, unless one ended in an error that is no disconnection or the timer  *)
(* raced an answer (Client.cpp:236-238, 289-320).                            *)
UserKnows ==
  overtaken = 0 /\ ~late /\ ~gaveUp /\ InHandler = {} =>
    (connected <=> reading + readsDone > 0 \/ EndQueued)

(* A message is handed on between the announcement of its connection, by an  *)
(* IO thread, and the news of its end, with one callback thread, unless a    *)
(* handler was overtaken or the timer raced an answer (Client.cpp:236-238,   *)
(* 289-312).                                                                 *)
MessagesComeBetween ==
  [][overtaken = 0 /\ ~late /\ Cardinality(CallbackThreads) = 1 =>
       \A c \in CallbackThreads : SignalOnRx(c) => connected]_vars

(* While messages are queued one is in transmission, unless a write has      *)
(* failed: after that none is ever sent, on this connection or another, and  *)
(* no second failure is reported (Client.cpp:329, 355, 361-368).             *)
QueueIsServed ==
  /\ mWriteQueue # <<>> => mIsSending
  /\ mIsSending <=> transmit # NoWrite \/ writeErrors > 0
  /\ writeErrors > 0 => transmit = NoWrite
  /\ writeErrors <= 1

(* Until a write fails, every message written is sent, in transmission or    *)
(* queued, once and in the order of the writes, over all the connections     *)
(* (Client.cpp:325-374).                                                     *)
NoneLostOrTwice ==
  writeErrors = 0 =>
    sent \o (IF transmit = NoWrite THEN <<>> ELSE <<transmit.msg>>) \o mWriteQueue
      = [i \in 1..written |-> i]

(* Refused, left without an answer and closed as often as the bounds allow,  *)
(* the client is connected again in the end, unless a handler was overtaken  *)
(* or it has given up.                                                       *)
Connected == link = "open" /\ reading + readsDone > 0
ConnectsAgain ==
  ~Connected ~> Connected \/ overtaken > 0 \/ gaveUp \/ link = "failed"
=============================================================================
