----------------------------- MODULE TcpClient -----------------------------
(***************************************************************************)
(* dl::tcp::Client (Tcp/Tcp/Client.hpp): resolve, connect, be told that the *)
(* peer has gone, connect again.  IO threads run OnResolve, OnConnect,      *)
(* OnTimeout and the session's OnRead; callback threads run the slot that   *)
(* Connect gives to the session's disconnect signal.  mpSession is replaced *)
(* by OnTimeout without regard to what still runs on the old session, so    *)
(* the module keeps every owner of a session, as TcpServer does.  The bytes *)
(* read and written are the matter of TcpServer and Writers.  With          *)
(* SslSession (`secure`) starting a session is a handshake, which blocks    *)
(* the IO thread; on the stream of an earlier connection of the session it  *)
(* is taken to go as on a new one.                                          *)
(***************************************************************************)
EXTENDS Naturals, FiniteSets, Functions

CONSTANTS
  IoThreads,          \* the number of threads that run mIoService
  CallbackThreads,    \* the threads that run mCallbackService
  Idle,               \* what an idle callback thread runs
  MaxSessions,        \* bound: sessions created
  MaxEvents,          \* bound: attempts refused, lookups that fail and writes of the user, in all
  MaxSilences,        \* bound: times the timer expires before an answer, or while a slot runs
  MaxClosings         \* bound: connections the peer ends, with or without eof or reset

ASSUME ClientAssumption ==
  /\ {IoThreads, MaxSessions} \subseteq Nat \ {0}
  /\ {MaxEvents, MaxSilences, MaxClosings} \subseteq Nat

Sessions == 1..MaxSessions

ASSUME IdleAssumption == Idle \notin Sessions

(* An async_connect: its handler is the one OnResolve gives, or the one of   *)
(* OnConnect, which increments the iterator it is called with.               *)
Op == [s : Sessions, again : BOOLEAN]

(* Where OnResolve and OnConnect stand between two of their calls.           *)
Points == {"resolved", "started", "signalled"}

VARIABLES
  secure,          \* the sessions are SslSessions
  mpSession,       \* the session's number; sessions are numbered as they are created
  resolves,        \* async_resolves pending
  connects,        \* async_connects pending, by session and handler
  handler,         \* how many IO threads are at each point of OnResolve and OnConnect
  handshakes,      \* ... and in the handshake of each session
  overtaken,       \* a handler ran while another thread was in one of those
  timer,           \* an async_wait of mTimer is pending
  timeouts,        \* OnTimeout handlers queued without an error
  link,            \* the socket of each session
  reading,         \* async_read_somes pending on each session
  writing,         \* async_writes pending on each session, which own it
  jobs,            \* disconnect jobs queued on mCallbackService, which own their session
  running,         \* the session whose disconnect slot a callback thread runs
  started,         \* ... and whether it has called StartConnect
  process,         \* "running", "stopped" by ~Client or "crashed"
  starts,          \* calls of Session::Start
  connections,     \* emissions of mSignalConnection
  disconnects,     \* emissions of mSignalOnDisconnect
  readErrors,      \* reads that ended in any other error: no slot is told
  lookupErrors,    \* resolutions that failed
  refusals, silences, closings, writes      \* for the bounds

attempt == <<mpSession, resolves, connects>>
inside == <<handler, handshakes>>
handlers == <<inside, overtaken>>
clock == <<timer, timeouts>>
session == <<link, reading, writing>>
callbacks == <<jobs, running, started>>
told == <<starts, connections, disconnects, readErrors, lookupErrors>>
bounds == <<refusals, silences, closings, writes>>
vars == <<secure, attempt, handlers, clock, session, callbacks, process, told, bounds>>

Each(set, v) == [x \in set |-> v]

(* The constructor: Connect(), before the IO threads start.                  *)
Init ==
  /\ secure \in BOOLEAN
  /\ mpSession = 1 /\ resolves = 1 /\ connects = Each(Op, 0)
  /\ handler = Each(Points, 0) /\ handshakes = Each(Sessions, 0) /\ overtaken = FALSE
  /\ timer = FALSE /\ timeouts = 0
  /\ link = Each(Sessions, "closed")
  /\ reading = Each(Sessions, 0) /\ writing = Each(Sessions, 0)
  /\ jobs = Each(Sessions, 0) /\ running = Each(CallbackThreads, Idle)
  /\ started = Each(CallbackThreads, FALSE)
  /\ process = "running"
  /\ starts = 0 /\ connections = 0 /\ disconnects = 0 /\ readErrors = 0 /\ lookupErrors = 0
  /\ refusals = 0 /\ silences = 0 /\ closings = 0 /\ writes = 0

(* Some shared_ptr to the session exists.                                    *)
Alive(s) == \/ s = mpSession \/ writing[s] > 0 \/ jobs[s] > 0
            \/ \E c \in CallbackThreads : running[c] = s

InHandler == (\E p \in Points : handler[p] > 0) \/ \E s \in Sessions : handshakes[s] > 0

(* A thread of mIoService takes a handler.                                   *)
IoReady == /\ process = "running"
           /\ IF InHandler
                THEN /\ SumFunction(handler) + SumFunction(handshakes) < IoThreads
                     /\ overtaken' = TRUE
                ELSE UNCHANGED overtaken

(* An IO thread that is at a point of its handler, or comes to one.          *)
At(point) ==
  /\ process = "running" /\ handler[point] > 0
  /\ UNCHANGED <<overtaken, handshakes>>
Leave(point) == handler' = [handler EXCEPT ![point] = @ - 1]
Advance(point, after) == handler' = [handler EXCEPT ![point] = @ - 1, ![after] = @ + 1]
Reach(point) == handler' = [handler EXCEPT ![point] = @ + 1]

Events == refusals + lookupErrors + writes

Connecting == \E op \in Op : connects[op] > 0

-----------------------------------------------------------------------------
(* asio::async_connect closes the socket before it tries an endpoint.        *)
AsyncConnect(again, others) ==
  /\ connects' = [others EXCEPT ![[s |-> mpSession, again |-> again]] = @ + 1]
  /\ link' = [link EXCEPT ![mpSession] = "closed"]

(* OnResolve without an error, in two steps: expires_from_now cancels a wait *)
(* still pending, and the attempt is under way before the new wait is.       *)
OnResolve ==
  /\ resolves > 0 /\ IoReady /\ resolves' = resolves - 1
  /\ timer' = FALSE
  /\ AsyncConnect(FALSE, connects)
  /\ Reach("resolved")
  /\ UNCHANGED <<handshakes, mpSession, timeouts, reading, writing, callbacks, process, told,
                 bounds>>

(* Mutant of ArmTimer: the timer is not armed.                               *)
ArmNothing ==
  /\ At("resolved") /\ Leave("resolved")
  /\ UNCHANGED <<attempt, clock, session, callbacks, process, told, bounds>>

ArmTimer ==
  /\ At("resolved") /\ Leave("resolved")
  /\ timer' = TRUE
  /\ UNCHANGED <<attempt, timeouts, session, callbacks, process, told, bounds>>

(* OnResolve with one: mSignalConnectionError, and nothing else.             *)
OnResolveError ==
  /\ resolves > 0 /\ IoReady /\ resolves' = resolves - 1
  /\ Events < MaxEvents /\ lookupErrors' = lookupErrors + 1
  /\ UNCHANGED <<mpSession, connects, inside, clock, session, callbacks, process,
                 starts, connections, disconnects, readErrors, bounds>>

Completed(op) == connects[op] > 0 /\ connects' = [connects EXCEPT ![op] = @ - 1]

(* OnConnect without an error, in three steps.  The socket connected is that *)
(* of the attempt; the session started is the one mpSession points to.       *)
Connects(op) ==
  /\ Completed(op) /\ IoReady
  /\ link' = IF Alive(op.s) THEN [link EXCEPT ![op.s] = "up"] ELSE link

OnConnected(op) ==
  /\ ~secure /\ Connects(op)
  /\ reading' = [reading EXCEPT ![mpSession] = @ + 1] /\ starts' = starts + 1
  /\ Reach("started")
  /\ UNCHANGED <<mpSession, resolves, handshakes, clock, writing, callbacks, process,
                 connections, disconnects, readErrors, lookupErrors, bounds>>

(* SslSession::Start blocks the thread in the handshake, with the timer      *)
(* armed, and nothing but mpSession owns the session meanwhile.              *)
StartHandshake(op) ==
  /\ secure /\ Connects(op)
  /\ handshakes' = [handshakes EXCEPT ![mpSession] = @ + 1]
  /\ UNCHANGED <<mpSession, resolves, handler, clock, reading, writing, callbacks, process,
                 told, bounds>>

InHandshake(s) ==
  /\ process = "running" /\ handshakes[s] > 0
  /\ handshakes' = [handshakes EXCEPT ![s] = @ - 1]

OnHandshake(s) ==
  /\ InHandshake(s) /\ (link[s] = "up" \/ ~Alive(s))
  /\ reading' = [reading EXCEPT ![s] = @ + 1] /\ starts' = starts + 1
  /\ Reach("started")
  /\ UNCHANGED <<overtaken, attempt, clock, link, writing, callbacks, process,
                 connections, disconnects, readErrors, lookupErrors, bounds>>

(* It fails with an exception, which leaves the IO thread.                   *)
HandshakeThrows(s) ==
  /\ InHandshake(s) /\ (link[s] # "up" \/ ~Alive(s))
  /\ process' = "crashed"
  /\ UNCHANGED <<overtaken, handler, attempt, clock, session, callbacks, told, bounds>>

SignalConnection ==
  /\ At("started") /\ Advance("started", "signalled")
  /\ connections' = connections + 1
  /\ UNCHANGED <<attempt, clock, session, callbacks, process,
                 starts, disconnects, readErrors, lookupErrors, bounds>>

(* Mutant of CancelTimer: the wait is left pending.                          *)
LeaveTimer ==
  /\ At("signalled") /\ Leave("signalled")
  /\ UNCHANGED <<attempt, clock, session, callbacks, process, told, bounds>>

(* mTimer.cancel(): whatever wait is pending now, of whichever attempt.      *)
CancelTimer ==
  /\ At("signalled") /\ Leave("signalled")
  /\ timer' = FALSE
  /\ UNCHANGED <<attempt, timeouts, session, callbacks, process, told, bounds>>

(* OnConnect with the end iterator: every endpoint has failed.  The handler  *)
(* of OnConnect itself increments that iterator first and so dereferences    *)
(* its null list; the other one only emits mSignalConnectionError.           *)
OnConnectFailed(op) ==
  /\ Completed(op) /\ IoReady
  /\ IF Alive(op.s) THEN Events < MaxEvents /\ refusals' = refusals + 1
                    ELSE UNCHANGED refusals
  /\ process' = IF op.again THEN "crashed" ELSE process
  /\ UNCHANGED <<mpSession, resolves, inside, clock, session, callbacks, told,
                 silences, closings, writes>>

(* OnConnect with an error and an endpoint: asio reports it when it finds    *)
(* the socket closed, which it can only of a session that was destroyed (it  *)
(* reads freed memory).  The current session is connected instead.           *)
OnConnectAborted(op) ==
  /\ connects[op] > 0 /\ IoReady /\ ~Alive(op.s)
  /\ AsyncConnect(TRUE, [connects EXCEPT ![op] = @ - 1])
  /\ UNCHANGED <<mpSession, resolves, inside, clock, reading, writing, callbacks, process,
                 told, bounds>>

(* Of two async_connects on one socket, one goes on to its next endpoint and *)
(* closes what the other has connected.                                      *)
NextEndpoint(op) ==
  /\ process = "running" /\ connects[op] > 0 /\ link[op.s] = "up"
  /\ link' = [link EXCEPT ![op.s] = "closed"]
  /\ UNCHANGED <<attempt, handlers, clock, reading, writing, callbacks, process, told, bounds>>

(* Two seconds have passed: with no answer yet, while a slot still runs, or  *)
(* after all attempts were refused.                                          *)
Expire ==
  /\ process = "running" /\ timer
  /\ IF resolves > 0 \/ Connecting \/ InHandler
       THEN silences < MaxSilences /\ silences' = silences + 1
       ELSE UNCHANGED silences
  /\ timer' = FALSE /\ timeouts' = timeouts + 1
  /\ UNCHANGED <<secure, attempt, handlers, session, callbacks, process, told, refusals, closings, writes>>

(* Mutant of OnTimeout: no new attempt is made.                              *)
OnTimeoutIgnored ==
  /\ timeouts > 0 /\ IoReady /\ timeouts' = timeouts - 1
  /\ UNCHANGED <<attempt, timer, inside, session, callbacks, process, told, bounds>>

(* OnTimeout without an error: Connect() replaces the session.               *)
OnTimeout ==
  /\ timeouts > 0 /\ IoReady /\ timeouts' = timeouts - 1
  /\ mpSession < MaxSessions /\ mpSession' = mpSession + 1
  /\ resolves' = resolves + 1
  /\ UNCHANGED <<connects, timer, inside, session, callbacks, process, told, bounds>>

-----------------------------------------------------------------------------
(* The peer ends the connection, by eof or reset or in another way: for an   *)
(* SslSession also without a close_notify, which is no eof to it.            *)
PeerEnds(s, how) ==
  /\ link[s] = "up" /\ closings < MaxClosings /\ closings' = closings + 1
  /\ link' = [link EXCEPT ![s] = how]
  /\ UNCHANGED <<attempt, handlers, clock, reading, writing, callbacks, process, told,
                 refusals, silences, writes>>

(* Mutant of OnReadEnd: nothing is posted.                                   *)
OnReadEndQuietly(s) ==
  /\ reading[s] > 0 /\ IoReady /\ Alive(s) /\ link[s] = "ended"
  /\ reading' = [reading EXCEPT ![s] = @ - 1]
  /\ UNCHANGED <<attempt, inside, clock, link, writing, callbacks, process, told, bounds>>

(* Mutant of OnReadEnd: the read is armed again after the end.               *)
OnReadEndAgain(s) ==
  /\ reading[s] > 0 /\ IoReady /\ Alive(s) /\ link[s] = "ended"
  /\ jobs' = [jobs EXCEPT ![s] = @ + 1] /\ jobs[s] < 2
  /\ UNCHANGED <<attempt, inside, clock, session, running, started, process, told, bounds>>

(* Session::OnRead with eof or reset.                                        *)
OnReadEnd(s) ==
  /\ reading[s] > 0 /\ IoReady /\ Alive(s) /\ link[s] = "ended"
  /\ reading' = [reading EXCEPT ![s] = @ - 1]
  /\ jobs' = [jobs EXCEPT ![s] = @ + 1]
  /\ UNCHANGED <<attempt, inside, clock, link, writing, running, started, process, told,
                 bounds>>

(* ... with another error: its mSignalReadError, which has no slot.          *)
OnReadError(s) ==
  /\ reading[s] > 0 /\ IoReady /\ Alive(s) /\ link[s] \in {"failed", "closed"}
  /\ reading' = [reading EXCEPT ![s] = @ - 1] /\ readErrors' = readErrors + 1
  /\ UNCHANGED <<attempt, inside, clock, link, writing, callbacks, process,
                 starts, connections, disconnects, lookupErrors, bounds>>

(* ... aborted, on a session that was destroyed: shared_from_this throws in  *)
(* an IO thread, or finds what is left of the session.                       *)
OnReadDestroyed(s) ==
  /\ reading[s] > 0 /\ IoReady /\ ~Alive(s)
  /\ reading' = [reading EXCEPT ![s] = @ - 1]
  /\ \/ process' = "crashed" /\ UNCHANGED readErrors
     \/ readErrors' = readErrors + 1 /\ UNCHANGED process
  /\ UNCHANGED <<attempt, inside, clock, link, writing, callbacks,
                 starts, connections, disconnects, lookupErrors, bounds>>

-----------------------------------------------------------------------------
(* The slot of the session's mSignalOnDisconnect, on a callback thread.      *)
TakeJob(c, s) ==
  /\ process # "crashed" /\ running[c] = Idle /\ jobs[s] > 0
  /\ running' = [running EXCEPT ![c] = s] /\ jobs' = [jobs EXCEPT ![s] = @ - 1]
  /\ started' = [started EXCEPT ![c] = FALSE]
  /\ UNCHANGED <<attempt, handlers, clock, session, process, told, bounds>>

SlotStartConnect(c) ==
  /\ process # "crashed" /\ running[c] # Idle /\ ~started[c]
  /\ started' = [started EXCEPT ![c] = TRUE] /\ resolves' = resolves + 1
  /\ UNCHANGED <<mpSession, connects, handlers, clock, session, jobs, running, process, told,
                 bounds>>

SlotSignalDisconnect(c) ==
  /\ process # "crashed" /\ running[c] # Idle /\ started[c]
  /\ running' = [running EXCEPT ![c] = Idle] /\ disconnects' = disconnects + 1
  /\ UNCHANGED <<attempt, handlers, clock, session, jobs, started, process,
                 starts, connections, readErrors, lookupErrors, bounds>>

(* The user calls Client::Write, or destroys the client.                     *)
Write ==
  /\ process = "running" /\ Events < MaxEvents /\ writes' = writes + 1
  /\ writing' = [writing EXCEPT ![mpSession] = @ + 1]
  /\ UNCHANGED <<attempt, handlers, clock, link, reading, callbacks, process, told,
                 refusals, silences, closings>>

OnWritten(s) ==
  /\ writing[s] > 0 /\ IoReady
  /\ writing' = [writing EXCEPT ![s] = @ - 1]
  /\ UNCHANGED <<attempt, inside, clock, link, reading, callbacks, process, told, bounds>>

Stop ==               \* ~Client: mIoService.stop(), then the threads are joined
  /\ process = "running" /\ process' = "stopped"
  /\ UNCHANGED <<attempt, handlers, clock, session, callbacks, told, bounds>>

-----------------------------------------------------------------------------
IoStep ==
  /\ UNCHANGED secure
  /\ \/ OnResolveError \/ OnTimeout \/ OnResolve \/ ArmTimer \/ SignalConnection \/ CancelTimer
     \/ \E s \in Sessions : OnReadEnd(s) \/ OnReadError(s) \/ OnReadDestroyed(s) \/ OnWritten(s)

Answer ==
  /\ UNCHANGED secure
  /\ \/ \E op \in Op : OnConnected(op) \/ StartHandshake(op) \/ OnConnectFailed(op)
     \/ \E s \in Sessions : OnHandshake(s) \/ HandshakeThrows(s)

CallbackStep(c) ==
  /\ UNCHANGED secure
  /\ (\E s \in Sessions : TakeJob(c, s)) \/ SlotStartConnect(c) \/ SlotSignalDisconnect(c)

Environment ==
  /\ UNCHANGED secure
  /\ \/ \E op \in Op : OnConnectAborted(op) \/ NextEndpoint(op)
     \/ \E s \in Sessions, how \in {"ended", "failed"} : PeerEnds(s, how)
     \/ Write \/ Stop

Next == IoStep \/ Answer \/ Expire \/ (\E c \in CallbackThreads : CallbackStep(c)) \/ Environment

Spec == Init /\ [][Next]_vars

(* The threads run what is queued, the timer expires, and the network        *)
(* answers a connection attempt in the end.                                  *)
FairSpec == /\ Spec /\ WF_vars(IoStep) /\ WF_vars(Answer) /\ WF_vars(Expire)
            /\ \A c \in CallbackThreads : WF_vars(CallbackStep(c))

-----------------------------------------------------------------------------
InSlot(done) == {c \in CallbackThreads : running[c] # Idle /\ started[c] = done}

(* Something the client waits for.                                           *)
Trying == \/ resolves > 0 \/ timer \/ timeouts > 0
          \/ reading[mpSession] > 0
          \/ \E s \in Sessions : jobs[s] > 0
          \/ InSlot(FALSE) # {}
          \/ InHandler

(* As long as no handler overtakes an OnResolve or OnConnect of another      *)
(* thread (one IO thread suffices), a client never comes to rest, whatever   *)
(* the network does: after refusals, timeouts and lost connections a         *)
(* connection is being read or the next attempt is on its way with a timer   *)
(* behind it, unless a lookup failed, which OnResolve does not retry, or a   *)
(* connection ended in a way that OnRead does not report as a disconnection  *)
(* (Client.hpp:206-275).                                                     *)
NeverAtRest ==
  process = "running" /\ ~overtaken /\ lookupErrors = 0 /\ readErrors = 0 => Trying

(* Unless the network lets the timer expire, or OnConnect cancels it before  *)
(* OnResolve has armed it on another thread, only the session that mpSession *)
(* points to is read or in its handshake, and once, so that no bytes come    *)
(* from a session given up and none is destroyed under its read or its       *)
(* Start, which have a raw this (Session.cpp:36, SslSession.cpp:28-40,       *)
(* Client.hpp:159, 238).                                                     *)
OnlyCurrentSessionIsRead ==
  silences = 0 /\ ~overtaken =>
    \A s \in Sessions : handshakes[s] + reading[s] <= (IF s = mpSession THEN 1 ELSE 0)

(* Each start of a session ends in exactly one emission of the client's      *)
(* mSignalOnDisconnect or one read error: none is lost between the session,  *)
(* the callback queue and the slot, and none is told twice.                  *)
EveryStartEndsOnce ==
  process # "crashed" =>
    starts = SumFunction(reading) + SumFunction(jobs)
               + Cardinality(InSlot(FALSE) \cup InSlot(TRUE)) + disconnects + readErrors

(* Unless a handler is overtaken, the user is never told of the end of a     *)
(* connection before it was told of the connection, though the two are       *)
(* emitted by different threads (Client.hpp:182, 240-242).                   *)
ConnectionIsToldFirst == ~overtaken => disconnects <= connections

Connected == link[mpSession] = "up" /\ reading[mpSession] > 0
Excused == \/ process # "running" \/ overtaken \/ lookupErrors > 0 \/ readErrors > 0
           \/ link[mpSession] = "failed"

(* Refused, left without an answer and disconnected as often as the bounds   *)
(* allow, the client is connected again in the end, unless a handler was     *)
(* overtaken, a lookup failed, a read ended in another error, or the process *)
(* has crashed: the end of an iterator was passed, or a handshake threw.     *)
ConnectsAgain == ~Connected ~> Connected \/ Excused
=============================================================================
