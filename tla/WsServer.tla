------------------------------ MODULE WsServer ------------------------------
(***************************************************************************)
(* dl::ws::Server (Websockets/Websockets/Server.cpp) with the handshake, the *)
(* read side and the lifetime of its ws::Session objects (Session.cpp).  A   *)
(* session joins mActiveSessions, and so gets what the server broadcasts,    *)
(* before its handshake; unlike those of tcp::Session all its handlers and   *)
(* jobs lock a weak_ptr first.  The write side of a session is counted here, *)
(* message by message and in the strand it is in module Writers.             *)
(***************************************************************************)
EXTENDS Naturals, Sequences, FiniteSets

CONSTANTS
  MaxSessions,       \* bound: sessions created, the one waiting to be accepted included
  MaxChunks,         \* bound: messages each peer sends
  MaxWrites,         \* bound: broadcasts
  CallbackThreads,   \* the threads that run mCallbackService
  Idle               \* what an idle callback thread runs

ASSUME WsServerAssumption ==
  /\ MaxSessions \in Nat \ {0} /\ MaxChunks \in Nat /\ MaxWrites \in Nat

Sessions == 1..MaxSessions
Job == [kind : {"rx", "disconnect", "readError", "writeError"}, s : Sessions, chunk : 0..MaxChunks]

ASSUME IdleAssumption == Idle \notin Job

VARIABLES
  mpNewSession,      \* the session of the pending accept
  accept,            \* where Server::OnAccept is, "waiting" between two accepts
  mActiveSessions,   \* the ids in the vector, guarded by mMutex
  slotOwns,          \* sessions owned by pCurrentSession of their own disconnect slot
  pending,           \* each session's operation: "none", the handshake's or a "read"
  open,              \* sessions whose handshake is done
  posted,            \* writes of each session on their way to its strand
  mWriteQueue,       \* how many messages each session has queued
  mIsSending,        \* the flag of each session
  transmit,          \* its async_write: "none", "on", or "early" on a stream not open
  queue, running,    \* jobs posted to mCallbackService, and taken by each thread
  stopped,           \* ~Server has stopped mIoService
  peer,              \* each connection: "open", "closed" or "failed"
  sent, taken,       \* messages each peer has sent, and the session has read
  broadcasts,        \* calls of Server::Write
  written, wire,     \* messages written to each session, and transmitted
  early,             \* sessions that were to transmit before their handshake was done
  announced,         \* sessions passed to the slots of mSignalNewSession
  rx,                \* the messages each session's mSignalOnRx was emitted with
  disconnected       \* sessions whose mSignalOnDisconnect was emitted

server == <<mpNewSession, accept, mActiveSessions, slotOwns>>
reads == <<pending, open, taken>>
writes == <<posted, mWriteQueue, mIsSending, transmit, written, wire, early>>
callbacks == <<queue, running>>
network == <<peer, sent>>
user == <<announced, rx, disconnected>>
vars == <<server, reads, writes, callbacks, stopped, network, broadcasts, user>>

Each(value) == [s \in Sessions |-> value]

Init ==
  /\ mpNewSession = 1 /\ accept = "waiting" /\ mActiveSessions = {} /\ slotOwns = {}
  /\ pending = Each("none") /\ open = {} /\ taken = Each(0)
  /\ posted = Each(0) /\ mWriteQueue = Each(0) /\ mIsSending = Each(FALSE)
  /\ transmit = Each("none") /\ written = Each(0) /\ wire = Each(0) /\ early = {}
  /\ queue = <<>> /\ running = [c \in CallbackThreads |-> Idle] /\ stopped = FALSE
  /\ peer = Each("open") /\ sent = Each(0) /\ broadcasts = 0
  /\ announced = {} /\ rx = Each(<<>>) /\ disconnected = {}

(* Some shared_ptr to the session exists, beside those its handlers lock.    *)
Alive(s) == \/ s = mpNewSession \/ s \in mActiveSessions \/ s \in slotOwns
            \/ posted[s] > 0 \/ transmit[s] # "none"

Post(kind, s, chunk) == queue' = Append(queue, [kind |-> kind, s |-> s, chunk |-> chunk])

-----------------------------------------------------------------------------
(* Server::OnAccept, statement by statement.                                 *)
AcceptStep(from, to) == accept = from /\ accept' = to

Accepted ==           \* mActiveSessions.push_back(mpNewSession)
  /\ ~stopped /\ mpNewSession < MaxSessions
  /\ AcceptStep("waiting", "pushed")
  /\ mActiveSessions' = mActiveSessions \cup {mpNewSession}
  /\ UNCHANGED <<mpNewSession, slotOwns, reads, writes, callbacks, stopped, network, broadcasts, user>>

ConnectDisconnectSlot ==
  /\ AcceptStep("pushed", "connected")
  /\ slotOwns' = slotOwns \cup {mpNewSession}
  /\ UNCHANGED <<mpNewSession, mActiveSessions, reads, writes, callbacks, stopped, network, broadcasts, user>>

EmitNewSession ==
  /\ AcceptStep("connected", "announced")
  /\ announced' = announced \cup {mpNewSession}
  /\ UNCHANGED <<mpNewSession, mActiveSessions, slotOwns, reads, writes, callbacks, stopped,
                 network, broadcasts, rx, disconnected>>

StartSession ==       \* Session::Start: the handshake
  /\ AcceptStep("announced", "started")
  /\ pending' = [pending EXCEPT ![mpNewSession] = "handshake"]
  /\ UNCHANGED <<mpNewSession, mActiveSessions, slotOwns, open, taken, writes, callbacks, stopped,
                 network, broadcasts, user>>

AcceptFailed ==       \* mErrorSignal(Error): the session was never connected
  /\ ~stopped /\ mpNewSession < MaxSessions
  /\ AcceptStep("waiting", "started")
  /\ UNCHANGED <<mpNewSession, mActiveSessions, slotOwns, reads, writes, callbacks, stopped,
                 network, broadcasts, user>>

StartAccept ==
  /\ AcceptStep("started", "waiting")
  /\ mpNewSession' = mpNewSession + 1
  /\ UNCHANGED <<mActiveSessions, slotOwns, reads, writes, callbacks, stopped, network, broadcasts, user>>

-----------------------------------------------------------------------------
(* mSignalOnDisconnect: the server's own slot was connected first.           *)
SignalOnDisconnect(s) ==
  /\ mActiveSessions' = mActiveSessions \ {s} /\ slotOwns' = slotOwns \ {s}
  /\ disconnected' = disconnected \cup {s}

(* Session::OnAccept: the handshake is done, and the first read starts.  The *)
(* peer may have gone since it sent its request.                             *)
OnAccept(s) ==
  /\ ~stopped /\ pending[s] = "handshake"
  /\ pending' = [pending EXCEPT ![s] = "read"] /\ open' = open \cup {s}
  /\ UNCHANGED <<server, taken, writes, callbacks, stopped, network, broadcasts, user>>

(* Mutant of OnAcceptError: the error is reported and nothing else.          *)
OnAcceptErrorOnly(s) ==
  /\ ~stopped /\ pending[s] = "handshake" /\ peer[s] # "open"
  /\ pending' = [pending EXCEPT ![s] = "none"]
  /\ UNCHANGED <<server, open, taken, writes, callbacks, stopped, network, broadcasts, user>>

(* Session::OnAccept with an error emits its signals on the IO thread.       *)
OnAcceptError(s) ==
  /\ ~stopped /\ pending[s] = "handshake" /\ peer[s] # "open"
  /\ pending' = [pending EXCEPT ![s] = "none"] /\ SignalOnDisconnect(s)
  /\ UNCHANGED <<mpNewSession, accept, open, taken, writes, callbacks, stopped, network,
                 broadcasts, announced, rx>>

(* Session::OnRead: the bytes are copied into a job, and the read re-armed.  *)
OnReadBytes(s) ==
  /\ ~stopped /\ pending[s] = "read" /\ peer[s] # "failed" /\ taken[s] < sent[s]
  /\ taken' = [taken EXCEPT ![s] = @ + 1] /\ Post("rx", s, taken[s] + 1)
  /\ UNCHANGED <<server, pending, open, writes, running, stopped, network, broadcasts, user>>

OnReadEnd(s) ==
  /\ ~stopped /\ pending[s] = "read"
  /\ \/ peer[s] = "closed" /\ taken[s] = sent[s] /\ Post("disconnect", s, 0)
     \/ peer[s] = "failed" /\ Post("readError", s, 0)
  /\ pending' = [pending EXCEPT ![s] = "none"]
  /\ UNCHANGED <<server, open, taken, writes, running, stopped, network, broadcasts, user>>

-----------------------------------------------------------------------------
(* Server::Write, under mMutex: a write is posted to every session's strand. *)
Write ==
  /\ ~stopped /\ broadcasts < MaxWrites /\ broadcasts' = broadcasts + 1
  /\ posted' = [s \in Sessions |-> IF s \in mActiveSessions THEN posted[s] + 1 ELSE posted[s]]
  /\ written' = [s \in Sessions |-> IF s \in mActiveSessions THEN written[s] + 1 ELSE written[s]]
  /\ UNCHANGED <<server, reads, mWriteQueue, mIsSending, transmit, wire, early, callbacks, stopped,
                 network, user>>

(* Session::AsyncWrite, on the queue and the flag its caller has set.  A     *)
(* stream that is not open refuses the message.                              *)
AsyncWrite(s, queued, sending) ==
  IF queued > 0 /\ ~sending
    THEN /\ mWriteQueue' = [mWriteQueue EXCEPT ![s] = queued - 1]
         /\ mIsSending' = [mIsSending EXCEPT ![s] = TRUE]
         /\ transmit' = [transmit EXCEPT ![s] = IF s \in open THEN "on" ELSE "early"]
         /\ early' = IF s \in open THEN early ELSE early \cup {s}
    ELSE /\ mWriteQueue' = [mWriteQueue EXCEPT ![s] = queued]
         /\ mIsSending' = [mIsSending EXCEPT ![s] = sending]
         /\ transmit' = [transmit EXCEPT ![s] = IF sending THEN @ ELSE "none"]
         /\ UNCHANGED early

(* The posted write, in the strand.                                          *)
QueueMessage(s) ==
  /\ ~stopped /\ posted[s] > 0 /\ posted' = [posted EXCEPT ![s] = @ - 1]
  /\ AsyncWrite(s, mWriteQueue[s] + 1, mIsSending[s])
  /\ UNCHANGED <<server, reads, written, wire, callbacks, stopped, network, broadcasts, user>>

(* Mutant of OnWritten: the next message waits for the next Write.           *)
OnWrittenStop(s) ==
  /\ ~stopped /\ transmit[s] = "on" /\ wire' = [wire EXCEPT ![s] = @ + 1]
  /\ mIsSending' = [mIsSending EXCEPT ![s] = FALSE] /\ transmit' = [transmit EXCEPT ![s] = "none"]
  /\ UNCHANGED <<server, reads, posted, mWriteQueue, written, early, callbacks, stopped, network,
                 broadcasts, user>>

(* The completion handler; a peer that has gone may or may not be noticed.   *)
OnWritten(s) ==
  /\ ~stopped /\ transmit[s] = "on" /\ wire' = [wire EXCEPT ![s] = @ + 1]
  /\ AsyncWrite(s, mWriteQueue[s], FALSE)
  /\ UNCHANGED <<server, reads, posted, written, callbacks, stopped, network, broadcasts, user>>

(* ... with an error leaves mIsSending set.                                  *)
OnWriteError(s) ==
  /\ ~stopped /\ (transmit[s] = "early" \/ (transmit[s] = "on" /\ peer[s] # "open"))
  /\ transmit' = [transmit EXCEPT ![s] = "none"] /\ Post("writeError", s, 0)
  /\ UNCHANGED <<server, reads, posted, mWriteQueue, mIsSending, written, wire, early, running,
                 stopped, network, broadcasts, user>>

-----------------------------------------------------------------------------
(* A callback thread takes the oldest job, and then runs it.                 *)
TakeJob(c) ==
  /\ running[c] = Idle /\ queue # <<>>
  /\ running' = [running EXCEPT ![c] = Head(queue)] /\ queue' = Tail(queue)
  /\ UNCHANGED <<server, reads, writes, stopped, network, broadcasts, user>>

Runs(c, kinds) ==
  /\ running[c] # Idle /\ running[c].kind \in kinds
  /\ running' = [running EXCEPT ![c] = Idle] /\ UNCHANGED queue

RunRx(c) ==
  /\ Runs(c, {"rx"})
  /\ rx' = IF Alive(running[c].s) THEN [rx EXCEPT ![running[c].s] = Append(@, running[c].chunk)] ELSE rx
  /\ UNCHANGED <<server, reads, writes, stopped, network, broadcasts, announced, disconnected>>

RunDisconnect(c) ==
  /\ Runs(c, {"disconnect"})
  /\ IF Alive(running[c].s) THEN SignalOnDisconnect(running[c].s)
                            ELSE UNCHANGED <<mActiveSessions, slotOwns, disconnected>>
  /\ UNCHANGED <<mpNewSession, accept, reads, writes, stopped, network, broadcasts, announced, rx>>

RunError(c) ==        \* mSignalError: no slot of the library is connected to it
  /\ Runs(c, {"readError", "writeError"})
  /\ UNCHANGED <<server, reads, writes, stopped, network, broadcasts, user>>

(* ~Server: mIoService stops, mCallbackService runs what is queued.          *)
Stop ==
  /\ ~stopped /\ stopped' = TRUE
  /\ UNCHANGED <<server, reads, writes, callbacks, network, broadcasts, user>>

(* The peers and the network.  A reset discards what was not read yet.       *)
PeerSend(s) ==
  /\ ~stopped /\ s \in open /\ peer[s] = "open" /\ sent[s] < MaxChunks
  /\ sent' = [sent EXCEPT ![s] = @ + 1]
  /\ UNCHANGED <<server, reads, writes, callbacks, stopped, peer, broadcasts, user>>

PeerEnd(s) ==
  /\ ~stopped /\ s \in mActiveSessions /\ peer[s] = "open"
  /\ \E how \in {"closed", "failed"} : peer' = [peer EXCEPT ![s] = how]
  /\ \E left \in {sent[s], taken[s]} : sent' = [sent EXCEPT ![s] = left]
  /\ UNCHANGED <<server, reads, writes, callbacks, stopped, broadcasts, user>>

AcceptNext == ConnectDisconnectSlot \/ EmitNewSession \/ StartSession \/ StartAccept
ReadStep(s) == OnAccept(s) \/ OnAcceptError(s) \/ OnReadBytes(s) \/ OnReadEnd(s)
Transmitted(s) == OnWritten(s) \/ OnWriteError(s)
CallbackStep(c) == TakeJob(c) \/ RunRx(c) \/ RunDisconnect(c) \/ RunError(c)

Next ==
  \/ Accepted \/ AcceptFailed \/ AcceptNext
  \/ \E s \in Sessions : ReadStep(s) \/ QueueMessage(s) \/ Transmitted(s)
  \/ \E c \in CallbackThreads : CallbackStep(c)
  \/ Write \/ Stop \/ \E s \in Sessions : PeerSend(s) \/ PeerEnd(s)

Spec == Init /\ [][Next]_vars

(* The threads run, a handshake comes to an end and the peers take what is   *)
(* sent.  Nothing is assumed of the users, or that a peer connects.          *)
FairSpec ==
  /\ Spec /\ WF_vars(AcceptNext)
  /\ \A s \in Sessions : /\ WF_vars(ReadStep(s)) /\ WF_vars(QueueMessage(s))
                         /\ WF_vars(Transmitted(s))
  /\ \A c \in CallbackThreads : WF_vars(CallbackStep(c))

-----------------------------------------------------------------------------
(* What is broadcast is transmitted to every session of the server whose     *)
(* connection stays (Server.cpp:130-138), unless one of its messages came    *)
(* before the handshake was done: that one fails, and the session, whose     *)
(* mIsSending stays set (Session.cpp:168), sends nothing any more.           *)
BroadcastsArrive ==
  \A s \in Sessions : \A n \in 1..MaxWrites :
    written[s] >= n ~> wire[s] >= n \/ peer[s] # "open" \/ s \in early \/ stopped

(* When a peer closes, in the handshake or later, with writes under way or   *)
(* not, the user's slots get every message that was read, then the end is    *)
(* told, and then the session is destroyed although its own slot owns it     *)
(* (Server.cpp:97-113, Session.cpp:51-69, 94-119).  One callback thread      *)
(* keeps the jobs in order.                                                  *)
ClosedSessionsAreDone ==
  \A s \in Sessions :
    s \in announced /\ peer[s] = "closed"
      ~> stopped \/ (s \in disconnected /\ Len(rx[s]) = taken[s] /\ ~Alive(s))
=============================================================================
