----------------------------- MODULE TcpServer -----------------------------
(***************************************************************************)
(* dl::tcp::Server (Tcp/Tcp/Server.cpp) with the read side and the lifetime *)
(* of its tcp::Session objects (Tcp/Tcp/Session.cpp).  IO threads run the   *)
(* accept, read and write handlers of one io_service; callback threads run  *)
(* the jobs those handlers post to a second one, which call the user's      *)
(* slots.  A session lives as long as some shared_ptr to it: the module     *)
(* keeps every owner, so that a handler or job that captured a raw `this`   *)
(* can be seen to run on a destroyed session.                               *)
(* What a session does with the bytes of a Write is in module Writers.      *)
(***************************************************************************)
EXTENDS Naturals, Sequences, FiniteSets

CONSTANTS
  MaxSessions,       \* bound: sessions created, the one waiting to be accepted included
  MaxChunks,         \* bound: chunks of bytes each peer sends
  MaxWrites,         \* bound: writes to all sessions together
  CallbackThreads,   \* the threads that run mCallbackService
  Idle               \* what an idle callback thread runs

ASSUME ServerAssumption ==
  /\ MaxSessions \in Nat \ {0} /\ MaxChunks \in Nat /\ MaxWrites \in Nat

Sessions == 1..MaxSessions

(* A job posted to mCallbackService.  What it captured decides whether it    *)
(* keeps its session alive: "rx" a weak_ptr it locks first, "disconnect" and *)
(* "readError" a shared_ptr, "writeError" only `this`.                       *)
Job == [kind : {"rx", "disconnect", "readError", "writeError"},
        s : Sessions, chunk : 0..MaxChunks]
Owning == {"disconnect", "readError"}

ASSUME IdleAssumption == Idle \notin Job

VARIABLES
  mpNewSession,      \* the session of the pending accept
  accept,            \* where OnAccept is, "waiting" between two accepts
  mActiveSessions,   \* the ids in the vector, guarded by mMutex
  slotOwns,          \* sessions owned by pCurrentSession of their own disconnect slot
  reading,           \* sessions with an async_read_some pending
  writing,           \* writes under way per session: each holds a shared_ptr
  queue,             \* jobs posted to mCallbackService
  running,           \* the job each callback thread has taken
  stopped,           \* ~Server has stopped mIoService
  peer,              \* each connection: "open", "closed" (eof or reset) or "failed"
  sent,              \* chunks each peer has sent
  taken,             \* chunks read from each connection
  written,           \* writes started so far
  announced,         \* sessions passed to the slots of mSignalNewSession
  rx,                \* the chunks each session's mSignalOnRx was emitted with
  disconnected       \* sessions whose mSignalOnDisconnect was emitted

server == <<mpNewSession, accept, mActiveSessions>>
session == <<slotOwns, reading, writing, written>>
callbacks == <<queue, running>>
network == <<peer, sent, taken>>
user == <<announced, rx, disconnected>>
vars == <<server, session, callbacks, stopped, network, user>>

Init ==
  /\ mpNewSession = 1 /\ accept = "waiting" /\ mActiveSessions = {}
  /\ slotOwns = {} /\ reading = {} /\ writing = [s \in Sessions |-> 0] /\ written = 0
  /\ queue = <<>> /\ running = [c \in CallbackThreads |-> Idle]
  /\ stopped = FALSE
  /\ peer = [s \in Sessions |-> "open"]
  /\ sent = [s \in Sessions |-> 0] /\ taken = [s \in Sessions |-> 0]
  /\ announced = {} /\ rx = [s \in Sessions |-> <<>>] /\ disconnected = {}

Posted(s) == \E i \in 1..Len(queue) : queue[i].s = s /\ queue[i].kind \in Owning
Run(s) == \E c \in CallbackThreads : /\ running[c] # Idle
                                     /\ running[c].s = s /\ running[c].kind \in Owning

(* Some shared_ptr to the session exists.                                    *)
Alive(s) == \/ s = mpNewSession \/ s \in mActiveSessions \/ s \in slotOwns
            \/ writing[s] > 0 \/ Posted(s) \/ Run(s)

Post(job) == queue' = Append(queue, job)

-----------------------------------------------------------------------------
(* OnAccept, statement by statement: sessions already accepted go on being   *)
(* read, written and disconnected in between.                                *)
AcceptStep(from, to) == accept = from /\ accept' = to

Accepted ==           \* mActiveSessions.push_back(mpNewSession)
  /\ ~stopped /\ mpNewSession < MaxSessions
  /\ AcceptStep("waiting", "pushed")
  /\ mActiveSessions' = mActiveSessions \cup {mpNewSession}
  /\ UNCHANGED <<mpNewSession, session, callbacks, stopped, network, user>>

(* Mutant of ConnectDisconnectSlot: the session is started before it is      *)
(* announced.                                                                *)
ConnectAndStart ==
  /\ AcceptStep("pushed", "connected")
  /\ slotOwns' = slotOwns \cup {mpNewSession}
  /\ reading' = reading \cup {mpNewSession}
  /\ UNCHANGED <<mpNewSession, mActiveSessions, writing, written,
                 callbacks, stopped, network, user>>

ConnectDisconnectSlot ==
  /\ AcceptStep("pushed", "connected")
  /\ slotOwns' = slotOwns \cup {mpNewSession}
  /\ UNCHANGED <<mpNewSession, mActiveSessions, reading, writing, written,
                 callbacks, stopped, network, user>>

EmitNewSession ==
  /\ AcceptStep("connected", "announced")
  /\ announced' = announced \cup {mpNewSession}
  /\ UNCHANGED <<mpNewSession, mActiveSessions, session, callbacks, stopped, network,
                 rx, disconnected>>

StartSession ==       \* Session::Start: the first async_read_some
  /\ AcceptStep("announced", "started")
  /\ reading' = reading \cup {mpNewSession}
  /\ UNCHANGED <<mpNewSession, mActiveSessions, slotOwns, writing, written,
                 callbacks, stopped, network, user>>

AcceptFailed ==       \* mErrorSignal(Error): the session was never connected
  /\ ~stopped /\ mpNewSession < MaxSessions
  /\ AcceptStep("waiting", "started")
  /\ UNCHANGED <<mpNewSession, mActiveSessions, session, callbacks, stopped, network, user>>

StartAccept ==
  /\ AcceptStep("started", "waiting")
  /\ mpNewSession' = mpNewSession + 1
  /\ UNCHANGED <<mActiveSessions, session, callbacks, stopped, network, user>>

OnAccept == \/ Accepted \/ ConnectDisconnectSlot \/ EmitNewSession \/ StartSession
            \/ AcceptFailed \/ StartAccept

-----------------------------------------------------------------------------
(* Session::OnRead, on the IO thread that completes the read.                *)
OnReadBytes(s) ==
  /\ ~stopped /\ s \in reading /\ peer[s] # "failed" /\ taken[s] < sent[s]
  /\ taken' = [taken EXCEPT ![s] = @ + 1]
  /\ Post([kind |-> "rx", s |-> s, chunk |-> taken[s] + 1])
  /\ UNCHANGED <<server, session, running, stopped, peer, sent, user>>

(* Mutants of OnReadEnd: the read is re-armed after the end as well, and the *)
(* disconnect is emitted here instead of posted behind the chunks.           *)
ReadAgain(s) ==
  /\ ~stopped /\ s \in reading /\ peer[s] = "closed" /\ taken[s] = sent[s]
  /\ Post([kind |-> "disconnect", s |-> s, chunk |-> 0])
  /\ UNCHANGED <<server, session, running, stopped, network, user>>

DisconnectAtOnce(s) ==
  /\ ~stopped /\ s \in reading /\ peer[s] = "closed" /\ taken[s] = sent[s]
  /\ mActiveSessions' = mActiveSessions \ {s} /\ slotOwns' = slotOwns \ {s}
  /\ disconnected' = disconnected \cup {s} /\ reading' = reading \ {s}
  /\ UNCHANGED <<mpNewSession, accept, writing, written, callbacks, stopped, network,
                 announced, rx>>

OnReadEnd(s) ==
  /\ ~stopped /\ s \in reading
  /\ \/ peer[s] = "closed" /\ taken[s] = sent[s]
        /\ Post([kind |-> "disconnect", s |-> s, chunk |-> 0])
     \/ peer[s] = "failed"
        /\ Post([kind |-> "readError", s |-> s, chunk |-> 0])
  /\ reading' = reading \ {s}
  /\ UNCHANGED <<server, slotOwns, writing, written, running, stopped, network, user>>

-----------------------------------------------------------------------------
(* Session::Write for every session of `to`: each queued write owns its      *)
(* session until its completion handler is gone.                             *)
WriteTo(to) ==
  /\ written + Cardinality(to) <= MaxWrites
  /\ written' = written + Cardinality(to)
  /\ writing' = [s \in Sessions |-> IF s \in to THEN writing[s] + 1 ELSE writing[s]]

(* Server::Write from a user thread, under mMutex.                           *)
Write ==
  /\ ~stopped /\ mActiveSessions # {}
  /\ WriteTo(mActiveSessions)
  /\ UNCHANGED <<server, slotOwns, reading, callbacks, stopped, network, user>>

(* The completion handler of a write; an ended connection may refuse it.     *)
OnWritten(s) ==
  /\ ~stopped /\ writing[s] > 0
  /\ writing' = [writing EXCEPT ![s] = @ - 1]
  /\ \/ UNCHANGED queue
     \/ peer[s] # "open" /\ Post([kind |-> "writeError", s |-> s, chunk |-> 0])
  /\ UNCHANGED <<server, slotOwns, reading, written, running, stopped, network, user>>

-----------------------------------------------------------------------------
(* A callback thread takes the oldest job, and then runs it.                 *)
TakeJob(c) ==
  /\ running[c] = Idle /\ queue # <<>>
  /\ running' = [running EXCEPT ![c] = Head(queue)]
  /\ queue' = Tail(queue)
  /\ UNCHANGED <<server, session, stopped, network, user>>

Finish(c) == running' = [running EXCEPT ![c] = Idle] /\ UNCHANGED queue

(* mSignalOnRx, if the session still exists; its slot may write a reply      *)
(* (Tcp/Test/ServerTest.cpp:31).                                             *)
RunRx(c) ==
  /\ running[c] # Idle /\ running[c].kind = "rx"
  /\ LET s == running[c].s IN
       IF Alive(s)
         THEN /\ rx' = [rx EXCEPT ![s] = Append(@, running[c].chunk)]
              /\ WriteTo({s}) \/ UNCHANGED <<writing, written>>
         ELSE UNCHANGED <<rx, writing, written>>
  /\ Finish(c)
  /\ UNCHANGED <<server, slotOwns, reading, stopped, network, announced, disconnected>>

(* Mutants of RunDisconnect: the predicate of remove_if negated, and         *)
(* pCurrentSession never reset.                                              *)
EraseOthers(c) ==
  /\ running[c] # Idle /\ running[c].kind = "disconnect"
  /\ mActiveSessions' = mActiveSessions \cap {running[c].s}
  /\ slotOwns' = slotOwns \ {running[c].s}
  /\ disconnected' = disconnected \cup {running[c].s}
  /\ Finish(c)
  /\ UNCHANGED <<mpNewSession, accept, reading, writing, written, stopped, network,
                 announced, rx>>

KeepCurrentSession(c) ==
  /\ running[c] # Idle /\ running[c].kind = "disconnect"
  /\ mActiveSessions' = mActiveSessions \ {running[c].s}
  /\ disconnected' = disconnected \cup {running[c].s}
  /\ Finish(c)
  /\ UNCHANGED <<mpNewSession, accept, session, stopped, network, announced, rx>>

(* mSignalOnDisconnect: the server's own slot was connected first.           *)
RunDisconnect(c) ==
  /\ running[c] # Idle /\ running[c].kind = "disconnect"
  /\ LET s == running[c].s IN
       /\ mActiveSessions' = mActiveSessions \ {s}
       /\ slotOwns' = slotOwns \ {s}
       /\ disconnected' = disconnected \cup {s}
  /\ Finish(c)
  /\ UNCHANGED <<mpNewSession, accept, reading, writing, written, stopped, network,
                 announced, rx>>

(* mSignalReadError and mSignalWriteError: no slot of the library is         *)
(* connected to them.                                                        *)
RunError(c) ==
  /\ running[c] # Idle /\ running[c].kind \in {"readError", "writeError"}
  /\ Finish(c)
  /\ UNCHANGED <<server, session, stopped, network, user>>

(* ~Server: mIoService stops, mCallbackService runs what is queued.          *)
Stop ==
  /\ ~stopped /\ stopped' = TRUE
  /\ UNCHANGED <<server, session, callbacks, network, user>>

-----------------------------------------------------------------------------
(* The peers and the network.  A reset discards what was not read yet.       *)
PeerSend(s) ==
  /\ s \in mActiveSessions /\ peer[s] = "open" /\ sent[s] < MaxChunks
  /\ sent' = [sent EXCEPT ![s] = @ + 1]
  /\ UNCHANGED <<server, session, callbacks, stopped, peer, taken, user>>

PeerEnd(s) ==
  /\ s \in mActiveSessions /\ peer[s] = "open"
  /\ \E how \in {"closed", "failed"} : peer' = [peer EXCEPT ![s] = how]
  /\ \E left \in {sent[s], taken[s]} : sent' = [sent EXCEPT ![s] = left]
  /\ UNCHANGED <<server, session, callbacks, stopped, taken, user>>

IoStep == OnAccept \/ \E s \in Sessions : OnReadBytes(s) \/ OnReadEnd(s) \/ OnWritten(s)
CallbackStep(c) == TakeJob(c) \/ RunRx(c) \/ RunDisconnect(c) \/ RunError(c)
Environment == Write \/ Stop \/ \E s \in Sessions : PeerSend(s) \/ PeerEnd(s)

Next == IoStep \/ (\E c \in CallbackThreads : CallbackStep(c)) \/ Environment

Spec == Init /\ [][Next]_vars

(* The threads run: every handler that is ready is eventually executed.      *)
(* Nothing is assumed of the users and the peers, or that a peer connects.   *)
FairSpec ==
  /\ Spec
  /\ WF_vars(ConnectDisconnectSlot \/ EmitNewSession \/ StartSession \/ StartAccept)
  /\ \A s \in Sessions : /\ WF_vars(OnReadBytes(s) \/ OnReadEnd(s))
                         /\ WF_vars(OnWritten(s))
  /\ \A c \in CallbackThreads : WF_vars(CallbackStep(c))

-----------------------------------------------------------------------------
TypeOK ==
  /\ mpNewSession \in Sessions /\ (accept # "waiting" => mpNewSession < MaxSessions)
  /\ accept \in {"waiting", "pushed", "connected", "announced", "started"}
  /\ mActiveSessions \subseteq Sessions /\ slotOwns \subseteq Sessions
  /\ reading \subseteq Sessions
  /\ writing \in [Sessions -> Nat] /\ written \in Nat
  /\ queue \in Seq(Job)
  /\ running \in [CallbackThreads -> Job \cup {Idle}]
  /\ stopped \in BOOLEAN
  /\ peer \in [Sessions -> {"open", "closed", "failed"}]
  /\ sent \in [Sessions -> 0..MaxChunks] /\ taken \in [Sessions -> 0..MaxChunks]
  /\ announced \subseteq Sessions /\ disconnected \subseteq Sessions
  /\ rx \in [Sessions -> Seq(0..MaxChunks)]

(* A pending read's handler captured only `this` (Session.cpp:36, 106): the  *)
(* server must still own the session, or the handler runs on freed memory.   *)
PendingReadIsOwned == \A s \in reading : s \in mActiveSessions /\ s \in slotOwns

(* The slots of mSignalNewSession have seen a session, and so could connect  *)
(* to its signals, before anything it read or its end is posted to them      *)
(* (Server.cpp:94-114): no early bytes are lost.                             *)
AnnouncedFirst ==
  \A s \in Sessions : s \in reading \cup disconnected \/ taken[s] > 0 => s \in announced

(* With one callback thread a session's slots see exactly the chunks read,   *)
(* in the order read, and the disconnect after the last of them              *)
(* (Session.cpp:95, 114: the jobs share one queue).                          *)
DeliveredInOrder ==
  \A s \in Sessions :
    /\ \A i \in 1..Len(rx[s]) : rx[s][i] = i
    /\ s \in disconnected => Len(rx[s]) = taken[s]

(* A session leaves mActiveSessions only when its connection is over, so a   *)
(* broadcast (Server.cpp:131) misses no open session.                        *)
OnlyEndedSessionsLeave ==
  \A s \in announced : peer[s] = "open" => s \in mActiveSessions

(* A session whose peer closed is destroyed in the end: the slot that owns   *)
(* its own session (Server.cpp:95) gives it up, and so does everyone else.   *)
ClosedSessionsAreDestroyed ==
  \A s \in Sessions : s \in announced /\ peer[s] = "closed" ~> stopped \/ ~Alive(s)

-----------------------------------------------------------------------------
(* What makes the invariants above inductive.                                *)
HasJob(job) == \/ \E i \in 1..Len(queue) : queue[i] = job
               \/ \E c \in CallbackThreads : running[c] = job

(* Session::Start has been called on the session, or never will be.          *)
Started(s) == s < mpNewSession \/ (s = mpNewSession /\ accept = "started")

(* The session under way in OnAccept is owned as far as OnAccept has come.   *)
AcceptOwns ==
  /\ accept \in {"pushed", "connected", "announced"} => mpNewSession \in mActiveSessions
  /\ accept \in {"connected", "announced"} => mpNewSession \in slotOwns
  /\ accept = "announced" => mpNewSession \in announced

ReadsAreStarted == \A s \in reading : Started(s) /\ s \in announced

(* A session's end is posted once its last read is done.                     *)
DisconnectIsLast ==
  \A job \in Job : HasJob(job) /\ job.kind = "disconnect"
    => /\ Started(job.s) /\ job.s \in announced
       /\ job.s \notin reading /\ peer[job.s] = "closed"

ServerIInv ==
  /\ TypeOK /\ PendingReadIsOwned /\ AnnouncedFirst /\ OnlyEndedSessionsLeave
  /\ AcceptOwns /\ ReadsAreStarted /\ DisconnectIsLast
=============================================================================
