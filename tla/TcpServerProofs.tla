-------------------------- MODULE TcpServerProofs --------------------------
(* What is proved of TcpServer for any number of sessions, chunks and writes *)
(* and, but for the order of delivery, of callback threads.  What needs no   *)
(* order of the jobs comes first; then the line in which one callback thread *)
(* takes them.  The lemmas about that line and about the jobs are stated on  *)
(* the variables that TcpServer and WsServer have in common, and what is     *)
(* proved of WsServer, here its instance W, follows from them as well.       *)
EXTENDS TcpServer, FiniteSetTheorems, TLAPS

LEMMA JobType ==
  /\ \A job \in Job : job.s \in Sessions /\ job.chunk \in 0..MaxChunks
  /\ \A kind \in {"rx", "disconnect", "readError", "writeError"}, s \in Sessions,
        chunk \in 0..MaxChunks :
       [kind |-> kind, s |-> s, chunk |-> chunk] \in Job
BY DEF Job

LEMMA SessionsFinite == IsFiniteSet(Sessions)
BY ServerAssumption, FS_Interval DEF Sessions

(* A write to any set of sessions keeps the counters typed.                  *)
LEMMA WriteToType ==
  ASSUME TypeOK, NEW to \in SUBSET Sessions, WriteTo(to)
  PROVE  writing' \in [Sessions -> Nat] /\ written' \in Nat
<1>1. Cardinality(to) \in Nat
  BY SessionsFinite, FS_Subset, FS_CardinalityType
<1> QED
  BY <1>1 DEF WriteTo, TypeOK

LEMMA PostType ==
  ASSUME TypeOK, NEW job \in Job, Post(job)
  PROVE  queue' \in Seq(Job)
BY DEF TypeOK, Post

LEMMA TypeStep ==
  ASSUME TypeOK, [Next]_vars
  PROVE  TypeOK'
<1> USE DEF server, session, callbacks, network, user
<1>1. CASE UNCHANGED vars
  BY <1>1 DEF vars, TypeOK
<1>2. CASE OnAccept
  <2>1. CASE Accepted
    BY <2>1 DEF Accepted, AcceptStep, TypeOK
  <2>2. CASE ConnectDisconnectSlot
    BY <2>2 DEF ConnectDisconnectSlot, AcceptStep, TypeOK
  <2>3. CASE EmitNewSession
    BY <2>3 DEF EmitNewSession, AcceptStep, TypeOK
  <2>4. CASE StartSession
    BY <2>4 DEF StartSession, AcceptStep, TypeOK
  <2>5. CASE AcceptFailed
    BY <2>5 DEF AcceptFailed, AcceptStep, TypeOK
  <2>6. CASE StartAccept
    <3>1. mpNewSession + 1 \in Sessions
      BY <2>6, ServerAssumption DEF StartAccept, AcceptStep, TypeOK, Sessions
    <3> QED
      BY <2>6, <3>1 DEF StartAccept, AcceptStep, TypeOK
  <2> QED
    BY <1>2, <2>1, <2>2, <2>3, <2>4, <2>5, <2>6 DEF OnAccept
<1>3. ASSUME NEW s \in Sessions, OnReadBytes(s) PROVE TypeOK'
  <2>1. taken[s] + 1 \in 0..MaxChunks
    BY <1>3, ServerAssumption DEF OnReadBytes, TypeOK
  <2>2. queue' \in Seq(Job)
    BY <1>3, <2>1, JobType DEF OnReadBytes, Post, TypeOK
  <2> QED
    BY <1>3, <2>1, <2>2 DEF OnReadBytes, TypeOK
<1>4. ASSUME NEW s \in Sessions, OnReadEnd(s) PROVE TypeOK'
  <2>1. /\ [kind |-> "disconnect", s |-> s, chunk |-> 0] \in Job
        /\ [kind |-> "readError", s |-> s, chunk |-> 0] \in Job
    BY JobType, ServerAssumption
  <2>2. queue' \in Seq(Job)
    BY <1>4, <2>1, PostType DEF OnReadEnd
  <2> QED
    BY <1>4, <2>2 DEF OnReadEnd, TypeOK
<1>5. ASSUME NEW s \in Sessions, OnWritten(s) PROVE TypeOK'
  <2>1. [kind |-> "writeError", s |-> s, chunk |-> 0] \in Job
    BY JobType, ServerAssumption
  <2>2. queue' \in Seq(Job)
    BY <1>5, <2>1, PostType DEF OnWritten, TypeOK
  <2> QED
    BY <1>5, <2>2 DEF OnWritten, TypeOK
<1>6. ASSUME NEW c \in CallbackThreads, TakeJob(c) PROVE TypeOK'
  <2>1. Head(queue) \in Job /\ Tail(queue) \in Seq(Job)
    BY <1>6 DEF TakeJob, TypeOK
  <2> QED
    BY <1>6, <2>1 DEF TakeJob, TypeOK
<1>7. ASSUME NEW c \in CallbackThreads, RunRx(c) PROVE TypeOK'
  <2>1. running[c] \in Job
    BY <1>7 DEF RunRx, TypeOK
  <2>2. running[c].s \in Sessions /\ running[c].chunk \in 0..MaxChunks
    BY <2>1, JobType
  <2>3. writing' \in [Sessions -> Nat] /\ written' \in Nat
    BY <1>7, <2>2, WriteToType DEF RunRx, TypeOK
  <2>4. rx' \in [Sessions -> Seq(0..MaxChunks)]
    <3>1. rx[running[c].s] \in Seq(0..MaxChunks)
      BY <2>2 DEF TypeOK
    <3>2. Append(rx[running[c].s], running[c].chunk) \in Seq(0..MaxChunks)
      BY <2>2, <3>1
    <3> QED
      BY <1>7, <2>2, <3>2 DEF RunRx, TypeOK
  <2> QED
    BY <1>7, <2>3, <2>4 DEF RunRx, Finish, TypeOK
<1>8. ASSUME NEW c \in CallbackThreads, RunDisconnect(c) PROVE TypeOK'
  <2>1. running[c] \in Job
    BY <1>8 DEF RunDisconnect, TypeOK
  <2>2. running[c].s \in Sessions
    BY <2>1, JobType
  <2> QED
    BY <1>8, <2>2 DEF RunDisconnect, Finish, TypeOK
<1>9. ASSUME NEW c \in CallbackThreads, RunError(c) PROVE TypeOK'
  BY <1>9 DEF RunError, Finish, TypeOK
<1>10. CASE Write
  BY <1>10, WriteToType DEF Write, TypeOK
<1>11. CASE Stop
  BY <1>11 DEF Stop, TypeOK
<1>12. ASSUME NEW s \in Sessions, PeerSend(s) PROVE TypeOK'
  BY <1>12, ServerAssumption, SMTT(30) DEF PeerSend, TypeOK
<1>13. ASSUME NEW s \in Sessions, PeerEnd(s) PROVE TypeOK'
  BY <1>13 DEF PeerEnd, TypeOK
<1> QED
  BY <1>1, <1>2, <1>3, <1>4, <1>5, <1>6, <1>7, <1>8, <1>9, <1>10, <1>11, <1>12, <1>13
     DEF Next, IoStep, CallbackStep, Environment

LEMMA InitType == Init => TypeOK
<1> SUFFICES ASSUME Init PROVE TypeOK
  OBVIOUS
<1>1. 1 \in Sessions /\ 0 \in 0..MaxChunks
  BY ServerAssumption DEF Sessions
<1>2. <<>> \in Seq(Job) /\ <<>> \in Seq(0..MaxChunks)
  OBVIOUS
<1> QED
  BY <1>1, <1>2 DEF Init, TypeOK

(* The type invariant of the server, for any number of sessions, chunks,     *)
(* writes and callback threads (Tcp/Tcp/Server.cpp, Tcp/Tcp/Session.cpp).    *)
THEOREM TypeCorrect == Spec => []TypeOK
<1>1. Init => TypeOK
  BY InitType
<1>2. TypeOK /\ [Next]_vars => TypeOK'
  BY TypeStep
<1> QED
  BY <1>1, <1>2, PTL DEF Spec

-----------------------------------------------------------------------------
(* What the callback threads do, in terms of the jobs alone, so that it also *)
(* serves the sessions of ws::Server below.                                  *)
LineTypes ==
  /\ queue \in Seq(Job) /\ running \in [CallbackThreads -> Job \cup {Idle}]
  /\ taken \in [Sessions -> 0..MaxChunks] /\ rx \in [Sessions -> Seq(0..MaxChunks)]
  /\ disconnected \subseteq Sessions

Takes(c) ==
  /\ running[c] = Idle /\ queue # <<>>
  /\ running' = [running EXCEPT ![c] = Head(queue)] /\ queue' = Tail(queue)

LEMMA TypedLine == TypeOK => LineTypes
BY DEF TypeOK, LineTypes

(* Which jobs there are after each kind of step.                             *)
LEMMA PostJobs ==
  ASSUME LineTypes, NEW job \in Job, Post(job), UNCHANGED running, NEW other, HasJob(other)'
  PROVE  other = job \/ HasJob(other)
<1>1. /\ queue \in Seq(Job) /\ Len(queue') = Len(queue) + 1
      /\ queue'[Len(queue) + 1] = job
      /\ \A i \in 1..Len(queue) : queue'[i] = queue[i]
  BY DEF LineTypes, Post
<1>2. CASE \E i \in 1..Len(queue') : queue'[i] = other
  BY <1>1, <1>2 DEF HasJob
<1>3. CASE \E c \in CallbackThreads : running'[c] = other
  BY <1>3 DEF HasJob
<1> QED
  BY <1>2, <1>3 DEF HasJob

LEMMA TakeJobs ==
  ASSUME LineTypes, NEW c \in CallbackThreads, Takes(c), NEW other, HasJob(other)'
  PROVE  HasJob(other)
<1>1. /\ queue \in Seq(Job) /\ queue # <<>>
      /\ Len(queue') = Len(queue) - 1 /\ Head(queue) = queue[1]
      /\ \A i \in 1..Len(queue') : queue'[i] = queue[i + 1]
  BY DEF LineTypes, Takes
<1>2. CASE \E i \in 1..Len(queue') : queue'[i] = other
  BY <1>1, <1>2 DEF HasJob
<1>3. CASE \E d \in CallbackThreads : running'[d] = other
  BY <1>1, <1>3 DEF HasJob, Takes, LineTypes
<1> QED
  BY <1>2, <1>3 DEF HasJob

LEMMA FinishJobs ==
  ASSUME LineTypes, NEW c \in CallbackThreads, Finish(c), NEW other \in Job, HasJob(other)'
  PROVE  HasJob(other)
BY IdleAssumption DEF HasJob, Finish, LineTypes

LEMMA SameJobs ==
  ASSUME UNCHANGED callbacks, NEW other
  PROVE  HasJob(other)' <=> HasJob(other)
BY DEF HasJob, callbacks

-----------------------------------------------------------------------------
(* The accept handler: the session is in the vector, then owned by its slot, *)
(* then announced, and only then read.                                       *)
LEMMA AcceptKeepsIInv ==
  ASSUME ServerIInv, TypeOK', OnAccept
  PROVE  ServerIInv'
<1> USE DEF ServerIInv, TypeOK, server, session, network, user
<1>1. UNCHANGED callbacks /\ UNCHANGED network /\ UNCHANGED <<rx, disconnected>>
  BY DEF OnAccept, Accepted, ConnectDisconnectSlot, EmitNewSession, StartSession,
         AcceptFailed, StartAccept
<1>2. \A job \in Job : HasJob(job)' <=> HasJob(job)
  BY <1>1, SameJobs
<1>3. CASE Accepted
  <2>1. \A s \in Sessions : Started(s) => Started(s)'
    BY <1>3 DEF Accepted, AcceptStep, Started
  <2> QED
    BY <1>2, <1>3, <2>1, JobType
       DEF Accepted, AcceptStep, PendingReadIsOwned, AnnouncedFirst, OnlyEndedSessionsLeave,
           AcceptOwns, ReadsAreStarted, DisconnectIsLast
<1>4. CASE ConnectDisconnectSlot
  <2>1. \A s \in Sessions : Started(s) => Started(s)'
    BY <1>4 DEF ConnectDisconnectSlot, AcceptStep, Started
  <2> QED
    BY <1>2, <1>4, <2>1, JobType
       DEF ConnectDisconnectSlot, AcceptStep, PendingReadIsOwned, AnnouncedFirst,
           OnlyEndedSessionsLeave, AcceptOwns, ReadsAreStarted, DisconnectIsLast
<1>5. CASE EmitNewSession
  <2>1. \A s \in Sessions : Started(s) => Started(s)'
    BY <1>5 DEF EmitNewSession, AcceptStep, Started
  <2> QED
    BY <1>2, <1>5, <2>1, JobType
       DEF EmitNewSession, AcceptStep, PendingReadIsOwned, AnnouncedFirst,
           OnlyEndedSessionsLeave, AcceptOwns, ReadsAreStarted, DisconnectIsLast
<1>6. CASE StartSession
  <2>1. \A s \in Sessions : Started(s) => Started(s)'
    BY <1>6 DEF StartSession, AcceptStep, Started
  <2>2. Started(mpNewSession)' /\ ~ Started(mpNewSession)
    BY <1>6 DEF StartSession, AcceptStep, Started, Sessions
  <2> QED
    BY <1>2, <1>6, <2>1, <2>2, JobType
       DEF StartSession, AcceptStep, PendingReadIsOwned, AnnouncedFirst,
           OnlyEndedSessionsLeave, AcceptOwns, ReadsAreStarted, DisconnectIsLast
<1>7. CASE AcceptFailed
  <2>1. \A s \in Sessions : Started(s) => Started(s)'
    BY <1>7 DEF AcceptFailed, AcceptStep, Started
  <2> QED
    BY <1>2, <1>7, <2>1, JobType
       DEF AcceptFailed, AcceptStep, PendingReadIsOwned, AnnouncedFirst,
           OnlyEndedSessionsLeave, AcceptOwns, ReadsAreStarted, DisconnectIsLast
<1>8. CASE StartAccept
  <2>1. \A s \in Sessions : Started(s) => Started(s)'
    BY <1>8 DEF StartAccept, AcceptStep, Started, Sessions
  <2> QED
    BY <1>2, <1>8, <2>1, JobType
       DEF StartAccept, AcceptStep, PendingReadIsOwned, AnnouncedFirst,
           OnlyEndedSessionsLeave, AcceptOwns, ReadsAreStarted, DisconnectIsLast
<1> QED
  BY <1>3, <1>4, <1>5, <1>6, <1>7, <1>8 DEF OnAccept

(* The end of the connection is posted as the last read completes.           *)
LEMMA ReadKeepsIInv ==
  ASSUME ServerIInv, TypeOK', NEW s \in Sessions, OnReadBytes(s) \/ OnReadEnd(s)
  PROVE  ServerIInv'
<1> USE DEF ServerIInv, TypeOK, server, session, network, user
<1>1. \A u \in Sessions : Started(u)' <=> Started(u)
  BY DEF OnReadBytes, OnReadEnd, Started
<1>2. CASE OnReadBytes(s)
  <2> DEFINE bytes == [kind |-> "rx", s |-> s, chunk |-> taken[s] + 1]
  <2>1. bytes \in Job /\ bytes.kind = "rx"
    BY <1>2, JobType, ServerAssumption DEF OnReadBytes
  <2>2. \A job \in Job : HasJob(job)' /\ job.kind = "disconnect" => HasJob(job)
    <3> SUFFICES ASSUME NEW job \in Job, HasJob(job)', job.kind = "disconnect"
                 PROVE  HasJob(job)
      OBVIOUS
    <3>1. Post(bytes) /\ UNCHANGED running
      BY <1>2 DEF OnReadBytes
    <3> HIDE DEF bytes
    <3> QED
      BY <2>1, <3>1, PostJobs, TypedLine
  <2> QED
    BY <1>1, <1>2, <2>2, JobType, SMTT(30)
       DEF OnReadBytes, PendingReadIsOwned, AnnouncedFirst,
           OnlyEndedSessionsLeave, AcceptOwns, ReadsAreStarted, DisconnectIsLast
<1>3. CASE OnReadEnd(s)
  <2> DEFINE end == [kind |-> "disconnect", s |-> s, chunk |-> 0]
             error == [kind |-> "readError", s |-> s, chunk |-> 0]
  <2>1. end \in Job /\ error \in Job
    BY JobType, ServerAssumption
  <2>2. \A job \in Job : HasJob(job)' /\ job.kind = "disconnect" =>
          HasJob(job) \/ (job.s = s /\ peer[s] = "closed")
    <3> SUFFICES ASSUME NEW job \in Job, HasJob(job)', job.kind = "disconnect", ~ HasJob(job)
                 PROVE  job.s = s /\ peer[s] = "closed"
      OBVIOUS
    <3>1. CASE peer[s] = "closed" /\ Post(end)
      BY <1>3, <2>1, <3>1, PostJobs, TypedLine, SMTT(30) DEF OnReadEnd
    <3>2. CASE Post(error)
      BY <1>3, <2>1, <3>2, PostJobs, TypedLine, SMTT(30) DEF OnReadEnd
    <3> QED
      BY <1>3, <3>1, <3>2 DEF OnReadEnd
  <2> QED
    BY <1>1, <1>3, <2>2, JobType
       DEF OnReadEnd, PendingReadIsOwned, AnnouncedFirst,
           OnlyEndedSessionsLeave, AcceptOwns, ReadsAreStarted, DisconnectIsLast
<1> QED
  BY <1>2, <1>3

(* A disconnect job runs for a closed connection that is not read any more.  *)
LEMMA CallbackKeepsIInv ==
  ASSUME ServerIInv, TypeOK', NEW c \in CallbackThreads, CallbackStep(c)
  PROVE  ServerIInv'
<1> USE DEF ServerIInv, TypeOK, server, session, network, user
<1>1. \A job \in Job : HasJob(job)' => HasJob(job)
  BY TypedLine, TakeJobs, FinishJobs DEF CallbackStep, TakeJob, Takes, RunRx, RunDisconnect, RunError
<1>2. UNCHANGED <<mpNewSession, accept, reading, network, announced>>
  BY DEF CallbackStep, TakeJob, RunRx, RunDisconnect, RunError
<1>3. \A u \in Sessions : Started(u)' <=> Started(u)
  BY <1>2 DEF Started
<1>4. CASE TakeJob(c) \/ RunRx(c) \/ RunError(c)
  <2>1. UNCHANGED <<mActiveSessions, slotOwns, disconnected>>
    BY <1>4 DEF TakeJob, RunRx, RunError
  <2> QED
    BY <1>1, <1>2, <1>3, <2>1, JobType
       DEF PendingReadIsOwned, AnnouncedFirst, OnlyEndedSessionsLeave, AcceptOwns,
           ReadsAreStarted, DisconnectIsLast
<1>5. CASE RunDisconnect(c)
  <2> DEFINE s == running[c].s
  <2>1. running[c] \in Job /\ HasJob(running[c]) /\ running[c].kind = "disconnect"
    BY <1>5 DEF RunDisconnect, HasJob
  <2>2. s \in Sessions /\ Started(s) /\ s \in announced /\ s \notin reading /\ peer[s] = "closed"
    BY <2>1, JobType DEF DisconnectIsLast
  <2>3. /\ mActiveSessions' = mActiveSessions \ {s} /\ slotOwns' = slotOwns \ {s}
        /\ disconnected' = disconnected \cup {s}
    BY <1>5 DEF RunDisconnect
  <2>4. accept \in {"pushed", "connected", "announced"} => s # mpNewSession
    BY <2>2 DEF Started, Sessions
  <2> HIDE DEF s
  <2> QED
    BY <1>1, <1>2, <1>3, <2>2, <2>3, <2>4, JobType
       DEF PendingReadIsOwned, AnnouncedFirst, OnlyEndedSessionsLeave, AcceptOwns,
           ReadsAreStarted, DisconnectIsLast
<1> QED
  BY <1>4, <1>5 DEF CallbackStep

(* Writes, the peers and the destructor own or end sessions, but take        *)
(* nothing from those that are read.                                         *)
LEMMA OtherStepsKeepIInv ==
  ASSUME ServerIInv, TypeOK', Environment \/ UNCHANGED vars \/ \E s \in Sessions : OnWritten(s)
  PROVE  ServerIInv'
<1> USE DEF ServerIInv, TypeOK, server, session, network, user
<1>1. UNCHANGED <<server, slotOwns, reading, taken, user>>
  BY DEF Environment, Write, Stop, PeerSend, PeerEnd, OnWritten, vars
<1>2. \A u \in Sessions : Started(u)' <=> Started(u)
  BY <1>1 DEF Started
<1>3. \A u \in Sessions : peer[u] # "open" => peer'[u] = peer[u]
  BY DEF Environment, Write, Stop, PeerSend, PeerEnd, OnWritten, vars
<1>4. \A job \in Job : HasJob(job)' /\ job.kind = "disconnect" => HasJob(job)
  <2>1. CASE UNCHANGED callbacks
    BY <2>1, SameJobs
  <2>2. ASSUME NEW s \in Sessions, UNCHANGED running,
               Post([kind |-> "writeError", s |-> s, chunk |-> 0])
        PROVE  \A job \in Job : HasJob(job)' /\ job.kind = "disconnect" => HasJob(job)
    <3> DEFINE error == [kind |-> "writeError", s |-> s, chunk |-> 0]
    <3>1. error \in Job /\ error.kind = "writeError" /\ Post(error)
      BY <2>2, JobType, ServerAssumption
    <3> HIDE DEF error
    <3> QED
      BY <2>2, <3>1, PostJobs, TypedLine
  <2> QED
    BY <2>1, <2>2 DEF Environment, Write, Stop, PeerSend, PeerEnd, OnWritten, vars, callbacks
<1> QED
  BY <1>1, <1>2, <1>3, <1>4, JobType
     DEF PendingReadIsOwned, AnnouncedFirst, OnlyEndedSessionsLeave, AcceptOwns,
         ReadsAreStarted, DisconnectIsLast

LEMMA InitIInv == Init => ServerIInv
<1> SUFFICES ASSUME Init PROVE ServerIInv
  OBVIOUS
<1>1. TypeOK
  BY InitType
<1>2. \A job \in Job : ~ HasJob(job)
  BY IdleAssumption DEF Init, HasJob
<1> QED
  BY <1>1, <1>2 DEF Init, ServerIInv, PendingReadIsOwned, AnnouncedFirst,
       OnlyEndedSessionsLeave, AcceptOwns, ReadsAreStarted, DisconnectIsLast

LEMMA IInvStep == ServerIInv /\ [Next]_vars => ServerIInv'
<1> SUFFICES ASSUME ServerIInv, [Next]_vars PROVE ServerIInv'
  OBVIOUS
<1>1. TypeOK'
  BY TypeStep DEF ServerIInv
<1> QED
  BY <1>1, AcceptKeepsIInv, ReadKeepsIInv, CallbackKeepsIInv, OtherStepsKeepIInv
     DEF Next, IoStep

(* The raw `this` of a read handler (Session.cpp:36, 106) always points to a *)
(* session that the server owns, for any number of sessions and threads.     *)
THEOREM ReadsNeverDangle == Spec => []PendingReadIsOwned
<1>1. ServerIInv => PendingReadIsOwned
  BY DEF ServerIInv
<1> QED
  BY <1>1, InitIInv, IInvStep, PTL DEF Spec

(* A session is announced to the user before its first bytes or its end are  *)
(* posted to the session's slots (Server.cpp:94-114).                        *)
THEOREM AnnouncedFirstHolds == Spec => []AnnouncedFirst
<1>1. ServerIInv => AnnouncedFirst
  BY DEF ServerIInv
<1> QED
  BY <1>1, InitIInv, IInvStep, PTL DEF Spec

(* A broadcast misses no session whose connection is still open              *)
(* (Server.cpp:99-107, 131).                                                 *)
THEOREM OpenSessionsStay == Spec => []OnlyEndedSessionsLeave
<1>1. ServerIInv => OnlyEndedSessionsLeave
  BY DEF ServerIInv
<1> QED
  BY <1>1, InitIInv, IInvStep, PTL DEF Spec

-----------------------------------------------------------------------------
(* With one callback thread, c, the jobs stand in one line: the running one  *)
(* first, then the queue.                                                    *)
Places(c) == (IF running[c] = Idle THEN {} ELSE {0}) \cup 1..Len(queue)
At(c, i) == IF i = 0 THEN running[c] ELSE queue[i]

Holds(c, i, s, k) ==
  i \in Places(c) /\ At(c, i).kind = "rx" /\ At(c, i).s = s /\ At(c, i).chunk = k
Ends(c, i, s) == i \in Places(c) /\ At(c, i).kind = "disconnect" /\ At(c, i).s = s

(* The chunks in line are those read and not yet handed on, in order, and    *)
(* each of them finds its session alive.                                     *)
Delivered == \A s \in Sessions : \A i \in 1..Len(rx[s]) : rx[s][i] = i

ChunksWait(c) ==
  \A s \in Sessions, i, k \in Nat :
    Holds(c, i, s, k) => /\ Len(rx[s]) < k /\ k <= taken[s]
                         /\ s \in mActiveSessions

NoChunkIsMissing(c) ==
  \A s \in Sessions :
    /\ Len(rx[s]) <= taken[s]
    /\ \A k \in Nat : Len(rx[s]) < k /\ k <= taken[s] => \E i \in Nat : Holds(c, i, s, k)

ChunksInOrder(c) ==
  \A s \in Sessions, i, j, k, l \in Nat :
    Holds(c, i, s, k) /\ Holds(c, j, s, l) /\ i < j => k < l

(* No chunk stands behind the end of its session, or comes after it.         *)
EndStandsLast(c) ==
  \A s \in Sessions, i, j, k \in Nat : Ends(c, i, s) /\ Holds(c, j, s, k) => j < i

NothingAfterTheEnd(c) ==
  \A s \in disconnected : \A i, k \in Nat : ~ Holds(c, i, s, k)

LineIInv(c) ==
  /\ Delivered /\ ChunksWait(c) /\ NoChunkIsMissing(c) /\ ChunksInOrder(c)
  /\ EndStandsLast(c) /\ NothingAfterTheEnd(c)

(* How a step moves the line: a posted job stands last, a taken one moves    *)
(* from the queue to the front, a finished one leaves the front.             *)
LEMMA InLine ==
  ASSUME LineTypes, NEW c \in CallbackThreads, NEW i \in Nat, NEW s \in Sessions, NEW k \in Nat,
         Holds(c, i, s, k) \/ Ends(c, i, s)
  PROVE  i <= Len(queue)
<1>1. queue \in Seq(Job) /\ i \in {0} \cup 1..Len(queue)
  BY DEF LineTypes, Holds, Ends, Places
<1> QED
  BY <1>1

LEMMA SameLine ==
  ASSUME UNCHANGED callbacks, NEW c, NEW i, NEW s, NEW k
  PROVE  (Holds(c, i, s, k)' <=> Holds(c, i, s, k)) /\ (Ends(c, i, s)' <=> Ends(c, i, s))
BY DEF callbacks, Holds, Ends, Places, At

LEMMA PostLine ==
  ASSUME LineTypes, NEW c \in CallbackThreads, NEW job \in Job, Post(job), UNCHANGED running,
         NEW i \in Nat, NEW s \in Sessions, NEW k \in Nat
  PROVE  /\ Holds(c, i, s, k)' <=>
              \/ Holds(c, i, s, k)
              \/ i = Len(queue) + 1 /\ job.kind = "rx" /\ job.s = s /\ job.chunk = k
         /\ Ends(c, i, s)' <=>
              \/ Ends(c, i, s)
              \/ i = Len(queue) + 1 /\ job.kind = "disconnect" /\ job.s = s
<1>1. /\ queue \in Seq(Job) /\ Len(queue) \in Nat /\ Len(queue') = Len(queue) + 1
      /\ queue'[Len(queue) + 1] = job
      /\ \A j \in 1..Len(queue) : queue'[j] = queue[j]
  BY DEF LineTypes, Post
<1>2. i \in Places(c)' <=> i \in Places(c) \/ i = Len(queue) + 1
  BY <1>1 DEF Places
<1>3. CASE i = Len(queue) + 1
  <2>1. At(c, i)' = job /\ i \notin Places(c)
    BY <1>1, <1>3 DEF At, Places
  <2> QED
    BY <1>2, <1>3, <2>1 DEF Holds, Ends
<1>4. CASE i # Len(queue) + 1
  <2>1. i \in Places(c) => At(c, i)' = At(c, i)
    BY <1>1 DEF At, Places
  <2> QED
    BY <1>2, <1>4, <2>1 DEF Holds, Ends
<1> QED
  BY <1>3, <1>4

LEMMA TakeLine ==
  ASSUME LineTypes, NEW c \in CallbackThreads, Takes(c),
         NEW i \in Nat, NEW s \in Sessions, NEW k \in Nat
  PROVE  /\ Holds(c, i, s, k)' <=> Holds(c, i + 1, s, k)
         /\ Ends(c, i, s)' <=> Ends(c, i + 1, s)
         /\ ~ Holds(c, 0, s, k)
<1>1. /\ queue \in Seq(Job) /\ queue # <<>> /\ Len(queue) \in Nat /\ Len(queue) > 0
      /\ Len(queue') = Len(queue) - 1
      /\ \A j \in 1..Len(queue') : queue'[j] = queue[j + 1]
      /\ running'[c] = queue[1] /\ running[c] = Idle /\ queue[1] \in Job
  BY DEF LineTypes, Takes
<1>2. running'[c] # Idle
  BY <1>1, IdleAssumption
<1>3. i \in Places(c)' <=> i + 1 \in Places(c)
  BY <1>1, <1>2 DEF Places
<1>4. i \in Places(c)' => At(c, i)' = At(c, i + 1)
  BY <1>1, <1>2 DEF Places, At
<1>5. 0 \notin Places(c)
  BY <1>1 DEF Places
<1> QED
  BY <1>3, <1>4, <1>5 DEF Holds, Ends

LEMMA FinishLine ==
  ASSUME LineTypes, NEW c \in CallbackThreads, Finish(c),
         NEW i \in Nat, NEW s \in Sessions, NEW k \in Nat
  PROVE  /\ Holds(c, i, s, k)' <=> i > 0 /\ Holds(c, i, s, k)
         /\ Ends(c, i, s)' <=> i > 0 /\ Ends(c, i, s)
<1>1. queue' = queue /\ running'[c] = Idle /\ queue \in Seq(Job) /\ Len(queue) \in Nat
  BY DEF Finish, LineTypes
<1>2. i \in Places(c)' <=> i > 0 /\ i \in Places(c)
  BY <1>1 DEF Places
<1>3. i > 0 => At(c, i)' = At(c, i)
  BY <1>1 DEF At
<1> QED
  BY <1>2, <1>3 DEF Holds, Ends

(* The job a thread runs stands in front.                                    *)
LEMMA Front ==
  ASSUME LineTypes, NEW c \in CallbackThreads, running[c] # Idle
  PROVE  /\ running[c].s \in Sessions /\ running[c].chunk \in Nat
         /\ running[c].kind = "rx" => Holds(c, 0, running[c].s, running[c].chunk)
         /\ running[c].kind = "disconnect" => Ends(c, 0, running[c].s)
<1>1. running[c] \in Job
  BY DEF LineTypes
<1>2. running[c].s \in Sessions /\ running[c].chunk \in Nat
  BY <1>1, JobType, ServerAssumption
<1>3. 0 \in Places(c) /\ At(c, 0) = running[c]
  BY DEF Places, At
<1> QED
  BY <1>2, <1>3 DEF Holds, Ends

-----------------------------------------------------------------------------
(* A step that hands nothing on and reads nothing leaves the chunks in line  *)
(* where they are; at most an end joins the line behind them.                *)
LEMMA QuietStep ==
  ASSUME LineTypes, NEW c \in CallbackThreads, LineIInv(c), UNCHANGED <<rx, taken, disconnected>>,
         mActiveSessions \subseteq mActiveSessions',
         \A i, k \in Nat, s \in Sessions : Holds(c, i, s, k)' <=> Holds(c, i, s, k),
         \A i \in Nat, s \in Sessions : Ends(c, i, s)' => Ends(c, i, s) \/ i = Len(queue) + 1
  PROVE  LineIInv(c)'
<1>0. disconnected \subseteq Sessions /\ Len(queue) \in Nat
  BY DEF LineTypes
<1>1. Delivered'
  BY DEF LineIInv, Delivered
<1>2. ChunksWait(c)'
  BY DEF LineIInv, ChunksWait
<1>3. NoChunkIsMissing(c)'
  BY DEF LineIInv, NoChunkIsMissing
<1>4. ChunksInOrder(c)'
  BY DEF LineIInv, ChunksInOrder
<1>5. EndStandsLast(c)'
  <2> SUFFICES ASSUME NEW s \in Sessions, NEW i \in Nat, NEW j \in Nat, NEW k \in Nat,
                      Ends(c, i, s)', Holds(c, j, s, k)'
               PROVE  j < i
    BY DEF EndStandsLast
  <2>1. Holds(c, j, s, k) /\ j <= Len(queue)
    BY InLine
  <2> QED
    BY <1>0, <2>1 DEF LineIInv, EndStandsLast
<1>6. NothingAfterTheEnd(c)'
  BY <1>0 DEF LineIInv, NothingAfterTheEnd
<1> QED
  BY <1>1, <1>2, <1>3, <1>4, <1>5, <1>6 DEF LineIInv

(* The chunk just read joins the line behind all those read before.          *)
LEMMA ReadKeepsLine ==
  ASSUME LineTypes, NEW c \in CallbackThreads, LineIInv(c), NEW s \in Sessions,
         taken[s] + 1 \in 0..MaxChunks, taken' = [taken EXCEPT ![s] = @ + 1],
         Post([kind |-> "rx", s |-> s, chunk |-> taken[s] + 1]),
         UNCHANGED <<running, rx, disconnected, mActiveSessions>>,
         s \in mActiveSessions, s \notin disconnected, \A i \in Nat : ~ Ends(c, i, s)
  PROVE  LineIInv(c)'
<1> DEFINE next == taken[s] + 1
           bytes == [kind |-> "rx", s |-> s, chunk |-> next]
<1>0. LineTypes
  OBVIOUS
<1>1. /\ disconnected \subseteq Sessions /\ Len(queue) \in Nat /\ taken \in [Sessions -> Nat]
      /\ next \in Nat /\ bytes \in Job
  BY JobType, ServerAssumption DEF LineTypes
<1>2. Post(bytes) /\ taken' = [taken EXCEPT ![s] = next]
  OBVIOUS
<1>3. /\ taken'[s] = taken[s] + 1 /\ \A u \in Sessions : u # s => taken'[u] = taken[u]
  BY <1>1, <1>2
<1>4. UNCHANGED <<rx, disconnected, mActiveSessions>>
  OBVIOUS
<1>5. \A i, k \in Nat, u \in Sessions :
        /\ Holds(c, i, u, k)' <=> Holds(c, i, u, k) \/ (i = Len(queue) + 1 /\ u = s /\ k = next)
        /\ Ends(c, i, u)' <=> Ends(c, i, u)
  <2> TAKE i, k \in Nat, u \in Sessions
  <2>1. bytes.kind = "rx" /\ bytes.s = s /\ bytes.chunk = next
    OBVIOUS
  <2> HIDE DEF bytes, next
  <2> QED
    BY <1>0, <1>1, <1>2, <2>1, PostLine
<1>6. s \in mActiveSessions /\ s \notin disconnected
  OBVIOUS
<1>7. \A i \in Nat : ~ Ends(c, i, s)
  OBVIOUS
<1>8. \A i, k \in Nat, u \in Sessions : Holds(c, i, u, k) => i <= Len(queue)
  BY <1>0, InLine
<1> HIDE DEF bytes
<1>11. Delivered'
  BY <1>4 DEF LineIInv, Delivered
<1>12. ChunksWait(c)'
  <2> SUFFICES ASSUME NEW u \in Sessions, NEW i \in Nat, NEW k \in Nat, Holds(c, i, u, k)'
               PROVE  Len(rx[u]) < k /\ k <= taken'[u] /\ u \in mActiveSessions
    BY <1>4 DEF ChunksWait
  <2>0. Len(rx[u]) \in Nat /\ taken[u] \in Nat /\ Len(rx[u]) <= taken[u]
    BY <1>0, <1>1 DEF LineTypes, LineIInv, NoChunkIsMissing
  <2>1. CASE Holds(c, i, u, k)
    BY <1>3, <2>0, <2>1 DEF LineIInv, ChunksWait
  <2>2. CASE u = s /\ k = next
    BY <1>3, <1>6, <2>0, <2>2
  <2> QED
    BY <1>5, <2>1, <2>2
<1>13. NoChunkIsMissing(c)'
  <2> SUFFICES ASSUME NEW u \in Sessions
               PROVE  /\ Len(rx[u]) <= taken'[u]
                      /\ \A k \in Nat : Len(rx[u]) < k /\ k <= taken'[u]
                                          => \E i \in Nat : Holds(c, i, u, k)'
    BY <1>4 DEF NoChunkIsMissing
  <2>0. /\ Len(rx[u]) \in Nat /\ taken[u] \in Nat /\ Len(rx[u]) <= taken[u]
        /\ \A k \in Nat : Len(rx[u]) < k /\ k <= taken[u] => \E i \in Nat : Holds(c, i, u, k)
    BY <1>0, <1>1 DEF LineTypes, LineIInv, NoChunkIsMissing
  <2>1. Len(rx[u]) <= taken'[u]
    BY <1>3, <2>0
  <2>2. ASSUME NEW k \in Nat, Len(rx[u]) < k, k <= taken'[u]
        PROVE  \E i \in Nat : Holds(c, i, u, k)'
    <3>1. CASE k <= taken[u]
      BY <1>5, <2>0, <2>2, <3>1
    <3>2. CASE ~ (k <= taken[u])
      <4>1. u = s /\ k = next /\ Len(queue) + 1 \in Nat
        BY <1>1, <1>3, <2>0, <2>2, <3>2
      <4> QED
        BY <1>5, <4>1
    <3> QED
      BY <3>1, <3>2
  <2> QED
    BY <2>1, <2>2
<1>14. ChunksInOrder(c)'
  <2> SUFFICES ASSUME NEW u \in Sessions, NEW i \in Nat, NEW j \in Nat, NEW k \in Nat,
                      NEW l \in Nat, Holds(c, i, u, k)', Holds(c, j, u, l)', i < j
               PROVE  k < l
    BY DEF ChunksInOrder
  <2>1. CASE Holds(c, j, u, l)
    <3>1. Holds(c, i, u, k)
      BY <1>1, <1>5, <1>8, <2>1
    <3> QED
      BY <2>1, <3>1 DEF LineIInv, ChunksInOrder
  <2>2. CASE j = Len(queue) + 1 /\ u = s /\ l = next
    <3>1. Holds(c, i, u, k)
      BY <1>1, <1>5, <2>2
    <3>2. k <= taken[s] /\ taken[s] \in Nat
      BY <1>1, <2>2, <3>1 DEF LineIInv, ChunksWait
    <3> QED
      BY <2>2, <3>2
  <2> QED
    BY <1>5, <2>1, <2>2
<1>15. EndStandsLast(c)'
  <2> SUFFICES ASSUME NEW u \in Sessions, NEW i \in Nat, NEW j \in Nat, NEW k \in Nat,
                      Ends(c, i, u)', Holds(c, j, u, k)'
               PROVE  j < i
    BY DEF EndStandsLast
  <2>1. Ends(c, i, u) /\ u # s
    BY <1>5, <1>7
  <2> QED
    BY <1>5, <2>1 DEF LineIInv, EndStandsLast
<1>16. NothingAfterTheEnd(c)'
  BY <1>1, <1>4, <1>5, <1>6 DEF LineIInv, NothingAfterTheEnd
<1> QED
  BY <1>11, <1>12, <1>13, <1>14, <1>15, <1>16 DEF LineIInv

(* Taking a job moves the whole line up by one place.                        *)
LEMMA TakeKeepsLine ==
  ASSUME LineTypes, NEW c \in CallbackThreads, LineIInv(c), Takes(c),
         UNCHANGED <<rx, taken, disconnected, mActiveSessions>>
  PROVE  LineIInv(c)'
<1>1. UNCHANGED <<rx, taken, disconnected, mActiveSessions>>
  OBVIOUS
<1>2. disconnected \subseteq Sessions
  BY DEF LineTypes
<1>3. \A i, k \in Nat, s \in Sessions :
        /\ Holds(c, i, s, k)' <=> Holds(c, i + 1, s, k)
        /\ Ends(c, i, s)' <=> Ends(c, i + 1, s)
        /\ ~ Holds(c, 0, s, k)
  BY TakeLine
<1>4. Delivered'
  BY <1>1 DEF LineIInv, Delivered
<1>5. ChunksWait(c)'
  <2>1. \A i \in Nat : i + 1 \in Nat
    OBVIOUS
  <2> QED
    BY <1>1, <1>3, <2>1 DEF LineIInv, ChunksWait
<1>6. NoChunkIsMissing(c)'
  <2> SUFFICES ASSUME NEW s \in Sessions, NEW k \in Nat, Len(rx[s]) < k, k <= taken[s]
               PROVE  \E i \in Nat : Holds(c, i, s, k)'
    BY <1>1 DEF LineIInv, NoChunkIsMissing
  <2>1. PICK i \in Nat : Holds(c, i, s, k)
    BY DEF LineIInv, NoChunkIsMissing
  <2>2. i - 1 \in Nat /\ (i - 1) + 1 = i
    BY <1>3, <2>1
  <2> QED
    BY <1>3, <2>1, <2>2
<1>7. ChunksInOrder(c)'
  <2>1. \A i, j \in Nat : i + 1 \in Nat /\ (i < j => i + 1 < j + 1)
    OBVIOUS
  <2> QED
    BY <1>3, <2>1 DEF LineIInv, ChunksInOrder
<1>8. EndStandsLast(c)'
  <2>1. \A i, j \in Nat : i + 1 \in Nat /\ (j + 1 < i + 1 => j < i)
    OBVIOUS
  <2> QED
    BY <1>3, <2>1 DEF LineIInv, EndStandsLast
<1>9. NothingAfterTheEnd(c)'
  <2>1. \A i \in Nat : i + 1 \in Nat
    OBVIOUS
  <2> QED
    BY <1>1, <1>2, <1>3, <2>1 DEF LineIInv, NothingAfterTheEnd
<1> QED
  BY <1>4, <1>5, <1>6, <1>7, <1>8, <1>9 DEF LineIInv

(* The chunk in front is the next one its session's slots have to see, and   *)
(* the session is there to show it to them.                                  *)
LEMMA RxKeepsLine ==
  ASSUME LineTypes, NEW c \in CallbackThreads, LineIInv(c),
         running[c] # Idle, running[c].kind = "rx", Finish(c),
         running[c].s \in mActiveSessions
           => rx' = [rx EXCEPT ![running[c].s] = Append(@, running[c].chunk)],
         UNCHANGED <<taken, disconnected, mActiveSessions>>
  PROVE  LineIInv(c)'
<1> DEFINE s == running[c].s
           n == running[c].chunk
<1>1. s \in Sessions /\ n \in Nat /\ Holds(c, 0, s, n)
  BY Front
<1>2. UNCHANGED <<taken, disconnected, mActiveSessions>> /\ Finish(c)
  OBVIOUS
<1>3. /\ disconnected \subseteq Sessions /\ rx \in [Sessions -> Seq(0..MaxChunks)]
      /\ taken \in [Sessions -> 0..MaxChunks]
  BY DEF LineTypes
<1>4. \A i, k \in Nat, u \in Sessions :
        /\ Holds(c, i, u, k)' <=> i > 0 /\ Holds(c, i, u, k)
        /\ Ends(c, i, u)' <=> i > 0 /\ Ends(c, i, u)
  BY <1>2, FinishLine
<1>5. rx' = [rx EXCEPT ![s] = Append(@, n)]
  <2>1. s \in mActiveSessions
    BY <1>1 DEF LineIInv, ChunksWait
  <2> QED
    BY <2>1
<1>6. n = Len(rx[s]) + 1
  <2>0. rx[s] \in Seq(0..MaxChunks) /\ taken[s] \in 0..MaxChunks
    BY <1>1, <1>3
  <2>1. Len(rx[s]) \in Nat /\ Len(rx[s]) < n /\ n <= taken[s] /\ taken[s] \in Nat
    BY <1>1, <2>0, ServerAssumption DEF LineIInv, ChunksWait
  <2>2. Len(rx[s]) + 1 \in Nat /\ Len(rx[s]) < Len(rx[s]) + 1 /\ Len(rx[s]) + 1 <= taken[s]
    BY <1>1, <2>1, SMTT(30)
  <2>3. PICK i \in Nat : Holds(c, i, s, Len(rx[s]) + 1)
    BY <1>1, <2>2 DEF LineIInv, NoChunkIsMissing
  <2>4. CASE i = 0
    BY <1>1, <2>3, <2>4 DEF Holds
  <2>5. CASE i # 0
    <3>1. 0 < i /\ 0 \in Nat
      BY <2>5
    <3>2. n < Len(rx[s]) + 1
      BY <1>1, <2>2, <2>3, <3>1 DEF LineIInv, ChunksInOrder
    <3> QED
      BY <1>1, <2>1, <3>2
  <2> QED
    BY <2>4, <2>5
<1> HIDE DEF s, n
<1>7. /\ Len(rx'[s]) = Len(rx[s]) + 1 /\ rx'[s][Len(rx[s]) + 1] = n
      /\ \A i \in 1..Len(rx[s]) : rx'[s][i] = rx[s][i]
      /\ \A u \in Sessions : u # s => rx'[u] = rx[u]
      /\ \A u \in Sessions : Len(rx[u]) \in Nat
  <2>1. rx[s] \in Seq(0..MaxChunks) /\ rx'[s] = Append(rx[s], n)
    BY <1>1, <1>3, <1>5
  <2>2. \A u \in Sessions : u # s => rx'[u] = rx[u]
    BY <1>1, <1>3, <1>5
  <2>3. \A u \in Sessions : Len(rx[u]) \in Nat
    BY <1>3
  <2> QED
    BY <2>1, <2>2, <2>3
<1>8. \A i, k \in Nat : i > 0 /\ Holds(c, i, s, k) => n < k
  BY <1>1 DEF LineIInv, ChunksInOrder
<1>11. Delivered'
  <2> SUFFICES ASSUME NEW u \in Sessions, NEW i \in 1..Len(rx'[u]) PROVE rx'[u][i] = i
    BY DEF Delivered
  <2>1. CASE u # s
    BY <1>7, <2>1 DEF LineIInv, Delivered
  <2>2. CASE u = s /\ i = Len(rx[s]) + 1
    BY <1>6, <1>7, <2>2
  <2>3. CASE u = s /\ i # Len(rx[s]) + 1
    <3>1. i \in 1..Len(rx[s])
      BY <1>7, <2>3
    <3> QED
      BY <1>7, <2>3, <3>1 DEF LineIInv, Delivered
  <2> QED
    BY <2>1, <2>2, <2>3
<1>12. ChunksWait(c)'
  <2> SUFFICES ASSUME NEW u \in Sessions, NEW i \in Nat, NEW k \in Nat, Holds(c, i, u, k)'
               PROVE  Len(rx'[u]) < k /\ k <= taken[u] /\ u \in mActiveSessions
    BY <1>2 DEF ChunksWait
  <2>1. i > 0 /\ Holds(c, i, u, k)
    BY <1>4
  <2>2. Len(rx[u]) < k /\ k <= taken[u] /\ u \in mActiveSessions
    BY <2>1 DEF LineIInv, ChunksWait
  <2>3. CASE u # s
    BY <1>7, <2>2, <2>3
  <2>4. CASE u = s
    <3>1. n < k
      BY <1>8, <2>1, <2>4
    <3> QED
      BY <1>6, <1>7, <2>2, <2>4, <3>1
  <2> QED
    BY <2>3, <2>4
<1>13. NoChunkIsMissing(c)'
  <2> SUFFICES ASSUME NEW u \in Sessions
               PROVE  /\ Len(rx'[u]) <= taken[u]
                      /\ \A k \in Nat : Len(rx'[u]) < k /\ k <= taken[u]
                                          => \E i \in Nat : Holds(c, i, u, k)'
    BY <1>2 DEF NoChunkIsMissing
  <2>0. /\ Len(rx[u]) <= taken[u]
        /\ \A k \in Nat : Len(rx[u]) < k /\ k <= taken[u] => \E i \in Nat : Holds(c, i, u, k)
    BY DEF LineIInv, NoChunkIsMissing
  <2>1. Len(rx'[u]) <= taken[u]
    <3>1. n <= taken[s]
      BY <1>1 DEF LineIInv, ChunksWait
    <3> QED
      BY <1>6, <1>7, <2>0, <3>1
  <2>2. ASSUME NEW k \in Nat, Len(rx'[u]) < k, k <= taken[u]
        PROVE  \E i \in Nat : Holds(c, i, u, k)'
    <3>1. Len(rx[u]) < k /\ (u = s => k # n)
      BY <1>6, <1>7, <2>2
    <3>2. PICK i \in Nat : Holds(c, i, u, k)
      BY <2>0, <2>2, <3>1
    <3>3. i # 0
      BY <1>1, <3>1, <3>2 DEF Holds
    <3>4. i > 0
      BY <3>3
    <3>5. Holds(c, i, u, k)'
      BY <1>4, <3>2, <3>4, Zenon
    <3> QED
      BY <3>5
  <2> QED
    BY <2>1, <2>2
<1>14. ChunksInOrder(c)'
  BY <1>4 DEF LineIInv, ChunksInOrder
<1>15. EndStandsLast(c)'
  BY <1>4 DEF LineIInv, EndStandsLast
<1>16. NothingAfterTheEnd(c)'
  BY <1>2, <1>3, <1>4 DEF LineIInv, NothingAfterTheEnd
<1> QED
  BY <1>11, <1>12, <1>13, <1>14, <1>15, <1>16 DEF LineIInv

(* When a session's end comes to the front no chunk of it is left in line.   *)
LEMMA EndKeepsLine ==
  ASSUME LineTypes, NEW c \in CallbackThreads, LineIInv(c),
         running[c] # Idle, running[c].kind = "disconnect", Finish(c), UNCHANGED <<taken, rx>>,
         mActiveSessions' = mActiveSessions \ {running[c].s},
         disconnected' = disconnected \cup {running[c].s}
  PROVE  LineIInv(c)'
<1> DEFINE s == running[c].s
<1>0. LineTypes
  OBVIOUS
<1>1. s \in Sessions /\ Ends(c, 0, s)
  BY Front
<1>2. /\ UNCHANGED <<taken, rx>> /\ Finish(c)
      /\ mActiveSessions' = mActiveSessions \ {s} /\ disconnected' = disconnected \cup {s}
  OBVIOUS
<1>3. disconnected \subseteq Sessions
  BY DEF LineTypes
<1>4. \A i, k \in Nat, u \in Sessions :
        /\ Holds(c, i, u, k)' <=> i > 0 /\ Holds(c, i, u, k)
        /\ Ends(c, i, u)' <=> i > 0 /\ Ends(c, i, u)
  BY <1>0, <1>2, FinishLine
<1>6. \A i, k \in Nat : ~ Holds(c, i, s, k)
  <2> SUFFICES ASSUME NEW i \in Nat, NEW k \in Nat, Holds(c, i, s, k) PROVE FALSE
    OBVIOUS
  <2>1. i < 0
    BY <1>1 DEF LineIInv, EndStandsLast
  <2> QED
    BY <2>1
<1> HIDE DEF s
<1>7. \A i, k \in Nat, u \in Sessions : Holds(c, i, u, k) => u # s /\ i > 0
  <2> SUFFICES ASSUME NEW i \in Nat, NEW k \in Nat, NEW u \in Sessions, Holds(c, i, u, k)
               PROVE  u # s /\ i # 0
    OBVIOUS
  <2> QED
    BY <1>6 DEF Holds, At
<1>11. Delivered'
  BY <1>2 DEF LineIInv, Delivered
<1>12. ChunksWait(c)'
  BY <1>2, <1>4, <1>7 DEF LineIInv, ChunksWait
<1>13. NoChunkIsMissing(c)'
  BY <1>2, <1>4, <1>7 DEF LineIInv, NoChunkIsMissing
<1>14. ChunksInOrder(c)'
  BY <1>4 DEF LineIInv, ChunksInOrder
<1>15. EndStandsLast(c)'
  BY <1>4 DEF LineIInv, EndStandsLast
<1>16. NothingAfterTheEnd(c)'
  BY <1>1, <1>2, <1>3, <1>4, <1>6 DEF LineIInv, NothingAfterTheEnd
<1> QED
  BY <1>11, <1>12, <1>13, <1>14, <1>15, <1>16 DEF LineIInv

(* Any other job leaves the front, and the chunks in line where they are.    *)
LEMMA OthersKeepLine ==
  ASSUME LineTypes, NEW c \in CallbackThreads, LineIInv(c),
         running[c] # Idle, running[c].kind # "rx", Finish(c),
         UNCHANGED <<taken, rx, disconnected, mActiveSessions>>
  PROVE  LineIInv(c)'
<1>1. \A i, k \in Nat, u \in Sessions :
        /\ Holds(c, i, u, k)' <=> Holds(c, i, u, k)
        /\ Ends(c, i, u)' => Ends(c, i, u)
  <2> TAKE i, k \in Nat, u \in Sessions
  <2>1. i = 0 => ~ Holds(c, i, u, k)
    BY DEF Holds, At
  <2> QED
    BY <2>1, FinishLine
<1> QED
  BY <1>1, QuietStep

-----------------------------------------------------------------------------
(* Who has been told of a session's end was told after its last read.        *)
EndedAreNotRead == \A s \in disconnected : Started(s) /\ s \notin reading

LEMMA EndedStep == ServerIInv /\ EndedAreNotRead /\ [Next]_vars => EndedAreNotRead'
<1> SUFFICES ASSUME ServerIInv, EndedAreNotRead, [Next]_vars PROVE EndedAreNotRead'
  OBVIOUS
<1>0. TypeOK /\ disconnected \subseteq Sessions
  BY DEF ServerIInv, TypeOK
<1>1. ASSUME disconnected' = disconnected, \A s \in Sessions : Started(s) => Started(s)',
             \A s \in reading' : s \in reading \/ ~ Started(s)
      PROVE  EndedAreNotRead'
  BY <1>0, <1>1 DEF EndedAreNotRead
<1>2. CASE OnAccept
  BY <1>0, <1>1, <1>2 DEF OnAccept, Accepted, ConnectDisconnectSlot, EmitNewSession, StartSession,
       AcceptFailed, StartAccept, AcceptStep, Started, session, user, TypeOK, Sessions
<1>3. CASE Environment \/ UNCHANGED vars \/ \E s \in Sessions : OnReadBytes(s) \/ OnReadEnd(s) \/ OnWritten(s)
  BY <1>1, <1>3 DEF Environment, Write, Stop, PeerSend, PeerEnd, OnReadBytes, OnReadEnd, OnWritten, vars,
       server, session, user, Started
<1>4. ASSUME NEW c \in CallbackThreads, TakeJob(c) \/ RunRx(c) \/ RunError(c) PROVE EndedAreNotRead'
  BY <1>1, <1>4 DEF TakeJob, RunRx, RunError, server, session, user, Started
<1>5. ASSUME NEW c \in CallbackThreads, RunDisconnect(c) PROVE EndedAreNotRead'
  <2>1. running[c] \in Job /\ HasJob(running[c]) /\ running[c].kind = "disconnect"
    BY <1>0, <1>5 DEF RunDisconnect, HasJob, TypeOK
  <2>2. Started(running[c].s) /\ running[c].s \notin reading
    BY <2>1 DEF ServerIInv, DisconnectIsLast
  <2> QED
    BY <1>5, <2>2 DEF EndedAreNotRead, RunDisconnect, Started
<1> QED
  BY <1>2, <1>3, <1>4, <1>5 DEF Next, IoStep, CallbackStep

LEMMA LineStep ==
  ASSUME ServerIInv, EndedAreNotRead, NEW c, CallbackThreads = {c}, LineIInv(c), [Next]_vars
  PROVE  LineIInv(c)'
<1>0. TypeOK /\ LineTypes /\ c \in CallbackThreads
  BY TypedLine DEF ServerIInv
<1>1. CASE OnAccept \/ Environment \/ UNCHANGED vars
  <2>1. /\ UNCHANGED <<callbacks, rx, taken, disconnected>>
        /\ mActiveSessions \subseteq mActiveSessions'
    BY <1>1 DEF OnAccept, Accepted, ConnectDisconnectSlot, EmitNewSession, StartSession,
         AcceptFailed, StartAccept, Environment, Write, Stop, PeerSend, PeerEnd, vars, server,
         session, network, user
  <2>2. \A i, k \in Nat, s \in Sessions :
          (Holds(c, i, s, k)' <=> Holds(c, i, s, k)) /\ (Ends(c, i, s)' <=> Ends(c, i, s))
    BY <2>1, SameLine
  <2> QED
    BY <1>0, <2>1, <2>2, QuietStep
<1>2. ASSUME NEW s \in Sessions, OnReadBytes(s) PROVE LineIInv(c)'
  <2>1. /\ taken[s] + 1 \in 0..MaxChunks /\ taken' = [taken EXCEPT ![s] = @ + 1]
        /\ Post([kind |-> "rx", s |-> s, chunk |-> taken[s] + 1])
        /\ UNCHANGED <<running, rx, disconnected, mActiveSessions>> /\ s \in reading
    BY <1>0, <1>2, ServerAssumption DEF OnReadBytes, TypeOK, server, user
  <2>2. s \in mActiveSessions /\ s \notin disconnected
    BY <2>1 DEF ServerIInv, PendingReadIsOwned, EndedAreNotRead
  <2>3. \A i \in Nat : ~ Ends(c, i, s)
    <3> SUFFICES ASSUME NEW i \in Nat, Ends(c, i, s) PROVE FALSE
      OBVIOUS
    <3>1. At(c, i) \in Job /\ HasJob(At(c, i))
      BY <1>0, IdleAssumption DEF Ends, Places, At, HasJob, TypeOK
    <3> QED
      BY <2>1, <3>1 DEF Ends, ServerIInv, DisconnectIsLast
  <2> QED
    BY <1>0, <2>1, <2>2, <2>3, ReadKeepsLine
<1>3. ASSUME NEW s \in Sessions, OnReadEnd(s) \/ OnWritten(s) PROVE LineIInv(c)'
  <2>1. UNCHANGED <<rx, taken, disconnected, mActiveSessions, running>>
    BY <1>3 DEF OnReadEnd, OnWritten, server, network, user
  <2>2. ASSUME NEW job \in Job, job.kind # "rx", Post(job) PROVE LineIInv(c)'
    <3>1. \A i, k \in Nat, u \in Sessions :
            /\ Holds(c, i, u, k)' <=> Holds(c, i, u, k)
            /\ Ends(c, i, u)' => Ends(c, i, u) \/ i = Len(queue) + 1
      BY <1>0, <2>1, <2>2, PostLine
    <3> QED
      BY <1>0, <2>1, <3>1, QuietStep
  <2>3. CASE UNCHANGED queue
    <3>1. \A i, k \in Nat, u \in Sessions :
            (Holds(c, i, u, k)' <=> Holds(c, i, u, k)) /\ (Ends(c, i, u)' <=> Ends(c, i, u))
      BY <2>1, <2>3, SameLine DEF callbacks
    <3> QED
      BY <1>0, <2>1, <3>1, QuietStep
  <2>4. \A kind \in {"disconnect", "readError", "writeError"} :
          [kind |-> kind, s |-> s, chunk |-> 0] \in Job
    BY JobType, ServerAssumption
  <2> QED
    BY <1>3, <2>2, <2>3, <2>4 DEF OnReadEnd, OnWritten
<1>4. CASE TakeJob(c)
  <2>1. Takes(c) /\ UNCHANGED <<rx, taken, disconnected, mActiveSessions>>
    BY <1>4 DEF TakeJob, Takes, server, network, user
  <2> QED
    BY <1>0, <2>1, TakeKeepsLine
<1>5. CASE RunRx(c)
  <2>1. /\ running[c] # Idle /\ running[c].kind = "rx" /\ Finish(c)
        /\ UNCHANGED <<taken, disconnected, mActiveSessions>>
        /\ running[c].s \in mActiveSessions
             => rx' = [rx EXCEPT ![running[c].s] = Append(@, running[c].chunk)]
    BY <1>5 DEF RunRx, Alive, server, network
  <2> QED
    BY <1>0, <2>1, RxKeepsLine
<1>6. CASE RunDisconnect(c)
  <2>1. /\ running[c] # Idle /\ running[c].kind = "disconnect" /\ Finish(c)
        /\ UNCHANGED <<taken, rx>> /\ mActiveSessions' = mActiveSessions \ {running[c].s}
        /\ disconnected' = disconnected \cup {running[c].s}
    BY <1>6 DEF RunDisconnect, network
  <2> QED
    BY <1>0, <2>1, EndKeepsLine
<1>7. CASE RunError(c)
  <2>1. /\ running[c] # Idle /\ running[c].kind # "rx" /\ Finish(c)
        /\ UNCHANGED <<taken, rx, disconnected, mActiveSessions>>
    BY <1>7 DEF RunError, server, network, user
  <2> QED
    BY <1>0, <2>1, OthersKeepLine
<1> QED
  BY <1>1, <1>2, <1>3, <1>4, <1>5, <1>6, <1>7 DEF Next, IoStep, CallbackStep

(* What the line says of the chunks that are out of it.                      *)
LEMMA LineDelivers ==
  ASSUME LineTypes, NEW c, LineIInv(c), NEW s \in Sessions
  PROVE  /\ \A i \in 1..Len(rx[s]) : rx[s][i] = i
         /\ s \in disconnected => Len(rx[s]) = taken[s]
<1>1. Len(rx[s]) \in Nat /\ taken[s] \in Nat /\ Len(rx[s]) <= taken[s]
  BY ServerAssumption DEF LineTypes, LineIInv, NoChunkIsMissing
<1>2. ASSUME s \in disconnected, Len(rx[s]) < taken[s] PROVE FALSE
  BY <1>1, <1>2 DEF LineIInv, NoChunkIsMissing, NothingAfterTheEnd
<1> QED
  BY <1>1, <1>2 DEF LineIInv, Delivered

LEMMA InitLine ==
  ASSUME NEW c \in CallbackThreads, queue = <<>>, running = [d \in CallbackThreads |-> Idle],
         rx = [s \in Sessions |-> <<>>], taken = [s \in Sessions |-> 0], disconnected = {}
  PROVE  LineIInv(c)
<1>1. \A i \in Nat : i \notin Places(c)
  BY DEF Places
<1>2. \A s \in Sessions : rx[s] = <<>> /\ Len(rx[s]) = 0 /\ taken[s] = 0
  OBVIOUS
<1>3. Delivered
  BY <1>2 DEF Delivered
<1>4. NoChunkIsMissing(c)
  BY <1>2 DEF NoChunkIsMissing
<1> QED
  BY <1>1, <1>2, <1>3, <1>4 DEF LineIInv, ChunksWait, ChunksInOrder, EndStandsLast,
     NothingAfterTheEnd, Holds, Ends

(* With one callback thread (Session.cpp:95, 114) the slots of a session see *)
(* exactly the chunks read from it, in order, and the disconnect after the   *)
(* last of them.                                                             *)
THEOREM OneThreadDelivers ==
  ASSUME NEW c, CallbackThreads = {c}
  PROVE  Spec => []DeliveredInOrder
<1>1. Init => ServerIInv /\ EndedAreNotRead /\ LineIInv(c)
  BY InitIInv, InitLine DEF Init, EndedAreNotRead
<1>2. ServerIInv /\ EndedAreNotRead /\ LineIInv(c) /\ [Next]_vars => (ServerIInv /\ EndedAreNotRead /\ LineIInv(c))'
  BY IInvStep, EndedStep, LineStep
<1>3. ServerIInv /\ LineIInv(c) => DeliveredInOrder
  BY TypedLine, LineDelivers DEF ServerIInv, DeliveredInOrder
<1> QED
  BY <1>1, <1>2, <1>3, PTL DEF Spec

-----------------------------------------------------------------------------
(* The sessions of ws::Server (module WsServer) are accepted in the same     *)
(* steps and their jobs stand in the same line, so both come with the same   *)
(* lemmas; the constants, and the variables with the same names, are theirs  *)
(* too.  A session of dl::ws shakes hands before it reads, and may end while *)
(* it does so, without a job.                                                *)
VARIABLES pending, open, posted, mWriteQueue, mIsSending, transmit, broadcasts, writtenTo, wire, early

W == INSTANCE WsServer WITH written <- writtenTo

(* The end of s was posted and is not told yet.                              *)
HasEnd(s) == \E job \in Job : HasJob(job) /\ job.kind = "disconnect" /\ job.s = s

WsTypes ==
  /\ LineTypes
  /\ mpNewSession \in Sessions /\ (accept # "waiting" => mpNewSession < MaxSessions)
  /\ accept \in {"waiting", "pushed", "connected", "announced", "started"}
  /\ mActiveSessions \subseteq Sessions /\ slotOwns \subseteq Sessions /\ announced \subseteq Sessions
  /\ pending \in [Sessions -> {"none", "handshake", "read"}]
  /\ peer \in [Sessions -> {"open", "closed", "failed"}] /\ sent \in [Sessions -> 0..MaxChunks]

(* Whatever lock() a handler of a session makes finds it: the server's list  *)
(* and the session's own slot hold it (Websockets/Session.cpp:53, 90).       *)
WsPendingIsOwned ==
  \A s \in Sessions : pending[s] # "none"
    => s \in mActiveSessions /\ s \in slotOwns /\ s \in announced /\ s \notin disconnected

WsAnnouncedFirst == \A s \in Sessions : s \in disconnected \/ taken[s] > 0 => s \in announced

WsOpenSessionsStay == \A s \in announced : peer[s] = "open" => s \in mActiveSessions

(* A session that still owns itself has an operation pending or its end on   *)
(* the way; a read error is the only thing that leaves it as it is.          *)
WsNeverAtRest ==
  \A s \in slotOwns : Started(s) => pending[s] # "none" \/ HasEnd(s) \/ peer[s] = "failed"

(* What makes these inductive: what OnAccept has not come to, and what a     *)
(* posted end means.                                                         *)
WsUnstarted ==
  \A s \in Sessions : ~ Started(s) =>
    /\ pending[s] = "none" /\ s \notin disconnected /\ taken[s] = 0
    /\ s \in announced => s = mpNewSession /\ accept = "announced"
    /\ s \in slotOwns => s = mpNewSession /\ accept \in {"connected", "announced"}

WsEndIsLast ==
  \A s \in Sessions : HasEnd(s)
    => pending[s] = "none" /\ Started(s) /\ s \in announced /\ peer[s] = "closed"

WsHandshakeFirst == \A s \in Sessions : pending[s] = "handshake" => taken[s] = 0

WsIInv ==
  /\ WsTypes /\ AcceptOwns /\ WsPendingIsOwned /\ WsAnnouncedFirst /\ WsOpenSessionsStay
  /\ WsNeverAtRest /\ WsUnstarted /\ WsEndIsLast /\ WsHandshakeFirst

LEMMA WsNames == W!Sessions = Sessions /\ W!Job = Job
BY DEF W!Sessions, W!Job, Sessions, Job

(* What each step does to the ends that are posted.                          *)
LEMMA PostEnds ==
  ASSUME LineTypes, NEW job \in Job, Post(job), UNCHANGED running, NEW u \in Sessions
  PROVE  HasEnd(u)' <=> HasEnd(u) \/ (job.kind = "disconnect" /\ job.s = u)
<1>1. /\ queue \in Seq(Job) /\ Len(queue) \in Nat /\ Len(queue') = Len(queue) + 1
      /\ queue'[Len(queue) + 1] = job
      /\ \A i \in 1..Len(queue) : queue'[i] = queue[i]
  BY DEF LineTypes, Post
<1>2. \A other \in Job : HasJob(other) => HasJob(other)'
  BY <1>1 DEF HasJob
<1>3. HasJob(job)'
  BY <1>1 DEF HasJob
<1>4. \A other \in Job : HasJob(other)' => HasJob(other) \/ other = job
  BY PostJobs
<1> QED
  BY <1>2, <1>3, <1>4 DEF HasEnd

LEMMA TakeEnds ==
  ASSUME LineTypes, NEW c \in CallbackThreads, Takes(c), NEW u \in Sessions
  PROVE  HasEnd(u)' <=> HasEnd(u)
<1>1. /\ queue \in Seq(Job) /\ queue # <<>> /\ Len(queue) \in Nat
      /\ Len(queue') = Len(queue) - 1 /\ Head(queue) = queue[1]
      /\ \A i \in 1..Len(queue') : queue'[i] = queue[i + 1]
      /\ running' = [running EXCEPT ![c] = queue[1]] /\ running[c] = Idle
      /\ running \in [CallbackThreads -> Job \cup {Idle}]
  BY DEF LineTypes, Takes
<1>2. ASSUME NEW other \in Job, HasJob(other) PROVE HasJob(other)'
  <2>1. CASE \E i \in 1..Len(queue) : queue[i] = other
    <3>1. PICK i \in 1..Len(queue) : queue[i] = other
      BY <2>1
    <3>2. CASE i = 1
      BY <1>1, <3>1, <3>2 DEF HasJob
    <3>3. CASE i # 1
      <4>1. i - 1 \in 1..Len(queue') /\ (i - 1) + 1 = i
        BY <1>1, <3>3
      <4>2. queue'[i - 1] = other
        BY <1>1, <3>1, <4>1
      <4> QED
        BY <4>1, <4>2 DEF HasJob
    <3> QED
      BY <3>2, <3>3
  <2>2. CASE \E d \in CallbackThreads : running[d] = other
    BY <1>1, <2>2, IdleAssumption DEF HasJob
  <2> QED
    BY <1>2, <2>1, <2>2 DEF HasJob
<1>3. \A other \in Job : HasJob(other)' => HasJob(other)
  BY TakeJobs
<1> QED
  BY <1>2, <1>3 DEF HasEnd

LEMMA FinishEnds ==
  ASSUME LineTypes, NEW c \in CallbackThreads, Finish(c), running[c] # Idle, NEW u \in Sessions
  PROVE  /\ HasEnd(u)' => HasEnd(u)
         /\ HasEnd(u) /\ ~ (running[c].kind = "disconnect" /\ running[c].s = u) => HasEnd(u)'
<1>1. \A other \in Job : HasJob(other)' => HasJob(other)
  BY FinishJobs
<1>2. running' = [running EXCEPT ![c] = Idle] /\ queue' = queue
      /\ running \in [CallbackThreads -> Job \cup {Idle}]
  BY DEF Finish, LineTypes
<1>3. \A other \in Job : HasJob(other) /\ other # running[c] => HasJob(other)'
  BY <1>2 DEF HasJob
<1> QED
  BY <1>1, <1>3 DEF HasEnd

LEMMA SameEnds == ASSUME UNCHANGED callbacks, NEW u PROVE HasEnd(u)' <=> HasEnd(u)
BY SameJobs DEF HasEnd

LEMMA WsTypeStep == WsTypes /\ [W!Next]_(W!vars) => WsTypes'
<1> SUFFICES ASSUME WsTypes, [W!Next]_(W!vars) PROVE WsTypes'
  OBVIOUS
<1> USE DEF WsTypes, LineTypes, W!server, W!reads, W!callbacks, W!network, W!user
<1>0. W!Sessions = Sessions
  BY WsNames
<1>1. CASE W!Accepted \/ W!AcceptFailed \/ W!AcceptNext
  <2>1. CASE W!Accepted \/ W!AcceptFailed \/ W!ConnectDisconnectSlot \/ W!EmitNewSession \/ W!StartSession
    BY <2>1 DEF W!Accepted, W!AcceptFailed, W!ConnectDisconnectSlot, W!EmitNewSession, W!StartSession,
         W!AcceptStep
  <2>2. CASE W!StartAccept
    <3>1. mpNewSession + 1 \in Sessions
      BY <2>2, ServerAssumption DEF W!StartAccept, W!AcceptStep, Sessions
    <3> QED
      BY <2>2, <3>1 DEF W!StartAccept, W!AcceptStep
  <2> QED
    BY <1>1, <2>1, <2>2 DEF W!AcceptNext
<1>2. ASSUME NEW s \in Sessions, W!OnAccept(s) \/ W!OnAcceptError(s) PROVE WsTypes'
  BY <1>2 DEF W!OnAccept, W!OnAcceptError, W!SignalOnDisconnect
<1>3. ASSUME NEW s \in Sessions, W!OnReadBytes(s) PROVE WsTypes'
  <2>1. taken[s] + 1 \in 0..MaxChunks
    BY <1>3, ServerAssumption DEF W!OnReadBytes
  <2>2. queue' \in Seq(Job)
    BY <1>3, <2>1, JobType DEF W!OnReadBytes, W!Post
  <2> QED
    BY <1>3, <2>1, <2>2 DEF W!OnReadBytes
<1>4. ASSUME NEW s \in Sessions, W!OnReadEnd(s) \/ W!OnWriteError(s) PROVE WsTypes'
  <2>1. \A kind \in {"disconnect", "readError", "writeError"} :
          [kind |-> kind, s |-> s, chunk |-> 0] \in Job
    BY JobType, ServerAssumption
  <2>2. \A job \in Job : Append(queue, job) \in Seq(Job)
    OBVIOUS
  <2>3. queue' \in Seq(Job)
    BY <1>4, <2>1, <2>2 DEF W!OnReadEnd, W!OnWriteError, W!Post
  <2>4. CASE W!OnReadEnd(s)
    <3>1. pending' \in [Sessions -> {"none", "handshake", "read"}]
      BY <2>4 DEF W!OnReadEnd
    <3>2. UNCHANGED <<mpNewSession, accept, mActiveSessions, slotOwns, announced, peer, sent, running, taken,
                      rx, disconnected>>
      BY <2>4 DEF W!OnReadEnd
    <3> QED
      BY <2>3, <3>1, <3>2
  <2>5. CASE W!OnWriteError(s)
    <3>1. UNCHANGED <<mpNewSession, accept, mActiveSessions, slotOwns, announced, peer, sent, running, taken,
                      rx, disconnected, pending>>
      BY <2>5 DEF W!OnWriteError
    <3> QED
      BY <2>3, <3>1
  <2> QED
    BY <1>4, <2>4, <2>5
<1>5. ASSUME NEW c \in CallbackThreads, W!TakeJob(c) PROVE WsTypes'
  <2>1. Head(queue) \in Job /\ Tail(queue) \in Seq(Job)
    BY <1>5 DEF W!TakeJob
  <2> QED
    BY <1>5, <2>1 DEF W!TakeJob
<1>6. ASSUME NEW c \in CallbackThreads, W!RunRx(c) PROVE WsTypes'
  <2>1. running[c].s \in Sessions /\ running[c].chunk \in 0..MaxChunks
    BY <1>6, JobType DEF W!RunRx, W!Runs
  <2>2. rx' \in [Sessions -> Seq(0..MaxChunks)]
    <3>1. Append(rx[running[c].s], running[c].chunk) \in Seq(0..MaxChunks)
      BY <2>1
    <3> QED
      BY <1>6, <2>1, <3>1 DEF W!RunRx
  <2> QED
    BY <1>6, <2>2 DEF W!RunRx, W!Runs
<1>7. ASSUME NEW c \in CallbackThreads, W!RunDisconnect(c) PROVE WsTypes'
  <2>1. running[c].s \in Sessions
    BY <1>7, JobType DEF W!RunDisconnect, W!Runs
  <2> QED
    BY <1>7, <2>1 DEF W!RunDisconnect, W!Runs, W!SignalOnDisconnect
<1>8. ASSUME NEW c \in CallbackThreads, W!RunError(c) PROVE WsTypes'
  BY <1>8 DEF W!RunError, W!Runs
<1>9. ASSUME NEW s \in Sessions, W!PeerSend(s) PROVE WsTypes'
  BY <1>9, ServerAssumption, SMTT(30) DEF W!PeerSend
<1>10. ASSUME NEW s \in Sessions, W!PeerEnd(s) PROVE WsTypes'
  BY <1>10 DEF W!PeerEnd
<1>11. ASSUME NEW s \in Sessions, W!QueueMessage(s) \/ W!OnWritten(s) PROVE WsTypes'
  BY <1>11 DEF W!QueueMessage, W!OnWritten
<1>12. CASE W!Write \/ W!Stop \/ UNCHANGED W!vars
  BY <1>12 DEF W!Write, W!Stop, W!vars
<1> QED
  BY <1>0, <1>1, <1>2, <1>3, <1>4, <1>5, <1>6, <1>7, <1>8, <1>9, <1>10, <1>11, <1>12
     DEF W!Next, W!ReadStep, W!Transmitted, W!CallbackStep

LEMMA UpToNext ==
  ASSUME NEW n \in Nat, NEW m \in 1..n PROVE \A s \in 1..n : s < m + 1 <=> s < m \/ s = m
OBVIOUS

(* Session by session, OnAccept owns it, announces it and starts its         *)
(* handshake, in this order (Websockets/Server.cpp:86-126).                  *)
LEMMA WsAcceptKeeps ==
  ASSUME WsIInv, WsTypes', W!Accepted \/ W!AcceptFailed \/ W!AcceptNext
  PROVE  WsIInv'
<1> USE DEF WsIInv, WsTypes, LineTypes, W!server, W!reads, W!callbacks, W!network, W!user, AcceptOwns
<1>1. UNCHANGED <<callbacks, taken, peer, disconnected, rx>>
  BY DEF W!Accepted, W!AcceptFailed, W!AcceptNext, W!ConnectDisconnectSlot, W!EmitNewSession,
         W!StartSession, W!StartAccept, callbacks
<1>2. \A s \in Sessions : HasEnd(s)' <=> HasEnd(s)
  BY <1>1, SameEnds
<1>3. mpNewSession \in 1..MaxSessions /\ MaxSessions \in Nat /\ mpNewSession + 1 \in Nat
  BY ServerAssumption DEF Sessions
<1>4. \A s \in Sessions : s < mpNewSession + 1 <=> s < mpNewSession \/ s = mpNewSession
  BY <1>3, UpToNext DEF Sessions
<1> USE DEF WsPendingIsOwned, WsAnnouncedFirst, WsOpenSessionsStay, WsNeverAtRest, WsUnstarted,
            WsEndIsLast, WsHandshakeFirst
<1>5. CASE W!Accepted
  <2>1. /\ accept = "waiting" /\ accept' = "pushed" /\ mActiveSessions' = mActiveSessions \cup {mpNewSession}
        /\ UNCHANGED <<mpNewSession, slotOwns, pending, announced>>
    BY <1>5 DEF W!Accepted, W!AcceptStep
  <2>2. \A s \in Sessions : Started(s)' <=> Started(s)
    BY <2>1 DEF Started
  <2> QED
    BY <1>1, <1>2, <2>1, <2>2
<1>6. CASE W!ConnectDisconnectSlot
  <2>1. /\ accept = "pushed" /\ accept' = "connected" /\ slotOwns' = slotOwns \cup {mpNewSession}
        /\ UNCHANGED <<mpNewSession, mActiveSessions, pending, announced>>
    BY <1>6 DEF W!ConnectDisconnectSlot, W!AcceptStep
  <2>2. (\A s \in Sessions : Started(s)' <=> Started(s)) /\ ~ Started(mpNewSession)
    BY <1>3, <2>1 DEF Started
  <2>3. AcceptOwns' /\ WsPendingIsOwned' /\ WsAnnouncedFirst' /\ WsOpenSessionsStay' /\ WsHandshakeFirst'
    BY <1>1, <2>1
  <2>4. WsNeverAtRest' /\ WsEndIsLast'
    BY <1>1, <1>2, <2>1, <2>2
  <2>5. WsUnstarted'
    BY <1>1, <2>1, <2>2
  <2> QED
    BY <2>3, <2>4, <2>5
<1>7. CASE W!EmitNewSession
  <2>1. /\ accept = "connected" /\ accept' = "announced" /\ announced' = announced \cup {mpNewSession}
        /\ UNCHANGED <<mpNewSession, mActiveSessions, pending, slotOwns>>
    BY <1>7 DEF W!EmitNewSession, W!AcceptStep
  <2>2. \A s \in Sessions : Started(s)' <=> Started(s)
    BY <2>1 DEF Started
  <2> QED
    BY <1>1, <1>2, <2>1, <2>2
<1>8. CASE W!StartSession
  <2>1. /\ accept = "announced" /\ accept' = "started"
        /\ pending' = [pending EXCEPT ![mpNewSession] = "handshake"]
        /\ UNCHANGED <<mpNewSession, mActiveSessions, slotOwns, announced>>
    BY <1>8 DEF W!StartSession, W!AcceptStep
  <2>2. /\ \A s \in Sessions : Started(s)' <=> Started(s) \/ s = mpNewSession
        /\ ~ Started(mpNewSession)
    BY <1>3, <2>1 DEF Started
  <2>3. pending'[mpNewSession] = "handshake" /\ \A s \in Sessions : s # mpNewSession => pending'[s] = pending[s]
    BY <2>1
  <2>4. ~ HasEnd(mpNewSession) /\ mpNewSession \notin disconnected /\ taken[mpNewSession] = 0
    BY <2>2
  <2>5. AcceptOwns' /\ WsAnnouncedFirst' /\ WsOpenSessionsStay'
    BY <1>1, <2>1
  <2>6. WsPendingIsOwned' /\ WsHandshakeFirst'
    BY <1>1, <2>1, <2>3, <2>4
  <2>7. WsNeverAtRest' /\ WsEndIsLast'
    BY <1>1, <1>2, <2>1, <2>2, <2>3, <2>4
  <2>8. WsUnstarted'
    BY <1>1, <2>1, <2>2, <2>3
  <2> QED
    BY <2>5, <2>6, <2>7, <2>8
<1>9. CASE W!AcceptFailed
  <2>1. /\ accept = "waiting" /\ accept' = "started"
        /\ UNCHANGED <<mpNewSession, mActiveSessions, slotOwns, announced, pending>>
    BY <1>9 DEF W!AcceptFailed, W!AcceptStep
  <2>2. /\ \A s \in Sessions : Started(s)' <=> Started(s) \/ s = mpNewSession
        /\ ~ Started(mpNewSession)
    BY <1>3, <2>1 DEF Started
  <2>3. mpNewSession \notin slotOwns
    BY <2>1, <2>2
  <2> QED
    BY <1>1, <1>2, <2>1, <2>2, <2>3
<1>10. CASE W!StartAccept
  <2>1. /\ accept = "started" /\ accept' = "waiting" /\ mpNewSession' = mpNewSession + 1
        /\ UNCHANGED <<mActiveSessions, slotOwns, announced, pending>>
    BY <1>10 DEF W!StartAccept, W!AcceptStep
  <2>2. \A s \in Sessions : Started(s)' <=> Started(s)
    BY <1>4, <2>1, Zenon DEF Started
  <2>3. \A s \in Sessions : ~ Started(s) => s \notin announced /\ s \notin slotOwns
    BY <2>1
  <2>4. AcceptOwns' /\ WsPendingIsOwned' /\ WsAnnouncedFirst' /\ WsOpenSessionsStay' /\ WsHandshakeFirst'
    BY <1>1, <2>1
  <2>5. WsNeverAtRest' /\ WsEndIsLast'
    BY <1>1, <1>2, <2>1, <2>2
  <2>6. WsUnstarted'
    BY <1>1, <2>1, <2>2, <2>3
  <2> QED
    BY <2>4, <2>5, <2>6
<1> QED
  BY <1>5, <1>6, <1>7, <1>8, <1>9, <1>10 DEF W!AcceptNext

(* All of this is about one session at a time, so that a step of one session *)
(* keeps it if it keeps what that session has.                               *)
WsOf(s) ==
  /\ pending[s] # "none" => s \in mActiveSessions /\ s \in slotOwns /\ s \in announced /\ s \notin disconnected
  /\ s \in disconnected \/ taken[s] > 0 => s \in announced
  /\ s \in announced /\ peer[s] = "open" => s \in mActiveSessions
  /\ s \in slotOwns /\ Started(s) => pending[s] # "none" \/ HasEnd(s) \/ peer[s] = "failed"
  /\ ~ Started(s) => /\ pending[s] = "none" /\ s \notin disconnected /\ taken[s] = 0
                     /\ s \in announced => s = mpNewSession /\ accept = "announced"
                     /\ s \in slotOwns => s = mpNewSession /\ accept \in {"connected", "announced"}
  /\ HasEnd(s) => pending[s] = "none" /\ Started(s) /\ s \in announced /\ peer[s] = "closed"
  /\ pending[s] = "handshake" => taken[s] = 0

LEMMA WsOfEach == ASSUME WsIInv, NEW s \in Sessions PROVE WsOf(s)
BY DEF WsIInv, WsTypes, WsOf, WsPendingIsOwned, WsAnnouncedFirst, WsOpenSessionsStay, WsNeverAtRest,
       WsUnstarted, WsEndIsLast, WsHandshakeFirst

LEMMA WsLocal ==
  ASSUME WsIInv, WsTypes', NEW s \in Sessions, UNCHANGED <<mpNewSession, accept, announced>>,
         \A u \in Sessions : u # s =>
           /\ UNCHANGED <<pending[u], taken[u], peer[u]>> /\ (HasEnd(u)' <=> HasEnd(u))
           /\ (u \in mActiveSessions' <=> u \in mActiveSessions) /\ (u \in slotOwns' <=> u \in slotOwns)
           /\ (u \in disconnected' <=> u \in disconnected),
         mpNewSession # s \/ accept \in {"waiting", "started"}, WsOf(s)'
  PROVE  WsIInv'
<1>1. mpNewSession \in Sessions /\ announced \subseteq Sessions /\ slotOwns' \subseteq Sessions
  BY DEF WsIInv, WsTypes
<1>2. AcceptOwns'
  BY <1>1 DEF WsIInv, AcceptOwns
<1>3. ASSUME NEW u \in Sessions PROVE WsOf(u)'
  <2>1. CASE u # s
    <3>1. WsOf(u) /\ (Started(u)' <=> Started(u))
      BY WsOfEach DEF Started
    <3> QED
      BY <2>1, <3>1 DEF WsOf
  <2> QED
    BY <2>1
<1>4. WsPendingIsOwned' /\ WsAnnouncedFirst' /\ WsHandshakeFirst'
  BY <1>3 DEF WsOf, WsPendingIsOwned, WsAnnouncedFirst, WsHandshakeFirst
<1>5. WsOpenSessionsStay' /\ WsNeverAtRest'
  BY <1>1, <1>3 DEF WsOf, WsOpenSessionsStay, WsNeverAtRest
<1>6. WsUnstarted' /\ WsEndIsLast'
  BY <1>3 DEF WsOf, WsUnstarted, WsEndIsLast
<1> QED
  BY <1>2, <1>4, <1>5, <1>6 DEF WsIInv

(* The handshake is followed by a read and a read by the next, or the end is *)
(* posted; a handshake that fails tells it itself (Websockets/Session.cpp    *)
(* 51-132).                                                                  *)
LEMMA WsReadKeeps ==
  ASSUME WsIInv, WsTypes', NEW s \in Sessions, W!ReadStep(s)
  PROVE  WsIInv'
<1>0. /\ LineTypes /\ pending \in [Sessions -> {"none", "handshake", "read"}]
      /\ taken \in [Sessions -> 0..MaxChunks] /\ taken' \in [Sessions -> 0..MaxChunks]
  BY DEF WsIInv, WsTypes, LineTypes
<1>1. UNCHANGED <<mpNewSession, accept, announced, peer, running>>
  BY DEF W!ReadStep, W!OnAccept, W!OnAcceptError, W!OnReadBytes, W!OnReadEnd, W!server, W!user, W!network,
         W!callbacks
<1>2. Started(s)' <=> Started(s)
  BY <1>1 DEF Started
<1>3. pending[s] # "none" /\ WsOf(s)
  BY WsOfEach DEF W!ReadStep, W!OnAccept, W!OnAcceptError, W!OnReadBytes, W!OnReadEnd
<1>4. /\ s \in mActiveSessions /\ s \in slotOwns /\ s \in announced /\ s \notin disconnected /\ Started(s)
      /\ ~ HasEnd(s)
  BY <1>3 DEF WsOf
<1>5. mpNewSession # s \/ accept \in {"waiting", "started"}
  <2>1. ~ (s < s)
    BY DEF Sessions
  <2> QED
    BY <1>4, <2>1 DEF Started
<1>6. CASE W!OnAccept(s)
  <2>1. /\ pending' = [pending EXCEPT ![s] = "read"]
        /\ UNCHANGED <<mActiveSessions, slotOwns, disconnected, taken, callbacks>>
    BY <1>6 DEF W!OnAccept, W!server, W!user, W!callbacks, callbacks
  <2>2. pending'[s] = "read" /\ \A u \in Sessions : u # s => pending'[u] = pending[u]
    BY <1>0, <2>1
  <2>3. \A u \in Sessions : HasEnd(u)' <=> HasEnd(u)
    BY <2>1, SameEnds
  <2>4. WsOf(s)'
    BY <1>1, <1>2, <1>3, <1>4, <2>1, <2>2, <2>3 DEF WsOf
  <2> QED
    BY <1>1, <1>5, <2>1, <2>2, <2>3, <2>4, WsLocal
<1>7. CASE W!OnAcceptError(s)
  <2>1. /\ pending' = [pending EXCEPT ![s] = "none"] /\ peer[s] # "open"
        /\ mActiveSessions' = mActiveSessions \ {s} /\ slotOwns' = slotOwns \ {s}
        /\ disconnected' = disconnected \cup {s} /\ UNCHANGED <<taken, callbacks>>
    BY <1>7 DEF W!OnAcceptError, W!SignalOnDisconnect, W!callbacks, callbacks
  <2>2. pending'[s] = "none" /\ \A u \in Sessions : u # s => pending'[u] = pending[u]
    BY <1>0, <2>1
  <2>3. \A u \in Sessions : HasEnd(u)' <=> HasEnd(u)
    BY <2>1, SameEnds
  <2>4. WsOf(s)'
    BY <1>1, <1>2, <1>3, <1>4, <2>1, <2>2, <2>3 DEF WsOf
  <2>5. \A u \in Sessions : u # s =>
           /\ (u \in mActiveSessions' <=> u \in mActiveSessions) /\ (u \in slotOwns' <=> u \in slotOwns)
           /\ (u \in disconnected' <=> u \in disconnected)
    BY <2>1
  <2> QED
    BY <1>1, <1>5, <2>1, <2>2, <2>3, <2>4, <2>5, WsLocal
<1>8. CASE W!OnReadBytes(s)
  <2> DEFINE bytes == [kind |-> "rx", s |-> s, chunk |-> taken[s] + 1]
  <2>1. /\ taken' = [taken EXCEPT ![s] = @ + 1] /\ Post(bytes) /\ pending[s] = "read"
        /\ UNCHANGED <<mActiveSessions, slotOwns, disconnected, pending>>
    BY <1>8 DEF W!OnReadBytes, W!Post, Post, W!server, W!user
  <2>2. bytes \in Job /\ bytes.kind = "rx"
    <3>1. taken'[s] = taken[s] + 1 /\ taken'[s] \in 0..MaxChunks
      BY <1>0, <2>1
    <3> QED
      BY <3>1, JobType
  <2>3. \A u \in Sessions : u # s => taken'[u] = taken[u]
    BY <1>0, <2>1
  <2> HIDE DEF bytes
  <2>4. \A u \in Sessions : HasEnd(u)' <=> HasEnd(u)
    BY <1>0, <1>1, <2>1, <2>2, PostEnds
  <2>5. WsOf(s)'
    BY <1>1, <1>2, <1>3, <1>4, <2>1, <2>4 DEF WsOf
  <2> QED
    BY <1>1, <1>5, <2>1, <2>3, <2>4, <2>5, WsLocal
<1>9. CASE W!OnReadEnd(s)
  <2> DEFINE end == [kind |-> "disconnect", s |-> s, chunk |-> 0]
             error == [kind |-> "readError", s |-> s, chunk |-> 0]
  <2>1. /\ pending' = [pending EXCEPT ![s] = "none"]
        /\ UNCHANGED <<mActiveSessions, slotOwns, disconnected, taken>>
        /\ (peer[s] = "closed" /\ Post(end)) \/ (peer[s] = "failed" /\ Post(error))
    BY <1>9 DEF W!OnReadEnd, W!Post, Post, W!server, W!user
  <2>2. end \in Job /\ error \in Job /\ end.kind = "disconnect" /\ end.s = s /\ error.kind = "readError"
    BY JobType, ServerAssumption
  <2>3. pending'[s] = "none" /\ \A u \in Sessions : u # s => pending'[u] = pending[u]
    BY <1>0, <2>1
  <2> HIDE DEF end, error
  <2>4. /\ \A u \in Sessions : u # s => (HasEnd(u)' <=> HasEnd(u))
        /\ (peer[s] = "closed" /\ HasEnd(s)') \/ (peer[s] = "failed" /\ ~ HasEnd(s)')
    <3>1. CASE peer[s] = "closed" /\ Post(end)
      <4>1. \A u \in Sessions : HasEnd(u)' <=> HasEnd(u) \/ u = s
        BY <1>0, <1>1, <2>2, <3>1, PostEnds
      <4> QED
        BY <3>1, <4>1
    <3>2. CASE peer[s] = "failed" /\ Post(error)
      <4>1. \A u \in Sessions : HasEnd(u)' <=> HasEnd(u)
        BY <1>0, <1>1, <2>2, <3>2, PostEnds
      <4> QED
        BY <1>4, <3>2, <4>1
    <3> QED
      BY <2>1, <3>1, <3>2
  <2>5. WsOf(s)'
    BY <1>1, <1>2, <1>3, <1>4, <2>1, <2>3, <2>4 DEF WsOf
  <2> QED
    BY <1>1, <1>5, <2>1, <2>3, <2>4, <2>5, WsLocal
<1> QED
  BY <1>6, <1>7, <1>8, <1>9 DEF W!ReadStep

LEMMA WsSame ==
  ASSUME WsIInv, WsTypes', UNCHANGED <<mpNewSession, accept, announced, peer, pending, taken>>,
         UNCHANGED <<mActiveSessions, slotOwns, disconnected>>,
         \A u \in Sessions : (Started(u)' <=> Started(u)) /\ (HasEnd(u)' <=> HasEnd(u))
  PROVE  WsIInv'
BY DEF WsIInv, WsTypes, AcceptOwns, WsPendingIsOwned, WsAnnouncedFirst, WsOpenSessionsStay, WsNeverAtRest,
       WsUnstarted, WsEndIsLast, WsHandshakeFirst

(* The end of a session is told once nothing is pending, and only to who     *)
(* still holds it (Websockets/Session.cpp:112-119).                          *)
LEMMA WsCallbackKeeps ==
  ASSUME WsIInv, WsTypes', NEW c \in CallbackThreads, W!CallbackStep(c)
  PROVE  WsIInv'
<1>0. LineTypes /\ UNCHANGED <<mpNewSession, accept, announced, peer, pending, taken>>
  BY DEF WsIInv, WsTypes, W!CallbackStep, W!TakeJob, W!RunRx, W!RunDisconnect, W!RunError, W!server, W!reads,
         W!network, W!user
<1>2. \A u \in Sessions : Started(u)' <=> Started(u)
  BY <1>0 DEF Started
<1>3. CASE W!TakeJob(c) \/ W!RunRx(c) \/ W!RunError(c)
  <2>1. UNCHANGED <<mActiveSessions, slotOwns, disconnected>>
    BY <1>3 DEF W!TakeJob, W!RunRx, W!RunError, W!server, W!user
  <2>2. \A u \in Sessions : HasEnd(u)' <=> HasEnd(u)
    <3>1. CASE W!TakeJob(c)
      BY <1>0, <3>1, TakeEnds DEF W!TakeJob, Takes
    <3>2. CASE W!RunRx(c) \/ W!RunError(c)
      <4>1. running[c] # Idle /\ running[c].kind # "disconnect" /\ Finish(c)
        BY <3>2 DEF W!RunRx, W!RunError, W!Runs, Finish
      <4> QED
        BY <1>0, <4>1, FinishEnds
    <3> QED
      BY <1>3, <3>1, <3>2
  <2> QED
    BY <1>0, <1>2, <2>1, <2>2, WsSame
<1>4. CASE W!RunDisconnect(c)
  <2>0. PICK s : s = running[c].s
    OBVIOUS
  <2>1. running[c] # Idle /\ running[c].kind = "disconnect" /\ Finish(c)
    BY <1>4 DEF W!RunDisconnect, W!Runs, Finish
  <2>2. s \in Sessions /\ HasEnd(s)
    <3>1. running[c] \in Job
      BY <1>0, <2>1 DEF LineTypes
    <3> QED
      BY <2>0, <2>1, <3>1, JobType DEF HasEnd, HasJob
  <2>3. \A u \in Sessions : (HasEnd(u)' => HasEnd(u)) /\ (HasEnd(u) /\ u # s => HasEnd(u)')
    BY <1>0, <2>0, <2>1, FinishEnds
  <2>4. \/ /\ mActiveSessions' = mActiveSessions \ {s} /\ slotOwns' = slotOwns \ {s}
           /\ disconnected' = disconnected \cup {s}
        \/ UNCHANGED <<mActiveSessions, slotOwns, disconnected>> /\ s \notin slotOwns
    BY <1>4, <2>0 DEF W!RunDisconnect, W!SignalOnDisconnect, W!Alive
  <2>5. /\ \A u \in Sessions : u # s =>
             /\ (u \in mActiveSessions' <=> u \in mActiveSessions) /\ (u \in slotOwns' <=> u \in slotOwns)
             /\ (u \in disconnected' <=> u \in disconnected)
        /\ s \notin slotOwns' /\ (s \in disconnected' => s \in disconnected \/ HasEnd(s))
    BY <2>2, <2>4
  <2>6. WsOf(s) /\ pending[s] = "none" /\ Started(s) /\ s \in announced /\ peer[s] = "closed"
    BY <2>2, WsOfEach DEF WsOf
  <2>7. mpNewSession # s \/ accept \in {"waiting", "started"}
    <3>1. ~ (s < s)
      BY <2>2 DEF Sessions
    <3> QED
      BY <2>6, <3>1 DEF Started
  <2>8. WsOf(s)'
    BY <1>0, <1>2, <2>2, <2>3, <2>5, <2>6 DEF WsOf
  <2> QED
    BY <1>0, <2>2, <2>3, <2>5, <2>7, <2>8, WsLocal
<1> QED
  BY <1>3, <1>4 DEF W!CallbackStep

(* Broadcasts, the peers and the destructor take nothing from a session.     *)
LEMMA WsOthersKeep ==
  ASSUME WsIInv, WsTypes',
         \/ W!Write \/ W!Stop \/ UNCHANGED W!vars
         \/ \E s \in Sessions : W!QueueMessage(s) \/ W!Transmitted(s) \/ W!PeerSend(s) \/ W!PeerEnd(s)
  PROVE  WsIInv'
<1>0. LineTypes
  BY DEF WsIInv, WsTypes
<1>1. UNCHANGED <<mpNewSession, accept, mActiveSessions, slotOwns, pending, taken, announced, disconnected, running>>
  BY DEF W!Write, W!Stop, W!vars, W!QueueMessage, W!Transmitted, W!OnWritten, W!OnWriteError, W!PeerSend,
         W!PeerEnd, W!server, W!reads, W!user, W!callbacks
<1>2. \A u \in Sessions : Started(u)' <=> Started(u)
  BY <1>1 DEF Started
<1>3. /\ \A u \in Sessions : peer[u] # "open" => peer'[u] = peer[u]
      /\ \A u \in Sessions : peer'[u] = "open" => peer[u] = "open"
  <2>1. UNCHANGED peer \/ \E s \in Sessions : W!PeerEnd(s)
    BY DEF W!Write, W!Stop, W!vars, W!QueueMessage, W!Transmitted, W!OnWritten, W!OnWriteError, W!PeerSend,
           W!network
  <2>2. ASSUME NEW s \in Sessions, W!PeerEnd(s)
        PROVE  /\ \A u \in Sessions : peer[u] # "open" => peer'[u] = peer[u]
               /\ \A u \in Sessions : peer'[u] = "open" => peer[u] = "open"
    BY <2>2 DEF W!PeerEnd, WsIInv, WsTypes
  <2> QED
    BY <2>1, <2>2
<1>4. \A u \in Sessions : HasEnd(u)' <=> HasEnd(u)
  <2>1. UNCHANGED callbacks \/ \E s \in Sessions : W!OnWriteError(s)
    BY DEF W!Write, W!Stop, W!vars, W!QueueMessage, W!Transmitted, W!OnWritten, W!PeerSend, W!PeerEnd,
           W!callbacks, callbacks
  <2>2. ASSUME NEW s \in Sessions, W!OnWriteError(s) PROVE \A u \in Sessions : HasEnd(u)' <=> HasEnd(u)
    <3> DEFINE error == [kind |-> "writeError", s |-> s, chunk |-> 0]
    <3>1. error \in Job /\ error.kind = "writeError" /\ Post(error)
      BY <2>2, JobType, ServerAssumption DEF W!OnWriteError, W!Post, Post
    <3> HIDE DEF error
    <3> QED
      BY <1>0, <1>1, <3>1, PostEnds
  <2> QED
    BY <2>1, <2>2, SameEnds
<1> QED
  BY <1>1, <1>2, <1>3, <1>4 DEF WsIInv, WsTypes, AcceptOwns, WsPendingIsOwned, WsAnnouncedFirst,
     WsOpenSessionsStay, WsNeverAtRest, WsUnstarted, WsEndIsLast, WsHandshakeFirst

LEMMA WsInit == W!Init => WsIInv
<1> SUFFICES ASSUME W!Init PROVE WsIInv
  OBVIOUS
<1>1. 1 \in Sessions /\ 0 \in 0..MaxChunks /\ W!Sessions = Sessions
  BY ServerAssumption, WsNames DEF Sessions
<1>2. <<>> \in Seq(Job) /\ <<>> \in Seq(0..MaxChunks)
  OBVIOUS
<1>3. WsTypes
  BY <1>1, <1>2 DEF W!Init, W!Each, WsTypes, LineTypes
<1>4. \A s \in Sessions : ~ HasEnd(s)
  BY IdleAssumption DEF W!Init, HasJob, HasEnd
<1>5. \A s \in Sessions : pending[s] = "none" /\ taken[s] = 0
  BY <1>1 DEF W!Init, W!Each
<1> QED
  BY <1>3, <1>4, <1>5 DEF W!Init, WsIInv, AcceptOwns, WsPendingIsOwned, WsAnnouncedFirst,
     WsOpenSessionsStay, WsNeverAtRest, WsUnstarted, WsEndIsLast, WsHandshakeFirst

LEMMA WsStep == WsIInv /\ [W!Next]_(W!vars) => WsIInv'
<1> SUFFICES ASSUME WsIInv, [W!Next]_(W!vars) PROVE WsIInv'
  OBVIOUS
<1>1. WsTypes' /\ W!Sessions = Sessions
  BY WsTypeStep, WsNames DEF WsIInv
<1> QED
  BY <1>1, WsAcceptKeeps, WsReadKeeps, WsCallbackKeeps, WsOthersKeep DEF W!Next

LEMMA WsAlways == W!Spec => []WsIInv
BY WsInit, WsStep, PTL DEF W!Spec

(* A handler of ws::Session locks a weak_ptr and drops what it has if that   *)
(* fails: it never does, since the server's list and the session's own slot  *)
(* hold every session that has an operation pending, for any number of       *)
(* sessions and threads (Websockets/Session.cpp:44-132, Server.cpp:92-113).  *)
THEOREM WsHandlersFindTheirSession == W!Spec => []WsPendingIsOwned
<1>1. WsIInv => WsPendingIsOwned
  BY DEF WsIInv
<1> QED
  BY <1>1, WsAlways, PTL

(* A session of ws::Server is announced before anything it read or its end,  *)
(* that of a failed handshake included, is told (Websockets/Server.cpp:97,   *)
(* 115; Session.cpp:51-69).                                                  *)
THEOREM WsSessionsAreAnnouncedFirst == W!Spec => []WsAnnouncedFirst
<1>1. WsIInv => WsAnnouncedFirst
  BY DEF WsIInv
<1> QED
  BY <1>1, WsAlways, PTL

(* A broadcast misses no announced session whose connection is open, whether *)
(* its handshake is done or not (Websockets/Server.cpp:92, 98-113, 130-138). *)
THEOREM WsBroadcastsMissNone == W!Spec => []WsOpenSessionsStay
<1>1. WsIInv => WsOpenSessionsStay
  BY DEF WsIInv
<1> QED
  BY <1>1, WsAlways, PTL

(* The slot that owns its own session is always going to be called: there is *)
(* an operation pending or the end on its way, unless a read failed, which   *)
(* the code only reports, so that the session stays in the server for good   *)
(* (Websockets/Server.cpp:97-113, Session.cpp:107-132).                      *)
THEOREM WsSessionsAreLetGo == W!Spec => []WsNeverAtRest
<1>1. WsIInv => WsNeverAtRest
  BY DEF WsIInv
<1> QED
  BY <1>1, WsAlways, PTL

-----------------------------------------------------------------------------
(* Its write side, message by message.                                       *)
WsWriteTypes ==
  /\ posted \in [Sessions -> Nat] /\ mWriteQueue \in [Sessions -> Nat]
  /\ mIsSending \in [Sessions -> BOOLEAN] /\ transmit \in [Sessions -> {"none", "on", "early"}]
  /\ writtenTo \in [Sessions -> Nat] /\ wire \in [Sessions -> Nat]
  /\ open \subseteq Sessions /\ early \subseteq Sessions

Underway(s) == IF mIsSending[s] THEN 1 ELSE 0

(* Each message broadcast to a session is on its way to the strand, queued,  *)
(* under way, or transmitted, and none is queued while nothing is under way  *)
(* (Websockets/Session.cpp:136-198).                                         *)
WsAccounted ==
  \A s \in Sessions :
    /\ writtenTo[s] = posted[s] + mWriteQueue[s] + Underway(s) + wire[s]
    /\ ~ mIsSending[s] => mWriteQueue[s] = 0 /\ transmit[s] = "none"

(* A session that was to transmit before its handshake was done keeps its    *)
(* mIsSending and never transmits anything (Websockets/Session.cpp:168).     *)
WsMute ==
  \A s \in Sessions :
    /\ s \in early => wire[s] = 0 /\ mIsSending[s] /\ transmit[s] # "on"
    /\ s \notin open => wire[s] = 0 /\ transmit[s] # "on"
    /\ transmit[s] = "early" => s \in early

WsWritesIInv == WsWriteTypes /\ WsAccounted /\ WsMute

LEMMA WsWritesInit == W!Init => WsWritesIInv
<1> SUFFICES ASSUME W!Init PROVE WsWritesIInv
  OBVIOUS
<1>1. W!Sessions = Sessions
  BY WsNames
<1> QED
  BY <1>1 DEF W!Init, W!Each, WsWritesIInv, WsWriteTypes, WsAccounted, WsMute, Underway

(* A step of the write side of one session.                                  *)
WsWritesOf(s) ==
  /\ writtenTo[s] = posted[s] + mWriteQueue[s] + Underway(s) + wire[s]
  /\ ~ mIsSending[s] => mWriteQueue[s] = 0 /\ transmit[s] = "none"
  /\ s \in early => wire[s] = 0 /\ mIsSending[s] /\ transmit[s] # "on"
  /\ s \notin open => wire[s] = 0 /\ transmit[s] # "on"
  /\ transmit[s] = "early" => s \in early

LEMMA WsWritesEach == WsAccounted /\ WsMute <=> \A s \in Sessions : WsWritesOf(s)
BY DEF WsAccounted, WsMute, WsWritesOf

LEMMA WsWritesLocal ==
  ASSUME WsWritesIInv, WsWriteTypes', NEW s \in Sessions,
         \A u \in Sessions : u # s =>
           /\ UNCHANGED <<posted[u], mWriteQueue[u], mIsSending[u], transmit[u], writtenTo[u], wire[u]>>
           /\ (u \in open' <=> u \in open) /\ (u \in early' <=> u \in early),
         WsWritesOf(s)'
  PROVE  WsWritesIInv'
<1>1. ASSUME NEW u \in Sessions PROVE WsWritesOf(u)'
  <2>1. CASE u # s
    <3>1. WsWritesOf(u)
      BY WsWritesEach DEF WsWritesIInv
    <3> QED
      BY <2>1, <3>1 DEF WsWritesOf, Underway
  <2> QED
    BY <2>1
<1> QED
  BY <1>1 DEF WsWritesIInv, WsAccounted, WsMute, WsWritesOf

(* What AsyncWrite makes of a queue and a flag.                              *)
LEMMA AsyncWriteMakes ==
  ASSUME WsWriteTypes, NEW s \in Sessions, NEW queued \in Nat, NEW sending \in BOOLEAN,
         W!AsyncWrite(s, queued, sending)
  PROVE  /\ mWriteQueue' \in [Sessions -> Nat] /\ mIsSending' \in [Sessions -> BOOLEAN]
         /\ transmit' \in [Sessions -> {"none", "on", "early"}] /\ early' \subseteq Sessions
         /\ \A u \in Sessions : u # s =>
              /\ UNCHANGED <<mWriteQueue[u], mIsSending[u], transmit[u]>> /\ (u \in early' <=> u \in early)
         /\ \/ /\ queued > 0 /\ ~ sending /\ mWriteQueue'[s] = queued - 1 /\ mIsSending'[s]
               /\ s \in open => transmit'[s] = "on" /\ (s \in early' <=> s \in early)
               /\ s \notin open => transmit'[s] = "early" /\ s \in early'
            \/ /\ queued = 0 \/ sending
               /\ mWriteQueue'[s] = queued /\ mIsSending'[s] = sending /\ (s \in early' <=> s \in early)
               /\ transmit'[s] = IF sending THEN transmit[s] ELSE "none"
<1> USE DEF WsWriteTypes
<1>1. CASE queued > 0 /\ ~ sending
  <2>1. /\ mWriteQueue' = [mWriteQueue EXCEPT ![s] = queued - 1]
        /\ mIsSending' = [mIsSending EXCEPT ![s] = TRUE]
        /\ transmit' = [transmit EXCEPT ![s] = IF s \in open THEN "on" ELSE "early"]
        /\ early' = IF s \in open THEN early ELSE early \cup {s}
    BY <1>1 DEF W!AsyncWrite
  <2>2. queued - 1 \in Nat
    BY <1>1
  <2>3. mWriteQueue' \in [Sessions -> Nat] /\ transmit' \in [Sessions -> {"none", "on", "early"}] /\ early' \subseteq Sessions
    BY <2>1, <2>2
  <2>4. mIsSending' \in [Sessions -> BOOLEAN] /\ mIsSending'[s]
    BY <2>1
  <2>5. \A u \in Sessions : u # s =>
          UNCHANGED <<mWriteQueue[u], mIsSending[u], transmit[u]>> /\ (u \in early' <=> u \in early)
    BY <2>1
  <2>6. /\ mWriteQueue'[s] = queued - 1
        /\ s \in open => transmit'[s] = "on" /\ (s \in early' <=> s \in early)
        /\ s \notin open => transmit'[s] = "early" /\ s \in early'
    BY <2>1
  <2> QED
    BY <1>1, <2>3, <2>4, <2>5, <2>6
<1>2. CASE ~ (queued > 0 /\ ~ sending)
  <2>1. /\ mWriteQueue' = [mWriteQueue EXCEPT ![s] = queued]
        /\ mIsSending' = [mIsSending EXCEPT ![s] = sending]
        /\ transmit' = [transmit EXCEPT ![s] = IF sending THEN @ ELSE "none"]
        /\ early' = early
    BY <1>2 DEF W!AsyncWrite
  <2>2. queued = 0 \/ sending
    BY <1>2
  <2>3. mWriteQueue' \in [Sessions -> Nat] /\ transmit' \in [Sessions -> {"none", "on", "early"}]
    BY <2>1
  <2>4. mIsSending' \in [Sessions -> BOOLEAN] /\ mIsSending'[s] = sending
    BY <2>1
  <2>5. \A u \in Sessions : u # s => UNCHANGED <<mWriteQueue[u], mIsSending[u], transmit[u]>>
    BY <2>1
  <2>6. mWriteQueue'[s] = queued /\ transmit'[s] = IF sending THEN transmit[s] ELSE "none"
    BY <2>1
  <2> QED
    BY <2>1, <2>2, <2>3, <2>4, <2>5, <2>6
<1> QED
  BY <1>1, <1>2

LEMMA WsWritesStep == WsWritesIInv /\ [W!Next]_(W!vars) => WsWritesIInv'
<1> SUFFICES ASSUME WsWritesIInv, [W!Next]_(W!vars) PROVE WsWritesIInv'
  OBVIOUS
<1>0. WsWriteTypes /\ W!Sessions = Sessions /\ \A u \in Sessions : WsWritesOf(u)
  BY WsNames, WsWritesEach DEF WsWritesIInv
<1>1. CASE UNCHANGED <<W!writes, open>>
  BY <1>1 DEF WsWritesIInv, WsWriteTypes, WsAccounted, WsMute, Underway, W!writes
<1>2. ASSUME NEW s \in Sessions, W!OnAccept(s) PROVE WsWritesIInv'
  <2>1. open' = open \cup {s} /\ UNCHANGED W!writes
    BY <1>2 DEF W!OnAccept
  <2> QED
    BY <2>1 DEF WsWritesIInv, WsWriteTypes, WsAccounted, WsMute, Underway, W!writes
<1>3. CASE W!Write
  <2>1. /\ posted' = [s \in Sessions |-> IF s \in mActiveSessions THEN posted[s] + 1 ELSE posted[s]]
        /\ writtenTo' = [s \in Sessions |-> IF s \in mActiveSessions THEN writtenTo[s] + 1 ELSE writtenTo[s]]
        /\ UNCHANGED <<mWriteQueue, mIsSending, transmit, wire, early, open>>
    BY <1>0, <1>3 DEF W!Write, W!reads
  <2>2. WsWriteTypes'
    BY <1>0, <2>1 DEF WsWriteTypes
  <2>3. ASSUME NEW u \in Sessions PROVE WsWritesOf(u)'
    <3>1. /\ posted[u] \in Nat /\ writtenTo[u] \in Nat /\ mWriteQueue[u] \in Nat /\ wire[u] \in Nat
          /\ Underway(u) \in Nat /\ Underway(u)' = Underway(u)
      BY <1>0, <2>1 DEF WsWriteTypes, Underway
    <3>2. \/ posted'[u] = posted[u] + 1 /\ writtenTo'[u] = writtenTo[u] + 1
          \/ posted'[u] = posted[u] /\ writtenTo'[u] = writtenTo[u]
      BY <2>1
    <3>3. writtenTo[u] = posted[u] + mWriteQueue[u] + Underway(u) + wire[u]
      BY <1>0 DEF WsWritesOf
    <3>4. writtenTo'[u] = posted'[u] + mWriteQueue[u] + Underway(u) + wire[u]
      BY <3>1, <3>2, <3>3
    <3> QED
      BY <1>0, <2>1, <3>1, <3>4 DEF WsWritesOf
  <2> QED
    BY <2>2, <2>3 DEF WsWritesIInv, WsAccounted, WsMute, WsWritesOf
<1>4. ASSUME NEW s \in Sessions, W!QueueMessage(s) PROVE WsWritesIInv'
  <2>1. /\ posted[s] > 0 /\ posted' = [posted EXCEPT ![s] = @ - 1]
        /\ W!AsyncWrite(s, mWriteQueue[s] + 1, mIsSending[s]) /\ UNCHANGED <<open, writtenTo, wire>>
    BY <1>4 DEF W!QueueMessage, W!reads
  <2>2. /\ posted[s] \in Nat /\ writtenTo[s] \in Nat /\ mWriteQueue[s] \in Nat /\ mWriteQueue[s] + 1 \in Nat
        /\ wire[s] \in Nat /\ mIsSending[s] \in BOOLEAN
    BY <1>0 DEF WsWriteTypes
  <2>3. /\ posted' \in [Sessions -> Nat] /\ posted'[s] = posted[s] - 1
        /\ \A u \in Sessions : u # s => posted'[u] = posted[u]
    BY <1>0, <2>1, <2>2 DEF WsWriteTypes
  <2>4. /\ mWriteQueue' \in [Sessions -> Nat] /\ mIsSending' \in [Sessions -> BOOLEAN]
        /\ transmit' \in [Sessions -> {"none", "on", "early"}] /\ early' \subseteq Sessions
        /\ \A u \in Sessions : u # s =>
             /\ UNCHANGED <<mWriteQueue[u], mIsSending[u], transmit[u]>> /\ (u \in early' <=> u \in early)
    BY <1>0, <2>1, <2>2, AsyncWriteMakes
  <2>5. \/ /\ ~ mIsSending[s] /\ mWriteQueue'[s] = mWriteQueue[s] /\ mIsSending'[s]
           /\ s \in open => transmit'[s] = "on" /\ (s \in early' <=> s \in early)
           /\ s \notin open => transmit'[s] = "early" /\ s \in early'
        \/ /\ mIsSending[s] /\ mWriteQueue'[s] = mWriteQueue[s] + 1 /\ mIsSending'[s] = mIsSending[s]
           /\ (s \in early' <=> s \in early) /\ transmit'[s] = transmit[s]
    <3>1. PICK q \in Nat : q = mWriteQueue[s] + 1
      BY <2>2
    <3>2. PICK flag \in BOOLEAN : flag = mIsSending[s]
      BY <2>2
    <3>3. q > 0 /\ q # 0 /\ q - 1 = mWriteQueue[s]
      BY <2>2, <3>1
    <3>4. W!AsyncWrite(s, q, flag)
      BY <2>1, <3>1, <3>2
    <3>5. \/ /\ q > 0 /\ ~ flag /\ mWriteQueue'[s] = q - 1 /\ mIsSending'[s]
             /\ s \in open => transmit'[s] = "on" /\ (s \in early' <=> s \in early)
             /\ s \notin open => transmit'[s] = "early" /\ s \in early'
          \/ /\ q = 0 \/ flag
             /\ mWriteQueue'[s] = q /\ mIsSending'[s] = flag /\ (s \in early' <=> s \in early)
             /\ transmit'[s] = IF flag THEN transmit[s] ELSE "none"
      BY <1>0, <3>4, AsyncWriteMakes
    <3>6. CASE flag
      BY <3>1, <3>2, <3>5, <3>6
    <3>7. CASE ~ flag
      BY <3>2, <3>3, <3>5, <3>7
    <3> QED
      BY <3>6, <3>7
  <2>6. WsWriteTypes'
    BY <1>0, <2>1, <2>3, <2>4 DEF WsWriteTypes
  <2>7. WsWritesOf(s)
    BY <1>0
  <2>8. WsWritesOf(s)'
    <3>1. CASE ~ mIsSending[s]
      BY <2>1, <2>2, <2>3, <2>5, <2>7, <3>1 DEF WsWritesOf, Underway
    <3>2. CASE mIsSending[s]
      <4>1. /\ mWriteQueue'[s] = mWriteQueue[s] + 1 /\ mIsSending'[s]
            /\ (s \in early' <=> s \in early) /\ transmit'[s] = transmit[s]
        BY <2>5, <3>2
      <4>2. /\ posted[s] \in Nat /\ mWriteQueue[s] \in Nat /\ wire[s] \in Nat
            /\ writtenTo[s] = posted[s] + mWriteQueue[s] + 1 + wire[s]
        BY <2>2, <2>7, <3>2 DEF WsWritesOf, Underway
      <4>3. writtenTo[s] = posted'[s] + mWriteQueue'[s] + 1 + wire[s]
        BY <2>3, <4>1, <4>2
      <4> QED
        BY <2>1, <2>7, <3>2, <4>1, <4>3 DEF WsWritesOf, Underway
    <3> QED
      BY <3>1, <3>2
  <2> QED
    BY <2>1, <2>3, <2>4, <2>6, <2>8, WsWritesLocal
<1>5. ASSUME NEW s \in Sessions, W!OnWritten(s) PROVE WsWritesIInv'
  <2>1. /\ transmit[s] = "on" /\ wire' = [wire EXCEPT ![s] = @ + 1]
        /\ W!AsyncWrite(s, mWriteQueue[s], FALSE) /\ UNCHANGED <<open, writtenTo, posted>>
    BY <1>5 DEF W!OnWritten, W!reads
  <2>2. /\ posted[s] \in Nat /\ writtenTo[s] \in Nat /\ mWriteQueue[s] \in Nat /\ wire[s] \in Nat
    BY <1>0 DEF WsWriteTypes
  <2>3. /\ wire' \in [Sessions -> Nat] /\ wire'[s] = wire[s] + 1
        /\ \A u \in Sessions : u # s => wire'[u] = wire[u]
    BY <1>0, <2>1, <2>2 DEF WsWriteTypes
  <2>4. /\ mWriteQueue' \in [Sessions -> Nat] /\ mIsSending' \in [Sessions -> BOOLEAN]
        /\ transmit' \in [Sessions -> {"none", "on", "early"}] /\ early' \subseteq Sessions
        /\ \A u \in Sessions : u # s =>
             /\ UNCHANGED <<mWriteQueue[u], mIsSending[u], transmit[u]>> /\ (u \in early' <=> u \in early)
    BY <1>0, <2>1, <2>2, AsyncWriteMakes
  <2>5. WsWritesOf(s) /\ mIsSending[s] /\ s \in open /\ s \notin early
    BY <1>0, <2>1 DEF WsWritesOf
  <2>6. \/ /\ mWriteQueue[s] > 0 /\ mWriteQueue'[s] = mWriteQueue[s] - 1 /\ mIsSending'[s]
           /\ transmit'[s] = "on" /\ s \notin early'
        \/ /\ mWriteQueue[s] = 0 /\ mWriteQueue'[s] = 0 /\ ~ mIsSending'[s]
           /\ transmit'[s] = "none" /\ s \notin early'
    BY <1>0, <2>1, <2>2, <2>5, AsyncWriteMakes
  <2>7. WsWriteTypes'
    BY <1>0, <2>1, <2>3, <2>4 DEF WsWriteTypes
  <2>8. WsWritesOf(s)'
    BY <2>1, <2>2, <2>3, <2>5, <2>6 DEF WsWritesOf, Underway
  <2> QED
    BY <2>1, <2>3, <2>4, <2>7, <2>8, WsWritesLocal
<1>6. ASSUME NEW s \in Sessions, W!OnWriteError(s) PROVE WsWritesIInv'
  <2>1. /\ transmit[s] # "none" /\ transmit' = [transmit EXCEPT ![s] = "none"]
        /\ UNCHANGED <<open, posted, mWriteQueue, mIsSending, writtenTo, wire, early>>
    BY <1>6 DEF W!OnWriteError, W!reads
  <2>2. WsWriteTypes'
    BY <1>0, <2>1 DEF WsWriteTypes
  <2>3. transmit'[s] = "none" /\ \A u \in Sessions : u # s => transmit'[u] = transmit[u]
    BY <1>0, <2>1 DEF WsWriteTypes
  <2>4. WsWritesOf(s)
    BY <1>0
  <2>5. WsWritesOf(s)'
    BY <2>1, <2>3, <2>4 DEF WsWritesOf, Underway
  <2> QED
    BY <2>1, <2>2, <2>3, <2>5, WsWritesLocal
<1>7. CASE \/ W!Accepted \/ W!AcceptFailed \/ W!AcceptNext \/ W!Stop \/ UNCHANGED W!vars
           \/ \E c \in CallbackThreads : W!CallbackStep(c)
           \/ \E s \in Sessions : \/ W!OnAcceptError(s) \/ W!OnReadBytes(s) \/ W!OnReadEnd(s)
                                  \/ W!PeerSend(s) \/ W!PeerEnd(s)
  BY <1>1, <1>7 DEF W!Accepted, W!AcceptFailed, W!AcceptNext, W!ConnectDisconnectSlot, W!EmitNewSession,
     W!StartSession, W!StartAccept, W!Stop, W!vars, W!CallbackStep, W!TakeJob, W!RunRx, W!RunDisconnect,
     W!RunError, W!OnAcceptError, W!OnReadBytes, W!OnReadEnd, W!PeerSend, W!PeerEnd, W!reads
<1> QED
  BY <1>0, <1>2, <1>3, <1>4, <1>5, <1>6, <1>7 DEF W!Next, W!ReadStep, W!Transmitted

LEMMA WsWritesAlways == W!Spec => []WsWritesIInv
BY WsWritesInit, WsWritesStep, PTL DEF W!Spec

(* No broadcast is lost inside the server: each one is on its way to its     *)
(* session's strand, queued, under way or transmitted, and a queue with      *)
(* something in it has a message under way, whatever the sessions, the       *)
(* broadcasts and the threads (Websockets/Session.cpp:136-198).              *)
THEOREM WsMessagesAreAccountedFor == W!Spec => []WsAccounted
<1>1. WsWritesIInv => WsAccounted
  BY DEF WsWritesIInv
<1> QED
  BY <1>1, WsWritesAlways, PTL

(* A session that was to transmit before its handshake was done never        *)
(* transmits anything: the error leaves its mIsSending set, so that the      *)
(* handshake, when it is done, changes nothing (Websockets/Session.cpp:168). *)
THEOREM WsEarlySessionsStayMute == W!Spec => []WsMute
<1>1. WsWritesIInv => WsMute
  BY DEF WsWritesIInv
<1> QED
  BY <1>1, WsWritesAlways, PTL

-----------------------------------------------------------------------------
(* Its jobs stand in the line of the one callback thread.  A handshake that  *)
(* fails ends its session without a job, before it has read anything.        *)
LEMMA FailedHandshakeKeepsLine ==
  ASSUME LineTypes, NEW c \in CallbackThreads, LineIInv(c), NEW s \in Sessions, taken[s] = 0,
         UNCHANGED <<queue, running, rx, taken>>,
         mActiveSessions' = mActiveSessions \ {s}, disconnected' = disconnected \cup {s}
  PROVE  LineIInv(c)'
<1>1. /\ UNCHANGED <<callbacks, rx, taken>> /\ disconnected \subseteq Sessions
      /\ mActiveSessions' = mActiveSessions \ {s} /\ disconnected' = disconnected \cup {s}
  BY DEF LineTypes, callbacks
<1>2. \A i, k \in Nat, u \in Sessions :
        (Holds(c, i, u, k)' <=> Holds(c, i, u, k)) /\ (Ends(c, i, u)' <=> Ends(c, i, u))
  BY <1>1, SameLine
<1>3. \A i, k \in Nat : ~ Holds(c, i, s, k)
  <2> SUFFICES ASSUME NEW i \in Nat, NEW k \in Nat, Holds(c, i, s, k) PROVE FALSE
    OBVIOUS
  <2>1. Len(rx[s]) < k /\ k <= 0 /\ Len(rx[s]) \in Nat
    BY DEF LineTypes, LineIInv, ChunksWait
  <2> QED
    BY <2>1
<1>4. Delivered'
  BY <1>1 DEF LineIInv, Delivered
<1>5. ChunksWait(c)'
  BY <1>1, <1>2, <1>3 DEF LineIInv, ChunksWait
<1>6. NoChunkIsMissing(c)'
  BY <1>1, <1>2 DEF LineIInv, NoChunkIsMissing
<1>7. ChunksInOrder(c)'
  BY <1>2 DEF LineIInv, ChunksInOrder
<1>8. EndStandsLast(c)'
  BY <1>2 DEF LineIInv, EndStandsLast
<1>9. NothingAfterTheEnd(c)'
  BY <1>1, <1>2, <1>3 DEF LineIInv, NothingAfterTheEnd
<1> QED
  BY <1>4, <1>5, <1>6, <1>7, <1>8, <1>9 DEF LineIInv

(* A job that is no message joins the line, or nothing does.                 *)
LEMMA QuietPost ==
  ASSUME LineTypes, NEW c \in CallbackThreads, LineIInv(c),
         UNCHANGED <<running, rx, taken, disconnected>>, mActiveSessions \subseteq mActiveSessions',
         NEW job \in Job, job.kind # "rx", Post(job)
  PROVE  LineIInv(c)'
<1>1. \A i, k \in Nat, u \in Sessions :
        /\ Holds(c, i, u, k)' <=> Holds(c, i, u, k)
        /\ Ends(c, i, u)' => Ends(c, i, u) \/ i = Len(queue) + 1
  BY PostLine
<1> QED
  BY <1>1, QuietStep

LEMMA QuietQueue ==
  ASSUME LineTypes, NEW c \in CallbackThreads, LineIInv(c),
         UNCHANGED <<callbacks, rx, taken, disconnected>>, mActiveSessions \subseteq mActiveSessions'
  PROVE  LineIInv(c)'
<1>1. \A i, k \in Nat, u \in Sessions :
        (Holds(c, i, u, k)' <=> Holds(c, i, u, k)) /\ (Ends(c, i, u)' <=> Ends(c, i, u))
  BY SameLine
<1> QED
  BY <1>1, QuietStep

LEMMA WsLineStep ==
  ASSUME WsIInv, NEW c, CallbackThreads = {c}, LineIInv(c), [W!Next]_(W!vars)
  PROVE  LineIInv(c)'
<1>0. WsTypes /\ LineTypes /\ c \in CallbackThreads /\ W!Sessions = Sessions
  BY WsNames DEF WsIInv, WsTypes
<1>1. ASSUME UNCHANGED <<queue, running, rx, taken, disconnected>>, mActiveSessions \subseteq mActiveSessions'
      PROVE  LineIInv(c)'
  BY <1>0, <1>1, QuietQueue DEF callbacks
<1>2. CASE W!Accepted \/ W!AcceptFailed \/ W!AcceptNext
  BY <1>1, <1>2 DEF W!Accepted, W!AcceptFailed, W!AcceptNext, W!ConnectDisconnectSlot, W!EmitNewSession,
     W!StartSession, W!StartAccept, W!server, W!reads, W!callbacks, W!user
<1>3. CASE \/ W!Write \/ W!Stop \/ UNCHANGED W!vars
           \/ \E s \in Sessions : \/ W!OnAccept(s) \/ W!PeerSend(s) \/ W!PeerEnd(s)
                                  \/ W!QueueMessage(s) \/ W!OnWritten(s)
  BY <1>1, <1>3 DEF W!Write, W!Stop, W!vars, W!OnAccept, W!PeerSend, W!PeerEnd, W!QueueMessage, W!OnWritten,
     W!server, W!reads, W!callbacks, W!user
<1>4. ASSUME NEW s \in Sessions, W!OnAcceptError(s) PROVE LineIInv(c)'
  <2>1. /\ pending[s] = "handshake" /\ UNCHANGED <<queue, running, rx, taken>>
        /\ mActiveSessions' = mActiveSessions \ {s} /\ disconnected' = disconnected \cup {s}
    BY <1>4 DEF W!OnAcceptError, W!SignalOnDisconnect, W!callbacks
  <2>2. taken[s] = 0
    BY <2>1 DEF WsIInv, WsHandshakeFirst
  <2> QED
    BY <1>0, <2>1, <2>2, FailedHandshakeKeepsLine
<1>5. ASSUME NEW s \in Sessions, W!OnReadBytes(s) PROVE LineIInv(c)'
  <2>1. /\ taken[s] + 1 \in 0..MaxChunks /\ taken' = [taken EXCEPT ![s] = @ + 1]
        /\ Post([kind |-> "rx", s |-> s, chunk |-> taken[s] + 1])
        /\ UNCHANGED <<running, rx, disconnected, mActiveSessions>> /\ pending[s] = "read"
    BY <1>0, <1>5, ServerAssumption DEF W!OnReadBytes, W!Post, Post, WsTypes, LineTypes, W!server, W!user
  <2>2. s \in mActiveSessions /\ s \notin disconnected
    BY <2>1 DEF WsIInv, WsPendingIsOwned
  <2>3. \A i \in Nat : ~ Ends(c, i, s)
    <3> SUFFICES ASSUME NEW i \in Nat, Ends(c, i, s) PROVE FALSE
      OBVIOUS
    <3>1. At(c, i) \in Job /\ HasJob(At(c, i))
      BY <1>0, IdleAssumption DEF Ends, Places, At, HasJob, LineTypes
    <3>2. HasEnd(s)
      BY <3>1 DEF Ends, HasEnd
    <3> QED
      BY <2>1, <3>2 DEF WsIInv, WsEndIsLast
  <2> QED
    BY <1>0, <2>1, <2>2, <2>3, ReadKeepsLine
<1>6. ASSUME NEW s \in Sessions, W!OnReadEnd(s) \/ W!OnWriteError(s) PROVE LineIInv(c)'
  <2>1. UNCHANGED <<rx, taken, disconnected, mActiveSessions, running>>
    BY <1>6 DEF W!OnReadEnd, W!OnWriteError, W!server, W!reads, W!user
  <2>2. \A kind \in {"disconnect", "readError", "writeError"} :
          /\ [kind |-> kind, s |-> s, chunk |-> 0] \in Job
          /\ [kind |-> kind, s |-> s, chunk |-> 0].kind # "rx"
    BY JobType, ServerAssumption
  <2>3. PICK kind \in {"disconnect", "readError", "writeError"} : Post([kind |-> kind, s |-> s, chunk |-> 0])
    BY <1>6 DEF W!OnReadEnd, W!OnWriteError, W!Post, Post
  <2>4. PICK job \in Job : job = [kind |-> kind, s |-> s, chunk |-> 0]
    BY <2>2
  <2>5. job.kind # "rx" /\ Post(job)
    BY <2>2, <2>3, <2>4
  <2> QED
    BY <1>0, <2>1, <2>5, QuietPost
<1>7. CASE W!TakeJob(c)
  <2>1. Takes(c) /\ UNCHANGED <<rx, taken, disconnected, mActiveSessions>>
    BY <1>7 DEF W!TakeJob, Takes, W!server, W!reads, W!user
  <2> QED
    BY <1>0, <2>1, TakeKeepsLine
<1>8. CASE W!RunRx(c)
  <2>1. /\ running[c] # Idle /\ running[c].kind = "rx" /\ Finish(c)
        /\ UNCHANGED <<taken, disconnected, mActiveSessions>>
        /\ running[c].s \in mActiveSessions
             => rx' = [rx EXCEPT ![running[c].s] = Append(@, running[c].chunk)]
    BY <1>8 DEF W!RunRx, W!Runs, Finish, W!Alive, W!server, W!reads
  <2> QED
    BY <1>0, <2>1, RxKeepsLine
<1>9. CASE W!RunDisconnect(c)
  <2>1. /\ running[c] # Idle /\ running[c].kind = "disconnect" /\ running[c].kind # "rx" /\ Finish(c)
        /\ UNCHANGED <<taken, rx>>
    BY <1>9 DEF W!RunDisconnect, W!Runs, Finish, W!reads
  <2>2. CASE W!Alive(running[c].s)
    <3>1. /\ mActiveSessions' = mActiveSessions \ {running[c].s}
          /\ disconnected' = disconnected \cup {running[c].s}
      BY <1>9, <2>2 DEF W!RunDisconnect, W!SignalOnDisconnect
    <3> QED
      BY <1>0, <2>1, <3>1, EndKeepsLine
  <2>3. CASE ~ W!Alive(running[c].s)
    <3>1. UNCHANGED <<taken, rx, disconnected, mActiveSessions>>
      BY <1>9, <2>1, <2>3 DEF W!RunDisconnect
    <3> QED
      BY <1>0, <2>1, <3>1, OthersKeepLine
  <2> QED
    BY <2>2, <2>3
<1>10. CASE W!RunError(c)
  <2>1. /\ running[c] # Idle /\ running[c].kind # "rx" /\ Finish(c)
        /\ UNCHANGED <<taken, rx, disconnected, mActiveSessions>>
    BY <1>10 DEF W!RunError, W!Runs, Finish, W!server, W!reads, W!user
  <2> QED
    BY <1>0, <2>1, OthersKeepLine
<1> QED
  BY <1>0, <1>2, <1>3, <1>4, <1>5, <1>6, <1>7, <1>8, <1>9, <1>10
     DEF W!Next, W!ReadStep, W!Transmitted, W!CallbackStep

(* What a session's slots saw is what was read, in order, and nothing that   *)
(* was read is missing once its end was told.                                *)
WsDeliveredInOrder ==
  \A s \in Sessions :
    /\ \A i \in 1..Len(rx[s]) : rx[s][i] = i
    /\ s \in disconnected => Len(rx[s]) = taken[s]

(* With one callback thread the slots of a session of ws::Server see exactly *)
(* the messages it read, in order, and its end after the last of them        *)
(* (Websockets/Session.cpp:94-132).                                          *)
THEOREM WsOneThreadDelivers ==
  ASSUME NEW c, CallbackThreads = {c}
  PROVE  W!Spec => []WsDeliveredInOrder
<1>1. W!Init => WsIInv /\ LineIInv(c)
  BY WsInit, InitLine, WsNames DEF W!Init, W!Each
<1>2. WsIInv /\ LineIInv(c) /\ [W!Next]_(W!vars) => (WsIInv /\ LineIInv(c))'
  BY WsStep, WsLineStep
<1>3. WsIInv /\ LineIInv(c) => WsDeliveredInOrder
  BY LineDelivers DEF WsIInv, WsTypes, WsDeliveredInOrder
<1> QED
  BY <1>1, <1>2, <1>3, PTL DEF W!Spec
=============================================================================
