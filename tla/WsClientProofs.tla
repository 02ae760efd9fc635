--------------------------- MODULE WsClientProofs ---------------------------
(***************************************************************************)
(* One stream and one queue for all connections of a dl::ws::Client, for    *)
(* any numbers of threads, messages and troubles.  QueueIsServed is         *)
(* inductive with the types, OneOperationPerConnection with what else an    *)
(* open websocket has not (OneOperation).  NeverAtRest needs that what      *)
(* OnConnect and OnHandshake have started is still under way when they go   *)
(* on (Begun), UserKnows and MessagesComeBetween that without a race there  *)
(* is one thing at a time that the client waits for (OneAtATime).           *)
(***************************************************************************)
EXTENDS WsClient, SequenceTheorems, FiniteSetTheorems, TLAPS

NumberTypes ==
  /\ resolves \in Nat /\ connects \in Nat /\ timeouts \in Nat /\ overtaken \in Nat
  /\ sslShakes \in Nat /\ shakes \in Nat /\ reading \in Nat
  /\ connectsDone \in Nat /\ sslDone \in Nat /\ shakesDone \in Nat /\ readsDone \in Nat
StateTypes ==
  /\ handler \in [IoThreads -> {"idle", "resolved", "connected", "reading"}]
  /\ slot \in [CallbackThreads -> {"idle", "told"}]
  /\ link \in {"closed", "tcp", "open", "ended", "failed"}
  /\ jobs \in Seq({"rx", "end"})
FlagTypes ==
  /\ secure \in BOOLEAN /\ stale \in BOOLEAN /\ timer \in BOOLEAN
  /\ connected \in BOOLEAN /\ gaveUp \in BOOLEAN /\ late \in BOOLEAN
Numbers == Nat     \* of the messages
WriterTypes ==
  /\ written \in Nat /\ writeErrors \in Nat
  /\ mWriteQueue \in Seq(Numbers) /\ sent \in Seq(Numbers)
  /\ mIsSending \in BOOLEAN /\ transmit \in {NoWrite} \cup [on : {"link", "closed", "done"}, msg : Numbers]
WsTypes == NumberTypes /\ StateTypes /\ FlagTypes /\ WriterTypes

LEMMA InitTypes == Init => WsTypes
<1> SUFFICES ASSUME Init PROVE WsTypes
  OBVIOUS
<1>1. <<>> \in Seq(Numbers) /\ <<>> \in Seq({"rx", "end"})
  BY EmptySeq
<1>2. QED
  BY <1>1 DEF Init, WsTypes, NumberTypes, StateTypes, FlagTypes, WriterTypes

-----------------------------------------------------------------------------
(* The write queue and the connection share little: what async_connect and   *)
(* the network do to a write, and that its handlers run on the IO threads.   *)
Moves ==
  /\ \/ UNCHANGED transmit
     \/ transmit # NoWrite /\ \E on \in {"closed", "done"} : transmit' = [transmit EXCEPT !.on = on]
  /\ UNCHANGED <<written, mWriteQueue, mIsSending, sent, writeErrors>>
Writing == Write \/ OnWritten \/ OnWriteError

LEMMA CloseMoves ==
  CloseSocket => \/ UNCHANGED transmit
                 \/ transmit # NoWrite /\ \E on \in {"closed", "done"} : transmit' = [transmit EXCEPT !.on = on]
BY DEF CloseSocket

LEMMA StepOfWriter == [Next]_vars => UNCHANGED writer \/ Moves \/ Writing
<1> SUFFICES ASSUME [Next]_vars, ~Writing PROVE UNCHANGED writer \/ Moves
  OBVIOUS
<1>1. CASE \E t \in IoThreads : OnResolve(t)
  BY <1>1, CloseMoves DEF OnResolve, Moves
<1>2. CASE NextEndpoint
  BY <1>2, CloseMoves DEF NextEndpoint, Moves
<1>3. CASE WriteDone
  BY <1>3 DEF WriteDone, Moves
<1>4. CASE OnResolveError \/ OnTimeout \/ OnSslHandshake \/ OnRead \/ OnReadEnd \/ OnReadError \/ Expire \/ ReadDone
  BY <1>4 DEF OnResolveError, OnTimeout, OnSslHandshake, OnRead, OnReadEnd, OnReadError, Expire, ReadDone
<1>5. CASE \E t \in IoThreads : ArmTimer(t) \/ OnConnect(t) \/ CancelTimer(t) \/ OnHandshake(t) \/ SignalConnection(t)
  BY <1>5 DEF ArmTimer, OnConnect, CancelTimer, OnHandshake, SignalConnection
<1>6. CASE Answer
  BY <1>6 DEF Answer, ConnectDone, OnConnectError, SslDone, ShakeDone, OnHandshakeError
<1>7. CASE \E how \in {"ended", "failed"} : PeerEnds(how)
  BY <1>7 DEF PeerEnds
<1>8. CASE \E c \in CallbackThreads : CallbackStep(c)
  BY <1>8 DEF CallbackStep, SignalOnRx, SignalDisconnect, Reconnect
<1>9. CASE UNCHANGED vars
  BY <1>9 DEF vars
<1>10. QED
  BY <1>1, <1>2, <1>3, <1>4, <1>5, <1>6, <1>7, <1>8, <1>9
     DEF Next, IoStep, WriteStep, Environment, Writing

(* IoReady, and what it says of a step in which nobody is overtaken.         *)
LEMMA ReadyTypes == IoReady /\ overtaken \in Nat => overtaken' \in Nat
BY DEF IoReady

LEMMA StepOfWriting ==
  Writing => /\ IoReady
             /\ UNCHANGED <<secure, resolves, connects, handler, timer, timeouts>>
             /\ UNCHANGED <<link, sslShakes, shakes, reading, jobs, slot, connected, gaveUp, late>>
             /\ UNCHANGED <<connectsDone, sslDone, shakesDone, readsDone, stale>>
<1>1. CASE Write
  BY <1>1 DEF Write, clock, stream, done, callbacks, told, bounds
<1>2. CASE OnWritten
  BY <1>2 DEF OnWritten, clock, stream, done, callbacks, told, bounds
<1>3. CASE OnWriteError
  BY <1>3 DEF OnWriteError, clock, stream, done, callbacks, told, bounds
<1>4. QED
  BY <1>1, <1>2, <1>3 DEF Writing

LEMMA StepOfWriteDone ==
  WriteDone => /\ UNCHANGED <<secure, resolves, connects, handler, overtaken, timer, timeouts>>
               /\ UNCHANGED <<link, sslShakes, shakes, reading, jobs, slot, connected, gaveUp, late>>
               /\ UNCHANGED <<connectsDone, sslDone, shakesDone, readsDone, stale>>
BY DEF WriteDone, attempt, clock, stream, done, callbacks, told, bounds

-----------------------------------------------------------------------------
(* The queue and what is in transmission after AsyncWrite.                   *)
LEMMA AsyncWriteTypes ==
  ASSUME WriterTypes, NEW queue \in Seq(Numbers), NEW sending \in BOOLEAN, AsyncWrite(queue, sending)
  PROVE  /\ mWriteQueue' \in Seq(Numbers) /\ mIsSending' \in BOOLEAN
         /\ transmit' \in {NoWrite} \cup [on : {"link", "closed", "done"}, msg : Numbers]
<1>1. CASE queue # <<>> /\ ~sending
  <2>1. Tail(queue) \in Seq(Numbers) /\ Head(queue) \in Numbers
    BY <1>1, HeadTailProperties
  <2>2. transmit' = [on |-> "link", msg |-> Head(queue)] /\ mWriteQueue' = Tail(queue) /\ mIsSending' = TRUE
    BY <1>1 DEF AsyncWrite
  <2>3. QED
    BY <2>1, <2>2
<1>2. CASE ~(queue # <<>> /\ ~sending)
  BY <1>2 DEF AsyncWrite, WriterTypes
<1>3. QED
  BY <1>1, <1>2

LEMMA WriterTypesStep == WriterTypes /\ [Next]_vars => WriterTypes'
<1> SUFFICES ASSUME WriterTypes, [Next]_vars PROVE WriterTypes'
  OBVIOUS
<1>1. CASE UNCHANGED writer
  BY <1>1 DEF WriterTypes, writer
<1>2. CASE Moves
  <2>1. transmit' \in {NoWrite} \cup [on : {"link", "closed", "done"}, msg : Numbers]
    BY <1>2 DEF WriterTypes, Moves
  <2>2. QED
    BY <1>2, <2>1 DEF WriterTypes, Moves
<1>3. CASE Write
  <2>1. written' \in Nat
    BY <1>3 DEF Write, WriterTypes
  <2>2. Append(mWriteQueue, written') \in Seq(Numbers)
    BY <2>1, AppendProperties DEF WriterTypes, Numbers
  <2>3. /\ mWriteQueue' \in Seq(Numbers) /\ mIsSending' \in BOOLEAN
        /\ transmit' \in {NoWrite} \cup [on : {"link", "closed", "done"}, msg : Numbers]
    <3>1. mIsSending \in BOOLEAN /\ AsyncWrite(Append(mWriteQueue, written'), mIsSending)
      BY <1>3 DEF Write, WriterTypes
    <3>2. QED
      BY <2>2, <3>1, AsyncWriteTypes
  <2>4. QED
    BY <1>3, <2>1, <2>3 DEF WriterTypes, Write
<1>4. CASE OnWritten
  <2>1. transmit \in [on : {"link", "closed", "done"}, msg : Numbers]
    BY <1>4 DEF OnWritten, WriterTypes
  <2>2. sent' \in Seq(Numbers)
    BY <1>4, <2>1, AppendProperties DEF OnWritten, WriterTypes
  <2>3. /\ mWriteQueue' \in Seq(Numbers) /\ mIsSending' \in BOOLEAN
        /\ transmit' \in {NoWrite} \cup [on : {"link", "closed", "done"}, msg : Numbers]
    <3>1. CASE mWriteQueue = <<>>
      BY <1>4, <3>1 DEF OnWritten, WriterTypes
    <3>2. CASE mWriteQueue # <<>>
      <4>1. mWriteQueue \in Seq(Numbers) /\ FALSE \in BOOLEAN /\ AsyncWrite(mWriteQueue, FALSE)
        BY <1>4, <3>2 DEF OnWritten, WriterTypes
      <4>2. QED
        BY <4>1, AsyncWriteTypes
    <3>3. QED
      BY <3>1, <3>2
  <2>4. QED
    BY <1>4, <2>2, <2>3 DEF WriterTypes, OnWritten
<1>5. CASE OnWriteError
  BY <1>5 DEF WriterTypes, OnWriteError
<1>6. QED
  BY <1>1, <1>2, <1>3, <1>4, <1>5, StepOfWriter DEF Writing

LEMMA JobsTaken ==
  ASSUME StateTypes, NEW c, NEW job, TakeJob(c, job)
  PROVE  /\ jobs' \in Seq({"rx", "end"}) /\ Len(jobs) \in Nat /\ Len(jobs) > 0
         /\ jobs[1] = job /\ Len(jobs') = Len(jobs) - 1
         /\ \A i \in 1..Len(jobs') : jobs'[i] = jobs[i + 1]
<1>1. jobs \in Seq({"rx", "end"}) /\ jobs # <<>> /\ Head(jobs) = job /\ jobs' = Tail(jobs)
  BY DEF StateTypes, TakeJob
<1>2. QED
  BY <1>1, HeadTailProperties, LenProperties, EmptySeq

LEMMA JobsPosted ==
  ASSUME StateTypes, NEW job \in {"rx", "end"}, jobs' = Append(jobs, job)
  PROVE  /\ jobs' \in Seq({"rx", "end"}) /\ Len(jobs) \in Nat /\ Len(jobs') = Len(jobs) + 1
         /\ jobs'[Len(jobs')] = job
         /\ \A i \in 1..Len(jobs) : jobs'[i] = jobs[i]
<1>1. jobs \in Seq({"rx", "end"})
  BY DEF StateTypes
<1>2. QED
  BY <1>1, AppendProperties, LenProperties

LEMMA CloseTypes ==
  ASSUME CloseSocket, NumberTypes, StateTypes, FlagTypes
  PROVE  /\ link' = "closed" /\ sslShakes' = 0 /\ shakes' = 0 /\ reading' = 0 /\ stale' \in BOOLEAN
         /\ UNCHANGED <<connectsDone, sslDone, shakesDone, readsDone>>
<1>1. stale' \in BOOLEAN
  <2>1. stale' = (stale \/ Queued > 0)
    BY DEF CloseSocket
  <2>2. QED
    BY <2>1, Zenon
<1>2. QED
  BY <1>1 DEF CloseSocket

LEMMA NumbersStep == NumberTypes /\ StateTypes /\ FlagTypes /\ [Next]_vars => NumberTypes'
<1> SUFFICES ASSUME NumberTypes, StateTypes, FlagTypes, [Next]_vars PROVE NumberTypes'
  OBVIOUS
<1> USE ReadyTypes DEF NumberTypes
<1>1. CASE \E t \in IoThreads : OnResolve(t)
  BY <1>1 DEF OnResolve, Begin, CloseSocket, clock
<1>2. CASE \E t \in IoThreads : ArmTimer(t) \/ CancelTimer(t) \/ SignalConnection(t)
  BY <1>2 DEF ArmTimer, CancelTimer, SignalConnection, Proceed, clock, stream, done
<1>3. CASE OnResolveError \/ OnTimeout \/ OnConnectError
  BY <1>3 DEF OnResolveError, OnTimeout, OnConnectError, clock, stream, done
<1>4. CASE \E t \in IoThreads : OnConnect(t)
  BY <1>4 DEF OnConnect, Begin, clock
<1>5. CASE \E t \in IoThreads : OnHandshake(t)
  BY <1>5 DEF OnHandshake, Begin, clock
<1>6. CASE ConnectDone
  BY <1>6 DEF ConnectDone, clock
<1>7. CASE SslDone \/ ShakeDone \/ ReadDone
  BY <1>7 DEF SslDone, ShakeDone, ReadDone, attempt, clock
<1>8. CASE NextEndpoint
  BY <1>8 DEF NextEndpoint, CloseSocket, attempt, clock
<1>9. CASE Expire
  BY <1>9 DEF Expire, attempt, stream, done
<1>10. CASE OnSslHandshake \/ OnHandshakeError
  BY <1>10 DEF OnSslHandshake, OnHandshakeError, clock, done
<1>11. CASE OnRead
  BY <1>11 DEF OnRead, clock
<1>12. CASE OnReadEnd
  BY <1>12 DEF OnReadEnd, clock, done
<1>17. CASE OnReadError
  BY <1>17 DEF OnReadError, clock, done
<1>13. CASE \E how \in {"ended", "failed"} : PeerEnds(how)
  BY <1>13 DEF PeerEnds, attempt, clock, done
<1>14. CASE \E c \in CallbackThreads : CallbackStep(c)
  BY <1>14 DEF CallbackStep, SignalOnRx, SignalDisconnect, Reconnect, attempt, clock, stream, done
<1>15. CASE Writing \/ WriteDone
  BY <1>15, StepOfWriting, StepOfWriteDone
<1>16. CASE UNCHANGED vars
  BY <1>16 DEF vars, attempt, clock, stream, done
<1>18. QED
  BY <1>1, <1>2, <1>3, <1>4, <1>5, <1>6, <1>7, <1>8, <1>9, <1>10, <1>11, <1>12, <1>13, <1>14, <1>15, <1>16, <1>17
     DEF Next, IoStep, WriteStep, Answer, Environment, Writing

LEMMA StatesStep == NumberTypes /\ StateTypes /\ FlagTypes /\ [Next]_vars => StateTypes'
<1> SUFFICES ASSUME NumberTypes, StateTypes, FlagTypes, [Next]_vars PROVE StateTypes'
  OBVIOUS
<1>1. CASE \E t \in IoThreads : OnResolve(t)
  BY <1>1 DEF StateTypes, OnResolve, Begin, CloseSocket, callbacks
<1>2. CASE \E t \in IoThreads : ArmTimer(t) \/ CancelTimer(t) \/ SignalConnection(t)
  BY <1>2 DEF StateTypes, ArmTimer, CancelTimer, SignalConnection, Proceed, callbacks, stream
<1>3. CASE OnResolveError \/ OnTimeout \/ OnConnectError \/ Expire
  BY <1>3 DEF StateTypes, OnResolveError, OnTimeout, OnConnectError, Expire, attempt, stream, callbacks
<1>4. CASE \E t \in IoThreads : OnConnect(t) \/ OnHandshake(t)
  BY <1>4 DEF StateTypes, OnConnect, OnHandshake, Begin, Open, callbacks
<1>5. CASE ConnectDone \/ SslDone \/ ShakeDone \/ ReadDone
  BY <1>5 DEF StateTypes, ConnectDone, SslDone, ShakeDone, ReadDone, attempt, callbacks
<1>6. CASE NextEndpoint
  BY <1>6 DEF StateTypes, NextEndpoint, CloseSocket, attempt, callbacks
<1>7. CASE OnSslHandshake \/ OnHandshakeError \/ OnReadError
  BY <1>7 DEF StateTypes, OnSslHandshake, OnHandshakeError, OnReadError, callbacks
<1>8. CASE OnRead \/ OnReadEnd
  <2>1. jobs' \in Seq({"rx", "end"})
    BY <1>8, JobsPosted DEF OnRead, OnReadEnd
  <2>2. QED
    BY <1>8, <2>1 DEF StateTypes, OnRead, OnReadEnd
<1>9. CASE \E how \in {"ended", "failed"} : PeerEnds(how)
  BY <1>9 DEF StateTypes, PeerEnds, attempt, callbacks
<1>10. ASSUME NEW c \in CallbackThreads, SignalOnRx(c) \/ SignalDisconnect(c) PROVE StateTypes'
  <2>1. jobs' \in Seq({"rx", "end"})
    BY <1>10, JobsTaken DEF SignalOnRx, SignalDisconnect
  <2>2. QED
    BY <1>10, <2>1 DEF StateTypes, SignalOnRx, SignalDisconnect, attempt, stream
<1>11. CASE \E c \in CallbackThreads : Reconnect(c)
  BY <1>11 DEF StateTypes, Reconnect, stream
<1>12. CASE Writing \/ WriteDone
  BY <1>12, StepOfWriting, StepOfWriteDone DEF StateTypes
<1>13. CASE UNCHANGED vars
  BY <1>13 DEF StateTypes, vars, attempt, stream, callbacks
<1>14. QED
  BY <1>1, <1>2, <1>3, <1>4, <1>5, <1>6, <1>7, <1>8, <1>9, <1>10, <1>11, <1>12, <1>13
     DEF Next, IoStep, WriteStep, Answer, Environment, CallbackStep, Writing

LEMMA FlagsStep == NumberTypes /\ StateTypes /\ FlagTypes /\ [Next]_vars => FlagTypes'
<1> SUFFICES ASSUME NumberTypes, StateTypes, FlagTypes, [Next]_vars PROVE FlagTypes'
  OBVIOUS
<1>1. ASSUME NEW t \in IoThreads, OnResolve(t) PROVE FlagTypes'
  BY <1>1, CloseTypes DEF FlagTypes, OnResolve, told, bounds
<1>2. ASSUME NEW t \in IoThreads, ArmTimer(t) \/ CancelTimer(t) \/ SignalConnection(t) PROVE FlagTypes'
  <2>1. /\ UNCHANGED <<secure, stale, gaveUp, late>>
        /\ timer' = TRUE \/ timer' = FALSE \/ timer' = timer
        /\ connected' = TRUE \/ connected' = connected
    BY <1>2 DEF ArmTimer, CancelTimer, SignalConnection, clock, done, told, bounds
  <2>2. QED
    BY <2>1, Zenon DEF FlagTypes
<1>3. CASE OnResolveError \/ OnTimeout \/ OnConnectError
  BY <1>3 DEF FlagTypes, OnResolveError, OnTimeout, OnConnectError, Trouble, clock, done, told, bounds
<1>4. ASSUME NEW t \in IoThreads, OnConnect(t) \/ OnHandshake(t) PROVE FlagTypes'
  BY <1>4 DEF FlagTypes, OnConnect, OnHandshake, clock, told, bounds
<1>5. CASE ConnectDone \/ SslDone \/ ShakeDone \/ ReadDone
  BY <1>5 DEF FlagTypes, ConnectDone, SslDone, ShakeDone, ReadDone, clock, told, bounds
<1>6. CASE NextEndpoint
  <2>1. gaveUp' \in BOOLEAN
    <3>1. gaveUp' = (gaveUp \/ sslShakes + shakes + reading > 0)
      BY <1>6 DEF NextEndpoint
    <3>2. QED
      BY <3>1, Zenon
  <2>2. stale' \in BOOLEAN
    BY <1>6, CloseTypes DEF NextEndpoint
  <2>3. QED
    BY <1>6, <2>1, <2>2 DEF FlagTypes, NextEndpoint, clock, bounds
<1>7. CASE Expire
  <2>1. timer' = FALSE /\ (late' = TRUE \/ late' = late) /\ UNCHANGED <<secure, stale, connected, gaveUp>>
    BY <1>7 DEF Expire, done, told
  <2>2. QED
    BY <2>1, Zenon DEF FlagTypes
<1>8. CASE OnSslHandshake \/ OnHandshakeError \/ OnRead \/ OnReadEnd \/ OnReadError
  BY <1>8 DEF FlagTypes, OnSslHandshake, OnHandshakeError, OnRead, OnReadEnd, OnReadError, Trouble, clock, done,
              told, bounds
<1>9. CASE \E how \in {"ended", "failed"} : PeerEnds(how)
  BY <1>9 DEF FlagTypes, PeerEnds, Trouble, clock, done, told
<1>10. ASSUME NEW c \in CallbackThreads, CallbackStep(c) PROVE FlagTypes'
  <2>1. UNCHANGED <<secure, stale, timer, gaveUp, late>> /\ (connected' = FALSE \/ connected' = connected)
    BY <1>10 DEF CallbackStep, SignalOnRx, SignalDisconnect, Reconnect, clock, done, told, bounds
  <2>2. QED
    BY <2>1, Zenon DEF FlagTypes
<1>11. CASE Writing \/ WriteDone
  BY <1>11, StepOfWriting, StepOfWriteDone DEF FlagTypes
<1>12. CASE UNCHANGED vars
  BY <1>12 DEF FlagTypes, vars, clock, done, told, bounds
<1>13. QED
  BY <1>1, <1>2, <1>3, <1>4, <1>5, <1>6, <1>7, <1>8, <1>9, <1>10, <1>11, <1>12
     DEF Next, IoStep, WriteStep, Answer, Environment, Writing

LEMMA TypesStep == WsTypes /\ [Next]_vars => WsTypes'
BY WriterTypesStep, NumbersStep, StatesStep, FlagsStep DEF WsTypes

-----------------------------------------------------------------------------
(* The steps that leave the stream alone.                                    *)
Elsewhere == \/ OnResolveError \/ OnTimeout \/ OnConnectError \/ Expire \/ Writing \/ WriteDone \/ UNCHANGED vars
             \/ \E t \in IoThreads : ArmTimer(t) \/ CancelTimer(t) \/ SignalConnection(t)
             \/ \E c \in CallbackThreads : CallbackStep(c)

LEMMA StreamLeftAlone ==
  Elsewhere => UNCHANGED <<link, sslShakes, shakes, reading, connectsDone, sslDone, shakesDone, readsDone, stale>>
BY StepOfWriting, StepOfWriteDone
   DEF Elsewhere, OnResolveError, OnTimeout, OnConnectError, Expire, ArmTimer, CancelTimer, SignalConnection,
       CallbackStep, SignalOnRx, SignalDisconnect, Reconnect, stream, done, vars

(* Closing the socket while no handler is queued leaves nothing of it.       *)
LEMMA NothingStale ==
  ASSUME NumberTypes, CloseSocket, ~stale'
  PROVE  ~stale /\ link' = "closed" /\ Underway' = 0 /\ Shaking' = 0
<1>1. ~stale /\ ~(Queued > 0)
  <2>1. stale' = (stale \/ Queued > 0)
    BY DEF CloseSocket
  <2>2. QED
    BY <2>1, Zenon
<1>2. connectsDone = 0 /\ sslDone = 0 /\ shakesDone = 0 /\ readsDone = 0
  BY <1>1 DEF NumberTypes, Queued
<1>3. /\ link' = "closed" /\ sslShakes' = 0 /\ shakes' = 0 /\ reading' = 0
      /\ connectsDone' = 0 /\ sslDone' = 0 /\ shakesDone' = 0 /\ readsDone' = 0
  BY <1>2 DEF CloseSocket
<1>4. QED
  BY <1>1, <1>3 DEF Underway, Shaking

(* A websocket that is open has no connect to be handled either.             *)
OneOperation == OneOperationPerConnection /\ (~stale /\ link = "open" => connectsDone = 0)

LEMMA OneOperationStep == WsTypes /\ OneOperation /\ [Next]_vars => OneOperation'
<1> SUFFICES ASSUME NumberTypes, ~stale', OneOperation, [Next]_vars
             PROVE  /\ Underway' <= 1
                    /\ link' = "closed" => Underway' = 0
                    /\ link' = "open" => Shaking' = 0 /\ connectsDone' = 0
  BY DEF OneOperation, OneOperationPerConnection, WsTypes
<1>1. CASE CloseSocket
  BY <1>1, NothingStale
<1> USE DEF NumberTypes, OneOperation, OneOperationPerConnection, Underway, Shaking
<1>2. CASE \E t \in IoThreads : OnConnect(t)
  <2>1. /\ connectsDone > 0 /\ connectsDone' = connectsDone - 1 /\ ~stale
        /\ UNCHANGED <<link, reading, sslDone, shakesDone, readsDone>>
    BY <1>2 DEF OnConnect
  <2>2. \/ sslShakes' = sslShakes + 1 /\ shakes' = shakes
        \/ shakes' = shakes + 1 /\ sslShakes' = sslShakes
    BY <1>2 DEF OnConnect
  <2>3. link # "closed" /\ link # "open" /\ connectsDone = 1 /\ Shaking = 0 /\ reading = 0 /\ readsDone = 0
    BY <2>1
  <2>4. QED
    BY <2>1, <2>2, <2>3
<1>3. CASE ConnectDone
  BY <1>3 DEF ConnectDone
<1>4. CASE SslDone \/ ShakeDone \/ ReadDone
  BY <1>4 DEF SslDone, ShakeDone, ReadDone
<1>5. CASE OnSslHandshake
  BY <1>5 DEF OnSslHandshake
<1>6. CASE OnHandshakeError
  BY <1>6 DEF OnHandshakeError, done
<1>7. CASE \E t \in IoThreads : OnHandshake(t)
  BY <1>7 DEF OnHandshake, Open
<1>8. CASE OnRead
  BY <1>8 DEF OnRead
<1>9. CASE OnReadEnd \/ OnReadError
  <2>1. /\ reading > 0 /\ reading' = reading - 1 /\ ~stale
        /\ UNCHANGED <<link, sslShakes, shakes, connectsDone, sslDone, shakesDone, readsDone>>
    BY <1>9 DEF OnReadEnd, OnReadError, done
  <2>2. QED
    BY <2>1
<1>10. CASE \E how \in {"ended", "failed"} : PeerEnds(how)
  BY <1>10 DEF PeerEnds, done
<1>11. CASE Elsewhere
  BY <1>11, StreamLeftAlone
<1>12. QED
  BY <1>1, <1>2, <1>3, <1>4, <1>5, <1>6, <1>7, <1>8, <1>9, <1>10, <1>11
     DEF Next, IoStep, WriteStep, Answer, Environment, Elsewhere, Writing, OnResolve, NextEndpoint

LEMMA OnWrittenCalls ==
  ASSUME OnWritten PROVE /\ mIsSending' <=> mWriteQueue # <<>>
                         /\ transmit' # NoWrite <=> mWriteQueue # <<>>
                         /\ mWriteQueue = <<>> => UNCHANGED mWriteQueue
BY DEF OnWritten, AsyncWrite, NoWrite

LEMMA MovesKeep ==
  ASSUME WriterTypes, Moves
  PROVE  (transmit' = NoWrite <=> transmit = NoWrite) /\ (transmit # NoWrite => transmit'.msg = transmit.msg)
BY DEF WriterTypes, Moves, NoWrite

LEMMA ServedStep == WsTypes /\ QueueIsServed /\ [Next]_vars => QueueIsServed'
<1> SUFFICES ASSUME WsTypes, QueueIsServed, [Next]_vars PROVE QueueIsServed'
  OBVIOUS
<1> USE DEF WsTypes, WriterTypes, QueueIsServed
<1>1. CASE UNCHANGED writer
  BY <1>1 DEF writer
<1>2. CASE Moves
  <2>1. transmit' = NoWrite <=> transmit = NoWrite
    BY <1>2, MovesKeep
  <2>2. QED
    BY <1>2, <2>1 DEF Moves
<1>3. CASE Write
  <2>1. Append(mWriteQueue, written') # <<>>
    BY AppendProperties
  <2>2. mIsSending' = TRUE /\ UNCHANGED writeErrors
    BY <1>3, <2>1 DEF Write, AsyncWrite
  <2>3. transmit' # NoWrite <=> ~mIsSending \/ transmit # NoWrite
    BY <1>3, <2>1 DEF Write, AsyncWrite, NoWrite
  <2>4. mIsSending => UNCHANGED transmit
    BY <1>3, <2>1 DEF Write, AsyncWrite
  <2>5. QED
    BY <2>2, <2>3, <2>4
<1>4. CASE OnWritten
  <2>1. writeErrors = 0 /\ writeErrors' = 0
    BY <1>4 DEF OnWritten
  <2>2. QED
    BY <1>4, <2>1, OnWrittenCalls
<1>5. CASE OnWriteError
  BY <1>5 DEF OnWriteError, CannotSend
<1>6. QED
  BY <1>1, <1>2, <1>3, <1>4, <1>5, StepOfWriter DEF Writing

-----------------------------------------------------------------------------
(* What has been written, from the first message sent to the last one queued. *)
InFlight == IF transmit = NoWrite THEN <<>> ELSE <<transmit.msg>>
All == sent \o InFlight \o mWriteQueue

LEMMA QueueIsHeadAndTail ==
  ASSUME NEW S, NEW q \in Seq(S), q # <<>> PROVE Head(q) \in S /\ Tail(q) \in Seq(S) /\ <<Head(q)>> \o Tail(q) = q
<1>1. Head(q) \in S /\ Tail(q) \in Seq(S)
  BY HeadTailProperties
<1>2. <<Head(q)>> \in Seq(S) /\ Len(<<Head(q)>>) = 1 /\ <<Head(q)>>[1] = Head(q)
  BY <1>1
<1>3. Len(<<Head(q)>> \o Tail(q)) = Len(q) /\ <<Head(q)>> \o Tail(q) \in Seq(S)
  BY <1>1, <1>2, HeadTailProperties, ConcatProperties, LenProperties
<1>4. ASSUME NEW i \in 1..Len(q) PROVE (<<Head(q)>> \o Tail(q))[i] = q[i]
  BY <1>1, <1>2, HeadTailProperties, ConcatProperties, LenProperties
<1>5. QED
  BY <1>1, <1>3, <1>4, SeqEqual, Zenon

LEMMA AllTypes == WriterTypes => InFlight \in Seq(Numbers) /\ All \in Seq(Numbers)
<1> SUFFICES ASSUME WriterTypes PROVE InFlight \in Seq(Numbers) /\ All \in Seq(Numbers)
  OBVIOUS
<1>1. InFlight \in Seq(Numbers)
  BY DEF InFlight, WriterTypes, NoWrite
<1>2. sent \o InFlight \in Seq(Numbers)
  BY <1>1, ConcatProperties DEF WriterTypes
<1>3. QED
  BY <1>1, <1>2, ConcatProperties DEF WriterTypes, All

(* Every step keeps that sequence, or appends to it what the user writes.    *)
LEMMA AllStep ==
  ASSUME WriterTypes, QueueIsServed, [Next]_vars, writeErrors' = 0
  PROVE  \/ All' = All /\ written' = written
         \/ written' = written + 1 /\ All' = Append(All, written + 1)
<1>1. CASE UNCHANGED writer
  BY <1>1 DEF writer, All, InFlight
<1>2. CASE Moves
  <2>1. InFlight' = InFlight
    BY <1>2, MovesKeep DEF InFlight
  <2>2. QED
    BY <1>2, <2>1 DEF Moves, All
<1>3. CASE Write
  <2> DEFINE m == written + 1
  <2>1. m \in Numbers
    BY DEF WriterTypes, Numbers
  <2>2. /\ written' = m /\ sent' = sent
        /\ AsyncWrite(Append(mWriteQueue, m), mIsSending)
    BY <1>3 DEF Write
  <2> HIDE DEF m
  <2>3. Append(mWriteQueue, m) # <<>>
    BY <2>1, AppendProperties DEF WriterTypes
  <2>4. CASE mIsSending
    <3>1. InFlight' = InFlight /\ mWriteQueue' = Append(mWriteQueue, m)
      BY <2>2, <2>4 DEF AsyncWrite, InFlight
    <3>2. sent \o InFlight \in Seq(Numbers)
      BY AllTypes, ConcatProperties DEF WriterTypes
    <3>3. mWriteQueue' = mWriteQueue \o <<m>> /\ <<m>> \in Seq(Numbers)
      BY <2>1, <3>1, AppendIsConcat DEF WriterTypes
    <3>4. All' = All \o <<m>>
      BY <2>2, <3>1, <3>2, <3>3, ConcatAssociative DEF WriterTypes, All
    <3>5. All' = Append(All, m)
      BY <2>1, <3>4, AllTypes, AppendIsConcat
    <3>6. QED
      BY <2>2, <3>5 DEF m
  <2>5. CASE ~mIsSending
    <3>1. mWriteQueue = <<>> /\ transmit = NoWrite
      BY <2>5 DEF QueueIsServed
    <3>2. Append(mWriteQueue, m) = <<m>>
      BY <3>1
    <3>3. mWriteQueue' = Tail(<<m>>) /\ transmit' = [on |-> "link", msg |-> Head(<<m>>)]
      BY <2>2, <2>3, <2>5, <3>2 DEF AsyncWrite
    <3>4. Tail(<<m>>) = <<>> /\ Head(<<m>>) = m
      OBVIOUS
    <3>5. InFlight' = <<m>> /\ InFlight = <<>> /\ <<m>> \in Seq(Numbers)
      BY <2>1, <3>1, <3>3, <3>4 DEF InFlight, NoWrite
    <3>6. All = sent
      BY <3>1, <3>5, ConcatEmptySeq DEF All, WriterTypes
    <3>7. sent \o <<m>> \in Seq(Numbers)
      BY <3>5, ConcatProperties DEF WriterTypes
    <3>8. All' = sent \o <<m>>
      BY <2>2, <3>3, <3>4, <3>5, <3>7, ConcatEmptySeq DEF All, WriterTypes
    <3>9. All' = Append(All, m)
      BY <2>1, <3>6, <3>8, AppendIsConcat DEF WriterTypes
    <3>10. QED
      BY <2>2, <3>9 DEF m
  <2>6. QED
    BY <2>4, <2>5
<1>4. CASE OnWritten
  <2>1. transmit # NoWrite /\ transmit.msg \in Numbers
    BY <1>4 DEF OnWritten, WriterTypes, NoWrite
  <2>2. sent' = sent \o <<transmit.msg>> /\ sent' \in Seq(Numbers) /\ InFlight = <<transmit.msg>>
    BY <1>4, <2>1, AppendIsConcat, AppendProperties DEF OnWritten, WriterTypes, InFlight
  <2>3. CASE mWriteQueue = <<>>
    <3>1. InFlight' = <<>> /\ mWriteQueue' = mWriteQueue
      BY <1>4, <2>3 DEF OnWritten, InFlight
    <3>2. All' = All
      BY <2>2, <3>1, ConcatEmptySeq DEF All
    <3>3. QED
      BY <1>4, <3>2 DEF OnWritten
  <2>4. CASE mWriteQueue # <<>>
    <3>1. mWriteQueue' = Tail(mWriteQueue) /\ InFlight' = <<Head(mWriteQueue)>>
      BY <1>4, <2>4 DEF OnWritten, AsyncWrite, InFlight, NoWrite
    <3>2. /\ <<Head(mWriteQueue)>> \in Seq(Numbers) /\ Tail(mWriteQueue) \in Seq(Numbers)
          /\ <<Head(mWriteQueue)>> \o Tail(mWriteQueue) = mWriteQueue
      BY <2>4, QueueIsHeadAndTail DEF WriterTypes
    <3>3. All' = sent' \o mWriteQueue
      BY <2>2, <3>1, <3>2, ConcatAssociative DEF All
    <3>4. All' = All
      BY <2>2, <3>3 DEF All
    <3>5. QED
      BY <1>4, <3>4 DEF OnWritten
  <2>5. QED
    BY <2>3, <2>4
<1>5. CASE OnWriteError
  BY <1>5 DEF OnWriteError, WriterTypes
<1>6. QED
  BY <1>1, <1>2, <1>3, <1>4, <1>5, StepOfWriter DEF Writing

LEMMA NoneLostStep ==
  WriterTypes /\ QueueIsServed /\ NoneLostOrTwice /\ [Next]_vars => NoneLostOrTwice'
<1> SUFFICES ASSUME WriterTypes, QueueIsServed, NoneLostOrTwice, [Next]_vars, writeErrors' = 0
             PROVE  All' = [i \in 1..written' |-> i]
  BY DEF NoneLostOrTwice, All, InFlight
<1>1. writeErrors = 0
  <2>1. CASE UNCHANGED writer \/ Moves \/ Write \/ OnWritten
    BY <2>1 DEF writer, Moves, Write, OnWritten
  <2>2. CASE OnWriteError
    BY <2>2 DEF OnWriteError, WriterTypes
  <2>3. QED
    BY <2>1, <2>2, StepOfWriter DEF Writing
<1>2. All = [i \in 1..written |-> i] /\ written \in Nat
  BY <1>1 DEF NoneLostOrTwice, All, InFlight, WriterTypes
<1>3. CASE All' = All /\ written' = written
  BY <1>2, <1>3
<1>4. CASE written' = written + 1 /\ All' = Append(All, written + 1)
  <2>1. All \in Seq(Numbers) /\ Len(All) = written
    BY <1>2, AllTypes, LenProperties
  <2>2. /\ All' \in Seq(Numbers) /\ Len(All') = written + 1 /\ All'[written + 1] = written + 1
        /\ \A i \in 1..written : All'[i] = i
    BY <1>2, <1>4, <2>1, AppendProperties DEF Numbers
  <2>3. All' \in [1..(written + 1) -> Numbers]
    BY <2>2, LenProperties
  <2>4. \A i \in 1..(written + 1) : All'[i] = i
    BY <1>2, <2>2
  <2>5. All' = [i \in 1..(written + 1) |-> i]
    BY <2>3, <2>4
  <2>6. QED
    BY <1>4, <2>5
<1>5. QED
  BY <1>1, <1>3, <1>4, AllStep DEF WriterTypes

-----------------------------------------------------------------------------
(* As long as nobody overtakes it, what a handler has started is under way.  *)
Begun ==
  overtaken = 0 /\ ~gaveUp => \A t \in IoThreads :
    /\ handler[t] = "connected" => Shaking > 0
    /\ handler[t] = "reading" => reading + readsDone > 0

(* The one thing that the client waits for, if no handler was overtaken and  *)
(* no answer raced the timer: a lookup, an attempt, and so on, or, once it   *)
(* has given up, nothing.                                                    *)
NoEnd == \A i \in 1..Len(jobs) : jobs[i] # "end"
LastIsEnd == Len(jobs) > 0 /\ jobs[Len(jobs)] = "end" /\ \A i \in 1..(Len(jobs) - 1) : jobs[i] # "end"
Waits(lookups, attempts, expired, handshakes, reads) ==
  /\ resolves = lookups /\ connects + connectsDone = attempts /\ timeouts = expired
  /\ Shaking = handshakes /\ reading + readsDone = reads
Nobody == \A t \in IoThreads : handler[t] = "idle"
Only(step) == \E t \in IoThreads : /\ handler[t] = step
                                   /\ \A u \in IoThreads \ {t} : handler[u] = "idle"
NobodyTold == \A c \in CallbackThreads : slot[c] = "idle"
OneTold == \E c \in CallbackThreads : /\ slot[c] = "told"
                                      /\ \A d \in CallbackThreads \ {c} : slot[d] = "idle"

LookingUp == Waits(1, 0, 0, 0, 0) /\ ~timer /\ Nobody /\ NobodyTold /\ ~connected
Attempting == /\ Waits(0, 1, 0, 0, 0) /\ (connects = 1 => link = "closed") /\ NobodyTold /\ ~connected
              /\ IF timer THEN Nobody ELSE Only("resolved")
Refused == Waits(0, 0, 0, 0, 0) /\ timer /\ Nobody /\ NobodyTold /\ ~connected
TimedOut == Waits(0, 0, 1, 0, 0) /\ ~timer /\ Nobody /\ NobodyTold /\ ~connected
ShakingHands == /\ Waits(0, 0, 0, 1, 0) /\ NobodyTold /\ ~connected
                /\ IF timer THEN Only("connected") ELSE Nobody
Reading == /\ Waits(0, 0, 0, 0, 1) /\ ~timer /\ NobodyTold /\ NoEnd
           /\ IF connected THEN Nobody ELSE Only("reading")
Posted == Waits(0, 0, 0, 0, 0) /\ ~timer /\ Nobody /\ NobodyTold /\ connected /\ LastIsEnd
Telling == Waits(0, 0, 0, 0, 0) /\ ~timer /\ Nobody /\ OneTold /\ ~connected
GivenUp == Waits(0, 0, 0, 0, 0) /\ ~timer /\ Nobody /\ NobodyTold /\ NoEnd /\ gaveUp

Stage == /\ ~connected => jobs = <<>>
         /\ \/ LookingUp \/ Attempting \/ Refused \/ TimedOut
            \/ ShakingHands \/ Reading \/ Posted \/ Telling \/ GivenUp
OneAtATime == overtaken = 0 /\ ~late => Stage

LEMMA Nobodys == StateTypes => (Nobody <=> InHandler = {})
BY DEF StateTypes, Nobody, InHandler

(* Who takes a handler while no other thread is in one overtakes nobody.     *)
LEMMA TakenAlone == NumberTypes /\ IoReady /\ overtaken' = 0 => overtaken = 0 /\ InHandler = {}
BY DEF IoReady, NumberTypes

LEMMA BegunStep == WsTypes /\ Begun /\ [Next]_vars => Begun'
<1> SUFFICES ASSUME WsTypes, Begun, [Next]_vars, overtaken' = 0, ~gaveUp'
             PROVE  \A t \in IoThreads : /\ handler'[t] = "connected" => Shaking' > 0
                                         /\ handler'[t] = "reading" => reading' + readsDone' > 0
  BY DEF Begun
<1>1. IoReady => overtaken = 0 /\ Nobody
  BY TakenAlone, Nobodys DEF WsTypes
<1> USE DEF WsTypes, NumberTypes, StateTypes
<1>2. CASE \E t \in IoThreads : OnResolve(t)
  BY <1>1, <1>2 DEF OnResolve, Begin, Nobody
<1>3. CASE \E t \in IoThreads : ArmTimer(t) \/ CancelTimer(t)
  BY <1>3 DEF ArmTimer, CancelTimer, Proceed, told, stream, done, Begun, Shaking
<1>4. CASE \E t \in IoThreads : SignalConnection(t)
  BY <1>4 DEF SignalConnection, Proceed, stream, done, Begun, Shaking
<1>5. CASE \E t \in IoThreads : OnConnect(t)
  BY <1>1, <1>5 DEF OnConnect, Begin, Nobody, Shaking
<1>6. CASE \E t \in IoThreads : OnHandshake(t)
  BY <1>1, <1>6 DEF OnHandshake, Begin, Nobody
<1>7. CASE OnResolveError \/ OnTimeout \/ OnConnectError
  BY <1>1, <1>7 DEF OnResolveError, OnTimeout, OnConnectError, Nobody
<1>8. CASE OnSslHandshake \/ OnHandshakeError \/ OnRead \/ OnReadEnd \/ OnReadError
  BY <1>1, <1>8 DEF OnSslHandshake, OnHandshakeError, OnRead, OnReadEnd, OnReadError, Nobody
<1>9. CASE NextEndpoint
  <2>1. /\ ~gaveUp /\ overtaken = 0 /\ ~(sslShakes + shakes + reading > 0) /\ handler' = handler
    BY <1>9, Zenon DEF NextEndpoint, attempt
  <2>2. sslShakes = 0 /\ shakes = 0 /\ reading = 0
    BY <2>1
  <2>3. /\ sslShakes' = 0 /\ shakes' = 0 /\ reading' = 0 /\ UNCHANGED <<sslDone, shakesDone, readsDone>>
    BY <1>9 DEF NextEndpoint, CloseSocket
  <2>4. QED
    BY <2>1, <2>2, <2>3 DEF Begun, Shaking
<1>10. CASE Expire
  BY <1>10 DEF Expire, attempt, stream, done, told, Begun, Shaking
<1>11. CASE \E how \in {"ended", "failed"} : PeerEnds(how)
  BY <1>11 DEF PeerEnds, attempt, done, told, Begun, Shaking
<1>12. CASE \E c \in CallbackThreads : CallbackStep(c)
  BY <1>12 DEF CallbackStep, SignalOnRx, SignalDisconnect, Reconnect, attempt, stream, done, told, Begun, Shaking
<1>13. CASE ConnectDone
  BY <1>13 DEF ConnectDone, told, Begun, Shaking
<1>14. CASE SslDone \/ ShakeDone
  <2>1. /\ UNCHANGED <<handler, overtaken, gaveUp, reading, readsDone>> /\ Shaking' = Shaking
    <3>1. CASE SslDone
      BY <3>1 DEF SslDone, attempt, told, Shaking
    <3>2. CASE ShakeDone
      BY <3>2 DEF ShakeDone, attempt, told, Shaking
    <3>3. QED
      BY <1>14, <3>1, <3>2
  <2>2. QED
    BY <2>1 DEF Begun
<1>15. CASE ReadDone
  BY <1>15 DEF ReadDone, attempt, told, Begun, Shaking
<1>16. CASE Writing
  BY <1>1, <1>16, StepOfWriting DEF Nobody
<1>17. CASE WriteDone
  BY <1>17, StepOfWriteDone DEF Begun, Shaking
<1>18. CASE UNCHANGED vars
  BY <1>18 DEF vars, attempt, stream, done, told, Begun, Shaking
<1>19. QED
  BY <1>2, <1>3, <1>4, <1>5, <1>6, <1>7, <1>8, <1>9, <1>10, <1>11, <1>12, <1>13, <1>14, <1>15, <1>16, <1>17, <1>18
     DEF Next, IoStep, WriteStep, Answer, Environment, Writing

(* The jobs that are taken and posted.                                       *)
LEMMA RxTaken ==
  ASSUME StateTypes, NEW c, TakeJob(c, "rx")
  PROVE  /\ jobs # <<>>
         /\ NoEnd => NoEnd'
         /\ LastIsEnd => LastIsEnd'
         /\ EndQueued => EndQueued'
<1>1. /\ Len(jobs) \in Nat /\ Len(jobs) > 0 /\ jobs[1] = "rx" /\ Len(jobs') = Len(jobs) - 1
      /\ \A i \in 1..Len(jobs') : jobs'[i] = jobs[i + 1]
  BY JobsTaken
<1>2. NoEnd => NoEnd'
  BY <1>1 DEF NoEnd
<1>3. LastIsEnd => LastIsEnd'
  <2>1. SUFFICES ASSUME LastIsEnd PROVE LastIsEnd'
    OBVIOUS
  <2>2. Len(jobs) > 1
    BY <1>1, <2>1 DEF LastIsEnd
  <2>3. QED
    BY <1>1, <2>1, <2>2 DEF LastIsEnd
<1>4. ASSUME EndQueued PROVE EndQueued'
  <2>1. PICK i \in 1..Len(jobs) : jobs[i] = "end"
    BY <1>4 DEF EndQueued
  <2>2. i - 1 \in 1..Len(jobs') /\ jobs'[i - 1] = "end"
    BY <1>1, <2>1
  <2>3. QED
    BY <2>2 DEF EndQueued
<1>5. QED
  BY <1>2, <1>3, <1>4 DEF TakeJob

LEMMA EndTaken ==
  ASSUME StateTypes, NEW c, TakeJob(c, "end")
  PROVE  /\ jobs # <<>> /\ ~NoEnd
         /\ LastIsEnd => jobs' = <<>>
<1>1. /\ jobs' \in Seq({"rx", "end"}) /\ Len(jobs) \in Nat /\ Len(jobs) > 0 /\ jobs[1] = "end"
      /\ Len(jobs') = Len(jobs) - 1
  BY JobsTaken
<1>2. ASSUME LastIsEnd PROVE jobs' = <<>>
  <2>1. Len(jobs) = 1
    BY <1>1, <1>2 DEF LastIsEnd
  <2>2. Len(jobs') = 0
    BY <1>1, <2>1
  <2>3. QED
    BY <1>1, <2>2, EmptySeq, LenProperties
<1>3. ~NoEnd
  BY <1>1 DEF NoEnd
<1>4. QED
  BY <1>2, <1>3 DEF TakeJob

LEMMA Posting ==
  ASSUME StateTypes, NEW job \in {"rx", "end"}, jobs' = Append(jobs, job)
  PROVE  /\ job = "rx" /\ NoEnd => NoEnd'
         /\ job = "end" /\ NoEnd => LastIsEnd'
         /\ job = "end" \/ EndQueued => EndQueued'
<1>1. /\ Len(jobs) \in Nat /\ Len(jobs') = Len(jobs) + 1 /\ jobs'[Len(jobs')] = job
      /\ \A i \in 1..Len(jobs) : jobs'[i] = jobs[i]
  BY JobsPosted
<1>2. QED
  BY <1>1 DEF NoEnd, LastIsEnd, EndQueued

LEMMA NeverAtRestStep == WsTypes /\ Begun /\ NeverAtRest /\ [Next]_vars => NeverAtRest'
<1> SUFFICES ASSUME WsTypes, Begun, NeverAtRest, [Next]_vars, overtaken' = 0, ~gaveUp'
             PROVE  Trying'
  BY DEF NeverAtRest
<1>1. IoReady => overtaken = 0 /\ InHandler = {}
  BY TakenAlone DEF WsTypes
<1> USE DEF WsTypes, NumberTypes
<1>2. ASSUME NEW t \in IoThreads, handler'[t] # "idle" PROVE Trying'
  BY <1>2 DEF Trying, InHandler
<1>3. ASSUME NEW t \in IoThreads, OnResolve(t) \/ OnConnect(t) \/ OnHandshake(t) PROVE Trying'
  BY <1>2, <1>3 DEF OnResolve, OnConnect, OnHandshake, Begin, StateTypes
<1>4. CASE \E t \in IoThreads : ArmTimer(t)
  BY <1>4 DEF ArmTimer, Trying
<1>5. ASSUME NEW t \in IoThreads, CancelTimer(t) \/ SignalConnection(t) PROVE Trying'
  <2>1. Underway > 0
    BY <1>5 DEF CancelTimer, SignalConnection, Proceed, Begun, told, Underway, Shaking
  <2>2. Underway' = Underway
    BY <1>5 DEF CancelTimer, SignalConnection, stream, done, Underway, Shaking
  <2>3. QED
    BY <2>1, <2>2 DEF Trying
<1>6. CASE OnResolveError \/ OnHandshakeError \/ OnReadError
  BY <1>6 DEF OnResolveError, OnHandshakeError, OnReadError
<1>7. CASE OnConnectError
  <2>1. Trying /\ InHandler = {}
    BY <1>1, <1>7 DEF OnConnectError, NeverAtRest, told
  <2>2. /\ UNCHANGED <<resolves, timer, timeouts, jobs, slot>> /\ Underway' = Underway
    BY <1>7 DEF OnConnectError, clock, stream, done, callbacks, Underway, Shaking
  <2>3. QED
    BY <2>1, <2>2 DEF Trying, EndQueued
<1>8. CASE NextEndpoint
  <2>1. /\ ~gaveUp /\ overtaken = 0 /\ ~(sslShakes + shakes + reading > 0)
    BY <1>8, Zenon DEF NextEndpoint, attempt
  <2>2. /\ sslShakes = 0 /\ shakes = 0 /\ reading = 0
        /\ sslShakes' = 0 /\ shakes' = 0 /\ reading' = 0
        /\ UNCHANGED <<connectsDone, sslDone, shakesDone, readsDone>>
    BY <1>8, <2>1 DEF NextEndpoint, CloseSocket
  <2>3. Trying /\ Underway' = Underway
    BY <2>1, <2>2 DEF NeverAtRest, Underway, Shaking
  <2>4. /\ UNCHANGED <<resolves, timer, timeouts, jobs, slot, handler>>
    BY <1>8 DEF NextEndpoint, attempt, clock, callbacks
  <2>5. QED
    BY <2>3, <2>4 DEF Trying, EndQueued, InHandler
<1>9. CASE Expire
  BY <1>9 DEF Expire, Trying
<1>10. CASE OnTimeout
  BY <1>10 DEF OnTimeout, Trying
<1>11. CASE ConnectDone \/ SslDone \/ ShakeDone \/ ReadDone \/ OnSslHandshake \/ OnRead
  <2> USE DEF Underway, Shaking
  <2>1. CASE ConnectDone
    BY <2>1 DEF ConnectDone, Trying
  <2>2. CASE SslDone
    BY <2>2 DEF SslDone, Trying
  <2>3. CASE ShakeDone
    BY <2>3 DEF ShakeDone, Trying
  <2>4. CASE ReadDone
    BY <2>4 DEF ReadDone, Trying
  <2>5. CASE OnSslHandshake
    BY <2>5 DEF OnSslHandshake, Trying
  <2>6. CASE OnRead
    BY <2>6 DEF OnRead, Trying
  <2>7. QED
    BY <1>11, <2>1, <2>2, <2>3, <2>4, <2>5, <2>6
<1>12. CASE OnReadEnd
  <2>1. EndQueued'
    BY <1>12, Posting DEF OnReadEnd
  <2>2. QED
    BY <2>1 DEF Trying
<1>13. CASE \E how \in {"ended", "failed"} : PeerEnds(how)
  <2>1. /\ UNCHANGED <<resolves, timer, timeouts, jobs, slot, handler, overtaken, gaveUp>> /\ Underway' = Underway
    BY <1>13 DEF PeerEnds, attempt, clock, done, callbacks, told, Underway, Shaking
  <2>2. QED
    BY <2>1 DEF NeverAtRest, Trying, InHandler, EndQueued
<1>14. ASSUME NEW c \in CallbackThreads, SignalOnRx(c) PROVE Trying'
  <2>1. /\ UNCHANGED <<resolves, timer, timeouts, slot, handler, overtaken, gaveUp>> /\ Underway' = Underway
    BY <1>14 DEF SignalOnRx, attempt, clock, stream, done, told, Underway, Shaking
  <2>2. EndQueued => EndQueued'
    BY <1>14, RxTaken DEF SignalOnRx
  <2>3. QED
    BY <2>1, <2>2 DEF NeverAtRest, Trying, InHandler
<1>15. ASSUME NEW c \in CallbackThreads, SignalDisconnect(c) PROVE Trying'
  <2>1. slot'[c] = "told"
    BY <1>15 DEF SignalDisconnect, StateTypes
  <2>2. QED
    BY <2>1 DEF Trying
<1>16. CASE \E c \in CallbackThreads : Reconnect(c)
  BY <1>16 DEF Reconnect, Trying
<1>17. CASE Writing \/ WriteDone \/ UNCHANGED vars
  <2>1. /\ UNCHANGED <<resolves, timer, timeouts, jobs, slot, handler, gaveUp>> /\ Underway' = Underway
    BY <1>17, StepOfWriting, StepOfWriteDone
       DEF vars, attempt, clock, stream, done, callbacks, told, Underway, Shaking
  <2>2. overtaken = 0
    BY <1>1, <1>17, StepOfWriting, StepOfWriteDone DEF vars, attempt
  <2>3. QED
    BY <2>1, <2>2 DEF NeverAtRest, Trying, InHandler, EndQueued
<1>18. QED
  BY <1>3, <1>4, <1>5, <1>6, <1>7, <1>8, <1>9, <1>10, <1>11, <1>12, <1>13, <1>14, <1>15, <1>16, <1>17
     DEF Next, IoStep, WriteStep, Answer, Environment, CallbackStep, Writing

-----------------------------------------------------------------------------
(* A race and an overtaken handler are remembered for good.                  *)
LEMMA Remembered ==
  NumberTypes /\ FlagTypes /\ [Next]_vars /\ overtaken' = 0 /\ ~late' => overtaken = 0 /\ ~late
<1> SUFFICES ASSUME NumberTypes, FlagTypes, [Next]_vars, overtaken' = 0, ~late'
             PROVE  overtaken = 0 /\ ~late
  OBVIOUS
<1>1. IoReady => overtaken = 0
  BY TakenAlone
<1>2. CASE \E t \in IoThreads : OnResolve(t) \/ OnConnect(t) \/ OnHandshake(t)
  BY <1>1, <1>2 DEF OnResolve, OnConnect, OnHandshake, Begin, bounds
<1>3. CASE \E t \in IoThreads : ArmTimer(t) \/ CancelTimer(t) \/ SignalConnection(t)
  BY <1>3 DEF ArmTimer, CancelTimer, SignalConnection, Proceed, bounds
<1>4. CASE OnResolveError \/ OnTimeout \/ OnConnectError
  BY <1>1, <1>4 DEF OnResolveError, OnTimeout, OnConnectError, bounds
<1>5. CASE OnSslHandshake \/ OnHandshakeError \/ OnRead \/ OnReadEnd \/ OnReadError
  BY <1>1, <1>5 DEF OnSslHandshake, OnHandshakeError, OnRead, OnReadEnd, OnReadError, bounds
<1>6. CASE NextEndpoint \/ ConnectDone \/ SslDone \/ ShakeDone \/ ReadDone
  BY <1>6 DEF NextEndpoint, ConnectDone, SslDone, ShakeDone, ReadDone, attempt, bounds
<1>7. CASE Expire \/ \E how \in {"ended", "failed"} : PeerEnds(how)
  BY <1>7 DEF Expire, PeerEnds, attempt
<1>8. CASE \E c \in CallbackThreads : CallbackStep(c)
  BY <1>8 DEF CallbackStep, SignalOnRx, SignalDisconnect, Reconnect, attempt, bounds
<1>9. CASE Writing \/ WriteDone
  BY <1>1, <1>9, StepOfWriting, StepOfWriteDone
<1>10. CASE UNCHANGED vars
  BY <1>10 DEF vars, attempt, bounds
<1>11. QED
  BY <1>2, <1>3, <1>4, <1>5, <1>6, <1>7, <1>8, <1>9, <1>10
     DEF Next, IoStep, WriteStep, Answer, Environment, Writing

(* Steps that change nothing the client waits for: a completion is queued or *)
(* the peer goes away.                                                       *)
LEMMA StageKept ==
  ASSUME NumberTypes, Stage,
         UNCHANGED <<resolves, connects, connectsDone, timeouts>>,
         UNCHANGED <<timer, handler, slot, jobs, connected, gaveUp>>,
         Shaking' = Shaking, reading' + readsDone' = reading + readsDone, link' = link \/ link # "closed"
  PROVE  Stage'
<1>1. /\ Nobody' <=> Nobody
      /\ NobodyTold' <=> NobodyTold
      /\ OneTold' <=> OneTold
      /\ NoEnd' <=> NoEnd
      /\ LastIsEnd' <=> LastIsEnd
      /\ \A step : Only(step)' <=> Only(step)
  BY DEF Nobody, NobodyTold, OneTold, Only, NoEnd, LastIsEnd
<1>3. LookingUp => LookingUp'
  BY <1>1 DEF LookingUp, Waits
<1>4. Refused => Refused'
  BY <1>1 DEF Refused, Waits
<1>5. TimedOut => TimedOut'
  BY <1>1 DEF TimedOut, Waits
<1>6. Posted => Posted'
  BY <1>1 DEF Posted, Waits
<1>7. Telling => Telling'
  BY <1>1 DEF Telling, Waits
<1>8. GivenUp => GivenUp'
  BY <1>1 DEF GivenUp, Waits
<1>9. Attempting => Attempting'
  <2>1. SUFFICES ASSUME Attempting PROVE Attempting'
    OBVIOUS
  <2>2. connects' = 1 => link' = "closed"
    BY <2>1 DEF Attempting
  <2>3. QED
    BY <1>1, <2>1, <2>2 DEF Attempting, Waits
<1>10. ShakingHands => ShakingHands'
  BY <1>1 DEF ShakingHands, Waits
<1>11. Reading => Reading'
  BY <1>1 DEF Reading, Waits
<1>12. QED
  BY <1>3, <1>4, <1>5, <1>6, <1>7, <1>8, <1>9, <1>10, <1>11 DEF Stage

LEMMA StageOf ==
  ASSUME NumberTypes, Stage
  PROVE  /\ resolves > 0 => LookingUp
         /\ connects + connectsDone > 0 => Attempting
         /\ timeouts > 0 => TimedOut
         /\ Shaking > 0 => ShakingHands
         /\ reading + readsDone > 0 => Reading
         /\ ~NoEnd /\ jobs # <<>> => Posted
BY DEF NumberTypes, Stage, LookingUp, Attempting, Refused, TimedOut, ShakingHands, Reading, Posted, Telling,
       GivenUp, Waits

LEMMA StageOfThread ==
  ASSUME Stage, NEW t \in IoThreads
  PROVE  /\ handler[t] = "resolved" => Attempting /\ ~timer /\ Only("resolved")
         /\ handler[t] = "connected" => ShakingHands /\ timer /\ Only("connected")
         /\ handler[t] = "reading" => Reading /\ ~connected /\ Only("reading")
<1>1. ASSUME NEW step, Only(step), handler[t] # "idle" PROVE handler[t] = step
  BY <1>1 DEF Only
<1>2. Nobody => handler[t] = "idle"
  BY DEF Nobody
<1>3. /\ Attempting /\ handler[t] # "idle" => ~timer /\ Only("resolved") /\ handler[t] = "resolved"
      /\ ShakingHands /\ handler[t] # "idle" => timer /\ Only("connected") /\ handler[t] = "connected"
      /\ Reading /\ handler[t] # "idle" => ~connected /\ Only("reading") /\ handler[t] = "reading"
  BY <1>1, <1>2 DEF Attempting, ShakingHands, Reading
<1>4. handler[t] # "idle" => Attempting \/ ShakingHands \/ Reading
  BY <1>2 DEF Stage, LookingUp, Refused, TimedOut, Posted, Telling, GivenUp
<1>5. QED
  BY <1>3, <1>4

LEMMA StageOfCallback ==
  ASSUME Stage, NEW c \in CallbackThreads, slot[c] = "told" PROVE Telling
BY DEF Stage, LookingUp, Attempting, Refused, TimedOut, ShakingHands, Reading, Posted, GivenUp, NobodyTold

(* One thread begins a handler, or is the one that goes on.                  *)
LEMMA OnlyOne ==
  ASSUME NEW t \in IoThreads, NEW step, NEW to, StateTypes, handler' = [handler EXCEPT ![t] = to]
  PROVE  /\ Nobody => Only(to)'
         /\ Only(step) /\ handler[t] = step /\ step # "idle" /\ to = "idle" => Nobody'
BY DEF StateTypes, Nobody, Only

LEMMA StageStep ==
  ASSUME WsTypes, Stage, overtaken = 0, [Next]_vars, overtaken' = 0, ~late'
  PROVE  Stage'
<1> USE DEF WsTypes, NumberTypes
<1>1. IoReady => Nobody
  BY TakenAlone, Nobodys
<1>2. ASSUME NEW step, step # "idle", Only(step) PROVE ~Nobody
  BY <1>2 DEF Only, Nobody
<1>3. ~connected => jobs = <<>>
  BY DEF Stage
<1>4. ASSUME NEW t \in IoThreads, OnResolve(t) PROVE Stage'
  <2>1. LookingUp /\ Nobody /\ handler' = [handler EXCEPT ![t] = "resolved"]
    BY <1>1, <1>4, StageOf DEF OnResolve, Begin
  <2>2. Only("resolved")'
    BY <2>1, OnlyOne
  <2>3. /\ resolves = 1 /\ connects = 0 /\ connectsDone = 0 /\ timeouts = 0 /\ sslDone = 0 /\ shakesDone = 0
        /\ readsDone = 0
    BY <2>1 DEF LookingUp, Waits, Shaking
  <2>4. /\ resolves' = 0 /\ connects' = 1 /\ connectsDone' = 0 /\ timeouts' = 0 /\ sslDone' = 0 /\ shakesDone' = 0
        /\ readsDone' = 0 /\ sslShakes' = 0 /\ shakes' = 0 /\ reading' = 0
        /\ link' = "closed" /\ timer' = FALSE /\ connected' = connected /\ slot' = slot /\ jobs' = jobs
    BY <1>4, <2>3 DEF OnResolve, CloseSocket, callbacks, told
  <2>5. Waits(0, 1, 0, 0, 0)'
    BY <2>4 DEF Waits, Shaking
  <2>6. NobodyTold' /\ ~connected'
    BY <2>1, <2>4 DEF LookingUp, NobodyTold
  <2>7. QED
    BY <1>3, <2>2, <2>4, <2>5, <2>6 DEF Stage, Attempting
<1>5. ASSUME NEW t \in IoThreads, ArmTimer(t) PROVE Stage'
  <2>1. Attempting /\ ~timer /\ Only("resolved") /\ handler[t] = "resolved" /\ handler' = [handler EXCEPT ![t] = "idle"]
    BY <1>5, StageOfThread DEF ArmTimer, Proceed
  <2>2. Nobody'
    BY <2>1, OnlyOne
  <2>3. /\ UNCHANGED <<resolves, connects, connectsDone, timeouts, reading, readsDone, link, connected, slot, jobs>>
        /\ Shaking' = Shaking /\ timer' = TRUE
    BY <1>5 DEF ArmTimer, callbacks, stream, done, told, Shaking
  <2>4. Waits(0, 1, 0, 0, 0)' /\ NobodyTold' /\ ~connected' /\ (connects' = 1 => link' = "closed")
    BY <2>1, <2>3 DEF Attempting, Waits, NobodyTold
  <2>5. QED
    BY <1>3, <2>2, <2>3, <2>4 DEF Stage, Attempting
<1>6. ASSUME NEW t \in IoThreads, OnConnect(t) PROVE Stage'
  <2>1. Attempting /\ Nobody /\ handler' = [handler EXCEPT ![t] = "connected"]
    BY <1>1, <1>6, StageOf DEF OnConnect, Begin
  <2>2. timer
    BY <1>2, <2>1 DEF Attempting
  <2>3. Only("connected")'
    BY <2>1, OnlyOne
  <2>4. /\ connectsDone' = connectsDone - 1 /\ connectsDone > 0
        /\ UNCHANGED <<resolves, connects, timeouts, sslDone, shakesDone, reading, readsDone, timer, connected>>
        /\ UNCHANGED <<slot, jobs>>
    BY <1>6 DEF OnConnect, callbacks, clock, told
  <2>5. \/ sslShakes' = sslShakes + 1 /\ shakes' = shakes
        \/ shakes' = shakes + 1 /\ sslShakes' = sslShakes
    BY <1>6 DEF OnConnect
  <2>6. Waits(0, 0, 0, 1, 0)'
    <3>1. connects = 0 /\ connectsDone = 1 /\ sslShakes + sslDone + shakes + shakesDone = 0
      BY <2>1, <2>4 DEF Attempting, Waits, Shaking
    <3>2. sslShakes = 0 /\ shakes = 0 /\ sslDone = 0 /\ shakesDone = 0
      BY <3>1
    <3>3. sslShakes' + sslDone' + shakes' + shakesDone' = 1
      BY <2>4, <2>5, <3>2
    <3>4. connects' + connectsDone' = 0
      BY <2>4, <3>1
    <3>5. resolves' = 0 /\ timeouts' = 0 /\ reading' + readsDone' = 0
      BY <2>1, <2>4 DEF Attempting, Waits
    <3>6. QED
      BY <3>3, <3>5, <3>4 DEF Waits, Shaking
  <2>7. NobodyTold' /\ ~connected'
    BY <2>1, <2>4 DEF Attempting, NobodyTold
  <2>8. QED
    BY <1>3, <2>2, <2>3, <2>4, <2>6, <2>7 DEF Stage, ShakingHands
<1>7. ASSUME NEW t \in IoThreads, CancelTimer(t) PROVE Stage'
  <2>1. ShakingHands /\ Only("connected") /\ handler[t] = "connected" /\ handler' = [handler EXCEPT ![t] = "idle"]
    BY <1>7, StageOfThread DEF CancelTimer, Proceed
  <2>2. Nobody'
    BY <2>1, OnlyOne
  <2>3. /\ UNCHANGED <<resolves, connects, connectsDone, timeouts, reading, readsDone, link, connected, slot, jobs>>
        /\ Shaking' = Shaking /\ timer' = FALSE
    BY <1>7 DEF CancelTimer, callbacks, stream, done, told, Shaking
  <2>4. Waits(0, 0, 0, 1, 0)' /\ NobodyTold' /\ ~connected'
    BY <2>1, <2>3 DEF ShakingHands, Waits, NobodyTold
  <2>5. QED
    BY <1>3, <2>2, <2>3, <2>4 DEF Stage, ShakingHands
<1>8. ASSUME NEW t \in IoThreads, OnHandshake(t) PROVE Stage'
  <2>1. ShakingHands /\ Nobody /\ handler' = [handler EXCEPT ![t] = "reading"]
    BY <1>1, <1>8, StageOf DEF OnHandshake, Begin, Shaking
  <2>2. ~timer
    BY <1>2, <2>1 DEF ShakingHands
  <2>3. Only("reading")'
    BY <2>1, OnlyOne
  <2>4. /\ shakesDone' = shakesDone - 1 /\ shakesDone > 0 /\ reading' = reading + 1
        /\ UNCHANGED <<resolves, connects, connectsDone, timeouts, sslShakes, shakes, sslDone, readsDone, timer>>
        /\ UNCHANGED <<connected, slot, jobs>>
    BY <1>8 DEF OnHandshake, callbacks, clock, told
  <2>5. Waits(0, 0, 0, 0, 1)'
    BY <2>1, <2>4 DEF ShakingHands, Waits, Shaking
  <2>6. NobodyTold' /\ ~connected' /\ jobs' = <<>>
    BY <1>3, <2>1, <2>4 DEF ShakingHands, NobodyTold
  <2>7. NoEnd'
    BY <2>6 DEF NoEnd
  <2>8. QED
    BY <2>2, <2>3, <2>4, <2>5, <2>6, <2>7 DEF Stage, Reading
<1>9. ASSUME NEW t \in IoThreads, SignalConnection(t) PROVE Stage'
  <2>1. Reading /\ Only("reading") /\ handler[t] = "reading" /\ handler' = [handler EXCEPT ![t] = "idle"]
    BY <1>9, StageOfThread DEF SignalConnection, Proceed
  <2>2. Nobody'
    BY <2>1, OnlyOne
  <2>3. /\ UNCHANGED <<resolves, connects, connectsDone, timeouts, reading, readsDone, timer, slot, jobs>>
        /\ Shaking' = Shaking /\ connected' = TRUE
    BY <1>9 DEF SignalConnection, callbacks, clock, stream, done, Shaking
  <2>4. Waits(0, 0, 0, 0, 1)' /\ NobodyTold' /\ NoEnd' /\ ~timer'
    BY <2>1, <2>3 DEF Reading, Waits, NobodyTold, NoEnd
  <2>5. QED
    BY <2>2, <2>3, <2>4 DEF Stage, Reading
<1>10. CASE OnResolveError
  <2>1. LookingUp /\ Nobody
    BY <1>1, <1>10, StageOf DEF OnResolveError
  <2>2. /\ resolves' = resolves - 1 /\ gaveUp' = TRUE
        /\ UNCHANGED <<connects, connectsDone, timeouts, reading, readsDone, handler, connected, slot, jobs, timer>>
        /\ Shaking' = Shaking
    BY <1>10 DEF OnResolveError, clock, stream, done, callbacks, Shaking
  <2>3. Waits(0, 0, 0, 0, 0)' /\ ~timer' /\ Nobody' /\ NobodyTold' /\ ~connected' /\ jobs' = <<>>
    BY <1>3, <2>1, <2>2 DEF LookingUp, Waits, Nobody, NobodyTold
  <2>4. NoEnd'
    BY <2>3 DEF NoEnd
  <2>5. QED
    BY <2>2, <2>3, <2>4 DEF Stage, GivenUp
<1>11. CASE OnHandshakeError
  <2>1. ShakingHands /\ Nobody
    BY <1>1, <1>11, StageOf DEF OnHandshakeError, Shaking
  <2>2. ~timer
    BY <1>2, <2>1 DEF ShakingHands
  <2>3. \/ sslShakes > 0 /\ sslShakes' = sslShakes - 1 /\ shakes' = shakes
        \/ shakes > 0 /\ shakes' = shakes - 1 /\ sslShakes' = sslShakes
    BY <1>11 DEF OnHandshakeError
  <2>4. /\ gaveUp' = TRUE
        /\ UNCHANGED <<resolves, connects, connectsDone, timeouts, reading, readsDone, sslDone, shakesDone>>
        /\ UNCHANGED <<handler, connected, slot, jobs, timer>>
    BY <1>11 DEF OnHandshakeError, clock, done, callbacks
  <2>5. sslShakes' = 0 /\ shakes' = 0 /\ sslDone' = 0 /\ shakesDone' = 0
    <3>1. sslShakes + sslDone + shakes + shakesDone = 1
      BY <2>1 DEF ShakingHands, Waits, Shaking
    <3>2. CASE sslShakes > 0 /\ sslShakes' = sslShakes - 1 /\ shakes' = shakes
      <4>1. sslShakes = 1 /\ shakes = 0 /\ sslDone = 0 /\ shakesDone = 0
        BY <3>1, <3>2
      <4>2. QED
        BY <2>4, <3>2, <4>1
    <3>3. CASE shakes > 0 /\ shakes' = shakes - 1 /\ sslShakes' = sslShakes
      <4>1. sslShakes = 0 /\ shakes = 1 /\ sslDone = 0 /\ shakesDone = 0
        BY <3>1, <3>3
      <4>2. QED
        BY <2>4, <3>3, <4>1
    <3>4. QED
      BY <2>3, <3>2, <3>3
  <2>6. Waits(0, 0, 0, 0, 0)'
    <3>1. sslShakes' + sslDone' + shakes' + shakesDone' = 0
      BY <2>5
    <3>2. resolves' = 0 /\ connects' + connectsDone' = 0 /\ timeouts' = 0 /\ reading' + readsDone' = 0
      BY <2>1, <2>4 DEF ShakingHands, Waits
    <3>3. QED
      BY <3>1, <3>2 DEF Waits, Shaking
  <2>7. ~timer' /\ Nobody' /\ NobodyTold' /\ ~connected' /\ jobs' = <<>>
    BY <1>3, <2>1, <2>2, <2>4 DEF ShakingHands, Nobody, NobodyTold
  <2>8. NoEnd'
    BY <2>7 DEF NoEnd
  <2>9. QED
    BY <2>4, <2>6, <2>7, <2>8 DEF Stage, GivenUp
<1>12. CASE OnReadError
  <2>1. Reading /\ Nobody
    BY <1>1, <1>12, StageOf DEF OnReadError
  <2>2. connected
    BY <1>2, <2>1 DEF Reading
  <2>3. /\ reading' = reading - 1 /\ gaveUp' = TRUE
        /\ UNCHANGED <<resolves, connects, connectsDone, timeouts, readsDone, handler, connected, slot, jobs, timer>>
        /\ Shaking' = Shaking
    BY <1>12 DEF OnReadError, clock, done, callbacks, Shaking
  <2>4. Waits(0, 0, 0, 0, 0)' /\ ~timer' /\ Nobody' /\ NobodyTold' /\ connected' = connected /\ NoEnd'
    BY <2>1, <2>3 DEF Reading, Waits, Nobody, NobodyTold, NoEnd
  <2>5. QED
    BY <2>2, <2>3, <2>4 DEF Stage, GivenUp
<1>13. CASE NextEndpoint
  <2>1. Attempting /\ connects > 0 /\ link # "closed"
    BY <1>13, StageOf DEF NextEndpoint
  <2>2. QED
    BY <2>1 DEF Attempting, Waits
<1>14. CASE ConnectDone
  <2>1. Attempting /\ connects > 0
    BY <1>14, StageOf DEF ConnectDone
  <2>2. /\ connects' = connects - 1 /\ connectsDone' = connectsDone + 1
        /\ UNCHANGED <<resolves, timeouts, reading, readsDone, handler, connected, slot, jobs, timer>>
        /\ Shaking' = Shaking
    BY <1>14 DEF ConnectDone, clock, callbacks, told, Shaking
  <2>3. connects' = 0 /\ connectsDone' = 1
    BY <2>1, <2>2 DEF Attempting, Waits
  <2>4. Waits(0, 1, 0, 0, 0)'
    BY <2>1, <2>2, <2>3 DEF Attempting, Waits
  <2>5. NobodyTold' /\ ~connected' /\ (Nobody' <=> Nobody) /\ (Only("resolved")' <=> Only("resolved"))
    BY <2>1, <2>2 DEF Attempting, NobodyTold, Nobody, Only
  <2>6. QED
    BY <1>3, <2>1, <2>2, <2>3, <2>4, <2>5 DEF Stage, Attempting
<1>15. CASE OnConnectError
  <2>1. Attempting /\ Nobody /\ timer /\ connects > 0
    BY <1>1, <1>2, <1>15, StageOf DEF OnConnectError, Attempting
  <2>2. /\ connects' = connects - 1
        /\ UNCHANGED <<resolves, connectsDone, timeouts, reading, readsDone, handler, connected, slot, jobs, timer>>
        /\ Shaking' = Shaking
    BY <1>15 DEF OnConnectError, clock, stream, done, callbacks, told, Shaking
  <2>3. Waits(0, 0, 0, 0, 0)'
    BY <2>1, <2>2 DEF Attempting, Waits
  <2>4. timer' /\ Nobody' /\ NobodyTold' /\ ~connected'
    BY <2>1, <2>2 DEF Attempting, Nobody, NobodyTold
  <2>5. QED
    BY <1>3, <2>2, <2>3, <2>4 DEF Stage, Refused
<1>16. CASE Expire
  <2>1. timer /\ InHandler = {} /\ ~(resolves + connects + connectsDone > 0)
    BY <1>16 DEF Expire
  <2>2. Nobody /\ resolves = 0 /\ connects = 0 /\ connectsDone = 0
    BY <2>1, Nobodys
  <2>3. Refused
    BY <1>2, <2>1, <2>2
       DEF Stage, LookingUp, Attempting, TimedOut, ShakingHands, Reading, Posted, Telling, GivenUp, Waits
  <2>4. /\ timeouts' = timeouts + 1 /\ timer' = FALSE
        /\ UNCHANGED <<resolves, connects, connectsDone, reading, readsDone, handler, connected, slot, jobs>>
        /\ Shaking' = Shaking
    BY <1>16 DEF Expire, attempt, stream, done, callbacks, told, Shaking
  <2>5. Waits(0, 0, 1, 0, 0)' /\ Nobody' /\ NobodyTold' /\ ~connected'
    BY <2>3, <2>4 DEF Refused, Waits, Nobody, NobodyTold
  <2>6. QED
    BY <1>3, <2>4, <2>5 DEF Stage, TimedOut
<1>17. CASE OnTimeout
  <2>1. TimedOut
    BY <1>17, StageOf DEF OnTimeout
  <2>2. /\ timeouts' = timeouts - 1 /\ resolves' = resolves + 1
        /\ UNCHANGED <<connects, connectsDone, reading, readsDone, handler, connected, slot, jobs, timer>>
        /\ Shaking' = Shaking
    BY <1>17 DEF OnTimeout, stream, done, callbacks, told, Shaking
  <2>3. Waits(1, 0, 0, 0, 0)' /\ Nobody' /\ NobodyTold' /\ ~connected' /\ ~timer'
    BY <2>1, <2>2 DEF TimedOut, Waits, Nobody, NobodyTold
  <2>4. QED
    BY <1>3, <2>2, <2>3 DEF Stage, LookingUp
<1>18. CASE OnRead
  <2>1. Reading /\ Nobody
    BY <1>1, <1>18, StageOf DEF OnRead
  <2>2. connected
    BY <1>2, <2>1 DEF Reading
  <2>3. /\ reading' = reading + 1 /\ readsDone' = readsDone - 1 /\ jobs' = Append(jobs, "rx")
        /\ UNCHANGED <<resolves, connects, connectsDone, timeouts, handler, connected, slot, timer>>
        /\ Shaking' = Shaking
    BY <1>18 DEF OnRead, clock, told, Shaking
  <2>4. NoEnd'
    BY <2>1, <2>3, Posting DEF Reading
  <2>5. Waits(0, 0, 0, 0, 1)' /\ ~timer' /\ Nobody' /\ NobodyTold'
    BY <2>1, <2>3 DEF Reading, Waits, Nobody, NobodyTold
  <2>6. QED
    BY <2>2, <2>3, <2>4, <2>5 DEF Stage, Reading
<1>19. CASE OnReadEnd
  <2>1. Reading /\ Nobody
    BY <1>1, <1>19, StageOf DEF OnReadEnd
  <2>2. connected
    BY <1>2, <2>1 DEF Reading
  <2>3. /\ reading' = reading - 1 /\ jobs' = Append(jobs, "end")
        /\ UNCHANGED <<resolves, connects, connectsDone, timeouts, readsDone, handler, connected, slot, timer>>
        /\ Shaking' = Shaking
    BY <1>19 DEF OnReadEnd, clock, done, told, Shaking
  <2>4. LastIsEnd'
    BY <2>1, <2>3, Posting DEF Reading
  <2>5. Waits(0, 0, 0, 0, 0)' /\ ~timer' /\ Nobody' /\ NobodyTold'
    BY <2>1, <2>3 DEF Reading, Waits, Nobody, NobodyTold
  <2>6. QED
    BY <2>2, <2>3, <2>4, <2>5 DEF Stage, Posted
<1>20. ASSUME NEW c \in CallbackThreads, SignalOnRx(c) PROVE Stage'
  <2>1. connected /\ (NoEnd => NoEnd') /\ (LastIsEnd => LastIsEnd')
    BY <1>3, <1>20, RxTaken DEF SignalOnRx
  <2>2. Reading \/ Posted \/ GivenUp
    BY <2>1 DEF Stage, LookingUp, Attempting, Refused, TimedOut, ShakingHands, Telling
  <2>3. /\ UNCHANGED <<resolves, connects, connectsDone, timeouts, reading, readsDone, handler, connected, slot, timer>>
        /\ UNCHANGED gaveUp /\ Shaking' = Shaking
    BY <1>20 DEF SignalOnRx, attempt, clock, stream, done, told, Shaking
  <2>4. (Nobody' <=> Nobody) /\ (NobodyTold' <=> NobodyTold) /\ (Only("reading")' <=> Only("reading"))
    BY <2>3 DEF Nobody, NobodyTold, Only
  <2>5. Reading => Reading'
    BY <2>1, <2>3, <2>4 DEF Reading, Waits
  <2>6. Posted => Posted'
    BY <2>1, <2>3, <2>4 DEF Posted, Waits
  <2>7. GivenUp => GivenUp'
    BY <2>1, <2>3, <2>4 DEF GivenUp, Waits
  <2>8. QED
    BY <2>1, <2>2, <2>3, <2>5, <2>6, <2>7 DEF Stage
<1>21. ASSUME NEW c \in CallbackThreads, SignalDisconnect(c) PROVE Stage'
  <2>1. jobs # <<>> /\ ~NoEnd /\ (LastIsEnd => jobs' = <<>>)
    BY <1>21, EndTaken DEF SignalDisconnect
  <2>2. Posted /\ jobs' = <<>>
    BY <2>1, StageOf DEF Posted
  <2>3. /\ UNCHANGED <<resolves, connects, connectsDone, timeouts, reading, readsDone, handler, timer>>
        /\ Shaking' = Shaking /\ connected' = FALSE /\ slot' = [slot EXCEPT ![c] = "told"]
    BY <1>21 DEF SignalDisconnect, attempt, clock, stream, done, Shaking
  <2>4. Waits(0, 0, 0, 0, 0)' /\ Nobody' /\ ~timer'
    BY <2>2, <2>3 DEF Posted, Waits, Nobody
  <2>5. OneTold'
    BY <2>2, <2>3 DEF Posted, NobodyTold, OneTold, StateTypes
  <2>6. QED
    BY <2>2, <2>3, <2>4, <2>5 DEF Stage, Telling
<1>22. ASSUME NEW c \in CallbackThreads, Reconnect(c) PROVE Stage'
  <2>1. Telling
    BY <1>22, StageOfCallback DEF Reconnect
  <2>2. /\ resolves' = resolves + 1 /\ slot[c] = "told" /\ slot' = [slot EXCEPT ![c] = "idle"]
        /\ UNCHANGED <<connects, connectsDone, timeouts, reading, readsDone, handler, connected, jobs, timer>>
        /\ Shaking' = Shaking
    BY <1>22 DEF Reconnect, clock, stream, done, told, Shaking
  <2>3. Waits(1, 0, 0, 0, 0)' /\ Nobody' /\ ~timer' /\ ~connected'
    BY <2>1, <2>2 DEF Telling, Waits, Nobody
  <2>4. NobodyTold'
    BY <2>1, <2>2 DEF Telling, NobodyTold, OneTold, StateTypes
  <2>5. QED
    BY <1>3, <2>2, <2>3, <2>4 DEF Stage, LookingUp
<1>23. CASE SslDone \/ ShakeDone \/ OnSslHandshake
  <2>1. Shaking' = Shaking /\ link' = link
    <3>1. CASE SslDone
      BY <3>1 DEF SslDone, Shaking
    <3>2. CASE ShakeDone
      BY <3>2 DEF ShakeDone, Shaking
    <3>3. CASE OnSslHandshake
      BY <3>3 DEF OnSslHandshake, Shaking
    <3>4. QED
      BY <1>23, <3>1, <3>2, <3>3
  <2>2. /\ UNCHANGED <<resolves, connects, connectsDone, timeouts, reading, readsDone>>
        /\ UNCHANGED <<timer, handler, slot, jobs, connected, gaveUp>>
    BY <1>23 DEF SslDone, ShakeDone, OnSslHandshake, attempt, clock, callbacks, told
  <2>3. QED
    BY <2>1, <2>2, StageKept
<1>24. CASE ReadDone
  <2>1. Shaking' = Shaking /\ link' = link /\ reading' + readsDone' = reading + readsDone
    BY <1>24 DEF ReadDone, Shaking
  <2>2. /\ UNCHANGED <<resolves, connects, connectsDone, timeouts, timer, handler, slot, jobs, connected, gaveUp>>
    BY <1>24 DEF ReadDone, attempt, clock, callbacks, told
  <2>3. QED
    BY <2>1, <2>2, StageKept
<1>25. CASE \E how \in {"ended", "failed"} : PeerEnds(how)
  <2>1. /\ link # "closed" /\ Shaking' = Shaking
        /\ UNCHANGED <<resolves, connects, connectsDone, timeouts, reading, readsDone>>
        /\ UNCHANGED <<timer, handler, slot, jobs, connected, gaveUp>>
    BY <1>25 DEF PeerEnds, attempt, clock, done, callbacks, told, Shaking
  <2>2. QED
    BY <2>1, StageKept
<1>26. CASE Writing \/ WriteDone \/ UNCHANGED vars
  <2>1. /\ link' = link /\ Shaking' = Shaking
        /\ UNCHANGED <<resolves, connects, connectsDone, timeouts, reading, readsDone>>
        /\ UNCHANGED <<timer, handler, slot, jobs, connected, gaveUp>>
    BY <1>26, StepOfWriting, StepOfWriteDone DEF vars, attempt, clock, stream, done, callbacks, told, Shaking
  <2>2. QED
    BY <2>1, StageKept
<1>27. QED
  BY <1>4, <1>5, <1>6, <1>7, <1>8, <1>9, <1>10, <1>11, <1>12, <1>13, <1>14, <1>15, <1>16, <1>17,
     <1>18, <1>19, <1>20, <1>21, <1>22, <1>23, <1>24, <1>25, <1>26
     DEF Next, IoStep, WriteStep, Answer, Environment, CallbackStep, Writing

LEMMA OneAtATimeStep == WsTypes /\ OneAtATime /\ [Next]_vars => OneAtATime'
<1> SUFFICES ASSUME WsTypes, OneAtATime, [Next]_vars, overtaken' = 0, ~late' PROVE Stage'
  BY DEF OneAtATime
<1>1. overtaken = 0 /\ ~late
  BY Remembered DEF WsTypes
<1>2. QED
  BY <1>1, StageStep DEF OneAtATime

LEMMA OneAtATimeTells == WsTypes /\ OneAtATime => UserKnows
<1> SUFFICES ASSUME WsTypes, OneAtATime, overtaken = 0, ~late, ~gaveUp, InHandler = {}
             PROVE  connected <=> reading + readsDone > 0 \/ EndQueued
  BY DEF UserKnows
<1>1. Stage /\ Nobody
  BY Nobodys DEF OneAtATime, WsTypes
<1>2. ASSUME NEW step, step # "idle", Only(step) PROVE FALSE
  BY <1>1, <1>2 DEF Only, Nobody
<1>3. LastIsEnd /\ StateTypes => EndQueued
  <2>1. SUFFICES ASSUME LastIsEnd, StateTypes PROVE EndQueued
    OBVIOUS
  <2>2. Len(jobs) \in 1..Len(jobs)
    BY <2>1, LenProperties DEF LastIsEnd, StateTypes
  <2>3. QED
    BY <2>1, <2>2 DEF LastIsEnd, EndQueued
<1>4. ~connected => ~EndQueued
  <2>1. Len(<<>>) = 0
    OBVIOUS
  <2>2. jobs = <<>> => ~EndQueued
    BY <2>1 DEF EndQueued
  <2>3. QED
    BY <1>1, <2>2 DEF Stage
<1>5. QED
  BY <1>1, <1>2, <1>3, <1>4
     DEF Stage, LookingUp, Attempting, Refused, TimedOut, ShakingHands, Reading, Posted, Telling, GivenUp, Waits,
         WsTypes

-----------------------------------------------------------------------------
(* The inductive invariant.                                                  *)
IInv == /\ WsTypes /\ OneOperation /\ QueueIsServed /\ NoneLostOrTwice
        /\ Begun /\ NeverAtRest /\ OneAtATime

LEMMA InitIInv == Init => IInv
<1> SUFFICES ASSUME Init PROVE IInv
  OBVIOUS
<1>1. WsTypes
  BY InitTypes
<1>2. OneOperation /\ QueueIsServed /\ Begun
  BY DEF Init, OneOperation, OneOperationPerConnection, QueueIsServed, Begun, Underway, Shaking
<1>3. NoneLostOrTwice
  <2>1. All = <<>> /\ written = 0
    BY DEF Init, All, InFlight
  <2>2. [i \in 1..0 |-> i] = <<>>
    BY SMT
  <2>3. QED
    BY <2>1, <2>2 DEF NoneLostOrTwice, All, InFlight
<1>4. NeverAtRest
  BY DEF Init, NeverAtRest, Trying
<1>5. LookingUp /\ jobs = <<>>
  BY DEF Init, LookingUp, Waits, Nobody, NobodyTold, Shaking
<1>6. QED
  BY <1>1, <1>2, <1>3, <1>4, <1>5 DEF IInv, OneAtATime, Stage

LEMMA IInvStep == IInv /\ [Next]_vars => IInv'
<1> SUFFICES ASSUME IInv, [Next]_vars PROVE IInv'
  OBVIOUS
<1>1. WsTypes' /\ OneOperation' /\ OneAtATime'
  BY TypesStep, OneOperationStep, OneAtATimeStep DEF IInv
<1>2. QueueIsServed' /\ NoneLostOrTwice'
  BY ServedStep, NoneLostStep DEF IInv, WsTypes
<1>3. Begun' /\ NeverAtRest'
  BY BegunStep, NeverAtRestStep DEF IInv
<1>4. QED
  BY <1>1, <1>2, <1>3 DEF IInv

(* Unless a handler was queued when an attempt closed the socket, no          *)
(* connection of the client has two handshakes or reads under way, none is    *)
(* read before its handshake, and nothing is left of one that is closed       *)
(* (Client.cpp:168-186, 229-241, 289-300).                                    *)
THEOREM OneOperationAtATime == Spec => []OneOperationPerConnection
<1>1. IInv => OneOperationPerConnection
  BY DEF IInv, OneOperation
<1>2. QED
  BY InitIInv, IInvStep, <1>1, PTL DEF Spec

(* However many threads run it, and whatever the network does, a client whose *)
(* handlers were not overtaken comes to rest only after an error that it      *)
(* reports and nothing else (Client.cpp:113-321).                             *)
THEOREM RestsAfterErrorsOnly == Spec => []NeverAtRest
<1>1. IInv => NeverAtRest
  BY DEF IInv
<1>2. QED
  BY InitIInv, IInvStep, <1>1, PTL DEF Spec

(* What the user was last told of the connection is so, unless the timer has  *)
(* raced an answer, a handler was overtaken or the client has given up        *)
(* (Client.cpp:236-238, 289-320).                                             *)
THEOREM UserIsToldTheTruth == Spec => []UserKnows
<1>1. IInv => UserKnows
  BY OneAtATimeTells DEF IInv
<1>2. QED
  BY InitIInv, IInvStep, <1>1, PTL DEF Spec

(* Unless the timer has raced an answer or a handler was overtaken, every     *)
(* message is handed on between the announcement of its connection and the    *)
(* news of its end, after an error that is no disconnection too               *)
(* (Client.cpp:236-238, 289-320).                                             *)
THEOREM MessagesAreAnnounced == Spec => MessagesComeBetween
<1>1. ASSUME IInv, [Next]_vars
      PROVE  overtaken = 0 /\ ~late /\ Cardinality(CallbackThreads) = 1 =>
               \A c \in CallbackThreads : SignalOnRx(c) => connected
  <2>1. SUFFICES ASSUME overtaken = 0, ~late, NEW c \in CallbackThreads, SignalOnRx(c) PROVE connected
    OBVIOUS
  <2>2. jobs # <<>>
    BY <2>1 DEF SignalOnRx, TakeJob
  <2>3. QED
    BY <1>1, <2>1, <2>2 DEF IInv, OneAtATime, Stage
<1>2. QED
  BY InitIInv, IInvStep, <1>1, PTL DEF Spec, MessagesComeBetween

(* A message is queued only while another one is in transmission or a write   *)
(* has failed, and no second one fails (Client.cpp:329, 355, 361-368).        *)
THEOREM ServedUntilAnError == Spec => []QueueIsServed
<1>1. IInv => QueueIsServed
  BY DEF IInv
<1>2. QED
  BY InitIInv, IInvStep, <1>1, PTL DEF Spec

(* Until a write fails every message written is sent, in transmission or      *)
(* queued, once and in the order of the writes (Client.cpp:325-374).          *)
THEOREM WritesAreKept == Spec => []NoneLostOrTwice
<1>1. IInv => NoneLostOrTwice
  BY DEF IInv
<1>2. QED
  BY InitIInv, IInvStep, <1>1, PTL DEF Spec
=============================================================================
