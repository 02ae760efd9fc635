------------------------------ MODULE Writers ------------------------------
(***************************************************************************)
(* The write side of the four connection classes: tcp::Session,             *)
(* tcp::SslSession, ws::Session and serial::Serial.  Each Write posts a     *)
(* handler to the strand, which queues the message and calls AsyncWrite.    *)
(* They differ in what AsyncWrite guards, and in whose memory the bytes are *)
(* sent from:                                                               *)
(*   tcp     one async_write per call, from the one member mWriteBuffer;    *)
(*   ssl     one async_write per call, from a local copy that dies with it; *)
(*   serial  one async_write_some per call, from such a copy; what the port *)
(*           did not take goes back to the front of the queue;              *)
(*   ws      one async_write at a time (mIsSending), from mWriteBuffer.     *)
(* asio's async_write sends what the connection accepts and comes back      *)
(* through the strand for the rest.  Messages are numbered in the order of  *)
(* the calls to Write, and sent in at most Parts parts.                     *)
(***************************************************************************)
EXTENDS IoStrand

CONSTANTS
  IoThreads,       \* the number of threads that run the io_service
  Classes,         \* the classes to look at, of {"tcp", "ssl", "serial", "ws"}
  MaxWrites,       \* bound: calls to Write
  Parts,           \* the most pieces the connection splits a message into
  Garbage          \* bytes of another message or of memory that was freed

ASSUME WritersAssumption ==
  /\ Classes \subseteq {"tcp", "ssl", "serial", "ws"}
  /\ {IoThreads, Parts} \subseteq Nat \ {0} /\ MaxWrites \in Nat /\ Garbage \notin Nat

VARIABLES
  class,           \* the class of this connection
  mWriteQueue,     \* queued by the strand; after a partial serial write, a rest
  mWriteBuffer,    \* the member of tcp and ws sessions; 0 at first
  mIsSending,      \* ws: a transmission is under way, or has failed
  socket,          \* the operations that wait for the connection
  wire,            \* the parts on the wire
  broken,          \* the connection has failed
  written,         \* calls to Write
  entered,         \* the messages in the order in which they entered the strand
  finished,        \* messages whose completion handler has run, without
  failed,          \* and with an error
  loose            \* the order, or the memory of a message, has been given up

state == <<mWriteQueue, mWriteBuffer, mIsSending, socket, wire, loose>>
history == <<written, entered, finished, failed>>
vars == <<io, class, state, broken, history>>

Messages == 1..MaxWrites

(* An operation sends msg from part `next` on; `own` says that the           *)
(* connection took its bytes over when it was started.                       *)
Op == [msg : Messages, next : 1..(Parts + 1), own : BOOLEAN]
NewOp(m) == [msg |-> m, next |-> 1, own |-> FALSE]
Task == [kind : {"write", "resume", "done", "error"}, op : Op]
Part == [msg : Messages \cup {Garbage}, part : 1..Parts]

Init ==
  /\ IoInit
  /\ class \in Classes
  /\ mWriteQueue = <<>> /\ mWriteBuffer = 0 /\ mIsSending = FALSE
  /\ socket = <<>> /\ wire = <<>> /\ broken = FALSE
  /\ written = 0 /\ entered = <<>> /\ finished = 0 /\ failed = 0
  /\ loose = FALSE

(* The handlers of these kinds that are posted, taken or in the strand, and  *)
(* whose operation has come to one of the parts in `nexts`.                  *)
Pending(kinds, nexts) ==
  LET Is(task) == task.kind \in kinds /\ task.op.next \in nexts IN
  Cardinality({i \in 1..Len(ioQueue) : Is(ioQueue[i])})
  + Cardinality({task \in held : Is(task)})
  + Cardinality({i \in 1..Len(strand) : Is(strand[i])})

(* Write, from any thread.                                                   *)
Write ==
  /\ written < MaxWrites
  /\ written' = written + 1
  /\ Post([kind |-> "write", op |-> NewOp(written + 1)])
  /\ UNCHANGED <<held, strand, class, state, broken, entered, finished, failed>>

-----------------------------------------------------------------------------
(* n parts of an operation, with what was found in its memory.               *)
Sent(op, n, what) == [i \in 1..n |-> [msg |-> what, part |-> op.next + i - 1]]

(* An SSL engine encrypts a message when the write is started, unless two    *)
(* earlier ones still wait for the socket and fill its buffers.              *)
Copied == class = "ssl" /\ Len(socket) < 2

(* What is left of an operation is still to be sent.                         *)
IsRest(task) == task.kind \in {"resume", "done"} /\ task.op.next <= Parts
Elements(seq) == {seq[i] : i \in 1..Len(seq)}

(* A tcp or serial connection gives up the order when it starts a message    *)
(* while another one, not that of the handler that runs, has bytes to send.  *)
Overtakes ==
  /\ class \in {"tcp", "serial"}
  /\ socket # <<>>
     \/ \E task \in Elements(ioQueue) \cup held \cup Elements(Tail(strand)) : IsRest(task)

(* The operation waits for the connection; a local copy is gone by the time  *)
(* its bytes are sent.                                                       *)
Wait(op) ==
  /\ socket' = Append(socket, [op EXCEPT !.own = Copied])
  /\ loose' = (loose \/ Overtakes \/ (class \in {"ssl", "serial"} /\ ~Copied))
  /\ UNCHANGED <<ioQueue, wire>>

(* An idle serial port takes bytes while async_write_some is being called.   *)
TakeAtOnce(op) ==
  /\ class = "serial" /\ socket = <<>> /\ ~broken
  /\ \E n \in 1..(Parts - op.next + 1) :
       /\ wire' = wire \o Sent(op, n, op.msg)
       /\ Post([kind |-> "done", op |-> [op EXCEPT !.next = @ + n]])
  /\ loose' = (loose \/ Overtakes)
  /\ UNCHANGED socket

(* Mutants of AsyncWrite: no test of mIsSending; the message is not popped.  *)
AsyncWriteAnyway(queue, sending) ==
  IF queue # <<>>
    THEN /\ mWriteQueue' = Tail(queue) /\ mIsSending' = (class = "ws")
         /\ mWriteBuffer' = IF class \in {"tcp", "ws"} THEN Head(queue).msg ELSE mWriteBuffer
         /\ Wait(Head(queue)) \/ TakeAtOnce(Head(queue))
    ELSE /\ mWriteQueue' = queue /\ mIsSending' = sending
         /\ UNCHANGED <<ioQueue, mWriteBuffer, socket, wire, loose>>

AsyncWriteKeep(queue, sending) ==
  IF queue # <<>> /\ ~sending
    THEN /\ mWriteQueue' = queue /\ mIsSending' = (class = "ws")
         /\ mWriteBuffer' = IF class \in {"tcp", "ws"} THEN Head(queue).msg ELSE mWriteBuffer
         /\ Wait(Head(queue)) \/ TakeAtOnce(Head(queue))
    ELSE /\ mWriteQueue' = queue /\ mIsSending' = sending
         /\ UNCHANGED <<ioQueue, mWriteBuffer, socket, wire, loose>>

(* AsyncWrite, on the queue and the flag that its caller has set.  Only a ws *)
(* session ever sets mIsSending.                                             *)
AsyncWrite(queue, sending) ==
  IF queue # <<>> /\ ~sending
    THEN /\ mWriteQueue' = Tail(queue) /\ mIsSending' = (class = "ws")
         /\ mWriteBuffer' = IF class \in {"tcp", "ws"} THEN Head(queue).msg ELSE mWriteBuffer
         /\ Wait(Head(queue)) \/ TakeAtOnce(Head(queue))
    ELSE /\ mWriteQueue' = queue /\ mIsSending' = sending
         /\ UNCHANGED <<ioQueue, mWriteBuffer, socket, wire, loose>>

(* Mutant of QueueMessage: the message is queued and nothing is started.     *)
OnlyQueue ==
  /\ InStrand("write")
  /\ mWriteQueue' = Append(mWriteQueue, Head(strand).op)
  /\ UNCHANGED <<ioQueue, held, class, mWriteBuffer, mIsSending, socket, wire, loose, broken, history>>

(* The handler that Write posted.                                            *)
QueueMessage ==
  /\ InStrand("write")
  /\ AsyncWrite(Append(mWriteQueue, Head(strand).op), mIsSending)
  /\ UNCHANGED <<held, class, broken, history>>

(* Mutant of OnWritten: the flag is reset and the queue is left alone.       *)
OnWrittenStop ==
  /\ InStrand("done") /\ Head(strand).op.next > Parts
  /\ mIsSending' = FALSE /\ finished' = finished + 1
  /\ UNCHANGED <<ioQueue, held, class, mWriteQueue, mWriteBuffer, socket, wire, loose, broken,
                 written, entered, failed>>

(* The completion handler without an error.                                  *)
OnWritten ==
  /\ InStrand("done") /\ Head(strand).op.next > Parts
  /\ AsyncWrite(mWriteQueue, FALSE)
  /\ finished' = finished + 1
  /\ UNCHANGED <<held, class, broken, written, entered, failed>>

(* The completion handler of serial, when the port did not take all.         *)
OnWrittenInPart ==
  /\ InStrand("done") /\ Head(strand).op.next <= Parts
  /\ AsyncWrite(<<Head(strand).op>> \o mWriteQueue, FALSE)
  /\ UNCHANGED <<held, class, broken, history>>

(* The completion handler with an error posts the error to the user, and     *)
(* neither starts a message nor resets mIsSending.                           *)
OnError ==
  /\ InStrand("error")
  /\ failed' = failed + 1
  /\ UNCHANGED <<ioQueue, held, class, state, broken, written, entered, finished>>

(* async_write goes on with the rest of its buffer.                          *)
Resume ==
  /\ InStrand("resume")
  /\ socket' = Append(socket, [Head(strand).op EXCEPT !.own = FALSE])
  /\ UNCHANGED <<ioQueue, held, class, mWriteQueue, mWriteBuffer, mIsSending, wire, loose, broken, history>>

-----------------------------------------------------------------------------
(* What an operation finds in the memory of its buffer, once mWriteBuffer    *)
(* was assigned again or the local copy is gone: its bytes still, or others. *)
Contents(op) ==
  IF op.own \/ (class \in {"tcp", "ws"} /\ mWriteBuffer = op.msg) THEN {op.msg}
                                                               ELSE {op.msg, Garbage}

(* The connection accepts some bytes of the first operation that waits.  The *)
(* rest of an ssl message is in a copy that is gone.                         *)
Transmit ==
  /\ socket # <<>> /\ ~broken
  /\ LET op == Head(socket) IN
       \E n \in 1..(Parts - op.next + 1), what \in Contents(op) :
         /\ wire' = wire \o Sent(op, n, what)
         /\ Post([kind |-> IF op.next + n <= Parts /\ class # "serial" THEN "resume" ELSE "done",
                  op |-> [op EXCEPT !.next = @ + n]])
         /\ loose' = (loose \/ (class = "ssl" /\ op.next + n <= Parts))
  /\ socket' = Tail(socket)
  /\ UNCHANGED <<held, strand, class, mWriteQueue, mWriteBuffer, mIsSending, broken, history>>

(* The connection fails, and what waits for it then ends with an error.      *)
Fail ==
  /\ ~broken /\ broken' = TRUE
  /\ UNCHANGED <<io, class, state, history>>

Abort ==
  /\ broken /\ socket # <<>>
  /\ socket' = Tail(socket)
  /\ Post([kind |-> "error", op |-> Head(socket)])
  /\ UNCHANGED <<held, strand, class, mWriteQueue, mWriteBuffer, mIsSending, wire, loose, broken, history>>

(* A thread takes a handler, or enters one into the strand; serial::Serial   *)
(* has a single thread.                                                      *)
Dispatch ==
  /\ \/ Take(IF class = "serial" THEN 1 ELSE IoThreads) /\ UNCHANGED entered
     \/ \E task \in held :
          /\ Enter(task)
          /\ entered' = IF task.kind = "write" THEN Append(entered, task.op.msg) ELSE entered
  /\ UNCHANGED <<class, state, broken, written, finished, failed>>

Handler == QueueMessage \/ OnWritten \/ OnWrittenInPart \/ OnError \/ Resume

Network == Transmit \/ Abort

Next == Write \/ Dispatch \/ Handler \/ Network \/ Fail

Spec == Init /\ [][Next]_vars

(* The IO threads run what is posted, and the peer keeps reading.            *)
FairSpec == Spec /\ WF_vars(Dispatch) /\ WF_vars(Handler) /\ WF_vars(Network)

-----------------------------------------------------------------------------
(* Whatever the callers do and wherever a message is cut, no connection      *)
(* loses a write or starts one twice: each is posted, queued, waiting for    *)
(* the connection, finished or reported (Session.cpp:46-84, SslSession.cpp:  *)
(* 46-75, Serial.cpp:104-148, Websockets/Session.cpp:136-197).               *)
EveryWriteIsAccountedFor ==
  written = finished + failed + Len(mWriteQueue) + Len(socket)
              + Pending({"write", "resume", "done", "error"}, 1..(Parts + 1))

(* No message is stranded: a queue that is not empty between two handlers is *)
(* that of a ws session with a transmission under way, its completion still  *)
(* to come, or a failed one behind it (Websockets/Session.cpp:140, 163, 166).*)
(* The others start a message with every one they queue.                     *)
QueueIsServed ==
  mWriteQueue # <<>> =>
    /\ class = "ws" /\ mIsSending
    /\ socket # <<>> \/ failed > 0
       \/ Pending({"resume", "done", "error"}, 1..(Parts + 1)) > 0

(* Every write of a tcp, ssl or serial connection ends in a completion or in *)
(* an error report, however they overlap and whenever the connection fails.  *)
(* A ws session keeps what is behind a failed message and reports nothing    *)
(* for it (Websockets/Session.cpp:169-180 leaves mIsSending set).            *)
EveryWriteEnds ==
  \A n \in Messages :
    written >= n ~> \/ finished + failed >= n
                    \/ class = "ws" /\ failed > 0

Fifo == INSTANCE FifoWriter WITH submitted <- entered

(* Every connection is a FifoWriter of the messages in the order in which    *)
(* they enter its strand: none is split, mixed with another, lost or sent    *)
(* twice.  A ws session is one for ever (mIsSending).  A tcp session is one  *)
(* until a message is started while another still has bytes to send, an ssl  *)
(* session and a serial port until bytes are sent from a copy that is gone   *)
(* or a rest is overtaken.  Two IO threads may enter two writes of one       *)
(* caller in either order; a single one keeps the order of the calls.        *)
IsFifo == Fifo!Spec

(* The wire carries the messages whole and in the order written              *)
(* (Tcp/Test/ClientTest.cpp:22-24 writes without pause).                     *)
WireIsOrdered == \A i \in 1..Len(wire) : wire[i] = Fifo!PartAt(entered, i)

=============================================================================
