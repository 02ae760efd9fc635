----------------------------- MODULE Receivers -----------------------------
(***************************************************************************)
(* The receive loops of serial::Serial (Serial/Serial/Serial.cpp) and       *)
(* udp::Server (Udp/Udp/Server.cpp), up to their destructors, and the       *)
(* PacketAssembler (Robot/Robot) on a slot of the serial port.  An IO       *)
(* thread handles a receive and posts a job; a callback thread runs the     *)
(* job, which emits mOnRxSignal.                                            *)
(*   serial  has the one buffer mData, and its job reads it when it runs;   *)
(*   udp     has a udp::Session for every receive, and its job has a copy.  *)
(* A chunk is what one receive brings: for serial `size` bytes of the       *)
(* stream from position `first` on, for udp the datagram number `first`.    *)
(***************************************************************************)
EXTENDS Naturals, Sequences, FiniteSets

CONSTANTS
  Classes,          \* the classes to look at, of {"serial", "udp"}
  CallbackThreads,  \* of a udp server; a serial port has a single one
  MaxLength,        \* bytes in the buffer of a receive
  Datagrams,        \* bound: datagrams that arrive
  MaxErrors,        \* bound: receives that fail
  MaxSends,         \* bound: calls to udp::Server::Write
  Total,            \* bytes that arrive at the serial port
  SizeAt,           \* the size_t that they hold at each position
  SizeRange,        \* how many values a size_t has
  TypeWidth,        \* sizeof(type_index)
  HeaderSize,       \* sizeof(packet::Header), its padding included
  Spoiled,          \* what is handed on when mData was written to before
  Failed            \* a receive that ended with an error

ASSUME ReceiversAssumption ==
  /\ Classes \subseteq {"serial", "udp"}
  /\ {CallbackThreads, MaxLength, HeaderSize, SizeRange} \subseteq Nat \ {0}
  /\ {Datagrams, MaxErrors, MaxSends, Total, TypeWidth} \subseteq Nat
  /\ SizeAt \in [0..Total -> 0..(SizeRange - 1)]

ASSUME MarksAssumption ==      \* neither is a chunk
  Spoiled \notin [first : Nat, size : Nat] /\ Failed \notin [first : Nat, size : Nat]

VARIABLES
  class,
  next,        \* bytes of the stream, or datagrams, that have arrived
  read,        \* the receive is "armed", "complete", or its handler "running"
  result,      \* what the last receive brought
  mData,       \* the chunk in the buffer
  errors,      \* receives that failed
  jobs,        \* posted to mCallbackService
  running,     \* jobs taken by a callback thread, with what they hand on
  handed,      \* what mOnRxSignal was emitted with, in this order
  posted,      \* history: the chunks for which a job was posted
  ahead,       \* history: a chunk came while an earlier one was not handed on
  sends,       \* udp: messages passed to Write and not yet completed
  written,     \* udp: how many there were
  failedSends, \* history: those that failed
  reported,    \* those that mSignalWriteError was emitted for
  stopped,     \* the destructor has stopped mIoService
  mpNullWork,  \* keeps the callback threads in mCallbackService.run()
  exited,      \* they have left it
  destroyed,   \* the destructor has joined the threads
  due,         \* history: the jobs for chunks posted before the destructor
  fed,         \* bytes of the stream passed to PacketAssembler::AddBytes
  cut,         \* bytes cut off mBytes; mBytes are those between the two
  assembled,   \* what mPacketAssembledSignal was emitted with
  crowded      \* history: two packets became whole with one chunk

reads == <<next, read, result, mData, errors, posted, ahead>>
udpSends == <<sends, written, failedSends>>
lifetime == <<stopped, mpNullWork, exited, destroyed, due>>
robot == <<fed, cut, assembled, crowded>>
vars == <<class, reads, jobs, running, handed, udpSends, reported, lifetime, robot>>

(* PacketDecoder::DecodeHeader, of the header at a position of the stream: a *)
(* type_index, a uint8_t and a size_t, one after the other without padding;  *)
(* and PacketSize of PacketAssembler::AssemblePacket, a size_t too.          *)
DecodeHeader(position) ==
  LET offset == position + TypeWidth + 1 IN
  [mPayloadSize |-> IF offset \in DOMAIN SizeAt THEN SizeAt[offset] ELSE 0]
PacketSize(position) == (HeaderSize + DecodeHeader(position).mPayloadSize) % SizeRange
PacketEnd[position \in Nat] == position + PacketSize(position)

Chunk == [first : Nat, size : Nat]
Job == [kind : {"rx", "error"}, chunk : Chunk]
NoChunk == [first |-> 0, size |-> 0]

Init ==
  /\ class \in Classes
  /\ next = 0 /\ read = "armed" /\ result = NoChunk /\ mData = NoChunk /\ errors = 0
  /\ jobs = <<>> /\ running = {} /\ handed = <<>> /\ posted = <<>> /\ ahead = FALSE
  /\ sends = {} /\ written = 0 /\ failedSends = {} /\ reported = {}
  /\ stopped = FALSE /\ mpNullWork = TRUE /\ exited = FALSE /\ destroyed = FALSE /\ due = 0
  /\ fed = 0 /\ cut = 0 /\ assembled = <<>> /\ crowded = FALSE

-----------------------------------------------------------------------------
(* The port or the socket fills the buffer; what is longer than a udp buffer *)
(* is cut off; of a datagram only counts whether it is empty.                *)
Arrivals ==
  IF class = "serial"
    THEN {[first |-> next + 1, size |-> n] : n \in {n \in 1..MaxLength : next + n <= Total}}
    ELSE {[first |-> next + 1, size |-> n] : n \in IF next < Datagrams THEN {0, MaxLength} ELSE {}}

Receive ==
  /\ read = "armed" /\ ~stopped
  /\ \E chunk \in Arrivals :
       /\ result' = chunk /\ mData' = chunk
       /\ next' = IF class = "serial" THEN next + chunk.size ELSE next + 1
  /\ read' = "complete"
  /\ ahead' = (ahead \/ Len(handed) < Len(posted))
  /\ UNCHANGED <<class, errors, posted, jobs, running, handed, udpSends, reported,
                 lifetime, robot>>

ReceiveFails ==
  /\ read = "armed" /\ ~stopped /\ errors < MaxErrors
  /\ errors' = errors + 1
  /\ read' = "complete" /\ result' = Failed
  /\ UNCHANGED <<class, next, mData, posted, ahead, jobs, running, handed, udpSends, reported,
                 lifetime, robot>>

(* The IO thread calls the handler, unless the io_service was stopped.       *)
TakeHandler ==
  /\ read = "complete" /\ ~stopped
  /\ read' = "running"
  /\ UNCHANGED <<class, next, result, mData, errors, posted, ahead, jobs, running, handed,
                 udpSends, reported, lifetime, robot>>

(* The handler: serial emits mOnReadErrorSignal itself for an error; udp     *)
(* ignores errors and empty datagrams.  Both arm the next receive.           *)
OnRead ==
  /\ read = "running"
  /\ read' = "armed"
  /\ IF result # Failed /\ (class = "udp" => result.size > 0)
       THEN /\ jobs' = Append(jobs, [kind |-> "rx", chunk |-> result])
            /\ posted' = Append(posted, result)
       ELSE UNCHANGED <<jobs, posted>>
  /\ UNCHANGED <<class, next, result, mData, errors, ahead, running, handed,
                 udpSends, reported, lifetime, robot>>

-----------------------------------------------------------------------------
(* udp::Server::Write starts a send; its completion handler has a copy of    *)
(* the message, and posts an error with it.                                  *)
Write ==
  /\ class = "udp" /\ written < MaxSends /\ ~stopped
  /\ written' = written + 1 /\ sends' = sends \cup {written + 1}
  /\ UNCHANGED <<class, reads, jobs, running, handed, failedSends, reported, lifetime, robot>>

OnWrite ==
  /\ ~stopped
  /\ \E m \in sends :
       /\ sends' = sends \ {m}
       /\ \/ UNCHANGED <<jobs, failedSends>>
          \/ /\ jobs' = Append(jobs, [kind |-> "error", chunk |-> [first |-> m, size |-> 0]])
             /\ failedSends' = failedSends \cup {m}
  /\ UNCHANGED <<class, reads, running, handed, written, reported, lifetime, robot>>

-----------------------------------------------------------------------------
(* The stream read in one piece: where the packet after the first k starts,  *)
(* and up to where bytes must have come for it to be cut off.                *)
Start[k \in 0..(Total + 1)] ==
  IF k = 0 THEN 0 ELSE PacketEnd[Start[k - 1]]
Whole(k) == IF PacketSize(Start[k]) < HeaderSize THEN Start[k] + HeaderSize ELSE PacketEnd[Start[k]]

(* n more bytes are appended to mBytes.                                      *)
Feed(n) ==
  /\ fed' = fed + n
  /\ crowded' = (crowded \/ \E k \in 0..Total : fed < Whole(k) /\ Whole(k + 1) <= fed')

(* Mutant of AddBytes: all bytes are dropped with a packet.                  *)
AddBytesAll(n) ==
  /\ Feed(n)
  /\ IF fed' - cut < HeaderSize \/ fed' - cut < PacketSize(cut)
       THEN UNCHANGED <<cut, assembled>>
       ELSE /\ assembled' = Append(assembled, [first |-> cut, size |-> PacketSize(cut)])
            /\ cut' = fed'

(* PacketAssembler::AddBytes, with AssemblePacket: mPacketAssembledSignal    *)
(* hands on the packet that mBytes starts with, if it is whole.              *)
AddBytes(n) ==
  /\ Feed(n)
  /\ IF fed' - cut < HeaderSize \/ fed' - cut < PacketSize(cut)
       THEN UNCHANGED <<cut, assembled>>
       ELSE /\ assembled' = Append(assembled, [first |-> cut, size |-> PacketSize(cut)])
            /\ cut' = PacketEnd[cut]

-----------------------------------------------------------------------------
Threads == IF class = "serial" THEN 1 ELSE CallbackThreads

(* Mutant of TakeJob: the job of a udp server has no copy of the bytes.      *)
TakeJobShared ==
  /\ jobs # <<>> /\ Cardinality(running) < Threads /\ ~exited
  /\ LET job == Head(jobs) IN
       running' = running \cup
         {[job |-> job, bytes |-> IF job.kind = "rx" /\ mData # job.chunk THEN Spoiled ELSE job.chunk]}
  /\ jobs' = Tail(jobs)
  /\ UNCHANGED <<class, reads, handed, udpSends, reported, lifetime, robot>>

(* A callback thread takes a job; that of a serial port makes its string     *)
(* from what mData holds now.                                                *)
TakeJob ==
  /\ jobs # <<>> /\ Cardinality(running) < Threads /\ ~exited
  /\ LET job == Head(jobs) IN
       running' = running \cup
         {[job |-> job, bytes |-> IF class = "serial" /\ mData # job.chunk THEN Spoiled ELSE job.chunk]}
  /\ jobs' = Tail(jobs)
  /\ UNCHANGED <<class, reads, handed, udpSends, reported, lifetime, robot>>

(* mOnRxSignal.  Once bytes were spoiled nothing is known of the stream, and *)
(* the assembler is left out of account.                                     *)
EmitRx(run) ==
  /\ run.job.kind = "rx"
  /\ handed' = Append(handed, run.bytes)
  /\ IF class = "serial" /\ \A i \in 1..Len(handed') : handed'[i] # Spoiled
       THEN AddBytes(run.bytes.size)
       ELSE UNCHANGED robot
  /\ UNCHANGED reported

(* mSignalWriteError.                                                        *)
EmitError(run) ==
  /\ run.job.kind = "error"
  /\ reported' = reported \cup {run.job.chunk.first}
  /\ UNCHANGED <<handed, robot>>

Emit ==
  /\ \E run \in running :
       /\ running' = running \ {run}
       /\ EmitRx(run) \/ EmitError(run)
  /\ UNCHANGED <<class, reads, jobs, udpSends, lifetime>>

(* Mutants of Destroy: mpNullWork is kept; mCallbackService is stopped too.  *)
DestroyKeepsWork ==
  /\ ~stopped /\ stopped' = TRUE /\ due' = Len(posted)
  /\ UNCHANGED <<class, reads, jobs, running, handed, udpSends, reported, mpNullWork, exited,
                 destroyed, robot>>

DestroyStopsCallbacks ==
  /\ ~stopped /\ stopped' = TRUE /\ mpNullWork' = FALSE /\ due' = Len(posted) /\ exited' = TRUE
  /\ UNCHANGED <<class, reads, jobs, running, handed, udpSends, reported, destroyed, robot>>

(* The destructor, called by a thread of the user: the IO threads leave      *)
(* after the handler they are in, the callback threads when no job is left.  *)
Destroy ==
  /\ ~stopped /\ stopped' = TRUE /\ mpNullWork' = FALSE /\ due' = Len(posted)
  /\ UNCHANGED <<class, reads, jobs, running, handed, udpSends, reported, exited, destroyed, robot>>

CallbackThreadsExit ==
  /\ ~mpNullWork /\ jobs = <<>> /\ running = {} /\ ~exited
  /\ exited' = TRUE
  /\ UNCHANGED <<class, reads, jobs, running, handed, udpSends, reported, stopped, mpNullWork,
                 destroyed, due, robot>>

Join ==
  /\ exited /\ read # "running" /\ ~destroyed
  /\ destroyed' = TRUE
  /\ UNCHANGED <<class, reads, jobs, running, handed, udpSends, reported, stopped, mpNullWork,
                 exited, due, robot>>

Io == TakeHandler \/ OnRead \/ OnWrite

Next ==
  \/ Receive \/ ReceiveFails \/ Write \/ Io \/ TakeJob \/ Emit
  \/ Destroy \/ CallbackThreadsExit \/ Join

(* The threads run, slots return, and a destructor that was called goes on.  *)
Spec ==
  /\ Init /\ [][Next]_vars
  /\ WF_vars(Io) /\ WF_vars(TakeJob) /\ WF_vars(Emit)
  /\ WF_vars(CallbackThreadsExit) /\ WF_vars(Join)

-----------------------------------------------------------------------------
(* What a slot gets is what was received.  A serial port hands its chunks on *)
(* in order, and each is whole as long as the peer waits for one to be       *)
(* handed on before it sends more; if it does not, mData may have been given *)
(* to the next receive (Serial.cpp:80-100).  A udp server hands no datagram  *)
(* on twice, and each with its own bytes whatever comes meanwhile            *)
(* (Udp/Server.cpp:68-87); several callback threads may swap two.            *)
HandedOnAsReceived ==
  \A i \in 1..Len(handed) :
    IF class = "serial"
      THEN handed[i] = posted[i] \/ (ahead /\ handed[i] = Spoiled)
      ELSE /\ \E j \in 1..Len(posted) : handed[i] = posted[j]
           /\ \A j \in 1..Len(handed) : i # j => handed[i] # handed[j]

(* No chunk stays behind: whenever the line falls silent, all that handlers  *)
(* posted jobs for are handed on, and those from before the destructor was   *)
(* called even while it runs, since it stops mIoService only                 *)
(* (Serial.cpp:33-43, Udp/Server.cpp:37-47).                                 *)
EveryChunkIsHandedOn ==
  []<>(Len(handed) >= IF stopped THEN due ELSE Len(posted))

(* The destructor returns: the receive that is always under way does not     *)
(* hold it up, nor do the jobs posted meanwhile.                             *)
DestructorReturns == stopped ~> destroyed

(* Wherever it is cut into chunks, the stream leaves the assembler as the    *)
(* packets that its headers delimit when it is read in one piece, each once, *)
(* in order and with its own bytes; one that is whole waits in mBytes only   *)
(* after a chunk that made two whole, of which AddBytes hands on the first   *)
(* (PacketAssembler.cpp:8-36, PacketDecoder.hpp:29-41).                      *)
PacketsComeOutInOrder ==
  /\ \A k \in 1..Len(assembled) :
       assembled[k] = [first |-> Start[k - 1], size |-> PacketSize(Start[k - 1])]
  /\ crowded \/ fed < Whole(Len(assembled))
=============================================================================
