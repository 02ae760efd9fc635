-------------------------- MODULE ReceiversProofs --------------------------
(***************************************************************************)
(* What a serial port and a udp server hand on, and what becomes of it in    *)
(* the packet assembler, for any buffers, threads and streams of packets.    *)
(* A serial port has one buffer and one line of chunks: handed on, taken by  *)
(* the callback thread, queued (SerialLine); only if the peer runs ahead is  *)
(* the buffer not that of the chunk taken (Buffer).  A udp server has as     *)
(* many as it likes on their way, each of them once (UdpChunks).  The bytes  *)
(* handed on are a prefix of the stream (Stream), which the assembler cuts   *)
(* where a packet starts and nowhere else (Cuts).                            *)
(***************************************************************************)
EXTENDS Receivers, FiniteSetTheorems, SequenceTheorems, WellFoundedInduction, TLAPS

Running == [job : Job, bytes : Chunk \cup {Spoiled}]

ReceiverTypes ==
  /\ class \in {"serial", "udp"}
  /\ next \in Nat /\ read \in {"armed", "complete", "running"}
  /\ result \in Chunk \cup {Failed} /\ mData \in Chunk
  /\ posted \in Seq(Chunk) /\ ahead \in BOOLEAN
  /\ jobs \in Seq(Job) /\ running \in SUBSET Running /\ IsFiniteSet(running)
  /\ handed \in Seq(Chunk \cup {Spoiled})
  /\ sends \in SUBSET Nat /\ written \in Nat

(* A chunk has come and its handler has not posted it.                       *)
Came == read # "armed" /\ result # Failed
Busy == IF running = {} THEN 0 ELSE 1

(* The jobs of a serial port are in line: what is handed on, what its one    *)
(* callback thread runs and what is queued are the chunks posted, in order.  *)
SerialLine ==
  class = "serial" =>
    /\ Len(posted) = Len(handed) + Busy + Len(jobs)
    /\ \A run \in running : running = {run}
    /\ \A run \in running :
         /\ run.job = [kind |-> "rx", chunk |-> posted[Len(handed) + 1]]
         /\ run.bytes = run.job.chunk \/ (ahead /\ run.bytes = Spoiled)
    /\ \A i \in 1..Len(jobs) :
         jobs[i] = [kind |-> "rx", chunk |-> posted[Len(handed) + Busy + i]]
    /\ sends = {}

(* Unless the peer runs ahead, mData holds the one chunk not handed on.      *)
Buffer ==
  class = "serial" /\ ~ahead =>
    /\ Len(posted) <= Len(handed) + 1
    /\ Len(posted) = Len(handed) + 1 => mData = posted[Len(posted)]
    /\ Came => Len(posted) = Len(handed) /\ result = mData

Among(chunk, s) == \E j \in 1..Len(s) : s[j] = chunk
TakenBy(runs, chunk) == \E run \in runs : run.job.kind = "rx" /\ run.job.chunk = chunk

(* Each datagram posted is in one place, and its bytes are its own.          *)
UdpChunks ==
  class = "udp" =>
    /\ \A j \in 1..Len(posted) : posted[j].first <= next /\ (Came => posted[j].first < next)
    /\ Came => result.first = next
    /\ \A i \in 1..Len(handed) : Among(handed[i], posted)
    /\ \A i, j \in 1..Len(handed) : i # j => handed[i] # handed[j]
    /\ \A run \in running : run.job.kind = "rx" =>
         /\ run.bytes = run.job.chunk
         /\ Among(run.job.chunk, posted) /\ ~Among(run.job.chunk, handed)
    /\ \A i \in 1..Len(jobs) : jobs[i].kind = "rx" =>
         /\ Among(jobs[i].chunk, posted) /\ ~Among(jobs[i].chunk, handed) /\ ~TakenBy(running, jobs[i].chunk)
         /\ \A j \in 1..Len(jobs) : i # j => jobs[i] # jobs[j]

(* Where the first i chunks posted end in the stream, plus one.              *)
After(i) == IF i = 0 THEN 1 ELSE posted[i].first + posted[i].size

(* The chunks of a serial port are the stream, piece by piece.               *)
Stream ==
  class = "serial" =>
    /\ next <= Total
    /\ \A i \in 1..Len(posted) :
         posted[i].first = After(i - 1) /\ posted[i].size > 0 /\ After(i) <= next + 1
    /\ IF Came THEN result.first = After(Len(posted)) /\ result.size > 0 /\ result.first + result.size = next + 1
               ELSE After(Len(posted)) = next + 1

(* The assembler was given what was handed on.                               *)
Fed ==
  class = "serial" /\ (\A i \in 1..Len(handed) : handed[i] # Spoiled) => fed + 1 = After(Len(handed))

(* mBytes starts where a packet starts, and what was cut off are packets, no *)
(* more of them than bytes since every chunk has one.                        *)
Cuts ==
  /\ fed \in Nat /\ fed <= Total /\ assembled \in Seq(Chunk) /\ crowded \in BOOLEAN
  /\ PacketsComeOutInOrder
  /\ Len(assembled) <= fed /\ cut = Start[Len(assembled)] /\ cut <= fed

-----------------------------------------------------------------------------
(* Induction over the naturals, as a fact about a set of them: their order is *)
(* well founded, so that those left out would have a least one.              *)
LEMMA NatSetInduction ==
  ASSUME NEW S \in SUBSET Nat, 0 \in S, \A n \in S : n + 1 \in S
  PROVE  \A n \in Nat : n \in S
<1> DEFINE R == OpToRel(<, Nat)
<1>1. SUFFICES ASSUME Nat \ S # {} PROVE FALSE
  OBVIOUS
<1>2. \A x, y \in Nat : x < y => <<x, y>> \in R
  BY DEF OpToRel
<1>3. IsWellFoundedOn(R, Nat)
  BY NatLessThanWellFounded
<1> HIDE DEF R
<1>4. PICK x \in Nat \ S : \A y \in Nat \ S : ~(<<y, x>> \in R)
  <2>1. Nat \ S \subseteq Nat
    OBVIOUS
  <2>2. QED
    BY <1>1, <1>3, <2>1, WFMin, Zenon
<1>5. x - 1 \in Nat /\ x - 1 < x
  OBVIOUS
<1>6. x - 1 \in S
  BY <1>2, <1>4, <1>5
<1>7. QED
  BY <1>4, <1>5, <1>6

(* A recursive definition over 0..n has a function that satisfies it.        *)
Follows(f, T, t, g, n) == f \in [0..n -> T] /\ f[0] = t /\ \A k \in 1..n : f[k] = g[k][f[k - 1]]

LEMMA RecursionExists ==
  ASSUME NEW T, NEW t \in T, NEW n \in Nat, NEW g \in [1..n -> [T -> T]]
  PROVE  \E f : Follows(f, T, t, g, n)
<1> DEFINE S == {m \in Nat : m <= n => \E f : Follows(f, T, t, g, m)}
<1>1. 0 \in S
  <2>1. PICK f : f = [k \in 0..0 |-> t]
    OBVIOUS
  <2>2. Follows(f, T, t, g, 0)
    BY <2>1 DEF Follows
  <2>3. QED
    BY <2>2
<1>2. ASSUME NEW m \in S PROVE m + 1 \in S
  <2>1. m \in Nat /\ m + 1 \in Nat
    OBVIOUS
  <2>2. ASSUME m + 1 <= n PROVE \E f : Follows(f, T, t, g, m + 1)
    <3>1. PICK f : Follows(f, T, t, g, m)
      BY <2>1, <2>2
    <3>2. PICK h : h = [k \in 0..(m + 1) |-> IF k = m + 1 THEN g[m + 1][f[m]] ELSE f[k]]
      OBVIOUS
    <3>3. h \in [0..(m + 1) -> T] /\ h[0] = t
      BY <2>1, <2>2, <3>1, <3>2 DEF Follows
    <3>4. ASSUME NEW k \in 1..(m + 1) PROVE h[k] = g[k][h[k - 1]]
      BY <2>1, <3>1, <3>2 DEF Follows
    <3>5. QED
      BY <3>3, <3>4 DEF Follows
  <2>3. QED
    BY <2>1, <2>2
<1>3. \A m \in Nat : m \in S
  <2> HIDE DEF S
  <2>1. S \in SUBSET Nat
    BY DEF S
  <2>2. QED
    BY <1>1, <1>2, <2>1, NatSetInduction
<1>4. QED
  BY <1>3

LEMMA ConstantsTyped == /\ Total \in Nat /\ HeaderSize \in Nat /\ HeaderSize > 0
                        /\ SizeRange \in Nat /\ SizeRange > 0
                        /\ SizeAt \in [0..Total -> 0..(SizeRange - 1)]
<1>1. HeaderSize \in Nat \ {0} /\ SizeRange \in Nat \ {0} /\ Total \in Nat
  BY ReceiversAssumption, Zenon
<1>2. QED
  BY <1>1, ReceiversAssumption

LEMMA PacketsTyped ==
  ASSUME NEW position \in Nat
  PROVE  /\ PacketSize(position) \in Nat /\ PacketEnd[position] = position + PacketSize(position)
         /\ PacketEnd[position] \in Nat
<1>1. DecodeHeader(position).mPayloadSize \in Nat
  BY ConstantsTyped DEF DecodeHeader
<1>2. PICK n \in Nat : n = HeaderSize + DecodeHeader(position).mPayloadSize
  BY <1>1, ConstantsTyped
<1>3. n % SizeRange \in Nat
  BY ConstantsTyped
<1>4. PacketSize(position) \in Nat
  BY <1>2, <1>3 DEF PacketSize
<1>5. PacketEnd[position] = position + PacketSize(position)
  BY DEF PacketEnd
<1>6. QED
  BY <1>4, <1>5

(* Start is what its definition says.                                        *)
LEMMA StartIsRecursive ==
  Start = [k \in 0..(Total + 1) |-> IF k = 0 THEN 0 ELSE PacketEnd[Start[k - 1]]]
<1> DEFINE Eq(s) == s = [k \in 0..(Total + 1) |-> IF k = 0 THEN 0 ELSE PacketEnd[s[k - 1]]]
<1>1. PICK g : g = [k \in 1..(Total + 1) |-> [p \in Nat |-> PacketEnd[p]]]
  OBVIOUS
<1>2. g \in [1..(Total + 1) -> [Nat -> Nat]]
  BY <1>1, PacketsTyped, Zenon
<1>3. Total + 1 \in Nat
  BY ConstantsTyped
<1>4. PICK f : Follows(f, Nat, 0, g, Total + 1)
  BY <1>2, <1>3, RecursionExists
<1>5. ASSUME NEW k \in 1..(Total + 1) PROVE f[k] = PacketEnd[f[k - 1]]
  <2>1. f[k] = g[k][f[k - 1]]
    BY <1>4 DEF Follows
  <2>2. f[k - 1] \in Nat
    BY <1>3, <1>4 DEF Follows
  <2>3. QED
    BY <1>1, <2>1, <2>2, Zenon
<1>6. f \in [0..(Total + 1) -> Nat] /\ f[0] = 0
  BY <1>4 DEF Follows
<1>7. Eq(f)
  <2>1. ASSUME NEW k \in 0..(Total + 1) PROVE f[k] = IF k = 0 THEN 0 ELSE PacketEnd[f[k - 1]]
    <3>1. k = 0 \/ k \in 1..(Total + 1)
      BY <1>3
    <3>2. QED
      BY <1>5, <1>6, <3>1
  <2>2. QED
    BY <1>6, <2>1
<1>8. Start = CHOOSE s : Eq(s)
  BY DEF Start
<1>9. Eq(Start)
  <2> HIDE DEF Eq
  <2>1. QED
    BY <1>7, <1>8
<1>10. QED
  BY <1>9

(* So each packet starts where the one before ends.                          *)
LEMMA StartsInTurn ==
  /\ Start[0] = 0
  /\ \A k \in 0..Total : Start[k + 1] = Start[k] + PacketSize(Start[k])
  /\ \A k \in 0..(Total + 1) : Start[k] \in Nat
<1>1. Start[0] = 0
  BY StartIsRecursive, ConstantsTyped
<1>2. ASSUME NEW k \in 0..Total PROVE Start[k + 1] = PacketEnd[Start[k]]
  <2>1. k + 1 \in 0..(Total + 1) /\ k + 1 # 0 /\ (k + 1) - 1 = k
    BY ConstantsTyped
  <2>2. QED
    BY <2>1, StartIsRecursive
<1> DEFINE S == {m \in Nat : m <= Total + 1 => Start[m] \in Nat}
<1>3. 0 \in S
  BY <1>1
<1>4. ASSUME NEW m \in S PROVE m + 1 \in S
  <2>1. ASSUME m + 1 <= Total + 1 PROVE Start[m + 1] \in Nat
    <3>1. Start[m] \in Nat /\ m \in 0..Total
      BY <2>1, ConstantsTyped
    <3>2. QED
      BY <1>2, <3>1, PacketsTyped
  <2>2. QED
    BY <2>1
<1>5. \A m \in Nat : m \in S
  <2> HIDE DEF S
  <2>1. S \in SUBSET Nat
    BY DEF S
  <2>2. QED
    BY <1>3, <1>4, <2>1, NatSetInduction
<1>6. ASSUME NEW k \in 0..(Total + 1) PROVE Start[k] \in Nat
  <2>1. k \in S /\ k <= Total + 1
    BY <1>5, ConstantsTyped
  <2>2. QED
    BY <2>1
<1>7. ASSUME NEW k \in 0..Total PROVE Start[k + 1] = Start[k] + PacketSize(Start[k])
  <2>1. Start[k] \in Nat
    BY <1>6, ConstantsTyped
  <2>2. QED
    BY <1>2, <2>1, PacketsTyped
<1>8. QED
  BY <1>1, <1>6, <1>7

(* A packet is not whole before the one in front of it.                      *)
LEMMA WholeInTurn ==
  ASSUME NEW k \in 0..Total
  PROVE  /\ Whole(k) \in Nat /\ Whole(k + 1) \in Nat /\ Whole(k) <= Whole(k + 1)
         /\ Whole(k) >= Start[k] + HeaderSize /\ Whole(k) >= Start[k] + PacketSize(Start[k])
         /\ Whole(k) = Start[k] + HeaderSize \/ Whole(k) = Start[k] + PacketSize(Start[k])
<1>1. k \in 0..(Total + 1) /\ k + 1 \in 0..(Total + 1)
  BY ConstantsTyped
<1>2. PICK p \in Nat, q \in Nat : p = Start[k] /\ q = Start[k + 1]
  BY <1>1, StartsInTurn
<1>3. PICK m \in Nat, n \in Nat : m = PacketSize(p) /\ n = PacketSize(q)
  BY PacketsTyped
<1>4. PacketEnd[p] = p + m /\ PacketEnd[q] = q + n /\ q = p + m
  BY <1>2, <1>3, PacketsTyped, StartsInTurn
<1>5. /\ Whole(k) = IF m < HeaderSize THEN p + HeaderSize ELSE p + m
      /\ Whole(k + 1) = IF n < HeaderSize THEN q + HeaderSize ELSE q + n
  BY <1>2, <1>3, <1>4 DEF Whole
<1>6. HeaderSize \in Nat
  BY ConstantsTyped
<1>7. /\ Whole(k) \in Nat /\ Whole(k + 1) \in Nat /\ Whole(k) <= Whole(k + 1)
      /\ Whole(k) >= p + HeaderSize /\ Whole(k) >= p + m
      /\ Whole(k) = p + HeaderSize \/ Whole(k) = p + m
  <2>1. CASE m < HeaderSize
    BY <1>4, <1>5, <1>6, <2>1
  <2>2. CASE ~(m < HeaderSize)
    BY <1>4, <1>5, <1>6, <2>2
  <2>3. QED
    BY <2>1, <2>2
<1>8. QED
  BY <1>2, <1>3, <1>7

-----------------------------------------------------------------------------
(* What arrives is a chunk, and no mark.                                     *)
LEMMA ArrivalsAreChunks ==
  ASSUME ReceiverTypes, NEW chunk \in Arrivals
  PROVE  /\ chunk \in Chunk /\ chunk # Failed /\ chunk.first = next + 1 /\ chunk.size \in Nat
         /\ class = "serial" => chunk.size > 0 /\ next + chunk.size <= Total
<1>1. PICK n \in Nat : /\ chunk = [first |-> next + 1, size |-> n]
                       /\ class = "serial" => n > 0 /\ next + n <= Total
  <2>1. MaxLength \in Nat \ {0}
    BY ReceiversAssumption, Zenon
  <2>2. CASE class = "serial"
    <3>1. PICK n \in 1..MaxLength : next + n <= Total /\ chunk = [first |-> next + 1, size |-> n]
      BY <2>2 DEF Arrivals
    <3>2. QED
      BY <2>1, <3>1
  <2>3. CASE class # "serial"
    <3>1. PICK n \in {0, MaxLength} : chunk = [first |-> next + 1, size |-> n]
      BY <2>3 DEF Arrivals
    <3>2. QED
      BY <2>1, <2>3, <3>1
  <2>4. QED
    BY <2>2, <2>3
<1>2. chunk \in Chunk
  BY <1>1 DEF Chunk, ReceiverTypes
<1>3. QED
  BY <1>1, <1>2, MarksAssumption DEF Chunk

(* No step of the peers, of the threads or of the destructor breaks the types. *)
LEMMA TypesStep == ReceiverTypes /\ [Next]_vars => ReceiverTypes'
<1> SUFFICES ASSUME ReceiverTypes, [Next]_vars PROVE ReceiverTypes'
  OBVIOUS
<1> USE DEF ReceiverTypes
<1>1. CASE Receive
  <2>1. PICK chunk \in Arrivals :
          /\ result' = chunk /\ mData' = chunk
          /\ next' = IF class = "serial" THEN next + chunk.size ELSE next + 1
    BY <1>1 DEF Receive
  <2>2. chunk \in Chunk /\ next' \in Nat
    BY <2>1, ArrivalsAreChunks
  <2>3. ahead' = (ahead \/ Len(handed) < Len(posted))
    BY <1>1 DEF Receive
  <2>4. ahead' \in BOOLEAN
    BY <2>3, Zenon
  <2>5. QED
    BY <1>1, <2>1, <2>2, <2>4 DEF Receive, udpSends
<1>2. CASE ReceiveFails
  BY <1>2 DEF ReceiveFails, udpSends
<1>3. CASE TakeHandler
  BY <1>3 DEF TakeHandler, udpSends
<1>4. CASE OnRead
  <2>1. CASE result # Failed /\ (class = "udp" => result.size > 0)
    <3>1. jobs' = Append(jobs, [kind |-> "rx", chunk |-> result]) /\ posted' = Append(posted, result)
      BY <1>4, <2>1 DEF OnRead
    <3>2. result \in Chunk /\ [kind |-> "rx", chunk |-> result] \in Job
      BY <2>1 DEF Job
    <3>3. jobs' \in Seq(Job) /\ posted' \in Seq(Chunk)
      BY <3>1, <3>2, AppendProperties
    <3>4. QED
      BY <1>4, <3>3 DEF OnRead, udpSends
  <2>2. CASE ~(result # Failed /\ (class = "udp" => result.size > 0))
    BY <1>4, <2>2 DEF OnRead, udpSends
  <2>3. QED
    BY <2>1, <2>2
<1>5. CASE Write
  BY <1>5 DEF Write, reads
<1>6. CASE OnWrite
  <2>1. PICK m \in sends :
          /\ sends' = sends \ {m}
          /\ \/ jobs' = jobs
             \/ jobs' = Append(jobs, [kind |-> "error", chunk |-> [first |-> m, size |-> 0]])
    BY <1>6 DEF OnWrite
  <2>2. [kind |-> "error", chunk |-> [first |-> m, size |-> 0]] \in Job
    BY DEF Job, Chunk
  <2>3. jobs' \in Seq(Job)
    BY <2>1, <2>2, AppendProperties, SMTT(30)
  <2>4. QED
    BY <1>6, <2>1, <2>3 DEF OnWrite, reads
<1>7. CASE TakeJob
  <2>1. jobs # <<>> /\ jobs' = Tail(jobs)
    BY <1>7 DEF TakeJob
  <2>2. Head(jobs) \in Job /\ jobs' \in Seq(Job)
    BY <2>1, HeadTailProperties
  <2>3. PICK bytes \in Chunk \cup {Spoiled} : running' = running \cup {[job |-> Head(jobs), bytes |-> bytes]}
    BY <1>7, <2>2 DEF TakeJob, Job
  <2>4. running' \in SUBSET Running
    BY <2>2, <2>3 DEF Running
  <2>5. IsFiniteSet(running')
    BY <2>3, FS_AddElement
  <2>6. QED
    BY <1>7, <2>2, <2>4, <2>5 DEF TakeJob, reads, udpSends
<1>8. CASE Emit
  <2>1. PICK run \in running : running' = running \ {run} /\ (EmitRx(run) \/ EmitError(run))
    BY <1>8 DEF Emit
  <2>2. running' \in SUBSET Running /\ IsFiniteSet(running')
    BY <2>1, FS_RemoveElement
  <2>3. run.bytes \in Chunk \cup {Spoiled}
    BY DEF Running
  <2>4. handed' = Append(handed, run.bytes) \/ handed' = handed
    BY <2>1 DEF EmitRx, EmitError
  <2>5. handed' \in Seq(Chunk \cup {Spoiled})
    BY <2>3, <2>4, AppendProperties
  <2>6. QED
    BY <1>8, <2>2, <2>5 DEF Emit, reads, udpSends
<1>9. CASE Destroy \/ CallbackThreadsExit \/ Join \/ UNCHANGED vars
  BY <1>9 DEF Destroy, CallbackThreadsExit, Join, vars, reads, udpSends
<1>10. QED
  BY <1>1, <1>2, <1>3, <1>4, <1>5, <1>6, <1>7, <1>8, <1>9 DEF Next, Io

-----------------------------------------------------------------------------
(* What Append and Tail do, by index.                                        *)
Extended(t, s, e) == Len(t) = Len(s) + 1 /\ (\A i \in 1..Len(s) : t[i] = s[i]) /\ t[Len(s) + 1] = e
Shortened(t, s) == Len(t) \in Nat /\ Len(s) = Len(t) + 1 /\ \A i \in 1..Len(t) : t[i] = s[i + 1]

LEMMA LengthsAreNat == ReceiverTypes => Len(posted) \in Nat /\ Len(handed) \in Nat /\ Len(jobs) \in Nat
BY LenProperties DEF ReceiverTypes

(* What the handler of a receive does.                                       *)
LEMMA OnReadDoes ==
  ASSUME ReceiverTypes, OnRead
  PROVE  /\ ~Came' /\ UNCHANGED <<class, next, result, mData, ahead, running, handed, sends, fed, robot>>
         /\ \/ /\ Came /\ result \in Chunk /\ Extended(posted', posted, result)
               /\ Extended(jobs', jobs, [kind |-> "rx", chunk |-> result])
            \/ /\ UNCHANGED <<posted, jobs>>
               /\ Came => class = "udp"
<1>1. read = "running" /\ read' = "armed"
      /\ UNCHANGED <<class, next, result, mData, ahead, running, handed, sends, fed, robot>>
  BY DEF OnRead, udpSends, robot
<1>2. CASE result # Failed /\ (class = "udp" => result.size > 0)
  <2>1. jobs' = Append(jobs, [kind |-> "rx", chunk |-> result]) /\ posted' = Append(posted, result)
    BY <1>2 DEF OnRead
  <2>2. result \in Chunk /\ [kind |-> "rx", chunk |-> result] \in Job
    BY <1>2 DEF Job, ReceiverTypes
  <2>3. Extended(posted', posted, result)
    BY <2>1, <2>2, AppendProperties DEF Extended, ReceiverTypes
  <2>4. Extended(jobs', jobs, [kind |-> "rx", chunk |-> result])
    BY <2>1, <2>2, AppendProperties DEF Extended, ReceiverTypes
  <2>5. QED
    BY <1>1, <1>2, <2>2, <2>3, <2>4 DEF Came
<1>3. CASE ~(result # Failed /\ (class = "udp" => result.size > 0))
  BY <1>1, <1>3 DEF OnRead, Came
<1>4. QED
  BY <1>2, <1>3

(* A callback thread takes the first job, with the bytes of its chunk unless *)
(* mData has changed.                                                        *)
LEMMA TakeJobDoes ==
  ASSUME ReceiverTypes, TakeJob
  PROVE  /\ UNCHANGED <<class, next, read, result, mData, ahead, posted, handed, sends, fed, robot>>
         /\ Len(jobs) > 0 /\ Shortened(jobs', jobs)
         /\ class = "serial" => running = {}
         /\ \E bytes : /\ running' = running \cup {[job |-> jobs[1], bytes |-> bytes]}
                       /\ \/ bytes = jobs[1].chunk
                          \/ class = "serial" /\ mData # jobs[1].chunk /\ bytes = Spoiled
<1>1. jobs # <<>> /\ jobs' = Tail(jobs)
  BY DEF TakeJob
<1>2. Len(jobs) > 0 /\ Head(jobs) = jobs[1]
  BY <1>1, LenProperties, EmptySeq DEF ReceiverTypes
<1>3. Shortened(jobs', jobs)
  BY <1>1, <1>2, HeadTailProperties, LenProperties, LengthsAreNat DEF Shortened, ReceiverTypes
<1>4. class = "serial" => running = {}
  <2>1. class = "serial" => Cardinality(running) < 1
    BY DEF TakeJob, Threads
  <2>2. Cardinality(running) \in Nat
    BY FS_CardinalityType DEF ReceiverTypes
  <2>3. QED
    BY <2>1, <2>2, FS_EmptySet DEF ReceiverTypes
<1>5. running' = running \cup
        {[job |-> jobs[1], bytes |-> IF class = "serial" /\ mData # jobs[1].chunk THEN Spoiled ELSE jobs[1].chunk]}
  BY <1>2 DEF TakeJob
<1>6. QED
  BY <1>1, <1>2, <1>3, <1>4, <1>5 DEF TakeJob, reads, udpSends, robot

(* A job emits its signal.                                                   *)
LEMMA EmitDoes ==
  ASSUME ReceiverTypes, Emit
  PROVE  /\ UNCHANGED <<class, next, read, result, mData, ahead, posted, jobs, sends>>
         /\ \E run \in running :
              /\ running' = running \ {run}
              /\ \/ run.job.kind = "rx" /\ Extended(handed', handed, run.bytes)
                 \/ run.job.kind = "error" /\ handed' = handed
<1>1. PICK run \in running : running' = running \ {run} /\ (EmitRx(run) \/ EmitError(run))
  BY DEF Emit
<1>2. run.bytes \in Chunk \cup {Spoiled}
  BY DEF Running, ReceiverTypes
<1>3. EmitRx(run) => run.job.kind = "rx" /\ Extended(handed', handed, run.bytes)
  BY <1>2, AppendProperties DEF EmitRx, Extended, ReceiverTypes
<1>4. EmitError(run) => run.job.kind = "error" /\ handed' = handed
  BY DEF EmitError
<1>5. QED
  BY <1>1, <1>3, <1>4 DEF Emit, reads, udpSends

-----------------------------------------------------------------------------
(* The line of a serial port.                                                *)
InLine == \A i \in 1..Len(handed) : class = "serial" => handed[i] = posted[i] \/ (ahead /\ handed[i] = Spoiled)

LEMMA SerialLineStep ==
  ReceiverTypes /\ SerialLine /\ Buffer /\ InLine /\ [Next]_vars => SerialLine' /\ InLine'
<1> SUFFICES ASSUME ReceiverTypes, SerialLine, Buffer, InLine, [Next]_vars, class' = "serial"
             PROVE  SerialLine' /\ InLine'
  BY DEF SerialLine, InLine
<1>1. Len(posted) \in Nat /\ Len(handed) \in Nat /\ Len(jobs) \in Nat /\ Busy \in {0, 1}
  BY LengthsAreNat DEF Busy
<1>2. class = "serial"
  BY DEF Next, Receive, ReceiveFails, Write, Io, TakeHandler, OnRead, OnWrite, TakeJob, Emit, Destroy,
         CallbackThreadsExit, Join, vars
<1>3. /\ Len(posted) = Len(handed) + Busy + Len(jobs) /\ sends = {}
      /\ \A run \in running : running = {run}
      /\ \A run \in running :
           /\ run.job = [kind |-> "rx", chunk |-> posted[Len(handed) + 1]]
           /\ run.bytes = run.job.chunk \/ (ahead /\ run.bytes = Spoiled)
      /\ \A i \in 1..Len(jobs) : jobs[i] = [kind |-> "rx", chunk |-> posted[Len(handed) + Busy + i]]
  BY <1>2 DEF SerialLine
<1>4. CASE UNCHANGED <<posted, jobs, running, handed, sends>> /\ (ahead => ahead')
  <2>1. Busy' = Busy
    BY <1>4 DEF Busy
  <2>2. QED
    BY <1>2, <1>3, <1>4, <2>1 DEF SerialLine, InLine
<1>5. CASE OnRead
  <2>1. Busy' = Busy /\ UNCHANGED <<running, handed, sends, ahead>>
    BY <1>5, OnReadDoes DEF Busy
  <2>2. CASE UNCHANGED <<posted, jobs>>
    BY <1>4, <2>1, <2>2
  <2>3. CASE /\ Extended(posted', posted, result)
             /\ Extended(jobs', jobs, [kind |-> "rx", chunk |-> result])
    <3>1. /\ Len(posted') = Len(posted) + 1 /\ Len(jobs') = Len(jobs) + 1
          /\ \A i \in 1..Len(posted) : posted'[i] = posted[i]
          /\ posted'[Len(posted) + 1] = result
      BY <2>3 DEF Extended
    <3>2. ASSUME NEW run \in running PROVE posted'[Len(handed) + 1] = posted[Len(handed) + 1]
      BY <1>1, <1>3, <3>1 DEF Busy
    <3>3. ASSUME NEW i \in 1..Len(jobs')
          PROVE  jobs'[i] = [kind |-> "rx", chunk |-> posted'[Len(handed) + Busy + i]]
      <4>1. CASE i \in 1..Len(jobs)
        <5>1. jobs'[i] = jobs[i] /\ Len(handed) + Busy + i \in 1..Len(posted)
          BY <1>1, <1>3, <2>3, <4>1 DEF Extended
        <5>2. QED
          BY <1>3, <3>1, <4>1, <5>1
      <4>2. CASE i = Len(jobs) + 1
        <5>1. jobs'[i] = [kind |-> "rx", chunk |-> result] /\ Len(handed) + Busy + i = Len(posted) + 1
          BY <1>1, <1>3, <2>3, <4>2 DEF Extended
        <5>2. QED
          BY <3>1, <5>1
      <4>3. QED
        BY <1>1, <3>1, <4>1, <4>2
    <3>4. \A i \in 1..Len(handed) : posted'[i] = posted[i]
      BY <1>1, <1>3, <3>1
    <3>5. SerialLine'
      BY <1>1, <1>3, <2>1, <3>1, <3>2, <3>3 DEF SerialLine
    <3>6. QED
      BY <1>2, <2>1, <3>4, <3>5 DEF InLine
  <2>4. QED
    BY <1>5, <2>2, <2>3, OnReadDoes
<1>6. CASE TakeJob
  <2>1. /\ UNCHANGED <<posted, handed, sends, ahead, mData>> /\ Len(jobs) > 0 /\ running = {}
        /\ Len(jobs') \in Nat /\ Len(jobs) = Len(jobs') + 1
        /\ \A i \in 1..Len(jobs') : jobs'[i] = jobs[i + 1]
    BY <1>2, <1>6, TakeJobDoes DEF Shortened
  <2>2. PICK bytes : /\ running' = {[job |-> jobs[1], bytes |-> bytes]}
                     /\ \/ bytes = jobs[1].chunk
                        \/ mData # jobs[1].chunk /\ bytes = Spoiled
    BY <1>6, <2>1, TakeJobDoes
  <2>3. Busy = 0 /\ Busy' = 1 /\ Len(jobs') \in Nat
    BY <1>1, <2>1, <2>2 DEF Busy, Shortened
  <2>4. jobs[1] = [kind |-> "rx", chunk |-> posted[Len(handed) + 1]]
    BY <1>1, <1>3, <2>1, <2>3
  <2>5. mData # jobs[1].chunk => ahead
    <3>1. ASSUME ~ahead PROVE Len(posted) = Len(handed) + 1 /\ mData = posted[Len(posted)]
      BY <1>1, <1>2, <1>3, <2>1, <2>3, <3>1 DEF Buffer
    <3>2. QED
      BY <2>4, <3>1
  <2>6. ASSUME NEW i \in 1..Len(jobs')
        PROVE  jobs'[i] = [kind |-> "rx", chunk |-> posted[Len(handed) + 1 + i]]
    <3>1. i + 1 \in 1..Len(jobs) /\ jobs'[i] = jobs[i + 1]
      BY <1>1, <2>1, <2>3
    <3>2. jobs[i + 1] = [kind |-> "rx", chunk |-> posted[Len(handed) + 0 + (i + 1)]]
      BY <1>3, <2>3, <3>1
    <3>3. Len(handed) + 0 + (i + 1) = Len(handed) + 1 + i
      BY <1>1, <2>3
    <3>4. QED
      BY <3>1, <3>2, <3>3
  <2>7. SerialLine'
    <3>1. Len(posted') = Len(handed') + Busy' + Len(jobs')
      BY <1>1, <1>3, <2>1, <2>3
    <3>2. ASSUME NEW run \in running'
          PROVE  /\ running' = {run}
                 /\ run.job = [kind |-> "rx", chunk |-> posted[Len(handed) + 1]]
                 /\ run.bytes = run.job.chunk \/ (ahead /\ run.bytes = Spoiled)
      BY <2>2, <2>4, <2>5
    <3>3. QED
      BY <1>3, <2>1, <2>3, <2>6, <3>1, <3>2 DEF SerialLine
  <2>8. QED
    BY <1>2, <2>1, <2>7 DEF InLine
<1>7. CASE Emit
  <2>1. PICK run \in running :
          /\ running' = running \ {run}
          /\ \/ run.job.kind = "rx" /\ Extended(handed', handed, run.bytes)
             \/ run.job.kind = "error" /\ handed' = handed
    BY <1>7, EmitDoes
  <2>2. UNCHANGED <<posted, jobs, sends, ahead>>
    BY <1>7, EmitDoes
  <2>3. running' = {} /\ run.job.kind = "rx" /\ Busy = 1 /\ Busy' = 0
    BY <1>3, <2>1 DEF Busy
  <2>4. /\ Len(handed') = Len(handed) + 1 /\ handed'[Len(handed) + 1] = run.bytes
        /\ \A i \in 1..Len(handed) : handed'[i] = handed[i]
    BY <2>1, <2>3 DEF Extended
  <2>5. run.bytes = posted[Len(handed) + 1] \/ (ahead /\ run.bytes = Spoiled)
    BY <1>3, <2>1
  <2>6. InLine'
    BY <1>1, <1>2, <2>2, <2>4, <2>5 DEF InLine
  <2>7. SerialLine'
    <3>1. Len(posted') = Len(handed') + Busy' + Len(jobs')
      BY <1>1, <1>3, <2>2, <2>3, <2>4
    <3>2. ASSUME NEW i \in 1..Len(jobs)
          PROVE  jobs[i] = [kind |-> "rx", chunk |-> posted[(Len(handed) + 1) + 0 + i]]
      <4>1. Len(handed) + 1 + i = (Len(handed) + 1) + 0 + i
        BY <1>1
      <4>2. QED
        BY <1>3, <2>3, <4>1
    <3>3. QED
      BY <1>3, <2>2, <2>3, <2>4, <3>1, <3>2 DEF SerialLine
  <2>8. QED
    BY <2>6, <2>7
<1>8. CASE Receive
  <2>1. UNCHANGED <<posted, jobs, running, handed, sends>> /\ (ahead => ahead')
    BY <1>8 DEF Receive, udpSends
  <2>2. QED
    BY <1>4, <2>1
<1>9. CASE ReceiveFails \/ TakeHandler
  BY <1>4, <1>9 DEF ReceiveFails, TakeHandler, udpSends
<1>10. ~Write /\ ~OnWrite
  BY <1>2, <1>3 DEF Write, OnWrite
<1>11. CASE Destroy \/ CallbackThreadsExit \/ Join \/ UNCHANGED vars
  BY <1>4, <1>11 DEF Destroy, CallbackThreadsExit, Join, vars, reads, udpSends
<1>12. QED
  BY <1>5, <1>6, <1>7, <1>8, <1>9, <1>10, <1>11 DEF Next, Io

(* mData is given to the next chunk while this one is in line only if that   *)
(* came before this was handed on.                                           *)
LEMMA BufferStep == ReceiverTypes /\ SerialLine /\ Buffer /\ [Next]_vars => Buffer'
<1> SUFFICES ASSUME ReceiverTypes, SerialLine, Buffer, [Next]_vars, class' = "serial", ~ahead' PROVE Buffer'
  BY DEF Buffer
<1>1. Len(posted) \in Nat /\ Len(handed) \in Nat /\ Len(jobs) \in Nat /\ Busy \in {0, 1}
  BY LengthsAreNat DEF Busy
<1>2. class = "serial"
  BY DEF Next, Receive, ReceiveFails, Write, Io, TakeHandler, OnRead, OnWrite, TakeJob, Emit, Destroy,
         CallbackThreadsExit, Join, vars
<1>3. Len(posted) = Len(handed) + Busy + Len(jobs)
  BY <1>2 DEF SerialLine
<1>4. ASSUME ~ahead
      PROVE  /\ Len(posted) <= Len(handed) + 1
             /\ Len(posted) = Len(handed) + 1 => mData = posted[Len(posted)]
             /\ Came => Len(posted) = Len(handed) /\ result = mData
  BY <1>2, <1>4 DEF Buffer
<1>5. CASE UNCHANGED <<posted, handed, mData, ahead>> /\ (Came' => Came /\ result' = result)
  BY <1>4, <1>5 DEF Buffer
<1>6. CASE Receive
  <2>1. UNCHANGED <<posted, handed>> /\ result' = mData'
    BY <1>6 DEF Receive
  <2>2. ahead' = (ahead \/ Len(handed) < Len(posted))
    BY <1>6 DEF Receive
  <2>3. ~(Len(handed) < Len(posted))
    BY <2>2
  <2>4. Len(posted) = Len(handed)
    BY <1>1, <1>3, <2>3
  <2>5. QED
    BY <1>1, <2>1, <2>4 DEF Buffer
<1>7. CASE OnRead
  <2>1. ~Came' /\ UNCHANGED <<handed, mData, ahead>>
    BY <1>7, OnReadDoes
  <2>2. CASE UNCHANGED posted
    BY <1>5, <2>1, <2>2
  <2>3. CASE Came /\ Extended(posted', posted, result)
    <3>1. Len(posted') = Len(handed) + 1 /\ posted'[Len(posted')] = mData
      BY <1>1, <1>4, <2>1, <2>3 DEF Extended
    <3>2. QED
      BY <1>1, <2>1, <3>1 DEF Buffer
  <2>4. QED
    BY <1>7, <2>2, <2>3, OnReadDoes
<1>8. CASE Emit
  <2>1. PICK run \in running : Extended(handed', handed, run.bytes) \/ handed' = handed
    BY <1>8, EmitDoes
  <2>2. UNCHANGED <<posted, mData, ahead, read, result>>
    BY <1>8, EmitDoes
  <2>3. Came' = Came /\ Busy = 1
    BY <2>1, <2>2 DEF Came, Busy
  <2>4. Len(handed') \in {Len(handed), Len(handed) + 1}
    BY <2>1 DEF Extended
  <2>5. QED
    BY <1>1, <1>3, <1>4, <2>2, <2>3, <2>4 DEF Buffer
<1>9. CASE TakeJob
  BY <1>5, <1>9, TakeJobDoes DEF Came
<1>10. CASE ReceiveFails \/ TakeHandler
  BY <1>5, <1>10 DEF ReceiveFails, TakeHandler, Came
<1>11. CASE Write \/ OnWrite \/ Destroy \/ CallbackThreadsExit \/ Join \/ UNCHANGED vars
  BY <1>5, <1>11 DEF Write, OnWrite, Destroy, CallbackThreadsExit, Join, vars, reads, Came
<1>12. QED
  BY <1>6, <1>7, <1>8, <1>9, <1>10, <1>11 DEF Next, Io

-----------------------------------------------------------------------------
(* The datagrams of a udp server.                                            *)
LEMMA UdpChunksStep == ReceiverTypes /\ UdpChunks /\ [Next]_vars => UdpChunks'
<1> SUFFICES ASSUME ReceiverTypes, UdpChunks, [Next]_vars, class' = "udp" PROVE UdpChunks'
  BY DEF UdpChunks
<1>1. Len(posted) \in Nat /\ Len(handed) \in Nat /\ Len(jobs) \in Nat /\ next \in Nat
  BY LengthsAreNat DEF ReceiverTypes
<1>2. class = "udp"
  BY DEF Next, Receive, ReceiveFails, Write, Io, TakeHandler, OnRead, OnWrite, TakeJob, Emit, Destroy,
         CallbackThreadsExit, Join, vars
<1>3. /\ \A j \in 1..Len(posted) : posted[j].first <= next /\ (Came => posted[j].first < next)
      /\ Came => result.first = next
      /\ \A i \in 1..Len(handed) : Among(handed[i], posted)
      /\ \A i, j \in 1..Len(handed) : i # j => handed[i] # handed[j]
      /\ \A run \in running : run.job.kind = "rx" =>
           /\ run.bytes = run.job.chunk
           /\ Among(run.job.chunk, posted) /\ ~Among(run.job.chunk, handed)
      /\ \A i \in 1..Len(jobs) : jobs[i].kind = "rx" =>
           /\ Among(jobs[i].chunk, posted) /\ ~Among(jobs[i].chunk, handed) /\ ~TakenBy(running, jobs[i].chunk)
           /\ \A j \in 1..Len(jobs) : i # j => jobs[i] # jobs[j]
  BY <1>2 DEF UdpChunks
<1>4. \A j \in 1..Len(posted) : posted[j] \in Chunk /\ posted[j].first \in Nat
  <2>1. posted \in Seq(Chunk)
    BY DEF ReceiverTypes
  <2>2. \A j \in 1..Len(posted) : posted[j] \in Chunk
    BY <2>1, ElementOfSeq
  <2>3. QED
    BY <2>2 DEF Chunk
<1>5. CASE UNCHANGED <<posted, handed, running, jobs, next>> /\ (Came' => Came /\ result' = result)
  BY <1>2, <1>3, <1>5 DEF UdpChunks, Among, TakenBy
<1>6. CASE Receive
  <2>1. UNCHANGED <<posted, handed, running, jobs>> /\ next' = next + 1 /\ result'.first = next + 1
    BY <1>2, <1>6, ArrivalsAreChunks DEF Receive
  <2>2. \A j \in 1..Len(posted) : posted[j].first <= next + 1 /\ posted[j].first < next + 1
    BY <1>1, <1>3, <1>4
  <2>3. QED
    BY <1>3, <2>1, <2>2, Zenon DEF UdpChunks
<1>7. CASE OnRead
  <2>1. ~Came' /\ UNCHANGED <<handed, running, next>>
    BY <1>7, OnReadDoes
  <2>2. CASE UNCHANGED <<posted, jobs>>
    BY <1>5, <2>1, <2>2
  <2>3. CASE /\ Came /\ Extended(posted', posted, result)
             /\ Extended(jobs', jobs, [kind |-> "rx", chunk |-> result])
    <3>1. result.first = next /\ \A j \in 1..Len(posted) : posted[j].first < next
      BY <1>3, <2>3
    <3>2. ~Among(result, posted)
      BY <1>1, <1>4, <3>1 DEF Among
    <3>3. /\ Len(posted') = Len(posted) + 1 /\ posted'[Len(posted) + 1] = result
          /\ \A j \in 1..Len(posted) : posted'[j] = posted[j]
      BY <2>3 DEF Extended
    <3>4. \A chunk : Among(chunk, posted') <=> Among(chunk, posted) \/ chunk = result
      BY <1>1, <3>3 DEF Among
    <3>5. \A chunk : Among(chunk, handed') = Among(chunk, handed) /\ TakenBy(running', chunk) = TakenBy(running, chunk)
      BY <2>1 DEF Among, TakenBy
    <3>6. ~Among(result, handed) /\ ~TakenBy(running, result)
      BY <1>3, <3>2 DEF Among, TakenBy
    <3>7. /\ Len(jobs') = Len(jobs) + 1 /\ jobs'[Len(jobs) + 1] = [kind |-> "rx", chunk |-> result]
          /\ \A j \in 1..Len(jobs) : jobs'[j] = jobs[j]
      BY <2>3 DEF Extended
    <3>8. \A i \in 1..Len(jobs) : jobs[i] # [kind |-> "rx", chunk |-> result]
      BY <1>3, <3>2
    <3>9. ASSUME NEW i \in 1..Len(jobs'), jobs'[i].kind = "rx"
          PROVE  /\ Among(jobs'[i].chunk, posted') /\ ~Among(jobs'[i].chunk, handed) /\ ~TakenBy(running, jobs'[i].chunk)
                 /\ \A j \in 1..Len(jobs') : i # j => jobs'[i] # jobs'[j]
      <4>1. CASE i = Len(jobs) + 1
        BY <1>1, <3>4, <3>6, <3>7, <3>8, <4>1
      <4>2. CASE i \in 1..Len(jobs)
        BY <1>1, <1>3, <3>4, <3>7, <3>8, <3>9, <4>2
      <4>3. QED
        BY <1>1, <3>7, <4>1, <4>2
    <3>10. \A j \in 1..Len(posted') : posted'[j].first <= next
      BY <1>1, <1>3, <3>1, <3>3
    <3>11. QED
      BY <1>3, <2>1, <3>4, <3>5, <3>9, <3>10 DEF UdpChunks
  <2>4. QED
    BY <1>7, <2>2, <2>3, OnReadDoes
<1>8. CASE TakeJob
  <2>1. /\ UNCHANGED <<next, posted, handed>> /\ Came' = Came /\ result' = result
        /\ Len(jobs) > 0 /\ Len(jobs') \in Nat /\ Len(jobs) = Len(jobs') + 1
        /\ \A i \in 1..Len(jobs') : jobs'[i] = jobs[i + 1]
    BY <1>8, TakeJobDoes DEF Came, Shortened
  <2>2. running' = running \cup {[job |-> jobs[1], bytes |-> jobs[1].chunk]}
    BY <1>2, <1>8, TakeJobDoes
  <2>3. \A chunk : Among(chunk, posted') = Among(chunk, posted) /\ Among(chunk, handed') = Among(chunk, handed)
    BY <2>1 DEF Among
  <2>4. \A chunk : TakenBy(running', chunk) => TakenBy(running, chunk) \/ (jobs[1].kind = "rx" /\ chunk = jobs[1].chunk)
    BY <2>2 DEF TakenBy
  <2>5. 1 \in 1..Len(jobs) /\ \A i \in 1..Len(jobs') : i + 1 \in 1..Len(jobs) /\ i + 1 # 1
    BY <1>1, <2>1
  <2>6. ASSUME NEW run \in running', run.job.kind = "rx"
        PROVE  /\ run.bytes = run.job.chunk
               /\ Among(run.job.chunk, posted) /\ ~Among(run.job.chunk, handed)
    BY <1>3, <2>2, <2>5, <2>6
  <2>7. \A i \in 1..Len(jobs) : jobs[i] = [kind |-> jobs[i].kind, chunk |-> jobs[i].chunk]
    <3>1. jobs \in Seq(Job)
      BY DEF ReceiverTypes
    <3>2. \A i \in 1..Len(jobs) : jobs[i] \in Job
      BY <3>1, ElementOfSeq
    <3>3. QED
      BY <3>2 DEF Job
  <2>8. ASSUME NEW i \in 1..Len(jobs'), jobs'[i].kind = "rx"
        PROVE  /\ Among(jobs'[i].chunk, posted) /\ ~Among(jobs'[i].chunk, handed) /\ ~TakenBy(running', jobs'[i].chunk)
               /\ \A j \in 1..Len(jobs') : i # j => jobs'[i] # jobs'[j]
    <3>1. jobs'[i] = jobs[i + 1] /\ i + 1 \in 1..Len(jobs) /\ jobs[i + 1] # jobs[1]
      BY <1>3, <2>1, <2>5, <2>8
    <3>2. ~TakenBy(running', jobs'[i].chunk)
      <4>1. jobs[i + 1].kind = "rx" /\ ~TakenBy(running, jobs[i + 1].chunk)
        BY <1>3, <2>8, <3>1
      <4>2. jobs[1].kind = "rx" => jobs[i + 1].chunk # jobs[1].chunk
        BY <2>5, <2>7, <3>1, <4>1
      <4>3. QED
        BY <2>4, <3>1, <4>1, <4>2
    <3>3. \A j \in 1..Len(jobs') : i # j => jobs'[i] # jobs'[j]
      BY <1>1, <1>3, <2>1, <2>5, <2>8, <3>1
    <3>4. QED
      BY <1>3, <2>8, <3>1, <3>2, <3>3
  <2>9. QED
    BY <1>2, <1>3, <2>1, <2>3, <2>6, <2>8 DEF UdpChunks
<1>9. CASE Emit
  <2>1. PICK run \in running :
          /\ running' = running \ {run}
          /\ \/ run.job.kind = "rx" /\ Extended(handed', handed, run.bytes)
             \/ run.job.kind = "error" /\ handed' = handed
    BY <1>9, EmitDoes
  <2>2. UNCHANGED <<next, posted, jobs>> /\ Came' = Came /\ result' = result
    BY <1>9, EmitDoes DEF Came
  <2>3. \A chunk : /\ Among(chunk, posted') = Among(chunk, posted)
                   /\ TakenBy(running', chunk) => TakenBy(running, chunk)
    BY <2>1, <2>2 DEF Among, TakenBy
  <2>4. CASE run.job.kind = "error" /\ handed' = handed
    <3>1. \A chunk : Among(chunk, handed') = Among(chunk, handed)
      BY <2>4 DEF Among
    <3>2. /\ \A j \in 1..Len(posted') : posted'[j].first <= next' /\ (Came' => posted'[j].first < next')
          /\ Came' => result'.first = next'
      BY <1>3, <2>2
    <3>3. /\ \A i \in 1..Len(handed') : Among(handed'[i], posted')
          /\ \A i, j \in 1..Len(handed') : i # j => handed'[i] # handed'[j]
      BY <1>3, <2>3, <2>4
    <3>4. \A q \in running' : q.job.kind = "rx" =>
            q.bytes = q.job.chunk /\ Among(q.job.chunk, posted') /\ ~Among(q.job.chunk, handed')
      BY <1>3, <2>1, <2>3, <3>1
    <3>5. ASSUME NEW i \in 1..Len(jobs'), jobs'[i].kind = "rx"
          PROVE  /\ Among(jobs'[i].chunk, posted') /\ ~Among(jobs'[i].chunk, handed') /\ ~TakenBy(running', jobs'[i].chunk)
                 /\ \A j \in 1..Len(jobs') : i # j => jobs'[i] # jobs'[j]
      BY <1>3, <2>2, <2>3, <3>1, <3>5
    <3>6. QED
      BY <3>2, <3>3, <3>4, <3>5, Zenon DEF UdpChunks
  <2>5. CASE run.job.kind = "rx" /\ Extended(handed', handed, run.bytes)
    <3>1. run.bytes = run.job.chunk /\ Among(run.bytes, posted) /\ ~Among(run.bytes, handed) /\ TakenBy(running, run.bytes)
      BY <1>3, <2>1, <2>5 DEF TakenBy
    <3>2. /\ Len(handed') = Len(handed) + 1 /\ handed'[Len(handed) + 1] = run.bytes
          /\ \A j \in 1..Len(handed) : handed'[j] = handed[j]
      BY <2>5 DEF Extended
    <3>3. \A chunk : Among(chunk, handed') <=> Among(chunk, handed) \/ chunk = run.bytes
      BY <1>1, <3>2 DEF Among
    <3>4. \A i \in 1..Len(handed') : Among(handed'[i], posted)
      BY <1>1, <1>3, <3>1, <3>2
    <3>5. \A i, j \in 1..Len(handed') : i # j => handed'[i] # handed'[j]
      <4>1. \A i \in 1..Len(handed) : handed[i] # run.bytes
        BY <3>1 DEF Among
      <4>2. \A i \in 1..Len(handed') : i \in 1..Len(handed) \/ i = Len(handed) + 1
        BY <1>1, <3>2
      <4>3. QED
        BY <1>3, <3>2, <4>1, <4>2
    <3>6. ASSUME NEW q \in running', q.job.kind = "rx"
          PROVE  q.job.chunk # run.bytes
      <4>1. q \in Running /\ run \in Running /\ q \in running /\ q # run
        BY <2>1 DEF ReceiverTypes
      <4>2. q.job.kind = run.job.kind /\ q.bytes = q.job.chunk /\ run.bytes = run.job.chunk
        BY <1>3, <2>1, <2>5, <3>6
      <4>3. q.job = [kind |-> q.job.kind, chunk |-> q.job.chunk] /\ run.job = [kind |-> run.job.kind, chunk |-> run.job.chunk]
        BY <4>1 DEF Running, Job
      <4>4. q = [job |-> q.job, bytes |-> q.bytes] /\ run = [job |-> run.job, bytes |-> run.bytes]
        BY <4>1 DEF Running
      <4>5. QED
        BY <4>1, <4>2, <4>3, <4>4
    <3>7. \A i \in 1..Len(jobs) : jobs[i].kind = "rx" => jobs[i].chunk # run.bytes
      BY <1>3, <3>1
    <3>8. /\ \A j \in 1..Len(posted') : posted'[j].first <= next' /\ (Came' => posted'[j].first < next')
          /\ Came' => result'.first = next'
      BY <1>3, <2>2
    <3>9. \A i \in 1..Len(handed') : Among(handed'[i], posted')
      BY <2>3, <3>4
    <3>10. \A q \in running' : q.job.kind = "rx" =>
             q.bytes = q.job.chunk /\ Among(q.job.chunk, posted') /\ ~Among(q.job.chunk, handed')
      BY <1>3, <2>1, <2>3, <3>3, <3>6
    <3>11. ASSUME NEW i \in 1..Len(jobs'), jobs'[i].kind = "rx"
           PROVE  /\ Among(jobs'[i].chunk, posted') /\ ~Among(jobs'[i].chunk, handed') /\ ~TakenBy(running', jobs'[i].chunk)
                  /\ \A j \in 1..Len(jobs') : i # j => jobs'[i] # jobs'[j]
      BY <1>3, <2>2, <2>3, <3>3, <3>7, <3>11
    <3>12. QED
      BY <3>5, <3>8, <3>9, <3>10, <3>11, Zenon DEF UdpChunks
  <2>6. QED
    BY <2>1, <2>4, <2>5
<1>10. CASE OnWrite
  <2>1. /\ UNCHANGED <<next, posted, handed, running>> /\ Came' = Came /\ result' = result
        /\ \E m \in sends :
             \/ jobs' = jobs
             \/ jobs' = Append(jobs, [kind |-> "error", chunk |-> [first |-> m, size |-> 0]])
    BY <1>10 DEF OnWrite, reads, Came
  <2>2. CASE jobs' = jobs
    BY <1>5, <2>1, <2>2
  <2>3. CASE \E m \in sends : jobs' = Append(jobs, [kind |-> "error", chunk |-> [first |-> m, size |-> 0]])
    <3>1. PICK m \in sends : jobs' = Append(jobs, [kind |-> "error", chunk |-> [first |-> m, size |-> 0]])
      BY <2>3
    <3>2. [kind |-> "error", chunk |-> [first |-> m, size |-> 0]] \in Job
      BY DEF Job, Chunk, ReceiverTypes
    <3>3. /\ Len(jobs') = Len(jobs) + 1 /\ jobs'[Len(jobs) + 1].kind = "error"
          /\ \A j \in 1..Len(jobs) : jobs'[j] = jobs[j]
      BY <3>1, <3>2, AppendProperties DEF ReceiverTypes
    <3>4. ASSUME NEW i \in 1..Len(jobs'), jobs'[i].kind = "rx"
          PROVE  /\ Among(jobs'[i].chunk, posted) /\ ~Among(jobs'[i].chunk, handed) /\ ~TakenBy(running, jobs'[i].chunk)
                 /\ \A j \in 1..Len(jobs') : i # j => jobs'[i] # jobs'[j]
      <4>1. i \in 1..Len(jobs)
        BY <1>1, <3>3, <3>4
      <4>2. \A j \in 1..Len(jobs') : j \in 1..Len(jobs) \/ jobs'[j].kind # "rx"
        BY <1>1, <3>3
      <4>3. jobs'[i] = jobs[i]
        BY <3>3, <4>1
      <4>4. QED
        BY <1>3, <3>3, <3>4, <4>1, <4>2, <4>3
    <3>5. \A chunk : Among(chunk, handed') = Among(chunk, handed) /\ TakenBy(running', chunk) = TakenBy(running, chunk)
                     /\ Among(chunk, posted') = Among(chunk, posted)
      BY <2>1 DEF Among, TakenBy
    <3>6. QED
      BY <1>3, <2>1, <3>4, <3>5 DEF UdpChunks
  <2>4. QED
    BY <2>1, <2>2, <2>3
<1>11. CASE ReceiveFails \/ TakeHandler
  BY <1>5, <1>11 DEF ReceiveFails, TakeHandler, Came
<1>12. CASE Write \/ Destroy \/ CallbackThreadsExit \/ Join \/ UNCHANGED vars
  BY <1>5, <1>12 DEF Write, Destroy, CallbackThreadsExit, Join, vars, reads, Came
<1>13. QED
  BY <1>6, <1>7, <1>8, <1>9, <1>10, <1>11, <1>12 DEF Next, Io

-----------------------------------------------------------------------------
(* The chunks of a serial port follow each other in the stream.              *)
LEMMA StreamStep == ReceiverTypes /\ Stream /\ [Next]_vars => Stream'
<1> SUFFICES ASSUME ReceiverTypes, Stream, [Next]_vars, class' = "serial" PROVE Stream'
  BY DEF Stream
<1>1. Len(posted) \in Nat /\ next \in Nat /\ Total \in Nat
  BY LengthsAreNat, ConstantsTyped DEF ReceiverTypes
<1>2. class = "serial"
  BY DEF Next, Receive, ReceiveFails, Write, Io, TakeHandler, OnRead, OnWrite, TakeJob, Emit, Destroy,
         CallbackThreadsExit, Join, vars
<1>3. /\ next <= Total
      /\ \A i \in 1..Len(posted) :
           posted[i].first = After(i - 1) /\ posted[i].size > 0 /\ After(i) <= next + 1
      /\ IF Came THEN result.first = After(Len(posted)) /\ result.size > 0 /\ result.first + result.size = next + 1
                 ELSE After(Len(posted)) = next + 1
  BY <1>2 DEF Stream
<1>4. ASSUME posted' = posted PROVE \A i : After(i)' = After(i)
  BY <1>4 DEF After
<1>5. CASE UNCHANGED <<posted, next>> /\ (Came' <=> Came) /\ (Came => result' = result)
  <2>1. \A i : After(i)' = After(i)
    BY <1>4, <1>5
  <2>2. QED
    BY <1>3, <1>5, <2>1 DEF Stream
<1>6. CASE Receive
  <2>1. PICK chunk \in Arrivals : result' = chunk /\ next' = next + chunk.size
    BY <1>2, <1>6 DEF Receive
  <2>2. /\ chunk.first = next + 1 /\ chunk.size \in Nat /\ chunk.size > 0 /\ next + chunk.size <= Total
        /\ chunk # Failed
    BY <1>2, ArrivalsAreChunks
  <2>3. ~Came /\ Came' /\ posted' = posted
    BY <1>6, <2>1, <2>2 DEF Receive, Came
  <2>4. \A i : After(i)' = After(i)
    BY <1>4, <2>3
  <2>5. ASSUME NEW i \in 1..Len(posted) PROVE After(i) <= next' + 1
    <3>1. posted[i] \in Chunk
      <4>1. posted \in Seq(Chunk)
        BY DEF ReceiverTypes
      <4>2. QED
        BY <4>1, ElementOfSeq
    <3>2. After(i) \in Nat
      BY <3>1 DEF After, Chunk
    <3>3. QED
      BY <1>1, <1>3, <2>1, <2>2, <3>2
  <2>6. After(Len(posted)) = next + 1
    BY <1>3, <2>3
  <2>7. QED
    BY <1>1, <1>3, <2>1, <2>2, <2>3, <2>4, <2>5, <2>6, SMTT(30) DEF Stream
<1>7. CASE OnRead
  <2>1. ~Came' /\ next' = next /\ result' = result
    BY <1>7, OnReadDoes
  <2>2. CASE UNCHANGED posted /\ ~Came
    BY <1>5, <2>1, <2>2
  <2>3. CASE Came /\ result \in Chunk /\ Extended(posted', posted, result)
    <3>1. /\ Len(posted') = Len(posted) + 1 /\ posted'[Len(posted) + 1] = result
          /\ \A i \in 1..Len(posted) : posted'[i] = posted[i]
      BY <2>3 DEF Extended
    <3>2. \A i \in 0..Len(posted) : After(i)' = After(i)
      BY <1>1, <3>1 DEF After
    <3> PICK l \in Nat : l = Len(posted)
      BY <1>1
    <3>3. After(l + 1)' = next + 1
      <4>1. l + 1 # 0
        OBVIOUS
      <4>2. After(l + 1)' = posted'[l + 1].first + posted'[l + 1].size
        BY <4>1 DEF After
      <4>3. QED
        BY <1>3, <2>3, <3>1, <4>2
    <3>4. ASSUME NEW i \in 1..Len(posted')
          PROVE  posted'[i].first = After(i - 1)' /\ posted'[i].size > 0 /\ After(i)' <= next + 1
      <4>1. CASE i \in 1..Len(posted)
        <5>1. i \in 0..Len(posted) /\ i - 1 \in 0..Len(posted)
          BY <1>1, <4>1
        <5>2. QED
          BY <1>3, <3>1, <3>2, <4>1, <5>1
      <4>2. CASE i = Len(posted) + 1
        <5>1. i - 1 = Len(posted) /\ Len(posted) \in 0..Len(posted)
          BY <1>1, <4>2
        <5>2. After(i - 1)' = After(Len(posted))
          BY <3>2, <5>1
        <5>3. posted'[i].first = After(Len(posted)) /\ posted'[i].size > 0
          BY <1>3, <2>3, <3>1, <4>2
        <5>4. i = l + 1
          BY <4>2
        <5>5. QED
          BY <1>1, <3>3, <5>2, <5>3, <5>4
      <4>3. QED
        BY <1>1, <3>1, <4>1, <4>2
    <3>5. After(Len(posted))' = next + 1
      BY <3>1, <3>3
    <3>6. QED
      BY <1>3, <2>1, <3>4, <3>5 DEF Stream
  <2>4. QED
    BY <1>2, <1>7, <2>2, <2>3, OnReadDoes
<1>8. CASE ReceiveFails
  BY <1>5, <1>8 DEF ReceiveFails, Came
<1>9. CASE TakeHandler
  BY <1>5, <1>9 DEF TakeHandler, Came
<1>10. CASE TakeJob \/ Emit \/ Write \/ OnWrite \/ Destroy \/ CallbackThreadsExit \/ Join \/ UNCHANGED vars
  BY <1>5, <1>10 DEF TakeJob, Emit, Write, OnWrite, Destroy, CallbackThreadsExit, Join, vars, reads, Came
<1>11. QED
  BY <1>6, <1>7, <1>8, <1>9, <1>10 DEF Next, Io

(* Only a whole chunk of the stream, the next one, is given to the assembler. *)
LEMMA EmitFeeds ==
  ASSUME ReceiverTypes, SerialLine, Stream, Fed, fed \in Nat, Emit
  PROVE  \/ UNCHANGED robot /\ Fed'
         \/ /\ class = "serial" /\ Fed'
            /\ \E n \in Nat \ {0} : fed + n <= Total /\ AddBytes(n)
<1>1. PICK run \in running : EmitRx(run) \/ EmitError(run)
  BY DEF Emit
<1>2. UNCHANGED <<class, posted>>
  BY EmitDoes
<1>3. Len(posted) \in Nat /\ Len(handed) \in Nat /\ Len(jobs) \in Nat /\ Total \in Nat /\ next \in Nat
  BY LengthsAreNat, ConstantsTyped DEF ReceiverTypes
<1>4. CASE EmitError(run)
  BY <1>2, <1>4 DEF EmitError, Fed, After, robot
<1>5. CASE EmitRx(run) /\ ~(class = "serial" /\ \A i \in 1..Len(handed') : handed'[i] # Spoiled)
  <2>1. UNCHANGED robot
    BY <1>5 DEF EmitRx
  <2>2. Fed'
    BY <1>2, <1>5 DEF Fed
  <2>3. QED
    BY <2>1, <2>2
<1>6. CASE EmitRx(run) /\ class = "serial" /\ \A i \in 1..Len(handed') : handed'[i] # Spoiled
  <2>1. handed' = Append(handed, run.bytes) /\ AddBytes(run.bytes.size)
    BY <1>6 DEF EmitRx
  <2>2. run.bytes \in Chunk \cup {Spoiled}
    BY DEF Running, ReceiverTypes
  <2>3. /\ Len(handed') = Len(handed) + 1 /\ handed'[Len(handed) + 1] = run.bytes
        /\ \A i \in 1..Len(handed) : handed'[i] = handed[i]
    BY <2>1, <2>2, AppendProperties DEF ReceiverTypes
  <2>4. run.bytes # Spoiled /\ \A i \in 1..Len(handed) : handed[i] # Spoiled
    BY <1>3, <1>6, <2>3
  <2>5. fed + 1 = After(Len(handed))
    BY <1>6, <2>4 DEF Fed
  <2>6. run.bytes = posted[Len(handed) + 1] /\ Len(handed) + 1 \in 1..Len(posted)
    <3>1. Busy = 1
      BY DEF Busy
    <3>2. QED
      BY <1>3, <1>6, <2>4, <3>1 DEF SerialLine
  <2>7. /\ run.bytes.first = After(Len(handed)) /\ After(Len(handed) + 1) <= next + 1 /\ next <= Total
        /\ After(Len(handed) + 1) = run.bytes.first + run.bytes.size /\ run.bytes.size > 0
    <3>1. (Len(handed) + 1) - 1 = Len(handed) /\ Len(handed) + 1 # 0
      BY <1>3
    <3>2. /\ posted[Len(handed) + 1].first = After((Len(handed) + 1) - 1)
          /\ posted[Len(handed) + 1].size > 0 /\ After(Len(handed) + 1) <= next + 1 /\ next <= Total
      BY <1>6, <2>6 DEF Stream
    <3>3. QED
      BY <2>6, <3>1, <3>2 DEF After
  <2>8. PICK n \in Nat \ {0} : n = run.bytes.size
    BY <2>2, <2>4, <2>7 DEF Chunk
  <2>9. fed + n <= Total /\ fed + n + 1 = After(Len(handed) + 1)
    <3>1. After(Len(handed) + 1) = (fed + 1) + n
      BY <2>5, <2>7, <2>8
    <3>2. (fed + 1) + n <= next + 1 /\ next <= Total
      BY <2>7, <3>1
    <3>3. QED
      BY <1>3, <2>8, <3>1, <3>2, SMTT(30)
  <2>10. fed' = fed + n
    BY <2>1, <2>8 DEF AddBytes, Feed
  <2>11. Fed'
    <3>1. fed' + 1 = (IF Len(handed') = 0 THEN 1 ELSE posted'[Len(handed')].first + posted'[Len(handed')].size)
      BY <1>2, <1>3, <2>3, <2>9, <2>10 DEF After
    <3>2. QED
      BY <3>1 DEF Fed, After
  <2>12. QED
    BY <1>6, <2>1, <2>8, <2>9, <2>11
<1>7. QED
  BY <1>1, <1>4, <1>5, <1>6

-----------------------------------------------------------------------------
(* AddBytes cuts off the next packet if it is whole, and at most that one.   *)
LEMMA AddBytesCuts ==
  ASSUME Cuts, NEW n \in Nat \ {0}, fed + n <= Total, AddBytes(n)
  PROVE  Cuts'
<1>1. PICK a \in Nat : a = Len(assembled)
  BY LenProperties DEF Cuts
<1>2. /\ fed \in Nat /\ assembled \in Seq(Chunk) /\ a <= fed /\ crowded \in BOOLEAN
      /\ \A k \in 1..a : assembled[k] = [first |-> Start[k - 1], size |-> PacketSize(Start[k - 1])]
      /\ crowded \/ fed < Whole(a)
      /\ cut = Start[a] /\ cut <= fed
  BY <1>1 DEF Cuts, PacketsComeOutInOrder
<1>3. Total \in Nat /\ HeaderSize \in Nat /\ HeaderSize > 0
  BY ConstantsTyped
<1>4. a \in 0..Total /\ a + 1 \in 0..Total /\ cut \in Nat
  <2>1. a \in 0..Total /\ a + 1 \in 0..Total /\ a \in 0..(Total + 1)
    BY <1>2, <1>3
  <2>2. QED
    BY <1>2, <2>1, StartsInTurn
<1>5. PICK size \in Nat : size = PacketSize(cut)
  BY <1>4, PacketsTyped
<1>6. /\ fed' = fed + n /\ fed' \in Nat /\ fed' <= Total
      /\ crowded' = (crowded \/ \E k \in 0..Total : fed < Whole(k) /\ Whole(k + 1) <= fed')
  BY <1>2 DEF AddBytes, Feed
<1>7. crowded' \in BOOLEAN
  BY <1>6, Zenon
<1>8. /\ Whole(a) \in Nat /\ Whole(a + 1) \in Nat
      /\ Whole(a) >= cut + HeaderSize /\ Whole(a) >= cut + size
      /\ Whole(a) = cut + HeaderSize \/ Whole(a) = cut + size
  BY <1>2, <1>4, <1>5, WholeInTurn
<1>9. CASE fed' - cut < HeaderSize \/ fed' - cut < size
  <2>1. UNCHANGED <<cut, assembled>>
    BY <1>5, <1>9 DEF AddBytes
  <2>2. fed' < Whole(a)
    BY <1>4, <1>6, <1>8, <1>9, <1>3
  <2>3. PacketsComeOutInOrder'
    BY <1>1, <1>2, <2>1, <2>2 DEF PacketsComeOutInOrder
  <2>4. a <= fed' /\ cut <= fed'
    BY <1>2, <1>4, <1>6
  <2>5. QED
    BY <1>1, <1>2, <1>6, <1>7, <2>1, <2>3, <2>4 DEF Cuts
<1>10. CASE ~(fed' - cut < HeaderSize \/ fed' - cut < size)
  <2>1. assembled' = Append(assembled, [first |-> cut, size |-> size]) /\ cut' = PacketEnd[cut]
    BY <1>5, <1>10 DEF AddBytes
  <2>2. cut' = cut + size /\ cut' = Start[a + 1]
    BY <1>2, <1>4, <1>5, <2>1, PacketsTyped, StartsInTurn
  <2>3. [first |-> cut, size |-> size] \in Chunk
    BY <1>4 DEF Chunk
  <2>4. /\ assembled' \in Seq(Chunk) /\ Len(assembled') = a + 1
        /\ assembled'[a + 1] = [first |-> cut, size |-> size]
        /\ \A k \in 1..a : assembled'[k] = assembled[k]
    BY <1>1, <1>2, <2>1, <2>3, AppendProperties
  <2>5. ASSUME NEW k \in 1..(a + 1)
        PROVE  assembled'[k] = [first |-> Start[k - 1], size |-> PacketSize(Start[k - 1])]
    <3>1. CASE k \in 1..a
      BY <1>2, <2>4, <3>1
    <3>2. CASE k = a + 1
      BY <1>2, <1>5, <2>4, <3>2
    <3>3. QED
      BY <3>1, <3>2
  <2>6. ASSUME ~crowded' PROVE fed' < Whole(a + 1)
    <3>1. ~crowded /\ ~(fed < Whole(a) /\ Whole(a + 1) <= fed')
      BY <1>4, <1>6, <2>6, Zenon
    <3>2. fed < Whole(a)
      BY <1>2, <3>1
    <3>3. QED
      BY <1>6, <1>8, <3>1, <3>2
  <2>7. PacketsComeOutInOrder'
    BY <2>4, <2>5, <2>6 DEF PacketsComeOutInOrder
  <2>8. a + 1 <= fed' /\ cut' <= fed'
    BY <1>2, <1>4, <1>6, <1>10, <2>2
  <2>9. QED
    BY <1>6, <1>7, <2>2, <2>4, <2>7, <2>8 DEF Cuts
<1>11. QED
  BY <1>9, <1>10

-----------------------------------------------------------------------------
LineInv == ReceiverTypes /\ SerialLine /\ Buffer /\ InLine /\ UdpChunks
RobotInv == Stream /\ Fed /\ Cuts

(* Nothing has arrived.                                                      *)
LEMMA InitLineInv == Init => LineInv
<1> SUFFICES ASSUME Init PROVE LineInv
  OBVIOUS
<1>1. class \in {"serial", "udp"}
  BY ReceiversAssumption, Zenon DEF Init
<1>2. NoChunk \in Chunk
  BY DEF NoChunk, Chunk
<1>3. IsFiniteSet(running)
  BY FS_EmptySet DEF Init
<1>4. ReceiverTypes
  <2>1. /\ next \in Nat /\ read \in {"armed", "complete", "running"}
        /\ result \in Chunk \cup {Failed} /\ mData \in Chunk
        /\ posted \in Seq(Chunk) /\ jobs \in Seq(Job) /\ handed \in Seq(Chunk \cup {Spoiled})
        /\ running \in SUBSET Running /\ sends \in SUBSET Nat /\ written \in Nat
    BY <1>2 DEF Init
  <2>2. ahead \in BOOLEAN
    BY Zenon DEF Init
  <2>3. QED
    BY <1>1, <1>3, <2>1, <2>2 DEF ReceiverTypes
<1>5. SerialLine /\ Buffer /\ InLine /\ UdpChunks
  BY DEF Init, SerialLine, Buffer, InLine, UdpChunks, Busy, Came
<1>6. QED
  BY <1>4, <1>5 DEF LineInv

LEMMA InitRobotInv == Init => RobotInv
<1> SUFFICES ASSUME Init PROVE RobotInv
  OBVIOUS
<1>1. Len(posted) = 0 /\ Len(handed) = 0 /\ Len(assembled) = 0 /\ assembled \in Seq(Chunk)
  BY DEF Init
<1>2. Total \in Nat /\ Start[0] = 0 /\ 0 \in 0..Total
  BY StartsInTurn, ConstantsTyped
<1>3. Stream /\ Fed
  BY <1>1, <1>2 DEF Init, Stream, Fed, After, Came
<1>4. 0 < Whole(0)
  BY <1>2, WholeInTurn, ConstantsTyped
<1>5. PacketsComeOutInOrder
  BY <1>1, <1>4 DEF Init, PacketsComeOutInOrder
<1>6. crowded \in BOOLEAN
  BY Zenon DEF Init
<1>7. Cuts
  BY <1>1, <1>2, <1>5, <1>6 DEF Init, Cuts
<1>8. QED
  BY <1>3, <1>7 DEF RobotInv

LEMMA LineInvStep == LineInv /\ [Next]_vars => LineInv'
BY TypesStep, SerialLineStep, BufferStep, UdpChunksStep DEF LineInv

LEMMA RobotInvStep == LineInv /\ RobotInv /\ [Next]_vars => RobotInv'
<1> SUFFICES ASSUME LineInv, RobotInv, [Next]_vars PROVE RobotInv'
  OBVIOUS
<1>1. Stream'
  BY StreamStep DEF LineInv, RobotInv
<1>2. ASSUME UNCHANGED robot PROVE Cuts'
  BY <1>2 DEF RobotInv, Cuts, PacketsComeOutInOrder, robot
<1>3. CASE Emit
  <2>1. CASE UNCHANGED robot /\ Fed'
    BY <1>1, <1>2, <2>1 DEF RobotInv
  <2>2. CASE Fed' /\ \E n \in Nat \ {0} : fed + n <= Total /\ AddBytes(n)
    <3>1. Cuts'
      BY <1>3, <2>2, AddBytesCuts DEF RobotInv
    <3>2. QED
      BY <1>1, <2>2, <3>1 DEF RobotInv
  <2>3. QED
    BY <1>3, <2>1, <2>2, EmitFeeds DEF LineInv, RobotInv, Cuts
<1>4. CASE OnRead
  <2>1. UNCHANGED robot /\ UNCHANGED <<class, handed>>
    BY <1>4, OnReadDoes DEF LineInv, OnRead
  <2>2. posted' = posted \/ Extended(posted', posted, result)
    BY <1>4, OnReadDoes DEF LineInv
  <2>3. Len(posted) \in Nat /\ Len(handed) \in Nat /\ Len(jobs) \in Nat /\ Busy \in {0, 1}
    BY LengthsAreNat DEF LineInv, Busy
  <2>4. class = "serial" => Len(handed) <= Len(posted)
    BY <2>3 DEF LineInv, SerialLine
  <2>5. Fed'
    BY <2>1, <2>2, <2>3, <2>4 DEF RobotInv, Fed, After, Extended, robot
  <2>6. QED
    BY <1>1, <1>2, <2>1, <2>5 DEF RobotInv
<1>5. CASE UNCHANGED <<class, posted, handed, robot>>
  <2>1. Fed'
    BY <1>5 DEF RobotInv, Fed, After, robot
  <2>2. QED
    BY <1>1, <1>2, <1>5, <2>1 DEF RobotInv
<1>6. CASE Receive \/ ReceiveFails \/ TakeHandler
  BY <1>5, <1>6 DEF Receive, ReceiveFails, TakeHandler
<1>7. CASE Write \/ OnWrite \/ TakeJob \/ Destroy \/ CallbackThreadsExit \/ Join \/ UNCHANGED vars
  BY <1>5, <1>7 DEF Write, OnWrite, TakeJob, Destroy, CallbackThreadsExit, Join, vars, reads
<1>8. QED
  BY <1>3, <1>4, <1>6, <1>7 DEF Next, Io

(* A serial port hands its chunks on in order, and whole unless the peer     *)
(* runs ahead of its callback thread; a udp server hands no datagram on      *)
(* twice nor with the bytes of another (Serial.cpp:80-100, Udp/Server.cpp    *)
(* 68-87).                                                                   *)
THEOREM HandedOnWhole == Spec => []HandedOnAsReceived
<1>1. LineInv => HandedOnAsReceived
  BY DEF LineInv, InLine, UdpChunks, Among, HandedOnAsReceived, ReceiverTypes
<1>2. QED
  BY InitLineInv, LineInvStep, <1>1, PTL DEF Spec

(* Whatever bytes arrive and wherever they are cut into chunks, they leave    *)
(* the assembler as the packets that their headers delimit when the stream is *)
(* read in one piece, each once and in order, and a whole one waits only      *)
(* after a chunk that made two whole (PacketAssembler.cpp:8-36,               *)
(* PacketDecoder.hpp:29-41).                                                  *)
THEOREM PacketsInOrder == Spec => []PacketsComeOutInOrder
<1>1. RobotInv => PacketsComeOutInOrder
  BY DEF RobotInv, Cuts
<1>2. QED
  BY InitLineInv, LineInvStep, InitRobotInv, RobotInvStep, <1>1, PTL DEF Spec
=============================================================================
