--------------------------- MODULE WritersProofs ---------------------------
(***************************************************************************)
(* No connection loses a write, strands one or starts one twice, and each   *)
(* carries out the safety part of FifoWriter, for any number of writes, of  *)
(* parts and of threads.  None of this is inductive by itself:              *)
(*   - the count of EveryWriteIsAccountedFor holds a set (`held`), whose    *)
(*     size is only known because no message is in two places (OnePlace);   *)
(*   - the order on the wire rests on how far the messages that entered the *)
(*     strand have been started, and on where the one stands whose parts    *)
(*     are on their way (Ordered).                                          *)
(***************************************************************************)
EXTENDS Writers, SequenceTheorems, FiniteSetTheorems, TLAPS

WriterTypes ==
  /\ ioQueue \in Seq(Task) /\ strand \in Seq(Task)
  /\ held \subseteq Task /\ IsFiniteSet(held)
  /\ class \in {"tcp", "ssl", "serial", "ws"}
  /\ mWriteQueue \in Seq(Op) /\ socket \in Seq(Op) /\ wire \in Seq(Part)
  /\ mIsSending \in BOOLEAN /\ broken \in BOOLEAN /\ loose \in BOOLEAN
  /\ mWriteBuffer \in Messages \cup {0}
  /\ written \in Nat /\ entered \in Seq(Messages) /\ finished \in Nat /\ failed \in Nat

(* The operations of a sequence of handlers, and the messages of operations. *)
OpsOf(tasks) == [i \in 1..Len(tasks) |-> tasks[i].op]
MsgsOf(ops) == {ops[i].msg : i \in 1..Len(ops)}
Distinct(ops) == \A i, j \in 1..Len(ops) : ops[i].msg = ops[j].msg => i = j
HeldMsgs(h) == {t.op.msg : t \in h}

(* No message is in two places, and only those that were written are.        *)
OnePlace(io_, h, s, q, k, w) ==
  LET A == MsgsOf(OpsOf(io_))
      B == HeldMsgs(h)
      C == MsgsOf(OpsOf(s))
      D == MsgsOf(q)
      E == MsgsOf(k)
  IN /\ Distinct(OpsOf(io_)) /\ Distinct(OpsOf(s)) /\ Distinct(q) /\ Distinct(k)
     /\ \A x, y \in h : x.op.msg = y.op.msg => x = y
     /\ A \cap B = {} /\ A \cap C = {} /\ A \cap D = {} /\ A \cap E = {}
     /\ B \cap C = {} /\ B \cap D = {} /\ B \cap E = {}
     /\ C \cap D = {} /\ C \cap E = {} /\ D \cap E = {}
     /\ A \cup B \cup C \cup D \cup E \subseteq 1..w

MessageInOnePlace == OnePlace(ioQueue, held, strand, mWriteQueue, socket, written)

(* Where the messages are, counted.                                          *)
Total(io_, h, s, q, k) == Len(io_) + Cardinality(h) + Len(s) + Len(q) + Len(k)

Tasks == Elements(ioQueue) \cup held \cup Elements(strand)

(* A connection that is not a ws session never keeps a message back, and one *)
(* that is does so only behind a transmission.                               *)
Served ==
  /\ class # "ws" => mWriteQueue = <<>> /\ ~mIsSending
  /\ mWriteQueue # <<>> => mIsSending
  /\ mIsSending => socket # <<>> \/ failed > 0 \/ \E task \in Tasks : task.kind # "write"

(* A message enters the strand once, and whole.                              *)
EnteredOnce ==
  /\ \A k, l \in 1..Len(entered) : entered[k] = entered[l] => k = l
  /\ \A k \in 1..Len(entered) : entered[k] <= written
  /\ \A task \in Tasks : task.kind = "write" => task.op = NewOp(task.op.msg)
  /\ \A task \in Elements(ioQueue) \cup held : task.kind = "write" =>
       \A k \in 1..Len(entered) : entered[k] # task.op.msg

(* The messages behind the first b are those of the write handlers in the    *)
(* strand, in the same order.                                                *)
NoneBefore(b) ==
  \A i \in 1..Len(strand) : strand[i].kind = "write" =>
    \E k \in (b + 1)..Len(entered) : strand[i].op.msg = entered[k]
AllBehind(b) ==
  \A k \in (b + 1)..Len(entered) :
    \E i \in 1..Len(strand) : strand[i].kind = "write" /\ strand[i].op.msg = entered[k]
SameOrder ==
  \A i, j \in 1..Len(strand), k, l \in 1..Len(entered) :
    /\ i < j /\ strand[i].kind = "write" /\ strand[j].kind = "write"
    /\ strand[i].op.msg = entered[k] /\ strand[j].op.msg = entered[l]
    => k < l
Coming(b) == b \in 0..Len(entered) /\ NoneBefore(b) /\ AllBehind(b) /\ SameOrder

(* The first n messages were started; the next are queued, and the rest      *)
(* comes through the strand.                                                 *)
Waiting(n) ==
  /\ n \in Nat /\ Coming(n + Len(mWriteQueue))
  /\ \A i \in 1..Len(mWriteQueue) : mWriteQueue[i] = NewOp(entered[n + i])

(* Those that were started are on the wire, but for the ones that wait for   *)
(* the connection and for the rest of the last one.                          *)
Rests == {task \in Tasks : IsRest(task)}
Sending(n) ==
  /\ Len(socket) <= n
  /\ \A i \in 1..Len(socket) : socket[i].msg = entered[n - Len(socket) + i]
  /\ \A i \in 2..Len(socket) : socket[i].next = 1
  /\ socket # <<>> =>
       Rests = {} /\ Len(wire) = (n - Len(socket)) * Parts + socket[1].next - 1
  /\ \A task \in Rests :
       n > 0 /\ task.op.msg = entered[n] /\ Len(wire) = (n - 1) * Parts + task.op.next - 1
  /\ socket = <<>> /\ Rests = {} => Len(wire) = n * Parts

(* What is sent from is still the message.                                   *)
Memory ==
  /\ \A task \in Tasks : task.kind = "resume" => IsRest(task)
  /\ class \in {"tcp", "ws"} =>
       /\ Len(socket) <= 1
       /\ socket # <<>> => mWriteBuffer = socket[1].msg
       /\ \A task \in Rests : task.kind = "resume" /\ mWriteBuffer = task.op.msg
  /\ class = "ssl" =>
       Rests = {} /\ \A i \in 1..Len(socket) : socket[i].own /\ socket[i].next = 1
  /\ class = "serial" => socket = <<>> /\ \A task \in Rests : task.kind = "done"

(* A ws session has one operation in flight.                                 *)
OneInFlight(n) ==
  class = "ws" =>
    /\ ~mIsSending => socket = <<>> /\ \A task \in Tasks : task.kind = "write"
    /\ \A task \in Tasks : task.kind # "write" => n > 0 /\ task.op.msg = entered[n]

InOrder(n) == Waiting(n) /\ Sending(n) /\ OneInFlight(n) /\ Memory

Ordered == ~loose /\ ~broken => \E n \in 0..Len(entered) : InOrder(n)



-----------------------------------------------------------------------------
(* Sequences of operations and of handlers.                                  *)
LEMMA AppendOps ==
  ASSUME NEW s \in Seq(Op), NEW o \in Op
  PROVE  /\ Append(s, o) \in Seq(Op)
         /\ MsgsOf(Append(s, o)) = MsgsOf(s) \cup {o.msg}
         /\ Distinct(s) /\ o.msg \notin MsgsOf(s) => Distinct(Append(s, o))
<1>1. /\ Append(s, o) \in Seq(Op) /\ Len(Append(s, o)) = Len(s) + 1 /\ Len(s) \in Nat
      /\ \A i \in 1..Len(s) : Append(s, o)[i] = s[i]
      /\ Append(s, o)[Len(s) + 1] = o
  BY AppendProperties, LenProperties
<1>2. MsgsOf(Append(s, o)) = MsgsOf(s) \cup {o.msg}
  BY <1>1 DEF MsgsOf
<1>3. Distinct(s) /\ o.msg \notin MsgsOf(s) => Distinct(Append(s, o))
  BY <1>1 DEF MsgsOf, Distinct
<1>4. QED
  BY <1>1, <1>2, <1>3

LEMMA TailOps ==
  ASSUME NEW s \in Seq(Op), s # <<>>
  PROVE  /\ Tail(s) \in Seq(Op) /\ Head(s) \in Op /\ Head(s).msg \in MsgsOf(s)
         /\ Distinct(s) => /\ MsgsOf(Tail(s)) = MsgsOf(s) \ {Head(s).msg}
                           /\ Distinct(Tail(s))
<1>1. /\ Tail(s) \in Seq(Op) /\ Len(Tail(s)) = Len(s) - 1 /\ Len(s) \in Nat \ {0}
      /\ \A i \in 1..Len(Tail(s)) : Tail(s)[i] = s[i + 1]
      /\ Head(s) = s[1] /\ Head(s) \in Op
  BY HeadTailProperties, LenProperties, EmptySeq
<1>2. Head(s).msg \in MsgsOf(s)
  BY <1>1 DEF MsgsOf
<1>3. ASSUME Distinct(s)
      PROVE  MsgsOf(Tail(s)) = MsgsOf(s) \ {Head(s).msg} /\ Distinct(Tail(s))
  <2>1. Distinct(Tail(s))
    BY <1>1, <1>3 DEF Distinct
  <2>2. MsgsOf(Tail(s)) \subseteq MsgsOf(s) \ {Head(s).msg}
    BY <1>1, <1>3 DEF Distinct, MsgsOf
  <2>3. ASSUME NEW i \in 1..Len(s), s[i].msg # Head(s).msg
        PROVE  s[i].msg \in MsgsOf(Tail(s))
    <3>1. i - 1 \in 1..Len(Tail(s)) /\ Tail(s)[i - 1] = s[i]
      BY <1>1, <2>3
    <3>2. QED
      BY <3>1 DEF MsgsOf
  <2>4. QED
    BY <2>1, <2>2, <2>3 DEF MsgsOf
<1>4. QED
  BY <1>1, <1>2, <1>3

LEMMA FrontOps ==
  ASSUME NEW s \in Seq(Op), NEW o \in Op
  PROVE  /\ <<o>> \o s \in Seq(Op) /\ <<o>> \o s # <<>>
         /\ Head(<<o>> \o s) = o /\ Tail(<<o>> \o s) = s /\ Len(<<o>> \o s) = Len(s) + 1
         /\ MsgsOf(<<o>> \o s) = MsgsOf(s) \cup {o.msg}
         /\ Distinct(s) /\ o.msg \notin MsgsOf(s) => Distinct(<<o>> \o s)
<1> DEFINE f == <<o>> \o s
<1>1. /\ f \in Seq(Op) /\ Len(f) = Len(s) + 1 /\ Len(s) \in Nat
      /\ f[1] = o /\ \A i \in 1..Len(s) : f[i + 1] = s[i]
  <2>1. <<o>> \in Seq(Op) /\ Len(<<o>>) = 1 /\ <<o>>[1] = o
    OBVIOUS
  <2>2. /\ f \in Seq(Op) /\ Len(f) = 1 + Len(s)
        /\ \A i \in 1..(1 + Len(s)) : f[i] = IF i <= 1 THEN <<o>>[i] ELSE s[i - 1]
    BY <2>1, ConcatProperties, Z3
  <2>3. QED
    BY <2>1, <2>2, LenProperties
<1> HIDE DEF f
<1>2. f # <<>> /\ Head(f) = o
  BY <1>1
<1>3. Tail(f) = s
  <2>1. /\ Tail(f) \in Seq(Op) /\ Len(Tail(f)) = Len(s)
        /\ \A i \in 1..Len(Tail(f)) : Tail(f)[i] = f[i + 1]
    BY <1>1, <1>2, HeadTailProperties
  <2>2. QED
    BY <1>1, <2>1, SeqEqual
<1>4. MsgsOf(f) = MsgsOf(s) \cup {o.msg}
  <2>1. \A i \in 1..Len(f) : i = 1 \/ \E j \in 1..Len(s) : i = j + 1
    BY <1>1
  <2>2. 1 \in 1..Len(f) /\ \A j \in 1..Len(s) : j + 1 \in 1..Len(f)
    BY <1>1
  <2>3. ASSUME NEW x PROVE x \in MsgsOf(f) <=> x = o.msg \/ x \in MsgsOf(s)
    <3>1. x \in MsgsOf(f) <=> \E i \in 1..Len(f) : x = f[i].msg
      BY DEF MsgsOf
    <3>2. x \in MsgsOf(s) <=> \E j \in 1..Len(s) : x = s[j].msg
      BY DEF MsgsOf
    <3>3. \A j \in 1..Len(s) : f[j + 1].msg = s[j].msg
      BY <1>1, Zenon
    <3>4. ASSUME NEW i \in 1..Len(f), x = f[i].msg
          PROVE  x = o.msg \/ \E j \in 1..Len(s) : x = s[j].msg
      <4>1. CASE i = 1
        BY <1>1, <3>4, <4>1, Zenon
      <4>2. ASSUME NEW j \in 1..Len(s), i = j + 1 PROVE x = s[j].msg
        BY <3>3, <3>4, <4>2, Zenon
      <4>3. QED
        BY <2>1, <4>1, <4>2, Zenon
    <3>5. x = o.msg => \E i \in 1..Len(f) : x = f[i].msg
      BY <1>1, <2>2, Zenon
    <3>6. (\E j \in 1..Len(s) : x = s[j].msg) => \E i \in 1..Len(f) : x = f[i].msg
      BY <2>2, <3>3, Zenon
    <3>7. QED
      BY <3>1, <3>2, <3>4, <3>5, <3>6, Zenon
  <2>4. QED
    BY <2>3
<1>5. ASSUME Distinct(s), o.msg \notin MsgsOf(s) PROVE Distinct(f)
  <2>1. SUFFICES ASSUME NEW i \in 1..Len(f), NEW j \in 1..Len(f), f[i].msg = f[j].msg
                 PROVE  i = j
    BY DEF Distinct
  <2>2. \A n \in 1..Len(f) : n = 1 \/ (n - 1 \in 1..Len(s) /\ f[n] = s[n - 1])
    BY <1>1
  <2>3. \A n \in 1..Len(s) : s[n].msg # o.msg
    BY <1>5 DEF MsgsOf
  <2>4. CASE i = 1 \/ j = 1
    BY <1>1, <2>1, <2>2, <2>3, <2>4
  <2>5. CASE i # 1 /\ j # 1
    <3>1. i - 1 = j - 1
      BY <1>5, <2>1, <2>2, <2>5 DEF Distinct
    <3>2. QED
      BY <1>1, <3>1
  <2>6. QED
    BY <2>4, <2>5
<1>6. QED
  BY <1>1, <1>2, <1>3, <1>4, <1>5 DEF f

LEMMA OpsOfTasks ==
  ASSUME NEW s \in Seq(Task)
  PROVE  /\ OpsOf(s) \in Seq(Op) /\ Len(OpsOf(s)) = Len(s)
         /\ \A t \in Task : OpsOf(Append(s, t)) = Append(OpsOf(s), t.op)
         /\ s # <<>> => /\ OpsOf(s) # <<>> /\ OpsOf(Tail(s)) = Tail(OpsOf(s))
                        /\ Head(OpsOf(s)) = Head(s).op /\ Head(s) \in Task
<1>1. Len(s) \in Nat /\ \A i \in 1..Len(s) : s[i] \in Task /\ s[i].op \in Op
  <2>1. Len(s) \in Nat /\ \A i \in 1..Len(s) : s[i] \in Task
    BY LenProperties, ElementOfSeq
  <2>2. \A t \in Task : t.op \in Op
    BY DEF Task
  <2>3. QED
    BY <2>1, <2>2
<1>2. OpsOf(s) \in Seq(Op) /\ Len(OpsOf(s)) = Len(s)
  BY <1>1 DEF OpsOf
<1>3. ASSUME NEW t \in Task
      PROVE  OpsOf(Append(s, t)) = Append(OpsOf(s), t.op)
  <2>1. /\ Append(s, t) \in Seq(Task) /\ Len(Append(s, t)) = Len(s) + 1
        /\ \A i \in 1..Len(s) : Append(s, t)[i] = s[i]
        /\ Append(s, t)[Len(s) + 1] = t
    BY AppendProperties
  <2>2. t.op \in Op
    BY DEF Task
  <2>3. \A i \in 1..(Len(s) + 1) : Append(s, t)[i].op \in Op
    BY <1>1, <2>1, <2>2
  <2>4. OpsOf(Append(s, t)) \in Seq(Op) /\ Len(OpsOf(Append(s, t))) = Len(s) + 1
    BY <1>1, <2>1, <2>3 DEF OpsOf
  <2>5. /\ Append(OpsOf(s), t.op) \in Seq(Op) /\ Len(Append(OpsOf(s), t.op)) = Len(s) + 1
        /\ \A i \in 1..Len(s) : Append(OpsOf(s), t.op)[i] = OpsOf(s)[i]
        /\ Append(OpsOf(s), t.op)[Len(s) + 1] = t.op
    BY <1>2, <2>2, AppendProperties
  <2>6. \A i \in 1..(Len(s) + 1) : OpsOf(Append(s, t))[i] = Append(OpsOf(s), t.op)[i]
    BY <1>1, <2>1, <2>5 DEF OpsOf
  <2>7. QED
    BY <2>4, <2>5, <2>6, SeqEqual
<1>4. ASSUME s # <<>>
      PROVE  /\ OpsOf(s) # <<>> /\ OpsOf(Tail(s)) = Tail(OpsOf(s))
             /\ Head(OpsOf(s)) = Head(s).op /\ Head(s) \in Task
  <2>1. /\ Tail(s) \in Seq(Task) /\ Len(Tail(s)) = Len(s) - 1 /\ Len(s) > 0
        /\ \A i \in 1..Len(Tail(s)) : Tail(s)[i] = s[i + 1]
        /\ Head(s) = s[1]
    BY <1>1, <1>4, HeadTailProperties
  <2>2. OpsOf(s) # <<>> /\ Head(OpsOf(s)) = Head(s).op /\ Head(s) \in Task
    BY <1>1, <1>2, <2>1 DEF OpsOf
  <2>3. /\ Tail(OpsOf(s)) \in Seq(Op) /\ Len(Tail(OpsOf(s))) = Len(s) - 1
        /\ \A i \in 1..Len(Tail(OpsOf(s))) : Tail(OpsOf(s))[i] = OpsOf(s)[i + 1]
    BY <1>2, <2>2, HeadTailProperties
  <2>4. OpsOf(Tail(s)) \in Seq(Op) /\ Len(OpsOf(Tail(s))) = Len(s) - 1
    BY <1>1, <2>1 DEF OpsOf
  <2>5. \A i \in 1..(Len(s) - 1) : OpsOf(Tail(s))[i] = Tail(OpsOf(s))[i]
    BY <1>1, <2>1, <2>3 DEF OpsOf
  <2>6. QED
    BY <2>2, <2>3, <2>4, <2>5, SeqEqual
<1>5. QED
  BY <1>2, <1>3, <1>4

-----------------------------------------------------------------------------
(* A message is taken from where it is, and put where another may be.        *)
Absent(m, io_, h, s, q, k, w) ==
  /\ m \in 1..w /\ m \notin MsgsOf(OpsOf(io_)) /\ m \notin HeldMsgs(h)
  /\ m \notin MsgsOf(OpsOf(s)) /\ m \notin MsgsOf(q) /\ m \notin MsgsOf(k)

LEMMA TakeFromIo ==
  ASSUME NEW io_ \in Seq(Task), NEW h \in SUBSET Task, NEW s \in Seq(Task), NEW q \in Seq(Op),
         NEW k \in Seq(Op), NEW w \in Nat, OnePlace(io_, h, s, q, k, w), io_ # <<>>
  PROVE  OnePlace(Tail(io_), h, s, q, k, w) /\ Absent(Head(io_).op.msg, Tail(io_), h, s, q, k, w)
<1>1. /\ OpsOf(io_) \in Seq(Op) /\ OpsOf(io_) # <<>> /\ Head(OpsOf(io_)) = Head(io_).op
      /\ OpsOf(Tail(io_)) = Tail(OpsOf(io_))
  BY OpsOfTasks
<1>2. /\ MsgsOf(OpsOf(Tail(io_))) = MsgsOf(OpsOf(io_)) \ {Head(io_).op.msg}
      /\ Distinct(OpsOf(Tail(io_))) /\ Head(io_).op.msg \in MsgsOf(OpsOf(io_))
  BY <1>1, TailOps DEF OnePlace
<1>3. QED
  BY <1>2 DEF OnePlace, Absent

LEMMA TakeFromStrand ==
  ASSUME NEW io_ \in Seq(Task), NEW h \in SUBSET Task, NEW s \in Seq(Task), NEW q \in Seq(Op),
         NEW k \in Seq(Op), NEW w \in Nat, OnePlace(io_, h, s, q, k, w), s # <<>>
  PROVE  OnePlace(io_, h, Tail(s), q, k, w) /\ Absent(Head(s).op.msg, io_, h, Tail(s), q, k, w)
<1>1. /\ OpsOf(s) \in Seq(Op) /\ OpsOf(s) # <<>> /\ Head(OpsOf(s)) = Head(s).op
      /\ OpsOf(Tail(s)) = Tail(OpsOf(s))
  BY OpsOfTasks
<1>2. /\ MsgsOf(OpsOf(Tail(s))) = MsgsOf(OpsOf(s)) \ {Head(s).op.msg}
      /\ Distinct(OpsOf(Tail(s))) /\ Head(s).op.msg \in MsgsOf(OpsOf(s))
  BY <1>1, TailOps DEF OnePlace
<1>3. QED
  BY <1>2 DEF OnePlace, Absent

LEMMA TakeFromQueue ==
  ASSUME NEW io_ \in Seq(Task), NEW h \in SUBSET Task, NEW s \in Seq(Task), NEW q \in Seq(Op),
         NEW k \in Seq(Op), NEW w \in Nat, OnePlace(io_, h, s, q, k, w), q # <<>>
  PROVE  OnePlace(io_, h, s, Tail(q), k, w) /\ Absent(Head(q).msg, io_, h, s, Tail(q), k, w)
<1>1. /\ MsgsOf(Tail(q)) = MsgsOf(q) \ {Head(q).msg}
      /\ Distinct(Tail(q)) /\ Head(q).msg \in MsgsOf(q)
  BY TailOps DEF OnePlace
<1>2. QED
  BY <1>1 DEF OnePlace, Absent

LEMMA TakeFromSocket ==
  ASSUME NEW io_ \in Seq(Task), NEW h \in SUBSET Task, NEW s \in Seq(Task), NEW q \in Seq(Op),
         NEW k \in Seq(Op), NEW w \in Nat, OnePlace(io_, h, s, q, k, w), k # <<>>
  PROVE  OnePlace(io_, h, s, q, Tail(k), w) /\ Absent(Head(k).msg, io_, h, s, q, Tail(k), w)
<1>1. /\ MsgsOf(Tail(k)) = MsgsOf(k) \ {Head(k).msg}
      /\ Distinct(Tail(k)) /\ Head(k).msg \in MsgsOf(k)
  BY TailOps DEF OnePlace
<1>2. QED
  BY <1>1 DEF OnePlace, Absent

LEMMA TakeFromHeld ==
  ASSUME NEW io_ \in Seq(Task), NEW h \in SUBSET Task, NEW s \in Seq(Task), NEW q \in Seq(Op),
         NEW k \in Seq(Op), NEW w \in Nat, OnePlace(io_, h, s, q, k, w), NEW t \in h
  PROVE  OnePlace(io_, h \ {t}, s, q, k, w) /\ Absent(t.op.msg, io_, h \ {t}, s, q, k, w)
<1>1. HeldMsgs(h \ {t}) = HeldMsgs(h) \ {t.op.msg} /\ t.op.msg \in HeldMsgs(h)
  BY DEF OnePlace, HeldMsgs
<1>2. QED
  BY <1>1 DEF OnePlace, Absent

LEMMA PutInIo ==
  ASSUME NEW io_ \in Seq(Task), NEW h \in SUBSET Task, NEW s \in Seq(Task), NEW q \in Seq(Op),
         NEW k \in Seq(Op), NEW w \in Nat, OnePlace(io_, h, s, q, k, w),
         NEW t \in Task, Absent(t.op.msg, io_, h, s, q, k, w)
  PROVE  OnePlace(Append(io_, t), h, s, q, k, w)
<1>1. /\ OpsOf(io_) \in Seq(Op) /\ OpsOf(Append(io_, t)) = Append(OpsOf(io_), t.op) /\ t.op \in Op
  BY OpsOfTasks DEF Task
<1>2. /\ MsgsOf(OpsOf(Append(io_, t))) = MsgsOf(OpsOf(io_)) \cup {t.op.msg}
      /\ Distinct(OpsOf(Append(io_, t)))
  BY <1>1, AppendOps DEF OnePlace, Absent
<1>3. QED
  BY <1>2 DEF OnePlace, Absent

LEMMA PutInStrand ==
  ASSUME NEW io_ \in Seq(Task), NEW h \in SUBSET Task, NEW s \in Seq(Task), NEW q \in Seq(Op),
         NEW k \in Seq(Op), NEW w \in Nat, OnePlace(io_, h, s, q, k, w),
         NEW t \in Task, Absent(t.op.msg, io_, h, s, q, k, w)
  PROVE  OnePlace(io_, h, Append(s, t), q, k, w)
<1>1. /\ OpsOf(s) \in Seq(Op) /\ OpsOf(Append(s, t)) = Append(OpsOf(s), t.op) /\ t.op \in Op
  BY OpsOfTasks DEF Task
<1>2. /\ MsgsOf(OpsOf(Append(s, t))) = MsgsOf(OpsOf(s)) \cup {t.op.msg}
      /\ Distinct(OpsOf(Append(s, t)))
  BY <1>1, AppendOps DEF OnePlace, Absent
<1>3. QED
  BY <1>2 DEF OnePlace, Absent

LEMMA PutInHeld ==
  ASSUME NEW io_ \in Seq(Task), NEW h \in SUBSET Task, NEW s \in Seq(Task), NEW q \in Seq(Op),
         NEW k \in Seq(Op), NEW w \in Nat, OnePlace(io_, h, s, q, k, w),
         NEW t \in Task, Absent(t.op.msg, io_, h, s, q, k, w)
  PROVE  OnePlace(io_, h \cup {t}, s, q, k, w) /\ t \notin h
<1>1. HeldMsgs(h \cup {t}) = HeldMsgs(h) \cup {t.op.msg}
  BY DEF HeldMsgs
<1>2. \A u \in h : u.op.msg # t.op.msg
  BY DEF HeldMsgs, Absent
<1>3. \A x, y \in h \cup {t} : x.op.msg = y.op.msg => x = y
  BY <1>2 DEF OnePlace
<1>4. t \notin h
  BY <1>2
<1>5. /\ MsgsOf(OpsOf(io_)) \cap HeldMsgs(h) = {} /\ HeldMsgs(h) \cap MsgsOf(OpsOf(s)) = {}
      /\ HeldMsgs(h) \cap MsgsOf(q) = {} /\ HeldMsgs(h) \cap MsgsOf(k) = {}
  BY DEF OnePlace
<1>6. /\ t.op.msg \notin MsgsOf(OpsOf(io_)) /\ t.op.msg \notin MsgsOf(OpsOf(s))
      /\ t.op.msg \notin MsgsOf(q) /\ t.op.msg \notin MsgsOf(k) /\ t.op.msg \in 1..w
  BY DEF Absent
<1>7. /\ MsgsOf(OpsOf(io_)) \cap HeldMsgs(h \cup {t}) = {}
      /\ HeldMsgs(h \cup {t}) \cap MsgsOf(OpsOf(s)) = {}
      /\ HeldMsgs(h \cup {t}) \cap MsgsOf(q) = {} /\ HeldMsgs(h \cup {t}) \cap MsgsOf(k) = {}
  BY <1>1, <1>5, <1>6
<1>8. OnePlace(io_, h \cup {t}, s, q, k, w)
  BY <1>1, <1>3, <1>6, <1>7 DEF OnePlace
<1>9. QED
  BY <1>4, <1>8

LEMMA PutInSocket ==
  ASSUME NEW io_ \in Seq(Task), NEW h \in SUBSET Task, NEW s \in Seq(Task), NEW q \in Seq(Op),
         NEW k \in Seq(Op), NEW w \in Nat, OnePlace(io_, h, s, q, k, w),
         NEW o \in Op, Absent(o.msg, io_, h, s, q, k, w)
  PROVE  OnePlace(io_, h, s, q, Append(k, o), w)
<1>1. MsgsOf(Append(k, o)) = MsgsOf(k) \cup {o.msg} /\ Distinct(Append(k, o))
  BY AppendOps DEF OnePlace, Absent
<1>2. QED
  BY <1>1 DEF OnePlace, Absent

LEMMA PutBehindQueue ==
  ASSUME NEW io_ \in Seq(Task), NEW h \in SUBSET Task, NEW s \in Seq(Task), NEW q \in Seq(Op),
         NEW k \in Seq(Op), NEW w \in Nat, OnePlace(io_, h, s, q, k, w),
         NEW o \in Op, Absent(o.msg, io_, h, s, q, k, w)
  PROVE  OnePlace(io_, h, s, Append(q, o), k, w)
<1>1. MsgsOf(Append(q, o)) = MsgsOf(q) \cup {o.msg} /\ Distinct(Append(q, o))
  BY AppendOps DEF OnePlace, Absent
<1>2. QED
  BY <1>1 DEF OnePlace, Absent

LEMMA PutBeforeQueue ==
  ASSUME NEW io_ \in Seq(Task), NEW h \in SUBSET Task, NEW s \in Seq(Task), NEW q \in Seq(Op),
         NEW k \in Seq(Op), NEW w \in Nat, OnePlace(io_, h, s, q, k, w),
         NEW o \in Op, Absent(o.msg, io_, h, s, q, k, w)
  PROVE  OnePlace(io_, h, s, <<o>> \o q, k, w)
<1>1. MsgsOf(<<o>> \o q) = MsgsOf(q) \cup {o.msg} /\ Distinct(<<o>> \o q)
  BY FrontOps DEF OnePlace, Absent
<1>2. QED
  BY <1>1, SMTT(30) DEF OnePlace, Absent

LEMMA OneMore ==
  ASSUME NEW io_ \in Seq(Task), NEW h \in SUBSET Task, NEW s \in Seq(Task), NEW q \in Seq(Op),
         NEW k \in Seq(Op), NEW w \in Nat, OnePlace(io_, h, s, q, k, w)
  PROVE  OnePlace(io_, h, s, q, k, w + 1) /\ Absent(w + 1, io_, h, s, q, k, w + 1)
<1>1. 1..w \subseteq 1..(w + 1) /\ w + 1 \in 1..(w + 1) /\ w + 1 \notin 1..w
  OBVIOUS
<1>2. QED
  BY <1>1 DEF OnePlace, Absent

-----------------------------------------------------------------------------
LEMMA ElementsOfTasks ==
  ASSUME NEW s \in Seq(Task)
  PROVE  /\ Elements(s) \subseteq Task
         /\ \A t \in Task : Elements(Append(s, t)) = Elements(s) \cup {t}
         /\ s # <<>> => /\ Tail(s) \in Seq(Task) /\ Head(s) \in Task
                        /\ Elements(s) = Elements(Tail(s)) \cup {Head(s)}
<1>1. Len(s) \in Nat /\ \A i \in 1..Len(s) : s[i] \in Task
  BY LenProperties, ElementOfSeq
<1>2. Elements(s) \subseteq Task
  BY <1>1 DEF Elements
<1>3. ASSUME NEW t \in Task
      PROVE  Elements(Append(s, t)) = Elements(s) \cup {t}
  BY <1>1, AppendProperties DEF Elements
<1>4. ASSUME s # <<>>
      PROVE  /\ Tail(s) \in Seq(Task) /\ Head(s) \in Task
             /\ Elements(s) = Elements(Tail(s)) \cup {Head(s)}
  <2>1. /\ Tail(s) \in Seq(Task) /\ Len(Tail(s)) = Len(s) - 1 /\ Len(s) > 0
        /\ \A i \in 1..Len(Tail(s)) : Tail(s)[i] = s[i + 1]
        /\ Head(s) = s[1] /\ Head(s) \in Task
    BY <1>1, <1>4, HeadTailProperties
  <2>2. \A i \in 1..Len(s) : i = 1 \/ (i - 1 \in 1..Len(Tail(s)) /\ Tail(s)[i - 1] = s[i])
    BY <1>1, <2>1
  <2>3. Elements(s) \subseteq Elements(Tail(s)) \cup {Head(s)}
    BY <2>1, <2>2 DEF Elements
  <2>4. Elements(Tail(s)) \cup {Head(s)} \subseteq Elements(s)
    BY <1>1, <2>1 DEF Elements
  <2>5. QED
    BY <2>1, <2>3, <2>4
<1>5. QED
  BY <1>2, <1>3, <1>4

(* The parts of an operation that go out together.                           *)
LEMMA SentParts ==
  ASSUME NEW op \in Op, NEW n \in 1..(Parts - op.next + 1), NEW what \in Messages \cup {Garbage}
  PROVE  /\ Sent(op, n, what) \in Seq(Part) /\ Len(Sent(op, n, what)) = n
         /\ [op EXCEPT !.next = @ + n] \in Op
<1>1. Parts \in Nat \ {0}
  BY WritersAssumption
<1>2. op.next \in 1..(Parts + 1) /\ op.msg \in Messages /\ n \in Nat
  BY <1>1 DEF Op
<1>3. \A i \in 1..n : op.next + i - 1 \in 1..Parts
  BY <1>1, <1>2
<1>4. Sent(op, n, what) \in Seq(Part) /\ Len(Sent(op, n, what)) = n
  BY <1>2, <1>3 DEF Sent, Part
<1>5. op.next + n \in 1..(Parts + 1)
  BY <1>1, <1>2
<1>6. [op EXCEPT !.next = @ + n] \in Op
  BY <1>5 DEF Op
<1>7. QED
  BY <1>4, <1>6

LEMMA OwnOp ==
  ASSUME NEW op \in Op
  PROVE  /\ Copied \in BOOLEAN /\ op.msg \in Messages
         /\ \A c \in BOOLEAN : LET waiting == [op EXCEPT !.own = c] IN
              waiting \in Op /\ waiting.msg = op.msg /\ waiting.next = op.next /\ waiting.own = c
BY DEF Copied, Op

LEMMA TaskOfOp ==
  ASSUME NEW op \in Op, NEW kind \in {"write", "resume", "done", "error"}
  PROVE  [kind |-> kind, op |-> op] \in Task
BY DEF Task

(* What AsyncWrite makes of the queue its caller gives it.                   *)
LEMMA AsyncWriteTypes ==
  ASSUME WriterTypes, NEW queue \in Seq(Op), NEW sending \in BOOLEAN, AsyncWrite(queue, sending)
  PROVE  /\ ioQueue' \in Seq(Task) /\ mWriteQueue' \in Seq(Op) /\ socket' \in Seq(Op)
         /\ wire' \in Seq(Part) /\ mIsSending' \in BOOLEAN /\ loose' \in BOOLEAN
         /\ mWriteBuffer' \in Messages \cup {0}
<1> DEFINE op == Head(queue)
<1>1. CASE queue = <<>> \/ sending
  BY <1>1 DEF AsyncWrite, WriterTypes
<1>2. CASE queue # <<>> /\ ~sending
  <2>1. op \in Op /\ op.msg \in Messages /\ Tail(queue) \in Seq(Op)
    BY <1>2, HeadTailProperties, OwnOp
  <2>2. /\ mWriteQueue' \in Seq(Op) /\ mIsSending' \in BOOLEAN
        /\ mWriteBuffer' \in Messages \cup {0} /\ (Wait(op) \/ TakeAtOnce(op))
    BY <1>2, <2>1 DEF AsyncWrite, WriterTypes
  <2>3. CASE Wait(op)
    <3>1. Copied \in BOOLEAN /\ [op EXCEPT !.own = Copied] \in Op
      BY <2>1, OwnOp
    <3>2. socket' \in Seq(Op) /\ ioQueue' \in Seq(Task) /\ wire' \in Seq(Part)
      BY <2>3, <3>1, AppendProperties DEF Wait, WriterTypes
    <3>3. loose' \in BOOLEAN
      BY <2>3, Zenon DEF Wait
    <3>4. QED
      BY <2>2, <3>2, <3>3
  <2>4. CASE TakeAtOnce(op)
    <3>1. PICK n \in 1..(Parts - op.next + 1) :
            /\ wire' = wire \o Sent(op, n, op.msg)
            /\ Post([kind |-> "done", op |-> [op EXCEPT !.next = @ + n]])
      BY <2>4 DEF TakeAtOnce
    <3>2. Sent(op, n, op.msg) \in Seq(Part) /\ [op EXCEPT !.next = @ + n] \in Op
      BY <2>1, SentParts
    <3>3. wire' \in Seq(Part)
      BY <3>1, <3>2, ConcatProperties DEF WriterTypes
    <3>4. ioQueue' \in Seq(Task)
      BY <3>1, <3>2, TaskOfOp, AppendProperties DEF Post, WriterTypes
    <3>5. loose' \in BOOLEAN
      BY <2>4, Zenon DEF TakeAtOnce
    <3>6. socket' \in Seq(Op)
      BY <2>4 DEF TakeAtOnce, WriterTypes
    <3>7. QED
      BY <2>2, <3>3, <3>4, <3>5, <3>6
  <2>5. QED
    BY <2>2, <2>3, <2>4
<1>3. QED
  BY <1>1, <1>2

LEMMA AsyncWritePlaces ==
  ASSUME WriterTypes, NEW queue \in Seq(Op), NEW sending \in BOOLEAN, AsyncWrite(queue, sending),
         NEW s \in Seq(Task), OnePlace(ioQueue, held, s, queue, socket, written)
  PROVE  /\ OnePlace(ioQueue', held, s, mWriteQueue', socket', written)
         /\ Total(ioQueue', held, s, mWriteQueue', socket') = Total(ioQueue, held, s, queue, socket)
<1> DEFINE op == Head(queue)
<1>0. /\ ioQueue \in Seq(Task) /\ held \in SUBSET Task /\ socket \in Seq(Op) /\ written \in Nat
      /\ Len(ioQueue) \in Nat /\ Len(s) \in Nat /\ Len(queue) \in Nat /\ Len(socket) \in Nat
      /\ Cardinality(held) \in Nat
      /\ Len(ioQueue') \in Nat /\ Len(mWriteQueue') \in Nat /\ Len(socket') \in Nat
  BY AsyncWriteTypes, LenProperties, FS_CardinalityType DEF WriterTypes
<1>1. CASE queue = <<>> \/ sending
  BY <1>1 DEF AsyncWrite
<1>2. CASE queue # <<>> /\ ~sending
  <2>1. op \in Op /\ Tail(queue) \in Seq(Op) /\ Len(Tail(queue)) = Len(queue) - 1
    BY <1>2, HeadTailProperties
  <2>2. mWriteQueue' = Tail(queue) /\ (Wait(op) \/ TakeAtOnce(op))
    BY <1>2 DEF AsyncWrite
  <2>3. /\ OnePlace(ioQueue, held, s, Tail(queue), socket, written)
        /\ Absent(op.msg, ioQueue, held, s, Tail(queue), socket, written)
    BY <1>0, <1>2, TakeFromQueue
  <2>4. CASE Wait(op)
    <3> DEFINE waiting == [op EXCEPT !.own = Copied]
    <3>1. waiting \in Op /\ waiting.msg = op.msg
      BY <2>1, OwnOp
    <3>2. socket' = Append(socket, waiting) /\ ioQueue' = ioQueue
      BY <2>4 DEF Wait
    <3> HIDE DEF waiting
    <3>3. OnePlace(ioQueue, held, s, Tail(queue), Append(socket, waiting), written)
      BY <1>0, <2>1, <2>3, <3>1, PutInSocket
    <3>4. Len(socket') = Len(socket) + 1
      BY <1>0, <3>1, <3>2, AppendProperties
    <3>5. OnePlace(ioQueue', held, s, mWriteQueue', socket', written)
      BY <2>2, <3>2, <3>3
    <3>6. Len(ioQueue') = Len(ioQueue) /\ Len(mWriteQueue') = Len(queue) - 1
      BY <2>1, <2>2, <3>2
    <3>7. Total(ioQueue', held, s, mWriteQueue', socket') = Total(ioQueue, held, s, queue, socket)
      BY <1>0, <3>2, <3>4, <3>6, SMTT(30) DEF Total
    <3>8. QED
      BY <3>5, <3>7
  <2>5. CASE TakeAtOnce(op)
    <3>1. PICK n \in 1..(Parts - op.next + 1) :
            Post([kind |-> "done", op |-> [op EXCEPT !.next = @ + n]])
      BY <2>5 DEF TakeAtOnce
    <3> DEFINE rest == [op EXCEPT !.next = @ + n]
               done == [kind |-> "done", op |-> rest]
    <3>2. rest \in Op /\ rest.msg = op.msg
      BY <2>1, SentParts DEF Op
    <3>3. done \in Task /\ done.op.msg = op.msg
      BY <3>2, TaskOfOp
    <3>4. ioQueue' = Append(ioQueue, done) /\ socket' = socket
      BY <2>5, <3>1 DEF TakeAtOnce, Post
    <3> HIDE DEF done
    <3>5. OnePlace(Append(ioQueue, done), held, s, Tail(queue), socket, written)
      BY <1>0, <2>1, <2>3, <3>3, PutInIo
    <3>6. Len(ioQueue') = Len(ioQueue) + 1
      BY <1>0, <3>3, <3>4, AppendProperties
    <3>7. QED
      BY <1>0, <2>1, <2>2, <3>4, <3>5, <3>6 DEF Total
  <2>6. QED
    BY <2>2, <2>4, <2>5
<1>3. QED
  BY <1>1, <1>2

-----------------------------------------------------------------------------
(* The handler that runs is taken from the front of the strand.              *)
LEMMA HeadOfStrand ==
  ASSUME WriterTypes, NEW kind, InStrand(kind)
  PROVE  /\ strand # <<>> /\ Head(strand) \in Task /\ Head(strand).op \in Op
         /\ Head(strand).kind = kind
         /\ strand' = Tail(strand) /\ Tail(strand) \in Seq(Task)
         /\ Len(strand) \in Nat /\ Len(Tail(strand)) \in Nat /\ Len(Tail(strand)) = Len(strand) - 1
<1>1. strand # <<>> /\ Head(strand).kind = kind /\ strand' = Tail(strand)
  BY DEF InStrand
<1>2. /\ Head(strand) \in Task /\ Tail(strand) \in Seq(Task)
      /\ Len(Tail(strand)) = Len(strand) - 1
  BY <1>1, HeadTailProperties DEF WriterTypes
<1>3. \A t \in Task : t.op \in Op
  BY DEF Task
<1>4. QED
  BY <1>1, <1>2, <1>3, LenProperties DEF WriterTypes

LEMMA TypesStep == WriterTypes /\ [Next]_vars => WriterTypes'
<1> SUFFICES ASSUME WriterTypes, [Next]_vars PROVE WriterTypes'
  OBVIOUS
<1> USE DEF WriterTypes
<1>0. MaxWrites \in Nat /\ Parts \in Nat \ {0}
  BY WritersAssumption
<1>1. CASE Write
  <2>1. written + 1 \in Messages /\ NewOp(written + 1) \in Op
    BY <1>0, <1>1 DEF Write, NewOp, Op, Messages
  <2>2. ioQueue' \in Seq(Task)
    BY <1>1, <2>1, TaskOfOp, AppendProperties DEF Write, Post
  <2>3. QED
    BY <1>1, <2>2 DEF Write, state
<1>2. CASE Dispatch
  <2>1. CASE UNCHANGED entered /\ \E n : Take(n)
    <3>1. /\ ioQueue' \in Seq(Task) /\ UNCHANGED strand /\ ioQueue # <<>>
          /\ held' = held \cup {Head(ioQueue)} /\ Head(ioQueue) \in Task
      BY <2>1, HeadTailProperties DEF Take
    <3>2. held' \subseteq Task /\ IsFiniteSet(held')
      BY <3>1, FS_AddElement
    <3>3. QED
      BY <1>2, <2>1, <3>1, <3>2 DEF Dispatch, state
  <2>2. CASE \E task \in held :
               /\ Enter(task)
               /\ entered' = IF task.kind = "write" THEN Append(entered, task.op.msg) ELSE entered
    <3>1. PICK task \in held :
               /\ Enter(task)
               /\ entered' = IF task.kind = "write" THEN Append(entered, task.op.msg) ELSE entered
      BY <2>2
    <3>2. task \in Task /\ task.op.msg \in Messages
      BY DEF Task, Op
    <3>3. strand' \in Seq(Task) /\ held' = held \ {task} /\ UNCHANGED ioQueue
      BY <3>1, <3>2, AppendProperties DEF Enter
    <3>4. held' \subseteq Task /\ IsFiniteSet(held')
      BY <3>3, FS_RemoveElement
    <3>5. entered' \in Seq(Messages)
      BY <3>1, <3>2, AppendProperties
    <3>6. QED
      BY <1>2, <3>3, <3>4, <3>5 DEF Dispatch, state
  <2>3. QED
    BY <1>2, <2>1, <2>2 DEF Dispatch
<1>3. CASE QueueMessage
  <2>1. Head(strand).op \in Op /\ strand' \in Seq(Task)
    BY <1>3, HeadOfStrand DEF QueueMessage
  <2>2. Append(mWriteQueue, Head(strand).op) \in Seq(Op)
    BY <2>1, AppendProperties
  <2>3. QED
    BY <1>3, <2>1, <2>2, AsyncWriteTypes DEF QueueMessage, history
<1>4. CASE OnWritten
  <2>1. strand' \in Seq(Task)
    BY <1>4, HeadOfStrand DEF OnWritten
  <2>2. AsyncWrite(mWriteQueue, FALSE)
    BY <1>4 DEF OnWritten
  <2>3. /\ ioQueue' \in Seq(Task) /\ mWriteQueue' \in Seq(Op) /\ socket' \in Seq(Op)
        /\ wire' \in Seq(Part) /\ mIsSending' \in BOOLEAN /\ loose' \in BOOLEAN
        /\ mWriteBuffer' \in Messages \cup {0}
    BY <2>2, AsyncWriteTypes
  <2>4. QED
    BY <1>4, <2>1, <2>3 DEF OnWritten
<1>5. CASE OnWrittenInPart
  <2>1. Head(strand).op \in Op /\ strand' \in Seq(Task)
    BY <1>5, HeadOfStrand DEF OnWrittenInPart
  <2>2. <<Head(strand).op>> \o mWriteQueue \in Seq(Op)
    BY <2>1, FrontOps
  <2>3. QED
    BY <1>5, <2>1, <2>2, AsyncWriteTypes DEF OnWrittenInPart, history
<1>6. CASE OnError
  <2>1. strand' \in Seq(Task)
    BY <1>6, HeadOfStrand DEF OnError
  <2>2. QED
    BY <1>6, <2>1 DEF OnError, state
<1>7. CASE Resume
  <2>1. Head(strand).op \in Op /\ strand' \in Seq(Task)
    BY <1>7, HeadOfStrand DEF Resume
  <2>2. [Head(strand).op EXCEPT !.own = FALSE] \in Op
    BY <2>1, OwnOp
  <2>3. socket' \in Seq(Op)
    BY <1>7, <2>2, AppendProperties DEF Resume
  <2>4. QED
    BY <1>7, <2>1, <2>3 DEF Resume, history
<1>8. CASE Transmit
  <2> DEFINE op == Head(socket)
  <2>1. op \in Op /\ op.msg \in Messages /\ socket' \in Seq(Op)
    BY <1>8, HeadTailProperties, OwnOp DEF Transmit
  <2>2. PICK n \in 1..(Parts - op.next + 1), what \in Contents(op) :
          /\ wire' = wire \o Sent(op, n, what)
          /\ Post([kind |-> IF op.next + n <= Parts /\ class # "serial" THEN "resume" ELSE "done",
                   op |-> [op EXCEPT !.next = @ + n]])
          /\ loose' = (loose \/ (class = "ssl" /\ op.next + n <= Parts))
    BY <1>8 DEF Transmit
  <2>3. what \in Messages \cup {Garbage}
    BY <2>1 DEF Contents
  <2>4. Sent(op, n, what) \in Seq(Part) /\ [op EXCEPT !.next = @ + n] \in Op
    BY <2>1, <2>3, SentParts
  <2>5. wire' \in Seq(Part)
    BY <2>2, <2>4, ConcatProperties
  <2>6. ioQueue' \in Seq(Task)
    BY <2>2, <2>4, TaskOfOp, AppendProperties DEF Post
  <2>7. loose' \in BOOLEAN
    BY <2>2, Zenon
  <2>8. QED
    BY <1>8, <2>1, <2>5, <2>6, <2>7 DEF Transmit, history
<1>9. CASE Fail
  BY <1>9 DEF Fail, io, state, history
<1>10. CASE Abort
  <2>1. Head(socket) \in Op /\ socket' \in Seq(Op)
    BY <1>10, HeadTailProperties DEF Abort
  <2>2. ioQueue' \in Seq(Task)
    BY <1>10, <2>1, TaskOfOp, AppendProperties DEF Abort, Post
  <2>3. QED
    BY <1>10, <2>1, <2>2 DEF Abort, history
<1>11. CASE UNCHANGED vars
  BY <1>11 DEF vars, io, state, history
<1>12. QED
  BY <1>1, <1>2, <1>3, <1>4, <1>5, <1>6, <1>7, <1>8, <1>9, <1>10, <1>11 DEF Next, Handler, Network

-----------------------------------------------------------------------------
(* Every message written is finished, reported or in one place.              *)
Accounted == written = finished + failed + Total(ioQueue, held, strand, mWriteQueue, socket)

LEMMA LengthsAreNat ==
  ASSUME WriterTypes
  PROVE  /\ Len(ioQueue) \in Nat /\ Len(strand) \in Nat /\ Len(mWriteQueue) \in Nat
         /\ Len(socket) \in Nat /\ Cardinality(held) \in Nat /\ held \in SUBSET Task
         /\ IsFiniteSet(held) /\ ioQueue \in Seq(Task) /\ strand \in Seq(Task)
         /\ mWriteQueue \in Seq(Op) /\ socket \in Seq(Op) /\ wire \in Seq(Part)
         /\ entered \in Seq(Messages) /\ mIsSending \in BOOLEAN
         /\ written \in Nat /\ finished \in Nat /\ failed \in Nat
BY LenProperties, FS_CardinalityType DEF WriterTypes

LEMMA TotalMoves ==
  ASSUME NEW io_, NEW h, NEW s, NEW q, NEW k, Len(io_) \in Nat, Cardinality(h) \in Nat,
         Len(s) \in Nat, Len(q) \in Nat, Len(k) \in Nat
  PROVE  /\ Total(io_, h, s, q, k) \in Nat
         /\ \A t : Len(t) = Len(s) - 1 => Total(io_, h, t, q, k) = Total(io_, h, s, q, k) - 1
         /\ \A t : Len(t) = Len(s) + 1 => Total(io_, h, t, q, k) = Total(io_, h, s, q, k) + 1
         /\ \A t : Len(t) = Len(q) + 1 => Total(io_, h, s, t, k) = Total(io_, h, s, q, k) + 1
         /\ \A t : Len(t) = Len(k) + 1 => Total(io_, h, s, q, t) = Total(io_, h, s, q, k) + 1
         /\ \A g : Cardinality(g) = Cardinality(h) - 1 =>
              Total(io_, g, s, q, k) = Total(io_, h, s, q, k) - 1
<1>1. Total(io_, h, s, q, k) \in Nat
  BY DEF Total
<1>2. \A t : Len(t) = Len(s) - 1 => Total(io_, h, t, q, k) = Total(io_, h, s, q, k) - 1
  BY DEF Total
<1>3. \A t : Len(t) = Len(s) + 1 => Total(io_, h, t, q, k) = Total(io_, h, s, q, k) + 1
  BY DEF Total
<1>4. \A t : Len(t) = Len(q) + 1 => Total(io_, h, s, t, k) = Total(io_, h, s, q, k) + 1
  BY DEF Total
<1>5. ASSUME NEW t, Len(t) = Len(k) + 1
      PROVE  Total(io_, h, s, q, t) = Total(io_, h, s, q, k) + 1
  <2>1. Len(io_) + Cardinality(h) + Len(s) + Len(q) \in Nat
    OBVIOUS
  <2>2. QED
    BY <1>5, <2>1 DEF Total
<1>6. \A g : Cardinality(g) = Cardinality(h) - 1 =>
        Total(io_, g, s, q, k) = Total(io_, h, s, q, k) - 1
  BY DEF Total
<1>7. QED
  BY <1>1, <1>2, <1>3, <1>4, <1>5, <1>6

LEMMA PlacesStep ==
  ASSUME WriterTypes, MessageInOnePlace, Accounted, [Next]_vars
  PROVE  MessageInOnePlace' /\ Accounted'
<1> USE DEF MessageInOnePlace, Accounted
<1>0. /\ Len(ioQueue) \in Nat /\ Len(strand) \in Nat /\ Len(mWriteQueue) \in Nat
      /\ Len(socket) \in Nat /\ Cardinality(held) \in Nat /\ held \in SUBSET Task
      /\ IsFiniteSet(held) /\ ioQueue \in Seq(Task) /\ strand \in Seq(Task)
      /\ mWriteQueue \in Seq(Op) /\ socket \in Seq(Op)
      /\ written \in Nat /\ finished \in Nat /\ failed \in Nat
  BY LengthsAreNat
<1>00. /\ Len(ioQueue') \in Nat /\ Len(strand') \in Nat /\ Len(mWriteQueue') \in Nat
       /\ Len(socket') \in Nat /\ Cardinality(held') \in Nat
  <2>1. WriterTypes'
    BY TypesStep
  <2>2. QED
    BY <2>1, LenProperties, FS_CardinalityType DEF WriterTypes
<1>01. /\ Len(ioQueue) \in Nat /\ Len(strand) \in Nat /\ Len(mWriteQueue) \in Nat
       /\ Len(socket) \in Nat /\ Cardinality(held) \in Nat
       /\ written \in Nat /\ finished \in Nat /\ failed \in Nat
  BY <1>0
<1>1. CASE Write
  <2> DEFINE t == [kind |-> "write", op |-> NewOp(written + 1)]
  <2>1. NewOp(written + 1) \in Op /\ t.op.msg = written + 1
    BY <1>0, <1>1, WritersAssumption DEF Write, NewOp, Op, Messages
  <2>2. t \in Task
    BY <2>1, TaskOfOp
  <2>3. /\ ioQueue' = Append(ioQueue, t) /\ written' = written + 1
        /\ UNCHANGED <<held, strand, mWriteQueue, socket, finished, failed>>
    BY <1>1 DEF Write, Post, state
  <2> HIDE DEF t
  <2>4. OnePlace(Append(ioQueue, t), held, strand, mWriteQueue, socket, written + 1)
    BY <1>0, <2>1, <2>2, OneMore, PutInIo
  <2>5. Len(ioQueue') = Len(ioQueue) + 1
    BY <1>0, <2>2, <2>3, AppendProperties
  <2>6. QED
    BY <1>0, <1>00, <2>3, <2>4, <2>5, SMTT(30) DEF Total
<1>2. CASE Dispatch
  <2>0. UNCHANGED <<mWriteQueue, socket, written, finished, failed>>
    BY <1>2 DEF Dispatch, state
  <2>1. CASE \E n : Take(n)
    <3> DEFINE t == Head(ioQueue)
    <3>1. /\ ioQueue # <<>> /\ ioQueue' = Tail(ioQueue) /\ UNCHANGED strand
          /\ held' = held \cup {t} /\ t \in Task /\ Tail(ioQueue) \in Seq(Task)
          /\ Len(ioQueue') = Len(ioQueue) - 1
      BY <1>0, <2>1, HeadTailProperties DEF Take
    <3>2. /\ OnePlace(Tail(ioQueue), held, strand, mWriteQueue, socket, written)
          /\ Absent(t.op.msg, Tail(ioQueue), held, strand, mWriteQueue, socket, written)
      BY <1>0, <3>1, TakeFromIo
    <3> HIDE DEF t
    <3>3. /\ OnePlace(Tail(ioQueue), held \cup {t}, strand, mWriteQueue, socket, written)
          /\ t \notin held
      BY <1>0, <3>1, <3>2, PutInHeld
    <3>4. Cardinality(held') = Cardinality(held) + 1
      BY <1>0, <3>1, <3>3, FS_AddElement
    <3>5. MessageInOnePlace'
      BY <2>0, <3>1, <3>3
    <3>6. Accounted'
      BY <1>0, <1>00, <2>0, <3>1, <3>4 DEF Total
    <3>7. QED
      BY <3>5, <3>6
  <2>2. CASE \E task \in held : Enter(task)
    <3>1. PICK t \in held : Enter(t)
      BY <2>2
    <3>2. /\ strand' = Append(strand, t) /\ held' = held \ {t} /\ UNCHANGED ioQueue
          /\ t \in Task /\ Len(strand') = Len(strand) + 1
      BY <1>0, <3>1, AppendProperties DEF Enter
    <3>3. OnePlace(ioQueue, held \ {t}, Append(strand, t), mWriteQueue, socket, written)
      BY <1>0, <3>2, TakeFromHeld, PutInStrand
    <3>4. Cardinality(held') = Cardinality(held) - 1
      BY <1>0, <3>2, FS_RemoveElement
    <3>5. MessageInOnePlace'
      BY <2>0, <3>2, <3>3
    <3>6. Accounted'
      <4>1. Total(ioQueue, held', strand, mWriteQueue, socket)
              = Total(ioQueue, held, strand, mWriteQueue, socket) - 1
        BY <1>0, <3>4, TotalMoves
      <4>2. Total(ioQueue, held', strand', mWriteQueue, socket)
              = Total(ioQueue, held', strand, mWriteQueue, socket) + 1
        <5>1. Cardinality(held') \in Nat /\ Len(strand') = Len(strand) + 1
          BY <1>00, <3>2
        <5>2. QED
          BY <1>01, <5>1, TotalMoves
      <4>3. Total(ioQueue, held, strand, mWriteQueue, socket) \in Nat
        BY <1>0, TotalMoves
      <4>4. Total(ioQueue, held', strand', mWriteQueue, socket)
              = Total(ioQueue, held, strand, mWriteQueue, socket)
        BY <4>1, <4>2, <4>3
      <4>5. ioQueue' = ioQueue /\ mWriteQueue' = mWriteQueue /\ socket' = socket
        BY <2>0, <3>2
      <4>6. Total(ioQueue', held', strand', mWriteQueue', socket')
              = Total(ioQueue, held, strand, mWriteQueue, socket)
        BY <4>4, <4>5
      <4>7. QED
        BY <2>0, <4>6
    <3>7. QED
      BY <3>5, <3>6
  <2>3. QED
    BY <1>2, <2>1, <2>2 DEF Dispatch
<1>3. ASSUME NEW kind, InStrand(kind)
      PROVE  /\ OnePlace(ioQueue, held, strand', mWriteQueue, socket, written)
             /\ Absent(Head(strand).op.msg, ioQueue, held, strand', mWriteQueue, socket, written)
             /\ strand' \in Seq(Task) /\ Head(strand).op \in Op /\ Len(strand') = Len(strand) - 1
  BY <1>0, <1>3, HeadOfStrand, TakeFromStrand
<1>4. CASE QueueMessage
  <2> DEFINE queue == Append(mWriteQueue, Head(strand).op)
  <2>1. InStrand("write") /\ AsyncWrite(queue, mIsSending)
        /\ UNCHANGED <<held, written, finished, failed>>
    BY <1>4 DEF QueueMessage, history
  <2>2. /\ queue \in Seq(Op) /\ Len(queue) = Len(mWriteQueue) + 1
        /\ OnePlace(ioQueue, held, strand', queue, socket, written)
    BY <1>0, <1>3, <2>1, AppendProperties, PutBehindQueue, SMTT(30)
  <2> HIDE DEF queue
  <2>3. /\ OnePlace(ioQueue', held, strand', mWriteQueue', socket', written)
        /\ Total(ioQueue', held, strand', mWriteQueue', socket')
             = Total(ioQueue, held, strand', queue, socket)
    BY <1>3, <2>1, <2>2, AsyncWritePlaces DEF WriterTypes
  <2>4. Len(strand') = Len(strand) - 1
    BY <1>3, <2>1
  <2>5. Total(ioQueue, held, strand', queue, socket)
          = Total(ioQueue, held, strand, mWriteQueue, socket)
    <3>1. Len(queue) = Len(mWriteQueue) + 1 /\ Len(queue) \in Nat
      BY <2>2, LenProperties
    <3>2. Total(ioQueue, held, strand, queue, socket)
            = Total(ioQueue, held, strand, mWriteQueue, socket) + 1
      BY <1>0, <3>1, TotalMoves
    <3>3. Total(ioQueue, held, strand', queue, socket)
            = Total(ioQueue, held, strand, queue, socket) - 1
      BY <1>0, <2>4, <3>1, TotalMoves
    <3>4. QED
      BY <1>0, <3>2, <3>3, TotalMoves
  <2>6. QED
    BY <2>1, <2>3, <2>5
<1>5. CASE OnWritten
  <2>1. InStrand("done") /\ AsyncWrite(mWriteQueue, FALSE) /\ finished' = finished + 1
        /\ UNCHANGED <<held, written, failed>>
    BY <1>5 DEF OnWritten
  <2>2. /\ OnePlace(ioQueue', held, strand', mWriteQueue', socket', written)
        /\ Total(ioQueue', held, strand', mWriteQueue', socket')
             = Total(ioQueue, held, strand', mWriteQueue, socket)
    BY <1>0, <1>3, <2>1, AsyncWritePlaces
  <2>3. Len(strand') = Len(strand) - 1
    BY <1>3, <2>1
  <2>4. Total(ioQueue, held, strand', mWriteQueue, socket)
          = Total(ioQueue, held, strand, mWriteQueue, socket) - 1
    BY <1>0, <1>00, <2>3, SMTT(30) DEF Total
  <2>5. Total(ioQueue, held, strand, mWriteQueue, socket) \in Nat
    BY <1>0 DEF Total
  <2>6. QED
    BY <1>0, <2>1, <2>2, <2>4, <2>5
<1>6. CASE OnWrittenInPart
  <2> DEFINE queue == <<Head(strand).op>> \o mWriteQueue
  <2>1. InStrand("done") /\ AsyncWrite(queue, FALSE)
        /\ UNCHANGED <<held, written, finished, failed>>
    BY <1>6 DEF OnWrittenInPart, history
  <2>2. /\ queue \in Seq(Op) /\ Len(queue) = Len(mWriteQueue) + 1
        /\ OnePlace(ioQueue, held, strand', queue, socket, written)
    BY <1>0, <1>3, <2>1, FrontOps, PutBeforeQueue
  <2> HIDE DEF queue
  <2>3. /\ OnePlace(ioQueue', held, strand', mWriteQueue', socket', written)
        /\ Total(ioQueue', held, strand', mWriteQueue', socket')
             = Total(ioQueue, held, strand', queue, socket)
    BY <1>3, <2>1, <2>2, AsyncWritePlaces
  <2>4. Len(strand') = Len(strand) - 1
    BY <1>3, <2>1
  <2>5. Total(ioQueue, held, strand', queue, socket)
          = Total(ioQueue, held, strand, mWriteQueue, socket)
    <3>1. Len(queue) = Len(mWriteQueue) + 1 /\ Len(queue) \in Nat
      BY <2>2, LenProperties
    <3>2. Total(ioQueue, held, strand, queue, socket)
            = Total(ioQueue, held, strand, mWriteQueue, socket) + 1
      BY <1>0, <3>1, TotalMoves
    <3>3. Total(ioQueue, held, strand', queue, socket)
            = Total(ioQueue, held, strand, queue, socket) - 1
      BY <1>0, <2>4, <3>1, TotalMoves
    <3>4. QED
      BY <1>0, <3>2, <3>3, TotalMoves
  <2>6. QED
    BY <2>1, <2>3, <2>5
<1>7. CASE OnError
  <2>1. /\ InStrand("error") /\ failed' = failed + 1
        /\ UNCHANGED <<ioQueue, held, mWriteQueue, socket, written, finished>>
    BY <1>7 DEF OnError, state
  <2>2. OnePlace(ioQueue', held', strand', mWriteQueue', socket', written')
    BY <1>3, <2>1
  <2>3. Len(strand') = Len(strand) - 1
    BY <1>3, <2>1
  <2>4. Accounted'
    <3>1. /\ Total(ioQueue, held, strand, mWriteQueue, socket) \in Nat
          /\ Total(ioQueue, held, strand', mWriteQueue, socket)
               = Total(ioQueue, held, strand, mWriteQueue, socket) - 1
      BY <1>0, <2>3, TotalMoves
    <3>2. QED
      BY <1>0, <2>1, <3>1
  <2>5. QED
    BY <2>2, <2>4
<1>8. CASE Resume
  <2> DEFINE op == [Head(strand).op EXCEPT !.own = FALSE]
  <2>1. /\ InStrand("resume") /\ socket' = Append(socket, op)
        /\ UNCHANGED <<ioQueue, held, mWriteQueue, written, finished, failed>>
    BY <1>8 DEF Resume, history
  <2>2. op \in Op /\ op.msg = Head(strand).op.msg
    BY <1>3, <2>1, OwnOp
  <2> HIDE DEF op
  <2>3. /\ OnePlace(ioQueue, held, strand', mWriteQueue, Append(socket, op), written)
        /\ Len(socket') = Len(socket) + 1
    BY <1>0, <1>3, <2>1, <2>2, PutInSocket, AppendProperties
  <2>4. Len(strand') = Len(strand) - 1
    BY <1>3, <2>1
  <2>5. MessageInOnePlace'
    BY <2>1, <2>3
  <2>6. Accounted'
    <3>1. Total(ioQueue, held, strand', mWriteQueue, socket)
            = Total(ioQueue, held, strand, mWriteQueue, socket) - 1
      BY <1>0, <2>4, TotalMoves
    <3>2. Total(ioQueue, held, strand', mWriteQueue, socket')
            = Total(ioQueue, held, strand', mWriteQueue, socket) + 1
      BY <1>0, <1>00, <2>3, TotalMoves
    <3>3. Total(ioQueue, held, strand, mWriteQueue, socket) \in Nat
      BY <1>0, TotalMoves
    <3>4. Total(ioQueue, held, strand', mWriteQueue, socket')
            = Total(ioQueue, held, strand, mWriteQueue, socket)
      BY <3>1, <3>2, <3>3
    <3>5. QED
      BY <2>1, <3>4
  <2>7. QED
    BY <2>5, <2>6
<1>9. ASSUME NEW t \in Task, socket # <<>>, t.op.msg = Head(socket).msg,
             ioQueue' = Append(ioQueue, t), socket' = Tail(socket),
             UNCHANGED <<held, strand, mWriteQueue, written, finished, failed>>
      PROVE  MessageInOnePlace' /\ Accounted'
  <2>1. Tail(socket) \in Seq(Op) /\ Len(socket') = Len(socket) - 1
    BY <1>0, <1>9, HeadTailProperties
  <2>2. OnePlace(Append(ioQueue, t), held, strand, mWriteQueue, Tail(socket), written)
    BY <1>0, <1>9, <2>1, TakeFromSocket, PutInIo
  <2>3. Len(ioQueue') = Len(ioQueue) + 1
    BY <1>0, <1>9, AppendProperties
  <2>4. QED
    BY <1>0, <1>00, <1>9, <2>1, <2>2, <2>3 DEF Total
<1>10. CASE Transmit
  <2>1. socket # <<>> /\ Head(socket) \in Op
    BY <1>0, <1>10, HeadTailProperties DEF Transmit
  <2>2. PICK n \in 1..(Parts - Head(socket).next + 1), what \in Contents(Head(socket)) :
          Post([kind |-> IF Head(socket).next + n <= Parts /\ class # "serial"
                         THEN "resume" ELSE "done",
                op |-> [Head(socket) EXCEPT !.next = @ + n]])
    BY <1>10 DEF Transmit
  <2> DEFINE op == [Head(socket) EXCEPT !.next = @ + n]
             kind == IF Head(socket).next + n <= Parts /\ class # "serial" THEN "resume" ELSE "done"
             t == [kind |-> kind, op |-> op]
  <2>3. op \in Op /\ op.msg = Head(socket).msg
    BY <2>1, SentParts DEF Op
  <2>4. t \in Task /\ t.op.msg = Head(socket).msg
    BY <2>3, TaskOfOp
  <2>5. ioQueue' = Append(ioQueue, t)
    BY <2>2 DEF Post
  <2> HIDE DEF t
  <2>6. QED
    BY <1>9, <1>10, <2>1, <2>4, <2>5 DEF Transmit, history
<1>11. CASE Abort
  <2>1. socket # <<>> /\ Head(socket) \in Op
    BY <1>0, <1>11, HeadTailProperties DEF Abort
  <2> DEFINE t == [kind |-> "error", op |-> Head(socket)]
  <2>2. t \in Task /\ t.op.msg = Head(socket).msg
    BY <2>1, TaskOfOp
  <2>3. ioQueue' = Append(ioQueue, t)
    BY <1>11 DEF Abort, Post
  <2> HIDE DEF t
  <2>4. QED
    BY <1>9, <1>11, <2>1, <2>2, <2>3 DEF Abort, history
<1>12. CASE Fail \/ UNCHANGED vars
  BY <1>12 DEF Fail, vars, io, state, history
<1>13. QED
  BY <1>1, <1>2, <1>4, <1>5, <1>6, <1>7, <1>8, <1>10, <1>11, <1>12 DEF Next, Handler, Network

-----------------------------------------------------------------------------
(* What Pending counts.                                                      *)
LEMMA PendingAll ==
  ASSUME WriterTypes
  PROVE  Pending({"write", "resume", "done", "error"}, 1..(Parts + 1))
           = Len(ioQueue) + Cardinality(held) + Len(strand)
<1> DEFINE Is(task) == task.kind \in {"write", "resume", "done", "error"}
                       /\ task.op.next \in 1..(Parts + 1)
<1>0. \A t \in Task : Is(t)
  BY DEF Task, Op
<1>1. \A s \in Seq(Task) : Cardinality({i \in 1..Len(s) : Is(s[i])}) = Len(s)
  <2>1. SUFFICES ASSUME NEW s \in Seq(Task)
                 PROVE  Cardinality({i \in 1..Len(s) : Is(s[i])}) = Len(s)
    OBVIOUS
  <2>2. Len(s) \in Nat /\ \A i \in 1..Len(s) : s[i] \in Task
    BY LenProperties, ElementOfSeq
  <2>3. \A i \in 1..Len(s) : Is(s[i])
    BY <1>0, <2>2
  <2> HIDE DEF Is
  <2>4. {i \in 1..Len(s) : Is(s[i])} = 1..Len(s)
    BY <2>3
  <2>5. Cardinality(1..Len(s)) = Len(s)
    <3>1. Cardinality(1..Len(s)) = IF 1 > Len(s) THEN 0 ELSE Len(s) - 1 + 1
      BY <2>2, FS_Interval
    <3>2. QED
      BY <2>2, <3>1
  <2>6. QED
    BY <2>4, <2>5
<1>2. {task \in held : Is(task)} = held
  BY <1>0 DEF WriterTypes
<1>3. ioQueue \in Seq(Task) /\ strand \in Seq(Task)
  BY DEF WriterTypes
<1>4. Pending({"write", "resume", "done", "error"}, 1..(Parts + 1))
        = Cardinality({i \in 1..Len(ioQueue) : Is(ioQueue[i])})
          + Cardinality({task \in held : Is(task)})
          + Cardinality({i \in 1..Len(strand) : Is(strand[i])})
  BY DEF Pending
<1> HIDE DEF Is
<1>5. QED
  BY <1>1, <1>2, <1>3, <1>4

LEMMA PendingSome ==
  ASSUME WriterTypes, NEW task \in Tasks, task.kind # "write"
  PROVE  Pending({"resume", "done", "error"}, 1..(Parts + 1)) > 0
<1> DEFINE Is(t) == t.kind \in {"resume", "done", "error"} /\ t.op.next \in 1..(Parts + 1)
           Io == {i \in 1..Len(ioQueue) : Is(ioQueue[i])}
           Held == {t \in held : Is(t)}
           Strand == {i \in 1..Len(strand) : Is(strand[i])}
<1>1. Len(ioQueue) \in Nat /\ Len(strand) \in Nat
  BY LengthsAreNat
<1>2. task \in Task
  <2>1. ioQueue \in Seq(Task) /\ strand \in Seq(Task) /\ held \subseteq Task
    BY DEF WriterTypes
  <2>2. \A s \in Seq(Task) : Elements(s) \subseteq Task
    BY ElementsOfTasks
  <2>3. QED
    BY <2>1, <2>2 DEF Tasks
<1>3. Is(task)
  BY <1>2 DEF Task, Op
<1>4. IsFiniteSet(Io) /\ IsFiniteSet(Held) /\ IsFiniteSet(Strand)
  <2>1. /\ Io \in SUBSET (1..Len(ioQueue)) /\ Strand \in SUBSET (1..Len(strand))
        /\ Held \in SUBSET held
    OBVIOUS
  <2> HIDE DEF Io, Held, Strand
  <2>2. IsFiniteSet(1..Len(ioQueue)) /\ IsFiniteSet(1..Len(strand)) /\ IsFiniteSet(held)
    BY <1>1, FS_Interval DEF WriterTypes
  <2>3. QED
    BY <2>1, <2>2, FS_Subset
<1>5. Io # {} \/ Held # {} \/ Strand # {}
  BY <1>3 DEF Tasks, Elements
<1>6. Pending({"resume", "done", "error"}, 1..(Parts + 1))
        = Cardinality(Io) + Cardinality(Held) + Cardinality(Strand)
  BY DEF Pending
<1> HIDE DEF Io, Held, Strand
<1>7. /\ Cardinality(Io) \in Nat /\ Cardinality(Held) \in Nat /\ Cardinality(Strand) \in Nat
      /\ Cardinality(Io) > 0 \/ Cardinality(Held) > 0 \/ Cardinality(Strand) > 0
  BY <1>4, <1>5, FS_CardinalityType, FS_EmptySet
<1>8. QED
  BY <1>6, <1>7

-----------------------------------------------------------------------------
(* The connection starts with nothing anywhere.                              *)
LEMMA InitTypes == Init => WriterTypes /\ MessageInOnePlace /\ Accounted
<1> SUFFICES ASSUME Init PROVE WriterTypes /\ MessageInOnePlace /\ Accounted
  OBVIOUS
<1> USE DEF Init, IoInit
<1>1. Cardinality({}) = 0 /\ IsFiniteSet({})
  BY FS_EmptySet
<1>2. WriterTypes
  <2>1. \A S : <<>> \in Seq(S)
    OBVIOUS
  <2>2. class \in {"tcp", "ssl", "serial", "ws"}
    BY WritersAssumption
  <2>3. QED
    BY <1>1, <2>1, <2>2 DEF WriterTypes
<1>3. OpsOf(<<>>) = <<>> /\ MsgsOf(<<>>) = {} /\ HeldMsgs({}) = {} /\ Distinct(<<>>)
  BY DEF OpsOf, MsgsOf, HeldMsgs, Distinct
<1>4. MessageInOnePlace
  BY <1>3 DEF MessageInOnePlace, OnePlace
<1>5. Accounted
  BY <1>1 DEF Accounted, Total
<1>6. QED
  BY <1>2, <1>4, <1>5

LEMMA AccountedImplies ==
  WriterTypes /\ Accounted => EveryWriteIsAccountedFor
<1> SUFFICES ASSUME WriterTypes, Accounted PROVE EveryWriteIsAccountedFor
  OBVIOUS
<1>1. Pending({"write", "resume", "done", "error"}, 1..(Parts + 1))
        = Len(ioQueue) + Cardinality(held) + Len(strand)
  BY PendingAll
<1>2. QED
  BY <1>1, LengthsAreNat DEF Accounted, Total, EveryWriteIsAccountedFor

(* No message is in two of the places where it can wait: the queue of the    *)
(* io_service, a thread's hands, the strand, mWriteQueue and the connection. *)
THEOREM InOnePlaceHolds == Spec => [](WriterTypes /\ MessageInOnePlace /\ Accounted)
<1>1. WriterTypes /\ MessageInOnePlace /\ Accounted /\ [Next]_vars
        => WriterTypes' /\ MessageInOnePlace' /\ Accounted'
  BY TypesStep, PlacesStep
<1>2. QED
  BY InitTypes, <1>1, PTL DEF Spec

(* Each call to Write is posted, queued, waiting for the connection,         *)
(* finished or reported, at every moment: none is lost or started twice.     *)
THEOREM WritesAreAccountedFor == Spec => []EveryWriteIsAccountedFor
BY InOnePlaceHolds, AccountedImplies, PTL

-----------------------------------------------------------------------------
(* Where the handlers are after each kind of step.                           *)
Others == Elements(ioQueue) \cup held \cup Elements(Tail(strand))

LEMMA TasksAreTasks ==
  ASSUME WriterTypes
  PROVE  Tasks \subseteq Task
<1>1. ioQueue \in Seq(Task) /\ strand \in Seq(Task) /\ held \subseteq Task
  BY DEF WriterTypes
<1>2. Elements(ioQueue) \subseteq Task /\ Elements(strand) \subseteq Task
  BY <1>1, ElementsOfTasks
<1>3. QED
  BY <1>1, <1>2 DEF Tasks

LEMMA TasksOfPost ==
  ASSUME WriterTypes, NEW t \in Task, Post(t)
  PROVE  /\ Elements(ioQueue') = Elements(ioQueue) \cup {t}
         /\ UNCHANGED <<held, strand>> => Tasks' = Tasks \cup {t}
<1>1. ioQueue \in Seq(Task) /\ ioQueue' = Append(ioQueue, t)
  BY DEF WriterTypes, Post
<1>2. Elements(ioQueue') = Elements(ioQueue) \cup {t}
  BY <1>1, ElementsOfTasks
<1>3. QED
  BY <1>2 DEF Tasks, Elements

LEMMA TasksOfTake ==
  ASSUME WriterTypes, NEW n, Take(n)
  PROVE  /\ ioQueue # <<>> /\ Head(ioQueue) \in Task /\ held' = held \cup {Head(ioQueue)}
         /\ Elements(ioQueue) = Elements(ioQueue') \cup {Head(ioQueue)}
         /\ strand' = strand /\ Tasks' = Tasks
         /\ Elements(ioQueue') \cup held' = Elements(ioQueue) \cup held
<1>1. /\ ioQueue # <<>> /\ ioQueue \in Seq(Task) /\ ioQueue' = Tail(ioQueue)
      /\ held' = held \cup {Head(ioQueue)} /\ strand' = strand
  BY DEF WriterTypes, Take
<1>2. /\ Head(ioQueue) \in Task
      /\ Elements(ioQueue) = Elements(ioQueue') \cup {Head(ioQueue)}
  BY <1>1, ElementsOfTasks
<1>3. Elements(ioQueue') \cup held' = Elements(ioQueue) \cup held
  BY <1>1, <1>2
<1>4. Tasks' = Tasks
  BY <1>1, <1>3 DEF Tasks
<1>5. QED
  BY <1>1, <1>2, <1>3, <1>4

LEMMA TasksOfEnter ==
  ASSUME WriterTypes, NEW t \in held, Enter(t)
  PROVE  /\ t \in Task /\ held' = held \ {t} /\ ioQueue' = ioQueue
         /\ Elements(strand') = Elements(strand) \cup {t} /\ Tasks' = Tasks
<1>1. /\ strand \in Seq(Task) /\ t \in Task /\ strand' = Append(strand, t)
      /\ held' = held \ {t} /\ ioQueue' = ioQueue
  BY DEF WriterTypes, Enter
<1>2. Elements(strand') = Elements(strand) \cup {t}
  BY <1>1, ElementsOfTasks
<1>3. Tasks' = Tasks
  BY <1>1, <1>2 DEF Tasks
<1>4. QED
  BY <1>1, <1>2, <1>3

LEMMA TasksOfHandler ==
  ASSUME WriterTypes, NEW kind, InStrand(kind), UNCHANGED held
  PROVE  /\ Head(strand) \in Task /\ Head(strand).kind = kind
         /\ Tasks = Others \cup {Head(strand)}
         /\ Elements(strand) = Elements(strand') \cup {Head(strand)}
         /\ UNCHANGED ioQueue => Tasks' = Others
         /\ \A t \in Task : Post(t) => Tasks' = Others \cup {t}
<1>1. /\ strand \in Seq(Task) /\ strand # <<>> /\ strand' = Tail(strand)
      /\ Head(strand).kind = kind
  BY DEF WriterTypes, InStrand
<1>2. Head(strand) \in Task /\ Elements(strand) = Elements(Tail(strand)) \cup {Head(strand)}
  BY <1>1, ElementsOfTasks
<1>3. Tasks = Others \cup {Head(strand)}
  BY <1>2 DEF Tasks, Others
<1>4. UNCHANGED ioQueue => Tasks' = Others
  BY <1>1 DEF Tasks, Others
<1>5. ASSUME NEW t \in Task, Post(t) PROVE Tasks' = Others \cup {t}
  <2>1. Elements(ioQueue') = Elements(ioQueue) \cup {t}
    BY <1>5, TasksOfPost
  <2>2. QED
    BY <1>1, <2>1 DEF Tasks, Others
<1>6. QED
  BY <1>1, <1>2, <1>3, <1>4, <1>5

-----------------------------------------------------------------------------
(* A message is kept back only behind a transmission of a ws session.        *)
LEMMA AsyncWriteServes ==
  ASSUME WriterTypes, NEW queue \in Seq(Op), NEW sending \in BOOLEAN, AsyncWrite(queue, sending),
         class # "ws" => Len(queue) <= 1 /\ ~sending
  PROVE  /\ class # "ws" => mWriteQueue' = <<>> /\ ~mIsSending'
         /\ mWriteQueue' # <<>> => mIsSending'
         /\ mIsSending' => sending \/ socket' # <<>>
         /\ sending => UNCHANGED <<ioQueue, socket>>
<1>1. CASE queue = <<>> \/ sending
  <2>1. mWriteQueue' = queue /\ mIsSending' = sending /\ UNCHANGED <<ioQueue, socket>>
    BY <1>1 DEF AsyncWrite
  <2>2. class # "ws" => queue = <<>>
    BY <1>1
  <2>3. QED
    BY <1>1, <2>1, <2>2
<1>2. CASE queue # <<>> /\ ~sending
  <2>1. /\ mWriteQueue' = Tail(queue) /\ mIsSending' = (class = "ws")
        /\ Wait(Head(queue)) \/ TakeAtOnce(Head(queue))
    BY <1>2 DEF AsyncWrite
  <2>2. class = "ws" => socket' = Append(socket, [Head(queue) EXCEPT !.own = Copied])
    BY <2>1 DEF Wait, TakeAtOnce
  <2>3. Head(queue) \in Op
    BY <1>2, HeadTailProperties
  <2>4. Copied \in BOOLEAN /\ [Head(queue) EXCEPT !.own = Copied] \in Op
    BY <2>3, OwnOp
  <2>5. class = "ws" => socket' # <<>>
    BY <2>2, <2>4, AppendProperties DEF WriterTypes
  <2>6. class # "ws" => Tail(queue) = <<>>
    <3>1. /\ Tail(queue) \in Seq(Op) /\ Len(Tail(queue)) = Len(queue) - 1
          /\ Len(queue) \in Nat
      BY <1>2, HeadTailProperties, LenProperties
    <3>2. QED
      BY <1>2, <3>1, EmptySeq
  <2>7. QED
    BY <1>2, <2>1, <2>5, <2>6
<1>3. QED
  BY <1>1, <1>2

LEMMA ServedStep == WriterTypes /\ Served /\ [Next]_vars => Served'
<1> SUFFICES ASSUME WriterTypes, Served, [Next]_vars PROVE Served'
  OBVIOUS
<1> USE DEF Served
<1>0. /\ mWriteQueue \in Seq(Op) /\ socket \in Seq(Op) /\ mIsSending \in BOOLEAN
      /\ failed \in Nat /\ Len(mWriteQueue) \in Nat
  BY LengthsAreNat
<1>1. CASE Write
  <2>1. Tasks \subseteq Tasks' /\ UNCHANGED <<class, mWriteQueue, mIsSending, socket, failed>>
    <3>1. [kind |-> "write", op |-> NewOp(written + 1)] \in Task
      <4>1. MaxWrites \in Nat /\ Parts \in Nat \ {0} /\ written \in Nat
        BY LengthsAreNat, WritersAssumption
      <4>2. NewOp(written + 1) \in Op
        BY <1>1, <4>1 DEF Write, NewOp, Op, Messages
      <4>3. QED
        BY <4>2, TaskOfOp
    <3>2. QED
      BY <1>1, <3>1, TasksOfPost DEF Write, state
  <2>2. QED
    BY <2>1
<1>2. CASE Dispatch
  <2>1. Tasks' = Tasks
    BY <1>2, TasksOfTake, TasksOfEnter DEF Dispatch
  <2>2. UNCHANGED <<class, mWriteQueue, mIsSending, socket, failed>>
    BY <1>2 DEF Dispatch, state
  <2>3. QED
    BY <2>1, <2>2
<1>3. CASE QueueMessage
  <2> DEFINE queue == Append(mWriteQueue, Head(strand).op)
  <2>1. /\ InStrand("write") /\ AsyncWrite(queue, mIsSending)
        /\ UNCHANGED <<held, class, failed>>
    BY <1>3 DEF QueueMessage, history
  <2>2. queue \in Seq(Op) /\ Len(queue) = Len(mWriteQueue) + 1
    BY <1>0, <2>1, HeadOfStrand, AppendProperties
  <2>3. class # "ws" => Len(queue) <= 1 /\ ~mIsSending
    BY <2>2
  <2> HIDE DEF queue
  <2>4. /\ class # "ws" => mWriteQueue' = <<>> /\ ~mIsSending'
        /\ mWriteQueue' # <<>> => mIsSending'
        /\ mIsSending' => mIsSending \/ socket' # <<>>
        /\ mIsSending => UNCHANGED <<ioQueue, socket>>
    BY <1>0, <2>1, <2>2, <2>3, AsyncWriteServes
  <2>5. /\ Head(strand).kind = "write" /\ Tasks = Others \cup {Head(strand)}
        /\ UNCHANGED ioQueue => Tasks' = Others
    BY <2>1, TasksOfHandler
  <2>6. mIsSending' => socket' # <<>> \/ failed > 0 \/ \E task \in Tasks' : task.kind # "write"
    BY <2>4, <2>5
  <2>7. QED
    BY <2>1, <2>4, <2>6
<1>4. ASSUME NEW queue \in Seq(Op), AsyncWrite(queue, FALSE), UNCHANGED class,
             class # "ws" => Len(queue) <= 1
      PROVE  Served'
  BY <1>4, AsyncWriteServes
<1>5. CASE OnWritten
  <2>1. AsyncWrite(mWriteQueue, FALSE) /\ UNCHANGED class
    BY <1>5 DEF OnWritten
  <2>2. class # "ws" => Len(mWriteQueue) <= 1
    BY <1>0, EmptySeq
  <2>3. QED
    BY <1>0, <1>4, <2>1, <2>2
<1>6. CASE OnWrittenInPart
  <2>1. /\ InStrand("done") /\ AsyncWrite(<<Head(strand).op>> \o mWriteQueue, FALSE)
        /\ UNCHANGED class
    BY <1>6 DEF OnWrittenInPart
  <2> DEFINE queue == <<Head(strand).op>> \o mWriteQueue
  <2>2. queue \in Seq(Op) /\ Len(queue) = Len(mWriteQueue) + 1
    BY <1>0, <2>1, HeadOfStrand, FrontOps
  <2>3. class # "ws" => Len(queue) <= 1
    BY <1>0, <2>2, EmptySeq
  <2> HIDE DEF queue
  <2>4. QED
    BY <1>4, <2>1, <2>2, <2>3 DEF queue
<1>7. CASE OnError
  <2>1. failed' = failed + 1 /\ UNCHANGED <<class, mWriteQueue, mIsSending>>
    BY <1>7 DEF OnError, state
  <2>2. QED
    BY <1>0, <2>1
<1>8. CASE Resume
  <2>1. /\ InStrand("resume") /\ UNCHANGED <<class, mWriteQueue, mIsSending>>
        /\ socket' = Append(socket, [Head(strand).op EXCEPT !.own = FALSE])
    BY <1>8 DEF Resume
  <2>2. [Head(strand).op EXCEPT !.own = FALSE] \in Op
    BY <2>1, HeadOfStrand, OwnOp
  <2>3. socket' # <<>>
    BY <1>0, <2>1, <2>2, AppendProperties
  <2>4. QED
    BY <2>1, <2>3
<1>9. CASE Network
  <2>1. UNCHANGED <<held, strand, class, mWriteQueue, mIsSending, failed>>
    BY <1>9 DEF Network, Transmit, Abort, history
  <2>2. socket # <<>> /\ Head(socket) \in Op
    BY <1>0, <1>9, HeadTailProperties DEF Network, Transmit, Abort
  <2>3. \E t \in Task : Post(t) /\ t.kind # "write"
    <3>1. CASE Abort
      BY <2>2, <3>1, TaskOfOp DEF Abort
    <3>2. CASE Transmit
      <4>1. PICK n \in 1..(Parts - Head(socket).next + 1), what \in Contents(Head(socket)) :
              Post([kind |-> IF Head(socket).next + n <= Parts /\ class # "serial"
                             THEN "resume" ELSE "done",
                    op |-> [Head(socket) EXCEPT !.next = @ + n]])
        BY <3>2 DEF Transmit
      <4>2. [Head(socket) EXCEPT !.next = @ + n] \in Op
        BY <2>2, SentParts
      <4>3. QED
        BY <4>1, <4>2, TaskOfOp
    <3>3. QED
      BY <1>9, <3>1, <3>2 DEF Network
  <2>4. \E task \in Tasks' : task.kind # "write"
    BY <2>1, <2>3, TasksOfPost
  <2>5. QED
    BY <2>1, <2>4
<1>10. CASE Fail \/ UNCHANGED vars
  <2>1. UNCHANGED <<io, class, state, failed>>
    BY <1>10 DEF Fail, vars, history
  <2>2. Tasks' = Tasks
    BY <2>1 DEF Tasks, Elements, io
  <2>3. QED
    BY <2>1, <2>2 DEF state
<1>11. QED
  BY <1>1, <1>2, <1>3, <1>5, <1>6, <1>7, <1>8, <1>9, <1>10 DEF Next, Handler

LEMMA ServedImplies == WriterTypes /\ Served => QueueIsServed
<1> SUFFICES ASSUME WriterTypes, Served, mWriteQueue # <<>>
             PROVE  /\ class = "ws" /\ mIsSending
                    /\ socket # <<>> \/ failed > 0
                       \/ Pending({"resume", "done", "error"}, 1..(Parts + 1)) > 0
  BY DEF QueueIsServed
<1>1. class = "ws" /\ mIsSending
  BY DEF Served
<1>2. socket # <<>> \/ failed > 0 \/ \E task \in Tasks : task.kind # "write"
  BY <1>1 DEF Served
<1>3. QED
  BY <1>1, <1>2, PendingSome

(* No message is stranded: one that is kept back is behind a transmission    *)
(* whose completion or whose error report is still to come, or has failed.   *)
THEOREM QueueServed == Spec => []QueueIsServed
<1>1. Init => Served
  BY DEF Init, Served
<1>2. WriterTypes /\ Served /\ [Next]_vars => WriterTypes' /\ Served'
  BY TypesStep, ServedStep
<1>3. QED
  BY InitTypes, <1>1, <1>2, ServedImplies, PTL DEF Spec

-----------------------------------------------------------------------------
(* A message enters the strand once.                                         *)
LEMMA AsyncWritePosts ==
  ASSUME NEW queue \in Seq(Op), NEW sending \in BOOLEAN, AsyncWrite(queue, sending)
  PROVE  UNCHANGED ioQueue \/ \E t \in Task : t.kind = "done" /\ Post(t)
<1> DEFINE op == Head(queue)
<1>1. CASE queue = <<>> \/ sending
  BY <1>1 DEF AsyncWrite
<1>2. CASE queue # <<>> /\ ~sending
  <2>1. op \in Op /\ (Wait(op) \/ TakeAtOnce(op))
    BY <1>2, HeadTailProperties DEF AsyncWrite
  <2>2. CASE Wait(op)
    BY <2>2 DEF Wait
  <2>3. CASE TakeAtOnce(op)
    <3>1. PICK n \in 1..(Parts - op.next + 1) :
            Post([kind |-> "done", op |-> [op EXCEPT !.next = @ + n]])
      BY <2>3 DEF TakeAtOnce
    <3>2. [op EXCEPT !.next = @ + n] \in Op
      <4>1. op.msg \in Messages \cup {Garbage}
        BY <2>1, OwnOp
      <4>2. QED
        BY <2>1, <4>1, SentParts
    <3>3. QED
      BY <3>1, <3>2, TaskOfOp
  <2>4. QED
    BY <2>1, <2>2, <2>3
<1>3. QED
  BY <1>1, <1>2

LEMMA NetworkPosts ==
  ASSUME WriterTypes, Network
  PROVE  \E t \in Task : /\ Post(t) /\ t.kind # "write" /\ t.op.msg = Head(socket).msg
                         /\ socket # <<>> /\ socket' = Tail(socket)
                         /\ UNCHANGED <<held, strand, class, mWriteQueue, mIsSending, broken, history>>
<1>1. UNCHANGED <<held, strand, class, mWriteQueue, mIsSending, broken, history>>
      /\ socket' = Tail(socket)
  BY DEF Network, Transmit, Abort
<1>2. socket # <<>> /\ Head(socket) \in Op
  BY HeadTailProperties DEF Network, Transmit, Abort, WriterTypes
<1>3. CASE Abort
  BY <1>1, <1>2, <1>3, TaskOfOp DEF Abort
<1>4. CASE Transmit
  <2>1. PICK n \in 1..(Parts - Head(socket).next + 1), what \in Contents(Head(socket)) :
          Post([kind |-> IF Head(socket).next + n <= Parts /\ class # "serial"
                         THEN "resume" ELSE "done",
                op |-> [Head(socket) EXCEPT !.next = @ + n]])
    BY <1>4 DEF Transmit
  <2>2. /\ [Head(socket) EXCEPT !.next = @ + n] \in Op
        /\ [Head(socket) EXCEPT !.next = @ + n].msg = Head(socket).msg
    BY <1>2, SentParts DEF Op
  <2>3. QED
    BY <1>1, <1>2, <2>1, <2>2, TaskOfOp
<1>5. QED
  BY <1>3, <1>4 DEF Network

LEMMA WritesStay ==
  ASSUME WriterTypes, Handler \/ Network \/ Fail \/ UNCHANGED vars
  PROVE  /\ UNCHANGED <<held, entered, written>>
         /\ \A t \in Elements(ioQueue') : t.kind = "write" => t \in Elements(ioQueue)
         /\ Elements(strand') \subseteq Elements(strand)
<1> DEFINE NoneNew == \A t \in Elements(ioQueue') : t.kind = "write" => t \in Elements(ioQueue)
<1>0. \A t \in Task : t.kind # "write" /\ Post(t) => NoneNew
  BY TasksOfPost
<1>1. UNCHANGED ioQueue => NoneNew
  BY DEF Elements
<1>2. UNCHANGED strand => Elements(strand') \subseteq Elements(strand)
  BY DEF Elements
<1> HIDE DEF NoneNew
<1>3. CASE Handler
  <2>1. UNCHANGED <<held, entered, written>>
    BY <1>3 DEF Handler, QueueMessage, OnWritten, OnWrittenInPart, OnError, Resume, history
  <2>2. PICK kind : InStrand(kind)
    BY <1>3 DEF Handler, QueueMessage, OnWritten, OnWrittenInPart, OnError, Resume
  <2>3. Elements(strand') \subseteq Elements(strand)
    BY <2>1, <2>2, TasksOfHandler
  <2>4. Head(strand).op \in Op
    BY <2>2, HeadOfStrand
  <2>5. \/ UNCHANGED ioQueue
        \/ \E queue \in Seq(Op), sending \in BOOLEAN : AsyncWrite(queue, sending)
    <3>1. CASE QueueMessage
      <4>1. Append(mWriteQueue, Head(strand).op) \in Seq(Op) /\ mIsSending \in BOOLEAN
        BY <2>4, AppendProperties DEF WriterTypes
      <4>2. QED
        BY <3>1, <4>1 DEF QueueMessage
    <3>2. CASE OnWritten
      BY <3>2 DEF OnWritten, WriterTypes
    <3>3. CASE OnWrittenInPart
      <4>1. <<Head(strand).op>> \o mWriteQueue \in Seq(Op)
        BY <2>4, FrontOps DEF WriterTypes
      <4>2. QED
        BY <3>3, <4>1 DEF OnWrittenInPart
    <3>4. CASE OnError \/ Resume
      BY <3>4 DEF OnError, Resume
    <3>5. QED
      BY <1>3, <3>1, <3>2, <3>3, <3>4 DEF Handler
  <2>6. NoneNew
    BY <1>0, <1>1, <2>5, AsyncWritePosts
  <2>7. QED
    BY <2>1, <2>3, <2>6 DEF NoneNew
<1>4. CASE Network
  <2>1. PICK t \in Task : Post(t) /\ t.kind # "write" /\ UNCHANGED <<held, strand, history>>
    BY <1>4, NetworkPosts
  <2>2. NoneNew
    BY <1>0, <2>1
  <2>3. QED
    BY <1>2, <2>1, <2>2 DEF NoneNew, history
<1>5. CASE Fail \/ UNCHANGED vars
  <2>1. UNCHANGED <<ioQueue, held, strand, entered, written>>
    BY <1>5 DEF Fail, vars, io, history
  <2>2. QED
    BY <1>1, <1>2, <2>1 DEF NoneNew
<1>6. QED
  BY <1>3, <1>4, <1>5

LEMMA NewWrite ==
  ASSUME WriterTypes, written < MaxWrites
  PROVE  [kind |-> "write", op |-> NewOp(written + 1)] \in Task
<1>1. MaxWrites \in Nat /\ Parts \in Nat \ {0} /\ written \in Nat
  BY LengthsAreNat, WritersAssumption
<1>2. NewOp(written + 1) \in Op
  BY <1>1 DEF NewOp, Op, Messages
<1>3. QED
  BY <1>2, TaskOfOp

(* The messages of a sequence of handlers are those of its elements.         *)
LEMMA MsgsOfElements ==
  ASSUME NEW s \in Seq(Task)
  PROVE  MsgsOf(OpsOf(s)) = {t.op.msg : t \in Elements(s)}
<1>1. Len(s) \in Nat /\ Len(OpsOf(s)) = Len(s) /\ \A i \in 1..Len(s) : OpsOf(s)[i] = s[i].op
  BY LenProperties, OpsOfTasks DEF OpsOf
<1>2. QED
  BY <1>1 DEF MsgsOf, Elements

LEMMA EnteredOnceStep ==
  WriterTypes /\ MessageInOnePlace /\ EnteredOnce /\ [Next]_vars => EnteredOnce'
<1> SUFFICES ASSUME WriterTypes, MessageInOnePlace, EnteredOnce, [Next]_vars PROVE EnteredOnce'
  OBVIOUS
<1>0. /\ entered \in Seq(Messages) /\ Len(entered) \in Nat /\ written \in Nat
      /\ ioQueue \in Seq(Task) /\ strand \in Seq(Task) /\ held \in SUBSET Task
      /\ mWriteQueue \in Seq(Op) /\ socket \in Seq(Op)
      /\ \A k \in 1..Len(entered) : entered[k] \in Nat
  <2>1. \A k \in 1..Len(entered) : entered[k] \in Messages
    BY ElementOfSeq DEF WriterTypes
  <2>2. \A m \in Messages : m \in Nat
    BY WritersAssumption DEF Messages
  <2>3. QED
    BY <2>1, <2>2, LengthsAreNat, LenProperties
<1>1. CASE Write
  <2> DEFINE t == [kind |-> "write", op |-> NewOp(written + 1)]
  <2>1. t \in Task /\ t.op = NewOp(t.op.msg) /\ t.op.msg = written + 1
    BY <1>1, NewWrite DEF Write, NewOp
  <2>2. Post(t) /\ written' = written + 1 /\ UNCHANGED <<held, strand, entered>>
    BY <1>1 DEF Write
  <2> HIDE DEF t
  <2>3. Tasks' = Tasks \cup {t} /\ Elements(ioQueue') = Elements(ioQueue) \cup {t}
    BY <2>1, <2>2, TasksOfPost
  <2>4. \A k \in 1..Len(entered) : entered[k] <= written /\ entered[k] # t.op.msg
                                   /\ entered[k] <= written + 1
    <3>1. \A k \in 1..Len(entered) : entered[k] <= written
      BY DEF EnteredOnce
    <3>2. QED
      BY <1>0, <2>1, <3>1
  <2>5. \A k \in 1..Len(entered') : entered'[k] <= written'
    BY <2>2, <2>4
  <2>6. \A u \in Tasks' : u.kind = "write" => u.op = NewOp(u.op.msg)
    BY <2>1, <2>3 DEF EnteredOnce
  <2>7. \A u \in Elements(ioQueue') \cup held' : u.kind = "write" =>
          \A k \in 1..Len(entered') : entered'[k] # u.op.msg
    BY <2>2, <2>3, <2>4 DEF EnteredOnce
  <2>8. QED
    BY <2>2, <2>5, <2>6, <2>7 DEF EnteredOnce
<1>2. CASE Dispatch
  <2>0. UNCHANGED written
    BY <1>2 DEF Dispatch
  <2>1. CASE UNCHANGED entered /\ \E n : Take(n)
    <3>1. Tasks' = Tasks /\ Elements(ioQueue') \cup held' = Elements(ioQueue) \cup held
      BY <2>1, TasksOfTake
    <3>2. QED
      BY <2>0, <2>1, <3>1 DEF EnteredOnce
  <2>2. CASE \E task \in held :
               /\ Enter(task)
               /\ entered' = IF task.kind = "write" THEN Append(entered, task.op.msg) ELSE entered
    <3>1. PICK t \in held :
               /\ Enter(t)
               /\ entered' = IF t.kind = "write" THEN Append(entered, t.op.msg) ELSE entered
      BY <2>2
    <3>2. /\ t \in Task /\ held' = held \ {t} /\ ioQueue' = ioQueue /\ Tasks' = Tasks
      BY <3>1, TasksOfEnter
    <3>3. CASE t.kind # "write"
      <4>1. Elements(ioQueue') \cup held' \subseteq Elements(ioQueue) \cup held
        BY <3>2
      <4>2. entered' = entered
        BY <3>1, <3>3
      <4>3. QED
        BY <2>0, <3>2, <4>1, <4>2 DEF EnteredOnce
    <3>4. CASE t.kind = "write"
      <4> DEFINE m == t.op.msg
      <4>1. /\ m \in Messages /\ m <= written
            /\ \A u \in Elements(ioQueue) \cup (held \ {t}) : u.op.msg # m
        <5>1. Absent(m, ioQueue, held \ {t}, strand, mWriteQueue, socket, written)
          BY <1>0, TakeFromHeld DEF MessageInOnePlace
        <5>2. m \in 1..written /\ m \notin MsgsOf(OpsOf(ioQueue)) /\ m \notin HeldMsgs(held \ {t})
          BY <5>1 DEF Absent
        <5>3. \A u \in Elements(ioQueue) \cup (held \ {t}) : u.op.msg # m
          BY <1>0, <5>2, MsgsOfElements DEF HeldMsgs
        <5>4. m \in Messages
          BY <3>2 DEF Task, Op
        <5>5. QED
          BY <1>0, <5>2, <5>3, <5>4
      <4>2. \A k \in 1..Len(entered) : entered[k] # m
        BY <3>4 DEF EnteredOnce
      <4>3. entered' = Append(entered, m)
        BY <3>1, <3>4
      <4> HIDE DEF m
      <4>4. /\ Len(entered') = Len(entered) + 1 /\ entered'[Len(entered) + 1] = m
            /\ \A k \in 1..Len(entered) : entered'[k] = entered[k]
        BY <1>0, <4>1, <4>3, AppendProperties
      <4>5. \A k \in 1..Len(entered') : k = Len(entered) + 1 \/ k \in 1..Len(entered)
        BY <1>0, <4>4
      <4>6. \A k, l \in 1..Len(entered') : entered'[k] = entered'[l] => k = l
        BY <4>2, <4>4, <4>5 DEF EnteredOnce
      <4>7. \A k \in 1..Len(entered') : entered'[k] <= written
        BY <4>1, <4>4, <4>5 DEF EnteredOnce
      <4>8. \A u \in Elements(ioQueue') \cup held' : u.kind = "write" =>
              \A k \in 1..Len(entered') : entered'[k] # u.op.msg
        BY <3>2, <4>1, <4>4, <4>5 DEF EnteredOnce
      <4>9. QED
        BY <2>0, <3>2, <4>6, <4>7, <4>8 DEF EnteredOnce
    <3>5. QED
      BY <3>3, <3>4
  <2>3. QED
    BY <1>2, <2>1, <2>2 DEF Dispatch
<1>3. CASE Handler \/ Network \/ Fail \/ UNCHANGED vars
  <2>1. /\ UNCHANGED <<held, entered, written>>
        /\ \A t \in Elements(ioQueue') : t.kind = "write" => t \in Elements(ioQueue)
        /\ Elements(strand') \subseteq Elements(strand)
    BY <1>3, WritesStay
  <2>2. \A t \in Tasks' : t.kind = "write" => t \in Tasks
    BY <2>1 DEF Tasks
  <2>3. QED
    BY <2>1, <2>2 DEF EnteredOnce
<1>4. QED
  BY <1>1, <1>2, <1>3 DEF Next

-----------------------------------------------------------------------------
(* The order in which the messages come through the strand.                  *)
LEMMA TailOfStrand ==
  ASSUME WriterTypes, NEW kind, InStrand(kind)
  PROVE  /\ Len(strand) \in Nat \ {0} /\ Len(strand') \in Nat /\ Len(strand') = Len(strand) - 1
         /\ strand[1] = Head(strand) /\ Head(strand).kind = kind /\ Head(strand) \in Tasks
         /\ \A i \in 1..Len(strand') : i + 1 \in 2..Len(strand) /\ strand'[i] = strand[i + 1]
         /\ \A i \in 2..Len(strand) : i - 1 \in 1..Len(strand') /\ strand'[i - 1] = strand[i]
<1>1. /\ strand \in Seq(Task) /\ strand # <<>> /\ strand' = Tail(strand)
      /\ Head(strand).kind = kind
  BY DEF WriterTypes, InStrand
<1>2. /\ Len(strand) \in Nat \ {0} /\ Len(strand') = Len(strand) - 1
      /\ strand[1] = Head(strand) /\ \A i \in 1..Len(strand') : strand'[i] = strand[i + 1]
  BY <1>1, HeadTailProperties, EmptySeq
<1>3. Head(strand) \in Tasks
  BY <1>2 DEF Tasks, Elements
<1>4. /\ \A i \in 1..Len(strand') : i + 1 \in 2..Len(strand) /\ strand'[i] = strand[i + 1]
      /\ \A i \in 2..Len(strand) : i - 1 \in 1..Len(strand') /\ strand'[i - 1] = strand[i]
  BY <1>2
<1>5. QED
  BY <1>1, <1>2, <1>3, <1>4

LEMMA OrderOfTail ==
  ASSUME WriterTypes, NEW kind, InStrand(kind), SameOrder, UNCHANGED entered
  PROVE  SameOrder'
<1>1. Len(strand) \in Nat \ {0} /\ Len(strand') \in Nat
  BY TailOfStrand
<1>2. \A i \in 1..Len(strand') : i + 1 \in 2..Len(strand) /\ strand'[i] = strand[i + 1]
  BY TailOfStrand
<1>3. ASSUME NEW i \in 1..Len(strand'), NEW j \in 1..Len(strand'),
             NEW k \in 1..Len(entered), NEW l \in 1..Len(entered), i < j,
             strand'[i].kind = "write", strand'[j].kind = "write",
             strand'[i].op.msg = entered[k], strand'[j].op.msg = entered[l]
      PROVE  k < l
  <2>1. /\ i + 1 \in 1..Len(strand) /\ j + 1 \in 1..Len(strand) /\ i + 1 < j + 1
        /\ strand'[i] = strand[i + 1] /\ strand'[j] = strand[j + 1]
    BY <1>1, <1>2, <1>3
  <2>2. QED
    BY <1>3, <2>1 DEF SameOrder
<1>4. QED
  BY <1>3 DEF SameOrder

LEMMA ComingHead ==
  ASSUME WriterTypes, EnteredOnce, NEW b, Coming(b), InStrand("write"), UNCHANGED entered
  PROVE  /\ b + 1 \in 1..Len(entered) /\ Head(strand).op = NewOp(entered[b + 1])
         /\ Coming(b + 1)'
<1>1. Len(entered) \in Nat /\ b \in 0..Len(entered)
  BY LengthsAreNat, LenProperties DEF Coming
<1>2. /\ Len(strand) \in Nat \ {0} /\ Len(strand') \in Nat /\ Len(strand') = Len(strand) - 1
      /\ strand[1] = Head(strand) /\ Head(strand).kind = "write" /\ Head(strand) \in Tasks
  BY TailOfStrand
<1>3. /\ \A i \in 1..Len(strand') : i + 1 \in 2..Len(strand) /\ strand'[i] = strand[i + 1]
      /\ \A i \in 2..Len(strand) : i - 1 \in 1..Len(strand') /\ strand'[i - 1] = strand[i]
  BY TailOfStrand
<1>4. \A k, l \in 1..Len(entered) : entered[k] = entered[l] => k = l
  BY DEF EnteredOnce
<1>5. NoneBefore(b) /\ AllBehind(b) /\ SameOrder
  BY DEF Coming
<1>6. strand[1].op.msg = entered[b + 1] /\ b + 1 \in 1..Len(entered)
  <2>1. PICK k \in (b + 1)..Len(entered) : strand[1].op.msg = entered[k]
    BY <1>2, <1>5 DEF NoneBefore
  <2>2. ASSUME k # b + 1 PROVE FALSE
    <3>1. /\ k \in 1..Len(entered) /\ b + 1 \in 1..Len(entered) /\ b + 1 < k
          /\ b + 1 \in (b + 1)..Len(entered)
      BY <1>1, <2>1, <2>2
    <3>2. PICK i \in 1..Len(strand) : strand[i].kind = "write" /\ strand[i].op.msg = entered[b + 1]
      BY <1>5, <3>1 DEF AllBehind
    <3>3. i # 1
      BY <1>4, <2>1, <2>2, <3>1, <3>2
    <3>4. 1 < i /\ 1 \in 1..Len(strand)
      BY <1>2, <3>2, <3>3
    <3>5. k < b + 1
      BY <1>2, <1>5, <2>1, <3>1, <3>2, <3>4 DEF SameOrder
    <3>6. QED
      BY <1>1, <3>1, <3>5
  <2>3. QED
    BY <1>1, <2>1, <2>2
<1>7. Head(strand).op = NewOp(entered[b + 1])
  BY <1>2, <1>6 DEF EnteredOnce
<1>8. ASSUME NEW i \in 1..Len(strand'), strand'[i].kind = "write"
      PROVE  \E k \in (b + 2)..Len(entered) : strand'[i].op.msg = entered[k]
  <2>1. i + 1 \in 1..Len(strand) /\ 1 \in 1..Len(strand) /\ 1 < i + 1 /\ strand'[i] = strand[i + 1]
    BY <1>2, <1>3
  <2>2. PICK k \in (b + 1)..Len(entered) : strand[i + 1].op.msg = entered[k]
    BY <1>5, <1>8, <2>1 DEF NoneBefore
  <2>3. k \in 1..Len(entered)
    BY <1>1
  <2>4. b + 1 < k
    BY <1>2, <1>5, <1>6, <1>8, <2>1, <2>2, <2>3 DEF SameOrder
  <2>5. k \in (b + 2)..Len(entered)
    BY <1>1, <2>2, <2>4
  <2>6. QED
    BY <2>1, <2>2, <2>5
<1>9. ASSUME NEW k \in (b + 2)..Len(entered)
      PROVE  \E i \in 1..Len(strand') : strand'[i].kind = "write" /\ strand'[i].op.msg = entered[k]
  <2>1. k \in (b + 1)..Len(entered) /\ k \in 1..Len(entered) /\ k # b + 1
    BY <1>1
  <2>2. PICK i \in 1..Len(strand) : strand[i].kind = "write" /\ strand[i].op.msg = entered[k]
    BY <1>5, <2>1 DEF AllBehind
  <2>3. i # 1
    BY <1>4, <1>6, <2>1, <2>2
  <2>4. i \in 2..Len(strand)
    BY <1>2, <2>3
  <2>5. i - 1 \in 1..Len(strand') /\ strand'[i - 1] = strand[i]
    BY <1>3, <2>4
  <2>6. QED
    BY <2>2, <2>5
<1>10. SameOrder'
  BY <1>5, OrderOfTail
<1>11. Coming(b + 1)'
  <2>1. b + 1 \in 0..Len(entered) /\ (b + 1) + 1 = b + 2
    BY <1>1, <1>6
  <2>2. NoneBefore(b + 1)'
    BY <1>8, <2>1 DEF NoneBefore
  <2>3. AllBehind(b + 1)'
    BY <1>9, <2>1 DEF AllBehind
  <2>4. QED
    BY <1>10, <2>1, <2>2, <2>3 DEF Coming
<1>12. QED
  BY <1>6, <1>7, <1>11

LEMMA ComingOther ==
  ASSUME WriterTypes, NEW b, Coming(b), NEW kind, kind # "write", InStrand(kind),
         UNCHANGED entered
  PROVE  Coming(b)'
<1>1. /\ Len(strand) \in Nat \ {0} /\ Len(strand') \in Nat /\ Len(strand') = Len(strand) - 1
      /\ strand[1].kind = kind
  BY TailOfStrand
<1>2. /\ \A i \in 1..Len(strand') : i + 1 \in 2..Len(strand) /\ strand'[i] = strand[i + 1]
      /\ \A i \in 2..Len(strand) : i - 1 \in 1..Len(strand') /\ strand'[i - 1] = strand[i]
  BY TailOfStrand
<1>3. b \in 0..Len(entered) /\ NoneBefore(b) /\ AllBehind(b) /\ SameOrder
  BY DEF Coming
<1>4. ASSUME NEW i \in 1..Len(strand'), strand'[i].kind = "write"
      PROVE  \E k \in (b + 1)..Len(entered) : strand'[i].op.msg = entered[k]
  <2>1. i + 1 \in 1..Len(strand) /\ strand'[i] = strand[i + 1]
    BY <1>1, <1>2
  <2>2. QED
    BY <1>3, <1>4, <2>1 DEF NoneBefore
<1>5. ASSUME NEW k \in (b + 1)..Len(entered)
      PROVE  \E i \in 1..Len(strand') : strand'[i].kind = "write" /\ strand'[i].op.msg = entered[k]
  <2>1. PICK i \in 1..Len(strand) : strand[i].kind = "write" /\ strand[i].op.msg = entered[k]
    BY <1>3 DEF AllBehind
  <2>2. i \in 2..Len(strand)
    BY <1>1, <2>1
  <2>3. i - 1 \in 1..Len(strand') /\ strand'[i - 1] = strand[i]
    BY <1>2, <2>2
  <2>4. QED
    BY <2>1, <2>3
<1>6. SameOrder'
  BY <1>3, OrderOfTail
<1>7. NoneBefore(b)'
  BY <1>4 DEF NoneBefore
<1>8. AllBehind(b)'
  BY <1>5 DEF AllBehind
<1>9. QED
  BY <1>3, <1>6, <1>7, <1>8 DEF Coming

LEMMA ComingEnter ==
  ASSUME WriterTypes, EnteredOnce, NEW b, Coming(b), NEW t \in held, Enter(t),
         entered' = IF t.kind = "write" THEN Append(entered, t.op.msg) ELSE entered
  PROVE  /\ Coming(b)' /\ Len(entered) <= Len(entered') /\ Len(entered') \in Nat
         /\ \A k \in 1..Len(entered) : entered'[k] = entered[k]
<1>1. /\ entered \in Seq(Messages) /\ Len(entered) \in Nat /\ strand \in Seq(Task)
      /\ Len(strand) \in Nat /\ b \in 0..Len(entered)
      /\ t \in Task /\ t.op.msg \in Messages
  BY LengthsAreNat, LenProperties DEF Coming, WriterTypes, Task, Op
<1>2. /\ Len(strand') = Len(strand) + 1 /\ strand'[Len(strand) + 1] = t
      /\ \A i \in 1..Len(strand) : strand'[i] = strand[i]
  BY <1>1, AppendProperties DEF Enter
<1>3. NoneBefore(b) /\ AllBehind(b) /\ SameOrder
  BY DEF Coming
<1>4. \A i \in 1..Len(strand') : i = Len(strand) + 1 \/ i \in 1..Len(strand)
  BY <1>1, <1>2
<1>5. CASE t.kind # "write"
  <2>1. entered' = entered
    BY <1>5
  <2>2. NoneBefore(b)'
    BY <1>2, <1>3, <1>4, <1>5, <2>1 DEF NoneBefore
  <2>3. AllBehind(b)'
    <3>1. \A i \in 1..Len(strand) : i \in 1..Len(strand')
      BY <1>1, <1>2
    <3>2. QED
      BY <1>2, <1>3, <2>1, <3>1 DEF AllBehind
  <2>4. SameOrder'
    BY <1>2, <1>3, <1>4, <1>5, <2>1 DEF SameOrder
  <2>5. QED
    BY <1>1, <2>1, <2>2, <2>3, <2>4 DEF Coming
<1>6. CASE t.kind = "write"
  <2> DEFINE m == t.op.msg
             last == Len(entered) + 1
  <2>1. entered' = Append(entered, m)
    BY <1>6
  <2>2. /\ Len(entered') = last /\ entered'[last] = m
        /\ \A k \in 1..Len(entered) : entered'[k] = entered[k]
    BY <1>1, <2>1, AppendProperties
  <2>3. \A k \in 1..Len(entered) : entered[k] # m
    BY <1>6 DEF EnteredOnce
  <2>4. /\ \A k \in 1..last : k = last \/ k \in 1..Len(entered)
        /\ last \in Nat /\ b \in 0..last /\ last \in (b + 1)..last
        /\ \A k \in (b + 1)..Len(entered) : k \in (b + 1)..last /\ k \in 1..Len(entered)
        /\ \A k \in (b + 1)..last : k = last \/ k \in (b + 1)..Len(entered)
        /\ \A k \in 1..Len(entered) : k < last
    BY <1>1
  <2> HIDE DEF m, last
  <2>5. ASSUME NEW i \in 1..Len(strand), strand[i].kind = "write"
        PROVE  \E k \in (b + 1)..last : strand[i].op.msg = entered'[k] /\ strand[i].op.msg # m
    BY <1>3, <2>2, <2>3, <2>4, <2>5 DEF NoneBefore
  <2>6. NoneBefore(b)'
    <3>1. SUFFICES ASSUME NEW i \in 1..Len(strand'), strand'[i].kind = "write"
                   PROVE  \E k \in (b + 1)..last : strand'[i].op.msg = entered'[k]
      BY <2>2 DEF NoneBefore
    <3>2. CASE i \in 1..Len(strand)
      BY <1>2, <2>5, <3>1, <3>2
    <3>3. CASE i = Len(strand) + 1
      BY <1>2, <2>2, <2>4, <3>3 DEF m
    <3>4. QED
      BY <1>4, <3>2, <3>3
  <2>7. AllBehind(b)'
    <3>1. SUFFICES ASSUME NEW k \in (b + 1)..last
                   PROVE  \E i \in 1..Len(strand') : /\ strand'[i].kind = "write"
                                                     /\ strand'[i].op.msg = entered'[k]
      BY <2>2 DEF AllBehind
    <3>2. CASE k = last
      <4>1. Len(strand) + 1 \in 1..Len(strand')
        BY <1>1, <1>2
      <4>2. QED
        BY <1>2, <1>6, <2>2, <3>2, <4>1 DEF m
    <3>3. CASE k \in (b + 1)..Len(entered)
      <4>1. PICK i \in 1..Len(strand) : strand[i].kind = "write" /\ strand[i].op.msg = entered[k]
        BY <1>3, <3>3 DEF AllBehind
      <4>2. i \in 1..Len(strand') /\ strand'[i] = strand[i] /\ entered'[k] = entered[k]
        BY <1>1, <1>2, <2>2, <2>4, <3>3
      <4>3. QED
        BY <4>1, <4>2
    <3>4. QED
      BY <2>4, <3>2, <3>3
  <2>8. SameOrder'
    <3>1. SUFFICES ASSUME NEW i \in 1..Len(strand'), NEW j \in 1..Len(strand'),
                          NEW k \in 1..last, NEW l \in 1..last, i < j,
                          strand'[i].kind = "write", strand'[j].kind = "write",
                          strand'[i].op.msg = entered'[k], strand'[j].op.msg = entered'[l]
                   PROVE  k < l
      BY <2>2 DEF SameOrder
    <3>2. i \in 1..Len(strand) /\ strand'[i] = strand[i]
      BY <1>1, <1>2, <3>1
    <3>3. k \in 1..Len(entered) /\ entered'[k] = entered[k]
      BY <2>2, <2>4, <2>5, <3>1, <3>2
    <3>4. CASE j \in 1..Len(strand)
      <4>1. l \in 1..Len(entered) /\ entered'[l] = entered[l] /\ strand'[j] = strand[j]
        BY <1>2, <2>2, <2>4, <2>5, <3>1, <3>4
      <4>2. QED
        BY <1>3, <3>1, <3>2, <3>3, <3>4, <4>1 DEF SameOrder
    <3>5. CASE j = Len(strand) + 1
      <4>1. entered'[l] = m
        BY <1>2, <3>1, <3>5 DEF m
      <4>2. l = last
        BY <2>2, <2>3, <2>4, <4>1
      <4>3. QED
        BY <2>4, <3>3, <4>2
    <3>6. QED
      BY <1>4, <3>4, <3>5
  <2>9. Coming(b)'
    BY <2>2, <2>4, <2>6, <2>7, <2>8 DEF Coming
  <2>10. QED
    <3>1. Len(entered) <= Len(entered') /\ Len(entered') \in Nat
      BY <1>1, <2>2 DEF last
    <3>2. QED
      BY <2>2, <2>9, <3>1
<1>7. QED
  BY <1>5, <1>6

-----------------------------------------------------------------------------
(* The parts of a message on the wire.                                       *)
LEMMA PartIndex ==
  ASSUME NEW P \in Nat \ {0}, NEW k \in Nat, NEW p \in 0..(P - 1)
  PROVE  (k * P + p) \div P = k /\ (k * P + p) % P = p
<1> DEFINE a == k * P + p
           q == a \div P
           r == a % P
<1>1. a \in Nat /\ q \in Nat /\ r \in 0..(P - 1) /\ a = P * q + r
  OBVIOUS
<1> HIDE DEF q, r
<1>2. P * (k - q) = r - p
  BY <1>1
<1>3. k = q
  BY <1>1, <1>2
<1>4. r = p
  BY <1>1, <1>3
<1>5. QED
  BY <1>3, <1>4 DEF q, r

LEMMA PartsInOrder ==
  ASSUME NEW op \in Op, NEW k \in 1..Len(entered), op.msg = entered[k], Len(entered) \in Nat,
         Len(wire) = (k - 1) * Parts + op.next - 1, NEW c \in 1..(Parts - op.next + 1)
  PROVE  /\ Sent(op, c, op.msg) = [i \in 1..c |-> Fifo!PartAt(entered, Len(wire) + i)]
         /\ c \in 1..(Len(entered) * Parts - Len(wire))
<1> DEFINE x == op.next
           w == Len(wire)
           b == (k - 1) * Parts
<1>1. /\ Parts \in Nat \ {0} /\ x \in 1..(Parts + 1) /\ k - 1 \in Nat /\ k \in Nat
      /\ c \in Nat \ {0} /\ c <= Parts - x + 1
  BY WritersAssumption DEF Op
<1>2. w = b + x - 1 /\ b \in Nat
  BY <1>1
<1> HIDE DEF x, w, b
<1>3. ASSUME NEW i \in 1..c
      PROVE  [msg |-> op.msg, part |-> x + i - 1] = Fifo!PartAt(entered, w + i)
  <2> DEFINE p == x + i - 2
  <2>1. p \in 0..(Parts - 1) /\ (w + i) - 1 = b + p
    BY <1>1, <1>2
  <2> HIDE DEF p
  <2>2. ((w + i) - 1) \div Parts = k - 1 /\ ((w + i) - 1) % Parts = p
    BY <1>1, <2>1, PartIndex DEF b
  <2>3. (k - 1) + 1 = k /\ p + 1 = x + i - 1
    BY <1>1 DEF p
  <2>4. Fifo!PartAt(entered, w + i) = [msg |-> entered[(k - 1) + 1], part |-> p + 1]
    BY <2>2 DEF Fifo!PartAt
  <2>5. QED
    BY <2>3, <2>4
<1>4. Sent(op, c, op.msg) = [i \in 1..c |-> Fifo!PartAt(entered, w + i)]
  BY <1>3 DEF Sent, x
<1>5. c <= Len(entered) * Parts - w
  <2> DEFINE all == Len(entered) * Parts
             later == (Len(entered) - k) * Parts
  <2>1. Len(entered) - k \in Nat /\ \A y \in Nat : y * Parts \in Nat
    BY <1>1
  <2>2. later \in Nat
    BY <2>1
  <2>3. all = later + b + Parts
    BY <1>1 DEF b
  <2> HIDE DEF all, later
  <2>4. c <= all - w
    BY <1>1, <1>2, <2>2, <2>3
  <2>5. QED
    BY <2>4 DEF all
<1>6. Len(entered) * Parts - w \in Int
  BY <1>1, <1>2
<1>7. QED
  BY <1>1, <1>4, <1>5, <1>6 DEF w

-----------------------------------------------------------------------------
(* What is left to be sent, after each kind of step.                         *)
RestsIn(tasks) == {u \in tasks : IsRest(u)}

LEMMA RestsOfPost ==
  ASSUME WriterTypes, NEW t \in Task, Post(t), UNCHANGED <<held, strand>>
  PROVE  Rests' = Rests \cup RestsIn({t})
<1>1. Tasks' = Tasks \cup {t}
  BY TasksOfPost
<1>2. QED
  BY <1>1 DEF Rests, RestsIn, IsRest

LEMMA RestsOfHandler ==
  ASSUME WriterTypes, NEW kind, InStrand(kind), UNCHANGED held
  PROVE  /\ Rests = RestsIn(Others) \cup RestsIn({Head(strand)})
         /\ UNCHANGED ioQueue => Rests' = RestsIn(Others)
         /\ \A t \in Task : Post(t) => Rests' = RestsIn(Others) \cup RestsIn({t})
<1>1. Tasks = Others \cup {Head(strand)}
  BY TasksOfHandler
<1>2. ASSUME UNCHANGED ioQueue PROVE Rests' = RestsIn(Others)
  <2>1. Tasks' = Others
    BY <1>2, TasksOfHandler
  <2>2. QED
    BY <2>1 DEF Rests, RestsIn, IsRest
<1>3. ASSUME NEW t \in Task, Post(t) PROVE Rests' = RestsIn(Others) \cup RestsIn({t})
  <2>1. Tasks' = Others \cup {t}
    BY <1>3, TasksOfHandler
  <2>2. QED
    BY <2>1 DEF Rests, RestsIn, IsRest
<1>4. Rests = RestsIn(Others) \cup RestsIn({Head(strand)})
  BY <1>1 DEF Rests, RestsIn
<1>5. QED
  BY <1>2, <1>3, <1>4

(* The k-th message, or what is left of it, waits for an idle connection.    *)
LEMMA OneWaits ==
  ASSUME WriterTypes, class \in {"tcp", "ws"}, socket = <<>>, NEW o \in Op,
         NEW k \in 1..Len(entered), o.msg = entered[k],
         Len(wire) = (k - 1) * Parts + o.next - 1,
         socket' = Append(socket, o), mWriteBuffer' = o.msg, UNCHANGED <<class, wire, entered>>,
         Rests' = {}, \A task \in Tasks' : task.kind # "resume"
  PROVE  Sending(k)' /\ Memory'
<1>1. /\ socket' # <<>> /\ Len(socket') = 1 /\ socket'[1] = o
  BY EmptySeq, AppendProperties DEF WriterTypes
<1>2. \A i \in 1..1 : i = 1
  OBVIOUS
<1>3. /\ k \in Nat /\ 1 <= k /\ (k - 1) + 1 = k
      /\ \A i \in 2..1 : FALSE
  OBVIOUS
<1>4. Sending(k)'
  <2>1. Len(socket') <= k
    BY <1>1, <1>3
  <2>2. \A i \in 1..Len(socket') : socket'[i].msg = entered'[(k - Len(socket')) + i]
    BY <1>1, <1>2, <1>3
  <2>3. \A i \in 2..Len(socket') : socket'[i].next = 1
    BY <1>1, <1>3
  <2>4. Len(wire') = (k - Len(socket')) * Parts + socket'[1].next - 1
    BY <1>1
  <2>5. QED
    BY <1>1, <2>1, <2>2, <2>3, <2>4 DEF Sending
<1>5. Memory'
  BY <1>1 DEF Memory
<1>6. QED
  BY <1>4, <1>5

(* One more whole message waits for an ssl connection.                       *)
LEMMA OneMoreWaits ==
  ASSUME WriterTypes, class = "ssl", NEW o \in Op, NEW n \in Nat, Sending(n), Memory,
         o.msg = entered[n + 1], o.next = 1, o.own,
         socket' = Append(socket, o), UNCHANGED <<class, wire, entered>>,
         Rests' = {}, \A task \in Tasks' : task.kind # "resume"
  PROVE  Sending(n + 1)' /\ Memory'
<1>1. /\ Len(socket) \in Nat /\ socket' # <<>> /\ Len(socket') = Len(socket) + 1
      /\ socket'[Len(socket) + 1] = o /\ \A i \in 1..Len(socket) : socket'[i] = socket[i]
  BY LenProperties, EmptySeq, AppendProperties DEF WriterTypes
<1>2. \A i \in 1..Len(socket') : i = Len(socket) + 1 \/ i \in 1..Len(socket)
  BY <1>1
<1>3. \A i \in 1..Len(socket) : socket[i].own /\ socket[i].next = 1
  BY DEF Memory
<1>4. \A i \in 1..Len(socket') : socket'[i].own /\ socket'[i].next = 1
  BY <1>1, <1>2, <1>3
<1>5. Sending(n + 1)'
  <2>1. Len(socket') <= n + 1
    BY <1>1 DEF Sending
  <2>2. \A i \in 1..Len(socket') : socket'[i].msg = entered'[((n + 1) - Len(socket')) + i]
    <3>1. \A i \in 1..Len(socket) : socket[i].msg = entered[(n - Len(socket)) + i]
      BY DEF Sending
    <3>2. (n + 1) - Len(socket') = n - Len(socket) /\ (n - Len(socket)) + (Len(socket) + 1) = n + 1
      BY <1>1
    <3>3. QED
      BY <1>1, <1>2, <3>1, <3>2
  <2>3. \A i \in 2..Len(socket') : socket'[i].next = 1
    BY <1>1, <1>4
  <2>4. Len(wire') = ((n + 1) - Len(socket')) * Parts + socket'[1].next - 1
    <3>1. Rests = {} /\ Parts \in Nat
      BY WritersAssumption DEF Memory
    <3>2. socket'[1].next = 1 /\ (n + 1) - Len(socket') = n - Len(socket)
      BY <1>1, <1>4
    <3>3. Len(wire) = (n - Len(socket)) * Parts
      <4>1. CASE socket = <<>>
        <5>1. Len(socket) = 0 /\ Len(wire) = n * Parts /\ n - 0 = n
          BY <3>1, <4>1, EmptySeq DEF Sending
        <5>2. QED
          BY <5>1
      <4>2. CASE socket # <<>>
        <5>1. Len(wire) = (n - Len(socket)) * Parts + socket[1].next - 1
          BY <4>2 DEF Sending
        <5>2. socket[1].next = 1
          BY <1>1, <1>3, <4>2, EmptySeq DEF WriterTypes
        <5>3. (n - Len(socket)) * Parts \in Int
          BY <1>1, <3>1
        <5>4. QED
          BY <5>1, <5>2, <5>3
      <4>3. QED
        BY <4>1, <4>2
    <3>4. (n - Len(socket)) * Parts \in Int
      BY <1>1, <3>1
    <3>5. QED
      BY <3>2, <3>3, <3>4
  <2>5. QED
    BY <1>1, <2>1, <2>2, <2>3, <2>4 DEF Sending
<1>6. Memory'
  BY <1>4 DEF Memory
<1>7. QED
  BY <1>5, <1>6

(* Some parts of the k-th message went out, and nothing else waits.          *)
LEMMA PartLeft ==
  ASSUME NEW t \in Task, NEW k \in 1..Len(entered), t.op.msg = entered[k], socket' = <<>>,
         Len(wire') = (k - 1) * Parts + t.op.next - 1, UNCHANGED entered, Rests' = RestsIn({t}),
         t.kind \in {"resume", "done"}
  PROVE  Sending(k)'
<1>1. /\ Parts \in Nat \ {0} /\ t.op.next \in 1..(Parts + 1) /\ k \in Nat /\ k > 0
      /\ k - 1 \in Nat
  BY WritersAssumption DEF Task, Op
<1>2. Len(<<>>) = 0 /\ (\A i \in 1..0 : FALSE) /\ (\A i \in 2..0 : FALSE)
  BY EmptySeq
<1>3. ASSUME Rests' = {} PROVE Len(wire') = k * Parts
  <2>1. t.op.next = Parts + 1
    BY <1>1, <1>3 DEF RestsIn, IsRest
  <2>2. (k - 1) * Parts + Parts = k * Parts
    BY <1>1
  <2>3. t.op.next - 1 = Parts
    BY <1>1, <2>1
  <2>4. QED
    BY <2>2, <2>3
<1>4. \A task \in Rests' : k > 0 /\ task.op.msg = entered[k]
                           /\ Len(wire') = (k - 1) * Parts + task.op.next - 1
  BY <1>1 DEF RestsIn
<1>5. /\ Len(socket') <= k
      /\ \A i \in 1..Len(socket') : socket'[i].msg = entered'[(k - Len(socket')) + i]
      /\ \A i \in 2..Len(socket') : socket'[i].next = 1
  BY <1>1, <1>2
<1>6. QED
  BY <1>3, <1>4, <1>5 DEF Sending

(* The port takes some of a message at once.                                 *)
LEMMA TakenAtOnce ==
  ASSUME WriterTypes, NEW op \in Op, NEW k \in 1..Len(entered), op.msg = entered[k],
         Len(wire) = (k - 1) * Parts + op.next - 1, TakeAtOnce(op), ~loose, ~loose',
         RestsIn(Others) = {}, NEW kind, InStrand(kind), UNCHANGED <<held, class, broken, entered>>,
         \A u \in Others : u.kind # "resume"
  PROVE  Sending(k)' /\ Memory' /\ Fifo!Transmit
<1>1. PICK c \in 1..(Parts - op.next + 1) :
        /\ wire' = wire \o Sent(op, c, op.msg)
        /\ Post([kind |-> "done", op |-> [op EXCEPT !.next = @ + c]])
  BY DEF TakeAtOnce
<1> DEFINE rest == [op EXCEPT !.next = @ + c]
           t == [kind |-> "done", op |-> rest]
<1>2. rest \in Op /\ rest.msg = op.msg /\ rest.next = op.next + c
  <2>1. op.msg \in Messages
    BY OwnOp
  <2>2. QED
    BY <2>1, SentParts DEF Op
<1>3. t \in Task /\ t.op = rest /\ t.kind = "done"
  BY <1>2, TaskOfOp
<1>4. Post(t)
  BY <1>1
<1> HIDE DEF rest, t
<1>5. Rests' = RestsIn({t}) /\ Tasks' = Others \cup {t}
  BY <1>3, <1>4, RestsOfHandler, TasksOfHandler
<1>6. class = "serial" /\ socket = <<>> /\ socket' = <<>> /\ ~broken
  BY DEF TakeAtOnce
<1>7. Len(wire') = (k - 1) * Parts + t.op.next - 1
  <2>1. /\ Sent(op, c, op.msg) \in Seq(Part) /\ Len(Sent(op, c, op.msg)) = c
        /\ op.msg \in Messages
    BY OwnOp, SentParts
  <2>2. Len(wire') = Len(wire) + c
    BY <1>1, <2>1, ConcatProperties DEF WriterTypes
  <2>3. (k - 1) * Parts \in Int /\ op.next \in Int /\ c \in Int
    BY WritersAssumption DEF Op
  <2>4. QED
    BY <1>2, <1>3, <2>2, <2>3
<1>8. Sending(k)'
  BY <1>2, <1>3, <1>5, <1>6, <1>7, PartLeft
<1>9. Memory'
  <2>1. \A u \in Tasks' : u.kind # "resume"
    BY <1>3, <1>5
  <2>2. \A u \in Rests' : u.kind = "done"
    BY <1>3, <1>5 DEF RestsIn
  <2>3. QED
    BY <1>6, <2>1, <2>2 DEF Memory
<1>10. Fifo!Transmit
  <2>1. /\ Sent(op, c, op.msg) = [i \in 1..c |-> Fifo!PartAt(entered, Len(wire) + i)]
        /\ c \in 1..(Len(entered) * Parts - Len(wire))
    BY LengthsAreNat, LenProperties, PartsInOrder
  <2>2. wire' = wire \o [i \in 1..c |-> Fifo!PartAt(entered, Len(wire) + i)]
    BY <1>1, <2>1
  <2>3. QED
    BY <1>6, <2>1, <2>2 DEF Fifo!Transmit
<1>11. QED
  BY <1>8, <1>9, <1>10

-----------------------------------------------------------------------------
(* The message of the handler that runs is nowhere else.                     *)
LEMMA NoneElsewhere ==
  ASSUME WriterTypes, MessageInOnePlace, NEW kind, InStrand(kind)
  PROVE  /\ \A u \in Others : u.op.msg # Head(strand).op.msg
         /\ \A i \in 1..Len(socket) : socket[i].msg # Head(strand).op.msg
<1> DEFINE m == Head(strand).op.msg
<1>1. /\ strand # <<>> /\ strand \in Seq(Task) /\ ioQueue \in Seq(Task) /\ held \in SUBSET Task
      /\ mWriteQueue \in Seq(Op) /\ socket \in Seq(Op) /\ written \in Nat
      /\ Tail(strand) \in Seq(Task)
  BY HeadOfStrand, LengthsAreNat
<1>2. Absent(m, ioQueue, held, Tail(strand), mWriteQueue, socket, written)
  BY <1>1, TakeFromStrand DEF MessageInOnePlace
<1>3. /\ m \notin {t.op.msg : t \in Elements(ioQueue)} /\ m \notin {t.op.msg : t \in held}
      /\ m \notin {t.op.msg : t \in Elements(Tail(strand))}
      /\ m \notin {socket[i].msg : i \in 1..Len(socket)}
  BY <1>1, <1>2, MsgsOfElements DEF Absent, HeldMsgs, MsgsOf
<1> HIDE DEF m
<1>4. \A u \in Others : u.op.msg # m
  BY <1>3 DEF Others
<1>5. \A i \in 1..Len(socket) : socket[i].msg # m
  BY <1>3
<1>6. QED
  BY <1>4, <1>5 DEF m

LEMMA RestAlone ==
  ASSUME WriterTypes, MessageInOnePlace, NEW kind, InStrand(kind), UNCHANGED held,
         NEW n, Sending(n), IsRest(Head(strand))
  PROVE  RestsIn(Others) = {} /\ socket = <<>> /\ Head(strand) \in Rests
<1>1. Rests = RestsIn(Others) \cup RestsIn({Head(strand)})
  BY RestsOfHandler
<1>2. Head(strand) \in Rests
  BY <1>1 DEF RestsIn
<1>3. socket = <<>>
  BY <1>2 DEF Sending
<1>4. \A u \in Rests : u.op.msg = entered[n]
  BY DEF Sending
<1>5. \A u \in Others : u.op.msg # Head(strand).op.msg
  BY NoneElsewhere
<1>6. \A u \in RestsIn(Others) : u \in Others /\ u \in Rests
  BY <1>1 DEF RestsIn
<1>7. RestsIn(Others) = {}
  BY <1>2, <1>4, <1>5, <1>6
<1>8. QED
  BY <1>2, <1>3, <1>7

LEMMA OneAlone ==
  ASSUME WriterTypes, MessageInOnePlace, class = "ws", NEW kind, kind # "write", InStrand(kind),
         UNCHANGED held, NEW n \in Nat, Sending(n), OneInFlight(n)
  PROVE  /\ \A u \in Others : u.kind = "write"
         /\ socket = <<>> /\ RestsIn(Others) = {} /\ n > 0
<1>1. Tasks = Others \cup {Head(strand)} /\ Head(strand).kind = kind
  BY TasksOfHandler
<1>2. n > 0 /\ Head(strand).op.msg = entered[n]
  BY <1>1 DEF OneInFlight
<1>3. /\ \A u \in Others : u.op.msg # Head(strand).op.msg
      /\ \A i \in 1..Len(socket) : socket[i].msg # Head(strand).op.msg
  BY NoneElsewhere
<1>4. \A u \in Others : u.kind = "write"
  BY <1>1, <1>2, <1>3 DEF OneInFlight
<1>5. socket = <<>>
  <2>1. ASSUME socket # <<>> PROVE FALSE
    <3>1. Len(socket) \in Nat \ {0}
      BY <2>1, EmptySeq DEF WriterTypes
    <3>2. socket[Len(socket)].msg = entered[(n - Len(socket)) + Len(socket)]
      BY <3>1 DEF Sending
    <3>3. (n - Len(socket)) + Len(socket) = n
      BY <3>1
    <3>4. QED
      BY <1>2, <1>3, <3>1, <3>2, <3>3
  <2>2. QED
    BY <2>1
<1>6. RestsIn(Others) = {}
  BY <1>4 DEF RestsIn, IsRest
<1>7. QED
  BY <1>2, <1>4, <1>5, <1>6

(* The next message is started, by the handler of one that has no rest.      *)
LEMMA StartNext ==
  ASSUME WriterTypes, ~loose, ~loose', NEW n \in Nat, n + 1 \in 1..Len(entered), Sending(n), Memory,
         NEW op \in Op, op = NewOp(entered[n + 1]), Wait(op) \/ TakeAtOnce(op),
         mWriteBuffer' = IF class \in {"tcp", "ws"} THEN op.msg ELSE mWriteBuffer,
         NEW kind, InStrand(kind), UNCHANGED <<held, class, broken, entered>>,
         ~IsRest(Head(strand)), class = "ws" => socket = <<>> /\ RestsIn(Others) = {}
  PROVE  Sending(n + 1)' /\ Memory' /\ (UNCHANGED wire \/ Fifo!Transmit)
<1>1. op.msg = entered[n + 1] /\ op.next = 1
  BY DEF NewOp
<1>2. /\ Rests = RestsIn(Others) \cup RestsIn({Head(strand)})
      /\ RestsIn({Head(strand)}) = {} /\ Tasks = Others \cup {Head(strand)}
  BY RestsOfHandler, TasksOfHandler DEF RestsIn
<1>3. class \in {"tcp", "ssl", "serial", "ws"} /\ socket \in Seq(Op) /\ Parts \in Nat
  BY WritersAssumption DEF WriterTypes
<1>4. ~Overtakes
  BY DEF Wait, TakeAtOnce
<1>5. class \in {"tcp", "serial"} => socket = <<>> /\ RestsIn(Others) = {}
  BY <1>4 DEF Overtakes, Others, RestsIn
<1>6. RestsIn(Others) = {} /\ Rests = {}
  BY <1>2, <1>3, <1>5 DEF Memory
<1>7. \A u \in Others : u.kind # "resume"
  BY <1>2, <1>6 DEF Memory, RestsIn
<1>8. socket = <<>> => Len(wire) = ((n + 1) - 1) * Parts + op.next - 1
  <2>1. socket = <<>> => Len(wire) = n * Parts
    BY <1>6 DEF Sending
  <2>2. (n + 1) - 1 = n /\ op.next - 1 = 0 /\ n * Parts \in Int
    BY <1>1, <1>3
  <2>3. QED
    BY <2>1, <2>2
<1>9. CASE Wait(op)
  <2> DEFINE o == [op EXCEPT !.own = Copied]
  <2>1. o \in Op /\ o.msg = op.msg /\ o.next = op.next /\ o.own = Copied
    BY OwnOp
  <2>2. socket' = Append(socket, o) /\ UNCHANGED <<ioQueue, wire>>
    BY <1>9 DEF Wait
  <2>3. class # "serial" /\ (class = "ssl" => Copied)
    BY <1>9 DEF Wait, Copied
  <2> HIDE DEF o
  <2>4. Tasks' = Others /\ Rests' = {}
    BY <1>6, <2>2, TasksOfHandler, RestsOfHandler
  <2>5. \A u \in Tasks' : u.kind # "resume"
    BY <1>7, <2>4
  <2>6. CASE class \in {"tcp", "ws"}
    <3>1. socket = <<>> /\ mWriteBuffer' = o.msg
      BY <1>5, <2>1, <2>6
    <3>2. o.msg = entered[n + 1] /\ Len(wire) = ((n + 1) - 1) * Parts + o.next - 1
      BY <1>1, <1>8, <2>1, <3>1
    <3>3. QED
      BY <2>1, <2>2, <2>4, <2>5, <2>6, <3>1, <3>2, OneWaits
  <2>7. CASE class = "ssl"
    BY <1>1, <2>1, <2>2, <2>3, <2>4, <2>5, <2>7, OneMoreWaits
  <2>8. QED
    BY <1>3, <2>3, <2>6, <2>7
<1>10. CASE TakeAtOnce(op)
  <2>1. socket = <<>>
    BY <1>10 DEF TakeAtOnce
  <2>2. QED
    BY <1>1, <1>6, <1>7, <1>8, <1>10, <2>1, TakenAtOnce
<1>11. QED
  BY <1>9, <1>10

-----------------------------------------------------------------------------
(* Nothing is transmitted and no message is started.                         *)
LEMMA SendingStays ==
  ASSUME WriterTypes, NEW n \in Nat, Sending(n), UNCHANGED <<socket, wire>>, Rests' = Rests,
         \A k \in 1..n : entered'[k] = entered[k]
  PROVE  Sending(n)'
<1>1. Len(socket) \in Nat /\ Len(socket) <= n
  BY LenProperties DEF WriterTypes, Sending
<1>2. \A i \in 1..Len(socket) : (n - Len(socket)) + i \in 1..n
  BY <1>1
<1>3. \A i \in 1..Len(socket) : socket[i].msg = entered'[(n - Len(socket)) + i]
  BY <1>2 DEF Sending
<1>4. \A u \in Rests : n > 0 /\ u.op.msg = entered'[n] /\ Len(wire) = (n - 1) * Parts + u.op.next - 1
  <2>1. n > 0 => n \in 1..n
    OBVIOUS
  <2>2. QED
    BY <2>1 DEF Sending
<1>5. QED
  BY <1>3, <1>4 DEF Sending

LEMMA MemoryStays ==
  ASSUME Memory, UNCHANGED <<class, mWriteBuffer, socket>>, Rests' = Rests,
         \A u \in Tasks' : u.kind = "resume" => u \in Tasks
  PROVE  Memory'
<1>1. \A u \in Tasks' : u.kind = "resume" => IsRest(u)
  BY DEF Memory
<1>2. QED
  BY <1>1 DEF Memory, IsRest

LEMMA WaitingStays ==
  ASSUME WriterTypes, NEW n \in 0..Len(entered), Waiting(n), NEW kind, kind # "write", InStrand(kind),
         UNCHANGED <<mWriteQueue, entered>>
  PROVE  Waiting(n)'
<1>1. Coming(n + Len(mWriteQueue))
  BY DEF Waiting
<1>2. Coming(n + Len(mWriteQueue))'
  <2> DEFINE b == n + Len(mWriteQueue)
  <2>1. Coming(b)
    BY <1>1
  <2>2. \A c : Coming(c) => Coming(c)'
    BY ComingOther
  <2>3. PICK c : c = b
    OBVIOUS
  <2>4. Coming(c)' /\ c = n + Len(mWriteQueue')
    BY <2>1, <2>2, <2>3
  <2>5. QED
    BY <2>4
<1>3. QED
  BY <1>2 DEF Waiting

(* What every handler does to the order: a step of FifoWriter or none.       *)
Advances == /\ \E k \in 0..Len(entered) : InOrder(k)'
            /\ UNCHANGED wire \/ Fifo!Transmit

LEMMA QueueMessageInOrder ==
  ASSUME WriterTypes, Served, EnteredOnce, ~loose, ~loose',
         NEW n \in 0..Len(entered), InOrder(n), QueueMessage
  PROVE  Advances
<1> DEFINE op == Head(strand).op
           queue == Append(mWriteQueue, op)
<1>1. /\ InStrand("write") /\ AsyncWrite(queue, mIsSending)
      /\ UNCHANGED <<held, class, broken, entered>>
  BY DEF QueueMessage, history
<1>2. Waiting(n) /\ Sending(n) /\ OneInFlight(n) /\ Memory
  BY DEF InOrder
<1>3. /\ mWriteQueue \in Seq(Op) /\ Len(mWriteQueue) \in Nat /\ n \in Nat /\ Len(entered) \in Nat
      /\ op \in Op /\ Head(strand).kind = "write" /\ mIsSending \in BOOLEAN
  BY <1>1, LengthsAreNat, LenProperties, HeadOfStrand
<1>4. PICK b : b = n + Len(mWriteQueue)
  OBVIOUS
<1>5. b + 1 \in 1..Len(entered) /\ op = NewOp(entered[b + 1]) /\ Coming(b + 1)'
  <2>1. Coming(b)
    BY <1>2, <1>4 DEF Waiting
  <2>2. QED
    BY <1>1, <2>1, ComingHead
<1>6. /\ Tasks = Others \cup {Head(strand)} /\ RestsIn({Head(strand)}) = {}
      /\ Rests = RestsIn(Others) /\ ~IsRest(Head(strand))
  BY <1>1, <1>3, TasksOfHandler, RestsOfHandler DEF RestsIn, IsRest
<1> HIDE DEF op
<1>7. CASE mIsSending
  <2>1. /\ mWriteQueue' = queue /\ mIsSending' = mIsSending
        /\ UNCHANGED <<ioQueue, mWriteBuffer, socket, wire>>
    BY <1>1, <1>7 DEF AsyncWrite
  <2>2. Tasks' = Others /\ Rests' = Rests
    BY <1>1, <1>6, <2>1, TasksOfHandler, RestsOfHandler
  <2>3. /\ Len(mWriteQueue') = Len(mWriteQueue) + 1 /\ mWriteQueue'[Len(mWriteQueue) + 1] = op
        /\ \A i \in 1..Len(mWriteQueue) : mWriteQueue'[i] = mWriteQueue[i]
    BY <1>3, <2>1, AppendProperties
  <2>4. Waiting(n)'
    <3>1. n + Len(mWriteQueue') = b + 1 /\ n + (Len(mWriteQueue) + 1) = b + 1
      BY <1>3, <1>4, <2>3
    <3>2. \A i \in 1..Len(mWriteQueue') : i = Len(mWriteQueue) + 1 \/ i \in 1..Len(mWriteQueue)
      BY <1>3, <2>3
    <3>3. \A i \in 1..Len(mWriteQueue) : mWriteQueue[i] = NewOp(entered[n + i])
      BY <1>2 DEF Waiting
    <3>4. \A i \in 1..Len(mWriteQueue') : mWriteQueue'[i] = NewOp(entered[n + i])
      BY <1>5, <2>3, <3>1, <3>2, <3>3
    <3>5. Coming(n + Len(mWriteQueue))'
      BY <1>5, <3>1
    <3>6. QED
      BY <1>1, <1>3, <3>4, <3>5 DEF Waiting, NewOp
  <2>5. Sending(n)'
    BY <1>1, <1>2, <1>3, <2>1, <2>2, SendingStays
  <2>6. Memory'
    BY <1>1, <1>2, <1>6, <2>1, <2>2, MemoryStays
  <2>7. OneInFlight(n)'
    BY <1>1, <1>2, <1>6, <1>7, <2>1, <2>2 DEF OneInFlight
  <2>8. QED
    BY <2>1, <2>4, <2>5, <2>6, <2>7 DEF Advances, InOrder
<1>8. CASE ~mIsSending
  <2>1. mWriteQueue = <<>> /\ b = n
    <3>1. mWriteQueue = <<>> /\ Len(<<>>) = 0
      BY <1>8, EmptySeq DEF Served
    <3>2. QED
      BY <1>3, <1>4, <3>1
  <2>2. queue # <<>> /\ Head(queue) = op /\ Tail(queue) = <<>>
    BY <1>3, <2>1
  <2>3. /\ mWriteQueue' = <<>> /\ mIsSending' = (class = "ws")
        /\ mWriteBuffer' = IF class \in {"tcp", "ws"} THEN op.msg ELSE mWriteBuffer
        /\ Wait(op) \/ TakeAtOnce(op)
    BY <1>1, <1>8, <2>2 DEF AsyncWrite
  <2>4. class = "ws" => /\ socket = <<>> /\ RestsIn(Others) = {}
                        /\ \A u \in Others : u.kind = "write"
    BY <1>2, <1>6, <1>8 DEF OneInFlight, RestsIn, IsRest
  <2>5. n + 1 \in 1..Len(entered) /\ op = NewOp(entered[n + 1])
    BY <1>5, <2>1
  <2>6. Sending(n + 1)' /\ Memory' /\ (UNCHANGED wire \/ Fifo!Transmit)
    BY <1>1, <1>2, <1>3, <1>6, <2>3, <2>4, <2>5, StartNext
  <2>7. Waiting(n + 1)'
    <3>1. Coming((n + 1) + Len(mWriteQueue))' /\ Len(<<>>) = 0
      <4>1. (n + 1) + Len(mWriteQueue') = b + 1 /\ Len(<<>>) = 0
        BY <1>3, <2>1, <2>3, EmptySeq
      <4>2. QED
        BY <1>5, <4>1
    <3>2. QED
      BY <1>3, <2>3, <3>1 DEF Waiting
  <2>8. OneInFlight(n + 1)'
    <3>1. ASSUME class = "ws" PROVE mIsSending' /\ \A u \in Tasks' : u.kind = "write"
      <4>1. UNCHANGED ioQueue
        BY <2>3, <3>1 DEF Wait, TakeAtOnce
      <4>2. Tasks' = Others
        BY <1>1, <4>1, TasksOfHandler
      <4>3. QED
        BY <2>3, <2>4, <3>1, <4>2
    <3>2. QED
      BY <1>1, <3>1 DEF OneInFlight
  <2>9. n + 1 \in 0..Len(entered)
    BY <1>3, <2>5
  <2>10. QED
    BY <2>6, <2>7, <2>8, <2>9 DEF Advances, InOrder
<1>9. QED
  BY <1>3, <1>7, <1>8

LEMMA OnWrittenInOrder ==
  ASSUME WriterTypes, MessageInOnePlace, Served, ~loose, ~loose',
         NEW n \in 0..Len(entered), InOrder(n), OnWritten
  PROVE  Advances
<1>1. /\ InStrand("done") /\ Head(strand).op.next > Parts /\ AsyncWrite(mWriteQueue, FALSE)
      /\ UNCHANGED <<held, class, broken, entered>>
  BY DEF OnWritten
<1>2. Waiting(n) /\ Sending(n) /\ OneInFlight(n) /\ Memory
  BY DEF InOrder
<1>3. /\ mWriteQueue \in Seq(Op) /\ Len(mWriteQueue) \in Nat /\ n \in Nat /\ Len(entered) \in Nat
      /\ Head(strand).kind = "done" /\ Head(strand) \in Task /\ Parts \in Nat
  BY <1>1, LengthsAreNat, LenProperties, HeadOfStrand, WritersAssumption
<1>4. ~IsRest(Head(strand))
  BY <1>1, <1>3 DEF IsRest, Task, Op
<1>5. /\ Tasks = Others \cup {Head(strand)} /\ Rests = RestsIn(Others)
  BY <1>1, <1>4, TasksOfHandler, RestsOfHandler DEF RestsIn
<1>6. class = "ws" => /\ socket = <<>> /\ RestsIn(Others) = {}
                      /\ \A u \in Others : u.kind = "write"
  BY <1>1, <1>2, <1>3, OneAlone
<1>7. CASE mWriteQueue = <<>>
  <2>1. mWriteQueue' = mWriteQueue /\ ~mIsSending' /\ UNCHANGED <<ioQueue, mWriteBuffer, socket, wire>>
    BY <1>1, <1>7 DEF AsyncWrite
  <2>2. Tasks' = Others /\ Rests' = Rests
    BY <1>1, <1>5, <2>1, TasksOfHandler, RestsOfHandler
  <2>3. Waiting(n)'
    BY <1>1, <1>2, <2>1, WaitingStays
  <2>4. Sending(n)'
    BY <1>1, <1>2, <1>3, <2>1, <2>2, SendingStays
  <2>5. Memory'
    BY <1>1, <1>2, <1>5, <2>1, <2>2, MemoryStays
  <2>6. OneInFlight(n)'
    BY <1>1, <1>6, <2>1, <2>2 DEF OneInFlight
  <2>7. QED
    BY <2>1, <2>3, <2>4, <2>5, <2>6 DEF Advances, InOrder
<1>8. CASE mWriteQueue # <<>>
  <2>1. class = "ws"
    BY <1>8 DEF Served
  <2> DEFINE op == Head(mWriteQueue)
  <2>2. /\ mWriteQueue' = Tail(mWriteQueue) /\ mIsSending'
        /\ mWriteBuffer' = IF class \in {"tcp", "ws"} THEN op.msg ELSE mWriteBuffer
        /\ Wait(op) \/ TakeAtOnce(op)
    BY <1>1, <1>8, <2>1 DEF AsyncWrite
  <2>3. /\ Len(mWriteQueue) \in Nat \ {0} /\ op = mWriteQueue[1] /\ op \in Op
        /\ Tail(mWriteQueue) \in Seq(Op) /\ Len(Tail(mWriteQueue)) = Len(mWriteQueue) - 1
        /\ \A i \in 1..Len(Tail(mWriteQueue)) : Tail(mWriteQueue)[i] = mWriteQueue[i + 1]
    BY <1>3, <1>8, EmptySeq, HeadTailProperties
  <2>4. /\ n + Len(mWriteQueue) \in 0..Len(entered)
        /\ \A i \in 1..Len(mWriteQueue) : mWriteQueue[i] = NewOp(entered[n + i])
    BY <1>2 DEF Waiting, Coming
  <2>5. n + 1 \in 1..Len(entered) /\ op = NewOp(entered[n + 1])
    BY <1>3, <2>3, <2>4
  <2> HIDE DEF op
  <2>6. Sending(n + 1)' /\ Memory' /\ (UNCHANGED wire \/ Fifo!Transmit)
    BY <1>1, <1>2, <1>3, <1>4, <1>6, <2>2, <2>3, <2>5, StartNext
  <2>7. Waiting(n + 1)'
    <3>1. PICK b : b = n + Len(mWriteQueue)
      OBVIOUS
    <3>2. Coming(b)'
      <4>1. Coming(b)
        BY <1>2, <3>1 DEF Waiting
      <4>2. QED
        BY <1>1, <4>1, ComingOther
    <3>3. (n + 1) + Len(mWriteQueue') = b
      BY <1>3, <2>2, <2>3, <3>1
    <3>4. Coming((n + 1) + Len(mWriteQueue))'
      BY <3>2, <3>3
    <3>5. \A i \in 1..Len(mWriteQueue') : mWriteQueue'[i] = NewOp(entered'[(n + 1) + i])
      <4>1. SUFFICES ASSUME NEW i \in 1..Len(Tail(mWriteQueue))
                     PROVE  Tail(mWriteQueue)[i] = NewOp(entered[(n + 1) + i])
        BY <1>1, <2>2
      <4>2. i + 1 \in 1..Len(mWriteQueue) /\ n + (i + 1) = (n + 1) + i
        BY <1>3, <2>3
      <4>3. QED
        BY <2>3, <2>4, <4>2
    <3>6. QED
      BY <1>3, <3>4, <3>5 DEF Waiting, NewOp
  <2>8. OneInFlight(n + 1)'
    <3>1. UNCHANGED ioQueue
      BY <2>1, <2>2 DEF Wait, TakeAtOnce
    <3>2. Tasks' = Others
      BY <1>1, <3>1, TasksOfHandler
    <3>3. QED
      BY <1>6, <2>1, <2>2, <3>2 DEF OneInFlight
  <2>9. n + 1 \in 0..Len(entered)
    BY <1>3, <2>5
  <2>10. QED
    BY <2>6, <2>7, <2>8, <2>9 DEF Advances, InOrder
<1>9. QED
  BY <1>7, <1>8

LEMMA OnWrittenInPartInOrder ==
  ASSUME WriterTypes, MessageInOnePlace, Served, ~loose, ~loose',
         NEW n \in 0..Len(entered), InOrder(n), OnWrittenInPart
  PROVE  Advances
<1> DEFINE op == Head(strand).op
<1>1. /\ InStrand("done") /\ op.next <= Parts /\ AsyncWrite(<<op>> \o mWriteQueue, FALSE)
      /\ UNCHANGED <<held, class, broken, entered>>
  BY DEF OnWrittenInPart, history
<1>2. Waiting(n) /\ Sending(n) /\ OneInFlight(n) /\ Memory
  BY DEF InOrder
<1>3. /\ mWriteQueue \in Seq(Op) /\ Head(strand).kind = "done" /\ op \in Op
      /\ class \in {"tcp", "ssl", "serial", "ws"}
  BY <1>1, LengthsAreNat, HeadOfStrand DEF WriterTypes
<1>4. IsRest(Head(strand))
  BY <1>1, <1>3 DEF IsRest
<1>5. RestsIn(Others) = {} /\ socket = <<>> /\ Head(strand) \in Rests
  BY <1>1, <1>2, <1>4, RestAlone
<1>6. class = "serial"
  BY <1>2, <1>3, <1>5 DEF Memory
<1>7. mWriteQueue = <<>>
  BY <1>6 DEF Served
<1>8. n > 0 /\ op.msg = entered[n] /\ Len(wire) = (n - 1) * Parts + op.next - 1
  BY <1>2, <1>5 DEF Sending
<1>9. \A u \in Others : u.kind # "resume"
  <2>1. Tasks = Others \cup {Head(strand)}
    BY <1>1, TasksOfHandler
  <2>2. QED
    BY <1>2, <1>5, <2>1 DEF Memory, RestsIn
<1> HIDE DEF op
<1>10. mWriteQueue' = <<>> /\ (Wait(op) \/ TakeAtOnce(op))
  <2>1. /\ <<op>> \o mWriteQueue # <<>> /\ Head(<<op>> \o mWriteQueue) = op
        /\ Tail(<<op>> \o mWriteQueue) = mWriteQueue
    BY <1>3, FrontOps
  <2> DEFINE queue == <<op>> \o mWriteQueue
  <2> HIDE DEF queue
  <2>2. queue # <<>> /\ Head(queue) = op /\ Tail(queue) = <<>> /\ AsyncWrite(queue, FALSE)
    BY <1>1, <1>7, <2>1 DEF queue
  <2>3. QED
    BY <2>2 DEF AsyncWrite
<1>11. TakeAtOnce(op)
  BY <1>6, <1>10 DEF Wait, Copied
<1>12. Sending(n)' /\ Memory' /\ Fifo!Transmit
  <2>1. n \in 1..Len(entered)
    BY <1>8
  <2>2. QED
    BY <1>1, <1>3, <1>5, <1>8, <1>9, <1>11, <2>1, TakenAtOnce
<1>13. Waiting(n)'
  BY <1>1, <1>2, <1>7, <1>10, WaitingStays
<1>14. OneInFlight(n)'
  BY <1>1, <1>6 DEF OneInFlight
<1>15. QED
  BY <1>12, <1>13, <1>14 DEF Advances, InOrder

LEMMA OnErrorInOrder ==
  ASSUME WriterTypes, NEW n \in 0..Len(entered), InOrder(n), OnError
  PROVE  Advances
<1>1. /\ InStrand("error") /\ UNCHANGED <<ioQueue, held, class, state, broken, entered>>
  BY DEF OnError
<1>2. Waiting(n) /\ Sending(n) /\ OneInFlight(n) /\ Memory
  BY DEF InOrder
<1>3. /\ Tasks = Others \cup {Head(strand)} /\ Tasks' = Others /\ Rests' = Rests
  <2>1. /\ Tasks = Others \cup {Head(strand)} /\ Tasks' = Others
        /\ Head(strand).kind = "error"
    BY <1>1, TasksOfHandler
  <2>2. Rests' = RestsIn(Others) /\ Rests = RestsIn(Others) \cup RestsIn({Head(strand)})
    BY <1>1, RestsOfHandler
  <2>3. RestsIn({Head(strand)}) = {}
    BY <2>1 DEF RestsIn, IsRest
  <2>4. QED
    BY <2>1, <2>2, <2>3
<1>4. Waiting(n)'
  BY <1>1, <1>2, WaitingStays DEF state
<1>5. Sending(n)'
  <2>1. n \in Nat
    BY LengthsAreNat
  <2>2. QED
    BY <1>1, <1>2, <1>3, <2>1, SendingStays DEF state
<1>6. Memory'
  BY <1>1, <1>2, <1>3, MemoryStays DEF state
<1>7. OneInFlight(n)'
  BY <1>1, <1>2, <1>3 DEF OneInFlight, state
<1>8. QED
  BY <1>1, <1>4, <1>5, <1>6, <1>7 DEF Advances, InOrder, state

LEMMA ResumeInOrder ==
  ASSUME WriterTypes, MessageInOnePlace, NEW n \in 0..Len(entered), InOrder(n), Resume
  PROVE  Advances
<1> DEFINE op == [Head(strand).op EXCEPT !.own = FALSE]
<1>1. /\ InStrand("resume") /\ socket' = Append(socket, op)
      /\ UNCHANGED <<ioQueue, held, class, mWriteQueue, mWriteBuffer, mIsSending, wire, entered>>
  BY DEF Resume, history
<1>2. Waiting(n) /\ Sending(n) /\ OneInFlight(n) /\ Memory
  BY DEF InOrder
<1>3. /\ op \in Op /\ op.msg = Head(strand).op.msg /\ op.next = Head(strand).op.next
      /\ Head(strand).kind = "resume" /\ class \in {"tcp", "ssl", "serial", "ws"}
  BY <1>1, HeadOfStrand, OwnOp DEF WriterTypes
<1>4. Tasks = Others \cup {Head(strand)} /\ Tasks' = Others /\ Rests' = RestsIn(Others)
  BY <1>1, TasksOfHandler, RestsOfHandler
<1>5. IsRest(Head(strand))
  BY <1>2, <1>3, <1>4 DEF Memory
<1>6. RestsIn(Others) = {} /\ socket = <<>> /\ Head(strand) \in Rests
  BY <1>1, <1>2, <1>5, RestAlone
<1>7. class \in {"tcp", "ws"} /\ mWriteBuffer = op.msg
  BY <1>2, <1>3, <1>6 DEF Memory
<1>8. n > 0 /\ op.msg = entered[n] /\ Len(wire) = (n - 1) * Parts + op.next - 1
  BY <1>2, <1>3, <1>6 DEF Sending
<1>9. \A u \in Tasks' : u.kind # "resume"
  BY <1>2, <1>4, <1>6 DEF Memory, RestsIn
<1> HIDE DEF op
<1>10. Sending(n)' /\ Memory'
  <2>1. n \in 1..Len(entered)
    BY <1>8
  <2>2. QED
    BY <1>1, <1>3, <1>4, <1>6, <1>7, <1>8, <1>9, <2>1, OneWaits
<1>11. Waiting(n)'
  BY <1>1, <1>2, WaitingStays
<1>12. OneInFlight(n)'
  BY <1>1, <1>2, <1>3, <1>4 DEF OneInFlight
<1>13. QED
  BY <1>1, <1>10, <1>11, <1>12 DEF Advances, InOrder

LEMMA TransmitInOrder ==
  ASSUME WriterTypes, ~loose, ~loose', NEW n \in 0..Len(entered), InOrder(n), Transmit
  PROVE  Advances
<1> DEFINE op == Head(socket)
           L == Len(socket)
<1>1. /\ socket # <<>> /\ ~broken /\ socket' = Tail(socket)
      /\ UNCHANGED <<held, strand, class, mWriteQueue, mWriteBuffer, mIsSending, broken, entered>>
  BY DEF Transmit, history
<1>2. Waiting(n) /\ Sending(n) /\ OneInFlight(n) /\ Memory
  BY DEF InOrder
<1>3. /\ socket \in Seq(Op) /\ op \in Op /\ op = socket[1] /\ L \in Nat \ {0}
      /\ Len(socket') = L - 1 /\ \A i \in 1..Len(socket') : socket'[i] = socket[i + 1]
      /\ n \in Nat /\ Len(entered) \in Nat /\ Parts \in Nat \ {0} /\ op.next \in 1..(Parts + 1)
      /\ class \in {"tcp", "ssl", "serial", "ws"} /\ op.msg \in Messages
  <2>1. socket \in Seq(Op) /\ Len(entered) \in Nat /\ Parts \in Nat \ {0} /\ n \in Nat
    BY LengthsAreNat, LenProperties, WritersAssumption
  <2>2. /\ op \in Op /\ op = socket[1] /\ L \in Nat \ {0} /\ Len(socket') = L - 1
        /\ \A i \in 1..Len(socket') : socket'[i] = socket[i + 1]
    BY <1>1, <2>1, HeadTailProperties, EmptySeq
  <2>3. op.next \in 1..(Parts + 1) /\ op.msg \in Messages
    BY <2>2 DEF Op
  <2>4. QED
    BY <2>1, <2>2, <2>3 DEF WriterTypes
<1>4. PICK c \in 1..(Parts - op.next + 1), what \in Contents(op) :
        /\ wire' = wire \o Sent(op, c, what)
        /\ Post([kind |-> IF op.next + c <= Parts /\ class # "serial" THEN "resume" ELSE "done",
                 op |-> [op EXCEPT !.next = @ + c]])
        /\ loose' = (loose \/ (class = "ssl" /\ op.next + c <= Parts))
  BY DEF Transmit
<1>5. class # "serial" /\ (class = "ssl" => op.next + c > Parts /\ op.next = 1 /\ op.own)
  <2>1. class # "serial"
    BY <1>1, <1>2 DEF Memory
  <2>2. class = "ssl" => ~(op.next + c <= Parts)
    BY <1>4
  <2>3. class = "ssl" => op.next = 1 /\ op.own
    BY <1>2, <1>3 DEF Memory
  <2>4. QED
    BY <1>3, <2>1, <2>2, <2>3
<1>6. what = op.msg
  BY <1>1, <1>2, <1>3, <1>4, <1>5 DEF Contents, Memory
<1> DEFINE t == [kind |-> IF op.next + c <= Parts THEN "resume" ELSE "done",
                 op |-> [op EXCEPT !.next = @ + c]]
<1>7. /\ t \in Task /\ Post(t) /\ t.op.msg = op.msg /\ t.op.next = op.next + c
      /\ t.kind \in {"resume", "done"} /\ (t.kind = "resume" <=> IsRest(t))
  <2>1. [op EXCEPT !.next = @ + c] \in Op /\ [op EXCEPT !.next = @ + c].next = op.next + c
        /\ [op EXCEPT !.next = @ + c].msg = op.msg
    BY <1>3, SentParts DEF Op
  <2>2. t \in Task /\ Post(t)
    BY <1>4, <1>5, <2>1, TaskOfOp
  <2>3. QED
    BY <2>1, <2>2 DEF IsRest
<1>8. /\ L <= n /\ op.msg = entered[(n - L) + 1] /\ (n - L) + 1 \in 1..Len(entered)
      /\ Len(wire) = (n - L) * Parts + op.next - 1 /\ Rests = {}
  <2>1. L <= n /\ Rests = {} /\ Len(wire) = (n - L) * Parts + op.next - 1
    BY <1>1, <1>2, <1>3 DEF Sending
  <2>2. op.msg = entered[(n - L) + 1]
    BY <1>2, <1>3 DEF Sending
  <2>3. QED
    BY <1>3, <2>1, <2>2
<1>9. Tasks' = Tasks \cup {t} /\ Rests' = RestsIn({t})
  BY <1>1, <1>7, <1>8, TasksOfPost, RestsOfPost
<1> HIDE DEF op, L, t
<1>10. Fifo!Transmit
  <2>1. PICK k \in 1..Len(entered) : k = (n - L) + 1
    BY <1>8
  <2>2. (k - 1) = n - L
    BY <1>3, <2>1
  <2>3. /\ Sent(op, c, op.msg) = [i \in 1..c |-> Fifo!PartAt(entered, Len(wire) + i)]
        /\ c \in 1..(Len(entered) * Parts - Len(wire))
    BY <1>3, <1>8, <2>1, <2>2, PartsInOrder
  <2>4. QED
    BY <1>1, <1>4, <1>6, <2>3 DEF Fifo!Transmit
<1>11. Len(wire') = (n - L) * Parts + (op.next + c) - 1
  <2>1. Sent(op, c, what) \in Seq(Part) /\ Len(Sent(op, c, what)) = c
    BY <1>3, <1>4, <1>6, SentParts
  <2>2. Len(wire') = Len(wire) + c
    BY <1>4, <2>1, ConcatProperties DEF WriterTypes
  <2>3. (n - L) * Parts \in Int /\ op.next \in Int /\ c \in Int
    BY <1>3
  <2>4. QED
    BY <1>8, <2>2, <2>3
<1>12. Waiting(n)'
  <2>1. Waiting(n)
    BY <1>2
  <2>2. QED
    BY <1>1, <2>1 DEF Waiting, Coming, NoneBefore, AllBehind, SameOrder, NewOp
<1>13. OneInFlight(n)'
  <2>1. ASSUME class = "ws" PROVE L = 1 /\ mIsSending /\ t.op.msg = entered[n] /\ n > 0
    <3>1. L = 1
      BY <1>2, <1>3, <2>1 DEF Memory, L
    <3>2. mIsSending
      BY <1>1, <1>2, <2>1 DEF OneInFlight
    <3>3. (n - L) + 1 = n /\ n > 0
      BY <1>3, <1>8, <3>1
    <3>4. QED
      BY <1>7, <1>8, <3>1, <3>2, <3>3
  <2>2. QED
    BY <1>1, <1>2, <1>9, <2>1 DEF OneInFlight
<1>14. CASE class \in {"tcp", "ws"}
  <2>1. L = 1 /\ mWriteBuffer = op.msg
    BY <1>1, <1>2, <1>3, <1>14 DEF Memory, L
  <2>2. socket' = <<>>
    <3>1. socket' \in Seq(Op) /\ Len(socket') = 0
      BY <1>1, <1>3, <2>1, HeadTailProperties
    <3>2. QED
      BY <3>1, EmptySeq
  <2>3. PICK k \in 1..Len(entered) : k = (n - L) + 1 /\ k = n /\ k - 1 = n - L
    BY <1>3, <1>8, <2>1
  <2>4. Sending(k)'
    BY <1>1, <1>7, <1>8, <1>9, <1>11, <2>2, <2>3, PartLeft
  <2>5. Memory'
    <3>1. \A u \in Tasks' : u.kind = "resume" => IsRest(u)
      BY <1>2, <1>7, <1>9 DEF Memory
    <3>2. \A u \in Rests' : u.kind = "resume" /\ u.op.msg = mWriteBuffer
      <4>1. \A u \in Rests' : u = t /\ IsRest(u)
        BY <1>9 DEF RestsIn
      <4>2. QED
        BY <1>7, <2>1, <4>1
    <3>3. Len(socket') = 0 /\ class' = class /\ mWriteBuffer' = mWriteBuffer /\ IsFiniteSet({})
      BY <1>1, <2>2, FS_EmptySet
    <3>4. (\A u \in Tasks : u.kind = "resume" => IsRest(u))'
      BY <3>1 DEF IsRest
    <3>5. (class \in {"tcp", "ws"} =>
             /\ Len(socket) <= 1
             /\ socket # <<>> => mWriteBuffer = socket[1].msg
             /\ \A u \in Rests : u.kind = "resume" /\ mWriteBuffer = u.op.msg)'
      BY <2>2, <3>2, <3>3
    <3>6. class' # "ssl" /\ class' # "serial"
      BY <1>14, <3>3
    <3>7. QED
      BY <3>4, <3>5, <3>6 DEF Memory
  <2>6. QED
    BY <1>10, <1>12, <1>13, <2>3, <2>4, <2>5 DEF Advances, InOrder
<1>15. CASE class = "ssl"
  <2>1. op.next + c = Parts + 1 /\ Rests' = {} /\ ~IsRest(t)
    <3>1. op.next + c = Parts + 1
      <4>1. op.next + c > Parts
        BY <1>5, <1>15
      <4>2. op.next \in Nat /\ Parts \in Nat /\ c \in 1..(Parts - op.next + 1)
        BY <1>3, <1>4
      <4>3. QED
        BY <4>1, <4>2
    <3>2. ~IsRest(t)
      BY <1>3, <1>7, <3>1 DEF IsRest
    <3>3. QED
      BY <1>9, <3>1, <3>2 DEF RestsIn
  <2>2. Len(wire') = (n - (L - 1)) * Parts
    <3>1. (n - L) * Parts + Parts = (n - (L - 1)) * Parts /\ (n - L) * Parts \in Int
      BY <1>3
    <3>2. (op.next + c) - 1 = Parts
      <4>1. Parts \in Nat
        BY <1>3
      <4>2. QED
        BY <2>1, <4>1
    <3>3. QED
      BY <1>11, <3>1, <3>2, <1>3
  <2>3. \A i \in 1..Len(socket') : socket'[i].own /\ socket'[i].next = 1
    <3>1. \A i \in 1..Len(socket') : i + 1 \in 1..L /\ socket'[i] = socket[i + 1]
      BY <1>3
    <3>2. \A i \in 1..L : socket[i].own /\ socket[i].next = 1
      BY <1>2, <1>15 DEF Memory, L
    <3>3. SUFFICES ASSUME NEW i \in 1..Len(socket')
                   PROVE  socket'[i].own /\ socket'[i].next = 1
      OBVIOUS
    <3>4. socket[i + 1].own /\ socket[i + 1].next = 1
      BY <3>1, <3>2
    <3>5. QED
      BY <3>1, <3>4
  <2>4. Sending(n)'
    <3>1. Len(socket') <= n
      BY <1>3, <1>8
    <3>2. \A i \in 1..Len(socket') : socket'[i].msg = entered'[(n - Len(socket')) + i]
      <4>1. SUFFICES ASSUME NEW i \in 1..Len(socket')
                     PROVE  socket[i + 1].msg = entered[(n - Len(socket')) + i]
        BY <1>1, <1>3
      <4>2. i + 1 \in 1..L /\ (n - Len(socket')) + i = (n - L) + (i + 1)
        BY <1>3
      <4>3. socket[i + 1].msg = entered[(n - L) + (i + 1)]
        BY <1>2, <4>2 DEF Sending, L
      <4>4. QED
        BY <4>2, <4>3
    <3>3. \A i \in 2..Len(socket') : socket'[i].next = 1
      BY <1>3, <2>3
    <3>4. socket' # <<>> => Len(wire') = (n - Len(socket')) * Parts + socket'[1].next - 1
      <4>1. ASSUME socket' # <<>> PROVE socket'[1].next = 1
        <5>1. Len(socket') # 0
          BY <1>1, <1>3, <4>1, HeadTailProperties, EmptySeq
        <5>2. 1 \in 1..Len(socket')
          BY <1>3, <5>1
        <5>3. QED
          BY <2>3, <5>2
      <4>2. (n - Len(socket')) * Parts \in Int
        BY <1>3
      <4>3. QED
        BY <1>3, <2>2, <4>1, <4>2
    <3>5. socket' = <<>> => Len(wire') = n * Parts
      <4>1. ASSUME socket' = <<>> PROVE n - (L - 1) = n
        <5>1. L - 1 = 0
          BY <1>3, <4>1, EmptySeq
        <5>2. QED
          BY <1>3, <5>1
      <4>2. QED
        BY <2>2, <4>1
    <3>6. QED
      BY <2>1, <3>1, <3>2, <3>3, <3>4, <3>5 DEF Sending
  <2>5. Memory'
    <3>1. \A u \in Tasks' : u.kind = "resume" => IsRest(u)
      BY <1>2, <1>7, <1>9 DEF Memory
    <3>2. QED
      BY <1>1, <1>15, <2>1, <2>3, <3>1 DEF Memory, IsRest
  <2>6. QED
    BY <1>10, <1>12, <1>13, <2>4, <2>5 DEF Advances, InOrder
<1>16. QED
  BY <1>3, <1>5, <1>14, <1>15

LEMMA WriteInOrder ==
  ASSUME WriterTypes, NEW n \in 0..Len(entered), InOrder(n), Write
  PROVE  Advances
<1> DEFINE t == [kind |-> "write", op |-> NewOp(written + 1)]
<1>1. Post(t) /\ UNCHANGED <<held, strand, class, state, broken, entered>>
  BY DEF Write
<1>2. t \in Task /\ t.kind = "write"
  <2>1. MaxWrites \in Nat /\ Parts \in Nat \ {0} /\ written \in Nat
    BY LengthsAreNat, WritersAssumption
  <2>2. NewOp(written + 1) \in Op
    BY <2>1 DEF Write, NewOp, Op, Messages
  <2>3. QED
    BY <2>2, TaskOfOp
<1> HIDE DEF t
<1>3. Tasks' = Tasks \cup {t} /\ Rests' = Rests
  <2>1. RestsIn({t}) = {}
    BY <1>2 DEF RestsIn, IsRest
  <2>2. Tasks' = Tasks \cup {t} /\ Rests' = Rests \cup RestsIn({t})
    BY <1>1, <1>2, TasksOfPost, RestsOfPost
  <2>3. QED
    BY <2>1, <2>2
<1>4. Waiting(n) /\ Sending(n) /\ OneInFlight(n) /\ Memory
  BY DEF InOrder
<1>5. Waiting(n)'
  BY <1>1, <1>4 DEF Waiting, Coming, NoneBefore, AllBehind, SameOrder, NewOp, state
<1>6. Sending(n)'
  <2>1. n \in Nat
    BY LengthsAreNat
  <2>2. QED
    BY <1>1, <1>3, <1>4, <2>1, SendingStays DEF state
<1>7. Memory'
  BY <1>1, <1>2, <1>3, <1>4, MemoryStays DEF state
<1>8. OneInFlight(n)'
  BY <1>1, <1>2, <1>3, <1>4 DEF OneInFlight, state
<1>9. QED
  BY <1>1, <1>5, <1>6, <1>7, <1>8 DEF Advances, InOrder, state

LEMMA DispatchInOrder ==
  ASSUME WriterTypes, EnteredOnce, NEW n \in 0..Len(entered), InOrder(n), Dispatch
  PROVE  Advances
<1>1. UNCHANGED <<class, state, broken>>
  BY DEF Dispatch
<1>2. Waiting(n) /\ Sending(n) /\ OneInFlight(n) /\ Memory
  BY DEF InOrder
<1>3. Tasks' = Tasks /\ Rests' = Rests
  <2>1. Tasks' = Tasks
    BY TasksOfTake, TasksOfEnter DEF Dispatch
  <2>2. QED
    BY <2>1 DEF Rests, IsRest
<1>4. /\ Waiting(n)' /\ Len(entered) <= Len(entered') /\ Len(entered') \in Nat
      /\ \A k \in 1..Len(entered) : entered'[k] = entered[k]
  <2>1. CASE UNCHANGED <<strand, entered>>
    <3>1. Waiting(n)'
      BY <1>1, <1>2, <2>1 DEF Waiting, Coming, NoneBefore, AllBehind, SameOrder, NewOp, state
    <3>2. Len(entered) \in Nat
      BY LengthsAreNat
    <3>3. QED
      BY <2>1, <3>1, <3>2
  <2>2. ASSUME NEW t \in held, Enter(t),
               entered' = IF t.kind = "write" THEN Append(entered, t.op.msg) ELSE entered
        PROVE  /\ Waiting(n)' /\ Len(entered) <= Len(entered') /\ Len(entered') \in Nat
               /\ \A k \in 1..Len(entered) : entered'[k] = entered[k]
    <3>1. PICK b : b = n + Len(mWriteQueue)
      OBVIOUS
    <3>2. Coming(b)
      BY <1>2, <3>1 DEF Waiting
    <3>3. /\ Coming(b)' /\ Len(entered) <= Len(entered') /\ Len(entered') \in Nat
          /\ \A k \in 1..Len(entered) : entered'[k] = entered[k]
      BY <2>2, <3>2, ComingEnter
    <3>4. mWriteQueue' = mWriteQueue /\ Len(mWriteQueue) \in Nat /\ n \in Nat /\ Len(entered) \in Nat
      BY <1>1, LengthsAreNat DEF state
    <3>5. \A i \in 1..Len(mWriteQueue) : n + i \in 1..Len(entered)
      BY <3>1, <3>2, <3>4 DEF Coming
    <3>6. \A i \in 1..Len(mWriteQueue) : mWriteQueue[i] = NewOp(entered[n + i])
      BY <1>2 DEF Waiting
    <3>7. \A i \in 1..Len(mWriteQueue) : mWriteQueue[i] = NewOp(entered'[n + i])
      BY <3>3, <3>5, <3>6
    <3>8. QED
      BY <3>1, <3>3, <3>4, <3>7 DEF Waiting, NewOp
  <2>3. QED
    BY <2>1, <2>2 DEF Dispatch, Take
<1>5. n \in Nat /\ n \in 0..Len(entered') /\ \A k \in 1..n : entered'[k] = entered[k]
  BY <1>4, LengthsAreNat
<1>6. Sending(n)'
  BY <1>1, <1>2, <1>3, <1>5, SendingStays DEF state
<1>7. Memory'
  BY <1>1, <1>2, <1>3, MemoryStays DEF state
<1>8. OneInFlight(n)'
  <2>1. n > 0 => entered'[n] = entered[n]
    BY <1>5
  <2>2. QED
    BY <1>1, <1>2, <1>3, <2>1 DEF OneInFlight, state
<1>9. QED
  BY <1>1, <1>4, <1>5, <1>6, <1>7, <1>8 DEF Advances, InOrder, state

(* What was given up stays given up, and a connection that failed stays so.  *)
LEMMA GivenUpForGood ==
  ASSUME WriterTypes, [Next]_vars
  PROVE  (loose => loose') /\ (broken => broken')
<1>1. ASSUME NEW queue, NEW sending, AsyncWrite(queue, sending), loose PROVE loose'
  BY <1>1 DEF AsyncWrite, Wait, TakeAtOnce
<1>2. ASSUME loose PROVE loose'
  BY <1>1, <1>2 DEF Next, Write, Dispatch, Handler, QueueMessage, OnWritten, OnWrittenInPart, OnError, Resume,
       Network, Transmit, Abort, Fail, vars, state
<1>3. ASSUME broken PROVE broken'
  BY <1>3 DEF Next, Write, Dispatch, Handler, QueueMessage, OnWritten, OnWrittenInPart, OnError, Resume,
       Network, Transmit, Abort, Fail, vars
<1>4. QED
  BY <1>2, <1>3

LEMMA OrderedStep ==
  ASSUME WriterTypes, MessageInOnePlace, Served, EnteredOnce, Ordered, [Next]_vars, ~loose', ~broken'
  PROVE  Advances
<1>1. ~loose /\ ~broken
  BY GivenUpForGood
<1>2. PICK n \in 0..Len(entered) : InOrder(n)
  BY <1>1 DEF Ordered
<1>3. CASE Write
  BY <1>2, <1>3, WriteInOrder
<1>4. CASE Dispatch
  BY <1>2, <1>4, DispatchInOrder
<1>5. CASE Handler
  BY <1>1, <1>2, <1>5, QueueMessageInOrder, OnWrittenInOrder, OnWrittenInPartInOrder, OnErrorInOrder,
     ResumeInOrder DEF Handler
<1>6. CASE Network
  BY <1>1, <1>2, <1>6, TransmitInOrder DEF Network, Abort
<1>7. CASE Fail
  BY <1>7 DEF Fail
<1>8. CASE UNCHANGED vars
  <2>1. UNCHANGED <<ioQueue, held, strand, class, mWriteQueue, mWriteBuffer, mIsSending, socket, wire, entered>>
    BY <1>8 DEF vars, io, state, history
  <2>2. Tasks' = Tasks /\ Rests' = Rests
    BY <2>1 DEF Tasks, Elements, Rests, IsRest
  <2>3. InOrder(n)'
    <3>1. Waiting(n) /\ Sending(n) /\ OneInFlight(n) /\ Memory /\ n \in Nat
      BY <1>2, LengthsAreNat DEF InOrder
    <3>2. Waiting(n)'
      BY <2>1, <3>1 DEF Waiting, Coming, NoneBefore, AllBehind, SameOrder, NewOp
    <3>3. Sending(n)' /\ Memory'
      BY <2>1, <2>2, <3>1, SendingStays, MemoryStays
    <3>4. OneInFlight(n)'
      BY <2>1, <2>2, <3>1 DEF OneInFlight
    <3>5. QED
      BY <3>2, <3>3, <3>4 DEF InOrder
  <2>4. QED
    BY <2>1, <2>3 DEF Advances
<1>9. QED
  BY <1>3, <1>4, <1>5, <1>6, <1>7, <1>8 DEF Next

(* The inductive invariant.                                                  *)
IInv == WriterTypes /\ MessageInOnePlace /\ Accounted /\ Served /\ EnteredOnce /\ Ordered

LEMMA InitIInv == Init => IInv
<1> SUFFICES ASSUME Init PROVE IInv
  OBVIOUS
<1>1. WriterTypes /\ MessageInOnePlace /\ Accounted
  BY InitTypes
<1>2. /\ ioQueue = <<>> /\ held = {} /\ strand = <<>> /\ entered = <<>> /\ mWriteQueue = <<>>
      /\ socket = <<>> /\ wire = <<>> /\ ~mIsSending
      /\ Len(ioQueue) = 0 /\ Len(strand) = 0 /\ Len(entered) = 0 /\ Len(mWriteQueue) = 0
      /\ Len(socket) = 0 /\ Len(wire) = 0
  BY EmptySeq DEF Init, IoInit
<1>3. Tasks = {} /\ Rests = {}
  <2>1. Tasks = {}
    BY <1>2 DEF Tasks, Elements
  <2>2. QED
    BY <2>1 DEF Rests
<1>4. Served
  BY <1>2 DEF Served
<1>5. EnteredOnce
  BY <1>2, <1>3 DEF EnteredOnce, Tasks
<1>6. InOrder(0)
  <2>1. Waiting(0)
    BY <1>2 DEF Waiting, Coming, NoneBefore, AllBehind, SameOrder
  <2>2. Sending(0)
    <3>1. Parts \in Nat
      BY WritersAssumption
    <3>2. QED
      BY <1>2, <1>3, <3>1 DEF Sending
  <2>3. OneInFlight(0)
    BY <1>2, <1>3 DEF OneInFlight
  <2>4. Memory
    BY <1>2, <1>3 DEF Memory
  <2>5. QED
    BY <2>1, <2>2, <2>3, <2>4 DEF InOrder
<1>7. Ordered
  BY <1>2, <1>6 DEF Ordered
<1>8. QED
  BY <1>1, <1>4, <1>5, <1>7 DEF IInv

LEMMA IInvStep == IInv /\ [Next]_vars => IInv'
<1> SUFFICES ASSUME IInv, [Next]_vars PROVE IInv'
  OBVIOUS
<1>1. WriterTypes /\ MessageInOnePlace /\ Accounted /\ Served /\ EnteredOnce /\ Ordered
  BY DEF IInv
<1>2. WriterTypes' /\ MessageInOnePlace' /\ Accounted' /\ Served' /\ EnteredOnce'
  BY <1>1, TypesStep, PlacesStep, ServedStep, EnteredOnceStep
<1>3. Ordered'
  <2>1. SUFFICES ASSUME ~loose', ~broken' PROVE \E n \in 0..Len(entered') : InOrder(n)'
    BY DEF Ordered
  <2>2. PICK n \in 0..Len(entered) : InOrder(n)'
    BY <1>1, <2>1, OrderedStep DEF Advances
  <2>3. n \in 0..Len(entered')
    <3>1. n \in Nat /\ Len(mWriteQueue') \in Nat /\ Len(entered') \in Nat
      BY <1>2, LengthsAreNat, LenProperties DEF WriterTypes
    <3>2. n + Len(mWriteQueue') \in 0..Len(entered')
      BY <2>2 DEF InOrder, Waiting, Coming
    <3>3. QED
      BY <3>1, <3>2
  <2>4. QED
    BY <2>2, <2>3
<1>4. QED
  BY <1>2, <1>3 DEF IInv

-----------------------------------------------------------------------------
(* A connection that failed sends nothing more, whatever its handlers do.    *)
LEMMA BrokenIsSilent ==
  ASSUME broken, [Next]_vars
  PROVE  UNCHANGED wire
<1>1. ASSUME NEW queue, NEW sending, AsyncWrite(queue, sending) PROVE UNCHANGED wire
  BY <1>1 DEF AsyncWrite, Wait, TakeAtOnce
<1>2. QED
  BY <1>1 DEF Next, Write, Dispatch, Handler, QueueMessage, OnWritten, OnWrittenInPart, OnError, Resume,
       Network, Transmit, Abort, Fail, vars, state

(* While the order has not been given up, every step is one of FifoWriter:   *)
(* the entering of a write, a transmission, the failure, or none.            *)
LEMMA FifoStep ==
  ASSUME IInv, [Next]_vars
  PROVE  [Fifo!Next]_(Fifo!vars)
<1>1. WriterTypes /\ MessageInOnePlace /\ Served /\ EnteredOnce /\ Ordered
  BY DEF IInv
<1>2. CASE loose'
  BY <1>2 DEF Fifo!Next, Fifo!Loosen
<1>3. CASE ~loose'
  <2>1. CASE Fail
    BY <2>1 DEF Fail, Fifo!Next, Fifo!Break, state, history
  <2>2. CASE Dispatch
    <3>1. UNCHANGED <<wire, broken>>
      BY <2>2 DEF Dispatch, state
    <3>2. entered' = entered \/ \E m \in Messages : entered' = Append(entered, m)
      <4>1. \A task \in held : task.op.msg \in Messages
        BY <1>1 DEF WriterTypes, Task, Op
      <4>2. QED
        BY <2>2, <4>1 DEF Dispatch
    <3>3. QED
      BY <3>1, <3>2 DEF Fifo!Next, Fifo!Write, Fifo!vars
  <2>3. CASE Write \/ Handler \/ Network \/ UNCHANGED vars
    <3>1. UNCHANGED <<entered, broken>>
      BY <2>3 DEF Write, Handler, QueueMessage, OnWritten, OnWrittenInPart, OnError, Resume,
           Network, Transmit, Abort, vars, history
    <3>2. UNCHANGED wire \/ Fifo!Transmit
      <4>1. CASE broken
        BY <4>1, BrokenIsSilent
      <4>2. CASE ~broken
        BY <1>1, <1>3, <3>1, <4>2, OrderedStep DEF Advances
      <4>3. QED
        BY <4>1, <4>2
    <3>3. QED
      BY <3>1, <3>2 DEF Fifo!Next, Fifo!vars
  <2>4. QED
    BY <2>1, <2>2, <2>3 DEF Next
<1>4. QED
  BY <1>2, <1>3

(* Every connection implements FifoWriter, for all numbers of threads, of    *)
(* writes and of parts: what it puts on the wire is the messages, whole and  *)
(* in the order in which they entered the strand, until the order is given   *)
(* up or the connection fails.                                               *)
THEOREM WriterIsFifo == Spec => Fifo!SafeSpec
<1>1. Init => Fifo!Init
  BY DEF Init, Fifo!Init
<1>2. IInv /\ [Next]_vars => [Fifo!Next]_(Fifo!vars)
  BY FifoStep
<1>3. QED
  BY InitIInv, IInvStep, <1>1, <1>2, PTL DEF Spec, Fifo!SafeSpec

(* What is on the wire belongs to messages that entered the strand.          *)
Carried == Len(wire) <= Len(entered) * Parts /\ WireIsOrdered

LEMMA CarriedStep ==
  ASSUME IInv, [Next]_vars, Carried, ~loose'
  PROVE  Carried'
<1>1. /\ entered \in Seq(Messages) /\ wire \in Seq(Part) /\ Len(entered) \in Nat /\ Len(wire) \in Nat
      /\ Parts \in Nat \ {0}
  BY LenProperties, WritersAssumption DEF IInv, WriterTypes
<1>2. [Fifo!Next]_(Fifo!vars)
  BY FifoStep
<1>3. CASE UNCHANGED <<wire, entered>>
  BY <1>3 DEF Carried, WireIsOrdered, Fifo!PartAt
<1>4. CASE Fifo!Write
  <2>1. PICK m \in Messages : entered' = Append(entered, m) /\ wire' = wire
    BY <1>4 DEF Fifo!Write
  <2>2. Len(entered') = Len(entered) + 1 /\ \A k \in 1..Len(entered) : entered'[k] = entered[k]
    BY <1>1, <2>1, AppendProperties
  <2> DEFINE all == Len(entered) * Parts
  <2>3. Len(entered') * Parts = all + Parts /\ all \in Nat
    <3>1. \A x, y \in Nat : (x + 1) * y = x * y + y /\ x * y \in Nat
      OBVIOUS
    <3>2. QED
      BY <1>1, <2>2, <3>1
  <2>4. ASSUME NEW i \in 1..Len(wire) PROVE wire'[i] = Fifo!PartAt(entered, i)'
    <3> DEFINE q == (i - 1) \div Parts
    <3>1. q \in Nat /\ q * Parts <= i - 1
      BY <1>1
    <3>2. q < Len(entered)
      <4>1. q * Parts < all
        BY <1>1, <2>3, <3>1 DEF Carried
      <4>2. SUFFICES ASSUME q >= Len(entered) PROVE FALSE
        BY <1>1, <3>1
      <4> HIDE DEF q
      <4>3. (q - Len(entered)) * Parts \in Nat
        <5>1. \A x \in Nat : x * Parts \in Nat
          BY <1>1
        <5>2. q - Len(entered) \in Nat
          BY <1>1, <3>1, <4>2
        <5>3. QED
          BY <5>1, <5>2
      <4>4. q * Parts = (q - Len(entered)) * Parts + all
        BY <1>1, <3>1
      <4> DEFINE x == q * Parts
                 y == (q - Len(entered)) * Parts
      <4>5. x < all /\ y \in Nat /\ x = y + all
        BY <4>1, <4>3, <4>4
      <4> HIDE DEF x, y, all
      <4>6. QED
        BY <2>3, <4>5
    <3>3. q + 1 \in 1..Len(entered)
      BY <1>1, <3>1, <3>2
    <3>4. wire[i] = Fifo!PartAt(entered, i)
      BY DEF Carried, WireIsOrdered
    <3>5. entered'[q + 1] = entered[q + 1]
      BY <2>2, <3>3
    <3>6. QED
      BY <2>1, <3>4, <3>5 DEF Fifo!PartAt
  <2> HIDE DEF all
  <2>5. Len(wire') <= all + Parts
    BY <1>1, <2>1, <2>3 DEF Carried, all
  <2>6. QED
    BY <2>1, <2>3, <2>4, <2>5 DEF Carried, WireIsOrdered
<1>5. CASE Fifo!Transmit
  <2>1. PICK n \in 1..(Len(entered) * Parts - Len(wire)) :
          wire' = wire \o [i \in 1..n |-> Fifo!PartAt(entered, Len(wire) + i)]
    BY <1>5 DEF Fifo!Transmit
  <2>2. entered' = entered
    BY <1>5 DEF Fifo!Transmit
  <2> DEFINE new == [i \in 1..n |-> Fifo!PartAt(entered, Len(wire) + i)]
             all == Len(entered) * Parts
  <2>3. n \in Nat /\ all \in Nat /\ n <= all - Len(wire)
    BY <1>1
  <2>4. new \in Seq({Fifo!PartAt(entered, Len(wire) + i) : i \in 1..n}) /\ Len(new) = n
    <3> DEFINE T == {Fifo!PartAt(entered, Len(wire) + i) : i \in 1..n}
    <3>1. \A i \in 1..n : Fifo!PartAt(entered, Len(wire) + i) \in T
      OBVIOUS
    <3> HIDE DEF T
    <3>2. new \in Seq(T) /\ Len(new) = n
      BY <2>3, <3>1
    <3>3. QED
      BY <3>2 DEF T
  <2>5. /\ Len(wire') = Len(wire) + n
        /\ \A i \in 1..Len(wire') : wire'[i] = IF i <= Len(wire) THEN wire[i] ELSE new[i - Len(wire)]
    BY <1>1, <2>1, <2>3, <2>4, SMT
  <2>6. ASSUME NEW i \in 1..Len(wire') PROVE wire'[i] = Fifo!PartAt(entered, i)
    <3>1. CASE i <= Len(wire)
      <4>1. i \in 1..Len(wire) /\ wire'[i] = wire[i]
        <5>1. i \in Nat /\ i >= 1 /\ wire'[i] = IF i <= Len(wire) THEN wire[i] ELSE new[i - Len(wire)]
          <6>1. Len(wire') \in Nat
            BY <1>1, <2>3, <2>5
          <6>2. QED
            BY <2>5, <6>1
        <5> HIDE DEF new
        <5>2. QED
          BY <1>1, <3>1, <5>1
      <4>2. QED
        BY <4>1 DEF Carried, WireIsOrdered
    <3>2. CASE i > Len(wire)
      <4>1. i - Len(wire) \in 1..n /\ Len(wire) + (i - Len(wire)) = i
        BY <1>1, <2>3, <2>5, <3>2
      <4>2. wire'[i] = new[i - Len(wire)]
        BY <1>1, <2>3, <2>5, <3>2
      <4>3. new[i - Len(wire)] = Fifo!PartAt(entered, Len(wire) + (i - Len(wire)))
        BY <4>1
      <4>4. QED
        BY <4>1, <4>2, <4>3
    <3>3. QED
      BY <1>1, <2>3, <2>5, <3>1, <3>2
  <2> HIDE DEF all
  <2>7. Len(wire') <= all
    BY <1>1, <2>3, <2>5
  <2>8. QED
    BY <2>2, <2>6, <2>7 DEF Carried, WireIsOrdered, Fifo!PartAt, all
<1>6. CASE Fifo!Break
  BY <1>3, <1>6 DEF Fifo!Break
<1>7. QED
  BY <1>2, <1>3, <1>4, <1>5, <1>6 DEF Fifo!Next, Fifo!Loosen, Fifo!vars

(* The wire carries the messages whole and in the order in which they        *)
(* entered the strand, for as long as the order has not been given up: what  *)
(* a tcp session breaks is broken by overlapping writes and by nothing else. *)
THEOREM OrderedUntilLoose == Spec => [](loose \/ WireIsOrdered)
<1>1. Init => loose \/ Carried
  <2>1. SUFFICES ASSUME Init PROVE Carried
    OBVIOUS
  <2>2. wire = <<>> /\ entered = <<>> /\ Len(wire) = 0 /\ Len(entered) = 0 /\ Parts \in Nat
    BY <2>1, EmptySeq, WritersAssumption DEF Init
  <2>3. QED
    BY <2>2 DEF Carried, WireIsOrdered
<1>2. IInv /\ (loose \/ Carried) /\ [Next]_vars => (loose \/ Carried)'
  BY CarriedStep, GivenUpForGood DEF IInv
<1>3. loose \/ Carried => loose \/ WireIsOrdered
  BY DEF Carried
<1>4. QED
  BY InitIInv, IInvStep, <1>1, <1>2, <1>3, PTL DEF Spec
=============================================================================
