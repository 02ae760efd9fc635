---------------------------- MODULE SignalProofs ----------------------------
(* What is proved of Signal for every set of threads, signals and slots.    *)
EXTENDS Signal, SequenceTheorems, WellFoundedInduction, TLAPS

(* What one call frame looks like when it is entered.                       *)
LEMMA EnterType == \A c \in Call : Enter(c) \in Frame
BY DEF Enter, Frame

(* A connect call names a slot the program connects to that signal.         *)
LEMMA CallType ==
  ASSUME NEW c \in Call
  PROVE  /\ c.sig \in Signals
         /\ c.op = "connect" => c.slot \in SlotsOf[c.sig] /\ c.slot \in Slots
BY ConstantsAssumption DEF Call

(* A slot reached by an emission makes no call, or a call of the program.   *)
LEMMA BodyType == \A slot \in Slots : Body[slot] # NoCall => Body[slot] \in Call
BY ConstantsAssumption

(* The innermost frame of a thread that is inside a call.                   *)
LEMMA TopType ==
  ASSUME TypeOK, NEW t \in Threads, stack[t] # <<>>
  PROVE  /\ Depth(t) \in Nat \ {0} /\ Top(t) \in Frame /\ Wanted(t) \in Signals
         /\ stack[t] \in Seq(Frame)
<1>1. stack[t] \in Seq(Frame) /\ Depth(t) \in Nat \ {0}
  BY DEF TypeOK, Depth
<1>2. Top(t) \in Frame
  BY <1>1 DEF Depth, Top
<1>3. Wanted(t) \in Signals
  BY <1>2 DEF Wanted, Frame, Call
<1> QED
  BY <1>1, <1>2, <1>3

LEMMA TypeStep ==
  ASSUME TypeOK, [Next]_vars
  PROVE  TypeOK'
<1>1. CASE UNCHANGED vars
  BY <1>1 DEF vars, TypeOK
<1>2. ASSUME NEW t \in Threads, Start(t) PROVE TypeOK'
  BY <1>2, EnterType DEF Start, TypeOK
<1>3. ASSUME NEW t \in Threads, Lock(t) PROVE TypeOK'
  <2>1. stack[t] # <<>>
    BY <1>3 DEF Lock, Waiting, Depth, TypeOK
  <2>2. [Top(t) EXCEPT !.locked = TRUE] \in Frame
    BY <2>1, TopType DEF Frame
  <2>3. stack'[t] \in Seq(Frame)
    BY <1>3, <2>1, <2>2, TopType DEF Lock, TypeOK, Depth, Top
  <2> QED
    BY <1>3, <2>1, <2>3, TopType DEF Lock, TypeOK
<1>4. ASSUME NEW t \in Threads, Connect(t) PROVE TypeOK'
  <2>1. stack[t] # <<>>
    BY <1>4 DEF Connect, Running, Depth, TypeOK
  <2>2. Top(t).call.slot \in Slots
    BY <1>4, <2>1, TopType, CallType DEF Connect, Running, Frame
  <2>3. SubSeq(stack[t], 1, Len(stack[t]) - 1) \in Seq(Frame)
    BY <2>1, TopType DEF Depth
  <2> QED
    BY <1>4, <2>1, <2>2, <2>3, TopType DEF Connect, Unlock, TypeOK
<1>5. ASSUME NEW t \in Threads, CallSlot(t) PROVE TypeOK'
  <2>1. stack[t] # <<>>
    BY <1>5 DEF CallSlot, Running, Depth, TypeOK
  <2> DEFINE emission == [stack[t] EXCEPT ![Depth(t)].ran = @ + 1]
             slot == mSlots[Wanted(t)][Top(t).ran + 1]
  <2>2. [Top(t) EXCEPT !.ran = @ + 1] \in Frame
    BY <2>1, TopType DEF Frame
  <2>3. emission \in Seq(Frame)
    BY <2>1, <2>2, TopType DEF Depth, Top
  <2>4. slot \in Slots
    <3>1. mSlots[Wanted(t)] \in Seq(Slots) /\ Top(t).ran \in Nat
      BY <2>1, TopType DEF TypeOK, Frame
    <3>2. Top(t).ran + 1 \in 1..Len(mSlots[Wanted(t)])
      BY <1>5, <3>1 DEF CallSlot
    <3> QED
      BY <3>1, <3>2
  <2>5. Body[slot] # NoCall => Append(emission, Enter(Body[slot])) \in Seq(Frame)
    BY <2>3, <2>4, BodyType, EnterType
  <2> QED
    BY <1>5, <2>3, <2>5 DEF CallSlot, TypeOK
<1>6. ASSUME NEW t \in Threads, EndEmit(t) \/ GetConnectedSlotCount(t) PROVE TypeOK'
  <2>1. stack[t] # <<>>
    BY <1>6 DEF EndEmit, GetConnectedSlotCount, Running, Depth, TypeOK
  <2>3. SubSeq(stack[t], 1, Len(stack[t]) - 1) \in Seq(Frame)
    BY <2>1, TopType DEF Depth
  <2> QED
    BY <1>6, <2>1, <2>3, TopType DEF EndEmit, GetConnectedSlotCount, Unlock, TypeOK
<1> QED
  BY <1>1, <1>2, <1>3, <1>4, <1>5, <1>6 DEF Next, Step

(* The type invariant of the signals (mutex owners, slot lists and call     *)
(* stacks keep their types), for all constants.                             *)
THEOREM TypeCorrect == Spec => []TypeOK
<1>1. Init => TypeOK
  BY ConstantsAssumption DEF Init, TypeOK
<1>2. TypeOK /\ [Next]_vars => TypeOK'
  BY TypeStep
<1> QED
  BY <1>1, <1>2, PTL DEF Spec

-----------------------------------------------------------------------------
(* The effect of each kind of step on the stack of the thread that takes it. *)
Others(t) == \A u \in Threads \ {t} : stack'[u] = stack[u]

(* Replacing one element of a sequence keeps its type, its length and the   *)
(* other elements: what a step does to the top frame of a stack.            *)
LEMMA ReplaceOne ==
  ASSUME NEW S, NEW seq \in Seq(S), NEW n \in 1..Len(seq), NEW e \in S
  PROVE  /\ [seq EXCEPT ![n] = e] \in Seq(S) /\ Len([seq EXCEPT ![n] = e]) = Len(seq)
         /\ \A i \in 1..Len(seq) : [seq EXCEPT ![n] = e][i] = IF i = n THEN e ELSE seq[i]
OBVIOUS

LEMMA StartEffect ==
  ASSUME TypeOK, NEW t \in Threads, Start(t)
  PROVE  /\ Others(t) /\ stack[t] = <<>>
         /\ \E c \in Call : stack'[t] = <<Enter(c)>>
BY DEF TypeOK, Start, Others

LEMMA LockEffect ==
  ASSUME TypeOK, NEW t \in Threads, Lock(t)
  PROVE  /\ Others(t) /\ stack[t] # <<>>
         /\ Depth(t)' = Depth(t)
         /\ \A i \in 1..Depth(t) :
              /\ stack'[t][i].call = stack[t][i].call
              /\ stack'[t][i].locked <=> (i = Depth(t) \/ stack[t][i].locked)
<1>1. stack[t] # <<>>
  BY DEF Lock, Waiting, Depth, TypeOK
<1>2. stack'[t] = [stack[t] EXCEPT ![Depth(t)] = [Top(t) EXCEPT !.locked = TRUE]]
  BY DEF Lock, TypeOK, Depth, Top
<1>3. Top(t) \in Frame /\ stack[t] \in Seq(Frame) /\ Depth(t) \in Nat \ {0}
  BY <1>1, TopType
<1>4. [Top(t) EXCEPT !.locked = TRUE].call = Top(t).call /\ [Top(t) EXCEPT !.locked = TRUE].locked
  BY <1>3 DEF Frame
<1>5. \A i \in 1..Depth(t) : stack[t][i] \in Frame
  BY <1>3 DEF Depth
<1>6. /\ Len(stack'[t]) = Len(stack[t])
      /\ \A i \in 1..Depth(t) : stack'[t][i] = IF i = Depth(t) THEN [Top(t) EXCEPT !.locked = TRUE]
                                                               ELSE stack[t][i]
  BY <1>2, <1>3, <1>5 DEF Depth
<1>7. Others(t)
  BY DEF Lock, TypeOK, Others
<1>8. Depth(t)' = Depth(t)
  BY <1>6 DEF Depth
<1>9. \A i \in 1..Depth(t) : /\ stack'[t][i].call = stack[t][i].call
                             /\ stack'[t][i].locked <=> (i = Depth(t) \/ stack[t][i].locked)
  BY <1>3, <1>4, <1>6 DEF Top
<1> QED
  BY <1>1, <1>7, <1>8, <1>9

LEMMA UnlockEffect ==
  ASSUME TypeOK, NEW t \in Threads, stack[t] # <<>>, Unlock(t)
  PROVE  /\ Others(t)
         /\ Depth(t)' = Depth(t) - 1
         /\ \A i \in 1..(Depth(t) - 1) : stack'[t][i] = stack[t][i]
<1>1. stack[t] \in Seq(Frame) /\ Depth(t) \in Nat \ {0}
  BY TopType
<1>2. stack'[t] = SubSeq(stack[t], 1, Depth(t) - 1)
  BY DEF Unlock, TypeOK, Depth
<1>3. Others(t)
  BY DEF Unlock, TypeOK, Others
<1>4. /\ Len(stack'[t]) = Depth(t) - 1
      /\ \A i \in 1..(Depth(t) - 1) : stack'[t][i] = stack[t][i]
  BY <1>1, <1>2 DEF Depth
<1> QED
  BY <1>3, <1>4 DEF Depth

LEMMA CallSlotEffect ==
  ASSUME TypeOK, NEW t \in Threads, CallSlot(t)
  PROVE  /\ Others(t) /\ stack[t] # <<>> /\ Top(t).locked
         /\ \A i \in 1..Depth(t) : /\ stack'[t][i].call = stack[t][i].call
                                   /\ stack'[t][i].locked = stack[t][i].locked
         /\ \/ Depth(t)' = Depth(t)
            \/ /\ Depth(t)' = Depth(t) + 1
               /\ \E n \in 1..Len(mSlots[Wanted(t)]) :
                    /\ Body[mSlots[Wanted(t)][n]] # NoCall
                    /\ stack'[t][Depth(t) + 1] = Enter(Body[mSlots[Wanted(t)][n]])
<1>1. stack[t] # <<>> /\ Top(t).locked
  BY DEF CallSlot, Running, Depth, TypeOK
<1> DEFINE frame == [Top(t) EXCEPT !.ran = @ + 1]
           emission == [stack[t] EXCEPT ![Depth(t)].ran = @ + 1]
           n == Top(t).ran + 1
<1>2. Top(t) \in Frame /\ stack[t] \in Seq(Frame) /\ Depth(t) \in Nat \ {0}
  BY <1>1, TopType
<1>3. frame \in Frame /\ frame.call = Top(t).call /\ frame.locked = Top(t).locked
  BY <1>2 DEF Frame
<1>4. emission = [stack[t] EXCEPT ![Depth(t)] = frame]
  BY DEF Top
<1>5. /\ emission \in Seq(Frame) /\ Len(emission) = Depth(t)
      /\ \A i \in 1..Depth(t) : emission[i] = IF i = Depth(t) THEN frame ELSE stack[t][i]
  <2> HIDE DEF frame, emission
  <2>1. stack[t] \in Seq(Frame) /\ Depth(t) \in 1..Len(stack[t])
    BY <1>2 DEF Depth
  <2> QED
    BY <1>3, <1>4, <2>1, ReplaceOne DEF Depth
<1>6. \A i \in 1..Depth(t) : /\ emission[i].call = stack[t][i].call
                             /\ emission[i].locked = stack[t][i].locked
  BY <1>2, <1>3, <1>5 DEF Top
<1>7. n \in 1..Len(mSlots[Wanted(t)]) /\ mSlots[Wanted(t)][n] \in Slots
  <2>1. mSlots[Wanted(t)] \in Seq(Slots) /\ Top(t).ran \in Nat
    BY <1>1, <1>2, TopType DEF TypeOK, Frame
  <2>2. n \in 1..Len(mSlots[Wanted(t)])
    BY <2>1 DEF CallSlot
  <2> QED
    BY <2>1, <2>2
<1>8. stack'[t] = IF Body[mSlots[Wanted(t)][n]] = NoCall THEN emission
                  ELSE Append(emission, Enter(Body[mSlots[Wanted(t)][n]]))
  BY DEF CallSlot, TypeOK
<1>9. Others(t)
  BY DEF CallSlot, TypeOK, Others
<1>10. CASE Body[mSlots[Wanted(t)][n]] = NoCall
  BY <1>1, <1>5, <1>6, <1>8, <1>9, <1>10 DEF Depth
<1>11. CASE Body[mSlots[Wanted(t)][n]] # NoCall
  <2>1. Enter(Body[mSlots[Wanted(t)][n]]) \in Frame
    BY <1>7, <1>11, BodyType, EnterType
  <2>2. /\ Len(stack'[t]) = Depth(t) + 1
        /\ stack'[t][Depth(t) + 1] = Enter(Body[mSlots[Wanted(t)][n]])
        /\ \A i \in 1..Depth(t) : stack'[t][i] = emission[i]
    BY <1>2, <1>5, <1>8, <1>11, <2>1
  <2> QED
    BY <1>1, <1>6, <1>7, <1>9, <1>11, <2>2 DEF Depth
<1> QED
  BY <1>10, <1>11

-----------------------------------------------------------------------------
(* The inductive invariant: a thread that waits holds only signals ranked    *)
(* above the one it waits for, and the owners of the mutexes are the threads *)
(* whose calls are under way.                                                *)
IInv(rank) == TypeOK /\ LockMatchesCalls /\ CallsDescend(rank)

(* Popping the innermost call releases exactly its mutex.                    *)
LEMMA UnlockKeepsIInv ==
  ASSUME NEW rank, Nested(rank), IInv(rank), TypeOK', NEW t \in Threads, stack[t] # <<>>,
         Top(t).locked, Unlock(t),
         \A s \in Signals : \A i \in 1..Len(mSlots'[s]) : mSlots'[s][i] \in SlotsOf[s]
  PROVE  IInv(rank)'
<1> USE DEF IInv
<1>1. stack[t] \in Seq(Frame) /\ Depth(t) \in Nat \ {0} /\ Wanted(t) \in Signals
  BY TopType
<1>2. /\ Others(t)
      /\ Depth(t)' = Depth(t) - 1
      /\ \A i \in 1..(Depth(t) - 1) : stack'[t][i] = stack[t][i]
  BY UnlockEffect
<1>3. \A u \in Threads \ {t} : Depth(u)' = Depth(u)
  BY <1>2 DEF Others, Depth
<1>4. mMutex' = [mMutex EXCEPT ![Wanted(t)] = Nobody]
  BY DEF Unlock
<1>5. LockMatchesCalls'
  <2> SUFFICES ASSUME NEW u \in Threads, NEW s \in Signals
               PROVE  mMutex'[s] = u <=> Holds(u, s)'
    BY DEF LockMatchesCalls
  <2>1. CASE u # t
    <3>1. Holds(u, s)' <=> Holds(u, s)
      BY <1>2, <1>3, <2>1 DEF Holds, Others
    <3>2. mMutex'[s] = u <=> mMutex[s] = u
      <4>1. CASE s = Wanted(t)
        <5>1. Holds(t, Wanted(t))
          BY <1>1 DEF Holds, Wanted, Top
        <5> QED
          BY <1>1, <1>4, <2>1, <4>1, <5>1, ConstantsAssumption DEF LockMatchesCalls, TypeOK
      <4>2. CASE s # Wanted(t)
        BY <1>1, <1>4, <4>2 DEF TypeOK
      <4> QED
        BY <4>1, <4>2
    <3> QED
      BY <3>1, <3>2 DEF LockMatchesCalls
  <2>2. CASE u = t
    <3>1. Holds(t, s)' <=> \E i \in 1..(Depth(t) - 1) :
                             stack[t][i].locked /\ stack[t][i].call.sig = s
      BY <1>2 DEF Holds
    <3>2. CASE s = Wanted(t)
      <4>1. \A i \in 1..(Depth(t) - 1) : rank[Wanted(t)] < rank[stack[t][i].call.sig]
        BY <1>1 DEF CallsDescend, Wanted, Top
      <4>2. ~ Holds(t, s)'
        BY <1>1, <3>1, <3>2, <4>1 DEF Nested
      <4> QED
        BY <1>1, <1>4, <2>2, <3>2, <4>2, ConstantsAssumption DEF TypeOK
    <3>3. CASE s # Wanted(t)
      <4>1. Holds(t, s)' <=> Holds(t, s)
        BY <1>1, <3>1, <3>3 DEF Holds, Wanted, Top
      <4> QED
        BY <1>1, <1>4, <2>2, <3>3, <4>1 DEF LockMatchesCalls, TypeOK
    <3> QED
      BY <3>2, <3>3
  <2> QED
    BY <2>1, <2>2
<1>6. CallsDescend(rank)'
  <2> SUFFICES ASSUME NEW u \in Threads, NEW i \in 1..Depth(u)'
               PROVE  /\ i < Depth(u)' => stack'[u][i].locked
                      /\ \A j \in 1..Depth(u)' :
                           i < j => rank[stack'[u][j].call.sig] < rank[stack'[u][i].call.sig]
    BY DEF CallsDescend
  <2>1. CASE u # t
    BY <1>2, <1>3, <2>1 DEF CallsDescend, Others
  <2>2. CASE u = t
    <3>1. i \in 1..(Depth(t) - 1) /\ stack'[t][i] = stack[t][i] /\ stack[t][i].locked
      BY <1>1, <1>2, <2>2 DEF CallsDescend
    <3>2. ASSUME NEW j \in 1..Depth(t)', i < j
          PROVE  rank[stack'[t][j].call.sig] < rank[stack'[t][i].call.sig]
      <4>1. j \in 1..(Depth(t) - 1) /\ i \in 1..Depth(t) /\ j \in 1..Depth(t)
        BY <1>1, <1>2, <3>1
      <4>2. stack'[t][j] = stack[t][j]
        BY <1>2, <4>1
      <4> QED
        BY <3>1, <3>2, <4>1, <4>2 DEF CallsDescend
    <3> QED
      BY <2>2, <3>1, <3>2
  <2> QED
    BY <2>1, <2>2
<1> QED
  BY <1>5, <1>6

LEMMA LockKeepsIInv ==
  ASSUME NEW rank, Nested(rank), IInv(rank), TypeOK', NEW t \in Threads, Lock(t)
  PROVE  IInv(rank)'
<1> USE DEF IInv
<1>1. /\ Others(t) /\ stack[t] # <<>> /\ Depth(t)' = Depth(t)
      /\ \A i \in 1..Depth(t) : /\ stack'[t][i].call = stack[t][i].call
                                /\ stack'[t][i].locked <=> (i = Depth(t) \/ stack[t][i].locked)
  BY LockEffect
<1>2. stack[t] \in Seq(Frame) /\ Depth(t) \in Nat \ {0} /\ Wanted(t) \in Signals
  BY <1>1, TopType
<1>3. \A u \in Threads \ {t} : stack'[u] = stack[u] /\ Depth(u)' = Depth(u)
  BY <1>1 DEF Others, Depth
<1>4. mMutex' = [mMutex EXCEPT ![Wanted(t)] = t] /\ mMutex[Wanted(t)] = Nobody /\ mSlots' = mSlots
  BY DEF Lock
<1>5. LockMatchesCalls'
  <2> SUFFICES ASSUME NEW u \in Threads, NEW s \in Signals
               PROVE  mMutex'[s] = u <=> Holds(u, s)'
    BY DEF LockMatchesCalls
  <2>1. CASE u # t
    <3>1. Holds(u, s)' <=> Holds(u, s)
      BY <1>3, <2>1 DEF Holds
    <3> QED
      BY <1>2, <1>4, <2>1, <3>1, ConstantsAssumption DEF LockMatchesCalls, TypeOK
  <2>2. CASE u = t
    <3>1. Holds(t, s)' <=> \E i \in 1..Depth(t) : /\ i = Depth(t) \/ stack[t][i].locked
                                                  /\ stack[t][i].call.sig = s
      BY <1>1 DEF Holds
    <3>2. Holds(t, s)' <=> (s = Wanted(t) \/ Holds(t, s))
      BY <1>2, <3>1 DEF Holds, Wanted, Top
    <3> QED
      BY <1>2, <1>4, <2>2, <3>2 DEF LockMatchesCalls, TypeOK
  <2> QED
    BY <2>1, <2>2
<1>6. CallsDescend(rank)'
  <2> SUFFICES ASSUME NEW u \in Threads, NEW i \in 1..Depth(u)'
               PROVE  /\ i < Depth(u)' => stack'[u][i].locked
                      /\ \A j \in 1..Depth(u)' :
                           i < j => rank[stack'[u][j].call.sig] < rank[stack'[u][i].call.sig]
    BY <1>4 DEF CallsDescend
  <2>1. CASE u # t
    BY <1>3, <2>1 DEF CallsDescend
  <2>2. CASE u = t
    BY <1>1, <1>2, <2>2 DEF CallsDescend
  <2> QED
    BY <2>1, <2>2
<1> QED
  BY <1>5, <1>6

LEMMA CallSlotKeepsIInv ==
  ASSUME NEW rank, Nested(rank), IInv(rank), TypeOK', NEW t \in Threads, CallSlot(t)
  PROVE  IInv(rank)'
<1> USE DEF IInv
<1>1. /\ Others(t) /\ stack[t] # <<>> /\ Top(t).locked
      /\ \A i \in 1..Depth(t) : /\ stack'[t][i].call = stack[t][i].call
                                /\ stack'[t][i].locked = stack[t][i].locked
  BY CallSlotEffect
<1>2. stack[t] \in Seq(Frame) /\ Depth(t) \in Nat \ {0} /\ Wanted(t) \in Signals
  BY <1>1, TopType
<1>3. \A u \in Threads \ {t} : stack'[u] = stack[u] /\ Depth(u)' = Depth(u)
  BY <1>1 DEF Others, Depth
<1>4. mMutex' = mMutex /\ mSlots' = mSlots
  BY DEF CallSlot
<1>5. \A u \in Threads \ {t}, s \in Signals : Holds(u, s)' <=> Holds(u, s)
  BY <1>3 DEF Holds
<1>6. \A u \in Threads \ {t} : \A i \in 1..Depth(u)' :
        /\ i < Depth(u)' => stack'[u][i].locked
        /\ \A j \in 1..Depth(u)' :
             i < j => rank[stack'[u][j].call.sig] < rank[stack'[u][i].call.sig]
  BY <1>3 DEF CallsDescend
<1>7. CASE Depth(t)' = Depth(t)
  <2>1. \A s \in Signals : Holds(t, s)' <=> Holds(t, s)
    BY <1>1, <1>7 DEF Holds
  <2>2. LockMatchesCalls'
    BY <1>4, <1>5, <2>1 DEF LockMatchesCalls
  <2>3. CallsDescend(rank)'
    BY <1>1, <1>4, <1>6, <1>7 DEF CallsDescend
  <2> QED
    BY <2>2, <2>3
<1>8. ASSUME Depth(t)' = Depth(t) + 1,
             NEW n \in 1..Len(mSlots[Wanted(t)]),
             Body[mSlots[Wanted(t)][n]] # NoCall,
             stack'[t][Depth(t) + 1] = Enter(Body[mSlots[Wanted(t)][n]])
      PROVE  IInv(rank)'
  <2> DEFINE inner == Body[mSlots[Wanted(t)][n]]
             new == stack'[t][Depth(t) + 1]
  <2>1. ~ new.locked /\ new.call.sig = inner.sig
    BY <1>8 DEF Enter
  <2>2. mSlots[Wanted(t)][n] \in SlotsOf[Wanted(t)]
    BY <1>2, <1>8 DEF CallsDescend
  <2>3. rank[inner.sig] < rank[Wanted(t)]
    BY <1>2, <1>8, <2>2 DEF Nested
  <2>4. ASSUME NEW s \in Signals PROVE Holds(t, s)' <=> Holds(t, s)
    <3>1. Holds(t, s)' <=> \E i \in 1..(Depth(t) + 1) :
                             stack'[t][i].locked /\ stack'[t][i].call.sig = s
      BY <1>8 DEF Holds
    <3>2. Holds(t, s)' <=> \E i \in 1..Depth(t) :
                             stack'[t][i].locked /\ stack'[t][i].call.sig = s
      <4> HIDE DEF new, inner
      <4> QED
        BY <1>2, <2>1, <3>1 DEF new
    <3> QED
      BY <1>1, <3>2 DEF Holds
  <2>5. LockMatchesCalls'
    BY <1>4, <1>5, <2>4 DEF LockMatchesCalls
  <2>6. inner.sig \in Signals /\ \A i \in 1..Depth(t) : stack[t][i].call.sig \in Signals
    <3>1. mSlots[Wanted(t)][n] \in Slots
      BY <1>2, <1>8 DEF TypeOK
    <3>2. \A i \in 1..Depth(t) : stack[t][i] \in Frame
      BY <1>2 DEF Depth
    <3> QED
      BY <1>8, <3>1, <3>2, BodyType, CallType DEF Frame
  <2>7. \A i \in 1..Depth(t) : rank[inner.sig] < rank[stack[t][i].call.sig]
    <3>1. \A i \in 1..Depth(t) : i < Depth(t) => rank[Wanted(t)] < rank[stack[t][i].call.sig]
      BY <1>2 DEF CallsDescend, Wanted, Top
    <3>2. rank[inner.sig] \in Nat /\ rank[Wanted(t)] \in Nat
          /\ \A i \in 1..Depth(t) : rank[stack[t][i].call.sig] \in Nat
      BY <1>2, <2>6 DEF Nested
    <3>3. rank[Wanted(t)] = rank[stack[t][Depth(t)].call.sig]
      BY DEF Wanted, Top
    <3> HIDE DEF inner
    <3> QED
      BY <1>2, <2>3, <3>1, <3>2, <3>3
  <2>8. \A i \in 1..Depth(t) : stack'[t][i].locked
    BY <1>1, <1>2 DEF CallsDescend, Top
  <2>9. \A i \in 1..Depth(t)' : \A j \in 1..Depth(t)' :
          i < j => rank[stack'[t][j].call.sig] < rank[stack'[t][i].call.sig]
    <3> SUFFICES ASSUME NEW i \in 1..(Depth(t) + 1), NEW j \in 1..(Depth(t) + 1), i < j
                 PROVE  rank[stack'[t][j].call.sig] < rank[stack'[t][i].call.sig]
      BY <1>8
    <3>1. CASE j = Depth(t) + 1
      <4>1. i \in 1..Depth(t) /\ stack'[t][i].call = stack[t][i].call
        BY <1>1, <1>2, <3>1
      <4>2. stack'[t][j].call.sig = inner.sig
        BY <2>1, <3>1
      <4> HIDE DEF inner, new
      <4> QED
        BY <2>7, <4>1, <4>2
    <3>2. CASE j # Depth(t) + 1
      <4>1. i \in 1..Depth(t) /\ j \in 1..Depth(t)
        BY <1>2, <3>2
      <4>2. stack'[t][i].call = stack[t][i].call /\ stack'[t][j].call = stack[t][j].call
        BY <1>1, <4>1
      <4>3. rank[stack[t][j].call.sig] < rank[stack[t][i].call.sig]
        BY <4>1 DEF CallsDescend
      <4> QED
        BY <4>2, <4>3
    <3> QED
      BY <3>1, <3>2
  <2>10. ASSUME NEW u \in Threads, NEW i \in 1..Depth(u)'
         PROVE  /\ i < Depth(u)' => stack'[u][i].locked
                /\ \A j \in 1..Depth(u)' :
                     i < j => rank[stack'[u][j].call.sig] < rank[stack'[u][i].call.sig]
    <3>1. CASE u # t
      BY <1>6, <2>10, <3>1
    <3>2. CASE u = t
      <4>1. i < Depth(t)' => i \in 1..Depth(t)
        BY <1>2, <1>8, <2>10, <3>2
      <4> QED
        BY <2>8, <2>9, <2>10, <3>2, <4>1
    <3> QED
      BY <3>1, <3>2
  <2>11. CallsDescend(rank)'
    BY <1>4, <2>10 DEF CallsDescend
  <2> QED
    BY <2>5, <2>11
<1> QED
  BY <1>7, <1>8, CallSlotEffect

LEMMA StartKeepsIInv ==
  ASSUME NEW rank, Nested(rank), IInv(rank), TypeOK', NEW t \in Threads, Start(t)
  PROVE  IInv(rank)'
<1> USE DEF IInv
<1>1. Others(t) /\ Depth(t) = 0
  BY StartEffect DEF Depth
<1>2. PICK c \in Call : stack'[t] = <<Enter(c)>>
  BY StartEffect
<1>3. Depth(t)' = 1 /\ ~ stack'[t][1].locked
  BY <1>2 DEF Depth, Enter
<1>4. \A u \in Threads \ {t} : stack'[u] = stack[u] /\ Depth(u)' = Depth(u)
  BY <1>1 DEF Others, Depth
<1>5. mMutex' = mMutex /\ mSlots' = mSlots
  BY DEF Start
<1>6. \A u \in Threads, s \in Signals : Holds(u, s)' <=> Holds(u, s)
  BY <1>1, <1>3, <1>4 DEF Holds
<1>7. LockMatchesCalls'
  BY <1>5, <1>6 DEF LockMatchesCalls
<1>8. CallsDescend(rank)'
  BY <1>3, <1>4, <1>5 DEF CallsDescend
<1> QED
  BY <1>7, <1>8

LEMMA IInvInductive ==
  ASSUME NEW rank, Nested(rank), IInv(rank), [Next]_vars
  PROVE  IInv(rank)'
<1>1. TypeOK'
  BY TypeStep DEF IInv
<1>2. CASE UNCHANGED vars
  BY <1>2, <1>1 DEF vars, IInv, LockMatchesCalls, Holds, CallsDescend, Depth
<1>3. ASSUME NEW t \in Threads, Start(t) PROVE IInv(rank)'
  BY <1>1, <1>3, StartKeepsIInv
<1>4. ASSUME NEW t \in Threads, Lock(t) PROVE IInv(rank)'
  BY <1>1, <1>4, LockKeepsIInv
<1>5. ASSUME NEW t \in Threads, CallSlot(t) PROVE IInv(rank)'
  BY <1>1, <1>5, CallSlotKeepsIInv
<1>6. ASSUME NEW t \in Threads, Connect(t) PROVE IInv(rank)'
  <2>1. stack[t] # <<>> /\ Top(t).locked /\ Unlock(t)
    BY <1>6 DEF Connect, Running, Depth, IInv, TypeOK
  <2>2. Wanted(t) \in Signals /\ Top(t).call.slot \in SlotsOf[Wanted(t)]
    BY <1>6, <2>1, TopType, CallType DEF Connect, Running, Frame, Wanted, IInv
  <2>3. \A s \in Signals : \A i \in 1..Len(mSlots'[s]) : mSlots'[s][i] \in SlotsOf[s]
    BY <1>6, <2>2 DEF Connect, IInv, TypeOK, CallsDescend
  <2> QED
    BY <1>1, <2>1, <2>3, UnlockKeepsIInv
<1>7. ASSUME NEW t \in Threads, EndEmit(t) \/ GetConnectedSlotCount(t) PROVE IInv(rank)'
  <2>1. stack[t] # <<>> /\ Top(t).locked /\ Unlock(t) /\ mSlots' = mSlots
    BY <1>7 DEF EndEmit, GetConnectedSlotCount, Running, Depth, IInv, TypeOK
  <2> QED
    BY <1>1, <2>1, UnlockKeepsIInv DEF IInv, CallsDescend
<1> QED
  BY <1>2, <1>3, <1>4, <1>5, <1>6, <1>7 DEF Next, Step

LEMMA InitIInv ==
  ASSUME NEW rank, Init
  PROVE  IInv(rank)
<1>1. TypeOK
  BY ConstantsAssumption DEF Init, TypeOK
<1>2. \A t \in Threads : Depth(t) = 0
  BY DEF Init, Depth
<1> QED
  BY <1>1, <1>2, ConstantsAssumption DEF Init, IInv, LockMatchesCalls, Holds, CallsDescend

(* Each mutex is owned by exactly the thread whose call on the signal is     *)
(* under way, if slots only call signals below their own (Signal.hpp:47-52). *)
THEOREM LocksMatch ==
  ASSUME NEW rank, Nested(rank)
  PROVE  Spec => [](LockMatchesCalls /\ CallsDescend(rank))
<1>1. Init => IInv(rank)
  BY InitIInv
<1>2. IInv(rank) /\ [Next]_vars => IInv(rank)'
  BY IInvInductive
<1>3. IInv(rank) => LockMatchesCalls /\ CallsDescend(rank)
  BY DEF IInv
<1> QED
  BY <1>1, <1>2, <1>3, PTL DEF Spec

-----------------------------------------------------------------------------
(* Of the threads of a circular wait, the one that waits for the signal of   *)
(* least rank would wait for a thread that waits for a lower one.            *)
LEMMA IInvNoCircularWait ==
  ASSUME NEW rank, Nested(rank), IInv(rank)
  PROVE  NoCircularWait
<1> SUFFICES ASSUME NEW W \in SUBSET Threads, W # {}, CircularWait(W) PROVE FALSE
  BY DEF NoCircularWait
<1>1. \A t \in W : stack[t] # <<>> /\ Wanted(t) \in Signals /\ rank[Wanted(t)] \in Nat
  <2> TAKE t \in W
  <2>1. stack[t] # <<>>
    BY DEF CircularWait, Waiting, Depth, IInv, TypeOK
  <2> QED
    BY <2>1, TopType DEF IInv, Nested
<1> DEFINE ranks == {rank[Wanted(t)] : t \in W}
<1>2. ranks \subseteq Nat /\ ranks # {}
  BY <1>1
<1>3. PICK low \in ranks : \A m \in ranks : ~ (m < low)
  <2>1. PICK x \in ranks : \A y \in ranks : ~ (<<y, x>> \in OpToRel(<, Nat))
    <3> HIDE DEF ranks
    <3> QED
      BY <1>2, NatLessThanWellFounded, WFMin
  <2> QED
    BY <1>2, <2>1 DEF OpToRel
<1>4. PICK t \in W : rank[Wanted(t)] = low
  BY <1>3
<1> DEFINE u == mMutex[Wanted(t)]
<1>5. u \in W
  BY DEF CircularWait
<1>6. PICK i \in 1..Depth(u) : stack[u][i].locked /\ stack[u][i].call.sig = Wanted(t)
  BY <1>1, <1>5 DEF IInv, LockMatchesCalls, Holds
<1>7. i < Depth(u)
  <2>1. ~ stack[u][Depth(u)].locked /\ Depth(u) \in Nat
    BY <1>1, <1>5, TopType DEF CircularWait, Waiting, Top, IInv
  <2> QED
    BY <1>6, <2>1
<1>8. Depth(u) \in 1..Depth(u)
  BY <1>1, <1>5, TopType DEF IInv
<1>9. rank[Wanted(u)] < rank[Wanted(t)]
  BY <1>5, <1>6, <1>7, <1>8 DEF IInv, CallsDescend, Wanted, Top
<1> QED
  BY <1>3, <1>4, <1>5, <1>9

(* No set of threads blocks itself on the mutexes of signals, however many   *)
(* threads and signals there are, if slots only call signals below their own *)
(* in some ranking (Signal.hpp:47-52 holds the mutex while slots run).       *)
THEOREM NoCircularWaitHolds ==
  ASSUME NEW rank, Nested(rank)
  PROVE  Spec => []NoCircularWait
<1>1. Init => IInv(rank)
  BY InitIInv
<1>2. IInv(rank) /\ [Next]_vars => IInv(rank)'
  BY IInvInductive
<1>3. IInv(rank) => NoCircularWait
  BY IInvNoCircularWait
<1> QED
  BY <1>1, <1>2, <1>3, PTL DEF Spec

(* A connect that runs while another emission of the signal is under way     *)
(* would need the mutex the emission holds.                                  *)
LEMMA IInvSlotsStable ==
  ASSUME NEW rank, Nested(rank), IInv(rank), [Next]_vars,
         NEW t \in Threads, NEW i \in 1..Depth(t),
         stack[t][i].locked, stack[t][i].call.op = "emit"
  PROVE  mSlots'[stack[t][i].call.sig] = mSlots[stack[t][i].call.sig]
<1> DEFINE sig == stack[t][i].call.sig
<1>1. CASE UNCHANGED vars
  BY <1>1 DEF vars
<1>2. ASSUME NEW u \in Threads, Start(u) \/ Lock(u) \/ CallSlot(u) \/ EndEmit(u) \/ GetConnectedSlotCount(u)
      PROVE  mSlots'[sig] = mSlots[sig]
  BY <1>2 DEF Start, Lock, CallSlot, EndEmit, GetConnectedSlotCount
<1>3. ASSUME NEW u \in Threads, Connect(u)
      PROVE  mSlots'[sig] = mSlots[sig]
  <2>1. stack[u] # <<>> /\ Top(u).locked /\ Top(u).call.op = "connect"
    BY <1>3 DEF Connect, Running, Depth, IInv, TypeOK
  <2>2. Depth(u) \in Nat \ {0} /\ Wanted(u) \in Signals
    BY <2>1, TopType DEF IInv
  <2>3. sig # Wanted(u)
    <3> SUFFICES ASSUME sig = Wanted(u) PROVE FALSE
      OBVIOUS
    <3>1. mMutex[Wanted(u)] = u
      BY <2>1, <2>2 DEF IInv, LockMatchesCalls, Holds, Wanted, Top
    <3>2. mMutex[Wanted(u)] = t
      BY <2>2 DEF IInv, LockMatchesCalls, Holds
    <3>3. i # Depth(u)
      BY <2>1, <3>1, <3>2 DEF Top
    <3>4. rank[stack[t][Depth(t)].call.sig] < rank[stack[t][i].call.sig]
      BY <2>2, <3>1, <3>2, <3>3 DEF IInv, CallsDescend
    <3> QED
      BY <2>2, <3>1, <3>2, <3>4 DEF Wanted, Top, Nested
  <2> QED
    BY <1>3, <2>2, <2>3 DEF Connect, IInv, TypeOK
<1> QED
  BY <1>1, <1>2, <1>3 DEF Next, Step

(* The vector an emission iterates over is not changed while any slot of the *)
(* emission runs (Signal.hpp:38, 49), for every number of threads.           *)
THEOREM SlotsStable ==
  ASSUME NEW rank, Nested(rank)
  PROVE  Spec => SlotsStableWhileEmitting
<1>1. Init => IInv(rank)
  BY InitIInv
<1>2. IInv(rank) /\ [Next]_vars => IInv(rank)'
  BY IInvInductive
<1>3. IInv(rank) /\ [Next]_vars
        => [\A t \in Threads : \A i \in 1..Depth(t) :
              stack[t][i].locked /\ stack[t][i].call.op = "emit"
                => mSlots'[stack[t][i].call.sig] = mSlots[stack[t][i].call.sig]]_vars
  BY IInvSlotsStable
<1> QED
  BY <1>1, <1>2, <1>3, PTL DEF Spec, SlotsStableWhileEmitting
=============================================================================
