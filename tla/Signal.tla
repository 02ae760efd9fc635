------------------------------- MODULE Signal -------------------------------
(***************************************************************************)
(* dl::Signal (Utility/Signal/Signal.hpp): a list of slots guarded by one   *)
(* non-recursive std::mutex, which an emission holds while it runs every    *)
(* slot.  A slot is user code and may itself connect to, or emit, another   *)
(* signal: tcp::Client forwards a session's signals to its own this way     *)
(* (Tcp/Tcp/Client.hpp:177-182).  The module models a set of signals and    *)
(* the threads that use them, each with a stack of calls in progress, so    *)
(* that the nesting of the mutexes is part of the state.                    *)
(***************************************************************************)
EXTENDS Naturals, Sequences, FiniteSets

CONSTANTS
  Threads,       \* the threads that call into signals (IO, callback, user threads)
  Signals,       \* the signal objects
  Slots,         \* the callables that are connected
  SlotsOf,       \* SlotsOf[s]: the slots the program may connect to signal s
  Body,          \* Body[slot]: the signal call the slot makes, or NoCall
  NoSlot,        \* the slot of a call that connects nothing
  NoCall,        \* a slot that uses no signal
  Nobody,        \* owner of a free mutex
  MaxCalls       \* bound: calls started from outside the slots

(* A call on a signal; a slot is connected only where the program does so.  *)
Call == {c \in [op : {"connect", "emit", "count"}, sig : Signals, slot : Slots \cup {NoSlot}] :
           IF c.op = "connect" THEN c.slot \in SlotsOf[c.sig] ELSE c.slot = NoSlot}

ASSUME ConstantsAssumption ==
  /\ MaxCalls \in Nat
  /\ Nobody \notin Threads
  /\ NoSlot \notin Slots /\ NoCall \notin Call
  /\ SlotsOf \in [Signals -> SUBSET Slots]
  /\ Body \in [Slots -> Call \cup {NoCall}]

(* A call in progress: `locked` once its lock_guard is constructed, `ran`   *)
(* how many slots the range-for of an emission has called.                  *)
Frame == [call : Call, locked : BOOLEAN, ran : Nat]

VARIABLES
  mMutex,        \* owner of each signal's mutex
  mSlots,        \* each signal's vector of slots
  stack,         \* each thread's calls in progress, the innermost last
  calls          \* calls started from outside the slots

vars == <<mMutex, mSlots, stack, calls>>

Init ==
  /\ mMutex = [s \in Signals |-> Nobody]
  /\ mSlots = [s \in Signals |-> <<>>]
  /\ stack = [t \in Threads |-> <<>>]
  /\ calls = 0

Enter(c) == [call |-> c, locked |-> FALSE, ran |-> 0]
Depth(t) == Len(stack[t])
Top(t) == stack[t][Depth(t)]
Running(t, op) == Depth(t) > 0 /\ Top(t).locked /\ Top(t).call.op = op
Waiting(t) == Depth(t) > 0 /\ ~Top(t).locked
Wanted(t) == Top(t).call.sig

(* A thread that is in no slot starts a call.                                *)
Start(t) ==
  /\ stack[t] = <<>> /\ calls < MaxCalls
  /\ \E c \in Call : stack' = [stack EXCEPT ![t] = <<Enter(c)>>]
  /\ calls' = calls + 1
  /\ UNCHANGED <<mMutex, mSlots>>

(* std::lock_guard<std::mutex> LockGuard(mMutex): also blocks the owner.     *)
Lock(t) ==
  /\ Waiting(t) /\ mMutex[Wanted(t)] = Nobody
  /\ mMutex' = [mMutex EXCEPT ![Wanted(t)] = t]
  /\ stack' = [stack EXCEPT ![t][Depth(t)].locked = TRUE]
  /\ UNCHANGED <<mSlots, calls>>

(* Mutant of Unlock: a return that leaves the mutex locked.                  *)
ReturnLocked(t) ==
  /\ UNCHANGED mMutex
  /\ stack' = [stack EXCEPT ![t] = SubSeq(@, 1, Len(@) - 1)]

(* The end of a member function: the lock_guard releases the mutex.          *)
Unlock(t) ==
  /\ mMutex' = [mMutex EXCEPT ![Wanted(t)] = Nobody]
  /\ stack' = [stack EXCEPT ![t] = SubSeq(@, 1, Len(@) - 1)]

(* Mutant of Connect: no lock_guard.                                         *)
ConnectUnlocked(t) ==
  /\ Depth(t) > 0 /\ Top(t).call.op = "connect"
  /\ mSlots' = [mSlots EXCEPT ![Wanted(t)] = Append(@, Top(t).call.slot)]
  /\ Unlock(t)
  /\ UNCHANGED calls

Connect(t) ==
  /\ Running(t, "connect")
  /\ mSlots' = [mSlots EXCEPT ![Wanted(t)] = Append(@, Top(t).call.slot)]
  /\ Unlock(t)
  /\ UNCHANGED calls

(* One turn of the range-for: the slot runs, with the mutex held.            *)
CallSlot(t) ==
  /\ Running(t, "emit") /\ Top(t).ran < Len(mSlots[Wanted(t)])
  /\ LET slot == mSlots[Wanted(t)][Top(t).ran + 1]
         emission == [stack[t] EXCEPT ![Depth(t)].ran = @ + 1]
     IN stack' = [stack EXCEPT ![t] =
          IF Body[slot] = NoCall THEN emission ELSE Append(emission, Enter(Body[slot]))]
  /\ UNCHANGED <<mMutex, mSlots, calls>>

EndEmit(t) ==
  /\ Running(t, "emit") /\ Top(t).ran = Len(mSlots[Wanted(t)])
  /\ Unlock(t)
  /\ UNCHANGED <<mSlots, calls>>

GetConnectedSlotCount(t) ==
  /\ Running(t, "count")
  /\ Unlock(t)
  /\ UNCHANGED <<mSlots, calls>>

Step(t) == Lock(t) \/ Connect(t) \/ CallSlot(t) \/ EndEmit(t) \/ GetConnectedSlotCount(t)

Next == \E t \in Threads : Start(t) \/ Step(t)

Spec == Init /\ [][Next]_vars

(* The operating system runs every runnable thread; that a thread calls a   *)
(* signal at all is not assumed.  Weak fairness of Lock is enough because   *)
(* MaxCalls bounds how often another thread can take the mutex first.       *)
FairSpec == Spec /\ \A t \in Threads : WF_vars(Step(t))

-----------------------------------------------------------------------------
TypeOK ==
  /\ mMutex \in [Signals -> Threads \cup {Nobody}]
  /\ mSlots \in [Signals -> Seq(Slots)]
  /\ stack \in [Threads -> Seq(Frame)]
  /\ calls \in Nat

Holds(t, s) == \E i \in 1..Depth(t) : stack[t][i].locked /\ stack[t][i].call.sig = s

(* The mutex of a signal is owned by exactly the thread that has a call on   *)
(* it under way, on whatever level of nested slots: releasing an inner       *)
(* signal's mutex never releases an outer one (Signal.hpp:36, 47, 60).       *)
LockMatchesCalls == \A t \in Threads, s \in Signals : mMutex[s] = t <=> Holds(t, s)

(* While a thread is anywhere inside an emission, its own nested slots       *)
(* included, the vector it iterates over is not touched: an emplace_back     *)
(* would invalidate the iterators of Signal.hpp:49.                          *)
SlotsStableWhileEmitting ==
  [][\A t \in Threads : \A i \in 1..Depth(t) :
       stack[t][i].locked /\ stack[t][i].call.op = "emit"
         => mSlots'[stack[t][i].call.sig] = mSlots[stack[t][i].call.sig]]_vars

(* No set of threads waits for mutexes that only threads of the set can      *)
(* release.  Slots run under the mutex (Signal.hpp:47-52), so this depends   *)
(* on what the connected slots call: see Nested.                             *)
CircularWait(W) == \A t \in W : Waiting(t) /\ mMutex[Wanted(t)] \in W
NoCircularWait == \A W \in SUBSET Threads : W # {} => ~CircularWait(W)

(* Every call on a signal returns, if the operating system runs the threads: *)
(* no emission runs forever or waits forever for a nested signal.            *)
CallsReturn == \A t \in Threads : stack[t] # <<>> ~> stack[t] = <<>>

-----------------------------------------------------------------------------
(* The discipline the library's own slots keep: a slot of signal s calls     *)
(* only signals below s, in some ranking of the signals.                     *)
Nested(rank) ==
  /\ rank \in [Signals -> Nat]
  /\ \A s \in Signals : \A slot \in SlotsOf[s] :
       Body[slot] # NoCall => rank[Body[slot].sig] < rank[s]

(* A thread's calls descend the ranking, and only the innermost one waits:   *)
(* a nested call never comes back to a signal whose mutex its thread holds.  *)
CallsDescend(rank) ==
  /\ \A s \in Signals : \A i \in 1..Len(mSlots[s]) : mSlots[s][i] \in SlotsOf[s]
  /\ \A t \in Threads : \A i \in 1..Depth(t) :
       /\ i < Depth(t) => stack[t][i].locked
       /\ \A j \in 1..Depth(t) :
            i < j => rank[stack[t][j].call.sig] < rank[stack[t][i].call.sig]
=============================================================================
