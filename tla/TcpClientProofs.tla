-------------------------- MODULE TcpClientProofs --------------------------
(***************************************************************************)
(* The four invariants of a dl::tcp::Client, whatever the network does and   *)
(* whatever the bounds of the model are.                                     *)
(* - NeverAtRest is not inductive: OnConnect cancels the timer, and only     *)
(*   because no handler ran since it started the session, or its handshake,  *)
(*   is that session still the current one and being read (StartedIsRead).   *)
(* - EveryStartEndsOnce sums over the sessions.  What SumFunction does at an *)
(*   update of one of them is proved by induction on the size of its domain, *)
(*   which is that a set of naturals with no least element left out is full. *)
(* - ConnectionIsToldFirst needs that count, that one thread at most is in   *)
(*   OnConnect (Alone) and that it has one connection to announce            *)
(*   (Announced), whose session is being read (StartedIsRead).               *)
(* - OnlyCurrentSessionIsRead needs all that can be pending: the client goes *)
(*   through eight stages, one thing pending in each (OneAtATime).           *)
(***************************************************************************)
EXTENDS TcpClient, FiniteSetTheorems, WellFoundedInduction, TLAPS

ClientTypes ==
  /\ mpSession \in Sessions /\ resolves \in Nat /\ timeouts \in Nat
  /\ handler \in [Points -> Nat] /\ handshakes \in [Sessions -> Nat]
  /\ reading \in [Sessions -> Nat] /\ jobs \in [Sessions -> Nat]
  /\ running \in [CallbackThreads -> Sessions \cup {Idle}]
  /\ started \in [CallbackThreads -> BOOLEAN]
  /\ readErrors \in Nat /\ lookupErrors \in Nat

(* While OnConnect runs and is not overtaken, no handler replaces the session *)
(* it has called Start of, nor completes the read that this has begun        *)
(* (Client.hpp:238-242).                                                     *)
StartedIsRead ==
  process # "crashed" /\ ~overtaken =>
    /\ handler["started"] > 0 \/ handler["signalled"] > 0 => reading[mpSession] > 0
    /\ \A s \in Sessions : handshakes[s] > 0 => s = mpSession

IInv == ClientTypes /\ StartedIsRead /\ NeverAtRest

(* The constructor's Connect() leaves a lookup pending.                      *)
LEMMA InitIInv == Init => IInv
<1>1. SUFFICES ASSUME Init PROVE IInv
  OBVIOUS
<1>2. mpSession \in Sessions
  BY <1>1, ClientAssumption DEF Init, Sessions
<1>3. ClientTypes
  BY <1>1, <1>2 DEF Init, ClientTypes, Each
<1>4. StartedIsRead /\ NeverAtRest
  BY <1>1 DEF Init, StartedIsRead, NeverAtRest, Trying, Points, Each
<1>5. QED
  BY <1>3, <1>4 DEF IInv

(* No step of the client, of its sessions or of the network breaks the types. *)
LEMMA TypesStep == ClientTypes /\ [Next]_vars => ClientTypes'
<1>1. SUFFICES ASSUME ClientTypes, [Next]_vars PROVE ClientTypes'
  OBVIOUS
<1>2. mpSession + 1 \in Nat /\ (mpSession < MaxSessions => mpSession + 1 \in Sessions)
  BY <1>1, ClientAssumption DEF ClientTypes, Sessions
<1>3. CASE OnResolve \/ ArmTimer \/ OnResolveError
  BY <1>1, <1>3 DEF ClientTypes, OnResolve, ArmTimer, OnResolveError, AsyncConnect, At, Leave,
     Reach, Points, attempt, clock, session, inside, callbacks, told, bounds
<1>4. CASE OnTimeout
  BY <1>1, <1>2, <1>4 DEF ClientTypes, OnTimeout, inside, session, callbacks, told, bounds
<1>5. CASE SignalConnection \/ CancelTimer
  BY <1>1, <1>5 DEF ClientTypes, SignalConnection, CancelTimer, At, Leave, Advance, Points,
     attempt, clock, session, callbacks, told, bounds
<1>6. CASE \E s \in Sessions : OnReadEnd(s) \/ OnReadError(s) \/ OnReadDestroyed(s) \/ OnWritten(s)
  <2>1. PICK s \in Sessions : OnReadEnd(s) \/ OnReadError(s) \/ OnReadDestroyed(s) \/ OnWritten(s)
    BY <1>6
  <2>2. reading[s] > 0 => reading[s] - 1 \in Nat
    BY <1>1 DEF ClientTypes
  <2>3. CASE OnReadEnd(s)
    BY <1>1, <2>2, <2>3 DEF ClientTypes, OnReadEnd, IoReady, attempt, clock, inside,
       told, bounds
  <2>4. CASE OnReadError(s)
    BY <1>1, <2>2, <2>4 DEF ClientTypes, OnReadError, attempt, clock, inside, callbacks, bounds
  <2>5. CASE OnReadDestroyed(s)
    BY <1>1, <2>2, <2>5 DEF ClientTypes, OnReadDestroyed, attempt, clock, inside, callbacks,
       bounds
  <2>6. CASE OnWritten(s)
    BY <1>1, <2>6 DEF ClientTypes, OnWritten, attempt, clock, inside, callbacks, told, bounds
  <2>7. QED
    BY <2>1, <2>3, <2>4, <2>5, <2>6
<1>7. CASE \E op \in Op : OnConnected(op) \/ StartHandshake(op)
  BY <1>1, <1>7 DEF ClientTypes, OnConnected, StartHandshake, Connects, Completed, Reach, Points,
     attempt, clock, callbacks, told, bounds
<1>14. CASE \E s \in Sessions : OnHandshake(s) \/ HandshakeThrows(s)
  BY <1>1, <1>14 DEF ClientTypes, OnHandshake, HandshakeThrows, InHandshake, Reach, Points,
     attempt, clock, session, callbacks, told, bounds
<1>8. CASE \E op \in Op : OnConnectFailed(op) \/ OnConnectAborted(op) \/ NextEndpoint(op)
  BY <1>1, <1>8 DEF ClientTypes, OnConnectFailed, OnConnectAborted, NextEndpoint,
     Completed, AsyncConnect, attempt, clock, session, handlers, inside, callbacks, told, bounds
<1>9. CASE Expire
  BY <1>1, <1>9 DEF ClientTypes, Expire, attempt, clock, session, handlers, inside, callbacks,
     told, bounds
<1>10. CASE \E c \in CallbackThreads : CallbackStep(c)
  <2>1. CASE \E c \in CallbackThreads, s \in Sessions : TakeJob(c, s)
    BY <1>1, <2>1 DEF ClientTypes, TakeJob, attempt, handlers, inside, clock, session, told
  <2>2. CASE \E c \in CallbackThreads : SlotStartConnect(c)
    BY <1>1, <2>2 DEF ClientTypes, SlotStartConnect, clock, handlers, inside, session, told
  <2>3. CASE \E c \in CallbackThreads : SlotSignalDisconnect(c)
    BY <1>1, <2>3 DEF ClientTypes, SlotSignalDisconnect, attempt, handlers, inside, clock,
       session
  <2>4. QED
    BY <1>10, <2>1, <2>2, <2>3 DEF CallbackStep
<1>11. CASE Write \/ Stop \/ \E s \in Sessions, how \in {"ended", "failed"} : PeerEnds(s, how)
  BY <1>1, <1>11 DEF ClientTypes, Write, Stop, PeerEnds, attempt, clock, session,
     handlers, inside, callbacks, told, bounds
<1>12. CASE UNCHANGED vars
  BY <1>1, <1>12 DEF ClientTypes, vars, attempt, clock, session, handlers, inside, callbacks,
     told, bounds
<1>13. QED
  BY <1>1, <1>3, <1>4, <1>5, <1>6, <1>7, <1>8, <1>9, <1>10, <1>11, <1>12, <1>14 DEF Next,
     IoStep, Answer, Environment

(* A handler that starts while no other is cut short finds none begun.       *)
LEMMA NotOvertaken ==
  ASSUME IoReady, ~overtaken'
  PROVE  /\ process = "running" /\ ~overtaken
         /\ \A p \in Points : ~(handler[p] > 0)
         /\ \A s \in Sessions : ~(handshakes[s] > 0)
BY DEF IoReady, InHandler

LEMMA StartedIsReadStep ==
  ASSUME IInv, [Next]_vars
  PROVE  StartedIsRead'
<1> USE DEF StartedIsRead
<1>0. ClientTypes /\ StartedIsRead
  BY DEF IInv
<1>1. CASE \E op \in Op : OnConnected(op) \/ StartHandshake(op)
  BY <1>0, <1>1, NotOvertaken DEF ClientTypes, OnConnected, StartHandshake, Connects, Reach, Points
<1>2. CASE IoReady /\ inside' = inside
  BY <1>2, NotOvertaken DEF inside, Points
<1>3. CASE (process' # "crashed" => process # "crashed") /\ mpSession' = mpSession /\ reading' = reading
             /\ overtaken' = overtaken /\ handshakes' = handshakes
             /\ (handler'["started"] > 0 \/ handler'["signalled"] > 0 =>
                    handler["started"] > 0 \/ handler["signalled"] > 0)
  BY <1>0, <1>3
<1>4. CASE OnResolveError \/ OnTimeout
  BY <1>2, <1>4 DEF OnResolveError, OnTimeout
<1>5. CASE ArmTimer \/ SignalConnection \/ CancelTimer
  BY <1>0, <1>3, <1>5 DEF ClientTypes, ArmTimer, SignalConnection, CancelTimer, At, Leave,
     Advance, Points, attempt, session
<1>6. CASE \E s \in Sessions : OnReadEnd(s) \/ OnReadError(s) \/ OnReadDestroyed(s) \/ OnWritten(s)
  BY <1>2, <1>6 DEF OnReadEnd, OnReadError, OnReadDestroyed, OnWritten
<1>7. CASE \E op \in Op : OnConnectFailed(op) \/ OnConnectAborted(op)
  BY <1>2, <1>7 DEF OnConnectFailed, OnConnectAborted
<1>8. CASE Expire \/ Write \/ Stop \/ UNCHANGED vars \/ \E op \in Op : NextEndpoint(op)
  BY <1>3, <1>8 DEF Expire, Write, Stop, NextEndpoint, vars, attempt, session, handlers, inside
<1>9. CASE \E s \in Sessions, how \in {"ended", "failed"} : PeerEnds(s, how)
  BY <1>3, <1>9 DEF PeerEnds, attempt, handlers, inside
<1>10. CASE \E c \in CallbackThreads : CallbackStep(c)
  BY <1>3, <1>10 DEF CallbackStep, TakeJob, SlotStartConnect, SlotSignalDisconnect, attempt,
     session, handlers, inside
<1>11. CASE OnResolve
  BY <1>0, <1>11, NotOvertaken DEF ClientTypes, OnResolve, Reach, Points
<1>12. CASE \E s \in Sessions : OnHandshake(s)
  <2>1. PICK s \in Sessions : OnHandshake(s)
    BY <1>12
  <2>2. SUFFICES ASSUME ~overtaken PROVE StartedIsRead'
    BY <2>1 DEF OnHandshake
  <2>3. s = mpSession
    BY <1>0, <2>1, <2>2 DEF OnHandshake, InHandshake
  <2>4. mpSession' = mpSession /\ reading'[mpSession] > 0
    BY <1>0, <2>1, <2>3 DEF OnHandshake, ClientTypes, attempt
  <2>5. \A u \in Sessions : handshakes'[u] > 0 => handshakes[u] > 0
    BY <1>0, <2>1 DEF OnHandshake, InHandshake, ClientTypes
  <2>6. QED
    BY <1>0, <2>1, <2>2, <2>4, <2>5 DEF OnHandshake, InHandshake
<1>13. CASE \E s \in Sessions : HandshakeThrows(s)
  BY <1>13 DEF HandshakeThrows
<1>14. QED
  BY <1>1, <1>4, <1>5, <1>6, <1>7, <1>8, <1>9, <1>10, <1>11, <1>12, <1>13 DEF Next, IoStep,
     Answer, Environment

(* A thread that stands at a point of a handler is something to wait for.    *)
LEMMA ReachedIsTrying ==
  /\ \A p \in Points : handler'[p] > 0 => Trying'
  /\ \A s \in Sessions : handshakes'[s] > 0 => Trying'
BY DEF Trying, InHandler

(* What a step leaves to wait for, one action at a time.                     *)
LEMMA NeverAtRestStep ==
  ASSUME IInv, [Next]_vars
  PROVE  NeverAtRest'
<1>1. SUFFICES ASSUME process' = "running", ~overtaken', lookupErrors' = 0, readErrors' = 0
               PROVE  Trying'
  BY DEF NeverAtRest
<1>2. ClientTypes /\ ClientTypes'
  BY TypesStep DEF IInv
<1>3. ASSUME process = "running", ~overtaken, lookupErrors = 0, readErrors = 0 PROVE Trying
  BY <1>3 DEF IInv, NeverAtRest
<1>4. CASE OnResolve \/ ArmTimer
  <2>1. CASE OnResolve
    <3>1. handler'["resolved"] > 0
      BY <1>2, <2>1 DEF OnResolve, Reach, Points, ClientTypes
    <3>2. QED
      BY <3>1, ReachedIsTrying DEF Points
  <2>2. CASE ArmTimer
    BY <2>2 DEF ArmTimer, Trying
  <2>3. QED
    BY <1>4, <2>1, <2>2
<1>5. CASE OnResolveError
  BY <1>1, <1>2, <1>5 DEF OnResolveError, ClientTypes
<1>6. CASE OnTimeout
  <2>1. resolves' > 0
    BY <1>2, <1>6 DEF OnTimeout, ClientTypes
  <2>2. QED
    BY <2>1 DEF Trying
<1>7. CASE SignalConnection
  <2>1. handler'["signalled"] > 0
    BY <1>2, <1>7 DEF SignalConnection, At, Advance, Points, ClientTypes
  <2>2. QED
    BY <2>1, ReachedIsTrying DEF Points
<1>8. CASE CancelTimer
  <2>1. reading[mpSession] > 0
    BY <1>1, <1>8 DEF IInv, StartedIsRead, CancelTimer, At
  <2>2. QED
    BY <1>8, <2>1 DEF CancelTimer, Trying, attempt, session
<1>9. CASE \E s \in Sessions : OnReadEnd(s)
  <2>1. \E s \in Sessions : jobs'[s] > 0
    BY <1>2, <1>9 DEF OnReadEnd, ClientTypes
  <2>2. QED
    BY <2>1 DEF Trying
<1>10. CASE \E s \in Sessions : OnReadError(s)
  BY <1>1, <1>2, <1>10 DEF OnReadError, ClientTypes
<1>11. CASE \E s \in Sessions : OnReadDestroyed(s)
  BY <1>1, <1>2, <1>11 DEF OnReadDestroyed, ClientTypes
<1>12. CASE \E op \in Op : OnConnected(op) \/ StartHandshake(op)
  <2>1. CASE \E op \in Op : OnConnected(op)
    <3>1. handler'["started"] > 0
      BY <1>2, <2>1 DEF OnConnected, Reach, Points, ClientTypes
    <3>2. QED
      BY <3>1, ReachedIsTrying DEF Points
  <2>2. CASE \E op \in Op : StartHandshake(op)
    <3>1. handshakes'[mpSession] > 0
      BY <1>2, <2>2 DEF StartHandshake, ClientTypes
    <3>2. QED
      BY <1>2, <3>1, ReachedIsTrying DEF ClientTypes
  <2>3. QED
    BY <1>12, <2>1, <2>2
<1>23. CASE \E s \in Sessions : OnHandshake(s) \/ HandshakeThrows(s)
  <2>1. CASE \E s \in Sessions : OnHandshake(s)
    <3>1. handler'["started"] > 0
      BY <1>2, <2>1 DEF OnHandshake, Reach, Points, ClientTypes
    <3>2. QED
      BY <3>1, ReachedIsTrying DEF Points
  <2>2. CASE \E s \in Sessions : HandshakeThrows(s)
    BY <1>1, <2>2 DEF HandshakeThrows
  <2>3. QED
    BY <1>23, <2>1, <2>2
<1>13. CASE Expire
  <2>1. timeouts' > 0
    BY <1>2, <1>13 DEF Expire, ClientTypes
  <2>2. QED
    BY <2>1 DEF Trying
<1>14. CASE \E c \in CallbackThreads, s \in Sessions : TakeJob(c, s)
  BY <1>2, <1>14, IdleAssumption DEF TakeJob, Trying, InSlot, ClientTypes
<1>15. CASE \E c \in CallbackThreads : SlotStartConnect(c)
  <2>1. resolves' > 0
    BY <1>2, <1>15 DEF SlotStartConnect, ClientTypes
  <2>2. QED
    BY <2>1 DEF Trying
<1>16. CASE process = "running" /\ ~overtaken /\ lookupErrors = 0 /\ readErrors = 0
              /\ UNCHANGED <<mpSession, resolves, inside, clock, reading, jobs>>
              /\ InSlot(FALSE)' = InSlot(FALSE)
  BY <1>3, <1>16 DEF Trying, InHandler, inside, clock
<1>17. CASE \E c \in CallbackThreads : SlotSignalDisconnect(c)
  <2>1. PICK c \in CallbackThreads : SlotSignalDisconnect(c)
    BY <1>17
  <2>2. InSlot(FALSE)' = InSlot(FALSE)
    BY <1>2, <2>1 DEF SlotSignalDisconnect, InSlot, ClientTypes
  <2>3. QED
    BY <1>1, <1>16, <2>1, <2>2 DEF SlotSignalDisconnect, attempt, session, handlers, inside
<1>18. CASE \E op \in Op : OnConnectFailed(op) \/ OnConnectAborted(op) \/ NextEndpoint(op)
  <2>1. UNCHANGED <<mpSession, resolves, inside, clock, reading, jobs>>
    BY <1>18 DEF OnConnectFailed, OnConnectAborted, NextEndpoint, Completed, attempt,
       session, handlers, inside, callbacks
  <2>2. InSlot(FALSE)' = InSlot(FALSE)
    BY <1>18 DEF OnConnectFailed, OnConnectAborted, NextEndpoint, InSlot, callbacks
  <2>3. lookupErrors = 0 /\ readErrors = 0
    BY <1>1, <1>18 DEF OnConnectFailed, OnConnectAborted, NextEndpoint, told
  <2>4. process = "running"
    BY <1>18 DEF OnConnectFailed, OnConnectAborted, NextEndpoint, IoReady
  <2>5. (overtaken' = overtaken) \/ IoReady
    BY <1>18 DEF OnConnectFailed, OnConnectAborted, NextEndpoint, handlers, inside
  <2>6. ~overtaken
    BY <1>1, <2>5 DEF IoReady
  <2>7. QED
    BY <1>16, <2>1, <2>2, <2>3, <2>4, <2>6
<1>19. CASE Write \/ (\E s \in Sessions : OnWritten(s))
             \/ \E s \in Sessions, how \in {"ended", "failed"} : PeerEnds(s, how)
  BY <1>1, <1>16, <1>19 DEF Write, OnWritten, PeerEnds, IoReady, InSlot, attempt,
     handlers, inside, callbacks, told
<1>20. CASE UNCHANGED vars
  BY <1>1, <1>16, <1>20 DEF vars, InSlot, attempt, session, handlers, inside, callbacks, told
<1>21. CASE Stop
  BY <1>1, <1>21 DEF Stop
<1>22. QED
  BY <1>4, <1>5, <1>6, <1>7, <1>8, <1>9, <1>10, <1>11, <1>12, <1>13, <1>14, <1>15,
     <1>17, <1>18,
     <1>19, <1>20, <1>21, <1>23 DEF Next, IoStep, Answer, CallbackStep, Environment

LEMMA IInvStep == IInv /\ [Next]_vars => IInv'
BY TypesStep, StartedIsReadStep, NeverAtRestStep DEF IInv

(* With any number of threads, and whatever has failed, a connection is read *)
(* or an attempt is pending as long as OnConnect was not overtaken           *)
(* (Client.hpp:206-275).                                                     *)
THEOREM ClientNeverAtRest == Spec => []NeverAtRest
<1>1. IInv => NeverAtRest
  BY DEF IInv
<1>2. QED
  BY InitIInv, IInvStep, <1>1, PTL DEF Spec

-----------------------------------------------------------------------------
(* Induction over the naturals, as a fact about a set of them: their order is *)
(* well founded, so that those left out would have a least one.              *)
LEMMA NatSetInduction ==
  ASSUME NEW S \in SUBSET Nat, 0 \in S, \A n \in S : n + 1 \in S
  PROVE  \A n \in Nat : n \in S
<1> DEFINE R == OpToRel(<, Nat)
<1>1. SUFFICES ASSUME Nat \ S # {} PROVE FALSE
  OBVIOUS
<1>2. \A x, y \in Nat : x < y => <<x, y>> \in R
  BY DEF OpToRel
<1>3. IsWellFoundedOn(R, Nat)
  BY NatLessThanWellFounded
<1> HIDE DEF R
<1>4. PICK x \in Nat \ S : \A y \in Nat \ S : ~(<<y, x>> \in R)
  <2>1. Nat \ S \subseteq Nat
    OBVIOUS
  <2>2. QED
    BY <1>1, <1>3, <2>1, WFMin, Zenon
<1>5. x - 1 \in Nat /\ x - 1 < x
  OBVIOUS
<1>6. x - 1 \in S
  BY <1>2, <1>4, <1>5
<1>7. QED
  BY <1>4, <1>5, <1>6

(* The recursive function by which SumFunction is defined.                   *)
Pick(s) == CHOOSE x \in s : TRUE
Sums(S, f, L) == S = [s \in L |-> IF s = {} THEN 0 ELSE f[Pick(s)] + S[s \ {Pick(s)}]]
ApartAtAny(S, f, D) == \A s \in SUBSET D, e \in D : e \in s => S[s] = f[e] + S[s \ {e}]
UpTo(D, n) == {s \in SUBSET D : Cardinality(s) <= n}

LEMMA SumIsChosen ==
  ASSUME NEW fun, NEW D PROVE SumFunctionOnSet(fun, D) = (CHOOSE S : Sums(S, fun, SUBSET D))[D]
BY Zenon DEF SumFunctionOnSet, FoldFunctionOnSet, MapThenFoldSet, Sums, Pick

LEMMA Picked ==
  ASSUME NEW D, IsFiniteSet(D), NEW s \in SUBSET D, s # {}
  PROVE  /\ Pick(s) \in s /\ s \ {Pick(s)} \in SUBSET D
         /\ IsFiniteSet(s) /\ Cardinality(s) \in Nat
         /\ Cardinality(s \ {Pick(s)}) = Cardinality(s) - 1
<1>1. Pick(s) \in s
  BY DEF Pick
<1>2. IsFiniteSet(s)
  BY FS_Subset
<1>3. QED
  BY <1>1, <1>2, FS_RemoveElement, FS_CardinalityType

LEMMA SumsExist ==
  ASSUME NEW D, IsFiniteSet(D), NEW f
  PROVE  \E S : Sums(S, f, SUBSET D)
<1> DEFINE N == {n \in Nat : \E S : Sums(S, f, UpTo(D, n))}
<1>1. \A s \in SUBSET D : IsFiniteSet(s) /\ Cardinality(s) \in Nat
  BY FS_Subset, FS_CardinalityType
<1>2. 0 \in N
  <2>1. \A s \in UpTo(D, 0) : s = {}
    BY <1>1, FS_EmptySet DEF UpTo
  <2>2. Sums([s \in UpTo(D, 0) |-> 0], f, UpTo(D, 0))
    BY <2>1 DEF Sums
  <2>3. QED
    BY <2>2
<1>3. ASSUME NEW n \in N PROVE n + 1 \in N
  <2>1. PICK S : Sums(S, f, UpTo(D, n))
    OBVIOUS
  <2> DEFINE T == [s \in UpTo(D, n + 1) |-> IF s = {} THEN 0 ELSE f[Pick(s)] + S[s \ {Pick(s)}]]
  <2>2. ASSUME NEW s \in UpTo(D, n + 1), s # {} PROVE s \ {Pick(s)} \in UpTo(D, n)
    BY <1>1, <2>2, Picked DEF UpTo
  <2>3. UpTo(D, n) \subseteq UpTo(D, n + 1)
    BY <1>1 DEF UpTo
  <2>4. ASSUME NEW s \in UpTo(D, n) PROVE T[s] = S[s]
    BY <2>1, <2>3 DEF Sums
  <2>5. ASSUME NEW s \in UpTo(D, n + 1)
        PROVE  T[s] = IF s = {} THEN 0 ELSE f[Pick(s)] + T[s \ {Pick(s)}]
    BY <2>2, <2>4
  <2>6. T = [s \in UpTo(D, n + 1) |-> IF s = {} THEN 0 ELSE f[Pick(s)] + T[s \ {Pick(s)}]]
    BY <2>5
  <2>7. Sums(T, f, UpTo(D, n + 1))
    BY <2>6 DEF Sums
  <2>8. QED
    BY <2>7
<1>4. Cardinality(D) \in N
  <2> HIDE DEF N
  <2>1. N \in SUBSET Nat
    BY DEF N
  <2>2. QED
    BY <1>1, <1>2, <1>3, <2>1, NatSetInduction
<1>5. UpTo(D, Cardinality(D)) = SUBSET D
  <2>1. \A s \in SUBSET D : Cardinality(s) <= Cardinality(D)
    BY FS_Subset
  <2>2. QED
    BY <2>1 DEF UpTo
<1>6. QED
  BY <1>4, <1>5

LEMMA SumIsSums ==
  ASSUME NEW D, IsFiniteSet(D), NEW f \in [D -> Nat]
  PROVE  \E S : Sums(S, f, SUBSET D) /\ SumFunction(f) = S[D]
<1> DEFINE C == CHOOSE S : Sums(S, f, SUBSET D)
<1>1. Sums(C, f, SUBSET D)
  BY SumsExist
<1>2. SumFunction(f) = C[D]
  BY SumIsChosen DEF SumFunction
<1>3. QED
  BY <1>1, <1>2

LEMMA SumsAreNaturals ==
  ASSUME NEW D, IsFiniteSet(D), NEW f \in [D -> Nat], NEW S, Sums(S, f, SUBSET D)
  PROVE  S \in [SUBSET D -> Nat]
<1> DEFINE N == {n \in Nat : \A s \in SUBSET D : Cardinality(s) = n => S[s] \in Nat}
<1>1. \A s \in SUBSET D : IsFiniteSet(s) /\ Cardinality(s) \in Nat
  BY FS_Subset, FS_CardinalityType
<1>2. S[{}] = 0 /\ \A s \in SUBSET D : s # {} => S[s] = f[Pick(s)] + S[s \ {Pick(s)}]
  BY DEF Sums
<1>3. 0 \in N
  BY <1>1, <1>2, FS_EmptySet
<1>4. ASSUME NEW n \in N, NEW s \in SUBSET D, Cardinality(s) = n + 1 PROVE S[s] \in Nat
  <2>1. CASE s = {}
    BY <1>2, <2>1
  <2>2. CASE s # {}
    <3>1. /\ Pick(s) \in D /\ s \ {Pick(s)} \in SUBSET D
          /\ Cardinality(s \ {Pick(s)}) = n
      BY <1>4, <2>2, Picked
    <3>2. S[s \ {Pick(s)}] \in Nat /\ f[Pick(s)] \in Nat
      BY <3>1
    <3>3. QED
      BY <1>2, <2>2, <3>2
  <2>3. QED
    BY <2>1, <2>2
<1>5. ASSUME NEW s \in SUBSET D PROVE Cardinality(s) \in N
  <2>1. \A n \in N : n + 1 \in N
    BY <1>4
  <2> HIDE DEF N
  <2>2. N \in SUBSET Nat
    BY DEF N
  <2>3. QED
    BY <1>1, <1>3, <2>1, <2>2, NatSetInduction
<1>6. QED
  BY <1>5 DEF Sums

(* A sum may be taken apart at any element.                                  *)
LEMMA SumsAtAny ==
  ASSUME NEW D, IsFiniteSet(D), NEW f \in [D -> Nat], NEW S, Sums(S, f, SUBSET D)
  PROVE  ApartAtAny(S, f, D)
<1> DEFINE N == {n \in Nat : \A s \in SUBSET D : Cardinality(s) = n => \A e \in s : S[s] = f[e] + S[s \ {e}]}
<1>0. S \in [SUBSET D -> Nat]
  BY SumsAreNaturals, Zenon
<1>1. \A s \in SUBSET D : IsFiniteSet(s) /\ Cardinality(s) \in Nat
  BY FS_Subset, FS_CardinalityType
<1>2. 0 \in N
  <2>1. \A s \in SUBSET D : Cardinality(s) = 0 => s = {}
    BY <1>1, FS_EmptySet
  <2>2. QED
    BY <2>1
<1>3. ASSUME NEW n \in N, NEW s \in SUBSET D, Cardinality(s) = n + 1, NEW e \in s
      PROVE  S[s] = f[e] + S[s \ {e}]
  <2>1. PICK p \in s : p = Pick(s)
    BY Picked
  <2>2. s \ {p} \in SUBSET D /\ Cardinality(s \ {p}) = n
    BY <1>3, <2>1, Picked
  <2>3. S[s] = f[p] + S[s \ {p}]
    BY <2>1 DEF Sums
  <2>4. CASE e = p
    BY <2>3, <2>4
  <2>5. CASE e # p
    <3>1. s \ {e} \in SUBSET D /\ Cardinality(s \ {e}) = n
      <4>1. Cardinality(s \ {e}) = Cardinality(s) - 1
        BY <1>1, FS_RemoveElement
      <4>2. QED
        BY <1>3, <4>1
    <3>2. S[s \ {e}] = f[p] + S[(s \ {e}) \ {p}] /\ S[s \ {p}] = f[e] + S[(s \ {p}) \ {e}]
      BY <2>2, <2>5, <3>1
    <3>3. (s \ {e}) \ {p} = (s \ {p}) \ {e} /\ (s \ {p}) \ {e} \in SUBSET D
      OBVIOUS
    <3>4. f[p] \in Nat /\ f[e] \in Nat /\ S[(s \ {p}) \ {e}] \in Nat
      BY <1>0, <3>3
    <3>5. PICK a \in Nat, b \in Nat, c \in Nat : a = f[e] /\ b = f[p] /\ c = S[(s \ {p}) \ {e}]
      BY <3>4
    <3>6. S[s] = b + (a + c) /\ S[s \ {e}] = b + c
      BY <2>3, <3>2, <3>3, <3>5
    <3>7. b + (a + c) = a + (b + c)
      OBVIOUS
    <3>8. QED
      BY <3>5, <3>6, <3>7
  <2>6. QED
    BY <2>4, <2>5
<1>4. ASSUME NEW s \in SUBSET D PROVE Cardinality(s) \in N
  <2>1. ASSUME NEW n \in N PROVE n + 1 \in N
    <3>1. \A t \in SUBSET D : Cardinality(t) = n + 1 => \A e \in t : S[t] = f[e] + S[t \ {e}]
      BY <1>3
    <3>2. n + 1 \in Nat
      OBVIOUS
    <3>3. QED
      BY <3>1, <3>2
  <2> HIDE DEF N
  <2>2. N \in SUBSET Nat
    BY DEF N
  <2>3. QED
    BY <1>1, <1>2, <2>1, <2>2, NatSetInduction
<1>5. QED
  BY <1>4 DEF ApartAtAny

(* Sums of functions that agree are equal.                                   *)
LEMMA SumsAgree ==
  ASSUME NEW D, IsFiniteSet(D), NEW f, NEW g, NEW S, Sums(S, f, SUBSET D), NEW T, Sums(T, g, SUBSET D)
  PROVE  \A s \in SUBSET D : (\A x \in s : f[x] = g[x]) => S[s] = T[s]
<1> DEFINE N == {n \in Nat : \A s \in SUBSET D : Cardinality(s) = n /\ (\A x \in s : f[x] = g[x]) => S[s] = T[s]}
<1>1. \A s \in SUBSET D : IsFiniteSet(s) /\ Cardinality(s) \in Nat
  BY FS_Subset, FS_CardinalityType
<1>2. S[{}] = 0 /\ T[{}] = 0
  BY DEF Sums
<1>3. 0 \in N
  BY <1>1, <1>2, FS_EmptySet
<1>4. ASSUME NEW n \in N, NEW s \in SUBSET D, Cardinality(s) = n + 1, \A x \in s : f[x] = g[x]
      PROVE  S[s] = T[s]
  <2>1. CASE s = {}
    BY <1>2, <2>1
  <2>2. CASE s # {}
    <3>1. Pick(s) \in s /\ s \ {Pick(s)} \in SUBSET D /\ Cardinality(s \ {Pick(s)}) = n
      BY <1>4, <2>2, Picked
    <3>2. S[s \ {Pick(s)}] = T[s \ {Pick(s)}] /\ f[Pick(s)] = g[Pick(s)]
      BY <1>4, <3>1
    <3>3. S[s] = f[Pick(s)] + S[s \ {Pick(s)}] /\ T[s] = g[Pick(s)] + T[s \ {Pick(s)}]
      BY <2>2 DEF Sums
    <3>4. QED
      BY <3>2, <3>3, Zenon
  <2>3. QED
    BY <2>1, <2>2
<1>5. ASSUME NEW s \in SUBSET D PROVE Cardinality(s) \in N
  <2>1. \A n \in N : n + 1 \in N
    BY <1>4
  <2> HIDE DEF N
  <2>2. N \in SUBSET Nat
    BY DEF N
  <2>3. QED
    BY <1>1, <1>3, <2>1, <2>2, NatSetInduction
<1>6. QED
  BY <1>5

(* What SumFunction is under the updates of a function.                      *)
SumsBy(f, e, v) ==
  /\ SumFunction(f) \in Nat /\ SumFunction([f EXCEPT ![e] = v]) \in Nat
  /\ f[e] <= SumFunction(f)
  /\ SumFunction([f EXCEPT ![e] = v]) + f[e] = SumFunction(f) + v

LEMMA SumOfUpdate ==
  ASSUME NEW D, IsFiniteSet(D), NEW f \in [D -> Nat], NEW e \in D, NEW v \in Nat
  PROVE  SumsBy(f, e, v)
<1>1. PICK g \in [D -> Nat] : g = [f EXCEPT ![e] = v]
  OBVIOUS
<1>2. PICK S : Sums(S, f, SUBSET D) /\ SumFunction(f) = S[D]
  BY SumIsSums
<1>3. PICK T : Sums(T, g, SUBSET D) /\ SumFunction(g) = T[D]
  BY SumIsSums
<1>4. S[D \ {e}] \in Nat /\ S[D] \in Nat /\ T[D] \in Nat
  <2>1. S \in [SUBSET D -> Nat] /\ T \in [SUBSET D -> Nat]
    BY <1>2, <1>3, SumsAreNaturals, Zenon
  <2>2. QED
    BY <2>1
<1>5. S[D] = f[e] + S[D \ {e}]
  <2>1. ApartAtAny(S, f, D)
    BY <1>2, SumsAtAny
  <2>2. QED
    BY <2>1 DEF ApartAtAny
<1>6. T[D] = v + T[D \ {e}]
  <2>1. ApartAtAny(T, g, D)
    BY <1>3, SumsAtAny
  <2>2. T[D] = g[e] + T[D \ {e}]
    BY <2>1 DEF ApartAtAny
  <2>3. QED
    BY <1>1, <2>2
<1>7. S[D \ {e}] = T[D \ {e}]
  <2>1. \A x \in D \ {e} : f[x] = g[x]
    BY <1>1
  <2>2. D \ {e} \in SUBSET D
    OBVIOUS
  <2>3. QED
    BY <1>2, <1>3, <2>1, <2>2, SumsAgree
<1>8. f[e] \in Nat
  OBVIOUS
<1>9. QED
  BY <1>1, <1>2, <1>3, <1>4, <1>5, <1>6, <1>7, <1>8 DEF SumsBy

LEMMA SumOfZeros ==
  ASSUME NEW D, IsFiniteSet(D) PROVE SumFunction([x \in D |-> 0]) = 0
<1> DEFINE z == [x \in D |-> 0]
           Z == [s \in SUBSET D |-> 0]
<1>1. PICK S : Sums(S, z, SUBSET D) /\ SumFunction(z) = S[D]
  BY SumIsSums
<1>2. Sums(Z, z, SUBSET D)
  <2>1. \A s \in SUBSET D : s # {} => Pick(s) \in D /\ s \ {Pick(s)} \in SUBSET D
    BY Picked
  <2>2. QED
    BY <2>1 DEF Sums
<1>3. S[D] = Z[D]
  <2>1. D \in SUBSET D /\ \A x \in D : z[x] = z[x]
    OBVIOUS
  <2> HIDE DEF z, Z
  <2>2. QED
    BY <1>1, <1>2, <2>1, SumsAgree
<1>4. QED
  BY <1>1, <1>3

LEMMA SumOfOneMore ==
  ASSUME NEW D, IsFiniteSet(D), NEW f \in [D -> Nat], NEW e \in D
  PROVE  SumFunction([f EXCEPT ![e] = @ + 1]) = SumFunction(f) + 1
<1>1. f[e] \in Nat /\ f[e] + 1 \in Nat
  OBVIOUS
<1>2. PICK v \in Nat : v = f[e] + 1
  BY <1>1
<1>3. SumsBy(f, e, v)
  BY SumOfUpdate
<1>4. [f EXCEPT ![e] = @ + 1] = [f EXCEPT ![e] = v]
  BY <1>2
<1>5. PICK sum \in Nat, new \in Nat, x \in Nat : sum = SumFunction(f) /\ new = SumFunction([f EXCEPT ![e] = v]) /\ x = f[e]
  BY <1>1, <1>3 DEF SumsBy
<1>6. new = sum + 1
  BY <1>2, <1>3, <1>5 DEF SumsBy
<1>7. QED
  BY <1>4, <1>5, <1>6

LEMMA SumOfOneLess ==
  ASSUME NEW D, IsFiniteSet(D), NEW f \in [D -> Nat], NEW e \in D, f[e] > 0
  PROVE  /\ SumFunction([f EXCEPT ![e] = @ - 1]) = SumFunction(f) - 1
         /\ SumFunction(f) - 1 \in Nat
<1>1. f[e] \in Nat /\ f[e] - 1 \in Nat
  OBVIOUS
<1>2. PICK v \in Nat : v = f[e] - 1
  BY <1>1
<1>3. SumsBy(f, e, v)
  BY SumOfUpdate
<1>4. [f EXCEPT ![e] = @ - 1] = [f EXCEPT ![e] = v]
  BY <1>2
<1>5. PICK sum \in Nat, new \in Nat, x \in Nat : sum = SumFunction(f) /\ new = SumFunction([f EXCEPT ![e] = v]) /\ x = f[e]
  BY <1>1, <1>3 DEF SumsBy
<1>6. new = sum - 1 /\ sum - 1 \in Nat
  BY <1>2, <1>3, <1>5 DEF SumsBy
<1>7. QED
  BY <1>4, <1>5, <1>6

-----------------------------------------------------------------------------
(* The callback threads in a slot, and the counts of what the user was told. *)
InSlots == {c \in CallbackThreads : running[c] # Idle}

CountTypes ==
  /\ starts \in Nat /\ connections \in Nat /\ disconnects \in Nat
  /\ IsFiniteSet(InSlots)

LEMMA CountTypesStep == ClientTypes /\ CountTypes /\ [Next]_vars => CountTypes'
<1> SUFFICES ASSUME ClientTypes, CountTypes, [Next]_vars PROVE CountTypes'
  OBVIOUS
<1> USE DEF CountTypes
<1>0. UNCHANGED callbacks => InSlots' = InSlots
  BY DEF InSlots, callbacks
<1>1. CASE OnResolve \/ ArmTimer \/ OnResolveError \/ OnTimeout \/ SignalConnection \/ CancelTimer
  <2>1. UNCHANGED callbacks
    BY <1>1 DEF OnResolve, ArmTimer, OnResolveError, OnTimeout, SignalConnection, CancelTimer
  <2>2. UNCHANGED <<starts, disconnects>> /\ connections' \in {connections, connections + 1}
    BY <1>1 DEF OnResolve, ArmTimer, OnResolveError, OnTimeout, SignalConnection, CancelTimer, told
  <2>3. QED
    BY <1>0, <2>1, <2>2
<1>2. CASE \E s \in Sessions : OnReadEnd(s) \/ OnReadError(s) \/ OnReadDestroyed(s) \/ OnWritten(s)
  BY <1>2 DEF OnReadEnd, OnReadError, OnReadDestroyed, OnWritten, InSlots, callbacks, told
<1>3. CASE \E op \in Op : OnConnected(op) \/ StartHandshake(op) \/ OnConnectFailed(op)
  <2>1. UNCHANGED callbacks
    BY <1>3 DEF OnConnected, StartHandshake, OnConnectFailed
  <2>2. UNCHANGED <<connections, disconnects>> /\ starts' \in {starts, starts + 1}
    BY <1>3 DEF OnConnected, StartHandshake, OnConnectFailed, told
  <2>3. QED
    BY <1>0, <2>1, <2>2
<1>4. CASE \E s \in Sessions : OnHandshake(s) \/ HandshakeThrows(s)
  <2>1. UNCHANGED callbacks
    BY <1>4 DEF OnHandshake, HandshakeThrows
  <2>2. UNCHANGED <<connections, disconnects>> /\ starts' \in {starts, starts + 1}
    BY <1>4 DEF OnHandshake, HandshakeThrows, told
  <2>3. QED
    BY <1>0, <2>1, <2>2
<1>5. CASE Expire \/ Write \/ Stop \/ UNCHANGED vars
  BY <1>5 DEF Expire, Write, Stop, vars, InSlots, callbacks, told
<1>6. CASE \E op \in Op : OnConnectAborted(op) \/ NextEndpoint(op)
  BY <1>6 DEF OnConnectAborted, NextEndpoint, InSlots, callbacks, told
<1>7. CASE \E s \in Sessions, how \in {"ended", "failed"} : PeerEnds(s, how)
  BY <1>7 DEF PeerEnds, InSlots, callbacks, told
<1>8. ASSUME NEW c \in CallbackThreads, NEW s \in Sessions, TakeJob(c, s) PROVE CountTypes'
  <2>1. InSlots' = InSlots \cup {c}
    BY <1>8, IdleAssumption DEF TakeJob, InSlots, ClientTypes
  <2>2. QED
    BY <1>8, <2>1, FS_AddElement DEF TakeJob, told
<1>9. CASE \E c \in CallbackThreads : SlotStartConnect(c)
  BY <1>9 DEF SlotStartConnect, InSlots, told
<1>10. ASSUME NEW c \in CallbackThreads, SlotSignalDisconnect(c) PROVE CountTypes'
  <2>1. InSlots' = InSlots \ {c}
    BY <1>10 DEF SlotSignalDisconnect, InSlots, ClientTypes
  <2>2. QED
    BY <1>10, <2>1, FS_RemoveElement DEF SlotSignalDisconnect
<1>11. QED
  BY <1>1, <1>2, <1>3, <1>4, <1>5, <1>6, <1>7, <1>8, <1>9, <1>10
     DEF Next, IoStep, Answer, CallbackStep, Environment

LEMMA SessionsFinite == IsFiniteSet(Sessions)
BY FS_Interval, ClientAssumption DEF Sessions

LEMMA SlotsOf == ClientTypes => InSlot(FALSE) \cup InSlot(TRUE) = InSlots
BY DEF ClientTypes, InSlot, InSlots

(* Every start is a read pending, an end queued or being told, or an end told. *)
Kept ==
  process # "crashed" =>
    starts = ((SumFunction(reading) + SumFunction(jobs)) + Cardinality(InSlots)) + (disconnects + readErrors)

LEMMA KeptIsEndsOnce == ClientTypes /\ CountTypes => (EveryStartEndsOnce <=> Kept)
<1> SUFFICES ASSUME ClientTypes, CountTypes PROVE EveryStartEndsOnce <=> Kept
  OBVIOUS
<1>1. PICK r \in Nat, j \in Nat, k \in Nat : r = SumFunction(reading) /\ j = SumFunction(jobs) /\ k = Cardinality(InSlots)
  <2>1. mpSession \in Sessions /\ reading \in [Sessions -> Nat] /\ jobs \in [Sessions -> Nat] /\ 0 \in Nat
    BY DEF ClientTypes
  <2>2. SumFunction(reading) \in Nat /\ SumFunction(jobs) \in Nat
    BY <2>1, SessionsFinite, SumOfUpdate DEF SumsBy
  <2>3. QED
    BY <2>2, FS_CardinalityType DEF CountTypes
<1>2. InSlot(FALSE) \cup InSlot(TRUE) = InSlots
  BY SlotsOf
<1>3. disconnects \in Nat /\ readErrors \in Nat
  BY DEF ClientTypes, CountTypes
<1>4. r + j + k + disconnects + readErrors = ((r + j) + k) + (disconnects + readErrors)
  BY <1>3
<1>5. QED
  BY <1>1, <1>2, <1>4 DEF EveryStartEndsOnce, Kept

LEMMA KeptStep == ClientTypes /\ CountTypes /\ Kept /\ [Next]_vars => Kept'
<1> SUFFICES ASSUME ClientTypes, CountTypes, Kept, [Next]_vars, process' # "crashed" PROVE Kept'
  BY DEF Kept
<1> DEFINE R == SumFunction(reading)
           J == SumFunction(jobs)
           K == Cardinality(InSlots)
<1>1. R \in Nat /\ J \in Nat /\ K \in Nat
  <2>1. mpSession \in Sessions /\ reading \in [Sessions -> Nat] /\ jobs \in [Sessions -> Nat] /\ 0 \in Nat
    BY DEF ClientTypes
  <2>2. QED
    BY <2>1, SessionsFinite, SumOfUpdate, FS_CardinalityType DEF CountTypes, SumsBy
<1>2. reading \in [Sessions -> Nat] /\ jobs \in [Sessions -> Nat] /\ mpSession \in Sessions
  BY DEF ClientTypes
<1>3. starts \in Nat /\ disconnects \in Nat /\ readErrors \in Nat
  BY DEF ClientTypes, CountTypes
<1>4. process # "crashed" => starts = ((R + J) + K) + (disconnects + readErrors)
  BY DEF Kept
<1>5. ASSUME starts' = ((R' + J') + K') + (disconnects' + readErrors') PROVE Kept'
  BY <1>5 DEF Kept
<1>6. \A s \in Sessions : reading' = [reading EXCEPT ![s] = @ + 1] => R' = R + 1
  BY <1>2, SessionsFinite, SumOfOneMore
<1>7. \A s \in Sessions : reading[s] > 0 /\ reading' = [reading EXCEPT ![s] = @ - 1] => R' = R - 1 /\ R - 1 \in Nat
  <2>1. ASSUME NEW s \in Sessions, reading[s] > 0
        PROVE  /\ SumFunction([reading EXCEPT ![s] = @ - 1]) = SumFunction(reading) - 1
               /\ SumFunction(reading) - 1 \in Nat
    BY <1>2, <2>1, SessionsFinite, SumOfOneLess
  <2>2. QED
    BY <2>1, Zenon
<1>8. \A s \in Sessions : jobs' = [jobs EXCEPT ![s] = @ + 1] => J' = J + 1
  BY <1>2, SessionsFinite, SumOfOneMore
<1>9. \A s \in Sessions : jobs[s] > 0 /\ jobs' = [jobs EXCEPT ![s] = @ - 1] => J' = J - 1 /\ J - 1 \in Nat
  <2>1. ASSUME NEW s \in Sessions, jobs[s] > 0
        PROVE  /\ SumFunction([jobs EXCEPT ![s] = @ - 1]) = SumFunction(jobs) - 1
               /\ SumFunction(jobs) - 1 \in Nat
    BY <1>2, <2>1, SessionsFinite, SumOfOneLess
  <2>2. QED
    BY <2>1, Zenon
<1>10. (reading' = reading => R' = R) /\ (jobs' = jobs => J' = J)
  OBVIOUS
<1>11. running' = running => K' = K
  BY DEF InSlots
<1> HIDE DEF R, J, K
<1>12. ASSUME process # "crashed", UNCHANGED <<starts, reading, jobs, running, disconnects, readErrors>> PROVE Kept'
  BY <1>4, <1>5, <1>10, <1>11, <1>12
<1>13. CASE OnResolve \/ ArmTimer \/ OnResolveError \/ OnTimeout \/ SignalConnection \/ CancelTimer
  BY <1>12, <1>13 DEF OnResolve, ArmTimer, OnResolveError, OnTimeout, SignalConnection, CancelTimer, callbacks, told, session, At,
     AsyncConnect, IoReady
<1>14. CASE \E op \in Op : StartHandshake(op) \/ OnConnectFailed(op) \/ OnConnectAborted(op) \/ NextEndpoint(op)
  BY <1>12, <1>14 DEF StartHandshake, OnConnectFailed, OnConnectAborted, NextEndpoint, Connects, IoReady, callbacks, told, session
<1>15. CASE Expire \/ Write \/ Stop \/ UNCHANGED vars \/ \E s \in Sessions : HandshakeThrows(s) \/ OnWritten(s)
  BY <1>12, <1>15 DEF Expire, Write, Stop, HandshakeThrows, OnWritten, vars, callbacks, told, session
<1>16. CASE \E s \in Sessions, how \in {"ended", "failed"} : PeerEnds(s, how)
  BY <1>12, <1>16 DEF PeerEnds, callbacks, told
<1>17. ASSUME NEW op \in Op, OnConnected(op) PROVE Kept'
  <2>1. R' = R + 1
    BY <1>2, <1>6, <1>17 DEF OnConnected
  <2>2. J' = J /\ K' = K
    BY <1>10, <1>11, <1>17 DEF OnConnected, callbacks
  <2>3. /\ starts' = starts + 1 /\ disconnects' = disconnects /\ readErrors' = readErrors
        /\ process # "crashed"
    BY <1>17 DEF OnConnected, Connects, IoReady
  <2>4. QED
    BY <1>1, <1>3, <1>4, <1>5, <2>1, <2>2, <2>3
<1>18. ASSUME NEW s \in Sessions, OnHandshake(s) PROVE Kept'
  <2>1. R' = R + 1 /\ J' = J /\ K' = K
    BY <1>6, <1>10, <1>11, <1>18 DEF OnHandshake, callbacks
  <2>2. /\ starts' = starts + 1 /\ disconnects' = disconnects /\ readErrors' = readErrors
        /\ process # "crashed"
    BY <1>18 DEF OnHandshake, InHandshake
  <2>3. QED
    BY <1>1, <1>3, <1>4, <1>5, <2>1, <2>2
<1>19. ASSUME NEW s \in Sessions, OnReadEnd(s) PROVE Kept'
  <2>1. R' = R - 1 /\ R - 1 \in Nat /\ J' = J + 1 /\ K' = K
    BY <1>7, <1>8, <1>11, <1>19 DEF OnReadEnd
  <2>2. UNCHANGED <<starts, disconnects, readErrors, process>>
    BY <1>19 DEF OnReadEnd, told
  <2>3. QED
    BY <1>1, <1>3, <1>4, <1>5, <2>1, <2>2
<1>20. ASSUME NEW s \in Sessions, OnReadError(s) \/ OnReadDestroyed(s) PROVE Kept'
  BY <1>1, <1>3, <1>4, <1>5, <1>7, <1>10, <1>11, <1>20 DEF OnReadError, OnReadDestroyed, callbacks
<1>21. ASSUME NEW c \in CallbackThreads, NEW s \in Sessions, TakeJob(c, s) PROVE Kept'
  <2>1. InSlots' = InSlots \cup {c} /\ c \notin InSlots
    BY <1>21, IdleAssumption DEF TakeJob, InSlots, ClientTypes
  <2>2. K' = K + 1
    BY <2>1, FS_AddElement DEF K, CountTypes
  <2>3. QED
    <3>1. R' = R /\ J' = J - 1 /\ J - 1 \in Nat
      BY <1>9, <1>10, <1>21 DEF TakeJob, session
    <3>2. UNCHANGED <<starts, disconnects, readErrors, process>>
      BY <1>21 DEF TakeJob, told
    <3>3. QED
      BY <1>1, <1>3, <1>4, <1>5, <2>2, <3>1, <3>2
<1>22. CASE \E c \in CallbackThreads : SlotStartConnect(c)
  BY <1>12, <1>22 DEF SlotStartConnect, told, session
<1>23. ASSUME NEW c \in CallbackThreads, SlotSignalDisconnect(c) PROVE Kept'
  <2>1. InSlots' = InSlots \ {c} /\ c \in InSlots
    BY <1>23 DEF SlotSignalDisconnect, InSlots, ClientTypes
  <2>2. K' = K - 1
    BY <2>1, FS_RemoveElement DEF K, CountTypes
  <2>3. QED
    BY <1>1, <1>3, <1>4, <1>5, <1>10, <1>23, <2>2 DEF SlotSignalDisconnect, session
<1>24. QED
  BY <1>13, <1>14, <1>15, <1>16, <1>17, <1>18, <1>19, <1>20, <1>21, <1>22, <1>23
     DEF Next, IoStep, Answer, CallbackStep, Environment

-----------------------------------------------------------------------------
(* As long as nobody is overtaken one thread at most is in OnConnect, and    *)
(* between Start and mSignalConnection one start is not announced yet.       *)
Alone ==
  ~overtaken =>
    /\ handler["started"] <= 1
    /\ \A s \in Sessions : handshakes[s] > 0 =>
         /\ handshakes[s] = 1 /\ handler["started"] = 0
         /\ \A u \in Sessions \ {s} : handshakes[u] = 0
Announced == ~overtaken => starts = connections + handler["started"]

LEMMA AloneStep == ClientTypes /\ Alone /\ [Next]_vars => Alone'
<1> SUFFICES ASSUME ClientTypes, Alone, [Next]_vars, ~overtaken' PROVE Alone'
  BY DEF Alone
<1>1. handler \in [Points -> Nat] /\ handshakes \in [Sessions -> Nat] /\ mpSession \in Sessions
  BY DEF ClientTypes
<1>2. IoReady => /\ ~overtaken /\ handler["started"] = 0
                 /\ \A s \in Sessions : handshakes[s] = 0
  BY <1>1, NotOvertaken DEF Points
<1>3. ASSUME handshakes' = handshakes, handler'["started"] = handler["started"], ~overtaken PROVE Alone'
  BY <1>3 DEF Alone
<1>4. CASE OnResolve
  <2>1. handler'["started"] = handler["started"]
    BY <1>1, <1>4 DEF OnResolve, Reach, Points
  <2>2. QED
    BY <1>2, <1>3, <1>4, <2>1 DEF OnResolve
<1>5. CASE ArmTimer \/ CancelTimer
  <2>1. handler'["started"] = handler["started"] /\ handshakes' = handshakes /\ overtaken' = overtaken
    BY <1>1, <1>5 DEF ArmTimer, CancelTimer, At, Leave, Points
  <2>2. QED
    BY <1>3, <2>1
<1>6. CASE SignalConnection
  <2>1. handler["started"] > 0 /\ handler'["started"] = handler["started"] - 1 /\ handshakes' = handshakes /\ overtaken' = overtaken
    BY <1>1, <1>6 DEF SignalConnection, At, Advance, Points
  <2>2. handler["started"] \in Nat
    BY <1>1 DEF Points
  <2>3. ~overtaken /\ handler["started"] = 1
    BY <2>1, <2>2 DEF Alone
  <2>4. \A s \in Sessions : ~(handshakes[s] > 0)
    BY <2>3 DEF Alone
  <2>5. QED
    BY <2>1, <2>3, <2>4 DEF Alone
<1>7. CASE OnResolveError \/ OnTimeout
  BY <1>2, <1>3, <1>7 DEF OnResolveError, OnTimeout, inside
<1>8. CASE \E s \in Sessions : OnReadEnd(s) \/ OnReadError(s) \/ OnReadDestroyed(s) \/ OnWritten(s)
  BY <1>2, <1>3, <1>8 DEF OnReadEnd, OnReadError, OnReadDestroyed, OnWritten, inside
<1>9. CASE \E op \in Op : OnConnected(op)
  <2>1. IoReady /\ handshakes' = handshakes /\ handler'["started"] = handler["started"] + 1
    BY <1>1, <1>9 DEF OnConnected, Connects, Reach, Points
  <2>2. QED
    BY <1>2, <2>1 DEF Alone
<1>10. CASE \E op \in Op : StartHandshake(op)
  <2>1. IoReady /\ handler' = handler /\ handshakes' = [handshakes EXCEPT ![mpSession] = @ + 1]
    BY <1>10 DEF StartHandshake, Connects
  <2>2. QED
    BY <1>1, <1>2, <2>1 DEF Alone
<1>11. CASE \E op \in Op : OnConnectFailed(op) \/ OnConnectAborted(op)
  BY <1>2, <1>3, <1>11 DEF OnConnectFailed, OnConnectAborted, inside
<1>12. ASSUME NEW s \in Sessions, OnHandshake(s) PROVE Alone'
  <2>1. /\ handshakes[s] > 0 /\ handshakes' = [handshakes EXCEPT ![s] = @ - 1]
        /\ handler'["started"] = handler["started"] + 1 /\ overtaken' = overtaken
    BY <1>1, <1>12 DEF OnHandshake, InHandshake, Reach, Points
  <2>2. QED
    BY <1>1, <2>1 DEF Alone
<1>13. ASSUME NEW s \in Sessions, HandshakeThrows(s) PROVE Alone'
  <2>1. /\ handshakes[s] > 0 /\ handshakes' = [handshakes EXCEPT ![s] = @ - 1]
        /\ handler' = handler /\ overtaken' = overtaken
    BY <1>13 DEF HandshakeThrows, InHandshake
  <2>2. QED
    BY <1>1, <2>1 DEF Alone
<1>14. CASE Expire \/ Write \/ Stop \/ UNCHANGED vars \/ \E op \in Op : NextEndpoint(op)
  BY <1>3, <1>14 DEF Expire, Write, Stop, NextEndpoint, vars, handlers, inside
<1>15. CASE \E s \in Sessions, how \in {"ended", "failed"} : PeerEnds(s, how)
  BY <1>3, <1>15 DEF PeerEnds, handlers, inside
<1>16. CASE \E c \in CallbackThreads : CallbackStep(c)
  BY <1>3, <1>16 DEF CallbackStep, TakeJob, SlotStartConnect, SlotSignalDisconnect, handlers, inside
<1>17. QED
  BY <1>4, <1>5, <1>6, <1>7, <1>8, <1>9, <1>10, <1>11, <1>12, <1>13, <1>14, <1>15, <1>16
     DEF Next, IoStep, Answer, Environment

LEMMA AnnouncedStep == ClientTypes /\ CountTypes /\ Announced /\ [Next]_vars => Announced'
<1> SUFFICES ASSUME ClientTypes, CountTypes, Announced, [Next]_vars, ~overtaken' PROVE Announced'
  BY DEF Announced
<1>1. /\ handler \in [Points -> Nat] /\ handler["started"] \in Nat
      /\ starts \in Nat /\ connections \in Nat
  BY DEF ClientTypes, CountTypes, Points
<1>2. IoReady => ~overtaken
  BY NotOvertaken
<1>3. ASSUME UNCHANGED <<starts, connections>>, handler'["started"] = handler["started"], ~overtaken PROVE Announced'
  BY <1>3 DEF Announced
<1>4. CASE OnResolve
  <2>1. handler'["started"] = handler["started"]
    BY <1>1, <1>4 DEF OnResolve, Reach, Points
  <2>2. QED
    BY <1>2, <1>3, <1>4, <2>1 DEF OnResolve, told
<1>5. CASE ArmTimer \/ CancelTimer
  <2>1. handler'["started"] = handler["started"] /\ overtaken' = overtaken
    BY <1>1, <1>5 DEF ArmTimer, CancelTimer, At, Leave, Points
  <2>2. QED
    BY <1>3, <1>5, <2>1 DEF ArmTimer, CancelTimer, told
<1>6. CASE SignalConnection
  <2>1. handler["started"] > 0 /\ handler'["started"] = handler["started"] - 1 /\ overtaken' = overtaken
    BY <1>1, <1>6 DEF SignalConnection, At, Advance, Points
  <2>2. QED
    BY <1>1, <1>6, <2>1 DEF Announced, SignalConnection
<1>7. CASE OnResolveError \/ OnTimeout
  BY <1>2, <1>3, <1>7 DEF OnResolveError, OnTimeout, inside, told
<1>8. CASE \E s \in Sessions : OnReadEnd(s) \/ OnReadError(s) \/ OnReadDestroyed(s) \/ OnWritten(s)
  BY <1>2, <1>3, <1>8 DEF OnReadEnd, OnReadError, OnReadDestroyed, OnWritten, inside, told
<1>9. CASE \E op \in Op : OnConnected(op)
  <2>1. /\ IoReady /\ handler'["started"] = handler["started"] + 1
        /\ starts' = starts + 1 /\ connections' = connections
    BY <1>1, <1>9 DEF OnConnected, Connects, Reach, Points
  <2>2. QED
    BY <1>1, <1>2, <2>1 DEF Announced
<1>10. CASE \E op \in Op : StartHandshake(op) \/ OnConnectFailed(op) \/ OnConnectAborted(op)
  BY <1>2, <1>3, <1>10 DEF StartHandshake, Connects, OnConnectFailed, OnConnectAborted, inside, told
<1>11. CASE \E s \in Sessions : OnHandshake(s)
  <2>1. /\ handler'["started"] = handler["started"] + 1 /\ overtaken' = overtaken
        /\ starts' = starts + 1 /\ connections' = connections
    BY <1>1, <1>11 DEF OnHandshake, Reach, Points
  <2>2. QED
    BY <1>1, <2>1 DEF Announced
<1>12. CASE \E s \in Sessions : HandshakeThrows(s)
  BY <1>3, <1>12 DEF HandshakeThrows, told
<1>13. CASE Expire \/ Write \/ Stop \/ UNCHANGED vars \/ \E op \in Op : NextEndpoint(op)
  BY <1>3, <1>13 DEF Expire, Write, Stop, NextEndpoint, vars, handlers, inside, told
<1>14. CASE \E s \in Sessions, how \in {"ended", "failed"} : PeerEnds(s, how)
  BY <1>3, <1>14 DEF PeerEnds, handlers, inside, told
<1>15. CASE \E c \in CallbackThreads : CallbackStep(c)
  BY <1>3, <1>15 DEF CallbackStep, TakeJob, SlotStartConnect, SlotSignalDisconnect, handlers, inside, told
<1>16. QED
  BY <1>4, <1>5, <1>6, <1>7, <1>8, <1>9, <1>10, <1>11, <1>12, <1>13, <1>14, <1>15
     DEF Next, IoStep, Answer, Environment

(* Nothing is told in a process that has crashed, nor while it crashes.      *)
LEMMA CrashTellsNothing ==
  [Next]_vars /\ process' = "crashed" => /\ UNCHANGED <<connections, disconnects>>
                                         /\ ~overtaken' => ~overtaken
<1> SUFFICES ASSUME [Next]_vars, process' = "crashed"
             PROVE  UNCHANGED <<connections, disconnects>> /\ (~overtaken' => ~overtaken)
  OBVIOUS
<1>1. IoReady /\ ~overtaken' => ~overtaken
  BY NotOvertaken
<1>2. CASE OnResolve \/ ArmTimer \/ OnResolveError \/ OnTimeout \/ SignalConnection \/ CancelTimer
  BY <1>2 DEF OnResolve, ArmTimer, OnResolveError, OnTimeout, SignalConnection, CancelTimer, At, IoReady
<1>3. CASE \E s \in Sessions : OnReadEnd(s) \/ OnReadError(s) \/ OnReadDestroyed(s) \/ OnWritten(s)
  BY <1>1, <1>3 DEF OnReadEnd, OnReadError, OnReadDestroyed, OnWritten, told
<1>4. CASE \E op \in Op : OnConnected(op) \/ StartHandshake(op) \/ OnConnectFailed(op) \/ OnConnectAborted(op)
  BY <1>1, <1>4 DEF OnConnected, StartHandshake, OnConnectFailed, OnConnectAborted, Connects, told
<1>5. CASE \E s \in Sessions : OnHandshake(s) \/ HandshakeThrows(s)
  BY <1>5 DEF OnHandshake, HandshakeThrows, told
<1>6. CASE Expire \/ Write \/ Stop \/ UNCHANGED vars \/ \E op \in Op : NextEndpoint(op)
  BY <1>6 DEF Expire, Write, Stop, NextEndpoint, vars, handlers, told
<1>7. CASE \E s \in Sessions, how \in {"ended", "failed"} : PeerEnds(s, how)
  BY <1>7 DEF PeerEnds, handlers, told
<1>8. CASE \E c \in CallbackThreads : CallbackStep(c)
  BY <1>8 DEF CallbackStep, TakeJob, SlotStartConnect, SlotSignalDisconnect, handlers, told
<1>9. QED
  BY <1>2, <1>3, <1>4, <1>5, <1>6, <1>7, <1>8 DEF Next, IoStep, Answer, Environment

(* A start not announced yet is still being read, and so not among those that *)
(* have ended: what was told of ends is no more than what was announced.     *)
LEMMA EndsWereAnnounced ==
  ClientTypes /\ CountTypes /\ Kept /\ StartedIsRead /\ Alone /\ Announced /\ process # "crashed"
    => ConnectionIsToldFirst
<1> SUFFICES ASSUME ClientTypes, CountTypes, Kept, StartedIsRead, Alone, Announced,
                    process # "crashed", ~overtaken
             PROVE  disconnects <= connections
  BY DEF ConnectionIsToldFirst
<1>1. mpSession \in Sessions /\ reading \in [Sessions -> Nat] /\ jobs \in [Sessions -> Nat] /\ 0 \in Nat
  BY DEF ClientTypes
<1>2. PICK r \in Nat, j \in Nat, k \in Nat : r = SumFunction(reading) /\ j = SumFunction(jobs) /\ k = Cardinality(InSlots)
  BY <1>1, SessionsFinite, SumOfUpdate, FS_CardinalityType DEF CountTypes, SumsBy
<1>3. reading[mpSession] <= r
  BY <1>1, <1>2, SessionsFinite, SumOfUpdate DEF SumsBy
<1>4. PICK h \in Nat : h = handler["started"]
  BY DEF ClientTypes, Points
<1>5. h <= 1 /\ (h > 0 => r > 0)
  BY <1>1, <1>3, <1>4 DEF Alone, StartedIsRead
<1>6. connections + h = ((r + j) + k) + (disconnects + readErrors)
  BY <1>2, <1>4 DEF Kept, Announced
<1>7. QED
  BY <1>5, <1>6 DEF ClientTypes, CountTypes

-----------------------------------------------------------------------------
(* The one thing the client waits for, if no handler was overtaken and the   *)
(* timer did not expire before an answer: which of the sessions it is about  *)
(* is then never in doubt.                                                   *)
Holds(lookups, attempts, expired, starting, reads) ==
  /\ resolves = lookups /\ timeouts = expired
  /\ \A op \in Op : connects[op] = IF op = [s |-> mpSession, again |-> FALSE] THEN attempts ELSE 0
  /\ \A s \in Sessions : handshakes[s] = IF s = mpSession THEN starting ELSE 0
  /\ \A s \in Sessions : reading[s] = IF s = mpSession THEN reads ELSE 0
Only(point) == \A p \in Points : handler[p] = IF p = point THEN 1 ELSE 0
NoPoint == \A p \in Points : handler[p] = 0
NoJob == \A s \in Sessions : jobs[s] = 0
OneJob == \E s \in Sessions : jobs[s] = 1 /\ \A u \in Sessions \ {s} : jobs[u] = 0
ToTell(c) == running[c] # Idle /\ ~started[c]
NobodyTells == \A c \in CallbackThreads : ~ToTell(c)
OneTells == \E c \in CallbackThreads : ToTell(c) /\ \A d \in CallbackThreads \ {c} : ~ToTell(d)

LookingUp == Holds(1, 0, 0, 0, 0) /\ NoPoint /\ NoJob /\ NobodyTells
Attempting == /\ Holds(0, 1, 0, 0, 0) /\ NoJob /\ NobodyTells
              /\ \/ timer /\ NoPoint
                 \/ ~timer /\ Only("resolved")
Over == Holds(0, 0, 0, 0, 0) /\ NoPoint /\ NoJob /\ NobodyTells
TimedOut == Holds(0, 0, 1, 0, 0) /\ ~timer /\ NoPoint /\ NoJob /\ NobodyTells
Starting == Holds(0, 0, 0, 1, 0) /\ timer /\ NoPoint /\ NoJob /\ NobodyTells
BeingRead == /\ Holds(0, 0, 0, 0, 1) /\ NoJob /\ NobodyTells
             /\ \/ ~timer /\ NoPoint
                \/ timer /\ (Only("started") \/ Only("signalled"))
Posted == Holds(0, 0, 0, 0, 0) /\ ~timer /\ NoPoint /\ OneJob /\ NobodyTells
Telling == Holds(0, 0, 0, 0, 0) /\ ~timer /\ NoPoint /\ NoJob /\ OneTells

Stage == \/ LookingUp \/ Attempting \/ Over \/ TimedOut
         \/ Starting \/ BeingRead \/ Posted \/ Telling
OneAtATime == process # "crashed" /\ silences = 0 /\ ~overtaken => Stage

AttemptTypes == connects \in [Op -> Nat] /\ silences \in Nat /\ timer \in BOOLEAN

LEMMA AttemptTypesStep == ClientTypes /\ AttemptTypes /\ [Next]_vars => AttemptTypes'
<1> SUFFICES ASSUME ClientTypes, AttemptTypes, [Next]_vars PROVE AttemptTypes'
  OBVIOUS
<1> USE DEF AttemptTypes
<1>0. \A again \in BOOLEAN : [s |-> mpSession, again |-> again] \in Op
  BY DEF ClientTypes, Op
<1>1. ASSUME NEW f \in [Op -> Nat], NEW o \in Op PROVE [f EXCEPT ![o] = @ + 1] \in [Op -> Nat]
  OBVIOUS
<1>2. ASSUME NEW o \in Op, connects[o] > 0 PROVE [connects EXCEPT ![o] = @ - 1] \in [Op -> Nat]
  <2>1. connects[o] - 1 \in Nat
    BY <1>2
  <2>2. QED
    BY <2>1
<1>3. CASE OnResolve
  <2>1. connects' \in [Op -> Nat]
    BY <1>0, <1>1, <1>3 DEF OnResolve, AsyncConnect
  <2>2. QED
    BY <1>3, <2>1 DEF OnResolve, bounds
<1>4. CASE ArmTimer \/ OnResolveError \/ SignalConnection \/ CancelTimer \/ OnTimeout
  BY <1>4 DEF ArmTimer, OnResolveError, SignalConnection, CancelTimer, OnTimeout, attempt, clock, bounds
<1>5. CASE \E s \in Sessions : OnReadEnd(s) \/ OnReadError(s) \/ OnReadDestroyed(s) \/ OnWritten(s)
  BY <1>5 DEF OnReadEnd, OnReadError, OnReadDestroyed, OnWritten, attempt, clock, bounds
<1>6. CASE \E op \in Op : OnConnected(op) \/ StartHandshake(op)
  BY <1>2, <1>6 DEF OnConnected, StartHandshake, Connects, Completed, clock, bounds
<1>7. CASE \E op \in Op : OnConnectFailed(op)
  BY <1>2, <1>7 DEF OnConnectFailed, Completed, clock
<1>8. ASSUME NEW op \in Op, OnConnectAborted(op) PROVE AttemptTypes'
  <2>1. PICK f : f = [connects EXCEPT ![op] = @ - 1]
    OBVIOUS
  <2>2. f \in [Op -> Nat]
    BY <1>2, <1>8, <2>1 DEF OnConnectAborted
  <2>3. connects' = [f EXCEPT ![[s |-> mpSession, again |-> TRUE]] = @ + 1]
    BY <1>8, <2>1 DEF OnConnectAborted, AsyncConnect
  <2>4. connects' \in [Op -> Nat]
    BY <1>0, <1>1, <2>2, <2>3
  <2>5. QED
    BY <1>8, <2>4 DEF OnConnectAborted, clock, bounds
<1>9. CASE \E s \in Sessions : OnHandshake(s) \/ HandshakeThrows(s)
  BY <1>9 DEF OnHandshake, HandshakeThrows, attempt, clock, bounds
<1>10. CASE Expire
  <2>1. connects' = connects /\ silences' \in {silences, silences + 1}
    BY <1>10 DEF Expire, attempt
  <2>2. timer' = FALSE
    BY <1>10 DEF Expire
  <2>3. timer' \in BOOLEAN
    BY <2>2, Zenon
  <2>4. QED
    BY <2>1, <2>3
<1>11. CASE Write \/ Stop \/ UNCHANGED vars \/ \E op \in Op : NextEndpoint(op)
  BY <1>11 DEF Write, Stop, NextEndpoint, vars, attempt, clock, bounds
<1>12. CASE \E s \in Sessions, how \in {"ended", "failed"} : PeerEnds(s, how)
  BY <1>12 DEF PeerEnds, attempt, clock
<1>13. CASE \E c \in CallbackThreads : CallbackStep(c)
  BY <1>13 DEF CallbackStep, TakeJob, SlotStartConnect, SlotSignalDisconnect, attempt, clock, bounds
<1>14. QED
  BY <1>3, <1>4, <1>5, <1>6, <1>7, <1>8, <1>9, <1>10, <1>11, <1>12, <1>13
     DEF Next, IoStep, Answer, Environment

LEMMA StageOf ==
  ASSUME ClientTypes, AttemptTypes, Stage
  PROVE  /\ resolves > 0 => LookingUp
         /\ timeouts > 0 => TimedOut
         /\ \A op \in Op : connects[op] > 0 => Attempting /\ op = [s |-> mpSession, again |-> FALSE]
         /\ \A s \in Sessions : handshakes[s] > 0 => Starting /\ s = mpSession
         /\ \A s \in Sessions : reading[s] > 0 => BeingRead /\ s = mpSession
         /\ \A s \in Sessions : jobs[s] > 0 => Posted
         /\ \A c \in CallbackThreads : ToTell(c) => Telling
<1> USE DEF Stage, LookingUp, Attempting, Over, TimedOut, Starting, BeingRead, Posted, Telling, Holds
<1>1. resolves > 0 => LookingUp
  OBVIOUS
<1>2. timeouts > 0 => TimedOut
  OBVIOUS
<1>3. ASSUME NEW op \in Op, connects[op] > 0 PROVE Attempting /\ op = [s |-> mpSession, again |-> FALSE]
  BY <1>3
<1>4. ASSUME NEW s \in Sessions, handshakes[s] > 0 PROVE Starting /\ s = mpSession
  BY <1>4
<1>5. ASSUME NEW s \in Sessions, reading[s] > 0 PROVE BeingRead /\ s = mpSession
  BY <1>5
<1>6. ASSUME NEW s \in Sessions, jobs[s] > 0 PROVE Posted
  BY <1>6 DEF NoJob
<1>7. ASSUME NEW c \in CallbackThreads, ToTell(c) PROVE Telling
  BY <1>7 DEF NobodyTells
<1>8. QED
  BY <1>1, <1>2, <1>3, <1>4, <1>5, <1>6, <1>7

LEMMA StageOfPoint ==
  ASSUME ClientTypes, AttemptTypes, Stage
  PROVE  /\ handler["resolved"] > 0 => Attempting /\ ~timer /\ Only("resolved")
         /\ handler["started"] > 0 => BeingRead /\ timer /\ Only("started")
         /\ handler["signalled"] > 0 => BeingRead /\ timer /\ Only("signalled")
<1>1. NoPoint => handler["resolved"] = 0 /\ handler["started"] = 0 /\ handler["signalled"] = 0
  BY DEF NoPoint, Points
<1>2. Only("resolved") => handler["started"] = 0 /\ handler["signalled"] = 0
  BY DEF Only, Points
<1>3. Only("started") => handler["resolved"] = 0 /\ handler["signalled"] = 0
  BY DEF Only, Points
<1>4. Only("signalled") => handler["resolved"] = 0 /\ handler["started"] = 0
  BY DEF Only, Points
<1>5. ASSUME ~NoPoint PROVE (Attempting /\ ~timer /\ Only("resolved")) \/ (BeingRead /\ timer /\ (Only("started") \/ Only("signalled")))
  BY <1>5 DEF Stage, LookingUp, Attempting, Over, TimedOut, Starting, BeingRead, Posted, Telling
<1>6. QED
  BY <1>1, <1>2, <1>3, <1>4, <1>5

(* A stage stays what it is if nothing of what it speaks of changes.         *)
LEMMA SameStage ==
  ASSUME Stage, UNCHANGED <<mpSession, resolves, connects, handler, handshakes, timer, timeouts, reading, jobs>>,
         \A c \in CallbackThreads : ToTell(c)' <=> ToTell(c)
  PROVE  Stage'
<1>1. ASSUME NEW n1, NEW n2, NEW n3, NEW n4, NEW n5 PROVE Holds(n1, n2, n3, n4, n5)' <=> Holds(n1, n2, n3, n4, n5)
  BY DEF Holds
<1>2. NoPoint' = NoPoint /\ NoJob' = NoJob /\ OneJob' = OneJob
  BY DEF NoPoint, NoJob, OneJob
<1>3. (NobodyTells' <=> NobodyTells) /\ (OneTells' <=> OneTells)
  BY DEF NobodyTells, OneTells
<1>4. ASSUME NEW p PROVE Only(p)' <=> Only(p)
  BY DEF Only
<1>5. QED
  BY <1>1, <1>2, <1>3, <1>4
     DEF Stage, LookingUp, Attempting, Over, TimedOut, Starting, BeingRead, Posted, Telling

(* OnResolve, OnConnect and OnTimeout.                                       *)
LEMMA StageOfIoStep ==
  ASSUME ClientTypes, AttemptTypes, Stage, IoStep, ~overtaken', process' # "crashed"
  PROVE  Stage'
<1>1. /\ mpSession \in Sessions /\ mpSession + 1 # mpSession /\ reading \in [Sessions -> Nat]
      /\ handler \in [Points -> Nat] /\ handshakes \in [Sessions -> Nat] /\ jobs \in [Sessions -> Nat]
  BY DEF ClientTypes, Sessions
<1>2. IoReady => NoPoint /\ \A s \in Sessions : handshakes[s] = 0
  BY <1>1, NotOvertaken DEF Points, NoPoint
<1>3. UNCHANGED <<running, started>> => \A c \in CallbackThreads : ToTell(c)' <=> ToTell(c)
  BY DEF ToTell
<1>4. CASE OnResolve
  <2>1. LookingUp
    BY <1>4, StageOf DEF OnResolve
  <2>2. /\ resolves' = 0 /\ timeouts' = 0 /\ mpSession' = mpSession /\ ~timer'
        /\ handshakes' = handshakes /\ reading' = reading /\ jobs' = jobs
        /\ connects' = [connects EXCEPT ![[s |-> mpSession, again |-> FALSE]] = @ + 1]
        /\ UNCHANGED <<running, started>>
        /\ handler' = [handler EXCEPT !["resolved"] = @ + 1]
    BY <1>4, <2>1 DEF OnResolve, AsyncConnect, Reach, LookingUp, Holds, callbacks
  <2>3. Only("resolved")'
    BY <1>1, <2>1, <2>2 DEF Only, LookingUp, NoPoint, Points
  <2>4. Holds(0, 1, 0, 0, 0)'
    <3>1. PICK cur \in Op : cur = [s |-> mpSession, again |-> FALSE]
      BY <1>1 DEF Op
    <3>2. \A op \in Op : connects'[op] = IF op = cur THEN 1 ELSE 0
      BY <2>1, <2>2, <3>1 DEF LookingUp, Holds, AttemptTypes
    <3>3. QED
      BY <2>1, <2>2, <3>1, <3>2 DEF LookingUp, Holds
  <2>5. NoJob' /\ NobodyTells'
    BY <1>3, <2>1, <2>2 DEF LookingUp, NoJob, NobodyTells
  <2>6. QED
    BY <2>2, <2>3, <2>4, <2>5 DEF Stage, Attempting
<1>5. CASE ArmTimer
  <2>1. Attempting /\ Only("resolved")
    BY <1>5, StageOfPoint DEF ArmTimer, At
  <2>2. timer' /\ UNCHANGED <<mpSession, resolves, connects, timeouts, handshakes, reading, jobs, running, started>>
    BY <1>5 DEF ArmTimer, At, attempt, session, callbacks
  <2>3. NoPoint'
    BY <1>1, <1>5, <2>1 DEF ArmTimer, Leave, NoPoint, Only, Points
  <2>4. Holds(0, 1, 0, 0, 0)'
    BY <2>1, <2>2 DEF Attempting, Holds
  <2>5. NoJob' /\ NobodyTells'
    BY <1>3, <2>1, <2>2 DEF Attempting, NoJob, NobodyTells
  <2>6. QED
    BY <2>2, <2>3, <2>4, <2>5 DEF Stage, Attempting
<1>6. CASE OnResolveError
  <2>1. LookingUp
    BY <1>6, StageOf DEF OnResolveError
  <2>2. resolves' = 0 /\ UNCHANGED <<mpSession, connects, handler, timeouts, handshakes, reading, jobs, running, started>>
    BY <1>6, <2>1 DEF OnResolveError, inside, clock, session, callbacks, LookingUp, Holds
  <2>3. Holds(0, 0, 0, 0, 0)' /\ NoPoint' /\ NoJob'
    BY <2>1, <2>2 DEF LookingUp, Holds, NoPoint, NoJob
  <2>4. NobodyTells'
    BY <1>3, <2>1, <2>2 DEF LookingUp, NobodyTells
  <2>5. QED
    BY <2>3, <2>4 DEF Stage, Over
<1>7. CASE OnTimeout
  <2>1. TimedOut
    BY <1>7, StageOf DEF OnTimeout
  <2>2. /\ mpSession' = mpSession + 1 /\ resolves' = 1 /\ timeouts' = 0
        /\ UNCHANGED <<connects, handler, handshakes, reading, jobs, running, started>>
    BY <1>7, <2>1 DEF OnTimeout, inside, session, callbacks, TimedOut, Holds
  <2>3. Holds(1, 0, 0, 0, 0)' /\ NoPoint' /\ NoJob'
    BY <2>1, <2>2 DEF TimedOut, Holds, NoPoint, NoJob
  <2>4. NobodyTells'
    BY <1>3, <2>1, <2>2 DEF TimedOut, NobodyTells
  <2>5. QED
    BY <2>3, <2>4 DEF Stage, LookingUp
<1>8. CASE SignalConnection
  <2>1. BeingRead /\ timer /\ Only("started")
    BY <1>8, StageOfPoint DEF SignalConnection, At
  <2>2. UNCHANGED <<mpSession, resolves, connects, timer, timeouts, handshakes, reading, jobs, running, started>>
    BY <1>8 DEF SignalConnection, At, attempt, clock, session, callbacks
  <2>3. Only("signalled")'
    <3>1. handler["resolved"] = 0 /\ handler["started"] = 1 /\ handler["signalled"] = 0
      BY <2>1 DEF Only, Points
    <3>2. handler'["resolved"] = 0 /\ handler'["started"] = 0 /\ handler'["signalled"] = 1
      BY <1>1, <1>8, <3>1 DEF SignalConnection, Advance, Points
    <3>3. QED
      BY <3>2 DEF Only, Points
  <2>4. Holds(0, 0, 0, 0, 1)' /\ NoJob'
    BY <2>1, <2>2 DEF BeingRead, Holds, NoJob
  <2>5. NobodyTells'
    BY <1>3, <2>1, <2>2 DEF BeingRead, NobodyTells
  <2>6. QED
    BY <2>1, <2>2, <2>3, <2>4, <2>5 DEF Stage, BeingRead
<1>9. CASE CancelTimer
  <2>1. BeingRead /\ Only("signalled")
    BY <1>9, StageOfPoint DEF CancelTimer, At
  <2>2. ~timer' /\ UNCHANGED <<mpSession, resolves, connects, timeouts, handshakes, reading, jobs, running, started>>
    BY <1>9 DEF CancelTimer, At, attempt, session, callbacks
  <2>3. NoPoint'
    BY <1>1, <1>9, <2>1 DEF CancelTimer, Leave, NoPoint, Only, Points
  <2>4. Holds(0, 0, 0, 0, 1)' /\ NoJob'
    BY <2>1, <2>2 DEF BeingRead, Holds, NoJob
  <2>5. NobodyTells'
    BY <1>3, <2>1, <2>2 DEF BeingRead, NobodyTells
  <2>6. QED
    BY <2>2, <2>3, <2>4, <2>5 DEF Stage, BeingRead
<1>10. ASSUME NEW s \in Sessions, OnReadEnd(s) PROVE Stage'
  <2>1. BeingRead /\ s = mpSession /\ IoReady
    BY <1>10, StageOf DEF OnReadEnd
  <2>2. /\ UNCHANGED <<mpSession, resolves, connects, handler, handshakes, timer, timeouts, running, started>>
        /\ reading' = [reading EXCEPT ![s] = @ - 1] /\ jobs' = [jobs EXCEPT ![s] = @ + 1]
    BY <1>10 DEF OnReadEnd, attempt, inside, clock
  <2>3. ~timer /\ NoPoint
    BY <1>2, <2>1 DEF BeingRead, Only, NoPoint, Points
  <2>4. Holds(0, 0, 0, 0, 0)' /\ NoPoint'
    BY <1>1, <2>1, <2>2, <2>3 DEF BeingRead, Holds, NoPoint
  <2>5. OneJob'
    BY <1>1, <2>1, <2>2 DEF BeingRead, NoJob, OneJob
  <2>6. NobodyTells'
    BY <1>3, <2>1, <2>2 DEF BeingRead, NobodyTells
  <2>7. QED
    BY <2>2, <2>3, <2>4, <2>5, <2>6 DEF Stage, Posted
<1>11. ASSUME NEW s \in Sessions, OnReadError(s) PROVE Stage'
  <2>1. BeingRead /\ s = mpSession /\ IoReady
    BY <1>11, StageOf DEF OnReadError
  <2>2. /\ UNCHANGED <<mpSession, resolves, connects, handler, handshakes, timer, timeouts, jobs, running, started>>
        /\ reading' = [reading EXCEPT ![s] = @ - 1]
    BY <1>11 DEF OnReadError, attempt, inside, clock, callbacks
  <2>3. NoPoint
    BY <1>2, <2>1
  <2>4. Holds(0, 0, 0, 0, 0)' /\ NoPoint' /\ NoJob'
    BY <1>1, <2>1, <2>2, <2>3 DEF BeingRead, Holds, NoPoint, NoJob
  <2>5. NobodyTells'
    BY <1>3, <2>1, <2>2 DEF BeingRead, NobodyTells
  <2>6. QED
    BY <2>4, <2>5 DEF Stage, Over
<1>12. ASSUME NEW s \in Sessions PROVE ~OnReadDestroyed(s)
  BY StageOf DEF OnReadDestroyed, Alive
<1>13. CASE \E s \in Sessions : OnWritten(s)
  BY <1>3, <1>13, SameStage DEF OnWritten, attempt, inside, clock, callbacks
<1>14. QED
  BY <1>4, <1>5, <1>6, <1>7, <1>8, <1>9, <1>10, <1>11, <1>12, <1>13 DEF IoStep

(* An attempt that succeeds or fails, and the handshake.                     *)
LEMMA StageOfAnswer ==
  ASSUME ClientTypes, AttemptTypes, Stage, Answer, ~overtaken', process' # "crashed"
  PROVE  Stage'
<1>1. /\ mpSession \in Sessions /\ reading \in [Sessions -> Nat] /\ handler \in [Points -> Nat]
      /\ handshakes \in [Sessions -> Nat]
  BY DEF ClientTypes
<1>2. IoReady => NoPoint /\ \A s \in Sessions : handshakes[s] = 0
  BY <1>1, NotOvertaken DEF Points, NoPoint
<1>3. UNCHANGED <<running, started>> => \A c \in CallbackThreads : ToTell(c)' <=> ToTell(c)
  BY DEF ToTell
<1>4. ASSUME NEW op \in Op, Completed(op), IoReady
      PROVE  /\ Attempting /\ timer /\ NoPoint
             /\ \A o \in Op : connects'[o] = 0
  <2>1. Attempting /\ op = [s |-> mpSession, again |-> FALSE]
    BY <1>4, StageOf DEF Completed
  <2>2. timer /\ NoPoint
    BY <1>2, <1>4, <2>1 DEF Attempting, Only, NoPoint, Points
  <2>3. connects[op] = 1 /\ \A o \in Op \ {op} : connects[o] = 0
    BY <2>1 DEF Attempting, Holds
  <2>4. \A o \in Op : connects'[o] = 0
    BY <1>4, <2>3 DEF Completed, AttemptTypes
  <2>5. QED
    BY <2>1, <2>2, <2>4
<1>5. ASSUME NEW op \in Op, OnConnected(op) PROVE Stage'
  <2>1. Attempting /\ timer /\ NoPoint /\ \A o \in Op : connects'[o] = 0
    BY <1>4, <1>5 DEF OnConnected, Connects
  <2>2. /\ UNCHANGED <<mpSession, resolves, handshakes, timer, timeouts, jobs, running, started>>
        /\ reading' = [reading EXCEPT ![mpSession] = @ + 1]
        /\ handler' = [handler EXCEPT !["started"] = @ + 1]
    BY <1>5 DEF OnConnected, Reach, clock, callbacks
  <2>3. Only("started")'
    BY <1>1, <2>1, <2>2 DEF Only, NoPoint, Points
  <2>4. Holds(0, 0, 0, 0, 1)' /\ NoJob'
    BY <1>1, <2>1, <2>2 DEF Attempting, Holds, NoJob
  <2>5. NobodyTells'
    BY <1>3, <2>1, <2>2 DEF Attempting, NobodyTells
  <2>6. QED
    BY <2>1, <2>2, <2>3, <2>4, <2>5 DEF Stage, BeingRead
<1>6. ASSUME NEW op \in Op, StartHandshake(op) PROVE Stage'
  <2>1. Attempting /\ timer /\ NoPoint /\ \A o \in Op : connects'[o] = 0
    BY <1>4, <1>6 DEF StartHandshake, Connects
  <2>2. /\ UNCHANGED <<mpSession, resolves, handler, reading, timer, timeouts, jobs, running, started>>
        /\ handshakes' = [handshakes EXCEPT ![mpSession] = @ + 1]
    BY <1>6 DEF StartHandshake, clock, callbacks
  <2>3. Holds(0, 0, 0, 1, 0)' /\ NoJob' /\ NoPoint'
    BY <1>1, <2>1, <2>2 DEF Attempting, Holds, NoJob, NoPoint
  <2>4. NobodyTells'
    BY <1>3, <2>1, <2>2 DEF Attempting, NobodyTells
  <2>5. QED
    BY <2>1, <2>2, <2>3, <2>4 DEF Stage, Starting
<1>7. ASSUME NEW op \in Op, OnConnectFailed(op) PROVE Stage'
  <2>1. Attempting /\ timer /\ NoPoint /\ \A o \in Op : connects'[o] = 0
    BY <1>4, <1>7 DEF OnConnectFailed
  <2>2. UNCHANGED <<mpSession, resolves, handler, handshakes, reading, timer, timeouts, jobs, running, started>>
    BY <1>7 DEF OnConnectFailed, inside, clock, session, callbacks
  <2>3. Holds(0, 0, 0, 0, 0)' /\ NoJob' /\ NoPoint'
    BY <2>1, <2>2 DEF Attempting, Holds, NoJob, NoPoint
  <2>4. NobodyTells'
    BY <1>3, <2>1, <2>2 DEF Attempting, NobodyTells
  <2>5. QED
    BY <2>3, <2>4 DEF Stage, Over
<1>8. ASSUME NEW s \in Sessions, OnHandshake(s) PROVE Stage'
  <2>1. Starting /\ s = mpSession
    BY <1>8, StageOf DEF OnHandshake, InHandshake
  <2>2. /\ UNCHANGED <<mpSession, resolves, connects, timer, timeouts, jobs, running, started>>
        /\ handshakes' = [handshakes EXCEPT ![s] = @ - 1]
        /\ reading' = [reading EXCEPT ![s] = @ + 1]
        /\ handler' = [handler EXCEPT !["started"] = @ + 1]
    BY <1>8 DEF OnHandshake, InHandshake, Reach, attempt, clock, callbacks
  <2>3. Only("started")'
    BY <1>1, <2>1, <2>2 DEF Starting, Only, NoPoint, Points
  <2>4. \A u \in Sessions : handshakes'[u] = 0
    BY <1>1, <2>1, <2>2 DEF Starting, Holds
  <2>5. \A u \in Sessions : reading'[u] = IF u = mpSession THEN 1 ELSE 0
    BY <1>1, <2>1, <2>2 DEF Starting, Holds
  <2>6. Holds(0, 0, 0, 0, 1)' /\ NoJob'
    BY <2>1, <2>2, <2>4, <2>5 DEF Starting, Holds, NoJob
  <2>7. NobodyTells'
    BY <1>3, <2>1, <2>2 DEF Starting, NobodyTells
  <2>8. QED
    BY <2>1, <2>2, <2>3, <2>6, <2>7 DEF Stage, BeingRead, Starting
<1>9. ASSUME NEW s \in Sessions PROVE ~HandshakeThrows(s)
  BY DEF HandshakeThrows
<1>10. QED
  BY <1>5, <1>6, <1>7, <1>8, <1>9 DEF Answer

(* The timer, the slot of the disconnect signal, the network and the user.   *)
LEMMA StageOfOthers ==
  ASSUME ClientTypes, AttemptTypes, Stage, silences = 0, silences' = 0, ~overtaken',
         Expire \/ (\E c \in CallbackThreads : CallbackStep(c)) \/ Environment \/ UNCHANGED vars
  PROVE  Stage'
<1>1. jobs \in [Sessions -> Nat] /\ running \in [CallbackThreads -> Sessions \cup {Idle}]
      /\ started \in [CallbackThreads -> BOOLEAN] /\ mpSession \in Sessions
  BY DEF ClientTypes
<1>2. UNCHANGED <<running, started>> => \A c \in CallbackThreads : ToTell(c)' <=> ToTell(c)
  BY DEF ToTell
<1>3. CASE Expire
  <2>1. /\ UNCHANGED <<mpSession, resolves, connects, handler, handshakes, reading, jobs, running, started>>
        /\ timer /\ ~timer' /\ timeouts' = timeouts + 1
    BY <1>3 DEF Expire, attempt, handlers, inside, session, callbacks
  <2>2. resolves = 0 /\ ~Connecting /\ ~InHandler
    BY <1>3 DEF Expire, AttemptTypes, ClientTypes
  <2>3. \A op \in Op : ~(connects[op] > 0)
    BY <2>2 DEF Connecting
  <2>4. \A p \in Points : ~(handler[p] > 0)
    BY <2>2 DEF InHandler
  <2>5. \A s \in Sessions : ~(handshakes[s] > 0)
    BY <2>2 DEF InHandler
  <2>6. Over
    <3>1. ~Starting
      BY <1>1, <2>5 DEF Starting, Holds
    <3>2. ~Attempting
      <4>1. PICK cur \in Op : cur = [s |-> mpSession, again |-> FALSE]
        BY <1>1 DEF Op
      <4>2. Attempting => connects[cur] = 1
        BY <4>1 DEF Attempting, Holds
      <4>3. QED
        BY <2>3, <4>2
    <3>3. ~BeingRead
      BY <2>1, <2>4 DEF BeingRead, Only, Points
    <3>4. ~LookingUp /\ ~TimedOut /\ ~Posted /\ ~Telling
      BY <2>1, <2>2 DEF LookingUp, TimedOut, Posted, Telling, Holds
    <3>5. QED
      BY <3>1, <3>2, <3>3, <3>4 DEF Stage
  <2>7. Holds(0, 0, 1, 0, 0)' /\ NoPoint' /\ NoJob'
    BY <2>1, <2>6 DEF Over, Holds, NoPoint, NoJob
  <2>8. NobodyTells'
    BY <1>2, <2>1, <2>6 DEF Over, NobodyTells
  <2>9. QED
    BY <2>1, <2>7, <2>8 DEF Stage, TimedOut
<1>4. ASSUME NEW c \in CallbackThreads, NEW s \in Sessions, TakeJob(c, s) PROVE Stage'
  <2>1. Posted
    BY <1>4, StageOf DEF TakeJob
  <2>2. /\ UNCHANGED <<mpSession, resolves, connects, handler, handshakes, timer, timeouts, reading>>
        /\ running[c] = Idle /\ jobs[s] > 0
        /\ running' = [running EXCEPT ![c] = s] /\ jobs' = [jobs EXCEPT ![s] = @ - 1]
        /\ started' = [started EXCEPT ![c] = FALSE]
    BY <1>4 DEF TakeJob, attempt, handlers, inside, clock, session
  <2>3. Holds(0, 0, 0, 0, 0)' /\ NoPoint'
    BY <2>1, <2>2 DEF Posted, Holds, NoPoint
  <2>4. NoJob'
    BY <1>1, <2>1, <2>2 DEF Posted, OneJob, NoJob
  <2>5. ToTell(c)'
    BY <1>1, <2>2, IdleAssumption DEF ToTell
  <2>6. \A d \in CallbackThreads \ {c} : ~ToTell(d)'
    BY <1>1, <2>1, <2>2 DEF Posted, NobodyTells, ToTell
  <2>7. OneTells'
    BY <2>5, <2>6 DEF OneTells
  <2>8. QED
    BY <2>1, <2>2, <2>3, <2>4, <2>7 DEF Stage, Telling, Posted
<1>5. ASSUME NEW c \in CallbackThreads, SlotStartConnect(c) PROVE Stage'
  <2>1. Telling /\ ToTell(c)
    BY <1>5, StageOf DEF SlotStartConnect, ToTell
  <2>2. /\ UNCHANGED <<mpSession, connects, handler, handshakes, timer, timeouts, reading, jobs, running>>
        /\ started' = [started EXCEPT ![c] = TRUE] /\ resolves' = 1
    BY <1>5, <2>1 DEF SlotStartConnect, handlers, inside, clock, session, Telling, Holds
  <2>3. Holds(1, 0, 0, 0, 0)' /\ NoPoint' /\ NoJob'
    BY <2>1, <2>2 DEF Telling, Holds, NoPoint, NoJob
  <2>4. \A d \in CallbackThreads \ {c} : ~ToTell(d)
    BY <2>1 DEF Telling, OneTells
  <2>5. NobodyTells'
    BY <1>1, <2>2, <2>4 DEF NobodyTells, ToTell
  <2>6. QED
    BY <2>3, <2>5 DEF Stage, LookingUp
<1>6. ASSUME NEW c \in CallbackThreads, SlotSignalDisconnect(c) PROVE Stage'
  <2>1. /\ UNCHANGED <<mpSession, resolves, connects, handler, handshakes, timer, timeouts, reading, jobs, started>>
        /\ started[c] /\ running' = [running EXCEPT ![c] = Idle]
    BY <1>6 DEF SlotSignalDisconnect, attempt, handlers, inside, clock, session
  <2>2. \A d \in CallbackThreads : ToTell(d)' <=> ToTell(d)
    BY <1>1, <2>1 DEF ToTell
  <2>3. QED
    BY <2>1, <2>2, SameStage
<1>7. ASSUME NEW op \in Op PROVE ~OnConnectAborted(op)
  <2>1. connects[op] > 0 => op.s = mpSession
    BY StageOf
  <2>2. QED
    BY <2>1 DEF OnConnectAborted, Alive
<1>8. CASE Write \/ Stop \/ UNCHANGED vars \/ \E op \in Op : NextEndpoint(op)
  BY <1>2, <1>8, SameStage DEF Write, Stop, NextEndpoint, vars, attempt, handlers, inside, clock, session, callbacks
<1>9. CASE \E s \in Sessions, how \in {"ended", "failed"} : PeerEnds(s, how)
  BY <1>2, <1>9, SameStage DEF PeerEnds, attempt, handlers, inside, clock, callbacks
<1>10. QED
  BY <1>3, <1>4, <1>5, <1>6, <1>7, <1>8, <1>9 DEF CallbackStep, Environment

(* That a handler was overtaken, that the timer expired too early and that   *)
(* the process has crashed is never forgotten.                               *)
LEMMA Remembered ==
  ASSUME AttemptTypes, [Next]_vars
  PROVE  /\ ~overtaken' => ~overtaken
         /\ silences' = 0 => silences = 0
         /\ process' # "crashed" => process # "crashed"
<1>1. IoReady => process = "running" /\ (~overtaken' => ~overtaken)
  BY NotOvertaken DEF IoReady
<1>2. CASE OnResolve \/ OnResolveError \/ OnTimeout
  BY <1>1, <1>2 DEF OnResolve, OnResolveError, OnTimeout, bounds
<1>3. CASE ArmTimer \/ SignalConnection \/ CancelTimer
  BY <1>3 DEF ArmTimer, SignalConnection, CancelTimer, At, bounds
<1>4. CASE \E s \in Sessions : OnReadEnd(s) \/ OnReadError(s) \/ OnReadDestroyed(s) \/ OnWritten(s)
  BY <1>1, <1>4 DEF OnReadEnd, OnReadError, OnReadDestroyed, OnWritten, bounds
<1>5. CASE \E op \in Op : OnConnected(op) \/ StartHandshake(op) \/ OnConnectFailed(op) \/ OnConnectAborted(op)
  BY <1>1, <1>5 DEF OnConnected, StartHandshake, Connects, OnConnectFailed, OnConnectAborted, bounds
<1>6. CASE \E s \in Sessions : OnHandshake(s) \/ HandshakeThrows(s)
  BY <1>6 DEF OnHandshake, HandshakeThrows, InHandshake, bounds
<1>7. CASE Expire
  <2>1. silences' = 0 => silences = 0
    BY <1>7 DEF Expire, AttemptTypes
  <2>2. QED
    BY <1>7, <2>1 DEF Expire, handlers
<1>8. CASE Write \/ Stop \/ UNCHANGED vars \/ \E op \in Op : NextEndpoint(op)
  BY <1>8 DEF Write, Stop, NextEndpoint, vars, handlers, bounds
<1>9. CASE \E s \in Sessions, how \in {"ended", "failed"} : PeerEnds(s, how)
  BY <1>9 DEF PeerEnds, handlers
<1>10. CASE \E c \in CallbackThreads : CallbackStep(c)
  BY <1>10 DEF CallbackStep, TakeJob, SlotStartConnect, SlotSignalDisconnect, handlers, bounds
<1>11. QED
  BY <1>2, <1>3, <1>4, <1>5, <1>6, <1>7, <1>8, <1>9, <1>10 DEF Next, IoStep, Answer, Environment

LEMMA OneAtATimeStep ==
  ClientTypes /\ AttemptTypes /\ OneAtATime /\ [Next]_vars => OneAtATime'
<1> SUFFICES ASSUME ClientTypes, AttemptTypes, OneAtATime, [Next]_vars,
                    process' # "crashed", silences' = 0, ~overtaken'
             PROVE  Stage'
  BY DEF OneAtATime
<1>1. Stage /\ silences = 0
  BY Remembered DEF OneAtATime
<1>2. QED
  BY <1>1, StageOfIoStep, StageOfAnswer, StageOfOthers DEF Next

(* Whatever crashes the process gives no session a read or a handshake.      *)
LEMMA CrashReadsNothing ==
  ASSUME ClientTypes, [Next]_vars, process' = "crashed"
  PROVE  /\ mpSession' = mpSession
         /\ \A s \in Sessions : handshakes'[s] <= handshakes[s] /\ reading'[s] <= reading[s]
<1>1. handshakes \in [Sessions -> Nat] /\ reading \in [Sessions -> Nat]
  BY DEF ClientTypes
<1>2. CASE UNCHANGED <<attempt, inside, session>>
  BY <1>1, <1>2 DEF attempt, inside, session
<1>3. CASE OnResolve \/ ArmTimer \/ OnResolveError \/ OnTimeout \/ SignalConnection \/ CancelTimer
  BY <1>3 DEF OnResolve, ArmTimer, OnResolveError, OnTimeout, SignalConnection, CancelTimer, At, IoReady
<1>4. CASE \E s \in Sessions : OnReadEnd(s) \/ OnReadError(s) \/ OnReadDestroyed(s) \/ OnWritten(s)
  <2>1. PICK s \in Sessions : OnReadEnd(s) \/ OnReadError(s) \/ OnReadDestroyed(s) \/ OnWritten(s)
    BY <1>4
  <2>2. /\ mpSession' = mpSession /\ handshakes' = handshakes
        /\ reading' = [reading EXCEPT ![s] = @ - 1] \/ reading' = reading
    BY <2>1 DEF OnReadEnd, OnReadError, OnReadDestroyed, OnWritten, attempt, inside
  <2>3. QED
    BY <1>1, <2>2
<1>5. CASE \E op \in Op : OnConnected(op) \/ StartHandshake(op) \/ OnConnectAborted(op)
  BY <1>5 DEF OnConnected, StartHandshake, OnConnectAborted, Connects, IoReady
<1>6. CASE \E op \in Op : OnConnectFailed(op)
  BY <1>1, <1>6 DEF OnConnectFailed, inside, session
<1>7. CASE \E s \in Sessions : OnHandshake(s)
  BY <1>7 DEF OnHandshake, InHandshake
<1>8. ASSUME NEW s \in Sessions, HandshakeThrows(s)
      PROVE  /\ mpSession' = mpSession /\ reading' = reading
             /\ handshakes' = [handshakes EXCEPT ![s] = @ - 1]
  BY <1>8 DEF HandshakeThrows, InHandshake, attempt, session
<1>9. CASE \E s \in Sessions : HandshakeThrows(s)
  BY <1>1, <1>8, <1>9
<1>10. CASE Expire \/ Write \/ Stop \/ UNCHANGED vars \/ \E op \in Op : NextEndpoint(op)
  BY <1>1, <1>10 DEF Expire, Write, Stop, NextEndpoint, vars, attempt, handlers, inside, session
<1>11. CASE \E s \in Sessions, how \in {"ended", "failed"} : PeerEnds(s, how)
  BY <1>1, <1>11 DEF PeerEnds, attempt, handlers, inside
<1>12. CASE \E c \in CallbackThreads : CallbackStep(c)
  BY <1>1, <1>12 DEF CallbackStep, TakeJob, SlotStartConnect, SlotSignalDisconnect, attempt, handlers, inside, session
<1>13. QED
  BY <1>3, <1>4, <1>5, <1>6, <1>7, <1>9, <1>10, <1>11, <1>12 DEF Next, IoStep, Answer, Environment

(* In every stage the reads and handshakes are those of the current session. *)
LEMMA StageReadsCurrent == ClientTypes /\ OneAtATime /\ process # "crashed" => OnlyCurrentSessionIsRead
<1> SUFFICES ASSUME ClientTypes, Stage, NEW s \in Sessions
             PROVE  handshakes[s] + reading[s] <= (IF s = mpSession THEN 1 ELSE 0)
  BY DEF OneAtATime, OnlyCurrentSessionIsRead
<1>1. QED
  BY DEF Stage, LookingUp, Attempting, Over, TimedOut, Starting, BeingRead, Posted, Telling, Holds

LEMMA OnlyCurrentStep ==
  ClientTypes /\ ClientTypes' /\ AttemptTypes /\ OneAtATime' /\ OnlyCurrentSessionIsRead /\ [Next]_vars
    => OnlyCurrentSessionIsRead'
<1> SUFFICES ASSUME ClientTypes, ClientTypes', AttemptTypes, OneAtATime', OnlyCurrentSessionIsRead, [Next]_vars
             PROVE  OnlyCurrentSessionIsRead'
  OBVIOUS
<1>1. CASE process' # "crashed"
  <2>1. (ClientTypes /\ OneAtATime /\ process # "crashed" => OnlyCurrentSessionIsRead)'
    BY StageReadsCurrent, PTL
  <2>2. QED
    BY <1>1, <2>1
<1>2. CASE process' = "crashed"
  <2> SUFFICES ASSUME silences' = 0, ~overtaken', NEW s \in Sessions
               PROVE  handshakes'[s] + reading'[s] <= (IF s = mpSession' THEN 1 ELSE 0)
    BY DEF OnlyCurrentSessionIsRead
  <2>1. silences = 0 /\ ~overtaken
    BY Remembered
  <2>2. handshakes[s] + reading[s] <= (IF s = mpSession THEN 1 ELSE 0)
    BY <2>1 DEF OnlyCurrentSessionIsRead
  <2>3. mpSession' = mpSession /\ handshakes'[s] <= handshakes[s] /\ reading'[s] <= reading[s]
    BY <1>2, CrashReadsNothing
  <2>4. {handshakes[s], reading[s], handshakes'[s], reading'[s]} \subseteq Nat
    BY DEF ClientTypes
  <2>5. QED
    BY <2>2, <2>3, <2>4
<1>3. QED
  BY <1>1, <1>2

-----------------------------------------------------------------------------
CountInv == CountTypes /\ Kept /\ Alone /\ Announced /\ ConnectionIsToldFirst
StageInv == AttemptTypes /\ OneAtATime /\ OnlyCurrentSessionIsRead

(* Nothing is started, counted or told yet.                                  *)
LEMMA InitCountInv == Init => CountInv
<1> SUFFICES ASSUME Init PROVE CountInv
  OBVIOUS
<1>1. InSlots = {}
  BY DEF Init, InSlots, Each
<1>2. IsFiniteSet(InSlots) /\ Cardinality(InSlots) = 0
  BY <1>1, FS_EmptySet
<1>3. SumFunction(reading) = 0 /\ SumFunction(jobs) = 0
  BY SessionsFinite, SumOfZeros DEF Init, Each
<1>4. CountTypes /\ Kept
  BY <1>2, <1>3 DEF Init, CountTypes, Kept
<1>5. Alone /\ Announced /\ ConnectionIsToldFirst
  BY DEF Init, Alone, Announced, ConnectionIsToldFirst, Points, Each
<1>6. QED
  BY <1>4, <1>5 DEF CountInv

(* The constructor's lookup is all there is.                                 *)
LEMMA InitStageInv == Init => StageInv
<1> SUFFICES ASSUME Init PROVE StageInv
  OBVIOUS
<1>1. AttemptTypes
  BY DEF Init, AttemptTypes, Each
<1>2. Holds(1, 0, 0, 0, 0) /\ NoPoint /\ NoJob
  BY DEF Init, Holds, NoPoint, NoJob, Each
<1>3. NobodyTells
  BY DEF Init, NobodyTells, ToTell, Each
<1>4. OneAtATime
  BY <1>2, <1>3 DEF OneAtATime, Stage, LookingUp
<1>5. OnlyCurrentSessionIsRead
  BY DEF Init, OnlyCurrentSessionIsRead, Each
<1>6. QED
  BY <1>1, <1>4, <1>5 DEF StageInv

LEMMA CountInvStep == IInv /\ IInv' /\ CountInv /\ [Next]_vars => CountInv'
<1> SUFFICES ASSUME IInv, IInv', CountInv, [Next]_vars PROVE CountInv'
  OBVIOUS
<1>1. CountTypes' /\ Kept' /\ Alone' /\ Announced'
  BY CountTypesStep, KeptStep, AloneStep, AnnouncedStep DEF IInv, CountInv
<1>2. (ClientTypes /\ CountTypes /\ Kept /\ StartedIsRead /\ Alone /\ Announced /\ process # "crashed"
         => ConnectionIsToldFirst)'
  BY EndsWereAnnounced, PTL
<1>3. process' = "crashed" => ConnectionIsToldFirst'
  BY CrashTellsNothing DEF CountInv, ConnectionIsToldFirst
<1>4. QED
  BY <1>1, <1>2, <1>3 DEF IInv, CountInv

LEMMA StageInvStep == IInv /\ IInv' /\ StageInv /\ [Next]_vars => StageInv'
BY AttemptTypesStep, OneAtATimeStep, OnlyCurrentStep DEF IInv, StageInv

(* Whatever is interleaved, lost or refused: a start of a session ends in    *)
(* one emission of mSignalOnDisconnect or one read error, or is still to end *)
(* (Session.cpp:48-66, Client.hpp:176-189).                                  *)
THEOREM StartsAreAccountedFor == Spec => []EveryStartEndsOnce
<1>1. IInv /\ CountInv => EveryStartEndsOnce
  BY KeptIsEndsOnce DEF IInv, CountInv
<1>2. QED
  BY InitIInv, IInvStep, InitCountInv, CountInvStep, <1>1, PTL DEF Spec

(* No end is told before its connection was, though a callback thread tells  *)
(* the one and an IO thread the other, unless OnConnect is overtaken: the    *)
(* connection not told yet is then still being read, and so has not ended    *)
(* (Client.hpp:182, 238-242).                                                *)
THEOREM ToldInOrder == Spec => []ConnectionIsToldFirst
<1>1. CountInv => ConnectionIsToldFirst
  BY DEF CountInv
<1>2. QED
  BY InitIInv, IInvStep, InitCountInv, CountInvStep, <1>1, PTL DEF Spec

(* As long as nothing is overtaken and the timer is not too early, the       *)
(* client is in one of eight stages, in none of which a session other than   *)
(* the current one is read or started (Client.hpp:159, 238).                 *)
THEOREM OthersAreNotRead == Spec => []OnlyCurrentSessionIsRead
<1>1. StageInv => OnlyCurrentSessionIsRead
  BY DEF StageInv
<1>2. QED
  BY InitIInv, IInvStep, InitStageInv, StageInvStep, <1>1, PTL DEF Spec
=============================================================================
