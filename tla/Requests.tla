------------------------------ MODULE Requests ------------------------------
(***************************************************************************)
(* dl::request::MakeRequest (Requests/Requests.cpp:77-151): each request    *)
(* has a detached thread with a tcp::Client of one IO and one callback      *)
(* thread, whose slots write the request, settle its promise and wake the   *)
(* thread.  The client connects, tells of it and connects again as module   *)
(* TcpClient has it; the server answers what was written, in chunks, of     *)
(* which Responce::AddBytes accepts the last, and closes.  One connection   *)
(* of these, with its bytes, is module Http; what the two would name alike   *)
(* has the prefix Requests here, so that a module can extend both.           *)
(***************************************************************************)
EXTENDS Naturals

CONSTANTS
  Requests,         \* the calls of Get and Post
  Chunks,           \* in how many chunks an answer comes
  MaxRefusals,      \* bound: connections refused, all requests together
  MaxReconnects     \* bound: connections closed after the answer, and made again

ASSUME RequestsAssumption == Chunks \in Nat \ {0} /\ {MaxRefusals, MaxReconnects} \subseteq Nat

VARIABLES
  FirstTime,     \* the static of the connection slot, one for the program
  worker,        \* the thread of each request
  link,          \* the connection of its client
  io,            \* whether its IO thread has found FirstTime set
  toCome,        \* chunks of its answer still to be received
  notifying,     \* its callback thread is between set_value and notify_one
  promise,       \* what its future holds
  process,       \* "terminated" when an exception leaves a slot
  heard,         \* requests whose connection slot was called
  written,       \* how often each request was written
  spurious,      \* requests whose wait returned for no reason
  refusals, reconnects

network == <<link, toCome, refusals, reconnects>>
slots == <<FirstTime, io, heard, written>>
result == <<promise, process>>
requestVars == <<network, slots, result, worker, notifying, spurious>>

RequestsInit ==
  /\ FirstTime = TRUE /\ worker = [r \in Requests |-> "none"]
  /\ link = [r \in Requests |-> "down"] /\ io = [r \in Requests |-> "idle"]
  /\ toCome = [r \in Requests |-> 0] /\ notifying = [r \in Requests |-> FALSE]
  /\ promise = [r \in Requests |-> "none"] /\ process = "running"
  /\ heard = {} /\ written = [r \in Requests |-> 0] /\ spurious = {}
  /\ refusals = 0 /\ reconnects = 0

(* The thread: it makes the client, connects its three slots and waits.      *)
Follows == [none |-> "client", client |-> "rx", rx |-> "error", error |-> "connection",
            connection |-> "waiting"]

Advance(r) ==
  /\ process = "running" /\ worker[r] \in DOMAIN Follows
  /\ worker' = [worker EXCEPT ![r] = Follows[@]]
  /\ UNCHANGED <<network, slots, result, notifying, spurious>>

(* Its client exists, and the slot that it connects at `step` is there.      *)
HasClient(r) == process = "running" /\ worker[r] \notin {"none", "done"}
HasSlot(r, step) ==
  worker[r] \in (CASE step = "error" -> {"error", "connection", "waiting", "woken"}
                   [] step = "connection" -> {"connection", "waiting", "woken"})

(* mSignalConnection: the slot tests FirstTime, if it is connected in time.  *)
Connected(r) ==
  /\ HasClient(r) /\ link[r] = "down" /\ io[r] = "idle"
  /\ link' = [link EXCEPT ![r] = "up"]
  /\ IF HasSlot(r, "connection")
       THEN /\ heard' = heard \cup {r}
            /\ io' = IF FirstTime THEN [io EXCEPT ![r] = "first"] ELSE io
       ELSE UNCHANGED <<heard, io>>
  /\ UNCHANGED <<FirstTime, written, worker, toCome, refusals, reconnects, notifying, result, spurious>>

(* Mutant of WriteData: FirstTime is left set.                               *)
WriteAgain(r) ==
  /\ HasClient(r) /\ io[r] = "first"
  /\ written' = [written EXCEPT ![r] = @ + 1] /\ toCome' = [toCome EXCEPT ![r] = Chunks]
  /\ io' = [io EXCEPT ![r] = "idle"]
  /\ UNCHANGED <<FirstTime, heard, link, refusals, reconnects, worker, notifying, result, spurious>>

(* Client.Write(Data); FirstTime = false.  The server answers what it reads. *)
WriteData(r) ==
  /\ HasClient(r) /\ io[r] = "first"
  /\ written' = [written EXCEPT ![r] = @ + 1] /\ FirstTime' = FALSE
  /\ toCome' = [toCome EXCEPT ![r] = Chunks]
  /\ io' = [io EXCEPT ![r] = "idle"]
  /\ UNCHANGED <<heard, link, refusals, reconnects, worker, notifying, result, spurious>>

(* A promise is settled once: the second time the slot throws, and nothing   *)
(* catches what leaves the thread of an io_service.                          *)
Settle(r, outcome) ==
  IF promise[r] = "none"
    THEN promise' = [promise EXCEPT ![r] = outcome] /\ UNCHANGED process
    ELSE process' = "terminated" /\ UNCHANGED promise

(* mSignalConnectionError; the client's timer makes it try again.            *)
Refused(r) ==
  /\ HasClient(r) /\ link[r] = "down" /\ io[r] = "idle"
  /\ refusals < MaxRefusals /\ refusals' = refusals + 1
  /\ IF HasSlot(r, "error") THEN Settle(r, "exception") ELSE UNCHANGED result
  /\ UNCHANGED <<slots, link, toCome, reconnects, worker, notifying, spurious>>

(* Mutants of Rx: notify_one for every chunk, set_value for none.            *)
RxNotify(r) ==
  /\ HasClient(r) /\ link[r] = "up" /\ toCome[r] > 0 /\ ~notifying[r]
  /\ toCome' = [toCome EXCEPT ![r] = @ - 1]
  /\ IF toCome[r] = 1 THEN Settle(r, "value") ELSE UNCHANGED result
  /\ notifying' = [notifying EXCEPT ![r] = TRUE]
  /\ UNCHANGED <<slots, link, refusals, reconnects, worker, spurious>>

RxUnsettled(r) ==
  /\ HasClient(r) /\ link[r] = "up" /\ toCome[r] > 0 /\ ~notifying[r]
  /\ toCome' = [toCome EXCEPT ![r] = @ - 1]
  /\ UNCHANGED <<slots, link, refusals, reconnects, worker, notifying, result, spurious>>

(* mSignalOnRx, on the callback thread, until the answer is complete.        *)
Rx(r) ==
  /\ HasClient(r) /\ link[r] = "up" /\ toCome[r] > 0 /\ ~notifying[r]
  /\ toCome' = [toCome EXCEPT ![r] = @ - 1]
  /\ IF toCome[r] = 1
       THEN Settle(r, "value") /\ notifying' = [notifying EXCEPT ![r] = (promise[r] = "none")]
       ELSE UNCHANGED <<result, notifying>>
  /\ UNCHANGED <<slots, link, refusals, reconnects, worker, spurious>>

(* ... after the thread has destroyed Responce, Condition and Mutex, before   *)
(* ~Client: anything may happen, the end of the program included.            *)
RxDestroyed(r) ==
  /\ HasClient(r) /\ worker[r] = "woken" /\ link[r] = "up" /\ toCome[r] > 0
  /\ process' = "terminated"
  /\ UNCHANGED <<network, slots, promise, worker, notifying, spurious>>

(* Condition.notify_one(): it is lost on a thread that does not wait yet.    *)
Notify(r) ==
  /\ HasClient(r) /\ notifying[r] /\ notifying' = [notifying EXCEPT ![r] = FALSE]
  /\ worker' = IF worker[r] = "waiting" THEN [worker EXCEPT ![r] = "woken"] ELSE worker
  /\ UNCHANGED <<network, slots, result, spurious>>

(* Condition.wait has no predicate: it may return for no reason.             *)
WakeUp(r) ==
  /\ process = "running" /\ worker[r] = "waiting"
  /\ worker' = [worker EXCEPT ![r] = "woken"] /\ spurious' = spurious \cup {r}
  /\ UNCHANGED <<network, slots, result, notifying>>

(* The server closes after its answer, and the client connects again.        *)
Close(r) ==
  /\ HasClient(r) /\ link[r] = "up" /\ written[r] > 0 /\ toCome[r] = 0
  /\ reconnects < MaxReconnects /\ reconnects' = reconnects + 1
  /\ link' = [link EXCEPT ![r] = "down"]
  /\ UNCHANGED <<slots, toCome, refusals, worker, notifying, result, spurious>>

(* ~Client joins its threads and the promise is destroyed.                   *)
End(r) ==
  /\ process = "running" /\ worker[r] = "woken" /\ io[r] = "idle" /\ ~notifying[r]
  /\ worker' = [worker EXCEPT ![r] = "done"]
  /\ promise' = IF promise[r] = "none" THEN [promise EXCEPT ![r] = "broken"] ELSE promise
  /\ UNCHANGED <<network, slots, process, notifying, spurious>>

Serve(r) == Connected(r) \/ WriteData(r) \/ Rx(r) \/ Notify(r) \/ End(r)

RequestsNext == \E r \in Requests : Advance(r) \/ Serve(r) \/ Refused(r) \/ WakeUp(r)
                                    \/ RxDestroyed(r) \/ Close(r)

RequestsSpec == RequestsInit /\ [][RequestsNext]_requestVars

(* The threads run, and the network connects and answers.                    *)
RequestsFairSpec ==
  RequestsSpec /\ \A r \in Requests : WF_requestVars(Advance(r)) /\ WF_requestVars(Serve(r))

-----------------------------------------------------------------------------
(* No request is sent a second time, though its client connects again after  *)
(* every disconnection and calls the connection slot again (Requests.cpp     *)
(* 124-129): a POST is not repeated.                                         *)
NeverSentTwice == \A r \in Requests : written[r] <= 1

(* The thread destroys what its slots refer to only when the answer was      *)
(* complete and the future ready: no chunk arrives after it was woken        *)
(* (Requests.cpp:91-106, 134), unless the wait returned for no reason.       *)
WokenWhenAnswered ==
  \A r \in Requests : worker[r] \in {"woken", "done"} /\ r \notin spurious
                        => promise[r] = "value" /\ toCome[r] = 0

(* A request that was written settles its future, whatever its client does   *)
(* after that, unless an earlier refusal settled it first or an exception    *)
(* leaves a slot (Requests.cpp:100-104, 117).                                *)
WrittenIsAnswered ==
  \A r \in Requests : written[r] > 0 ~> promise[r] # "none" \/ process = "terminated"

(* A request whose connection slot is called is written: Test/RequestTest.cpp*)
(* 13-18 makes several requests in one program.                              *)
HeardIsWritten ==
  \A r \in Requests :
    r \in heard ~> written[r] > 0 \/ worker[r] = "done" \/ process = "terminated"
=============================================================================
