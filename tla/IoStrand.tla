------------------------------ MODULE IoStrand ------------------------------
(***************************************************************************)
(* asio's io_service and strand, as the sessions use them: a handler that   *)
(* was wrapped by a strand is posted to the queue of the io_service; one of *)
(* its threads takes it from the queue and only then enters it into the     *)
(* strand, which runs its handlers one at a time in the order they entered. *)
(* Two threads can therefore enter two handlers in either order.            *)
(***************************************************************************)
EXTENDS Naturals, Sequences, FiniteSets

VARIABLES
  ioQueue,       \* handlers posted to the io_service
  held,          \* handlers that a thread has taken and not yet entered
  strand         \* handlers entered into the strand

io == <<ioQueue, held, strand>>

IoInit == ioQueue = <<>> /\ held = {} /\ strand = <<>>

Post(task) == ioQueue' = Append(ioQueue, task)

(* One of `threads` threads is idle and takes a handler.                    *)
Take(threads) ==
  /\ Cardinality(held) < threads /\ ioQueue # <<>>
  /\ held' = held \cup {Head(ioQueue)}
  /\ ioQueue' = Tail(ioQueue)
  /\ UNCHANGED strand

Enter(task) ==
  /\ task \in held
  /\ strand' = Append(strand, task)
  /\ held' = held \ {task}
  /\ UNCHANGED ioQueue

(* A handler of this kind is next in the strand and runs to its end.        *)
InStrand(kind) ==
  /\ strand # <<>> /\ Head(strand).kind = kind
  /\ strand' = Tail(strand)
=============================================================================
