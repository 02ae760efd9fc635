----------------------------- MODULE FifoWriter -----------------------------
(***************************************************************************)
(* What the Write of a session promises its callers: the messages go out    *)
(* whole, once, in the order in which they were written, until the          *)
(* connection breaks.  A message is transmitted in `Parts` parts.  The code *)
(* has no such type; Writers is checked against it, with `loose` for what   *)
(* ends the promise in the classes that do not keep it for ever.            *)
(***************************************************************************)
EXTENDS Naturals, Sequences

CONSTANTS
  Messages,    \* what is written
  Parts        \* parts a message is transmitted in, at least one

VARIABLES submitted, wire, broken, loose

vars == <<submitted, wire, broken>>

(* The i-th part that has to go out, of the messages in `msgs`.             *)
PartAt(msgs, i) == [msg |-> msgs[((i - 1) \div Parts) + 1], part |-> ((i - 1) % Parts) + 1]

Init == submitted = <<>> /\ wire = <<>> /\ ~broken /\ ~loose

Write ==
  /\ \E m \in Messages : submitted' = Append(submitted, m)
  /\ UNCHANGED <<wire, broken>>

Transmit ==
  /\ ~broken /\ ~loose
  /\ \E n \in 1..(Len(submitted) * Parts - Len(wire)) :
       wire' = wire \o [i \in 1..n |-> PartAt(submitted, Len(wire) + i)]
  /\ UNCHANGED <<submitted, broken>>

Break ==
  /\ ~broken /\ broken' = TRUE
  /\ UNCHANGED <<submitted, wire>>

(* Nothing is promised any more.                                           *)
Loosen == loose'

Next == Write \/ Transmit \/ Break \/ Loosen

SafeSpec == Init /\ [][Next]_vars
Spec == SafeSpec /\ WF_vars(Transmit)
=============================================================================
