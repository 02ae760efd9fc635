----------------------------- MODULE SignalMC -----------------------------
(* The signals of a tcp::Client: slots of the new-connection signal connect *)
(* to the session's disconnect signal, whose slots forward to the client's. *)
EXTENDS Signal, TLC

CONSTANTS t1, t2, newConnection, sessionDisconnect, clientDisconnect,
          onNew, forward, user

MCSlots == {onNew, forward, user}
MCSignals == {newConnection, sessionDisconnect, clientDisconnect}
MCSlotsOf == (newConnection :> {onNew}) @@ (sessionDisconnect :> {forward, user})
             @@ (clientDisconnect :> {user})
MCBody == (onNew :> [op |-> "connect", sig |-> sessionDisconnect, slot |-> user])
          @@ (forward :> [op |-> "emit", sig |-> clientDisconnect, slot |-> NoSlot])
          @@ (user :> NoCall)
MCRank == (newConnection :> 2) @@ (sessionDisconnect :> 1) @@ (clientDisconnect :> 0)

(* The instance keeps the discipline the theorems assume.                   *)
ASSUME NestingAssumption == Nested(MCRank)
=============================================================================
