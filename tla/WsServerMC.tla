----------------------------- MODULE WsServerMC -----------------------------
(* One connection and the next accept; one callback thread.                  *)
EXTENDS WsServer

CONSTANTS c1
=============================================================================
