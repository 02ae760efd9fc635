----------------------------- MODULE WsClientMC -----------------------------
(* Two IO threads, one callback thread. *)
EXTENDS WsClient
CONSTANTS io1, io2, c1
=============================================================================
