---------------------------- MODULE TcpClientMC ----------------------------
(* One or two callback threads; both kinds of sessions. *)
EXTENDS TcpClient
CONSTANTS c1, c2, idle
=============================================================================
