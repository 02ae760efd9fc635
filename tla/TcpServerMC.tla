---------------------------- MODULE TcpServerMC ----------------------------
(* Two connections and the next accept; one or two callback threads.         *)
EXTENDS TcpServer

CONSTANTS c1, c2
=============================================================================
