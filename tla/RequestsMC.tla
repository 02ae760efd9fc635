----------------------------- MODULE RequestsMC -----------------------------
(* Two requests of one program. *)
EXTENDS Requests
CONSTANTS r1, r2
=============================================================================
