----------------------------- MODULE WritersMC -----------------------------
(* Three messages of up to two parts each, in every class. *)
EXTENDS Writers
=============================================================================
