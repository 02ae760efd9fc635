------------------------------- MODULE HttpMC -------------------------------
(* A GET and a POST with a line break in a body each way, and a first line   *)
(* of one word.                                                              *)
EXTENDS Http, TLC

MCWords == STRING
MCAsks == {[line |-> <<"GET", "/">>, body |-> <<>>],
           [line |-> <<"POST", "/post">>, body |-> <<NL, "data">>],
           [line |-> <<"GET">>, body |-> <<>>]}
MCAnswers == ([type |-> "eGet", url |-> "/"] :> [status |-> "200", body |-> <<"data", NL>>])
             @@ ([type |-> "ePost", url |-> "/post"] :> [status |-> "201", body |-> <<>>])
MCLengthLine(n) == "Content-Length: " \o ToString(n)
=============================================================================
