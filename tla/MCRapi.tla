------------------------------- MODULE MCRapi -------------------------------
(* Small instances of Rapi: uploads of some pieces and single calls.        *)
EXTENDS Rapi, TLC
CONSTANTS u, w, e, c, d
Upload(n) == <<"open">> \o [i \in 1..n |-> "write"] \o <<"close">>
MCProgram == (u :> Upload(2)) @@ (w :> Upload(1)) @@ (e :> Upload(0)) @@ (c :> <<"call">>) @@ (d :> <<"call">>)
===============================================================================
