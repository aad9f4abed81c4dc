------------------------------ MODULE MCEditres ------------------------------
(***************************************************************************)
(* Two clients, one of which speaks an older version than meditres does.   *)
(***************************************************************************)
EXTENDS Editres, TLC

CONSTANTS a, b

MCSpeaks == (a :> 4) @@ (b :> 5)
=============================================================================
