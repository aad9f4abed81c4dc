------------------------------ MODULE MCXltHost ------------------------------
(***************************************************************************)
(* Three timers: that of the output, that of a binary block, and one more. *)
(***************************************************************************)
EXTENDS XltHost, TLC

CONSTANTS t1, t2, t3

TimerSymmetry == Permutations(Timers)
=============================================================================
