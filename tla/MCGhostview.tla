------------------------------ MODULE MCGhostview -----------------------------
(* Small instances of Ghostview.                                           *)
EXTENDS Ghostview

\* A page is longer than the buffer, the setup is empty.
MCLength == [p \in Parts |-> IF p = Prolog THEN 1 ELSE IF p = Setups THEN 0 ELSE 3]
=============================================================================
