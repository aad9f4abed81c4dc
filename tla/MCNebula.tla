------------------------------- MODULE MCNebula -------------------------------
(* Small instances of Nebula.                                              *)
EXTENDS Nebula
=============================================================================
