----------------------------- MODULE MCMpppConsole ----------------------------
(* Instances of MpppConsole for TLC: no -quit, -quit 0, the -quit of a        *)
(* negative number, and countdowns of one and of a few ticks.                 *)
EXTENDS MpppConsole

Opt(q, t) == [g_quit |-> q, g_quit_time |-> t]

MCOptions == {Opt(FALSE, 0)} \union {Opt(TRUE, t) : t \in {-2, 0, 1, 4}}
MCEnterOnly == {Opt(FALSE, 0)}
=============================================================================
