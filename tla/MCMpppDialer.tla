----------------------------- MODULE MCMpppDialer -----------------------------
(* Small instances of MpppDialer.                                          *)
EXTENDS MpppDialer, TLC

Config(redial, loop, n, script) ==
    [max_redial |-> redial, max_loop |-> loop, n_numbers |-> n, script |-> script]

\* Both kinds of entries, the answer to the last one decides.
Chat == <<"expect", "send", "expect">>

\* Two passes over two numbers, two calls to each; no calls at all; an empty
\* script and MaxLoop 0.
MCConfigs == {Config(2, 2, 2, Chat), Config(0, 2, 1, Chat), Config(1, 0, 2, <<>>)}

\* Three passes over three numbers, three calls to each.
MCDeepPlan == {Config(3, 3, 3, <<"expect">>)}

\* The pids are interchangeable in everything but liveness.
PidSymmetry == Permutations(Pids)

\* Every configuration.
MCAllConfigs == MCConfigs \cup MCDeepPlan
=============================================================================
