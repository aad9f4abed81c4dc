------------------------------ MODULE MpppConsole -----------------------------
(***************************************************************************)
(* The build of mppp without Motif, from the moment the script is through: *)
(* startPPP forks pppd and stays in one of three ends, chosen by -quit,    *)
(* while the SIGCHLD handler may run at any step and interrupts the calls  *)
(* that block.  The dialing before it is that of MpppDialer without the    *)
(* button.  main calls startPPP once, so there is one pppd.                *)
(*                                                                         *)
(* pc: "exec", "forked", "started", "mark" as in MpppDialer; "leaving" is  *)
(* sleep(5) of -quit 0; "count" and "expire" are the loop of -quit N;      *)
(* "look", "show", "select", "getchar" and "enter" are the loop that waits *)
(* for the Enter key, inside waitforEnter for the middle two.              *)
(***************************************************************************)
EXTENDS Integers

CONSTANT Options    \* the -quit options it may be started with

OptionType == [g_quit : BOOLEAN, g_quit_time : Int]
ASSUME OptionAssumption == Options \subseteq OptionType

VARIABLES
    pc,
    opt,            \* g_quit and g_quit_time, in ticks of the loop
    i,              \* startPPP's countdown
    s_modemfd,      \* "open" or "closed"
    call,           \* "none", "ours" or "pppd", as in MpppDialer
    tracked,        \* pppd_id is set; pppd_pid, the local copy, stays
    s_pppd_state, s_pppd_is_dead,
    child, sigchld, \* pppd and the pending signal, as in MpppDialer
    typed,          \* a line waits on stdin, or its end
    term,           \* SIGTERM was sent to pppd
    lines,          \* lines of the log about this connection
    collected       \* where the thread was when the handler collected pppd

pppd == <<tracked, s_pppd_state, s_pppd_is_dead>>
logv == <<lines, collected>>
console == <<pc, opt, i, s_modemfd, call, pppd, child, sigchld, typed, term, logv>>

PCs == {"exec", "forked", "started", "mark", "leaving", "count", "expire",
        "look", "show", "select", "getchar", "enter", "exited"}
Watching == {"count", "expire", "look", "show", "select", "getchar", "enter"}

\* The call may be missing: a silent modem counts as a script that is through.
ConsoleInit == /\ pc = "exec"
               /\ opt \in Options /\ i = 0
               /\ s_modemfd = "open" /\ call \in {"none", "ours"}
               /\ tracked = FALSE /\ s_pppd_state = 0 /\ s_pppd_is_dead = FALSE
               /\ child = "none" /\ sigchld = FALSE
               /\ typed = FALSE
               /\ term = FALSE
               /\ lines = 0 /\ collected = "none"
-----------------------------------------------------------------------------
\* Dropping DTR needs an open descriptor.
hangupModem == call' = IF s_modemfd = "open" THEN "none" ELSE call

writeLog == lines' = lines + 1

\* Mutant: the signal 0 of the comment above the loops.
KillProbe == /\ lines' \in IF child = "reaped" THEN {lines, lines + 1} ELSE {lines + 1}
             /\ UNCHANGED term

\* kill(pppd_pid,SIGTERM) succeeds on a zombie, and a success is logged.  Once pppd
\* was collected its id is nobody's, or another process's that may be signalled.
Kill == \/ child # "reaped" /\ writeLog /\ term' = TRUE
        \/ child = "reaped" /\ (writeLog \/ UNCHANGED lines) /\ UNCHANGED term

Fork == /\ pc = "exec"
        /\ child' = "live"
        /\ call' = IF call = "ours" THEN "pppd" ELSE call
        /\ pc' = "forked"
        /\ UNCHANGED <<opt, i, s_modemfd, pppd, sigchld, typed, term, logv>>

ForkFailed == /\ pc = "exec"
              /\ hangupModem
              /\ pc' = "exited"
              /\ UNCHANGED <<opt, i, s_modemfd, pppd, child, sigchld, typed,
                             term, logv>>

setpppdId == /\ pc = "forked"
             /\ tracked' = TRUE
             /\ pc' = "started"
             /\ UNCHANGED <<opt, i, s_modemfd, call, s_pppd_state, s_pppd_is_dead,
                            child, sigchld, typed, term, logv>>

Started == /\ pc = "started" /\ tracked
           /\ pc' = "mark"
           /\ UNCHANGED <<opt, i, s_modemfd, call, pppd, child, sigchld, typed,
                          term, logv>>

StartedDead == /\ pc = "started" /\ ~tracked
               /\ hangupModem
               /\ pc' = "exited"
               /\ UNCHANGED <<opt, i, s_modemfd, pppd, child, sigchld, typed,
                              term, logv>>

\* setPPPDState(1), and the end that -quit asks for.
Connected == /\ pc = "mark"
             /\ s_pppd_state' = 1
             /\ i' = IF opt.g_quit THEN opt.g_quit_time ELSE 0
             /\ pc' = IF ~opt.g_quit THEN "look"
                      ELSE IF opt.g_quit_time = 0 THEN "leaving" ELSE "count"
             /\ UNCHANGED <<opt, s_modemfd, call, tracked, s_pppd_is_dead, child,
                            sigchld, typed, term, logv>>
-----------------------------------------------------------------------------
\* -quit 0: exit(0), the connection stays.
Leave == /\ pc = "leaving"
         /\ pc' = "exited"
         /\ UNCHANGED <<opt, i, s_modemfd, call, pppd, child, sigchld, typed,
                        term, logv>>

CountDead == /\ pc = "count" /\ s_pppd_is_dead
             /\ writeLog /\ hangupModem
             /\ pc' = "exited"
             /\ UNCHANGED <<opt, i, s_modemfd, pppd, child, sigchld, typed, term,
                            collected>>

\* Mutant: the seconds are not counted.
TickStuck == UNCHANGED i

Tick == i' = i - 1

Over == i' <= 0

Count == /\ pc = "count" /\ ~s_pppd_is_dead
         /\ Tick
         /\ pc' = IF Over THEN "expire" ELSE "count"
         /\ UNCHANGED <<opt, s_modemfd, call, pppd, child, sigchld, typed, term,
                        logv>>

Expire == /\ pc = "expire"
          /\ Kill /\ hangupModem
          /\ pc' = "exited"
          /\ UNCHANGED <<opt, i, s_modemfd, pppd, child, sigchld, typed, collected>>
-----------------------------------------------------------------------------
LookDead == /\ pc = "look" /\ s_pppd_is_dead
            /\ writeLog
            /\ pc' = "exited"
            /\ UNCHANGED <<opt, i, s_modemfd, call, pppd, child, sigchld, typed,
                           term, collected>>

Look == /\ pc = "look" /\ ~s_pppd_is_dead
        /\ pc' = "show"
        /\ UNCHANGED <<opt, i, s_modemfd, call, pppd, child, sigchld, typed,
                       term, logv>>

\* The elapsed time is printed and waitforEnter calls select.
Show == /\ pc = "show"
        /\ pc' = "select"
        /\ UNCHANGED <<opt, i, s_modemfd, call, pppd, child, sigchld, typed,
                       term, logv>>

\* Ten milliseconds without input, or a line.
Select == /\ pc = "select"
          /\ pc' = IF typed THEN "getchar" ELSE "look"
          /\ UNCHANGED <<opt, i, s_modemfd, call, pppd, child, sigchld, typed,
                         term, logv>>

GetChar == /\ pc = "getchar" /\ typed
           /\ typed' = FALSE
           /\ pc' = "enter"
           /\ UNCHANGED <<opt, i, s_modemfd, call, pppd, child, sigchld, term,
                          logv>>

EnterEnds == pc' = "exited"

Enter == /\ pc = "enter"
         /\ Kill
         /\ EnterEnds
         /\ UNCHANGED <<opt, i, s_modemfd, call, pppd, child, sigchld, typed,
                        collected>>
-----------------------------------------------------------------------------
Die == /\ child = "live"
       /\ child' = "zombie" /\ sigchld' = TRUE
       /\ UNCHANGED <<pc, opt, i, s_modemfd, call, pppd, typed, term, logv>>

\* Mutant: the flag is left to setPPPDState.
MarkDeadNot == UNCHANGED s_pppd_is_dead

MarkDead == s_pppd_is_dead' = TRUE

\* Without SA_RESTART a blocked call fails with EINTR: select returns -1,
\* which waitforEnter takes for input, and getchar returns EOF.
Interrupt == pc' = IF pc = "select" THEN "getchar"
                   ELSE IF pc = "getchar" /\ ~typed THEN "enter" ELSE pc

zombieCollect ==
    /\ sigchld /\ child = "zombie" /\ pc # "exited"
    /\ sigchld' = FALSE /\ child' = "reaped" /\ collected' = pc
    /\ s_modemfd' = "closed"
    /\ call' = IF s_modemfd = "open" /\ call = "ours" THEN "none" ELSE call
    /\ IF tracked THEN /\ MarkDead
                       /\ tracked' = FALSE /\ s_pppd_state' = 0
                  ELSE UNCHANGED pppd
    /\ Interrupt
    /\ UNCHANGED <<opt, i, typed, term, lines>>

Type == /\ ~typed /\ pc # "exited"
        /\ typed' = TRUE
        /\ UNCHANGED <<pc, opt, i, s_modemfd, call, pppd, child, sigchld, term,
                       logv>>

Exited == pc = "exited" /\ UNCHANGED console
-----------------------------------------------------------------------------
Thread == \/ Fork \/ ForkFailed \/ setpppdId \/ Started \/ StartedDead
          \/ Connected \/ Leave
          \/ CountDead \/ Count \/ Expire
          \/ LookDead \/ Look \/ Show \/ Select \/ GetChar \/ Enter

ConsoleNext == Thread \/ zombieCollect \/ Die \/ Type \/ Exited

ConsoleSpec == ConsoleInit /\ [][ConsoleNext]_console

\* The process is scheduled and its signal is delivered; nobody has to type.
FairSpec == ConsoleSpec /\ WF_console(Thread) /\ WF_console(zombieCollect)
-----------------------------------------------------------------------------
TypeOK ==
    /\ pc \in PCs
    /\ opt \in Options /\ i \in Int
    /\ pc = "count" => i = opt.g_quit_time \/ i \in 1..opt.g_quit_time
    /\ s_modemfd \in {"open", "closed"} /\ call \in {"none", "ours", "pppd"}
    /\ tracked \in BOOLEAN
    /\ s_pppd_state \in {0, 1} /\ s_pppd_is_dead \in BOOLEAN
    /\ child \in {"none", "live", "zombie", "reaped"} /\ sigchld \in BOOLEAN
    /\ typed \in BOOLEAN /\ term \in BOOLEAN
    /\ lines \in Nat /\ collected \in PCs \union {"none"}

\* The loops of startPPP ask s_pppd_is_dead (mppp.c:1984, mppp.c:2004): while one
\* of them runs, a pppd that was collected is known to be dead, wherever the signal
\* struck, but for one that died before its id was stored (mppp.c:1190).
DeathIsKnown ==
    pc \in Watching /\ child = "reaped" => s_pppd_is_dead \/ collected = "forked"

QuitAtOnce == opt.g_quit /\ opt.g_quit_time = 0

\* mppp does not end and leave a pppd running that nobody told to stop, except
\* when -quit 0 asked for it.
ExitLeavesNoPppd ==
    pc = "exited" /\ child = "live" => term \/ QuitAtOnce

\* However the death of pppd, the key and the countdown meet, one connection
\* is logged at most once.
LoggedOnce == lines <= 1

\* A connection that mppp saw the end of is in the log.  Without a line go only:
\* -quit 0; a pppd that died before its id was stored or read back (mppp.c:1942);
\* and one that was collected since the loop's last look at s_pppd_is_dead, in
\* waitforEnter (utils.c:732) or before the last kill, when that kill failed.
LoggedUnlessBetween ==
    pc = "exited" /\ child # "none" /\ lines = 0 =>
        \/ QuitAtOnce
        \/ collected \in {"forked", "started"}
        \/ collected \in {"expire", "show", "select", "getchar", "enter"}

\* The end of a connection is known to the loop that waits for it, and told in one
\* line, outside of the moments that LoggedUnlessBetween names.
EndToldOnce == DeathIsKnown /\ LoggedOnce /\ LoggedUnlessBetween

\* With -quit N mppp ends by itself: killed after N, or when pppd dies.
QuitEnds == opt.g_quit ~> pc = "exited"
=============================================================================
