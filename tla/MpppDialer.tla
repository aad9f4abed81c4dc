------------------------------ MODULE MpppDialer ------------------------------
(***************************************************************************)
(* The Motif build of mppp (xmppp): the thread that runs startPPP, the     *)
(* SIGCHLD handler that interrupts it anywhere, the pppd processes it      *)
(* forks, the modem, and the user's clicks on the one push button that is  *)
(* labelled Connect, Cancel or Hangup.                                     *)
(*                                                                         *)
(* pc is where the thread is: "idle" is XtAppMainLoop; "redial" is the     *)
(* DialAgain label; "init", "dial" and "script" wait for the modem;        *)
(* "exec", "forked", "started" and "mark" are the steps of starting pppd   *)
(* between which the handler's effects differ; "hangup", "kill" and        *)
(* "killed" are ConnectCb after its test of the state, after the id was    *)
(* read and after kill(); "asking" is AskUser's event loop, "quitting" the *)
(* terminatePPPD of QuitCb after the id was read; "exited" is exit().      *)
(***************************************************************************)
EXTENDS Naturals, Sequences

CONSTANTS
    Configs,        \* the contents mppp.cfg and its script may have
    NULL,           \* smppp before the first readmpppConfig
    Pids,           \* the process ids fork() may return, each one once
    NoPid,          \* the -1 of pppd_id
    SilentModem,    \* may an open modem say nothing for five 300 s timeouts?
    EarlyDeath      \* may pppd die before startPPP has marked it as up?

\* MaxRedial, MaxLoop, the number of entries of Numbers, and the script: for
\* each entry with a known qualifier, "send" or "expect".  A file without a
\* Numbers line is left out: startPPP would index a null pointer.
ConfigType == [max_redial : Nat, max_loop : Nat, n_numbers : Nat \ {0},
               script : Seq({"send", "expect"})]

ASSUME ConfigAssumption == Configs \subseteq ConfigType /\ NULL \notin Configs
ASSUME PidAssumption == NoPid \notin Pids
ASSUME EnvAssumption == SilentModem \in BOOLEAN /\ EarlyDeath \in BOOLEAN

VARIABLES
    pc,
    smppp,          \* the configuration in memory
    attempt, this_num, ntry, nloop,     \* locals of startPPP
    sc,                                 \* index of the script entry
    s_is_dialing, s_cancel_dialing,
    s_modemfd,      \* "closed" (-1), "open", or "stale": closed but not reset
    pppd_id, s_pppd_state,
    start_time,     \* whose s_start_time: the pid initStartTime ran for
    label, timer,   \* the button and s_elapse_timerId
    click,          \* the label of the click that waits in the X queue
    victim,         \* the local pppd_id of terminatePPPD
    krc,            \* kill() in terminatePPPD returned 0
    child,          \* each pid: "none", "live", "zombie" or "reaped"
    newborn,        \* what fork() returned, until startPPP is done with it
    sigchld,        \* a SIGCHLD is pending
    call,           \* the line: "none", "ours" from dial to fork, then "pppd"
    term,           \* the pids SIGTERM was sent to
    lines           \* how many lines of the log name this connection

plan  == <<smppp, attempt, this_num, ntry, nloop>>
flags == <<s_is_dialing, s_cancel_dialing>>
pppd  == <<pppd_id, s_pppd_state>>
win   == <<label, timer>>
procs == <<child, newborn, sigchld>>
logv  == <<start_time, lines>>
modem == <<s_modemfd, call>>
sig   == <<victim, krc>>
vars  == <<pc, plan, sc, flags, modem, pppd, logv, win, click, sig, procs, term>>

MaxRedial == smppp.max_redial
MaxBusy == smppp.max_redial * smppp.n_numbers
LastLoop == IF smppp.max_loop = 0 THEN 0 ELSE smppp.max_loop - 1
Script == smppp.script

PCs == {"idle", "redial", "init", "dial", "script", "exec", "forked",
        "started", "mark", "hangup", "kill", "killed", "asking", "quitting",
        "exited"}
StartPPPs == {"redial", "init", "dial", "script", "exec", "forked",
              "started", "mark"}
Bad == {"BUSY", "NO_CARRIER", "NO_DIALTONE"}

Init == /\ pc = "idle"
        /\ smppp = NULL
        /\ attempt = 0 /\ this_num = 0 /\ ntry = 0 /\ nloop = 0
        /\ sc = 1
        /\ s_is_dialing = FALSE /\ s_cancel_dialing = FALSE
        /\ s_modemfd = "closed" /\ call = "none"
        /\ pppd_id = NoPid /\ s_pppd_state = 0
        /\ start_time = NoPid
        /\ label = "Connect" /\ timer = FALSE
        /\ click = "none"
        /\ victim = NoPid /\ krc = FALSE
        /\ child = [p \in Pids |-> "none"] /\ newborn = NoPid
        /\ sigchld = FALSE
        /\ term = {}
        /\ lines = [p \in Pids |-> 0]

-----------------------------------------------------------------------------
(* Helpers of mppp.c and motif.c; each one fixes the primed variables that *)
(* the function assigns.                                                   *)

\* UpdateWindowStates reads the state and the id that were just assigned.
UpdateWindowStates ==
    /\ s_cancel_dialing' = FALSE
    /\ LET dead == s_pppd_state' = 0 /\ pppd_id' = NoPid
       IN  label' = (IF dead THEN "Connect" ELSE "Hangup") /\ timer' = ~dead

\* Mutant: HUPCL and B0 are not set.
hangupModemNot == UNCHANGED call

\* DTR is dropped through an open descriptor; on -1 or on a closed number
\* every call of hangupModem fails, and it does not look.
hangupModem == call' = IF s_modemfd = "open" THEN "none" ELSE call

fixupThings == /\ s_is_dialing' = FALSE
               /\ pppd_id' = NoPid
               /\ s_pppd_state' = 0
               /\ UpdateWindowStates

ScriptHead == sc' = 1

\* startPPP returns; its locals are gone.
Return == /\ pc' = "idle"
          /\ attempt' = 0 /\ this_num' = 0 /\ ntry' = 0 /\ nloop' = 0
          /\ ScriptHead
          /\ UNCHANGED smppp
          /\ newborn' = NoPid

writeLog == lines' = IF start_time = NoPid THEN lines
                     ELSE [lines EXCEPT ![start_time] = @ + 1]

\* waitFor polls for clicks before each look at the modem, so an answer is
\* only seen when no click waits.
Waiting == \/ pc \in {"init", "dial"}
           \/ pc = "script" /\ sc <= Len(Script) /\ Script[sc] = "expect"
Answers == Waiting /\ click = "none" /\ s_modemfd = "open"
\* Five timeouts: waitFor leaves its loop with the rc it started with, 0.
TimesOut == /\ Waiting /\ click = "none"
            /\ SilentModem \/ s_modemfd # "open"
-----------------------------------------------------------------------------
(* ConnectCb from the main loop. *)

\* Not dialing, not connected: startPPP reads both files again.
StartPPP ==
    /\ pc = "idle" /\ click # "none" /\ ~s_is_dialing /\ s_pppd_state = 0
    /\ click' = "none"
    /\ label' = "Cancel"
    /\ \/ smppp' \in Configs /\ pc' = "redial"
       \/ smppp' \in Configs /\ pc' = "idle"    \* readScript failed
       \/ smppp' = NULL /\ pc' = "exited"       \* readmpppConfig: Error()
    /\ UNCHANGED <<attempt, this_num, ntry, nloop, sc, flags, modem, pppd, logv,
                   timer, sig, procs, term>>

\* The button is pressed while s_is_dialing is set but startPPP is not running.
CancelIdle ==
    /\ pc = "idle" /\ click # "none" /\ s_is_dialing
    /\ click' = "none"
    /\ s_cancel_dialing' = TRUE
    /\ UNCHANGED <<pc, plan, sc, s_is_dialing, modem, pppd, logv, win, sig,
                   procs, term>>

\* ConnectCb has seen that pppd is up; from here to kill() the handler may run
\* between any two steps.
Hangup ==
    /\ pc = "idle" /\ click # "none" /\ ~s_is_dialing /\ s_pppd_state = 1
    /\ click' = "none"
    /\ pc' = "hangup"
    /\ UNCHANGED <<plan, sc, flags, modem, pppd, logv, win, sig, procs, term>>

\* terminatePPPD copies the id.
ReadId ==
    /\ pc = "hangup"
    /\ victim' = pppd_id
    /\ pc' = "kill"
    /\ UNCHANGED <<plan, sc, flags, modem, pppd, logv, win, click, krc, procs, term>>

\* kill(victim, SIGTERM).  A zombie can still be signalled; the id of a child
\* that was collected is nobody's, or another process's that may be signalled.
KillPPPD ==
    \/ /\ victim \in Pids /\ child[victim] # "reaped"
       /\ krc' = TRUE /\ term' = term \union {victim}
    \/ /\ victim = NoPid
       /\ krc' = FALSE /\ UNCHANGED term
    \/ /\ victim \in Pids /\ child[victim] = "reaped"
       /\ krc' \in BOOLEAN /\ UNCHANGED term

Kill ==
    /\ pc = "kill"
    /\ KillPPPD
    /\ pc' = "killed"
    /\ UNCHANGED <<plan, sc, flags, modem, pppd, logv, win, click, victim, procs>>

\* The rest of terminatePPPD and of ConnectCb.
Hungup ==
    /\ pc = "killed"
    /\ pppd_id' = NoPid /\ s_pppd_state' = 0
    /\ IF krc THEN UpdateWindowStates /\ writeLog
              ELSE UNCHANGED <<s_cancel_dialing, win, lines>>
    /\ victim' = NoPid /\ krc' = FALSE
    /\ pc' = "idle"
    /\ UNCHANGED <<plan, sc, s_is_dialing, modem, start_time, click, procs, term>>
-----------------------------------------------------------------------------
(* startPPP from DialAgain to the answer to the init string. *)

MarkDialing == s_is_dialing' = TRUE

\* Mutant: off by one, the first pass is not counted.
PassLeftTooMany == nloop <= LastLoop

PassLeft == nloop < LastLoop

\* Mutant: the passes are not counted.
RewindForever == attempt' = 0 /\ this_num' = 0 /\ ntry' = 0 /\ UNCHANGED nloop

\* Mutant: the next pass goes on where the last one ended.
RewindKeepsNumber ==
    attempt' = 0 /\ ntry' = 0 /\ nloop' = nloop + 1 /\ UNCHANGED this_num

Rewind == attempt' = 0 /\ this_num' = 0 /\ ntry' = 0 /\ nloop' = nloop + 1

NextNumber ==
    IF attempt >= MaxRedial
      THEN attempt' = 1 /\ this_num' = this_num + 1
      ELSE attempt' = attempt + 1 /\ UNCHANGED this_num

\* Every number was tried and another pass is allowed.
NextLoop ==
    /\ pc = "redial" /\ ntry >= MaxBusy /\ PassLeft /\ MaxBusy > 0
    /\ MarkDialing /\ Rewind
    /\ UNCHANGED <<pc, smppp, sc, s_cancel_dialing, modem, pppd, logv, win, click, sig,
                   procs, term>>

\* MaxRedial is 0: the second test of ntry fails too and nothing is put back.
EmptyPlan ==
    /\ pc = "redial" /\ MaxBusy = 0 /\ PassLeft
    /\ MarkDialing
    /\ hangupModem
    /\ Return
    /\ UNCHANGED <<s_cancel_dialing, s_modemfd, pppd, logv, win, click, sig,
                   child, sigchld, term>>

\* "Unable to establish ppp connecting".
GiveUp ==
    /\ pc = "redial" /\ ntry >= MaxBusy /\ ~PassLeft
    /\ fixupThings /\ hangupModem
    /\ Return
    /\ UNCHANGED <<s_modemfd, logv, click, sig, child, sigchld, term>>

\* The next number of the plan; openDevice; hangupModem; the init string.
PlaceCall ==
    /\ pc = "redial" /\ ntry < MaxBusy
    /\ NextNumber
    /\ ntry' = ntry + 1
    /\ MarkDialing
    /\ s_modemfd' = "open" /\ call' = "none"
    /\ pc' = "init"
    /\ UNCHANGED <<smppp, nloop, sc, s_cancel_dialing, pppd, logv, win, click, sig,
                   procs, term>>

\* openDevice failed: it leaves -1, and startPPP puts things back.
NoDevice ==
    /\ pc = "redial" /\ ntry < MaxBusy
    /\ s_modemfd' = "closed" /\ call' = "none"
    /\ fixupThings
    /\ Return
    /\ UNCHANGED <<logv, click, sig, child, sigchld, term>>

\* The modem answered the init string, or said nothing and waitFor returned 0.
InitDone ==
    /\ pc = "init" /\ (Answers \/ TimesOut)
    /\ pc' = "dial"
    /\ UNCHANGED <<plan, sc, flags, modem, pppd, logv, win, click, sig, procs, term>>

\* Another word than the expected one: return (-1), nothing is put back.
InitFailed ==
    /\ pc = "init" /\ Answers
    /\ Return
    /\ UNCHANGED <<flags, modem, pppd, logv, win, click, sig, child, sigchld, term>>
-----------------------------------------------------------------------------
(* startPPP from ATDT to the end of the script. *)

DialAnswered ==
    /\ pc = "dial" /\ Answers
    /\ call' = "ours"
    /\ pc' = "script"
    /\ UNCHANGED <<plan, sc, flags, s_modemfd, pppd, logv, win, click, sig,
                   procs, term>>

\* Silence is taken for the answer; no call is up.
DialSilent ==
    /\ pc = "dial" /\ TimesOut
    /\ pc' = "script"
    /\ UNCHANGED <<plan, sc, flags, modem, pppd, logv, win, click, sig, procs, term>>

\* BUSY, NO CARRIER, NO DIALTONE: close and dial again.  The NO CARRIER case
\* jumps to DialAgain before it resets s_modemfd.
DialFailed(word) ==
    /\ pc = "dial" /\ Answers
    /\ s_modemfd' = IF word = "NO_CARRIER" THEN "stale" ELSE "closed"
    /\ pc' = "redial"
    /\ UNCHANGED <<plan, sc, flags, call, pppd, logv, win, click, sig, procs, term>>

\* InterceptMouseClick runs ConnectCb inside waitFor: the flag is set, seen at
\* once, and fixupThings(1) clears it.
CancelDialing ==
    /\ Waiting /\ click # "none" /\ s_is_dialing
    /\ click' = "none"
    /\ fixupThings /\ hangupModem
    /\ Return
    /\ UNCHANGED <<s_modemfd, logv, sig, child, sigchld, term>>

Send ==
    /\ pc = "script" /\ sc <= Len(Script) /\ Script[sc] = "send"
    /\ sc' = sc + 1
    /\ UNCHANGED <<pc, plan, flags, modem, pppd, logv, win, click, sig, procs, term>>

Expected ==
    /\ pc = "script" /\ (Answers \/ TimesOut)
    /\ sc' = sc + 1
    /\ UNCHANGED <<pc, plan, flags, modem, pppd, logv, win, click, sig, procs, term>>

\* "Unknown error in send-expect sequence!": hang up, put nothing back.
ScriptFailed ==
    /\ pc = "script" /\ Answers
    /\ hangupModem
    /\ Return
    /\ UNCHANGED <<flags, s_modemfd, pppd, logv, win, click, sig, child,
                   sigchld, term>>

ScriptDone ==
    /\ pc = "script" /\ sc > Len(Script)
    /\ pc' = "exec"
    /\ UNCHANGED <<plan, sc, flags, modem, pppd, logv, win, click, sig, procs, term>>
-----------------------------------------------------------------------------
(* execPPP and the end of startPPP. *)

Fork(p) ==
    /\ pc = "exec" /\ child[p] = "none"
    /\ child' = [child EXCEPT ![p] = "live"]
    /\ newborn' = p
    /\ call' = IF call = "ours" THEN "pppd" ELSE call
    /\ pc' = "forked"
    /\ UNCHANGED <<plan, sc, flags, s_modemfd, pppd, logv, win, click, sig,
                   sigchld, term>>

\* fork() failed: startPPP goes on to initStartTime and finds pppd_id at -1.
ForkFailed ==
    /\ pc = "exec"
    /\ start_time' = NoPid
    /\ hangupModem
    /\ Return
    /\ UNCHANGED <<flags, s_modemfd, pppd, lines, win, click, sig, child,
                   sigchld, term>>

setpppdId ==
    /\ pc = "forked"
    /\ pppd_id' = newborn
    /\ pc' = "started"
    /\ UNCHANGED <<plan, sc, flags, modem, s_pppd_state, logv, win, click, sig,
                   procs, term>>

\* initStartTime, then pppd_pid=getpppdId().
Started ==
    /\ pc = "started" /\ pppd_id # NoPid
    /\ start_time' = newborn
    /\ pc' = "mark"
    /\ UNCHANGED <<plan, sc, flags, modem, pppd, lines, win, click, sig, procs, term>>

\* The handler has already taken the id back: hang up, put nothing back.
StartedDead ==
    /\ pc = "started" /\ pppd_id = NoPid
    /\ start_time' = newborn
    /\ hangupModem
    /\ Return
    /\ UNCHANGED <<flags, s_modemfd, pppd, lines, win, click, sig, child,
                   sigchld, term>>

Connected ==
    /\ pc = "mark"
    /\ s_pppd_state' = 1
    /\ s_is_dialing' = FALSE
    /\ UNCHANGED pppd_id
    /\ UpdateWindowStates
    /\ Return
    /\ UNCHANGED <<modem, logv, click, sig, child, sigchld, term>>
-----------------------------------------------------------------------------
(* pppd, the kernel and the SIGCHLD handler. *)

\* pppd exits: it was told to, it lost the peer, or execv failed.
Die(p) ==
    /\ child[p] = "live"
    /\ EarlyDeath \/ p # newborn
    /\ child' = [child EXCEPT ![p] = "zombie"]
    /\ sigchld' = TRUE
    /\ UNCHANGED <<pc, plan, sc, flags, modem, pppd, logv, win, click, sig,
                   newborn, term>>

\* Mutant: waitpid is asked for pppd_id only.
WaitOwn(p) == child[p] = "zombie" /\ p = pppd_id

Wait(p) == child[p] = "zombie"

\* Mutant: any child's death counts as pppd's.
AnyChild(p) == p \in Pids

IsPppd(p) == p = pppd_id

\* Mutant: the id and the state are kept.
PppdDiedKept == UNCHANGED <<pppd, lines, s_cancel_dialing, win>>

\* Mutant: the window is not told.
PppdDiedUnseen == /\ pppd_id' = NoPid /\ s_pppd_state' = 0
                  /\ writeLog
                  /\ UNCHANGED <<s_cancel_dialing, win>>

PppdDied == /\ pppd_id' = NoPid /\ s_pppd_state' = 0
            /\ writeLog
            /\ UpdateWindowStates

\* One signal may stand for several deaths; the handler closes the modem
\* whoever died, and reaps one child.
zombieCollect(p) ==
    /\ sigchld /\ pc # "exited" /\ Wait(p)
    /\ sigchld' = FALSE
    /\ child' = [child EXCEPT ![p] = "reaped"]
    /\ s_modemfd' = "closed"
    /\ call' = IF s_modemfd = "open" /\ call = "ours" THEN "none" ELSE call
    /\ IF IsPppd(p) THEN PppdDied
                    ELSE UNCHANGED <<pppd, lines, s_cancel_dialing, win>>
    /\ UNCHANGED <<pc, plan, sc, s_is_dialing, start_time, click, sig, newborn,
                   term>>
-----------------------------------------------------------------------------
(* The user. *)

\* The click is meant for the label that is on the button now.
Click ==
    /\ pc \notin {"asking", "exited"} /\ click = "none"
    /\ click' = label
    /\ UNCHANGED <<pc, plan, sc, flags, modem, pppd, logv, win, sig, procs, term>>

QuitCb ==
    /\ pc = "idle" /\ click = "none"
    /\ pc' = IF s_pppd_state = 1 THEN "asking" ELSE "exited"
    /\ UNCHANGED <<plan, sc, flags, modem, pppd, logv, win, click, sig, procs, term>>

\* YES_PLEASE: terminatePPPD copies the id, whatever became of the state while
\* the question was on the screen.
QuitKill ==
    /\ pc = "asking"
    /\ victim' = pppd_id
    /\ pc' = "quitting"
    /\ UNCHANGED <<plan, sc, flags, modem, pppd, logv, win, click, krc, procs, term>>

\* The rest of terminatePPPD, then exit; nothing is logged.
QuitKilled ==
    /\ pc = "quitting"
    /\ KillPPPD
    /\ pppd_id' = NoPid /\ s_pppd_state' = 0
    /\ pc' = "exited"
    /\ UNCHANGED <<plan, sc, flags, modem, logv, win, click, victim, procs>>

\* NO_THANKS exits and leaves pppd alone, I_CHANGED_MY_MIND goes back.
QuitOther ==
    /\ pc = "asking"
    /\ pc' \in {"exited", "idle"}
    /\ UNCHANGED <<plan, sc, flags, modem, pppd, logv, win, click, sig, procs, term>>

Exited == pc = "exited" /\ UNCHANGED vars
-----------------------------------------------------------------------------
\* The thread that runs main(): what it does when it is not held up.
Thread == \/ StartPPP \/ CancelIdle \/ Hangup \/ ReadId \/ Kill \/ Hungup
          \/ QuitKilled
          \/ NextLoop \/ EmptyPlan \/ GiveUp \/ PlaceCall \/ NoDevice
          \/ InitDone \/ InitFailed
          \/ DialAnswered \/ DialSilent \/ \E w \in Bad : DialFailed(w)
          \/ CancelDialing
          \/ Send \/ Expected \/ ScriptFailed \/ ScriptDone
          \/ (\E p \in Pids : Fork(p)) \/ ForkFailed
          \/ setpppdId \/ Started \/ StartedDead \/ Connected

Handler == \E p \in Pids : zombieCollect(p)
User == Click \/ QuitCb \/ QuitKill \/ QuitOther

Next == Thread \/ Handler \/ (\E p \in Pids : Die(p)) \/ User \/ Exited

Spec == Init /\ [][Next]_vars

\* The thread is scheduled, waitFor's clock runs, a pending signal is
\* delivered and a pppd that got SIGTERM exits; nobody has to click.
Fairness == /\ WF_vars(Thread)
            /\ WF_vars(Handler)
            /\ \A p \in Pids : WF_vars(p \in term /\ Die(p))

FairSpec == Spec /\ Fairness
-----------------------------------------------------------------------------
TypeOK ==
    /\ pc \in PCs
    /\ smppp \in Configs \union {NULL}
    /\ attempt \in Nat /\ this_num \in Nat /\ ntry \in Nat /\ nloop \in Nat
    /\ sc \in Nat \ {0}
    /\ s_is_dialing \in BOOLEAN /\ s_cancel_dialing \in BOOLEAN
    /\ s_modemfd \in {"closed", "open", "stale"}
    /\ call \in {"none", "ours", "pppd"}
    /\ pppd_id \in Pids \union {NoPid} /\ s_pppd_state \in {0, 1}
    /\ start_time \in Pids \union {NoPid}
    /\ label \in {"Connect", "Cancel", "Hangup"} /\ timer \in BOOLEAN
    /\ click \in {"none", "Connect", "Cancel", "Hangup"}
    /\ victim \in Pids \union {NoPid} /\ krc \in BOOLEAN
    /\ child \in [Pids -> {"none", "live", "zombie", "reaped"}]
    /\ newborn \in Pids \union {NoPid}
    /\ sigchld \in BOOLEAN
    /\ term \in SUBSET Pids
    /\ lines \in [Pids -> Nat]

\* The redial arithmetic (mppp.c, DialAgain) never indexes numbers[] or bauds[]
\* past their end: ntry, attempt and this_num count the same calls, so the
\* program gives up before this_num leaves the list.
CallInList ==
    pc \in StartPPPs \ {"redial"} =>
        /\ this_num < smppp.n_numbers
        /\ attempt \in 1..MaxRedial
        /\ ntry = this_num * MaxRedial + attempt

\* The k-th call of a pass goes to the number the plan names: each number of
\* the list MaxRedial times in a row, in the order of the configuration.
CallOrder ==
    [][PlaceCall => this_num' = ntry \div MaxRedial]_vars

\* A click that waitFor dispatches through InterceptMouseClick can only cancel:
\* startPPP is never entered from inside startPPP (ConnectCb asks isDialing).
NoReentry == Waiting => s_is_dialing

\* A pppd that runs and was not told to stop is the one pppd_id names, so the
\* Hangup button and the SIGCHLD handler are about it; no redial, cancel or
\* death of an earlier pppd loses it.  Only fork's own return is in between.
LivePppdTracked ==
    \A p \in Pids : child[p] = "live" /\ p \notin term /\ pc # "exited" =>
        p = pppd_id \/ (pc = "forked" /\ p = newborn)

\* Whenever xmppp is back in its main loop the call it placed has been dropped
\* or belongs to a pppd, whichever way startPPP was left.
NoLineLeftUp == pc = "idle" => call # "ours"

\* The button and the elapsed-time timer show what s_pppd_state says, also
\* after the handler changed them behind the thread or inside terminatePPPD.
WindowShowsState ==
    ~EarlyDeath /\ pc # "exited" =>
        /\ timer = (s_pppd_state = 1)
        /\ (label = "Hangup") = (s_pppd_state = 1)

\* The handler collected the pppd since its state was tested, and has told: the
\* window shows Connect and the log has the connection.
Overtaken ==
    /\ pppd_id = NoPid /\ s_pppd_state = 0
    /\ label = "Connect" /\ ~timer
    /\ start_time \in Pids /\ child[start_time] = "reaped"
    /\ lines[start_time] > 0
    /\ victim \in {start_time, NoPid}

\* terminatePPPD (mppp.c:1231-1235) signals the pppd that pppd_id names, and it
\* is not collected.  Only when the handler ran after the test of the state
\* (motif.c:1092, motif.c:430) is it too late: the id is -1, or it was copied
\* before and names nobody or another process; then the death has been shown and
\* logged already.  A pppd that dies before it is marked as up is left aside.
HangupReachesPppd ==
    [][(Kill \/ QuitKilled) /\ ~EarlyDeath =>
         \/ victim = pppd_id /\ victim \in term' /\ child[victim] # "reaped"
         \/ Overtaken]_vars

\* Every connection that is over has a line in the log, whether the user or
\* the peer ended it.
EndedIsLogged ==
    ~EarlyDeath => \A p \in Pids :
        child[p] = "reaped" /\ pc # "exited" => lines[p] > 0

\* The three places where xmppp keeps what it is doing tell the same: the flag that
\* ConnectCb asks, the button with its timer, and the log.
ViewsAgree == NoReentry /\ WindowShowsState /\ EndedIsLogged

\* startPPP comes back: the redial loops and the waits are bounded.
StartPPPReturns == pc \in StartPPPs ~> pc \in {"idle", "exited"}

\* A pppd that was told to stop is collected, also when the next dialing goes on
\* meanwhile, unless another child runs or dies beside it: zombieCollect waits
\* for one child per signal, and the signals of two deaths may be one.
Alone(p) == \A q \in Pids \ {p} : child[q] \in {"none", "reaped"}
KilledIsCollected ==
    \A p \in Pids :
        (p \in term /\ child[p] = "live" /\ Alone(p))
            ~> (child[p] = "reaped" \/ pc = "exited" \/ ~Alone(p))
-----------------------------------------------------------------------------
(* The connection as its user sees it.                                     *)
Session == INSTANCE MpppSession WITH
    link <- IF pc \in StartPPPs THEN "dialing"
            ELSE IF s_pppd_state = 1 THEN "up" ELSE "down",
    placed <- IF pc \in StartPPPs THEN nloop * MaxBusy + ntry ELSE 0,
    budget <- IF pc \in StartPPPs THEN (LastLoop + 1) * MaxBusy ELSE 0

\* startPPP, the handler and the callbacks implement that session: no more
\* calls than the configuration pays for, a link only after a call.
ImplementsSession == Session!Spec
=============================================================================
