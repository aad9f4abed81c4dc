---------------------------- MODULE MpppDialerProofs ----------------------------
(***************************************************************************)
(* What holds of MpppDialer for every configuration, every set of process  *)
(* ids and either environment.                                             *)
(***************************************************************************)
EXTENDS MpppDialer, TLAPS

\* Shorthands for the definitions that nearly every step expands.
USE DEF plan, flags, pppd, win, procs, logv, modem, sig, vars

-----------------------------------------------------------------------------
(* Typing.                                                                 *)

LEMMA InitTypeOK == Init => TypeOK
<1> SUFFICES ASSUME Init PROVE TypeOK
    OBVIOUS
<1>1. /\ s_is_dialing \in BOOLEAN /\ s_cancel_dialing \in BOOLEAN
      /\ timer \in BOOLEAN /\ krc \in BOOLEAN /\ sigchld \in BOOLEAN
    BY Zenon DEF Init
<1>2. /\ child \in [Pids -> {"none", "live", "zombie", "reaped"}]
      /\ lines \in [Pids -> Nat]
    BY DEF Init
<1> QED
    BY <1>1, <1>2 DEF Init, TypeOK, PCs

\* What the helpers assign has its type.
LEMMA ReturnTypeOK ==
    ASSUME TypeOK, Return
    PROVE  /\ pc' = "idle" /\ smppp' \in Configs \union {NULL}
           /\ attempt' \in Nat /\ this_num' \in Nat /\ ntry' \in Nat
           /\ nloop' \in Nat /\ sc' \in Nat \ {0}
           /\ newborn' \in Pids \union {NoPid}
BY DEF TypeOK, Return, ScriptHead

LEMMA WindowTypeOK ==
    ASSUME UpdateWindowStates
    PROVE  /\ s_cancel_dialing' \in BOOLEAN
           /\ label' \in {"Connect", "Cancel", "Hangup"} /\ timer' \in BOOLEAN
BY DEF UpdateWindowStates

LEMMA HangupTypeOK ==
    ASSUME TypeOK, hangupModem
    PROVE  call' \in {"none", "ours", "pppd"}
BY DEF TypeOK, hangupModem

LEMMA LogTypeOK ==
    ASSUME TypeOK, writeLog
    PROVE  lines' \in [Pids -> Nat]
BY DEF TypeOK, writeLog

LEMMA FixupTypeOK ==
    ASSUME fixupThings
    PROVE  /\ s_is_dialing' \in BOOLEAN /\ s_cancel_dialing' \in BOOLEAN
           /\ pppd_id' \in Pids \union {NoPid} /\ s_pppd_state' \in {0, 1}
           /\ label' \in {"Connect", "Cancel", "Hangup"} /\ timer' \in BOOLEAN
BY WindowTypeOK DEF fixupThings

LEMMA NextTypeOK == TypeOK /\ [Next]_vars => TypeOK'
<1> SUFFICES ASSUME TypeOK, [Next]_vars PROVE TypeOK'
    OBVIOUS
<1>1. CASE StartPPP
    BY <1>1 DEF TypeOK, PCs, StartPPP
<1>2. CASE CancelIdle
    BY <1>2 DEF TypeOK, PCs, CancelIdle
<1>3. CASE Hangup \/ ReadId \/ Kill \/ QuitKilled
  <2>1. CASE Hangup \/ ReadId
    BY <1>3, <2>1 DEF TypeOK, PCs, Hangup, ReadId
  <2>2. CASE Kill \/ QuitKilled
    <3>1. KillPPPD
        BY <2>2 DEF Kill, QuitKilled
    <3>2. term' \in SUBSET Pids
        BY <3>1 DEF TypeOK, KillPPPD
    <3>3. krc' \in BOOLEAN
      <4>1. CASE krc' = TRUE
          BY <4>1, Zenon
      <4>2. CASE krc' = FALSE
          BY <4>2, Zenon
      <4>3. CASE krc' \in BOOLEAN
          BY <4>3, Zenon
      <4> QED
          BY <3>1, <4>1, <4>2, <4>3, Zenon DEF KillPPPD
    <3>4. pc' \in PCs /\ pppd_id' \in Pids \union {NoPid} /\ s_pppd_state' \in {0, 1}
        BY <2>2 DEF Kill, QuitKilled, TypeOK, PCs
    <3>5. UNCHANGED <<plan, sc, flags, modem, logv, win, click, victim, procs>>
        BY <2>2 DEF Kill, QuitKilled
    <3> QED
        BY <3>2, <3>3, <3>4, <3>5 DEF TypeOK
  <2> QED
    BY <1>3, <2>1, <2>2
<1>4. CASE Hungup
  <2>1. lines' \in [Pids -> Nat]
    BY <1>4, LogTypeOK DEF TypeOK, Hungup
  <2>2. /\ s_cancel_dialing' \in BOOLEAN
        /\ label' \in {"Connect", "Cancel", "Hangup"} /\ timer' \in BOOLEAN
    BY <1>4, WindowTypeOK DEF TypeOK, Hungup
  <2>3. /\ pc' \in PCs /\ victim' = NoPid
        /\ pppd_id' \in Pids \union {NoPid} /\ s_pppd_state' \in {0, 1}
    BY <1>4 DEF PCs, Hungup
  <2>4. krc' \in BOOLEAN
    BY <1>4, Zenon DEF Hungup
  <2>5. UNCHANGED <<plan, sc, s_is_dialing, modem, start_time, click, procs, term>>
    BY <1>4 DEF Hungup
  <2> QED
    BY <2>1, <2>2, <2>3, <2>4, <2>5 DEF TypeOK
<1>5. CASE NextLoop
    BY <1>5 DEF TypeOK, PCs, NextLoop, MarkDialing, Rewind
<1>6. CASE EmptyPlan
    BY <1>6, ReturnTypeOK, HangupTypeOK DEF TypeOK, PCs, EmptyPlan, MarkDialing
<1>7. CASE GiveUp
    BY <1>7, ReturnTypeOK, HangupTypeOK, FixupTypeOK DEF TypeOK, PCs, GiveUp
<1>8. CASE PlaceCall
    BY <1>8 DEF TypeOK, PCs, PlaceCall, MarkDialing, NextNumber
<1>9. CASE NoDevice
    BY <1>9, ReturnTypeOK, FixupTypeOK DEF TypeOK, PCs, NoDevice
<1>10. CASE InitDone
    BY <1>10 DEF TypeOK, PCs, InitDone
<1>11. CASE InitFailed
    BY <1>11, ReturnTypeOK DEF TypeOK, PCs, InitFailed
<1>12. CASE DialAnswered \/ DialSilent
    BY <1>12 DEF TypeOK, PCs, DialAnswered, DialSilent
<1>13. ASSUME NEW w \in Bad, DialFailed(w) PROVE TypeOK'
    BY <1>13 DEF TypeOK, PCs, DialFailed
<1>14. CASE CancelDialing
    BY <1>14, ReturnTypeOK, HangupTypeOK, FixupTypeOK DEF TypeOK, PCs, CancelDialing
<1>15. CASE Send \/ Expected \/ ScriptDone
  <2>1. sc' \in Nat \ {0} /\ pc' \in PCs
    BY <1>15 DEF TypeOK, PCs, Send, Expected, ScriptDone
  <2>2. UNCHANGED <<plan, flags, modem, pppd, logv, win, click, sig, procs, term>>
    BY <1>15 DEF Send, Expected, ScriptDone
  <2> QED
    BY <2>1, <2>2 DEF TypeOK
<1>16. CASE ScriptFailed
    BY <1>16, ReturnTypeOK, HangupTypeOK DEF TypeOK, PCs, ScriptFailed
<1>17. ASSUME NEW p \in Pids, Fork(p) PROVE TypeOK'
    BY <1>17 DEF TypeOK, PCs, Fork
<1>18. CASE ForkFailed
    BY <1>18, ReturnTypeOK, HangupTypeOK DEF TypeOK, PCs, ForkFailed
<1>19. CASE setpppdId \/ Started
    BY <1>19 DEF TypeOK, PCs, setpppdId, Started
<1>20. CASE StartedDead
    BY <1>20, ReturnTypeOK, HangupTypeOK DEF TypeOK, PCs, StartedDead
<1>21. CASE Connected
  <2>1. /\ s_cancel_dialing' \in BOOLEAN
        /\ label' \in {"Connect", "Cancel", "Hangup"} /\ timer' \in BOOLEAN
    BY <1>21, WindowTypeOK DEF Connected
  <2>2. /\ s_is_dialing' \in BOOLEAN
        /\ pppd_id' \in Pids \union {NoPid} /\ s_pppd_state' \in {0, 1}
    BY <1>21 DEF TypeOK, Connected
  <2>3. UNCHANGED <<modem, logv, click, sig, child, sigchld, term>>
    BY <1>21 DEF Connected
  <2>4. Return
    BY <1>21 DEF Connected
  <2> QED
    BY <2>1, <2>2, <2>3, <2>4, ReturnTypeOK DEF TypeOK, PCs
<1>22. ASSUME NEW p \in Pids, zombieCollect(p) PROVE TypeOK'
  <2>1. lines' \in [Pids -> Nat]
    BY <1>22, LogTypeOK DEF TypeOK, zombieCollect, PppdDied
  <2>2. /\ s_cancel_dialing' \in BOOLEAN
        /\ label' \in {"Connect", "Cancel", "Hangup"} /\ timer' \in BOOLEAN
        /\ pppd_id' \in Pids \union {NoPid} /\ s_pppd_state' \in {0, 1}
    BY <1>22, WindowTypeOK DEF TypeOK, zombieCollect, PppdDied
  <2>3. child' \in [Pids -> {"none", "live", "zombie", "reaped"}]
    BY <1>22 DEF TypeOK, zombieCollect
  <2>4. /\ s_modemfd' \in {"closed", "open", "stale"}
        /\ call' \in {"none", "ours", "pppd"} /\ sigchld' \in BOOLEAN
    BY <1>22 DEF TypeOK, zombieCollect
  <2>5. UNCHANGED <<pc, smppp, attempt, this_num, ntry, nloop, sc, s_is_dialing,
                    start_time, click, victim, krc, newborn, term>>
    BY <1>22 DEF zombieCollect
  <2> QED
    BY <2>1, <2>2, <2>3, <2>4, <2>5 DEF TypeOK
<1>23. ASSUME NEW p \in Pids, Die(p) PROVE TypeOK'
    BY <1>23 DEF TypeOK, PCs, Die
<1>24. CASE User
    BY <1>24 DEF TypeOK, PCs, User, Click, QuitCb, QuitKill, QuitOther
<1>25. CASE UNCHANGED vars \/ Exited
    BY <1>25 DEF TypeOK, Exited
<1> QED
    BY <1>1, <1>2, <1>3, <1>4, <1>5, <1>6, <1>7, <1>8, <1>9, <1>10, <1>11,
       <1>12, <1>13, <1>14, <1>15, <1>16, <1>17, <1>18, <1>19, <1>20, <1>21,
       <1>22, <1>23, <1>24, <1>25
    DEF Next, Thread, Handler

\* Every variable keeps its type: in particular s_modemfd, pppd_id and the
\* button only ever take the values the handlers test for.
THEOREM TypeCorrect == Spec => []TypeOK
<1>1. Init => TypeOK
    BY InitTypeOK
<1>2. TypeOK /\ [Next]_vars => TypeOK'
    BY NextTypeOK
<1> QED
    BY <1>1, <1>2, PTL DEF Spec
-----------------------------------------------------------------------------
(* The strengthenings.  Each one is inductive given TypeOK (and, for the   *)
(* last two, given PidInv).                                                *)

\* Wherever waitFor may run, the flag that makes a click a cancel is set.
FlagInv == pc \in StartPPPs \ {"redial"} => s_is_dialing

\* From the dial's answer to fork the call is ours and the device is open, so
\* whatever hangs up on the way out reaches it.
LineInv == call = "ours" => pc \in {"script", "exec"} /\ s_modemfd = "open"

\* The id is free while a dialing runs, and until setPPPDState(1) names the
\* child that was just forked.
PidInv ==
    /\ LivePppdTracked
    /\ pc \in StartPPPs => s_pppd_state = 0
    /\ pc \notin {"started", "mark", "exited"} /\ s_pppd_state = 0 =>
         pppd_id = NoPid
    /\ pc \in {"kill", "killed", "quitting"} => pppd_id \in {victim, NoPid}
    /\ pc = "killed" /\ pppd_id \in Pids =>
         pppd_id \in term \/ child[pppd_id] = "reaped"

\* What the handlers may rely on when pppd outlives the start: an id names a
\* child that was not reaped, and the state says that there is one.
UpInv ==
    ~EarlyDeath /\ pc # "exited" =>
        /\ pppd_id \in Pids => child[pppd_id] \in {"live", "zombie"}
        /\ s_pppd_state = 1 => pppd_id \in Pids
        /\ pc \in {"forked", "started", "mark"} =>
             newborn \in Pids /\ child[newborn] = "live"
        /\ pc \in {"started", "mark"} => pppd_id = newborn
        /\ pc = "killed" => krc \/ s_pppd_state = 0
        /\ timer = (s_pppd_state = 1)
        /\ (label = "Hangup") = (s_pppd_state = 1)

\* A pppd is in the log, or it is the current one and the log will be about it.
LogInv ==
    ~EarlyDeath /\ pc # "exited" =>
        /\ pppd_id \in Pids /\ pc # "started" => start_time = pppd_id
        /\ \A p \in Pids : child[p] # "none" =>
             \/ lines[p] > 0
             \/ p = pppd_id
             \/ p = newborn /\ pc = "forked"

\* ntry counts the calls of this pass, attempt those to this number.
PlanInv ==
    /\ pc \notin StartPPPs =>
         attempt = 0 /\ this_num = 0 /\ ntry = 0 /\ nloop = 0
    /\ pc \in StartPPPs =>
         /\ smppp \in Configs
         /\ this_num < smppp.n_numbers
         /\ attempt <= MaxRedial
         /\ ntry = this_num * MaxRedial + attempt
         /\ nloop <= LastLoop
         /\ pc # "redial" => attempt > 0
-----------------------------------------------------------------------------
LEMMA NextFlagInv == TypeOK /\ FlagInv /\ [Next]_vars => FlagInv'
<1> SUFFICES ASSUME TypeOK, FlagInv, [Next]_vars PROVE FlagInv'
    OBVIOUS
<1> USE DEF TypeOK, FlagInv, StartPPPs
\* Outside startPPP, or back to its caller: the hypothesis of FlagInv' is false.
<1>1. CASE \/ StartPPP \/ CancelIdle \/ Hangup \/ ReadId \/ Kill \/ Hungup
           \/ QuitKilled
    BY <1>1 DEF StartPPP, CancelIdle, Hangup, ReadId, Kill, Hungup, QuitKilled
<1>2. CASE \/ EmptyPlan \/ GiveUp \/ NoDevice \/ InitFailed \/ CancelDialing
           \/ ScriptFailed \/ ForkFailed \/ StartedDead \/ Connected
    BY <1>2 DEF EmptyPlan, GiveUp, NoDevice, InitFailed, CancelDialing,
       ScriptFailed, ForkFailed, StartedDead, Connected, Return
\* DialAgain marks the dialing.
<1>3. CASE NextLoop \/ PlaceCall
    BY <1>3 DEF NextLoop, PlaceCall, MarkDialing
\* The rest of startPPP leaves the mark.
<1>4. CASE \/ InitDone \/ DialAnswered \/ DialSilent
           \/ Send \/ Expected \/ ScriptDone \/ setpppdId \/ Started
    BY <1>4 DEF InitDone, DialAnswered, DialSilent, Send, Expected, ScriptDone,
       setpppdId, Started
<1>5. ASSUME NEW w \in Bad, DialFailed(w) PROVE FlagInv'
    BY <1>5 DEF DialFailed
<1>6. ASSUME NEW p \in Pids, Fork(p) \/ zombieCollect(p) \/ Die(p) PROVE FlagInv'
    BY <1>6 DEF Fork, zombieCollect, Die
<1>7. CASE User \/ Exited \/ UNCHANGED vars
    BY <1>7 DEF User, Click, QuitCb, QuitKill, QuitOther, Exited
<1> QED
    BY <1>1, <1>2, <1>3, <1>4, <1>5, <1>6, <1>7 DEF Next, Thread, Handler

LEMMA NextLineInv == TypeOK /\ LineInv /\ [Next]_vars => LineInv'
<1> SUFFICES ASSUME TypeOK, LineInv, [Next]_vars PROVE LineInv'
    OBVIOUS
<1> USE DEF TypeOK, LineInv
<1>1. CASE \/ StartPPP \/ CancelIdle \/ Hangup \/ ReadId \/ Kill \/ Hungup
           \/ QuitKilled
    BY <1>1 DEF StartPPP, CancelIdle, Hangup, ReadId, Kill, Hungup, QuitKilled
\* Every way out of the script hangs up, and the device is still open there.
<1>2. CASE EmptyPlan \/ GiveUp \/ CancelDialing \/ ScriptFailed \/ ForkFailed
           \/ StartedDead
    BY <1>2 DEF EmptyPlan, GiveUp, CancelDialing, ScriptFailed, ForkFailed,
       StartedDead, hangupModem
\* The others leave startPPP before there is a call, or after fork.
<1>3. CASE NoDevice \/ InitFailed \/ Connected
    BY <1>3 DEF NoDevice, InitFailed, Connected
<1>4. CASE NextLoop \/ PlaceCall
    BY <1>4 DEF NextLoop, PlaceCall
<1>5. CASE DialAnswered
    BY <1>5 DEF DialAnswered, Answers
<1>6. CASE \/ InitDone \/ DialSilent \/ Send \/ Expected \/ ScriptDone
           \/ setpppdId \/ Started
    BY <1>6 DEF InitDone, DialSilent, Send, Expected, ScriptDone, setpppdId, Started
<1>7. ASSUME NEW w \in Bad, DialFailed(w) PROVE LineInv'
    BY <1>7 DEF DialFailed
<1>8. ASSUME NEW p \in Pids, Fork(p) \/ Die(p) PROVE LineInv'
    BY <1>8 DEF Fork, Die
\* The handler may close the device in the middle of a script: the call drops.
<1>9. ASSUME NEW p \in Pids, zombieCollect(p) PROVE LineInv'
    BY <1>9 DEF zombieCollect
<1>10. CASE User \/ Exited \/ UNCHANGED vars
    BY <1>10 DEF User, Click, QuitCb, QuitKill, QuitOther, Exited
<1> QED
    BY <1>1, <1>2, <1>3, <1>4, <1>5, <1>6, <1>7, <1>8, <1>9, <1>10
    DEF Next, Thread, Handler

\* A click inside waitFor can only cancel: startPPP never runs inside itself.
THEOREM NeverReentered == Spec => []NoReentry
<1>1. Init => TypeOK /\ FlagInv
    BY InitTypeOK DEF Init, FlagInv, StartPPPs
<1>2. TypeOK /\ FlagInv /\ [Next]_vars => TypeOK' /\ FlagInv'
    BY NextTypeOK, NextFlagInv
<1>3. FlagInv => NoReentry
    BY DEF FlagInv, NoReentry, Waiting, StartPPPs
<1> QED
    BY <1>1, <1>2, <1>3, PTL DEF Spec

\* However startPPP is left, the call it placed was dropped or given to pppd.
THEOREM LineDropped == Spec => []NoLineLeftUp
<1>1. Init => TypeOK /\ LineInv
    BY InitTypeOK DEF Init, LineInv
<1>2. TypeOK /\ LineInv /\ [Next]_vars => TypeOK' /\ LineInv'
    BY NextTypeOK, NextLineInv
<1>3. LineInv => NoLineLeftUp
    BY DEF LineInv, NoLineLeftUp
<1> QED
    BY <1>1, <1>2, <1>3, PTL DEF Spec
-----------------------------------------------------------------------------
(* One pppd, and pppd_id is its name.                                      *)

LEMMA NextPidInv == TypeOK /\ PidInv /\ [Next]_vars => PidInv'
<1> SUFFICES ASSUME TypeOK, PidInv, [Next]_vars PROVE PidInv'
    OBVIOUS
<1> USE PidAssumption DEF TypeOK, PidInv, LivePppdTracked, StartPPPs
<1>1. CASE StartPPP \/ CancelIdle
    BY <1>1 DEF StartPPP, CancelIdle
\* The pid is signalled before the id is given up.
<1>2. CASE Hangup \/ ReadId \/ Kill \/ QuitKilled
    BY <1>2 DEF Hangup, ReadId, Kill, QuitKilled, KillPPPD
<1>3. CASE Hungup
    BY <1>3 DEF Hungup, UpdateWindowStates
\* The id was free all through these phases.
<1>4. CASE GiveUp \/ NoDevice \/ CancelDialing
    BY <1>4 DEF GiveUp, NoDevice, CancelDialing, fixupThings, Return, Waiting
<1>5. CASE EmptyPlan \/ InitFailed \/ ScriptFailed \/ ForkFailed \/ StartedDead
    BY <1>5 DEF EmptyPlan, InitFailed, ScriptFailed, ForkFailed, StartedDead, Return
<1>6. CASE Connected
    BY <1>6 DEF Connected, Return
<1>7. CASE \/ NextLoop \/ PlaceCall \/ InitDone \/ DialAnswered \/ DialSilent
           \/ Send \/ Expected \/ ScriptDone
    BY <1>7 DEF NextLoop, PlaceCall, InitDone, DialAnswered, DialSilent, Send,
       Expected, ScriptDone
<1>8. ASSUME NEW w \in Bad, DialFailed(w) PROVE PidInv'
    BY <1>8 DEF DialFailed
\* No other pppd can be live and untold, so the new one is the only one.
<1>9. ASSUME NEW p \in Pids, Fork(p) PROVE PidInv'
    BY <1>9 DEF Fork
<1>10. CASE setpppdId \/ Started
    BY <1>10 DEF setpppdId, Started
<1>11. ASSUME NEW p \in Pids, zombieCollect(p) PROVE PidInv'
    BY <1>11 DEF zombieCollect, Wait, IsPppd, PppdDied
<1>12. ASSUME NEW p \in Pids, Die(p) PROVE PidInv'
    BY <1>12 DEF Die
<1>13. CASE User \/ Exited \/ UNCHANGED vars
    BY <1>13 DEF User, Click, QuitCb, QuitKill, QuitOther, Exited
<1> QED
    BY <1>1, <1>2, <1>3, <1>4, <1>5, <1>6, <1>7, <1>8, <1>9, <1>10, <1>11,
       <1>12, <1>13 DEF Next, Thread, Handler

\* A running pppd that was not told to stop is never lost sight of.
THEOREM PppdTracked == Spec => []LivePppdTracked
<1>1. Init => TypeOK /\ PidInv
    BY InitTypeOK DEF Init, PidInv, LivePppdTracked, StartPPPs
<1>2. TypeOK /\ PidInv /\ [Next]_vars => TypeOK' /\ PidInv'
    BY NextTypeOK, NextPidInv
<1>3. PidInv => LivePppdTracked
    BY DEF PidInv
<1> QED
    BY <1>1, <1>2, <1>3, PTL DEF Spec
-----------------------------------------------------------------------------
(* The redial plan.                                                        *)

\* t full numbers and a calls to the next, short of the n-th number's last.
LEMMA ListArithmetic ==
    ASSUME NEW t \in Nat, NEW r \in Nat, NEW n \in Nat, t * r + r < r * n
    PROVE  t + 1 < n
<1> SUFFICES ASSUME n <= t + 1 PROVE FALSE
    OBVIOUS
<1>1. r * n <= r * (t + 1)
    OBVIOUS
<1> QED
    BY <1>1

LEMMA MaxBusyNat ==
    ASSUME smppp \in Configs
    PROVE  /\ MaxRedial \in Nat /\ smppp.n_numbers \in Nat \ {0}
           /\ LastLoop \in Nat
           /\ MaxBusy \in Nat /\ MaxBusy = MaxRedial * smppp.n_numbers
<1>1. smppp \in ConfigType
    BY ConfigAssumption
<1> QED
    BY <1>1 DEF ConfigType, MaxRedial, MaxBusy, LastLoop

LEMMA NextPlanInv == TypeOK /\ PlanInv /\ [Next]_vars => PlanInv'
<1> SUFFICES ASSUME TypeOK, PlanInv, [Next]_vars PROVE PlanInv'
    OBVIOUS
<1> USE DEF TypeOK, PlanInv, StartPPPs
\* A dialing starts at 0 everywhere.
<1>1. CASE StartPPP
  <2>1. CASE smppp' \in Configs
    <3>1. smppp' \in ConfigType
        BY <2>1, ConfigAssumption
    <3> QED
        BY <1>1, <2>1, <3>1 DEF StartPPP, ConfigType, MaxRedial, LastLoop
  <2>2. CASE smppp' \notin Configs
    BY <1>1, <2>2 DEF StartPPP
  <2> QED
    BY <2>1, <2>2
<1>2. CASE CancelIdle \/ Hangup \/ ReadId \/ Kill \/ Hungup \/ QuitKilled
    BY <1>2 DEF CancelIdle, Hangup, ReadId, Kill, Hungup, QuitKilled
<1>3. CASE \/ EmptyPlan \/ GiveUp \/ NoDevice \/ InitFailed \/ CancelDialing
           \/ ScriptFailed \/ ForkFailed \/ StartedDead \/ Connected
  <2>1. Return
    BY <1>3 DEF EmptyPlan, GiveUp, NoDevice, InitFailed, CancelDialing,
       ScriptFailed, ForkFailed, StartedDead, Connected
  <2> QED
    BY <2>1 DEF Return
<1>4. CASE NextLoop
  <2>1. smppp \in Configs /\ smppp' = smppp
    BY <1>4 DEF NextLoop
  <2> QED
    BY <1>4, <2>1, MaxBusyNat DEF NextLoop, Rewind, PassLeft, MaxRedial, LastLoop
<1>5. CASE PlaceCall
  <2>1. /\ smppp \in Configs /\ smppp' = smppp
        /\ ntry < MaxBusy /\ ntry' = ntry + 1 /\ nloop' = nloop /\ pc' = "init"
    BY <1>5 DEF PlaceCall
  <2>2. MaxRedial' = MaxRedial /\ LastLoop' = LastLoop
    BY <2>1 DEF MaxRedial, LastLoop
  <2>3. /\ ntry = this_num * MaxRedial + attempt /\ attempt <= MaxRedial
        /\ this_num < smppp.n_numbers /\ nloop <= LastLoop
    BY <1>5 DEF PlaceCall
  <2>4. /\ MaxRedial \in Nat /\ smppp.n_numbers \in Nat
        /\ MaxBusy = MaxRedial * smppp.n_numbers
    BY <2>1, MaxBusyNat
  <2>5. CASE attempt >= MaxRedial
    <3>1. attempt = MaxRedial
        BY <2>3, <2>4, <2>5
    <3>2. this_num * MaxRedial + MaxRedial < MaxRedial * smppp.n_numbers
        BY <2>1, <2>3, <2>4, <3>1
    <3>3. this_num + 1 < smppp.n_numbers
        BY <2>4, <3>2, ListArithmetic
    <3>4. MaxRedial > 0
        BY <2>4, <3>2
    <3>5. (this_num + 1) * MaxRedial = this_num * MaxRedial + MaxRedial
        BY <2>4
    <3>6. this_num' = this_num + 1 /\ attempt' = 1
        BY <1>5, <2>5 DEF PlaceCall, NextNumber
    <3>7. ntry' = this_num' * MaxRedial' + attempt'
        BY <2>1, <2>2, <2>3, <2>4, <3>1, <3>5, <3>6
    <3> QED
        BY <2>1, <2>2, <2>3, <2>4, <3>3, <3>4, <3>6, <3>7
  <2>6. CASE attempt < MaxRedial
    <3>1. this_num' = this_num /\ attempt' = attempt + 1
        BY <1>5, <2>4, <2>6 DEF PlaceCall, NextNumber
    <3>2. ntry' = this_num' * MaxRedial' + attempt'
        BY <2>1, <2>2, <2>3, <2>4, <3>1
    <3> QED
        BY <2>1, <2>2, <2>3, <2>4, <2>6, <3>1, <3>2
  <2> QED
    BY <2>4, <2>5, <2>6
<1>6. CASE \/ InitDone \/ DialAnswered \/ DialSilent
           \/ Send \/ Expected \/ ScriptDone \/ setpppdId \/ Started
    BY <1>6 DEF InitDone, DialAnswered, DialSilent, Send, Expected, ScriptDone,
       setpppdId, Started, MaxRedial, LastLoop
<1>7. ASSUME NEW w \in Bad, DialFailed(w) PROVE PlanInv'
    BY <1>7 DEF DialFailed, MaxRedial, LastLoop
<1>8. ASSUME NEW p \in Pids, Fork(p) \/ zombieCollect(p) \/ Die(p) PROVE PlanInv'
    BY <1>8 DEF Fork, zombieCollect, Die, MaxRedial, LastLoop
<1>9. CASE User \/ Exited \/ UNCHANGED vars
    BY <1>9 DEF User, Click, QuitCb, QuitKill, QuitOther, Exited, MaxRedial, LastLoop
<1> QED
    BY <1>1, <1>2, <1>3, <1>4, <1>5, <1>6, <1>7, <1>8, <1>9
    DEF Next, Thread, Handler

LEMMA PlanInvariant == Spec => [](TypeOK /\ PlanInv)
<1>1. Init => TypeOK /\ PlanInv
    BY InitTypeOK DEF Init, PlanInv, StartPPPs
<1>2. TypeOK /\ PlanInv /\ [Next]_vars => TypeOK' /\ PlanInv'
    BY NextTypeOK, NextPlanInv
<1> QED
    BY <1>1, <1>2, PTL DEF Spec

\* numbers[] and bauds[] are indexed inside their bounds for every MaxRedial,
\* MaxLoop and length of the list.
THEOREM CallsInList == Spec => []CallInList
<1>1. TypeOK /\ PlanInv => CallInList
  <2> SUFFICES ASSUME TypeOK, PlanInv, pc \in StartPPPs, pc # "redial"
               PROVE  /\ this_num < smppp.n_numbers
                      /\ attempt \in 1..MaxRedial
                      /\ ntry = this_num * MaxRedial + attempt
      BY DEF CallInList
  <2> QED
      BY MaxBusyNat DEF TypeOK, PlanInv
<1> QED
    BY <1>1, PlanInvariant, PTL

LEMMA DivisionArithmetic ==
    ASSUME NEW t \in Nat, NEW r \in Nat \ {0}, NEW a \in Nat, a < r
    PROVE  (t * r + a) \div r = t
OBVIOUS

\* Each number is called MaxRedial times in a row, in the order of the list.
THEOREM CallsInOrder == Spec => CallOrder
<1>1. TypeOK /\ PlanInv /\ [Next]_vars =>
        [PlaceCall => this_num' = ntry \div MaxRedial]_vars
  <2> SUFFICES ASSUME TypeOK, PlanInv, PlaceCall
               PROVE  this_num' = ntry \div MaxRedial
      OBVIOUS
  <2>1. /\ smppp \in Configs
        /\ this_num \in Nat /\ attempt \in Nat /\ ntry \in Nat
        /\ ntry = this_num * MaxRedial + attempt /\ attempt <= MaxRedial
        /\ ntry < MaxBusy
      BY DEF PlaceCall, PlanInv, TypeOK, StartPPPs
  <2>2. /\ MaxRedial \in Nat /\ smppp.n_numbers \in Nat
        /\ MaxBusy = MaxRedial * smppp.n_numbers
      BY <2>1, MaxBusyNat
  <2>3. MaxRedial # 0
      BY <2>1, <2>2
  <2>4. CASE attempt >= MaxRedial
    <3>1. attempt = MaxRedial /\ this_num' = this_num + 1
        BY <2>1, <2>2, <2>4 DEF PlaceCall, NextNumber
    <3>2. ntry = (this_num + 1) * MaxRedial + 0
        BY <2>1, <2>2, <3>1
    <3>3. ((this_num + 1) * MaxRedial + 0) \div MaxRedial = this_num + 1
        BY <2>1, <2>2, <2>3, DivisionArithmetic
    <3> QED
        BY <3>1, <3>2, <3>3
  <2>5. CASE attempt < MaxRedial
    <3>1. this_num' = this_num
        BY <2>1, <2>2, <2>5 DEF PlaceCall, NextNumber
    <3>2. (this_num * MaxRedial + attempt) \div MaxRedial = this_num
        BY <2>1, <2>2, <2>3, <2>5, DivisionArithmetic
    <3> QED
        BY <2>1, <3>1, <3>2
  <2> QED
      BY <2>1, <2>2, <2>4, <2>5
<1> QED
    BY <1>1, PlanInvariant, PTL DEF Spec, CallOrder
-----------------------------------------------------------------------------
(* The session seen by the user.                                           *)

\* A call that the pass still has is a call that the budget still has.
LEMMA BudgetArithmetic ==
    ASSUME NEW l \in Nat, NEW m \in Nat, NEW b \in Nat, NEW k \in Nat,
           l <= m, k < b
    PROVE  l * b + k < (m + 1) * b
<1>1. l * b <= m * b
    OBVIOUS
<1>2. (m + 1) * b = m * b + b
    OBVIOUS
<1>3. l * b \in Nat /\ m * b \in Nat
    OBVIOUS
<1> QED
    BY <1>1, <1>2, <1>3

\* A pass makes at most MaxRedial calls to each of its n numbers.
LEMMA PassArithmetic ==
    ASSUME NEW t \in Nat, NEW r \in Nat, NEW n \in Nat, NEW a \in Nat,
           t < n, a <= r
    PROVE  t * r + a <= r * n
<1>1. (t + 1) * r <= r * n
    OBVIOUS
<1>2. (t + 1) * r = t * r + r
    OBVIOUS
<1>3. t * r \in Nat /\ r * n \in Nat
    OBVIOUS
<1> QED
    BY <1>1, <1>2, <1>3

\* The mapped state, so that the steps below can name it.
Link == IF pc \in StartPPPs THEN "dialing"
        ELSE IF s_pppd_state = 1 THEN "up" ELSE "down"
Placed == IF pc \in StartPPPs THEN nloop * MaxBusy + ntry ELSE 0
Budget == IF pc \in StartPPPs THEN (LastLoop + 1) * MaxBusy ELSE 0

SessionInv == TypeOK /\ PidInv /\ PlanInv

LEMMA NextSession == SessionInv /\ [Next]_vars => [Session!Next]_(Session!vars)
<1> SUFFICES ASSUME SessionInv, [Next]_vars
             PROVE  Session!Next \/ UNCHANGED <<Link, Placed, Budget>>
    BY DEF Session!vars, Link, Placed, Budget
<1> USE DEF SessionInv, TypeOK, StartPPPs
<1>1. CASE StartPPP
  <2>1. CASE pc' = "redial"
    <3>1. /\ Link = "down" /\ Link' = "dialing" /\ Placed = 0
        BY <1>1, <2>1 DEF StartPPP, Link, Placed
    <3>2. LastLoop' \in Nat /\ MaxBusy' \in Nat
      <4>1. smppp' \in ConfigType
          BY <1>1, <2>1, ConfigAssumption DEF StartPPP
      <4> QED
          BY <4>1 DEF ConfigType, LastLoop, MaxBusy
    <3>6. \A l, b \in Nat : 0 * b + 0 = 0 /\ (l + 1) * b \in Nat
        OBVIOUS
    <3>3. Placed' = 0
      <4>1. nloop' = 0 /\ ntry' = 0
          BY <1>1 DEF StartPPP, PlanInv
      <4>2. 0 * MaxBusy' + 0 = 0
          BY <3>2, <3>6, Zenon
      <4> QED
          BY <2>1, <4>1, <4>2 DEF Placed
    <3>4. Budget' \in Nat
      <4>1. (LastLoop' + 1) * MaxBusy' \in Nat
          BY <3>2, <3>6, Zenon
      <4> QED
          BY <2>1, <4>1 DEF Budget
    <3>5. Session!Begin
        BY <3>1, <3>3, <3>4 DEF Session!Begin, Link, Placed, Budget
    <3> QED
        BY <3>5 DEF Session!Next
  <2>2. CASE pc' # "redial"
    BY <1>1, <2>2 DEF StartPPP, Link, Placed, Budget
  <2> QED
    BY <2>1, <2>2
<1>2. CASE CancelIdle \/ Hangup \/ ReadId \/ Kill \/ QuitKill
    BY <1>2 DEF CancelIdle, Hangup, ReadId, Kill, QuitKill, Link, Placed, Budget
<1>3. CASE Hungup
    BY <1>3 DEF Hungup, Link, Placed, Budget, Session!Next, Session!Down
<1>4. CASE \/ EmptyPlan \/ GiveUp \/ NoDevice \/ InitFailed \/ CancelDialing
           \/ ScriptFailed \/ ForkFailed \/ StartedDead
  <2>1. pc \in StartPPPs /\ Return /\ s_pppd_state' = 0
    BY <1>4 DEF EmptyPlan, GiveUp, NoDevice, InitFailed, CancelDialing, Waiting,
       ScriptFailed, ForkFailed, StartedDead, fixupThings, PidInv
  <2>2. Session!Fail
    BY <2>1 DEF Return, Session!Fail
  <2> QED
    BY <2>2 DEF Session!Next
<1>5. CASE Connected
  <2>1. Placed > 0
    <3>1. smppp \in Configs /\ attempt > 0
          /\ ntry = this_num * MaxRedial + attempt
        BY <1>5 DEF Connected, PlanInv
    <3>2. MaxRedial \in Nat /\ MaxBusy \in Nat
        BY <3>1, MaxBusyNat
    <3>3. this_num * MaxRedial \in Nat /\ nloop * MaxBusy \in Nat
        BY <3>2
    <3>4. Placed = nloop * MaxBusy + ntry
        BY <1>5 DEF Connected, Placed
    <3> QED
        BY <3>1, <3>3, <3>4
  <2>2. Session!Up
    BY <1>5, <2>1 DEF Connected, Return, Placed, Session!Up
  <2> QED
    BY <2>2 DEF Session!Next
\* The counters are rewound: the sum is the same.
<1>6. CASE NextLoop
  <2>1. /\ smppp \in Configs /\ smppp' = smppp /\ pc = "redial" /\ pc' = pc
        /\ ntry >= MaxBusy /\ nloop' = nloop + 1 /\ ntry' = 0
        /\ s_pppd_state' = s_pppd_state
    BY <1>6 DEF NextLoop, Rewind, PlanInv
  <2>2. MaxBusy' = MaxBusy /\ LastLoop' = LastLoop
    BY <2>1 DEF MaxBusy, LastLoop
  <2>3. ntry = MaxBusy
    <3>1. /\ ntry = this_num * MaxRedial + attempt /\ attempt <= MaxRedial
          /\ this_num < smppp.n_numbers
        BY <2>1 DEF PlanInv
    <3>2. MaxRedial \in Nat /\ smppp.n_numbers \in Nat
        BY <2>1, MaxBusyNat
    <3>3. this_num * MaxRedial + attempt <= MaxRedial * smppp.n_numbers
        BY <3>1, <3>2, PassArithmetic
    <3> QED
        BY <2>1, <3>1, <3>3, MaxBusyNat
  <2>4. nloop * MaxBusy + MaxBusy = (nloop + 1) * MaxBusy + 0
    BY <2>1, MaxBusyNat
  <2> QED
    BY <2>1, <2>2, <2>3, <2>4 DEF Link, Placed, Budget
<1>7. CASE PlaceCall
  <2>1. /\ smppp \in Configs /\ smppp' = smppp /\ pc = "redial" /\ pc' = "init"
        /\ ntry < MaxBusy /\ nloop' = nloop /\ ntry' = ntry + 1
        /\ s_pppd_state' = s_pppd_state /\ nloop <= LastLoop
    BY <1>7 DEF PlaceCall, PlanInv
  <2>2. MaxBusy' = MaxBusy /\ LastLoop' = LastLoop
    BY <2>1 DEF MaxBusy, LastLoop
  <2>3. MaxBusy \in Nat /\ LastLoop \in Nat
    BY <2>1, MaxBusyNat
  <2>4. nloop * MaxBusy + ntry < (LastLoop + 1) * MaxBusy
    BY <2>1, <2>3, BudgetArithmetic
  <2>5. nloop * MaxBusy \in Nat
    BY <2>3
  <2>6. Placed' = Placed + 1 /\ Budget' = Budget /\ Link' = Link
    BY <2>1, <2>2, <2>5 DEF Placed, Budget, Link
  <2>7. Session!Call
    BY <2>1, <2>4, <2>6 DEF Placed, Budget, Link, Session!Call
  <2> QED
    BY <2>7 DEF Session!Next
<1>8. CASE \/ InitDone \/ DialAnswered \/ DialSilent
           \/ Send \/ Expected \/ ScriptDone \/ setpppdId \/ Started
    BY <1>8 DEF InitDone, DialAnswered, DialSilent, Send, Expected, ScriptDone,
       setpppdId, Started, Link, Placed, Budget, MaxBusy, LastLoop
<1>9. ASSUME NEW w \in Bad, DialFailed(w)
      PROVE  Session!Next \/ UNCHANGED <<Link, Placed, Budget>>
    BY <1>9 DEF DialFailed, Link, Placed, Budget, MaxBusy, LastLoop
<1>10. ASSUME NEW p \in Pids, Fork(p) \/ Die(p)
       PROVE  Session!Next \/ UNCHANGED <<Link, Placed, Budget>>
    BY <1>10 DEF Fork, Die, Link, Placed, Budget, MaxBusy, LastLoop
\* The handler ends the session, or nothing that the user sees.
<1>11. ASSUME NEW p \in Pids, zombieCollect(p)
       PROVE  Session!Next \/ UNCHANGED <<Link, Placed, Budget>>
  <2>1. /\ pc' = pc /\ UNCHANGED <<smppp, ntry, nloop>>
        /\ s_pppd_state' = s_pppd_state \/ s_pppd_state' = 0
    BY <1>11 DEF zombieCollect, PppdDied
  <2>2. UNCHANGED <<Placed, Budget>>
    BY <2>1 DEF Placed, Budget, MaxBusy, LastLoop
  <2>3. Link' = Link \/ (Link = "up" /\ Link' = "down")
    BY <2>1 DEF Link
  <2> QED
    BY <2>2, <2>3 DEF Session!Next, Session!Down, Link, Placed, Budget
<1>12. CASE Click \/ QuitCb \/ QuitOther \/ Exited \/ UNCHANGED vars
    BY <1>12 DEF Click, QuitCb, QuitOther, Exited, Link, Placed, Budget,
       MaxBusy, LastLoop
<1>13. CASE QuitKilled
    BY <1>13 DEF QuitKilled, Link, Placed, Budget, Session!Next, Session!Down
<1> QED
    BY <1>1, <1>2, <1>3, <1>4, <1>5, <1>6, <1>7, <1>8, <1>9, <1>10, <1>11,
       <1>12, <1>13 DEF Next, Thread, Handler, User

\* startPPP with its callbacks and its handler is a session: at most as many
\* calls as the configuration read at its beginning pays for, a link only out
\* of a dialing that has placed a call.
THEOREM DialerImplementsSession == Spec => ImplementsSession
<1>1. Init => Session!Init
    BY DEF Init, Session!Init, StartPPPs
<1>2. Init => SessionInv
    BY InitTypeOK DEF Init, SessionInv, PidInv, LivePppdTracked, PlanInv, StartPPPs
<1>3. SessionInv /\ [Next]_vars => SessionInv'
    BY NextTypeOK, NextPidInv, NextPlanInv DEF SessionInv
<1>4. SessionInv /\ [Next]_vars => [Session!Next]_(Session!vars)
    BY NextSession
<1> QED
    BY <1>1, <1>2, <1>3, <1>4, PTL DEF Spec, Session!Spec, ImplementsSession
-----------------------------------------------------------------------------
(* A pppd that outlives its start.                                         *)

\* The button follows the two variables that UpdateWindowStates reads.
LEMMA WindowFollows ==
    ASSUME UpdateWindowStates, s_pppd_state' \in {0, 1},
           s_pppd_state' = 0 => pppd_id' = NoPid
    PROVE  /\ timer' = (s_pppd_state' = 1)
           /\ (label' = "Hangup") = (s_pppd_state' = 1)
BY DEF UpdateWindowStates

LEMMA NextUpInv ==
    TypeOK /\ PidInv /\ UpInv /\ [Next]_vars => UpInv'
<1> SUFFICES ASSUME TypeOK, PidInv, UpInv, [Next]_vars, ~EarlyDeath, pc' # "exited"
             PROVE  UpInv'
    BY DEF UpInv
<1> USE PidAssumption DEF TypeOK, PidInv, UpInv, StartPPPs
<1>0. pc # "exited"
    BY DEF Next, Thread, Handler, User, StartPPP, CancelIdle, Hangup, ReadId, Kill,
       KillPPPD, Hungup, QuitKilled,
       NextLoop, EmptyPlan, GiveUp, PlaceCall, NoDevice, InitDone, InitFailed,
       DialAnswered, DialSilent, DialFailed, CancelDialing, Waiting, Send,
       Expected, ScriptFailed, ScriptDone, Fork, ForkFailed, setpppdId, Started,
       StartedDead, Connected, zombieCollect, Die, Click, QuitCb, QuitKill,
       QuitOther, Exited
<1>1. CASE StartPPP \/ CancelIdle
    BY <1>0, <1>1 DEF StartPPP, CancelIdle
\* Unless the handler was faster, the id is a child that kill() finds.
<1>2. CASE Hangup \/ ReadId \/ Kill \/ QuitKilled
    BY <1>0, <1>2 DEF Hangup, ReadId, Kill, QuitKilled, KillPPPD
<1>3. CASE Hungup
    BY <1>0, <1>3, WindowFollows DEF Hungup
<1>4. CASE GiveUp \/ NoDevice \/ CancelDialing
    BY <1>0, <1>4, WindowFollows DEF GiveUp, NoDevice, CancelDialing, fixupThings,
       Return
<1>5. CASE EmptyPlan \/ InitFailed \/ ScriptFailed \/ ForkFailed \/ StartedDead
    BY <1>0, <1>5 DEF EmptyPlan, InitFailed, ScriptFailed, ForkFailed,
       StartedDead, Return
<1>6. CASE Connected
    BY <1>0, <1>6, WindowFollows DEF Connected, Return
<1>7. CASE \/ NextLoop \/ PlaceCall \/ InitDone \/ DialAnswered \/ DialSilent
           \/ Send \/ Expected \/ ScriptDone
    BY <1>0, <1>7 DEF NextLoop, PlaceCall, InitDone, DialAnswered, DialSilent,
       Send, Expected, ScriptDone
<1>8. ASSUME NEW w \in Bad, DialFailed(w) PROVE UpInv'
    BY <1>0, <1>8 DEF DialFailed
<1>9. ASSUME NEW p \in Pids, Fork(p) PROVE UpInv'
    BY <1>0, <1>9 DEF Fork
<1>10. CASE setpppdId \/ Started
    BY <1>0, <1>10 DEF setpppdId, Started
<1>11. ASSUME NEW p \in Pids, zombieCollect(p) PROVE UpInv'
  <2>1. CASE p = pppd_id
    BY <1>0, <1>11, <2>1, WindowFollows DEF zombieCollect, Wait, IsPppd, PppdDied
  <2>2. CASE p # pppd_id
    BY <1>0, <1>11, <2>2 DEF zombieCollect, Wait, IsPppd
  <2> QED
    BY <2>1, <2>2
<1>12. ASSUME NEW p \in Pids, Die(p) PROVE UpInv'
    BY <1>0, <1>12 DEF Die
<1>13. CASE User \/ Exited \/ UNCHANGED vars
    BY <1>0, <1>13 DEF User, Click, QuitCb, QuitKill, QuitOther, Exited
<1> QED
    BY <1>1, <1>2, <1>3, <1>4, <1>5, <1>6, <1>7, <1>8, <1>9, <1>10, <1>11,
       <1>12, <1>13 DEF Next, Thread, Handler

LEMMA NextLogInv ==
    TypeOK /\ PidInv /\ UpInv /\ LogInv /\ [Next]_vars => LogInv'
<1> SUFFICES ASSUME TypeOK, PidInv, UpInv, LogInv, [Next]_vars,
                    ~EarlyDeath, pc' # "exited"
             PROVE  LogInv'
    BY DEF LogInv
<1> USE PidAssumption DEF TypeOK, PidInv, UpInv, LogInv, StartPPPs
<1>0. pc # "exited"
    BY DEF Next, Thread, Handler, User, StartPPP, CancelIdle, Hangup, ReadId, Kill,
       KillPPPD, Hungup, QuitKilled,
       NextLoop, EmptyPlan, GiveUp, PlaceCall, NoDevice, InitDone, InitFailed,
       DialAnswered, DialSilent, DialFailed, CancelDialing, Waiting, Send,
       Expected, ScriptFailed, ScriptDone, Fork, ForkFailed, setpppdId, Started,
       StartedDead, Connected, zombieCollect, Die, Click, QuitCb, QuitKill,
       QuitOther, Exited
<1>1. CASE StartPPP \/ CancelIdle \/ Hangup \/ ReadId \/ Kill \/ QuitKilled
    BY <1>0, <1>1 DEF StartPPP, CancelIdle, Hangup, ReadId, Kill, QuitKilled
\* The killed pppd is logged here, unless the handler was faster.
<1>2. CASE Hungup
    BY <1>0, <1>2 DEF Hungup, writeLog
<1>3. CASE GiveUp \/ NoDevice \/ CancelDialing
    BY <1>0, <1>3 DEF GiveUp, NoDevice, CancelDialing, fixupThings, Return, Waiting
<1>4. CASE EmptyPlan \/ InitFailed \/ ScriptFailed \/ ForkFailed \/ StartedDead
    BY <1>0, <1>4 DEF EmptyPlan, InitFailed, ScriptFailed, ForkFailed,
       StartedDead, Return
<1>5. CASE Connected
    BY <1>0, <1>5 DEF Connected, Return
<1>6. CASE \/ NextLoop \/ PlaceCall \/ InitDone \/ DialAnswered \/ DialSilent
           \/ Send \/ Expected \/ ScriptDone
    BY <1>0, <1>6 DEF NextLoop, PlaceCall, InitDone, DialAnswered, DialSilent,
       Send, Expected, ScriptDone
<1>7. ASSUME NEW w \in Bad, DialFailed(w) PROVE LogInv'
    BY <1>0, <1>7 DEF DialFailed
<1>8. ASSUME NEW p \in Pids, Fork(p) PROVE LogInv'
    BY <1>0, <1>8 DEF Fork
<1>9. CASE setpppdId \/ Started
    BY <1>0, <1>9 DEF setpppdId, Started
<1>10. ASSUME NEW p \in Pids, zombieCollect(p) PROVE LogInv'
  <2>1. CASE p = pppd_id
    BY <1>0, <1>10, <2>1 DEF zombieCollect, Wait, IsPppd, PppdDied, writeLog
  <2>2. CASE p # pppd_id
    BY <1>0, <1>10, <2>2 DEF zombieCollect, Wait, IsPppd
  <2> QED
    BY <2>1, <2>2
<1>11. ASSUME NEW p \in Pids, Die(p) PROVE LogInv'
    BY <1>0, <1>11 DEF Die
<1>12. CASE User \/ Exited \/ UNCHANGED vars
    BY <1>0, <1>12 DEF User, Click, QuitCb, QuitKill, QuitOther, Exited
<1> QED
    BY <1>1, <1>2, <1>3, <1>4, <1>5, <1>6, <1>7, <1>8, <1>9, <1>10, <1>11,
       <1>12 DEF Next, Thread, Handler

\* From the test of the state to kill(): the pppd is still up, or the handler has
\* collected it and told.
OvertakenInv ==
    ~EarlyDeath =>
        /\ pc \in {"hangup", "kill", "asking", "quitting"} /\ s_pppd_state = 0 =>
             /\ label = "Connect"
             /\ start_time \in Pids
             /\ child[start_time] = "reaped"
             /\ lines[start_time] > 0
        /\ pc \in {"kill", "quitting"} => victim \in {start_time, NoPid}

LEMMA NextOvertakenInv ==
    TypeOK /\ PidInv /\ UpInv /\ LogInv /\ OvertakenInv /\ [Next]_vars
        => OvertakenInv'
<1> SUFFICES ASSUME TypeOK, PidInv, UpInv, LogInv, OvertakenInv, [Next]_vars,
                    ~EarlyDeath
             PROVE  OvertakenInv'
    BY DEF OvertakenInv
<1> USE PidAssumption DEF TypeOK, PidInv, UpInv, LogInv, OvertakenInv
<1>1. CASE Hangup \/ ReadId
    BY <1>1 DEF Hangup, ReadId
<1>2. CASE \/ StartPPP \/ Kill \/ Hungup \/ QuitKilled \/ GiveUp \/ EmptyPlan
           \/ NoDevice \/ InitFailed \/ CancelDialing \/ ScriptFailed
           \/ ForkFailed \/ StartedDead \/ Connected
    BY <1>2 DEF StartPPP, Kill, Hungup, QuitKilled, GiveUp, EmptyPlan, NoDevice,
       InitFailed, CancelDialing, ScriptFailed, ForkFailed, StartedDead, Connected,
       Return
<1>3. CASE \/ CancelIdle \/ NextLoop \/ PlaceCall \/ InitDone \/ DialAnswered
           \/ DialSilent \/ Send \/ Expected \/ ScriptDone \/ setpppdId \/ Started
    BY <1>3 DEF CancelIdle, NextLoop, PlaceCall, InitDone, DialAnswered, DialSilent,
       Send, Expected, ScriptDone, setpppdId, Started
<1>4. ASSUME NEW w \in Bad, DialFailed(w) PROVE OvertakenInv'
    BY <1>4 DEF DialFailed
<1>5. ASSUME NEW p \in Pids, Fork(p) \/ Die(p) PROVE OvertakenInv'
    BY <1>5 DEF Fork, Die
\* The handler: start_time was its pppd, and the line is about that one.
<1>6. ASSUME NEW p \in Pids, zombieCollect(p) PROVE OvertakenInv'
  <2>1. CASE p = pppd_id
    <3>1. pc \in {"hangup", "kill", "asking", "quitting"} => start_time = p
        BY <1>6, <2>1 DEF zombieCollect
    <3> QED
        BY <1>6, <2>1, <3>1 DEF zombieCollect, Wait, IsPppd, PppdDied, writeLog,
           UpdateWindowStates
  <2>2. CASE p # pppd_id
    BY <1>6, <2>2 DEF zombieCollect, Wait, IsPppd
  <2> QED
    BY <2>1, <2>2
<1>7. CASE User \/ Exited \/ UNCHANGED vars
    BY <1>7 DEF User, Click, QuitCb, QuitKill, QuitOther, Exited
<1> QED
    BY <1>1, <1>2, <1>3, <1>4, <1>5, <1>6, <1>7 DEF Next, Thread, Handler

IInv == TypeOK /\ PidInv /\ UpInv /\ LogInv /\ OvertakenInv

LEMMA Invariance == Spec => []IInv
<1>1. Init => IInv
  <2> SUFFICES ASSUME Init PROVE IInv
      OBVIOUS
  <2>1. PidInv
      BY DEF Init, PidInv, LivePppdTracked, StartPPPs
  <2>2. timer = (s_pppd_state = 1) /\ (label = "Hangup") = (s_pppd_state = 1)
    <3>1. ~(s_pppd_state = 1) /\ ~(label = "Hangup")
        BY DEF Init
    <3>2. timer = FALSE
        BY Zenon DEF Init
    <3> QED
        BY <3>1, <3>2, Zenon
  <2>3. UpInv
      BY <2>2, PidAssumption DEF Init, UpInv
  <2>4. LogInv
      BY PidAssumption DEF Init, LogInv
  <2>5. OvertakenInv
      BY DEF Init, OvertakenInv
  <2> QED
      BY InitTypeOK, <2>1, <2>3, <2>4, <2>5 DEF IInv
<1>2. IInv /\ [Next]_vars => IInv'
    BY NextTypeOK, NextPidInv, NextUpInv, NextLogInv, NextOvertakenInv DEF IInv
<1> QED
    BY <1>1, <1>2, PTL DEF Spec

\* Button and timer always agree with s_pppd_state when pppd outlives its start.
THEOREM WindowFaithful == Spec => []WindowShowsState
<1>1. IInv => WindowShowsState
    BY DEF IInv, UpInv, WindowShowsState
<1> QED
    BY <1>1, Invariance, PTL

\* No connection that is over is missing from the log.
THEOREM EndedLogged == Spec => []EndedIsLogged
<1>1. IInv => EndedIsLogged
  <2> SUFFICES ASSUME IInv, ~EarlyDeath, NEW p \in Pids, child[p] = "reaped",
                      pc # "exited"
               PROVE  lines[p] > 0
      BY DEF EndedIsLogged
  <2>1. p # pppd_id
      BY DEF IInv, UpInv
  <2>2. ~(p = newborn /\ pc = "forked")
      BY DEF IInv, UpInv
  <2> QED
      BY <2>1, <2>2 DEF IInv, LogInv
<1> QED
    BY <1>1, Invariance, PTL

\* The flag that ConnectCb asks, the button with its timer, and the log agree with
\* what startPPP and pppd do (mppp.c:1193, mppp.c:1280).
THEOREM ViewsAlwaysAgree == Spec => []ViewsAgree
<1>1. NoReentry /\ WindowShowsState /\ EndedIsLogged => ViewsAgree
    BY DEF ViewsAgree
<1> QED
    BY <1>1, NeverReentered, WindowFaithful, EndedLogged, PTL

\* terminatePPPD signals the pppd that runs; if it comes too late (mppp.c:1231,
\* mppp.c:1235, the handler may run before each), the handler has shown and logged
\* the death.
THEOREM HangupSignals == Spec => HangupReachesPppd
<1>1. IInv /\ [Next]_vars =>
        [(Kill \/ QuitKilled) /\ ~EarlyDeath =>
           \/ victim = pppd_id /\ victim \in term' /\ child[victim] # "reaped"
           \/ Overtaken]_vars
  <2> SUFFICES ASSUME IInv, Kill \/ QuitKilled, ~EarlyDeath
               PROVE  \/ victim = pppd_id /\ victim \in term' /\ child[victim] # "reaped"
                      \/ Overtaken
      OBVIOUS
  <2> USE PidAssumption DEF IInv, TypeOK, PidInv, UpInv
  <2>1. pc \in {"kill", "quitting"} /\ KillPPPD
      BY DEF Kill, QuitKilled
  <2>2. CASE s_pppd_state = 1
    <3>1. pppd_id \in Pids /\ child[pppd_id] # "reaped" /\ victim = pppd_id
        BY <2>1, <2>2
    <3> QED
        BY <3>1, <2>1 DEF KillPPPD
  <2>3. CASE s_pppd_state = 0
    <3>1. pppd_id = NoPid /\ ~timer
        BY <2>1, <2>3
    <3> QED
        BY <2>1, <2>3, <3>1 DEF OvertakenInv, Overtaken
  <2> QED
      BY <2>2, <2>3
<1> QED
    BY <1>1, Invariance, PTL DEF Spec, HangupReachesPppd
=============================================================================
