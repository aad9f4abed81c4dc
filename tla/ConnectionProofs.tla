--------------------------- MODULE ConnectionProofs --------------------------
(***************************************************************************)
(* Two programs that keep a connection: the build of mppp without Motif,   *)
(* for every set of -quit options, negative numbers of seconds included;   *)
(* and the Host widget of Xlt, for any number of timers, connections,      *)
(* bytes and calls under way.  They share no variable.                     *)
(***************************************************************************)
EXTENDS MpppConsole, XltHost, SequenceTheorems, TLAPS

(***************************************************************************)
(* The console build of mppp.                                              *)
(***************************************************************************)

\* Shorthands for the tuples that the actions leave unchanged.
USE DEF console, pppd, logv

\* Without it pppd could be taken for running by a loop after its death, or be
\* left alone by an end that takes it for dead.
PppdInv ==
  /\ pc = "exec" => child = "none"
  /\ pc \in {"exec", "forked"} => ~tracked
  /\ pc \in {"started"} /\ ~tracked => child = "reaped"
  /\ pc \in Watching \cup {"mark", "leaving"} => tracked \/ s_pppd_is_dead
  /\ s_pppd_is_dead => child = "reaped"
  /\ (tracked \/ pc = "forked") /\ child = "reaped" => collected = "forked"
  /\ pc = "started" /\ ~tracked => collected = "started"
  /\ pc = "leaving" => QuitAtOnce

\* Each line of the log is written on the way out.
LogInv == lines \in Nat /\ lines <= 1 /\ (pc # "exited" => lines = 0)

\* Where the handler can have been when the loop does not look again.
Unlooked == {"forked", "started", "expire", "show", "select", "getchar", "enter"}

\* Past its look, the loop has missed only a pppd that was collected since.
BetweenInv ==
  /\ pc \in {"expire", "show", "select", "getchar", "enter"} /\ child = "reaped" =>
         collected \in Unlooked
  /\ LoggedUnlessBetween

-----------------------------------------------------------------------------
\* The flags apart from the rest, which no prover takes together with them.
Flags ==
  /\ tracked \in BOOLEAN /\ s_pppd_is_dead \in BOOLEAN
  /\ sigchld \in BOOLEAN /\ typed \in BOOLEAN /\ term \in BOOLEAN

Others ==
  /\ pc \in PCs
  /\ opt \in Options /\ i \in Int
  /\ pc = "count" => i = opt.g_quit_time \/ i \in 1..opt.g_quit_time
  /\ s_modemfd \in {"open", "closed"} /\ call \in {"none", "ours", "pppd"}
  /\ s_pppd_state \in {0, 1}
  /\ child \in {"none", "live", "zombie", "reaped"}
  /\ lines \in Nat /\ collected \in PCs \union {"none"}

LEMMA TypeParts == /\ TypeOK <=> Flags /\ Others
                   /\ TypeOK' <=> Flags' /\ Others'
BY Zenon DEF TypeOK, Flags, Others

LEMMA TypeInit == ConsoleInit => TypeOK
<1> SUFFICES ASSUME ConsoleInit PROVE Flags /\ Others
  BY TypeParts
<1>1. Flags
  BY Zenon DEF ConsoleInit, Flags
<1>2. Others
  BY DEF ConsoleInit, Others, PCs
<1> QED BY <1>1, <1>2

LEMMA FlagsNext == Flags /\ [ConsoleNext]_console => Flags'
<1> SUFFICES ASSUME Flags, [ConsoleNext]_console PROVE Flags'
  OBVIOUS
<1> USE DEF Flags
<1>1. CASE Fork \/ ForkFailed \/ setpppdId \/ Started \/ StartedDead \/ Connected
  BY <1>1, Zenon DEF Fork, ForkFailed, setpppdId, Started, StartedDead, Connected
<1>2. CASE Leave \/ CountDead \/ LookDead
  BY <1>2, Zenon DEF Leave, CountDead, LookDead
<1>3. CASE Expire \/ Enter
  <2>1. UNCHANGED term \/ term' = TRUE
    BY <1>3, Zenon DEF Expire, Enter, Kill
  <2> QED BY <1>3, <2>1, Zenon DEF Expire, Enter
<1>4. CASE Count \/ Look \/ Show \/ Select \/ GetChar
  BY <1>4, Zenon DEF Count, Look, Show, Select, GetChar
<1>5. CASE zombieCollect
  <2>1. UNCHANGED pppd \/ (s_pppd_is_dead' = TRUE /\ tracked' = FALSE)
    BY <1>5, Zenon DEF zombieCollect, MarkDead
  <2> QED BY <1>5, <2>1, Zenon DEF zombieCollect
<1>6. CASE Die \/ Type \/ Exited \/ UNCHANGED console
  BY <1>6, Zenon DEF Die, Type, Exited
<1> QED BY <1>1, <1>2, <1>3, <1>4, <1>5, <1>6 DEF ConsoleNext, Thread

LEMMA OthersNext == Others /\ [ConsoleNext]_console => Others'
<1> SUFFICES ASSUME Others, [ConsoleNext]_console PROVE Others'
  OBVIOUS
<1> USE DEF Others, PCs
<1>1. opt.g_quit_time \in Int
  BY OptionAssumption DEF OptionType
<1>2. CASE Fork \/ ForkFailed \/ setpppdId \/ Started \/ StartedDead
  BY <1>2 DEF Fork, ForkFailed, setpppdId, Started, StartedDead, hangupModem
<1>3. CASE Connected
  BY <1>1, <1>3 DEF Connected
<1>4. CASE Count
  <2>1. pc = "count" /\ i' = i - 1 /\ pc' = (IF i - 1 <= 0 THEN "expire" ELSE "count")
    BY <1>4 DEF Count, Tick, Over
  <2>2. pc' \in {"expire", "count"} /\ (pc' = "count" => i' \in 1..opt.g_quit_time)
    BY <1>1, <2>1
  <2> QED BY <1>4, <2>1, <2>2 DEF Count
<1>5. CASE Leave \/ CountDead \/ LookDead
  BY <1>5 DEF Leave, CountDead, LookDead, hangupModem, writeLog
<1>6. CASE Expire \/ Enter
  <2>1. lines' \in Nat
    BY <1>6 DEF Expire, Enter, Kill, writeLog
  <2> QED BY <1>6, <2>1 DEF Expire, Enter, EnterEnds, hangupModem
<1>7. CASE Look \/ Show \/ Select \/ GetChar
  BY <1>7 DEF Look, Show, Select, GetChar
<1>8. CASE zombieCollect
  <2>1. s_pppd_state' \in {0, s_pppd_state} /\ UNCHANGED <<opt, i, lines>>
    BY <1>8 DEF zombieCollect
  <2>2. pc' \in PCs /\ (pc' = "count" => pc = "count")
    BY <1>8 DEF zombieCollect, Interrupt
  <2> QED BY <1>8, <2>1, <2>2 DEF zombieCollect
<1>9. CASE Die \/ Type \/ Exited \/ UNCHANGED console
  BY <1>9 DEF Die, Type, Exited
<1> QED BY <1>2, <1>3, <1>4, <1>5, <1>6, <1>7, <1>8, <1>9 DEF ConsoleNext, Thread

\* Every variable has its type, and the countdown of -quit N stays between N
\* and 1 while it is looked at, also for an N that is not positive.
THEOREM TypeCorrect == ConsoleSpec => []TypeOK
<1>1. TypeOK /\ [ConsoleNext]_console => TypeOK'
  <2> SUFFICES ASSUME Flags, Others, [ConsoleNext]_console PROVE Flags' /\ Others'
    BY TypeParts
  <2> QED BY FlagsNext, OthersNext
<1> QED BY <1>1, TypeInit, PTL DEF ConsoleSpec

-----------------------------------------------------------------------------
LEMMA PppdNext == TypeOK /\ PppdInv /\ [ConsoleNext]_console => PppdInv'
<1> SUFFICES ASSUME TypeOK, PppdInv, [ConsoleNext]_console PROVE PppdInv'
  OBVIOUS
<1> USE DEF PppdInv, Watching, QuitAtOnce
<1>1. CASE Fork \/ ForkFailed
  BY <1>1 DEF Fork, ForkFailed
<1>2. CASE setpppdId \/ Started \/ StartedDead
  BY <1>2 DEF setpppdId, Started, StartedDead
<1>3. CASE Connected
  BY <1>3 DEF Connected
<1>4. CASE Leave \/ CountDead \/ Count \/ Expire \/ LookDead \/ Enter
  BY <1>4 DEF Leave, CountDead, Count, Expire, LookDead, Enter, EnterEnds, writeLog
<1>5. CASE Look \/ Show \/ Select \/ GetChar
  BY <1>5 DEF Look, Show, Select, GetChar
<1>6. CASE zombieCollect
  <2>1. child' = "reaped" /\ (tracked => s_pppd_is_dead' = TRUE)
    BY <1>6 DEF zombieCollect, MarkDead
  <2>2. ~tracked => UNCHANGED pppd
    BY <1>6 DEF zombieCollect
  <2>3. /\ child = "zombie" /\ UNCHANGED opt
        /\ pc' = pc \/ (pc \in {"select", "getchar"} /\ pc' \in {"getchar", "enter"})
    BY <1>6 DEF zombieCollect, Interrupt
  <2>4. (tracked => ~tracked') /\ collected' = pc
    BY <1>6 DEF zombieCollect
  <2> QED BY <2>1, <2>2, <2>3, <2>4
<1>7. CASE Die \/ Type \/ Exited \/ UNCHANGED console
  BY <1>7 DEF Die, Type, Exited
<1> QED BY <1>1, <1>2, <1>3, <1>4, <1>5, <1>6, <1>7 DEF ConsoleNext, Thread

LEMMA PppdAlways == ConsoleSpec => []PppdInv
<1>1. ConsoleInit => PppdInv
  BY DEF ConsoleInit, PppdInv, Watching, QuitAtOnce
<1> QED BY <1>1, PppdNext, TypeCorrect, PTL DEF ConsoleSpec

\* While a loop of startPPP runs, the handler takes the id of a collected pppd
\* back only with the news of its death (zombieCollect, mppp.c:1274).
THEOREM DeathKnown == ConsoleSpec => []DeathIsKnown
<1>1. PppdInv => DeathIsKnown
  BY DEF PppdInv, DeathIsKnown
<1> QED BY <1>1, PppdAlways, PTL

LEMMA ExitNext ==
  PppdInv /\ ExitLeavesNoPppd /\ [ConsoleNext]_console => ExitLeavesNoPppd'
<1> SUFFICES ASSUME PppdInv, ExitLeavesNoPppd, [ConsoleNext]_console PROVE ExitLeavesNoPppd'
  OBVIOUS
<1> USE DEF PppdInv, ExitLeavesNoPppd, QuitAtOnce
<1>1. CASE Fork \/ ForkFailed \/ setpppdId \/ Started \/ StartedDead
  BY <1>1 DEF Fork, ForkFailed, setpppdId, Started, StartedDead
<1>2. CASE Connected
  BY <1>2 DEF Connected
<1>3. CASE Leave \/ CountDead \/ LookDead
  BY <1>3 DEF Leave, CountDead, LookDead
<1>4. CASE Expire \/ Enter
  BY <1>4 DEF Expire, Enter, Kill
<1>5. CASE Count \/ Look \/ Show \/ Select \/ GetChar
  BY <1>5 DEF Count, Look, Show, Select, GetChar
<1>6. CASE zombieCollect
  BY <1>6 DEF zombieCollect
<1>7. CASE Die \/ Type \/ Exited \/ UNCHANGED console
  BY <1>7 DEF Die, Type, Exited
<1> QED BY <1>1, <1>2, <1>3, <1>4, <1>5, <1>6, <1>7 DEF ConsoleNext, Thread

\* Every end of startPPP but -quit 0 has told a living pppd to stop
\* (mppp.c:1961).
THEOREM ExitClean == ConsoleSpec => []ExitLeavesNoPppd
<1>1. ConsoleInit => ExitLeavesNoPppd
  BY DEF ConsoleInit, ExitLeavesNoPppd
<1> QED BY <1>1, ExitNext, PppdAlways, PTL DEF ConsoleSpec

-----------------------------------------------------------------------------
LEMMA LogNext == LogInv /\ [ConsoleNext]_console => LogInv'
<1> SUFFICES ASSUME LogInv, [ConsoleNext]_console PROVE LogInv'
  OBVIOUS
<1> USE DEF LogInv
<1>1. CASE Fork \/ ForkFailed \/ setpppdId \/ Started \/ StartedDead \/ Connected
  BY <1>1 DEF Fork, ForkFailed, setpppdId, Started, StartedDead, Connected
<1>2. CASE Leave \/ CountDead \/ LookDead
  BY <1>2 DEF Leave, CountDead, LookDead, writeLog
<1>3. CASE Expire \/ Enter
  BY <1>3 DEF Expire, Enter, EnterEnds, Kill, writeLog
<1>4. CASE Count \/ Look \/ Show \/ Select \/ GetChar
  BY <1>4 DEF Count, Look, Show, Select, GetChar
<1>5. CASE zombieCollect
  BY <1>5 DEF zombieCollect
<1>6. CASE Die \/ Type \/ Exited \/ UNCHANGED console
  BY <1>6 DEF Die, Type, Exited
<1> QED BY <1>1, <1>2, <1>3, <1>4, <1>5, <1>6 DEF ConsoleNext, Thread

\* However the death of pppd, the key and the countdown meet, startPPP writes
\* at most one line about the connection.
THEOREM LoggedOnlyOnce == ConsoleSpec => []LoggedOnce
<1>1. ConsoleInit => LogInv
  BY DEF ConsoleInit, LogInv
<1>2. LogInv => LoggedOnce
  BY DEF LogInv, LoggedOnce
<1> QED BY <1>1, <1>2, LogNext, PTL DEF ConsoleSpec

LEMMA BetweenNext ==
  PppdInv /\ LogInv /\ BetweenInv /\ [ConsoleNext]_console => BetweenInv'
<1> SUFFICES ASSUME PppdInv, LogInv, BetweenInv, [ConsoleNext]_console
             PROVE  BetweenInv'
  OBVIOUS
<1> USE DEF PppdInv, LogInv, BetweenInv, Unlooked, LoggedUnlessBetween, QuitAtOnce,
            Watching
<1>1. CASE Fork \/ ForkFailed \/ setpppdId \/ Started \/ StartedDead \/ Connected
  BY <1>1 DEF Fork, ForkFailed, setpppdId, Started, StartedDead, Connected
<1>2. CASE Leave \/ CountDead \/ LookDead
  BY <1>2 DEF Leave, CountDead, LookDead, writeLog
\* The flag is not set, so what was collected was collected as early as can be.
<1>3. CASE Count \/ Look
  BY <1>3 DEF Count, Look
<1>4. CASE Show \/ Select \/ GetChar
  BY <1>4 DEF Show, Select, GetChar
<1>5. CASE Expire \/ Enter
  BY <1>5 DEF Expire, Enter, EnterEnds, Kill, writeLog
<1>6. CASE zombieCollect
  BY <1>6 DEF zombieCollect, Interrupt
<1>7. CASE Die \/ Type \/ Exited \/ UNCHANGED console
  BY <1>7 DEF Die, Type, Exited
<1> QED BY <1>1, <1>2, <1>3, <1>4, <1>5, <1>6, <1>7 DEF ConsoleNext, Thread

\* A connection without a line is one of the four that the code cannot log
\* (startPPP, mppp.c:1984-2024).
THEOREM OnlyBetweenUnlogged == ConsoleSpec => []LoggedUnlessBetween
<1>1. ConsoleInit => PppdInv /\ LogInv /\ BetweenInv
  BY DEF ConsoleInit, PppdInv, LogInv, BetweenInv, LoggedUnlessBetween, Watching,
         QuitAtOnce
<1>2. BetweenInv => LoggedUnlessBetween
  BY DEF BetweenInv
<1> QED BY <1>1, <1>2, BetweenNext, LogNext, PppdAlways, PTL DEF ConsoleSpec

\* Where the three meet: the loop knows of a collected pppd, one line at most is
\* written, and none only in the cases that are named (zombieCollect, mppp.c:1274;
\* startPPP, mppp.c:1984).
THEOREM EndTold == ConsoleSpec => []EndToldOnce
<1>1. DeathIsKnown /\ LoggedOnce /\ LoggedUnlessBetween => EndToldOnce
  BY DEF EndToldOnce
<1> QED BY <1>1, DeathKnown, LoggedOnlyOnce, OnlyBetweenUnlogged, PTL

-----------------------------------------------------------------------------
(***************************************************************************)
(* The Host widget.  The proofs are by what a step does to the frames on   *)
(* the stack, as a set (Range(stack)): a frame has a timer's record until  *)
(* it returns, so the record is nobody else's; and a frame that reads has  *)
(* bytes of a connection, which may be closed in the middle of it.         *)
(***************************************************************************)
HIDE DEF console, pppd, logv

Kinds == {"bytes", "input", "callback", "send", "output", "connect"}
FrameType == [kind : Kinds, timer : Timers \union {NoTimer}, conn : Nat, left : Nat]
TimerUses == {"free", "send", "binary", "connect", "fired"}

TypeInv ==
    /\ {fd, inputId, made, data, bytes} \subseteq Nat
    /\ throttle \in BOOLEAN /\ mode \in {"ascii", "begun", "binary"}
    /\ {outId, binId} \subseteq Timers \union {NoTimer}
    /\ out \in Seq(Nat) /\ input \in Seq(Nat)
    /\ timers \in [Timers -> TimerUses]
    /\ stack \in Seq(FrameType)

\* Two frames are not called by one timer.
Distinct(st) == \A n, k \in DOMAIN st :
                   n # k /\ st[n].timer \in Timers => st[n].timer # st[k].timer

\* The record of a timer's frame is neither free nor running.
StackInv ==
    /\ Distinct(stack)
    /\ \A f \in Range(stack) : f.timer \in Timers => timers[f.timer] = "fired"

\* The connections whose bytes may be collected.
Ours == {fd} \union cut \union overrun

Belongs ==
    /\ inputs \subseteq Nat \ {NoConn}
    /\ inputId \in {fd, NoConn} \union overrun
    /\ NoConn \notin Range(input)
    /\ \A f \in Range(stack) : f.left > 0 => f.conn \in Ours \ {NoConn}

\* Host_OutputId is stale between the call of SendByte and the end of its loop.
Sending == \E f \in Range(stack) : f.kind = "send"

TimerInv ==
    /\ throttle => outId = NoTimer
    /\ outId # NoTimer /\ ~Sending /\ "send" \notin lost => timers[outId] = "send"
    /\ out # <<>> /\ ~throttle /\ ~InSendByte /\ lost \intersect {"send", "held"} = {} =>
           outId # NoTimer
    /\ BinaryTimed

IInv == /\ TypeInv /\ StackInv
        /\ Belongs /\ NothingCarriedOver
        /\ TimerInv /\ OnePacer
-----------------------------------------------------------------------------
(* Sequences of frames. *)

\* A frame is put on the stack.
LEMMA PushRange ==
    ASSUME NEW S, NEW st \in Seq(S), NEW f \in S
    PROVE  /\ <<f>> \o st \in Seq(S)
           /\ Range(<<f>> \o st) = {f} \union Range(st)
<1> DEFINE u == <<f>> \o st
<1>1. u \in Seq(S) /\ Len(u) = Len(st) + 1 /\ u[1] = f
  OBVIOUS
<1>2. \A n \in 1..Len(st) : u[n + 1] = st[n]
  OBVIOUS
<1>3. \A n \in 1..Len(u) : n = 1 \/ (n - 1 \in 1..Len(st) /\ u[n] = st[n - 1])
  OBVIOUS
<1>4. DOMAIN u = 1..Len(u) /\ DOMAIN st = 1..Len(st) /\ Len(st) \in Nat
  BY <1>1
<1> HIDE DEF u
<1>5. \A n \in DOMAIN u : u[n] \in {f} \union Range(st)
  BY <1>1, <1>3, <1>4 DEF Range
<1>6. f \in Range(u)
  BY <1>1, <1>4 DEF Range
<1>7. \A n \in DOMAIN st : st[n] \in Range(u)
  <2> TAKE n \in DOMAIN st
  <2>1. n + 1 \in DOMAIN u /\ u[n + 1] = st[n]
    BY <1>1, <1>2, <1>4
  <2> QED  BY <2>1 DEF Range
<1> QED  BY <1>1, <1>5, <1>6, <1>7 DEF Range, u

\* The frame on top is gone.
LEMMA TailRange ==
    ASSUME NEW S, NEW st \in Seq(S), st # <<>>
    PROVE  /\ Head(st) \in S /\ Tail(st) \in Seq(S)
           /\ st = <<Head(st)>> \o Tail(st)
           /\ Range(st) = {Head(st)} \union Range(Tail(st))
<1>1. Head(st) \in S /\ Tail(st) \in Seq(S) /\ st = <<Head(st)>> \o Tail(st)
  OBVIOUS
<1> QED  BY <1>1, PushRange

LEMMA PushDistinct ==
    ASSUME NEW st \in Seq(FrameType), NEW f \in FrameType
    PROVE  Distinct(<<f>> \o st) <=>
             /\ Distinct(st)
             /\ f.timer \in Timers => \A g \in Range(st) : g.timer # f.timer
<1> DEFINE u == <<f>> \o st
<1>1. DOMAIN u = 1..(Len(st) + 1) /\ DOMAIN st = 1..Len(st) /\ Len(st) \in Nat /\ u[1] = f
  OBVIOUS
<1>2. \A n \in 1..Len(st) : u[n + 1] = st[n]
  OBVIOUS
<1> HIDE DEF u
<1>3. ASSUME Distinct(u)
      PROVE  Distinct(st) /\ (f.timer \in Timers => \A g \in Range(st) : g.timer # f.timer)
  <2>1. ASSUME NEW n \in DOMAIN st, NEW k \in DOMAIN st, n # k, st[n].timer \in Timers
        PROVE  st[n].timer # st[k].timer
    <3>1. n + 1 \in DOMAIN u /\ k + 1 \in DOMAIN u /\ n + 1 # k + 1
      BY <1>1, <2>1
    <3>2. u[n + 1] = st[n] /\ u[k + 1] = st[k]
      BY <1>1, <1>2
    <3> QED  BY <1>3, <2>1, <3>1, <3>2 DEF Distinct
  <2>2. ASSUME NEW k \in DOMAIN st, f.timer \in Timers  PROVE st[k].timer # f.timer
    <3>1. 1 \in DOMAIN u /\ k + 1 \in DOMAIN u /\ 1 # k + 1
      BY <1>1, <2>2
    <3>2. u[1] = f /\ u[k + 1] = st[k]
      BY <1>1, <1>2
    <3> QED  BY <1>3, <2>2, <3>1, <3>2 DEF Distinct
  <2> QED  BY <2>1, <2>2 DEF Distinct, Range
<1>4. ASSUME Distinct(st), f.timer \in Timers => \A g \in Range(st) : g.timer # f.timer
      PROVE  Distinct(u)
  <2> SUFFICES ASSUME NEW n \in DOMAIN u, NEW k \in DOMAIN u, n # k, u[n].timer \in Timers
               PROVE  u[n].timer # u[k].timer
    BY DEF Distinct
  <2>1. \A j \in DOMAIN u : j = 1 \/ (j - 1 \in DOMAIN st /\ u[j] = st[j - 1])
    <3> TAKE j \in DOMAIN u
    <3>1. CASE j = 1
      BY <3>1
    <3>2. CASE j # 1
      <4>1. j - 1 \in 1..Len(st) /\ (j - 1) + 1 = j
        BY <1>1, <3>2
      <4> QED  BY <1>1, <1>2, <4>1
    <3> QED  BY <3>1, <3>2
  <2>2. \A j \in DOMAIN st : f.timer \in Timers => st[j].timer # f.timer
    BY <1>4 DEF Range
  <2>3. CASE n = 1
    BY <1>1, <2>1, <2>2, <2>3
  <2>4. CASE k = 1
    BY <1>1, <2>1, <2>2, <2>4
  <2>5. CASE n # 1 /\ k # 1
    <3>1. n - 1 \in DOMAIN st /\ k - 1 \in DOMAIN st /\ u[n] = st[n - 1] /\ u[k] = st[k - 1]
      BY <2>1, <2>5
    <3>2. n - 1 # k - 1
      BY <1>1
    <3> QED  BY <1>4, <3>1, <3>2 DEF Distinct
  <2> QED  BY <2>3, <2>4, <2>5
<1> QED  BY <1>3, <1>4 DEF u

\* What the stack is under the call that goes on.
LEMMA TopFrame ==
    ASSUME TypeInv, Top.kind # "main"
    PROVE  /\ stack # <<>> /\ Top = Head(stack) /\ Top \in FrameType
           /\ Tail(stack) \in Seq(FrameType)
           /\ stack = <<Top>> \o Tail(stack)
           /\ Range(stack) = {Top} \union Range(Tail(stack))
<1>1. stack # <<>>
  BY DEF Top, Frame
<1>2. Top = Head(stack)
  BY <1>1 DEF Top
<1>3. stack \in Seq(FrameType)
  BY DEF TypeInv
<1> QED  BY <1>1, <1>2, <1>3, TailRange

LEMMA NewFrame ==
    ASSUME NEW k \in Kinds, NEW u \in Timers \union {NoTimer}
    PROVE  /\ Frame(k, u) \in FrameType /\ Frame(k, u).kind = k /\ Frame(k, u).timer = u
           /\ Frame(k, u).left = 0
BY DEF Frame, FrameType, NoConn

\* Two frames are put on the stack at once.
LEMMA PushTwo ==
    ASSUME NEW S, NEW st \in Seq(S), NEW f \in S, NEW g \in S
    PROVE  <<f, g>> \o st = <<f>> \o (<<g>> \o st)
<1>1. <<f>> \in Seq(S) /\ <<g>> \in Seq(S) /\ <<f, g>> \in Seq(S)
  OBVIOUS
<1>2. <<f, g>> = <<f>> \o <<g>>
  <2>1. /\ <<f>> \o <<g>> \in Seq(S) /\ Len(<<f>> \o <<g>>) = 2
        /\ (<<f>> \o <<g>>)[1] = f /\ (<<f>> \o <<g>>)[2] = g
    BY <1>1
  <2>2. Len(<<f, g>>) = 2 /\ <<f, g>>[1] = f /\ <<f, g>>[2] = g
    OBVIOUS
  <2>3. \A j \in 1..Len(<<f, g>>) : <<f, g>>[j] = (<<f>> \o <<g>>)[j]
    BY <2>1, <2>2
  <2> QED  BY <1>1, <2>1, <2>2, <2>3, SeqEqual
<1> QED  BY <1>1, <1>2, ConcatAssociative

\* The four things that happen to the stack.
LEMMA PushStack ==
    ASSUME TypeInv, NEW f \in FrameType, stack' = <<f>> \o stack
    PROVE  /\ stack' \in Seq(FrameType)
           /\ Range(stack') = {f} \union Range(stack)
           /\ Distinct(stack) /\ (f.timer \in Timers => \A g \in Range(stack) : g.timer # f.timer)
                 => Distinct(stack')
BY PushRange, PushDistinct DEF TypeInv

\* A frame that no timer called.
LEMMA PushUntimed ==
    ASSUME TypeInv, NEW f \in FrameType, f.timer = NoTimer, stack' = <<f>> \o stack
    PROVE  /\ stack' \in Seq(FrameType)
           /\ Range(stack') = {f} \union Range(stack)
           /\ Distinct(stack) => Distinct(stack')
<1>1. f.timer \notin Timers
  BY TimerAssumption
<1>2. Distinct(stack) => Distinct(stack')
  BY <1>1, PushDistinct DEF TypeInv
<1> QED  BY <1>2, PushRange DEF TypeInv

LEMMA GotoStack ==
    ASSUME TypeInv, Top.kind # "main", NEW f \in FrameType, stack' = <<f>> \o Tail(stack)
    PROVE  /\ stack' \in Seq(FrameType)
           /\ Range(stack') = {f} \union Range(Tail(stack))
           /\ Distinct(stack) /\ f.timer \in {NoTimer, Top.timer} => Distinct(stack')
<1>1. Top \in FrameType /\ Tail(stack) \in Seq(FrameType) /\ stack = <<Top>> \o Tail(stack)
  BY TopFrame
<1>2. Distinct(stack) => /\ Distinct(Tail(stack))
                         /\ Top.timer \in Timers => \A g \in Range(Tail(stack)) : g.timer # Top.timer
  <2> DEFINE T == Tail(stack)
             t == Top
  <2>1. t \in FrameType /\ T \in Seq(FrameType) /\ stack = <<t>> \o T
    BY <1>1
  <2> HIDE DEF T, t
  <2>2. Distinct(<<t>> \o T) <=>
           /\ Distinct(T)
           /\ t.timer \in Timers => \A g \in Range(T) : g.timer # t.timer
    BY <2>1, PushDistinct
  <2>3. Distinct(stack) => /\ Distinct(T)
                           /\ t.timer \in Timers => \A g \in Range(T) : g.timer # t.timer
    BY <2>1, <2>2, Zenon
  <2> QED  BY <2>3 DEF T, t
<1>3. NoTimer \notin Timers
  BY TimerAssumption
<1>4. Distinct(stack) /\ f.timer \in {NoTimer, Top.timer} => Distinct(<<f>> \o Tail(stack))
  <2>1. ASSUME Distinct(stack), f.timer \in {NoTimer, Top.timer}, f.timer \in Timers
        PROVE  \A g \in Range(Tail(stack)) : g.timer # f.timer
    BY <1>2, <1>3, <2>1
  <2> QED  BY <1>1, <1>2, <2>1, PushDistinct, Zenon
<1> QED  BY <1>1, <1>4, PushRange, Zenon

LEMMA PopStack ==
    ASSUME TypeInv, Top.kind # "main", stack' = Tail(stack)
    PROVE  /\ stack' \in Seq(FrameType)
           /\ Range(stack) = {Top} \union Range(stack')
           /\ Distinct(stack) => /\ Distinct(stack')
                                 /\ Top.timer \in Timers =>
                                       \A g \in Range(stack') : g.timer # Top.timer
<1> DEFINE T == Tail(stack)
<1>1. Top \in FrameType /\ T \in Seq(FrameType) /\ stack = <<Top>> \o T
  BY TopFrame
<1>2. Range(stack) = {Top} \union Range(T)
  BY TopFrame
<1>3. stack' = T
  OBVIOUS
<1> HIDE DEF T
<1>4. Distinct(<<Top>> \o T) => /\ Distinct(T)
                                /\ Top.timer \in Timers => \A g \in Range(T) : g.timer # Top.timer
  BY <1>1, PushDistinct, Zenon
<1>5. Distinct(stack) => Distinct(<<Top>> \o T)
  BY <1>1, Zenon
<1>6. Distinct(stack) => /\ Distinct(stack')
                         /\ Top.timer \in Timers => \A g \in Range(stack') : g.timer # Top.timer
  BY <1>3, <1>4, <1>5, Zenon
<1>7. stack' \in Seq(FrameType) /\ Range(stack) = {Top} \union Range(stack')
  BY <1>1, <1>2, <1>3
<1> QED  BY <1>6, <1>7, Zenon

LEMMA CallbackStack ==
    ASSUME TypeInv, Top.kind # "main", NEW f \in FrameType, NEW g \in FrameType,
           stack' = <<f, g>> \o Tail(stack)
    PROVE  /\ stack' \in Seq(FrameType)
           /\ Range(stack') = {f, g} \union Range(Tail(stack))
           /\ Distinct(stack) /\ f.timer = NoTimer /\ g.timer = Top.timer => Distinct(stack')
<1> DEFINE u == <<g>> \o Tail(stack)
<1>1. Tail(stack) \in Seq(FrameType) /\ stack = <<Top>> \o Tail(stack) /\ Top \in FrameType
  BY TopFrame
<1>2. stack' = <<f>> \o u
  BY <1>1, PushTwo
<1>3. u \in Seq(FrameType) /\ Range(u) = {g} \union Range(Tail(stack))
  BY <1>1, PushRange
<1>4. Distinct(stack) /\ g.timer = Top.timer => Distinct(u)
  <2> DEFINE T == Tail(stack)
             t == Top
  <2>1. t \in FrameType /\ T \in Seq(FrameType) /\ stack = <<t>> \o T /\ u = <<g>> \o T
    BY <1>1
  <2>2. SUFFICES ASSUME Distinct(stack), g.timer = t.timer  PROVE Distinct(u)
    OBVIOUS
  <2> HIDE DEF T, t, u
  <2>3. Distinct(<<t>> \o T)
    BY <2>1, <2>2
  <2>4. Distinct(T) /\ (t.timer \in Timers => \A h \in Range(T) : h.timer # t.timer)
    BY <2>1, <2>3, PushDistinct, Zenon
  <2>5. Distinct(<<g>> \o T)
    BY <2>1, <2>2, <2>4, PushDistinct, Zenon
  <2> QED  BY <2>1, <2>5
<1> HIDE DEF u
<1>5. stack' \in Seq(FrameType) /\ Range(stack') = {f} \union Range(u)
  <2>1. <<f>> \o u \in Seq(FrameType) /\ Range(<<f>> \o u) = {f} \union Range(u)
    BY <1>3, PushRange
  <2> QED  BY <1>2, <2>1
<1>6. Distinct(u) /\ f.timer = NoTimer => Distinct(stack')
  <2>1. f.timer = NoTimer => f.timer \notin Timers
    BY TimerAssumption
  <2>2. Distinct(u) /\ f.timer = NoTimer => Distinct(<<f>> \o u)
    BY <1>3, <2>1, PushDistinct, Zenon
  <2> QED  BY <1>2, <2>2, Zenon
<1> QED  BY <1>3, <1>4, <1>5, <1>6
-----------------------------------------------------------------------------
(* What the procedures do to the timers. *)

LEMMA WithoutTimers ==
    ASSUME TypeInv, NEW ids
    PROVE  /\ Without(ids) \in [Timers -> TimerUses]
           /\ \A u \in Timers : Without(ids)[u] =
                 IF u \in ids /\ timers[u] \in {"send", "binary", "connect"} THEN "free"
                 ELSE timers[u]
BY DEF TypeInv, Without, Running, TimerUses

LEMMA ReturnedTimers ==
    ASSUME NEW tm \in [Timers -> TimerUses]
    PROVE  /\ Returned(tm) \in [Timers -> TimerUses]
           /\ \A u \in Timers : Returned(tm)[u] = IF u = Top.timer THEN "free" ELSE tm[u]
BY DEF Returned, TimerUses

\* Throttle takes the timer away, starts one, or leaves things as they are.
Throttled(state, o, id, done) ==
    /\ throttle' = state
    /\ timers' \in [Timers -> TimerUses]
    /\ outId' \in Timers \union {NoTimer}
    /\ extra' = {t \in extra : timers'[t] = "send"}
    /\ \A u \in Timers : done /\ u = Top.timer => timers'[u] = "free"
    /\ \/ /\ state /\ outId' = NoTimer
          /\ \A u \in Timers : ~(done /\ u = Top.timer) =>
                timers'[u] = IF u = id /\ timers[u] \in {"send", "binary", "connect"}
                             THEN "free" ELSE timers[u]
       \/ /\ ~state /\ o # <<>> /\ id = NoTimer
          /\ outId' \in Timers /\ timers[outId'] = "free"
          /\ \A u \in Timers : ~(done /\ u = Top.timer) =>
                timers'[u] = IF u = outId' THEN "send" ELSE timers[u]
       \/ /\ ~state /\ (o = <<>> \/ id # NoTimer)
          /\ outId' = id
          /\ \A u \in Timers : ~(done /\ u = Top.timer) => timers'[u] = timers[u]

LEMMA ThrottleTimers ==
    ASSUME TypeInv, NEW state \in BOOLEAN, NEW o, NEW id \in Timers \union {NoTimer},
           NEW done \in BOOLEAN, Throttle(state, o, id, done)
    PROVE  Throttled(state, o, id, done)
<1> DEFINE After(tm) == IF done THEN Returned(tm) ELSE tm
<1>t. timers \in [Timers -> TimerUses]
  BY DEF TypeInv
<1>1. ASSUME NEW tm \in [Timers -> TimerUses]
      PROVE  /\ After(tm) \in [Timers -> TimerUses]
             /\ \A u \in Timers : After(tm)[u] = IF done /\ u = Top.timer THEN "free" ELSE tm[u]
  BY ReturnedTimers, <1>1
<1>2. /\ throttle' = state
      /\ extra' = {t \in extra : timers'[t] = "send"}
  BY DEF Throttle
<1>3. \/ /\ state
         /\ timers' = After(Without({id})) /\ outId' = NoTimer
      \/ /\ ~state /\ WantsTimer(o, id)
         /\ \E t \in Free : /\ timers' = After([timers EXCEPT ![t] = "send"])
                            /\ outId' = t
      \/ /\ ~state /\ ~WantsTimer(o, id)
         /\ timers' = After(timers) /\ outId' = id
  BY DEF Throttle
<1> HIDE DEF After
<1>4. CASE state /\ timers' = After(Without({id})) /\ outId' = NoTimer
  <2>1. /\ Without({id}) \in [Timers -> TimerUses]
        /\ \A u \in Timers : Without({id})[u] =
              IF u = id /\ timers[u] \in {"send", "binary", "connect"} THEN "free" ELSE timers[u]
    BY WithoutTimers
  <2> QED  BY <1>1, <1>2, <1>4, <2>1 DEF Throttled
<1>5. ASSUME ~state, WantsTimer(o, id), NEW t \in Free,
             timers' = After([timers EXCEPT ![t] = "send"]), outId' = t
      PROVE  /\ timers' \in [Timers -> TimerUses]
             /\ \A u \in Timers : timers'[u] = IF done /\ u = Top.timer THEN "free"
                                             ELSE IF u = t THEN "send" ELSE timers[u]
             /\ o # <<>> /\ id = NoTimer /\ t \in Timers /\ timers[t] = "free"
  <2>1. t \in Timers /\ timers[t] = "free" /\ o # <<>> /\ id = NoTimer
    BY <1>5 DEF Free, WantsTimer
  <2>2. /\ [timers EXCEPT ![t] = "send"] \in [Timers -> TimerUses]
        /\ \A u \in Timers : [timers EXCEPT ![t] = "send"][u] = IF u = t THEN "send" ELSE timers[u]
    BY <1>t, <2>1 DEF TimerUses
  <2> QED  BY <1>1, <1>5, <2>1, <2>2
<1>6. CASE ~state /\ ~WantsTimer(o, id) /\ timers' = After(timers) /\ outId' = id
  BY <1>1, <1>2, <1>t, <1>6 DEF WantsTimer, Throttled
<1>7. CASE \E t \in Free : ~state /\ WantsTimer(o, id)
                /\ timers' = After([timers EXCEPT ![t] = "send"]) /\ outId' = t
  BY <1>2, <1>5, <1>7 DEF Throttled
<1> QED  BY <1>3, <1>4, <1>6, <1>7

\* A timer that binary input starts.
LEMMA RetimedTimers ==
    ASSUME TypeInv, Retimed
    PROVE  /\ timers' \in [Timers -> TimerUses] /\ binId' \in Timers
           /\ timers[binId'] = "free" \/
                (binId' = binId /\ timers[binId'] \in {"send", "binary", "connect"})
           /\ \A u \in Timers : timers'[u] =
                 IF u = binId' THEN "binary"
                 ELSE IF u = binId /\ timers[u] \in {"send", "binary", "connect"} THEN "free"
                 ELSE timers[u]
<1>1. /\ Without({binId}) \in [Timers -> TimerUses]
      /\ \A u \in Timers : Without({binId})[u] =
            IF u = binId /\ timers[u] \in {"send", "binary", "connect"} THEN "free" ELSE timers[u]
  BY WithoutTimers
<1>2. PICK t \in Timers : /\ Without({binId})[t] = "free"
                          /\ timers' = [Without({binId}) EXCEPT ![t] = "binary"]
                          /\ binId' = t
  BY DEF Retimed
<1> QED  BY <1>1, <1>2 DEF TimerUses

LEMMA ReconnectTimers ==
    ASSUME TypeInv, Reconnect
    PROVE  \E t \in Timers :
             /\ timers' \in [Timers -> TimerUses]
             /\ timers[t] = "free" \/
                  (t \in {outId, binId} /\ timers[t] \in {"send", "binary", "connect"})
             /\ \A u \in Timers : timers'[u] =
                   IF u = t THEN "connect"
                   ELSE IF u \in {outId, binId} /\ timers[u] \in {"send", "binary", "connect"}
                        THEN "free"
                   ELSE timers[u]
<1>1. /\ Without({outId, binId}) \in [Timers -> TimerUses]
      /\ \A u \in Timers : Without({outId, binId})[u] =
            IF u \in {outId, binId} /\ timers[u] \in {"send", "binary", "connect"} THEN "free"
            ELSE timers[u]
  BY WithoutTimers
<1>2. PICK t \in Timers : /\ Without({outId, binId})[t] = "free"
                          /\ timers' = [Without({outId, binId}) EXCEPT ![t] = "connect"]
  BY DEF Reconnect
<1> QED  BY <1>1, <1>2 DEF TimerUses
-----------------------------------------------------------------------------
(* The type of the state, and the records of the timers under way. *)

LEMMA ByteFrame ==
    ASSUME TypeInv, Byte
    PROVE  /\ Top.kind # "main" /\ Top.kind = "bytes" /\ Top.left > 0
           /\ OneLess \in FrameType /\ OneLess.kind = "bytes" /\ OneLess.timer = Top.timer
           /\ OneLess.conn = Top.conn
           /\ Frame("callback", NoTimer) \in FrameType
           /\ Frame("callback", NoTimer).kind = "callback"
           /\ Frame("callback", NoTimer).timer = NoTimer
           /\ Frame("callback", NoTimer).left = 0
<1>1. Top.kind = "bytes" /\ Top.left > 0
  BY DEF Byte
<1>2. Top \in FrameType
  BY <1>1, TopFrame
<1>3. "callback" \in Kinds
  BY DEF Kinds
<1>4. OneLess \in FrameType /\ OneLess.kind = "bytes" /\ OneLess.timer = Top.timer /\ OneLess.conn = Top.conn
  BY <1>1, <1>2 DEF OneLess, FrameType
<1> QED  BY <1>1, <1>3, <1>4, NewFrame

\* InputHandler is called: its frame in ReadBytes.
ReadFrom(c, n) == [Frame("bytes", NoTimer) EXCEPT !.conn = c, !.left = n]

LEMMA ReadFrame ==
    ASSUME NEW c \in Nat, NEW n \in Nat
    PROVE  /\ ReadFrom(c, n) \in FrameType
           /\ ReadFrom(c, n).timer = NoTimer /\ ReadFrom(c, n).conn = c
BY DEF ReadFrom, Frame, FrameType, Kinds

\* A step keeps the type and the frames when it keeps the records of those frames
\* that are not returned from.
LEMMA FramesKeep ==
    ASSUME TypeInv, StackInv, stack' \in Seq(FrameType),
           timers' \in [Timers -> TimerUses],
           Distinct(stack) => Distinct(stack'),
           \A f \in Range(stack') : f.timer \in Timers =>
              \/ timers'[f.timer] = "fired"
              \/ /\ \E g \in Range(stack) : g.timer = f.timer
                 /\ timers[f.timer] = "fired" => timers'[f.timer] = "fired"
    PROVE  StackInv'
<1>1. Distinct(stack')
  BY DEF StackInv
<1>2. \A f \in Range(stack') : f.timer \in Timers => timers'[f.timer] = "fired"
  BY DEF StackInv
<1> QED  BY <1>1, <1>2 DEF StackInv, Distinct

LEMMA InputStack ==
    ASSUME TypeInv, StackInv, InputHandler
    PROVE  TypeInv' /\ StackInv'
<1>t. /\ timers \in [Timers -> TimerUses] /\ stack \in Seq(FrameType)
      /\ NoTimer \notin Timers
  BY TimerAssumption DEF TypeInv
<1>1. ASSUME NEW c \in Conns, ReadBytes(c)  PROVE TypeInv' /\ StackInv'
  <2>1. PICK n \in 1..(MaxBytes - bytes) :
           /\ bytes' = bytes + n
           /\ Push(ReadFrom(c, n))
    BY <1>1 DEF ReadBytes, ReadFrom
  <2> DEFINE f == ReadFrom(c, n)
  <2>2. n \in Nat /\ bytes' \in Nat /\ c \in Nat
    BY <2>1, BoundAssumption DEF TypeInv, Conns
  <2>3. f \in FrameType /\ f.timer = NoTimer
    BY <2>2, ReadFrame
  <2>4. stack' = <<f>> \o stack
    BY <2>1 DEF Push
  <2> HIDE DEF f
  <2>5. /\ stack' \in Seq(FrameType) /\ Range(stack') = {f} \union Range(stack)
        /\ Distinct(stack) => Distinct(stack')
    BY <2>3, <2>4, PushUntimed
  <2>6. timers' = timers
    BY <1>1 DEF ReadBytes
  <2>7. TypeInv'
    BY <1>1, <2>2, <2>5 DEF TypeInv, ReadBytes, widget
  <2> QED  BY <1>t, <2>3, <2>5, <2>6, <2>7, FramesKeep
<1>2. ASSUME NEW c \in Conns, EndOfFile(c)  PROVE TypeInv' /\ StackInv'
  <2>1. "input" \in Kinds
    BY DEF Kinds
  <2> DEFINE f == Frame("input", NoTimer)
  <2>2. f \in FrameType /\ f.timer = NoTimer
    BY <2>1, NewFrame
  <2>3. stack' = <<f>> \o stack
    BY <1>2 DEF EndOfFile, Push
  <2> HIDE DEF f
  <2>4. /\ stack' \in Seq(FrameType) /\ Range(stack') = {f} \union Range(stack)
        /\ Distinct(stack) => Distinct(stack')
    BY <2>2, <2>3, PushUntimed
  <2>5. /\ timers' \in [Timers -> TimerUses]
        /\ \A u \in Timers : timers[u] = "fired" => timers'[u] = "fired"
    BY <1>2, WithoutTimers DEF EndOfFile
  <2>6. TypeInv'
    <3>1. out' \in Seq(Nat) /\ input' \in Seq(Nat)
      BY <1>2 DEF EndOfFile, Disconnect
    <3>2. {fd, inputId, made, data, bytes}' \subseteq Nat /\ throttle' \in BOOLEAN
      BY <1>2 DEF TypeInv, EndOfFile, Disconnect, NoConn
    <3>3. mode' = "ascii" /\ outId' = NoTimer /\ binId' = NoTimer
      BY <1>2 DEF EndOfFile, Disconnect
    <3> QED  BY <2>4, <2>5, <3>1, <3>2, <3>3 DEF TypeInv
  <2> QED  BY <1>t, <2>2, <2>4, <2>5, <2>6, FramesKeep
<1>3. ASSUME Byte, stack' \in {<<OneLess>> \o Tail(stack),
                              <<Frame("callback", NoTimer), OneLess>> \o Tail(stack)}
      PROVE  /\ stack' \in Seq(FrameType)
             /\ Distinct(stack) => Distinct(stack')
             /\ \A f \in Range(stack') : f.timer \in Timers =>
                    \E g \in Range(stack) : g.timer = f.timer
  <2>1. /\ Top.kind # "main" /\ OneLess \in FrameType /\ OneLess.timer = Top.timer
        /\ Frame("callback", NoTimer) \in FrameType /\ Frame("callback", NoTimer).timer = NoTimer
    BY <1>3, ByteFrame
  <2>2. Range(stack) = {Top} \union Range(Tail(stack))
    BY <2>1, TopFrame
  <2> HIDE DEF OneLess, Frame
  <2>3. CASE stack' = <<OneLess>> \o Tail(stack)
    <3>1. /\ stack' \in Seq(FrameType) /\ Range(stack') = {OneLess} \union Range(Tail(stack))
          /\ Distinct(stack) => Distinct(stack')
      BY <2>1, <2>3, GotoStack
    <3> QED  BY <2>1, <2>2, <3>1
  <2>4. CASE stack' = <<Frame("callback", NoTimer), OneLess>> \o Tail(stack)
    <3> DEFINE f == Frame("callback", NoTimer)
    <3>0. f \in FrameType /\ f.timer = NoTimer /\ stack' = <<f, OneLess>> \o Tail(stack)
      BY <2>1, <2>4
    <3> HIDE DEF f
    <3>1. /\ stack' \in Seq(FrameType) /\ Range(stack') = {f, OneLess} \union Range(Tail(stack))
          /\ Distinct(stack) => Distinct(stack')
      BY <2>1, <3>0, CallbackStack
    <3> QED  BY <1>t, <2>1, <2>2, <3>0, <3>1
  <2> QED  BY <1>3, <2>3, <2>4
<1>4. ASSUME Byte, stack' \in {<<OneLess>> \o Tail(stack),
                              <<Frame("callback", NoTimer), OneLess>> \o Tail(stack)},
             timers' \in [Timers -> TimerUses],
             \A u \in Timers : timers[u] = "fired" => timers'[u] = "fired"
      PROVE  stack' \in Seq(FrameType) /\ StackInv'
  BY <1>3, <1>4, FramesKeep
<1>5. Byte => Top.conn \in Nat
  <2>1. ASSUME Byte  PROVE Top \in FrameType
    BY <2>1, ByteFrame, TopFrame
  <2> QED  BY <2>1 DEF FrameType
<1>6. ASSUME NEW state \in BOOLEAN, XonXoff(state)  PROVE TypeInv' /\ StackInv'
  <2>1. /\ throttle' \in BOOLEAN
        /\ timers' \in [Timers -> TimerUses] /\ outId' \in Timers \union {NoTimer}
        /\ \A u \in Timers : timers[u] = "fired" => timers'[u] = "fired"
    <3>1. Throttle(state, out, outId, FALSE) /\ outId \in Timers \union {NoTimer}
      BY <1>6 DEF XonXoff, TypeInv
    <3> QED  BY <3>1, ThrottleTimers DEF Throttled
  <2>2. stack' \in Seq(FrameType) /\ StackInv'
    BY <1>4, <1>6, <2>1 DEF XonXoff, Goto
  <2> QED  BY <1>6, <2>1, <2>2 DEF TypeInv, XonXoff, Byte, server
<1>7. CASE Line
  <2>1. stack' \in Seq(FrameType) /\ StackInv'
    BY <1>4, <1>7, <1>t DEF Line
  <2> QED  BY <1>7, <2>1 DEF TypeInv, Line, Byte, server
<1>8. CASE Text
  <2>1. stack' \in Seq(FrameType) /\ StackInv'
    BY <1>4, <1>8, <1>t DEF Text, Kept, Goto
  <2> QED  BY <1>5, <1>8, <2>1 DEF TypeInv, Text, Kept, Byte, server
<1>9. CASE BinaryByte
  <2>1. /\ timers' \in [Timers -> TimerUses] /\ binId' \in Timers
        /\ \A u \in Timers : timers[u] = "fired" => timers'[u] = "fired"
    BY <1>9, RetimedTimers DEF BinaryByte
  <2>2. stack' \in Seq(FrameType) /\ StackInv'
    BY <1>4, <1>9, <2>1 DEF BinaryByte, Kept, Goto
  <2> QED  BY <1>5, <1>9, <2>1, <2>2 DEF TypeInv, BinaryByte, Kept, Byte, server
<1>10. CASE LastByte
  <2>1. /\ timers' \in [Timers -> TimerUses]
        /\ \A u \in Timers : timers[u] = "fired" => timers'[u] = "fired"
    BY <1>10, WithoutTimers DEF LastByte
  <2>2. stack' \in Seq(FrameType) /\ StackInv'
    BY <1>4, <1>10, <2>1 DEF LastByte
  <2>3. out' \in Seq(Nat) /\ input' \in Seq(Nat)
    BY <1>10 DEF TypeInv, LastByte, Byte
  <2>4. {fd, inputId, made, data, bytes}' \subseteq Nat /\ throttle' \in BOOLEAN
    BY <1>10 DEF TypeInv, LastByte, Byte, server
  <2>5. mode' = "ascii" /\ outId' = outId /\ binId' = NoTimer
    BY <1>10 DEF LastByte
  <2> QED  BY <2>1, <2>2, <2>3, <2>4, <2>5 DEF TypeInv
<1>11. CASE BytesDone
  <2>1. "input" \in Kinds
    BY DEF Kinds
  <2> DEFINE f == Frame("input", NoTimer)
  <2>2. f \in FrameType /\ f.timer = NoTimer /\ Top.kind # "main"
    BY <1>11, <2>1, NewFrame DEF BytesDone
  <2>3. stack' = <<f>> \o Tail(stack)
    BY <1>11 DEF BytesDone, Goto
  <2> HIDE DEF f
  <2>4. /\ stack' \in Seq(FrameType) /\ Range(stack') = {f} \union Range(Tail(stack))
        /\ Distinct(stack) => Distinct(stack')
    BY <2>2, <2>3, GotoStack
  <2>5. Range(stack) = {Top} \union Range(Tail(stack))
    BY <2>2, TopFrame
  <2>6. timers' = timers
    BY <1>11 DEF BytesDone
  <2>7. TypeInv'
    BY <1>11, <2>4 DEF TypeInv, BytesDone, widget, server
  <2> QED  BY <1>t, <2>2, <2>4, <2>5, <2>6, <2>7, FramesKeep
<1> QED  BY <1>1, <1>2, <1>6, <1>7, <1>8, <1>9, <1>10, <1>11 DEF InputHandler, ProcessByte

LEMMA TimerStack ==
    ASSUME TypeInv, StackInv, Timer \/ Return
    PROVE  TypeInv' /\ StackInv'
<1>t. /\ timers \in [Timers -> TimerUses] /\ stack \in Seq(FrameType)
      /\ NoTimer \notin Timers
  BY TimerAssumption DEF TypeInv
<1>f. \A f \in Range(stack) : f.timer \in Timers => timers[f.timer] = "fired"
  BY DEF StackInv
\* The frame on top returns.
<1>1. ASSUME Top.kind # "main", stack' = Tail(stack), timers' \in [Timers -> TimerUses],
             \A u \in Timers : timers[u] = "fired" /\ u # Top.timer => timers'[u] = "fired"
      PROVE  stack' \in Seq(FrameType) /\ StackInv'
  <2>1. /\ stack' \in Seq(FrameType)
        /\ Range(stack) = {Top} \union Range(stack')
        /\ Distinct(stack) => /\ Distinct(stack')
                              /\ Top.timer \in Timers =>
                                    \A g \in Range(stack') : g.timer # Top.timer
    BY <1>1, PopStack, Zenon
  <2>2. \A f \in Range(stack') : f.timer \in Timers => timers'[f.timer] = "fired"
    <3> TAKE f \in Range(stack')
    <3> HAVE f.timer \in Timers
    <3>1. timers[f.timer] = "fired"
      BY <1>f, <2>1
    <3>2. f.timer # Top.timer
      BY <2>1 DEF StackInv
    <3> QED  BY <1>1, <3>1, <3>2
  <2> QED  BY <1>1, <2>1, <2>2, FramesKeep DEF StackInv
\* It becomes another.
<1>2. ASSUME Top.kind # "main", NEW f \in FrameType, f.timer = Top.timer,
             stack' = <<f>> \o Tail(stack), timers' = timers
      PROVE  stack' \in Seq(FrameType) /\ StackInv'
  <2>1. /\ stack' \in Seq(FrameType) /\ Range(stack') = {f} \union Range(Tail(stack))
        /\ Distinct(stack) => Distinct(stack')
    BY <1>2, GotoStack
  <2>2. Range(stack) = {Top} \union Range(Tail(stack))
    BY <1>2, TopFrame
  <2> QED  BY <1>t, <1>2, <2>1, <2>2, FramesKeep
<1>3. ASSUME NEW t \in Timers, Fire(t)  PROVE TypeInv' /\ StackInv'
  <2>1. /\ timers' = [timers EXCEPT ![t] = "fired"] /\ timers[t] \in {"send", "binary", "connect"}
        /\ timers' \in [Timers -> TimerUses]
    BY <1>3, <1>t DEF Fire, Running, TimerUses
  <2>2. PICK k \in {"send", "connect", "callback"} : stack' = <<Frame(k, t)>> \o stack
    BY <1>3, <2>1 DEF Fire, Push
  <2> DEFINE f == Frame(k, t)
  <2>3. f \in FrameType /\ f.timer = t
    BY <2>2, NewFrame DEF Kinds
  <2>4. stack' = <<f>> \o stack
    BY <2>2
  <2> HIDE DEF f
  <2>5. \A g \in Range(stack) : g.timer # f.timer
    BY <1>f, <2>1, <2>3
  <2>6. /\ stack' \in Seq(FrameType) /\ Range(stack') = {f} \union Range(stack)
        /\ Distinct(stack) => Distinct(stack')
    BY <2>3, <2>4, <2>5, PushStack, Zenon
  <2>7. \A g \in Range(stack') : g.timer \in Timers => timers'[g.timer] = "fired"
    BY <1>t, <1>f, <2>1, <2>3, <2>6
  <2>8. TypeInv'
    <3>1. out' \in Seq(Nat) /\ input' \in Seq(Nat)
      <4>1. out' = out /\ (input' = input \/ input' = <<>>)
        BY <1>3 DEF Fire
      <4>2. <<>> \in Seq(Nat) /\ out \in Seq(Nat) /\ input \in Seq(Nat)
        BY EmptySeq DEF TypeInv
      <4> QED  BY <4>1, <4>2, Zenon
    <3>2. {fd, inputId, made, data, bytes}' \subseteq Nat /\ throttle' \in BOOLEAN
      BY <1>3 DEF TypeInv, Fire, server
    <3>3. mode' \in {"ascii", mode} /\ outId' = outId /\ binId' = binId
      BY <1>3 DEF Fire
    <3> QED  BY <2>1, <2>6, <3>1, <3>2, <3>3 DEF TypeInv
  <2> QED  BY <2>1, <2>6, <2>7, <2>8, FramesKeep
<1>4. CASE SendByte
  <2>1. Top.kind # "main" /\ Top \in FrameType
    BY <1>4, TopFrame DEF SendByte
  <2>2. CASE ~throttle /\ out # <<>>
    <3>1. stack' = <<Frame("output", Top.timer)>> \o Tail(stack) /\ timers' = timers
          /\ out' = Tail(out) /\ outId' = NoTimer
      BY <1>4, <2>2 DEF SendByte, Goto, IdForgotten
    <3>2. Frame("output", Top.timer) \in FrameType /\ Frame("output", Top.timer).timer = Top.timer
      BY <2>1, NewFrame DEF FrameType, Kinds
    <3>3. stack' \in Seq(FrameType) /\ StackInv'
      BY <1>2, <2>1, <3>1, <3>2
    <3>4. out' \in Seq(Nat)
      BY <2>2, <3>1 DEF TypeInv
    <3> QED  BY <1>4, <3>1, <3>3, <3>4 DEF TypeInv, SendByte, server
  <2>3. CASE ~(~throttle /\ out # <<>>)
    <3>1. stack' = Tail(stack) /\ timers' = Returned(timers) /\ out' = out /\ outId' = NoTimer
      BY <1>4, <2>3 DEF SendByte, Pop, IdForgotten
    <3>2. /\ timers' \in [Timers -> TimerUses]
          /\ \A u \in Timers : timers[u] = "fired" /\ u # Top.timer => timers'[u] = "fired"
      BY <1>t, <3>1, ReturnedTimers
    <3>3. stack' \in Seq(FrameType) /\ StackInv'
      BY <1>1, <2>1, <3>1, <3>2
    <3> QED  BY <1>4, <3>1, <3>2, <3>3 DEF TypeInv, SendByte, server
  <2> QED  BY <2>2, <2>3
<1>5. CASE Sent
  <2>1. /\ Throttle(throttle, out, outId, TRUE) /\ outId \in Timers \union {NoTimer}
        /\ throttle \in BOOLEAN /\ Top.kind # "main" /\ stack' = Tail(stack)
    BY <1>5 DEF Sent, TypeInv, Pop
  <2>2. /\ throttle' \in BOOLEAN
        /\ timers' \in [Timers -> TimerUses] /\ outId' \in Timers \union {NoTimer}
        /\ \A u \in Timers : timers[u] = "fired" /\ u # Top.timer => timers'[u] = "fired"
    BY <2>1, ThrottleTimers DEF Throttled
  <2>3. stack' \in Seq(FrameType) /\ StackInv'
    BY <1>1, <2>1, <2>2
  <2> QED  BY <1>5, <2>2, <2>3 DEF TypeInv, Sent, server
<1>6. CASE Connect
  <2>1. Top.kind # "main" /\ Top \in FrameType
    BY <1>6, TopFrame DEF Connect
  <2>2. Frame("callback", Top.timer) \in FrameType /\ Frame("callback", Top.timer).timer = Top.timer
    BY <2>1, NewFrame DEF FrameType, Kinds
  <2>3. stack' = <<Frame("callback", Top.timer)>> \o Tail(stack) /\ timers' = timers
    BY <1>6 DEF Connect, Goto
  <2>4. stack' \in Seq(FrameType) /\ StackInv'
    BY <1>2, <2>1, <2>2, <2>3
  <2>5. made' \in Nat /\ fd' = made' /\ inputId' = made' /\ throttle' = FALSE
    BY <1>6 DEF TypeInv, Connect
  <2>6. UNCHANGED <<out, outId, mode, binId, input, timers, data, bytes>>
    BY <1>6 DEF Connect, server
  <2> QED  BY <2>4, <2>5, <2>6 DEF TypeInv
<1>7. CASE ConnectFails \/ Return
  <2>1. Top.kind # "main" /\ stack' = Tail(stack) /\ timers' = Returned(timers)
    BY <1>7 DEF ConnectFails, Return, Pop
  <2>2. /\ timers' \in [Timers -> TimerUses]
        /\ \A u \in Timers : timers[u] = "fired" /\ u # Top.timer => timers'[u] = "fired"
    BY <1>t, <2>1, ReturnedTimers
  <2>3. stack' \in Seq(FrameType) /\ StackInv'
    BY <1>1, <2>1, <2>2
  <2> QED  BY <1>7, <2>2, <2>3 DEF TypeInv, ConnectFails, Return, widget, server, NoConn
<1> QED  BY <1>3, <1>4, <1>5, <1>6, <1>7 DEF Timer

LEMMA UserStack ==
    ASSUME TypeInv, StackInv, User
    PROVE  TypeInv' /\ StackInv'
<1>t. /\ timers \in [Timers -> TimerUses] /\ stack \in Seq(FrameType)
      /\ NoTimer \notin Timers /\ outId \in Timers \union {NoTimer}
  BY TimerAssumption DEF TypeInv
<1>1. ASSUME stack' = stack, timers' \in [Timers -> TimerUses],
             \A u \in Timers : timers[u] = "fired" => timers'[u] = "fired"
      PROVE  stack' \in Seq(FrameType) /\ StackInv'
  BY <1>t, <1>1 DEF StackInv, Distinct
<1>2. CASE SendData
  <2>1. /\ throttle' \in BOOLEAN /\ timers' \in [Timers -> TimerUses]
        /\ outId' \in Timers \union {NoTimer}
        /\ \A u \in Timers : timers[u] = "fired" => timers'[u] = "fired"
    <3>1. Throttle(throttle, out', outId, FALSE) /\ throttle \in BOOLEAN
      BY <1>2 DEF SendData, TypeInv
    <3> QED  BY <1>t, <3>1, ThrottleTimers DEF Throttled
  <2>2. stack' \in Seq(FrameType) /\ StackInv'
    BY <1>1, <1>2, <2>1 DEF SendData
  <2> QED  BY <1>2, <2>1, <2>2 DEF TypeInv, SendData, server
<1>3. CASE DiscardOutput
  <2>1. /\ timers' \in [Timers -> TimerUses]
        /\ \A u \in Timers : timers[u] = "fired" => timers'[u] = "fired"
    BY <1>3, WithoutTimers DEF DiscardOutput
  <2>2. stack' \in Seq(FrameType) /\ StackInv'
    BY <1>1, <1>3, <2>1 DEF DiscardOutput
  <2>3. out' \in Seq(Nat) /\ outId' = NoTimer
    BY <1>3 DEF DiscardOutput
  <2> QED  BY <1>3, <2>1, <2>2, <2>3 DEF TypeInv, DiscardOutput, server
<1>4. ASSUME Disconnect, UNCHANGED <<throttle, made, data, server>>,
             timers' \in [Timers -> TimerUses], stack' \in Seq(FrameType)
      PROVE  TypeInv'
  <2>1. out' \in Seq(Nat) /\ input' \in Seq(Nat)
    BY <1>4 DEF Disconnect
  <2>2. {fd, inputId, made, data, bytes}' \subseteq Nat /\ throttle' \in BOOLEAN
    BY <1>4 DEF TypeInv, Disconnect, NoConn, server
  <2>3. mode' = "ascii" /\ outId' = NoTimer /\ binId' = NoTimer
    BY <1>4 DEF Disconnect
  <2> QED  BY <1>4, <2>1, <2>2, <2>3 DEF TypeInv
<1>5. CASE Reconnect
  <2>1. /\ timers' \in [Timers -> TimerUses]
        /\ \A u \in Timers : timers[u] = "fired" => timers'[u] = "fired"
    BY <1>5, ReconnectTimers
  <2>2. stack' \in Seq(FrameType) /\ StackInv'
    BY <1>1, <1>5, <2>1 DEF Reconnect
  <2> QED  BY <1>4, <1>5, <2>1, <2>2 DEF Reconnect
<1>6. CASE set_values
  <2>1. "connect" \in Kinds
    BY DEF Kinds
  <2> DEFINE f == Frame("connect", NoTimer)
  <2>2. f \in FrameType /\ f.timer = NoTimer
    BY <2>1, NewFrame
  <2>3. stack' = <<f>> \o stack
    BY <1>6 DEF set_values, Push
  <2> HIDE DEF f
  <2>4. /\ stack' \in Seq(FrameType) /\ Range(stack') = {f} \union Range(stack)
        /\ Distinct(stack) => Distinct(stack')
    BY <1>t, <2>2, <2>3, PushStack
  <2>5. /\ timers' \in [Timers -> TimerUses]
        /\ \A u \in Timers : timers[u] = "fired" => timers'[u] = "fired"
    BY <1>6, WithoutTimers DEF set_values
  <2>6. TypeInv'
    BY <1>4, <1>6, <2>4, <2>5 DEF set_values
  <2> QED  BY <1>t, <2>2, <2>4, <2>5, <2>6, FramesKeep
<1> QED  BY <1>2, <1>3, <1>4, <1>5, <1>6 DEF User
-----------------------------------------------------------------------------
(* What belongs to which connection. *)

Carried == Belongs /\ NothingCarriedOver

LEMMA RangeAppend ==
    ASSUME NEW q \in Seq(Nat), NEW e \in Nat
    PROVE  Range(Append(q, e)) = Range(q) \union {e}
<1>1. /\ Len(Append(q, e)) = Len(q) + 1 /\ Append(q, e) \in Seq(Nat) /\ Len(q) \in Nat
      /\ Append(q, e)[Len(q) + 1] = e
      /\ \A n \in 1..Len(q) : Append(q, e)[n] = q[n]
  OBVIOUS
<1>2. DOMAIN Append(q, e) = 1..(Len(q) + 1) /\ DOMAIN q = 1..Len(q)
  BY <1>1
<1>3. 1..(Len(q) + 1) = 1..Len(q) \union {Len(q) + 1}
  BY <1>1
<1> QED  BY <1>1, <1>2, <1>3 DEF Range

LEMMA RangeTail ==
    ASSUME NEW q \in Seq(Nat), q # <<>>
    PROVE  Range(Tail(q)) \subseteq Range(q)
BY TailRange

LEMMA RangeNone == Range(<<>>) = {}
BY DEF Range

LEMMA UnusedRange == Unused = {f.conn : f \in {f \in Range(stack) : f.left > 0}}
BY DEF Unused, Range

\* A step that takes nothing from the connections' histories and keeps what is
\* collected, queued and read in them.
LEMMA CarriedKeeps ==
    ASSUME Carried, UNCHANGED <<fd, inputId, inputs>>,
           cut \subseteq cut', overrun \subseteq overrun',
           NoConn \notin Range(input'),
           Range(input') \subseteq Ours, Range(out') \subseteq Range(out) \union {fd},
           \A f \in Range(stack') : f.left > 0 =>
              \/ f.conn \in Ours \ {NoConn}
              \/ \E g \in Range(stack) : g.left > 0 /\ g.conn = f.conn
    PROVE  Carried'
BY DEF Carried, Belongs, NothingCarriedOver, Ours

\* Disconnect leaves nothing of the connection behind.
LEMMA DisconnectCarries ==
    ASSUME Carried, Disconnect, overrun' = overrun,
           \A f \in Range(stack') : f.left > 0 => f \in Range(stack)
    PROVE  Carried'
<1>1. /\ inputs' = inputs \ {inputId} /\ inputId' = NoConn /\ fd' = NoConn
      /\ out' = <<>> /\ input' = <<>> /\ cut' = cut \union Unused
  BY DEF Disconnect
<1>2. \A f \in Range(stack') : f.left > 0 => f.conn \in Unused /\ f.conn # NoConn
  BY UnusedRange DEF Carried, Belongs
<1>3. Range(input') = {} /\ Range(out') = {}
  BY <1>1, RangeNone
<1> QED  BY <1>1, <1>2, <1>3 DEF Carried, Belongs, NothingCarriedOver, Ours

LEMMA InputCarries ==
    ASSUME TypeInv, Carried, InputHandler
    PROVE  Carried'
<1>1. ASSUME NEW c \in Conns, ReadBytes(c)  PROVE Carried'
  <2>1. PICK n \in 1..(MaxBytes - bytes) :
           Push(ReadFrom(c, n))
    BY <1>1 DEF ReadBytes, ReadFrom
  <2> DEFINE f == ReadFrom(c, n)
  <2>2. n \in Nat /\ c \in Nat
    BY <2>1, BoundAssumption DEF TypeInv, Conns
  <2>3. f \in FrameType /\ f.conn = c
    BY <2>2, ReadFrame
  <2>4. stack' = <<f>> \o stack
    BY <2>1 DEF Push
  <2> HIDE DEF f
  <2>5. Range(stack') = {f} \union Range(stack)
    BY <2>3, <2>4, PushStack
  <2>6. c \in Ours \ {NoConn}
    BY <1>1 DEF ReadBytes, Carried, Belongs, NothingCarriedOver, Ours
  <2>7. UNCHANGED <<fd, inputId, inputs, cut, overrun, input, out>>
    BY <1>1 DEF ReadBytes, widget, history
  <2>8. Range(input') \subseteq Ours /\ NoConn \notin Range(input') /\ Range(out') \subseteq Range(out)
    BY <2>7 DEF Carried, Belongs, NothingCarriedOver, Ours
  <2> QED  BY <2>3, <2>5, <2>6, <2>7, <2>8, CarriedKeeps
<1>2. ASSUME NEW c \in Conns, EndOfFile(c)  PROVE Carried'
  <2> DEFINE f == Frame("input", NoTimer)
  <2>2. f \in FrameType /\ f.left = 0
    BY NewFrame DEF Kinds
  <2>3. stack' = <<f>> \o stack
    BY <1>2 DEF EndOfFile, Push
  <2> HIDE DEF f
  <2>4. Range(stack') = {f} \union Range(stack)
    BY <2>2, <2>3, PushStack
  <2> QED  BY <1>2, <2>2, <2>4, DisconnectCarries DEF EndOfFile
<1>3. ASSUME Byte, stack' \in {<<OneLess>> \o Tail(stack),
                              <<Frame("callback", NoTimer), OneLess>> \o Tail(stack)},
             input' = <<>> \/ input' = input \/ input' = Append(input, Top.conn)
      PROVE  Carried'
  <2>1. /\ Top.kind # "main" /\ OneLess \in FrameType /\ OneLess.conn = Top.conn /\ Top.left > 0
        /\ Frame("callback", NoTimer) \in FrameType /\ Frame("callback", NoTimer).left = 0
    BY <1>3, ByteFrame
  <2>2. Range(stack) = {Top} \union Range(Tail(stack)) /\ Top \in FrameType
    BY <2>1, TopFrame
  <2> HIDE DEF OneLess, Frame
  <2>3. \A f \in Range(stack') : f.left > 0 => \E g \in Range(stack) : g.left > 0 /\ g.conn = f.conn
    <3>1. CASE stack' = <<OneLess>> \o Tail(stack)
      <4>1. Range(stack') = {OneLess} \union Range(Tail(stack))
        BY <2>1, <3>1, GotoStack
      <4> QED  BY <2>1, <2>2, <4>1
    <3>2. CASE stack' = <<Frame("callback", NoTimer), OneLess>> \o Tail(stack)
      <4> DEFINE f == Frame("callback", NoTimer)
      <4>0. f \in FrameType /\ ~(f.left > 0) /\ stack' = <<f, OneLess>> \o Tail(stack)
        BY <2>1, <3>2
      <4> HIDE DEF f
      <4>1. Range(stack') = {f, OneLess} \union Range(Tail(stack))
        BY <2>1, <4>0, CallbackStack
      <4> QED  BY <2>1, <2>2, <4>0, <4>1
    <3> QED  BY <1>3, <3>1, <3>2
  <2>4. Top.conn \in Ours \ {NoConn}
    BY <2>1, <2>2 DEF Carried, Belongs
  <2>5. Range(input) \subseteq Ours /\ NoConn \notin Range(input)
    BY DEF Carried, Belongs, NothingCarriedOver, Ours
  <2>6. Range(input') \subseteq Ours /\ NoConn \notin Range(input')
    <3>1. CASE input' = <<>>
      BY <3>1, RangeNone
    <3>2. CASE input' = input
      BY <2>5, <3>2
    <3>3. CASE input' = Append(input, Top.conn)
      <4>1. Range(Append(input, Top.conn)) = Range(input) \union {Top.conn}
        BY <2>2, RangeAppend DEF TypeInv, FrameType
      <4> QED  BY <2>4, <2>5, <3>3, <4>1
    <3> QED  BY <1>3, <3>1, <3>2, <3>3
  <2>7. UNCHANGED <<fd, inputId, inputs, cut, overrun, out>>
    BY <1>3 DEF Byte
  <2> QED  BY <2>3, <2>6, <2>7, CarriedKeeps
<1>4. CASE ProcessByte
  <2>1. Byte
    BY <1>4 DEF ProcessByte, XonXoff, Line, Text, BinaryByte, LastByte
  <2>2. /\ stack' \in {<<OneLess>> \o Tail(stack),
                       <<Frame("callback", NoTimer), OneLess>> \o Tail(stack)}
        /\ input' = <<>> \/ input' = input \/ input' = Append(input, Top.conn)
    <3>1. ASSUME NEW state \in BOOLEAN, XonXoff(state)
          PROVE  stack' = <<OneLess>> \o Tail(stack) /\ input' = input
      BY <3>1 DEF XonXoff, Goto
    <3>2. CASE Line
      BY <3>2 DEF Line
    <3>3. CASE Text \/ BinaryByte
      BY <3>3 DEF Text, BinaryByte, Kept, Goto
    <3>4. CASE LastByte
      BY <3>4 DEF LastByte
    <3> QED  BY <1>4, <3>1, <3>2, <3>3, <3>4 DEF ProcessByte
  <2> QED  BY <1>3, <2>1, <2>2
<1>5. CASE BytesDone
  <2> DEFINE f == Frame("input", NoTimer)
  <2>2. f \in FrameType /\ f.left = 0 /\ Top.kind # "main"
    BY <1>5, NewFrame DEF BytesDone, Kinds
  <2>3. stack' = <<f>> \o Tail(stack)
    BY <1>5 DEF BytesDone, Goto
  <2> HIDE DEF f
  <2>4. Range(stack') = {f} \union Range(Tail(stack)) /\ Range(stack) = {Top} \union Range(Tail(stack))
    BY <2>2, <2>3, GotoStack, TopFrame
  <2>5. UNCHANGED <<fd, inputId, inputs, cut, overrun, input, out>>
    BY <1>5 DEF BytesDone, widget, history
  <2>6. Range(input') \subseteq Ours /\ NoConn \notin Range(input') /\ Range(out') \subseteq Range(out)
    BY <2>5 DEF Carried, Belongs, NothingCarriedOver, Ours
  <2> QED  BY <2>2, <2>4, <2>5, <2>6, CarriedKeeps
<1> QED  BY <1>1, <1>2, <1>4, <1>5 DEF InputHandler

LEMMA TimerCarries ==
    ASSUME TypeInv, Carried, Timer \/ Return
    PROVE  Carried'
\* The frame on top becomes one that reads nothing, or returns.
<1>1. ASSUME Top.kind # "main",
             \/ stack' = Tail(stack)
             \/ \E k \in Kinds, u \in Timers \union {NoTimer} : stack' = <<Frame(k, u)>> \o Tail(stack)
      PROVE  \A f \in Range(stack') : f.left > 0 => f \in Range(stack)
  <2>1. CASE stack' = Tail(stack)
    BY <1>1, <2>1, PopStack
  <2>2. ASSUME NEW k \in Kinds, NEW u \in Timers \union {NoTimer}, stack' = <<Frame(k, u)>> \o Tail(stack)
        PROVE  \A f \in Range(stack') : f.left > 0 => f \in Range(stack)
    <3> DEFINE f == Frame(k, u)
    <3>1. f \in FrameType /\ ~(f.left > 0) /\ stack' = <<f>> \o Tail(stack)
      BY <2>2, NewFrame
    <3> HIDE DEF f
    <3>2. Range(stack') = {f} \union Range(Tail(stack)) /\ Range(stack) = {Top} \union Range(Tail(stack))
      BY <1>1, <3>1, GotoStack, TopFrame
    <3> QED  BY <3>1, <3>2
  <2> QED  BY <1>1, <2>1, <2>2
<1>2. Range(input) \subseteq Ours /\ NoConn \notin Range(input)
  BY DEF Carried, Belongs, NothingCarriedOver, Ours
<1>3. ASSUME NEW t \in Timers, Fire(t)  PROVE Carried'
  <2>1. PICK k \in {"send", "connect", "callback"} : stack' = <<Frame(k, t)>> \o stack
    BY <1>3 DEF Fire, Push
  <2> DEFINE f == Frame(k, t)
  <2>2. f \in FrameType /\ ~(f.left > 0) /\ stack' = <<f>> \o stack
    BY <2>1, NewFrame DEF Kinds
  <2> HIDE DEF f
  <2>3. Range(stack') = {f} \union Range(stack)
    BY <2>2, PushStack
  <2>4. UNCHANGED <<fd, inputId, inputs, cut, overrun, out>> /\ input' \in {input, <<>>}
    BY <1>3 DEF Fire
  <2>5. Range(input') \subseteq Ours /\ NoConn \notin Range(input')
    BY <1>2, <2>4, RangeNone
  <2> QED  BY <2>2, <2>3, <2>4, <2>5, CarriedKeeps
<1>4. CASE SendByte \/ Sent \/ Return
  <2>1. Top.kind # "main"
    BY <1>4 DEF SendByte, Sent, Return
  <2>2. Top.timer \in Timers \union {NoTimer} /\ "output" \in Kinds
    BY <2>1, TopFrame DEF FrameType, Kinds
  <2>3. \/ stack' = Tail(stack)
        \/ \E k \in Kinds, u \in Timers \union {NoTimer} : stack' = <<Frame(k, u)>> \o Tail(stack)
    BY <1>4, <2>2 DEF SendByte, Sent, Return, Pop, Goto
  <2>4. \A f \in Range(stack') : f.left > 0 => f \in Range(stack)
    BY <1>1, <2>1, <2>3
  <2>5. UNCHANGED <<fd, inputId, inputs, cut, overrun, input>>
    BY <1>4 DEF SendByte, Sent, Return, widget, history
  <2>6. Range(out') \subseteq Range(out)
    <3>1. CASE out' = out
      BY <3>1
    <3>2. CASE out # <<>> /\ out' = Tail(out)
      BY <3>2, RangeTail DEF TypeInv
    <3> QED  BY <1>4, <3>1, <3>2 DEF SendByte, Sent, Return, widget
  <2> QED  BY <1>2, <2>4, <2>5, <2>6, CarriedKeeps
<1>5. CASE Connect \/ ConnectFails
  <2>1. Top.kind # "main"
    BY <1>5 DEF Connect, ConnectFails
  <2>2. Top.timer \in Timers \union {NoTimer} /\ "callback" \in Kinds
    BY <2>1, TopFrame DEF FrameType, Kinds
  <2>3. \/ stack' = Tail(stack)
        \/ \E k \in Kinds, u \in Timers \union {NoTimer} : stack' = <<Frame(k, u)>> \o Tail(stack)
    BY <1>5, <2>2 DEF Connect, ConnectFails, Pop, Goto
  <2>4. \A f \in Range(stack') : f.left > 0 => f \in Range(stack)
    BY <1>1, <2>1, <2>3
  <2>5. UNCHANGED <<cut, input, out>> /\ overrun' = Overwritten
    BY <1>5 DEF Connect, ConnectFails
  <2>6. overrun \subseteq overrun' /\ fd \in overrun' \union {NoConn}
    BY <2>5 DEF Overwritten
  <2>7. \/ fd' = NoConn /\ UNCHANGED <<inputs, inputId>>
        \/ fd' = inputId' /\ inputs' = inputs \union {inputId'} /\ inputId' \in Nat \ {0}
    BY <1>5 DEF Connect, ConnectFails, TypeInv
  <2> QED  BY <2>4, <2>5, <2>6, <2>7
           DEF Carried, Belongs, NothingCarriedOver, Ours, NoConn
<1> QED  BY <1>3, <1>4, <1>5 DEF Timer

LEMMA UserCarries ==
    ASSUME TypeInv, Carried, User
    PROVE  Carried'
<1>2. Range(input) \subseteq Ours /\ NoConn \notin Range(input)
  BY DEF Carried, Belongs, NothingCarriedOver, Ours
<1>3. CASE SendData \/ DiscardOutput
  <2>1. UNCHANGED <<fd, inputId, inputs, cut, overrun, input, stack>>
    BY <1>3 DEF SendData, DiscardOutput
  <2>2. Range(out') \subseteq Range(out) \union {fd}
    <3>1. CASE out' = <<>>
      BY <3>1, RangeNone
    <3>2. CASE out' = Append(out, fd)
      BY <3>2, RangeAppend DEF TypeInv
    <3> QED  BY <1>3, <3>1, <3>2 DEF SendData, DiscardOutput
  <2> QED  BY <1>2, <2>1, <2>2, CarriedKeeps
<1>4. CASE Reconnect
  BY <1>4, DisconnectCarries DEF Reconnect
<1>5. CASE set_values
  <2> DEFINE f == Frame("connect", NoTimer)
  <2>1. f \in FrameType /\ ~(f.left > 0) /\ stack' = <<f>> \o stack
    BY <1>5, NewFrame DEF set_values, Push, Kinds
  <2> HIDE DEF f
  <2>2. Range(stack') = {f} \union Range(stack)
    BY <2>1, PushStack
  <2> QED  BY <1>5, <2>1, <2>2, DisconnectCarries DEF set_values
<1> QED  BY <1>3, <1>4, <1>5 DEF User
-----------------------------------------------------------------------------
(* Who has which timer. *)

Timed == TimerInv /\ OnePacer

LEMMA SendingRange == InSendByte <=> \E f \in Range(stack) : f.kind \in {"send", "output"}
BY DEF InSendByte, Range

LEMMA SendingRangeNext == InSendByte' <=> \E f \in Range(stack') : f.kind \in {"send", "output"}
BY DEF InSendByte, Range

\* Timers, queue and mode are kept, or the mode is one that needs no timer.
LEMMA TimedSame ==
    ASSUME Timed, UNCHANGED <<throttle, out, outId, binId, timers, extra, lost>>,
           mode' = mode \/ mode' # "binary",
           Sending => Sending', InSendByte => InSendByte'
    PROVE  Timed'
BY DEF Timed, TimerInv, BinaryTimed, OnePacer, Running

\* A frame returns: its timer sends nothing any more.
LEMMA TimedReturned ==
    ASSUME TypeInv, StackInv, Timed, Top.kind # "main",
           UNCHANGED <<throttle, out, outId, mode, binId, extra, lost>>,
           timers' = Returned(timers),
           Sending => Sending', InSendByte => InSendByte'
    PROVE  Timed'
<1>1. \A u \in Timers : u = Top.timer => timers[u] = "fired"
  BY TopFrame DEF StackInv
<1>2. \A u \in Timers : timers'[u] = IF u = Top.timer THEN "free" ELSE timers[u]
  BY ReturnedTimers DEF TypeInv
<1>3. outId \in Timers \union {NoTimer}
  BY DEF TypeInv
<1>4. BinaryTimed'
  BY <1>1, <1>2 DEF Timed, TimerInv, BinaryTimed, Running
<1>5. OnePacer'
  BY <1>1, <1>2 DEF Timed, OnePacer
<1>6. outId' # NoTimer /\ ~Sending' /\ "send" \notin lost' => timers'[outId'] = "send"
  BY <1>1, <1>2, <1>3 DEF Timed, TimerInv
<1> QED  BY <1>4, <1>5, <1>6 DEF Timed, TimerInv

\* Whoever calls Throttle, there is a timer for what is queued and no other.
LEMMA TimedThrottle ==
    ASSUME TypeInv, StackInv, Timed, NEW state \in BOOLEAN, NEW done \in BOOLEAN,
           Throttle(state, out', outId, done), UNCHANGED <<mode, binId>>,
           done => Top.kind # "main", Sending => Sending'
    PROVE  Timed'
<1>1. \A u \in Timers : done /\ u = Top.timer => timers[u] = "fired"
  BY TopFrame DEF StackInv
<1>2. outId \in Timers \union {NoTimer} /\ NoTimer \notin Timers
  BY TimerAssumption DEF TypeInv
<1>3. Throttled(state, out', outId, done)
  BY <1>2, ThrottleTimers
<1>4. lost' = (IF outId' = outId THEN lost ELSE lost \ {"send", "held"})
                \union (IF state THEN Taken(outId, "binary") ELSE {})
  BY DEF Throttle
<1> USE DEF Throttled
<1>5. throttle' => outId' = NoTimer
  BY <1>3
<1>6. outId' # NoTimer /\ ~Sending' /\ "send" \notin lost' => timers'[outId'] = "send"
  BY <1>1, <1>2, <1>3, <1>4 DEF Timed, TimerInv
<1>7. out' # <<>> /\ ~throttle' => outId' # NoTimer
  BY <1>2, <1>3
<1>8. BinaryTimed'
  <2> SUFFICES ASSUME mode = "binary", "binary" \notin lost'
               PROVE  binId \in Timers /\ timers'[binId] = "binary"
    BY DEF BinaryTimed, Running
  <2>1. "binary" \notin lost
    BY <1>4
  <2>2. binId \in Timers /\ timers[binId] = "binary"
    BY <2>1 DEF Timed, TimerInv, BinaryTimed, Running
  <2>3. state => binId # outId
    BY <1>4, <2>2 DEF Taken, Running
  <2>4. ~(done /\ binId = Top.timer)
    BY <1>1, <2>2
  <2> QED  BY <1>3, <2>2, <2>3, <2>4
<1>9. OnePacer'
  <2> SUFFICES ASSUME NEW t \in Timers, timers'[t] = "send"
               PROVE  t = outId' \/ t \in extra'
    BY DEF OnePacer
  <2>1. timers[t] = "send" => t = outId \/ t \in extra
    BY DEF Timed, OnePacer
  <2>2. ~(done /\ t = Top.timer)
    BY <1>3
  <2>3. t \in extra => t \in extra'
    BY <1>3
  <2>4. CASE state
    <3>1. timers[t] = "send" /\ t # outId
      BY <1>3, <2>2, <2>4
    <3> QED  BY <2>1, <2>3, <3>1
  <2>5. CASE ~state
    <3>1. t = outId' \/ (timers[t] = "send" /\ (outId' = outId \/ outId = NoTimer))
      BY <1>3, <2>2, <2>5
    <3> QED  BY <1>2, <2>1, <2>3, <3>1
  <2> QED  BY <2>4, <2>5
<1> QED  BY <1>5, <1>6, <1>7, <1>8, <1>9 DEF Timed, TimerInv

\* Disconnect takes both timers, and all that they were for.
LEMMA TimedDisconnect ==
    ASSUME TypeInv, Timed, Disconnect, extra' = extra \ {outId, binId},
           \A u \in Timers : timers'[u] = "send" =>
              timers[u] = "send" /\ u \notin {outId, binId}
    PROVE  Timed'
<1>1. outId' = NoTimer /\ out' = <<>> /\ mode' = "ascii"
  BY DEF Disconnect
<1> QED  BY <1>1 DEF Timed, TimerInv, BinaryTimed, OnePacer

\* A byte of a binary block takes the timer of the block, whoever has it now.
LEMMA TimedBinary ==
    ASSUME TypeInv, Timed, UNCHANGED <<throttle, outId, out>>,
           NEW t, t = NoTimer \/ t \in Timers, binId' = t,
           t = NoTimer => mode' = "ascii",
           t \in Timers => \/ timers[t] = "free"
                           \/ t = binId /\ timers[t] \in {"send", "binary", "connect"},
           \A u \in Timers : timers'[u] =
              IF u = t THEN "binary"
              ELSE IF u = binId /\ timers[u] \in {"send", "binary", "connect"} THEN "free"
              ELSE timers[u],
           Robbed, Sending => Sending', InSendByte => InSendByte'
    PROVE  Timed'
<1>1. /\ extra' = extra \ {binId}
      /\ lost' = (lost \ {"binary"}) \union (IF binId = outId THEN Taken(binId, "send") ELSE {})
  BY DEF Robbed
<1>2. outId \in Timers \union {NoTimer} /\ NoTimer \notin Timers
  BY TimerAssumption DEF TypeInv
<1>3. outId' # NoTimer /\ ~Sending' /\ "send" \notin lost' => timers'[outId'] = "send"
  <2> SUFFICES ASSUME outId # NoTimer, ~Sending', "send" \notin lost'
               PROVE  timers'[outId] = "send"
    OBVIOUS
  <2>1. outId \in Timers /\ timers[outId] = "send"
    BY <1>1, <1>2 DEF Timed, TimerInv
  <2>2. outId # binId
    BY <1>1, <2>1 DEF Taken, Running
  <2>3. outId # t
    BY <2>1, <2>2, <1>2
  <2> QED  BY <2>1, <2>2, <2>3
<1>4. lost \intersect {"send", "held"} \subseteq lost'
  BY <1>1
<1>5. out' # <<>> /\ ~throttle' /\ ~InSendByte' /\ lost' \intersect {"send", "held"} = {} => outId' # NoTimer
  <2> SUFFICES ASSUME out # <<>>, ~throttle, ~InSendByte', lost' \intersect {"send", "held"} = {}
               PROVE  outId # NoTimer
    OBVIOUS
  <2>1. lost \intersect {"send", "held"} = {}
    BY <1>4
  <2> QED  BY <2>1 DEF Timed, TimerInv
<1>6. BinaryTimed'
  BY DEF BinaryTimed, Running
<1>7. OnePacer'
  <2> SUFFICES ASSUME NEW u \in Timers, timers'[u] = "send"
               PROVE  u = outId \/ u \in extra'
    BY DEF OnePacer
  <2>1. u # t /\ timers[u] = "send" /\ u # binId
    OBVIOUS
  <2> QED  BY <1>1, <2>1 DEF Timed, OnePacer
<1> QED  BY <1>3, <1>5, <1>6, <1>7 DEF Timed, TimerInv

\* Nobody leaves SendByte but by its own steps.
LEMMA SendersKeep ==
    ASSUME TypeInv,
           \/ Range(stack) \subseteq Range(stack')
           \/ /\ Top.kind # "main" /\ Top.kind \notin {"send", "output"}
              /\ Range(Tail(stack)) \subseteq Range(stack')
    PROVE  (Sending => Sending') /\ (InSendByte => InSendByte')
<1>1. CASE Range(stack) \subseteq Range(stack')
  BY <1>1, SendingRange, SendingRangeNext DEF Sending
<1>2. CASE /\ Top.kind # "main" /\ Top.kind \notin {"send", "output"}
           /\ Range(Tail(stack)) \subseteq Range(stack')
  <2>1. Range(stack) = {Top} \union Range(Tail(stack))
    BY <1>2, TopFrame
  <2> QED  BY <1>2, <2>1, SendingRange, SendingRangeNext DEF Sending
<1> QED  BY <1>1, <1>2

LEMMA InputTimed ==
    ASSUME TypeInv, StackInv, Timed, InputHandler
    PROVE  Timed'
<1>1. ASSUME NEW c \in Conns, ReadBytes(c)  PROVE Timed'
  <2>1. PICK n \in 1..(MaxBytes - bytes) :
           Push(ReadFrom(c, n))
    BY <1>1 DEF ReadBytes, ReadFrom
  <2> DEFINE f == ReadFrom(c, n)
  <2>2. n \in Nat /\ c \in Nat
    BY <2>1, BoundAssumption DEF TypeInv, Conns
  <2>3. f \in FrameType
    BY <2>2, ReadFrame
  <2>4. stack' = <<f>> \o stack
    BY <2>1 DEF Push
  <2> HIDE DEF f
  <2>5. Range(stack') = {f} \union Range(stack)
    BY <2>3, <2>4, PushStack
  <2>6. (Sending => Sending') /\ (InSendByte => InSendByte')
    BY <2>5, SendersKeep
  <2>7. UNCHANGED <<throttle, out, outId, mode, binId, timers, extra, lost>>
    BY <1>1 DEF ReadBytes, widget, history
  <2> QED  BY <2>6, <2>7, TimedSame
<1>2. ASSUME NEW c \in Conns, EndOfFile(c)  PROVE Timed'
  <2>1. \A u \in Timers : timers'[u] = "send" => timers[u] = "send" /\ u \notin {outId, binId}
    BY <1>2, WithoutTimers DEF EndOfFile
  <2> QED  BY <1>2, <2>1, TimedDisconnect DEF EndOfFile
<1>3. ASSUME Byte, stack' \in {<<OneLess>> \o Tail(stack),
                              <<Frame("callback", NoTimer), OneLess>> \o Tail(stack)}
      PROVE  (Sending => Sending') /\ (InSendByte => InSendByte')
  <2>1. /\ Top.kind # "main" /\ Top.kind = "bytes" /\ OneLess \in FrameType
        /\ Frame("callback", NoTimer) \in FrameType
    BY <1>3, ByteFrame
  <2> HIDE DEF OneLess, Frame
  <2>2. Range(Tail(stack)) \subseteq Range(stack')
    <3>1. CASE stack' = <<OneLess>> \o Tail(stack)
      BY <2>1, <3>1, GotoStack
    <3>2. CASE stack' = <<Frame("callback", NoTimer), OneLess>> \o Tail(stack)
      BY <2>1, <3>2, CallbackStack
    <3> QED  BY <1>3, <3>1, <3>2
  <2> QED  BY <2>1, <2>2, SendersKeep
<1>4. ASSUME NEW state \in BOOLEAN, XonXoff(state)  PROVE Timed'
  <2>1. Throttle(state, out, outId, FALSE) /\ Byte /\ stack' = <<OneLess>> \o Tail(stack)
        /\ out' = out /\ UNCHANGED <<mode, binId>>
    BY <1>4 DEF XonXoff, Goto, Byte
  <2>2. Throttle(state, out', outId, FALSE)
    BY <2>1
  <2>3. Sending => Sending'
    BY <1>3, <2>1
  <2> QED  BY <2>1, <2>2, <2>3, TimedThrottle
<1>5. CASE Line \/ Text
  <2>1. Byte /\ (Sending => Sending') /\ (InSendByte => InSendByte')
    BY <1>3, <1>5 DEF Line, Text, Kept, Goto
  <2>2. UNCHANGED <<throttle, out, outId, binId, timers, extra, lost>>
        /\ (mode' = mode \/ mode' # "binary")
    BY <1>5 DEF Line, Text, Byte
  <2> QED  BY <2>1, <2>2, TimedSame
<1>6. CASE BinaryByte
  <2>1. Byte /\ (Sending => Sending') /\ (InSendByte => InSendByte')
    BY <1>3, <1>6 DEF BinaryByte, Kept, Goto
  <2>2. Retimed /\ Robbed /\ UNCHANGED <<throttle, outId, out>>
    BY <1>6 DEF BinaryByte, Byte
  <2>3. PICK t \in Timers : t = binId'
    BY <2>2, RetimedTimers
  <2>4. /\ timers[t] = "free" \/ (t = binId /\ timers[t] \in {"send", "binary", "connect"})
        /\ \A u \in Timers : timers'[u] =
              IF u = t THEN "binary"
              ELSE IF u = binId /\ timers[u] \in {"send", "binary", "connect"} THEN "free"
              ELSE timers[u]
    BY <2>2, <2>3, RetimedTimers
  <2>5. t # NoTimer
    BY TimerAssumption
  <2>6. /\ t = NoTimer \/ t \in Timers
        /\ t = NoTimer => mode' = "ascii"
        /\ binId' = t
        /\ t \in Timers => \/ timers[t] = "free"
                           \/ t = binId /\ timers[t] \in {"send", "binary", "connect"}
    BY <2>3, <2>4, <2>5
  <2> QED  BY <2>1, <2>2, <2>4, <2>6, TimedBinary, Zenon
<1>7. CASE LastByte
  <2>1. Byte /\ (Sending => Sending') /\ (InSendByte => InSendByte')
    BY <1>3, <1>7 DEF LastByte
  <2>2. Robbed /\ UNCHANGED <<throttle, outId, out>> /\ mode' = "ascii" /\ binId' = NoTimer
    BY <1>7 DEF LastByte, Byte
  <2>3. NoTimer \notin Timers
    BY TimerAssumption
  <2>4. \A u \in Timers : timers'[u] =
              IF u = NoTimer THEN "binary"
              ELSE IF u = binId /\ timers[u] \in {"send", "binary", "connect"} THEN "free"
              ELSE timers[u]
    BY <1>7, <2>3, WithoutTimers DEF LastByte
  <2> QED  BY <2>1, <2>2, <2>3, <2>4, TimedBinary
<1>8. CASE BytesDone
  <2> DEFINE f == Frame("input", NoTimer)
  <2>1. f \in FrameType /\ Top.kind # "main" /\ Top.kind = "bytes"
    BY <1>8, NewFrame DEF BytesDone, Kinds
  <2>2. stack' = <<f>> \o Tail(stack)
    BY <1>8 DEF BytesDone, Goto
  <2> HIDE DEF f
  <2>3. Range(stack') = {f} \union Range(Tail(stack))
    BY <2>1, <2>2, GotoStack
  <2>4. (Sending => Sending') /\ (InSendByte => InSendByte')
    BY <2>1, <2>3, SendersKeep
  <2>5. UNCHANGED <<throttle, out, outId, mode, binId, timers, extra, lost>>
    BY <1>8 DEF BytesDone, widget, history
  <2> QED  BY <2>4, <2>5, TimedSame
<1> QED  BY <1>1, <1>2, <1>4, <1>5, <1>6, <1>7, <1>8 DEF InputHandler, ProcessByte

LEMMA TimerTimed ==
    ASSUME TypeInv, StackInv, Timed, Timer \/ Return
    PROVE  Timed'
<1>t. /\ timers \in [Timers -> TimerUses]
      /\ NoTimer \notin Timers /\ outId \in Timers \union {NoTimer}
  BY TimerAssumption DEF TypeInv
<1>f. Top.kind # "main" /\ Top.timer \in Timers => timers[Top.timer] = "fired"
  BY TopFrame DEF StackInv
<1>1. ASSUME NEW t \in Timers, Fire(t)  PROVE Timed'
  <2>1. /\ timers[t] \in {"send", "binary", "connect"}
        /\ \A u \in Timers : timers'[u] = IF u = t THEN "fired" ELSE timers[u]
        /\ extra' = extra \ {t}
        /\ UNCHANGED <<throttle, out, outId, binId, lost>>
        /\ mode' = mode \/ mode' = "ascii"
        /\ mode' = mode => timers[t] # "binary" \/ mode # "binary"
    BY <1>1, <1>t DEF Fire, Running
  <2>2. PICK k \in {"send", "connect", "callback"} :
           /\ stack' = <<Frame(k, t)>> \o stack
           /\ timers[t] = "send" => k = "send"
    BY <1>1, <2>1 DEF Fire, Push
  <2> DEFINE f == Frame(k, t)
  <2>3. f \in FrameType /\ f.kind = k /\ stack' = <<f>> \o stack
    BY <2>2, NewFrame DEF Kinds
  <2> HIDE DEF f
  <2>4. Range(stack') = {f} \union Range(stack)
    BY <2>3, PushStack
  <2>5. (Sending => Sending') /\ (InSendByte => InSendByte')
    BY <2>4, SendersKeep
  <2>6. timers[t] = "send" => Sending'
    BY <2>2, <2>3, <2>4 DEF Sending
  <2>7. BinaryTimed'
    BY <2>1 DEF Timed, TimerInv, BinaryTimed, Running
  <2>8. OnePacer'
    BY <2>1 DEF Timed, OnePacer
  <2>9. outId' # NoTimer /\ ~Sending' /\ "send" \notin lost' => timers'[outId'] = "send"
    BY <1>t, <2>1, <2>5, <2>6 DEF Timed, TimerInv
  <2>10. out' # <<>> /\ ~throttle' /\ ~InSendByte' /\ lost' \intersect {"send", "held"} = {} =>
            outId' # NoTimer
    BY <2>1, <2>5 DEF Timed, TimerInv
  <2>11. throttle' => outId' = NoTimer
    BY <2>1 DEF Timed, TimerInv
  <2> QED  BY <2>7, <2>8, <2>9, <2>10, <2>11 DEF Timed, TimerInv
<1>2. CASE SendByte
  <2>1. /\ outId' = NoTimer /\ extra' = WrittenOver
        /\ lost' = lost \ {"send", "held"} /\ UNCHANGED <<throttle, mode, binId>>
        /\ Top.kind = "send"
    BY <1>2 DEF SendByte, IdForgotten
  <2>2. /\ \A u \in Timers : timers'[u] = timers[u] \/ (u = Top.timer /\ timers'[u] = "free")
        /\ out' # <<>> /\ ~throttle' => InSendByte'
    <3>1. CASE ~throttle /\ out # <<>>
      <4>1. stack' = <<Frame("output", Top.timer)>> \o Tail(stack) /\ timers' = timers
        BY <1>2, <3>1 DEF SendByte, Goto
      <4> DEFINE f == Frame("output", Top.timer)
      <4>2. Top \in FrameType
        BY <2>1, TopFrame
      <4>3. f \in FrameType /\ f.kind = "output" /\ stack' = <<f>> \o Tail(stack)
        BY <4>1, <4>2, NewFrame DEF FrameType, Kinds
      <4> HIDE DEF f
      <4>4. Range(stack') = {f} \union Range(Tail(stack))
        BY <2>1, <4>3, GotoStack
      <4>5. InSendByte'
        BY <4>3, <4>4, SendingRangeNext
      <4> QED  BY <4>1, <4>5
    <3>2. CASE ~(~throttle /\ out # <<>>)
      <4>1. timers' = Returned(timers) /\ out' = out
        BY <1>2, <3>2 DEF SendByte
      <4> QED  BY <1>t, <2>1, <3>2, <4>1, ReturnedTimers
    <3> QED  BY <3>1, <3>2
  <2>3. \A u \in Timers : timers[u] \in {"send", "binary"} => timers'[u] = timers[u]
    BY <1>f, <2>1, <2>2
  <2>4. BinaryTimed'
    BY <2>1, <2>3 DEF Timed, TimerInv, BinaryTimed, Running
  <2>5. OnePacer'
    <3> SUFFICES ASSUME NEW u \in Timers, timers'[u] = "send"  PROVE u \in extra'
      BY DEF OnePacer
    <3>1. timers[u] = "send" /\ (u = outId \/ u \in extra)
      BY <2>2 DEF Timed, OnePacer
    <3> QED  BY <2>1, <3>1 DEF WrittenOver, Running
  <2> QED  BY <2>1, <2>2, <2>4, <2>5 DEF Timed, TimerInv
<1>3. CASE Sent
  <2>1. /\ Throttle(throttle, out, outId, TRUE) /\ out' = out /\ throttle \in BOOLEAN
        /\ Top.kind = "output" /\ stack' = Tail(stack) /\ UNCHANGED <<mode, binId>>
    BY <1>3 DEF Sent, Pop, TypeInv
  <2>2. Throttle(throttle, out', outId, TRUE)
    BY <2>1
  <2>3. Sending => Sending'
    <3>1. Range(stack) = {Top} \union Range(stack')
      BY <2>1, PopStack
    <3> QED  BY <2>1, <3>1 DEF Sending
  <2> QED  BY <2>1, <2>2, <2>3, TimedThrottle
<1>4. CASE Connect
  <2>1. /\ throttle' = FALSE /\ UNCHANGED <<out, outId, mode, binId, timers, extra>>
        /\ lost' = IF throttle /\ out # <<>> THEN lost \union {"held"} ELSE lost
        /\ Top.kind = "connect" /\ stack' = <<Frame("callback", Top.timer)>> \o Tail(stack)
    BY <1>4 DEF Connect, Goto
  <2> DEFINE f == Frame("callback", Top.timer)
  <2>2. f \in FrameType /\ stack' = <<f>> \o Tail(stack)
    <3>1. Top \in FrameType
      BY <2>1, TopFrame
    <3> QED  BY <2>1, <3>1, NewFrame DEF FrameType, Kinds
  <2> HIDE DEF f
  <2>3. (Sending => Sending') /\ (InSendByte => InSendByte')
    <3>1. Range(Tail(stack)) \subseteq Range(stack')
      BY <2>1, <2>2, GotoStack
    <3> QED  BY <2>1, <3>1, SendersKeep
  <2>4. BinaryTimed' /\ OnePacer'
    BY <2>1 DEF Timed, TimerInv, BinaryTimed, OnePacer, Running
  <2>5. outId' # NoTimer /\ ~Sending' /\ "send" \notin lost' => timers'[outId'] = "send"
    BY <2>1, <2>3 DEF Timed, TimerInv
  <2>6. out' # <<>> /\ ~InSendByte' /\ lost' \intersect {"send", "held"} = {} => outId' # NoTimer
    BY <2>1, <2>3 DEF Timed, TimerInv
  <2> QED  BY <2>1, <2>4, <2>5, <2>6 DEF Timed, TimerInv
<1>5. CASE ConnectFails \/ Return
  <2>1. /\ Top.kind \in {"connect", "input", "callback"} /\ Top.kind # "main"
        /\ stack' = Tail(stack) /\ timers' = Returned(timers)
        /\ UNCHANGED <<throttle, out, outId, mode, binId, extra, lost>>
    BY <1>5 DEF ConnectFails, Return, Pop, widget, history
  <2>2. (Sending => Sending') /\ (InSendByte => InSendByte')
    BY <2>1, SendersKeep
  <2> QED  BY <2>1, <2>2, TimedReturned
<1> QED  BY <1>1, <1>2, <1>3, <1>4, <1>5 DEF Timer

LEMMA UserTimed ==
    ASSUME TypeInv, StackInv, Timed, User
    PROVE  Timed'
<1>1. CASE SendData
  <2>1. /\ Throttle(throttle, out', outId, FALSE) /\ throttle \in BOOLEAN
        /\ UNCHANGED <<mode, binId, stack>>
    BY <1>1 DEF SendData, TypeInv
  <2>2. Sending => Sending'
    BY <2>1 DEF Sending
  <2> QED  BY <2>1, <2>2, TimedThrottle
<1>2. CASE DiscardOutput
  <2>1. /\ out' = <<>> /\ outId' = NoTimer /\ extra' = extra \ {outId}
        /\ lost' = (lost \ {"send", "held"}) \union Taken(outId, "binary")
        /\ UNCHANGED <<throttle, mode, binId>> /\ timers' = Without({outId})
    BY <1>2 DEF DiscardOutput
  <2>2. \A u \in Timers : timers'[u] =
           IF u = outId /\ timers[u] \in {"send", "binary", "connect"} THEN "free" ELSE timers[u]
    BY <2>1, WithoutTimers
  <2>3. BinaryTimed'
    BY <2>1, <2>2 DEF Timed, TimerInv, BinaryTimed, Running, Taken
  <2>4. OnePacer'
    BY <2>1, <2>2 DEF Timed, OnePacer
  <2> QED  BY <2>1, <2>3, <2>4 DEF Timed, TimerInv
<1>3. CASE Reconnect
  <2>1. \A u \in Timers : timers'[u] = "send" => timers[u] = "send" /\ u \notin {outId, binId}
    BY <1>3, ReconnectTimers
  <2> QED  BY <1>3, <2>1, TimedDisconnect DEF Reconnect
<1>4. CASE set_values
  <2>1. \A u \in Timers : timers'[u] = "send" => timers[u] = "send" /\ u \notin {outId, binId}
    BY <1>4, WithoutTimers DEF set_values
  <2> QED  BY <1>4, <2>1, TimedDisconnect DEF set_values
<1> QED  BY <1>1, <1>2, <1>3, <1>4 DEF User
-----------------------------------------------------------------------------
(* The inductive invariant, and what follows from it. *)

LEMMA InitIInv == Init => IInv
<1> SUFFICES ASSUME Init  PROVE IInv
  OBVIOUS
<1> DEFINE f == Frame("connect", NoTimer)
<1>1. f \in FrameType /\ f.timer = NoTimer /\ f.kind = "connect" /\ f.left = 0
  BY NewFrame DEF Kinds
<1>2. stack = <<f>>
  BY DEF Init
<1> HIDE DEF f
<1>3. stack \in Seq(FrameType) /\ Range(stack) = {f} /\ DOMAIN stack = {1}
  <2>1. <<f>> \in Seq(FrameType) /\ DOMAIN <<f>> = 1..1 /\ <<f>>[1] = f
    BY <1>1
  <2> QED  BY <1>2, <2>1 DEF Range
<1>4. TypeInv
  <2>1. timers \in [Timers -> TimerUses]
    BY DEF Init, TimerUses
  <2>2. out \in Seq(Nat) /\ input \in Seq(Nat)
    BY EmptySeq DEF Init
  <2>3. {fd, inputId, made, data, bytes} \subseteq Nat
    BY DEF Init, NoConn
  <2>4. throttle \in BOOLEAN /\ mode = "ascii" /\ outId = NoTimer /\ binId = NoTimer
    BY DEF Init
  <2> QED  BY <1>3, <2>1, <2>2, <2>3, <2>4 DEF TypeInv
<1>5. StackInv
  BY <1>1, <1>3, TimerAssumption DEF StackInv, Distinct
<1>6. Belongs /\ NothingCarriedOver
  <2>1. /\ inputs = {} /\ inputId = NoConn /\ input = <<>> /\ out = <<>>
    BY DEF Init
  <2> QED  BY <1>1, <1>3, <2>1, RangeNone DEF Belongs, NothingCarriedOver
<1>7. TimerInv /\ OnePacer
  <2>1. /\ outId = NoTimer /\ out = <<>> /\ mode = "ascii"
        /\ \A t \in Timers : timers[t] = "free"
    BY DEF Init
  <2> QED  BY <2>1 DEF TimerInv, BinaryTimed, OnePacer
<1> QED  BY <1>4, <1>5, <1>6, <1>7 DEF IInv

LEMMA StutterIInv == IInv /\ UNCHANGED vars => IInv'
<1> SUFFICES ASSUME IInv, UNCHANGED vars  PROVE IInv'
  OBVIOUS
<1>1. UNCHANGED <<widget, timers, stack, inputs, made, data, server, history>>
  BY DEF vars
<1>2. TypeInv'
  BY <1>1 DEF IInv, TypeInv, widget, server
<1>3. StackInv'
  BY <1>1 DEF IInv, StackInv, Distinct
<1>4. Belongs' /\ NothingCarriedOver'
  BY <1>1 DEF IInv, Belongs, NothingCarriedOver, Ours, widget, history
<1>5. Timed'
  <2>1. (Sending => Sending') /\ (InSendByte => InSendByte')
    BY <1>1 DEF Sending, InSendByte
  <2> QED  BY <1>1, <2>1, TimedSame DEF IInv, Timed, widget, history
<1> QED  BY <1>2, <1>3, <1>4, <1>5 DEF IInv, Timed

LEMMA NextIInv == IInv /\ [Next]_vars => IInv'
<1> SUFFICES ASSUME IInv, [Next]_vars  PROVE IInv'
  OBVIOUS
<1>1. TypeInv /\ StackInv /\ Carried /\ Timed
  BY DEF IInv, Carried, Timed
<1>2. CASE InputHandler
  BY <1>1, <1>2, InputStack, InputCarries, InputTimed DEF IInv, Carried, Timed
<1>3. CASE Timer \/ Return
  BY <1>1, <1>3, TimerStack, TimerCarries, TimerTimed DEF IInv, Carried, Timed
<1>4. CASE User
  BY <1>1, <1>4, UserStack, UserCarries, UserTimed DEF IInv, Carried, Timed
<1>5. CASE UNCHANGED vars
  BY <1>5, StutterIInv
<1> QED  BY <1>2, <1>3, <1>4, <1>5 DEF Next

\* Host.c: the state of the widget, of its timers and of the calls under way, at
\* every step of every interleaving of them.
THEOREM SpecIInv == Spec => []IInv
BY InitIInv, NextIInv, PTL DEF Spec

\* Host.c:221: however often connections are lost, closed and made, and whatever
\* calls are in the middle of their bytes, the input that is collected and the
\* output that waits belong to the one that is open, and no other is listened to.
THEOREM HostCarriesNothing == Spec => []NothingCarriedOver
<1>1. IInv => NothingCarriedOver
  BY DEF IInv
<1> QED  BY <1>1, SpecIInv, PTL

\* Host.c:381, Host.c:370: output that may be sent has its timer, and so has a
\* binary block that was begun, for any number of timers and calls under way,
\* but for the three losses that NothingStalls names: a timer removed by the
\* stale id of the other use, of the output (Host.c:291) or of the block
\* (Host.c:384, 1197), and output held back as the connection is made.
THEOREM HostStallsNothing == Spec => []NothingStalls
<1>1. ASSUME IInv  PROVE NothingStalls
  <2>1. TypeInv /\ TimerInv
    BY <1>1 DEF IInv
  <2>2. ~InSendByte => ~Sending
    BY SendingRange DEF Sending
  <2>3. OutputFlows
    <3> SUFFICES ASSUME out # <<>>, ~throttle, ~InSendByte, lost \intersect {"send", "held"} = {}
                 PROVE  Running(outId) /\ timers[outId] = "send"
      BY DEF OutputFlows
    <3>1. outId # NoTimer /\ "send" \notin lost /\ ~Sending
      BY <2>1, <2>2 DEF TimerInv
    <3>2. outId \in Timers /\ timers[outId] = "send"
      BY <2>1, <3>1 DEF TypeInv, TimerInv
    <3> QED  BY <3>2 DEF Running
  <2> QED  BY <2>1, <2>3 DEF NothingStalls, TimerInv
<1> QED  BY <1>1, SpecIInv, PTL

\* Host.c:94: output is sent by one timer, but for those that SendByte forgot.
THEOREM HostOnePacer == Spec => []OnePacer
<1>1. IInv => OnePacer
  BY DEF IInv
<1> QED  BY <1>1, SpecIInv, PTL
=============================================================================
