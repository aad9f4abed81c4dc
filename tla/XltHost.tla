-------------------------------- MODULE XltHost -------------------------------
(***************************************************************************)
(* The Host widget of Xlt (Host.c), as a client of a server: output sent   *)
(* byte by byte from a timer, Xon and Xoff, lines and binary blocks of     *)
(* input, connections lost and made again.                                 *)
(*                                                                         *)
(* SendByte, InputHandler and Connect dispatch events before they go on,   *)
(* so a timer or an input may come in the middle of each: stack holds the  *)
(* calls that are under way, the innermost first.  The server, the         *)
(* application and Xt are outside.  The application calls the widget from  *)
(* its callbacks too, but from that for a lost connection; it has no       *)
(* callback for raw input.  A byte is the number of its connection.        *)
(***************************************************************************)
EXTENDS Naturals, Sequences, FiniteSets, Functions

CONSTANTS
    Timers, NoTimer,    \* the records of Xt's timers, used again once free
    MaxConns,           \* bound on the connections made
    MaxData,            \* bound on the bytes sent
    MaxBytes,           \* bound on the bytes of all servers
    MaxDepth            \* bound on the calls under way

ASSUME TimerAssumption == IsFiniteSet(Timers) /\ NoTimer \notin Timers
ASSUME BoundAssumption == {MaxConns, MaxData, MaxBytes, MaxDepth} \subseteq Nat \ {0}

Conns == 1..MaxConns
NoConn == 0

VARIABLES
    fd, inputId,            \* the connection each is for
    throttle, out, outId,   \* Host_Throttle, Host_OutputData, Host_OutputId
    mode, binId,            \* Host_Mode, Host_BinaryTimeOutId
    input,                  \* Host_InputData
    timers,                 \* what each record is used for
    stack,
    inputs,                 \* the connections Xt calls InputHandler for
    made, data,             \* connections made and bytes queued so far
    bytes, gone,            \* bytes read so far, connections at their end
    overrun,                \* connections whose descriptor Connect wrote over
    cut,                    \* connections closed before their bytes were used
    extra,                  \* sending timers that SendByte wrote over
    lost                    \* what has no timer that should have one, and why

widget == <<fd, inputId, throttle, out, outId, mode, binId, input>>
server == <<bytes, gone>>
history == <<overrun, cut, extra, lost>>
vars == <<widget, timers, stack, inputs, made, data, server, history>>

Frame(kind, t) == [kind |-> kind, timer |-> t, conn |-> NoConn, left |-> 0]
Top == IF stack = <<>> THEN Frame("main", NoTimer) ELSE Head(stack)
Push(f) == Len(stack) < MaxDepth /\ stack' = <<f>> \o stack
Goto(f) == stack' = <<f>> \o Tail(stack)
Pop == stack' = Tail(stack)
InSendByte == \E n \in DOMAIN stack : stack[n].kind \in {"send", "output"}

\* Which events are dispatched: all, all but input, only input.
TakesTimers == Top.kind \in {"main", "input", "connect"}
TakesInput == Top.kind \in {"main", "send", "connect"}
Application == Top.kind \in {"main", "input", "connect", "callback", "output"}

\* The end of a file is there as long as its input is handled; other bytes
\* come when they are read.
Readable == inputs \intersect gone
-----------------------------------------------------------------------------
(* Xt's timers.                                                            *)

Running(t) == t \in Timers /\ timers[t] \in {"send", "binary", "connect"}

\* XtRemoveTimeOut, by the record, whoever has it now.
Without(ids) == [t \in Timers |-> IF t \in ids /\ Running(t) THEN "free" ELSE timers[t]]

\* A record is free again when the procedure it called returns.
Returned(tm) == [t \in Timers |-> IF t = Top.timer THEN "free" ELSE tm[t]]

\* What a use loses when its record is removed by an id of another.
Taken(t, use) == IF Running(t) /\ timers[t] = use THEN {use} ELSE {}

Free == {t \in Timers : timers[t] = "free"}
-----------------------------------------------------------------------------
(* Throttle and Disconnect.                                                *)

\* Mutant: a timer is started beside the one there is.
WantsAnother(o, id) == o # <<>>

WantsTimer(o, id) == o # <<>> /\ id = NoTimer

\* With the queue o and Host_OutputId id; done if it ends a timer's procedure.
Throttle(state, o, id, done) ==
    LET After(tm) == IF done THEN Returned(tm) ELSE tm
    IN  /\ throttle' = state
        /\ \/ /\ state
              /\ timers' = After(Without({id})) /\ outId' = NoTimer
           \/ /\ ~state /\ WantsTimer(o, id)
              /\ \E t \in Free : /\ timers' = After([timers EXCEPT ![t] = "send"])
                                 /\ outId' = t
           \/ /\ ~state /\ ~WantsTimer(o, id)
              /\ timers' = After(timers) /\ outId' = id
        /\ extra' = {t \in extra : timers'[t] = "send"}
        /\ lost' = (IF outId' = outId THEN lost ELSE lost \ {"send", "held"})
                     \union (IF state THEN Taken(id, "binary") ELSE {})

\* Bytes that InputHandler has read and goes on with.
Unused == {stack[n].conn : n \in {n \in DOMAIN stack : stack[n].left > 0}}

\* Mutant: the queues survive.
KeepsQueues ==
    /\ inputs' = inputs \ {inputId} /\ inputId' = NoConn /\ fd' = NoConn
    /\ outId' = NoTimer /\ binId' = NoTimer
    /\ UNCHANGED <<out, input>> /\ mode' = "ascii"
    /\ cut' = cut \union Unused /\ lost' = {}

\* Its timers, outId and binId, are removed by the caller.
Disconnect ==
    /\ inputs' = inputs \ {inputId} /\ inputId' = NoConn /\ fd' = NoConn
    /\ outId' = NoTimer /\ binId' = NoTimer
    /\ out' = <<>> /\ input' = <<>> /\ mode' = "ascii"
    /\ cut' = cut \union Unused /\ lost' = {}
-----------------------------------------------------------------------------
(* InputHandler and ProcessByte.                                           *)

ReadBytes(c) ==
    /\ TakesInput /\ c \in inputs \ gone
    /\ \E n \in 1..(MaxBytes - bytes) :
         /\ bytes' = bytes + n
         /\ Push([Frame("bytes", NoTimer) EXCEPT !.conn = c, !.left = n])
    /\ UNCHANGED <<widget, timers, inputs, made, data, gone, history>>

EndOfFile(c) ==
    /\ TakesInput /\ c \in inputs
    /\ gone' = gone \union {c}
    /\ Disconnect /\ timers' = Without({outId, binId})
    /\ extra' = extra \ {outId, binId}
    /\ Push(Frame("input", NoTimer))
    /\ UNCHANGED <<throttle, made, data, bytes, overrun>>

Byte == /\ Top.kind = "bytes" /\ Top.left > 0
        /\ UNCHANGED <<fd, inputId, out, inputs, made, data, server, overrun, cut>>
OneLess == [Top EXCEPT !.left = @ - 1]
Kept == input' = Append(input, Top.conn) /\ Goto(OneLess)


XonXoff(state) ==
    /\ Byte /\ mode = "ascii"
    /\ Throttle(state, out, outId, FALSE)
    /\ Goto(OneLess) /\ UNCHANGED <<mode, binId, input>>

Line ==
    /\ Byte /\ mode = "ascii"
    /\ input' = <<>>
    /\ stack' = (IF input = <<>> THEN <<OneLess>>
                 ELSE <<Frame("callback", NoTimer), OneLess>>) \o Tail(stack)
    /\ UNCHANGED <<throttle, outId, mode, binId, timers, extra, lost>>

\* '#', and every other byte: "begun" is MODE_BINARY before BinaryByte.
Text ==
    /\ Byte /\ mode = "ascii" /\ Kept
    /\ mode' \in {"ascii", "begun"}
    /\ UNCHANGED <<throttle, outId, binId, timers, extra, lost>>

Retimed == \E t \in {t \in Timers : Without({binId})[t] = "free"} :
              /\ timers' = [Without({binId}) EXCEPT ![t] = "binary"]
              /\ binId' = t

Robbed == /\ extra' = extra \ {binId}
          /\ lost' = (lost \ {"binary"})
                       \union (IF binId = outId THEN Taken(binId, "send") ELSE {})

BinaryByte ==
    /\ Byte /\ mode \in {"begun", "binary"} /\ Kept
    /\ mode' = "binary" /\ Retimed /\ Robbed
    /\ UNCHANGED <<throttle, outId>>

\* The line feed that ends a block.  The callback's test of Host_Mode afterwards
\* (Host.c:371) is left out: the mode is ascii unless two reconnections nested in
\* the callback have begun another block, which then gets a second time limit.
LastByte ==
    /\ Byte /\ mode = "binary"
    /\ input' = <<>> /\ mode' = "ascii"
    /\ timers' = Without({binId}) /\ binId' = NoTimer /\ Robbed
    /\ stack' = <<Frame("callback", NoTimer), OneLess>> \o Tail(stack)
    /\ UNCHANGED <<throttle, outId>>

BytesDone ==
    /\ Top.kind = "bytes" /\ Top.left = 0
    /\ Goto(Frame("input", NoTimer))
    /\ UNCHANGED <<widget, timers, inputs, made, data, server, history>>

\* The end of InputHandler's loop, or of a callback.
Return ==
    /\ Top.kind \in {"input", "callback"}
    /\ Pop /\ timers' = Returned(timers)
    /\ UNCHANGED <<widget, inputs, made, data, server, history>>
-----------------------------------------------------------------------------
(* The timers.                                                             *)

Fire(t) ==
    /\ TakesTimers /\ Running(t)
    /\ timers' = [timers EXCEPT ![t] = "fired"]
    /\ extra' = extra \ {t}
    /\ \/ /\ timers[t] \in {"send", "connect"}
          /\ Push(Frame(timers[t], t)) /\ UNCHANGED <<input, mode>>
       \/ \* TimeOut, which leaves binId
          /\ timers[t] = "binary"
          /\ input' = <<>> /\ mode' = "ascii" /\ Push(Frame("callback", t))
    /\ UNCHANGED <<fd, inputId, throttle, out, outId, binId, inputs, made, data,
                   server, overrun, cut, lost>>

\* Mutant: Host_OutputId is kept.
IdKept == outId

\* Host_OutputId after the loop of SendByte.
IdForgotten == NoTimer

WrittenOver == IF Running(outId) /\ timers[outId] = "send" THEN extra \union {outId} ELSE extra

\* SendByte after its loop.
SendByte ==
    /\ Top.kind = "send" /\ Readable = {}
    /\ outId' = IdForgotten /\ extra' = WrittenOver
    /\ lost' = lost \ {"send", "held"}
    /\ IF ~throttle /\ out # <<>>
       THEN /\ out' = Tail(out) /\ Goto(Frame("output", Top.timer))
            /\ UNCHANGED timers
       ELSE /\ Pop /\ timers' = Returned(timers)
            /\ UNCHANGED out
    /\ UNCHANGED <<fd, inputId, throttle, mode, binId, input, inputs, made, data,
                   server, overrun, cut>>

\* SendByte after its callback.
Sent ==
    /\ Top.kind = "output"
    /\ Throttle(throttle, out, outId, TRUE) /\ Pop
    /\ UNCHANGED <<fd, inputId, out, mode, binId, input, inputs, made, data,
                   server, overrun, cut>>
-----------------------------------------------------------------------------
(* Connect after its loop.                                                 *)

Overwritten == IF fd = NoConn THEN overrun ELSE overrun \union {fd}

Connect ==
    /\ Top.kind = "connect" /\ Readable = {} /\ made < MaxConns
    /\ made' = made + 1
    /\ fd' = made' /\ inputId' = made' /\ inputs' = inputs \union {made'}
    /\ throttle' = FALSE
    /\ overrun' = Overwritten
    /\ lost' = IF throttle /\ out # <<>> THEN lost \union {"held"} ELSE lost
    /\ Goto(Frame("callback", Top.timer))
    /\ UNCHANGED <<out, outId, mode, binId, input, timers, data, server, cut, extra>>

ConnectFails ==
    /\ Top.kind = "connect" /\ Readable = {}
    /\ fd' = NoConn /\ overrun' = Overwritten
    /\ Pop /\ timers' = Returned(timers)
    /\ UNCHANGED <<inputId, throttle, out, outId, mode, binId, input, inputs,
                   made, data, server, cut, extra, lost>>
-----------------------------------------------------------------------------
(* The application: XltHostSendData, XltHostDiscardOutput,                 *)
(* XltHostReconnect (and OpenHost), set_values.                            *)

SendData ==
    /\ Application /\ data < MaxData
    /\ data' = data + 1 /\ out' = Append(out, fd)
    /\ Throttle(throttle, out', outId, FALSE)
    /\ UNCHANGED <<fd, inputId, mode, binId, input, stack, inputs, made, server,
                   overrun, cut>>

DiscardOutput ==
    /\ Application /\ out # <<>>
    /\ out' = <<>> /\ outId' = NoTimer
    /\ timers' = Without({outId}) /\ extra' = extra \ {outId}
    /\ lost' = (lost \ {"send", "held"}) \union Taken(outId, "binary")
    /\ UNCHANGED <<fd, inputId, throttle, mode, binId, input, stack, inputs, made,
                   data, server, overrun, cut>>

Reconnect ==
    /\ Application /\ Disconnect
    /\ \E t \in {t \in Timers : Without({outId, binId})[t] = "free"} :
         timers' = [Without({outId, binId}) EXCEPT ![t] = "connect"]
    /\ extra' = extra \ {outId, binId}
    /\ UNCHANGED <<throttle, stack, made, data, server, overrun>>

set_values ==
    /\ Application /\ Disconnect /\ timers' = Without({outId, binId})
    /\ extra' = extra \ {outId, binId}
    /\ Push(Frame("connect", NoTimer))
    /\ UNCHANGED <<throttle, made, data, server, overrun>>
-----------------------------------------------------------------------------
\* initialize calls Connect.
Init ==
    /\ fd = NoConn /\ inputId = NoConn
    /\ throttle = FALSE /\ out = <<>> /\ outId = NoTimer
    /\ mode = "ascii" /\ binId = NoTimer /\ input = <<>>
    /\ timers = [t \in Timers |-> "free"]
    /\ stack = <<Frame("connect", NoTimer)>>
    /\ inputs = {} /\ made = 0 /\ data = 0
    /\ bytes = 0 /\ gone = {}
    /\ overrun = {} /\ cut = {} /\ extra = {} /\ lost = {}

ProcessByte == \/ \E state \in BOOLEAN : XonXoff(state)
               \/ Line \/ Text \/ BinaryByte \/ LastByte
InputHandler == \/ \E c \in Conns : ReadBytes(c) \/ EndOfFile(c)
                \/ ProcessByte \/ BytesDone
Timer == (\E t \in Timers : Fire(t)) \/ SendByte \/ Sent \/ Connect \/ ConnectFails
User == SendData \/ DiscardOutput \/ Reconnect \/ set_values

Next == InputHandler \/ Timer \/ Return \/ User

Spec == Init /\ [][Next]_vars
-----------------------------------------------------------------------------
(* Properties.                                                             *)

\* Host.c:221: what is collected, or waits to be sent, belongs to the
\* connection that is open, or was sent without one; and no input is handled but
\* that of the open one: its end would be read for ever, and close the next one.
\* Excluded are the bytes that InputHandler had read when a callback closed the
\* connection, and a connection whose descriptor a second Connect wrote over.
NothingCarriedOver ==
    /\ Range(input) \subseteq {fd} \union cut \union overrun
    /\ Range(out) \subseteq {fd, NoConn} \union overrun
    /\ inputs \subseteq {inputId} \union overrun

\* Host.c:381, Host.c:370: output that may be sent has a timer, and a binary
\* block that was begun has its time limit.  Excluded are three losses, until the
\* timer in question is started again.  "send": a byte of a binary block removed
\* the output's timer by the id of an earlier block (Host.c:291 keeps it).
\* "held": output was held back as the connection was made (Host.c:837).
\* "binary": Host_OutputId, stale after "send", names the record that is now the
\* time limit, and an Xoff or XltHostDiscardOutput removes it (Host.c:384, 1197):
\* a block with no further byte is then never given up.
OutputFlows ==
    out # <<>> /\ ~throttle /\ ~InSendByte /\ lost \intersect {"send", "held"} = {} =>
        Running(outId) /\ timers[outId] = "send"
BinaryTimed ==
    mode = "binary" /\ "binary" \notin lost => Running(binId) /\ timers[binId] = "binary"
NothingStalls == OutputFlows /\ BinaryTimed

\* Host.c:94: one timer sends, or bytes follow each other faster than the
\* delay.  Excluded are those that SendByte forgot, which come from an Xoff
\* and an Xon that its own loop read.
OnePacer == {t \in Timers : timers[t] = "send"} \subseteq {outId} \union extra
==============================================================================
