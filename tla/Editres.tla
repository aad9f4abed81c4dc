-------------------------------- MODULE Editres -------------------------------
(***************************************************************************)
(* The exchange of meditres with the client it edits (comm.c).  A command  *)
(* is put into a selection that meditres owns and a message tells the      *)
(* client to fetch it; the client takes the selection to answer, and       *)
(* meditres, which loses it, fetches the answer.                           *)
(*                                                                         *)
(* Commands, timers and idents are numbered alike.  The clients, the       *)
(* X server and the selections of the toolkit are outside the program; a   *)
(* client looks at one message after the other.                            *)
(***************************************************************************)
EXTENDS Integers, Sequences, FiniteSets

CONSTANTS
    Clients, None,
    Mortal,         \* the clients that may end
    Speaks,         \* the protocol version of each client
    CURRENT_PROTOCOL_VERSION,
    MaxSends,       \* bound on the commands, fewer than a byte can tell apart
    MaxCalls,       \* bound on the nested calls of SetCommand
    MaxLoop         \* bound on the uninitialised count of GetResourceList

ASSUME ClientAssumption == None \notin Clients /\ "meditres" \notin Clients
ASSUME VersionAssumption == /\ CURRENT_PROTOCOL_VERSION \in Nat
                            /\ Speaks \in [Clients -> Nat]
ASSUME BoundAssumption == MaxSends \in 1..255 /\ {MaxCalls, MaxLoop} \subseteq Nat

VARIABLES
    window,         \* global_client.window
    ident,          \* global_client.ident, 0 is NO_IDENT
    command,        \* global_client.command
    version,        \* global_effective_protocol_version
    reset,          \* reset_protocol_level
    timeout,        \* global_client.timeout, 0 for none
    timers,         \* the timers of ClientTimedOut that run
    calls,          \* SetCommand being called, the innermost first
    looping,        \* GetClientWindow throws a key event away
    tree,           \* whose tree is shown
    mine,           \* does Xt believe that meditres owns the selection ...
    widget,         \* ... and for which of its widgets?
    owner,          \* who owns it: "meditres", a client or nobody
    clear,          \* a SelectionClear on its way to meditres
    fetches,        \* values meditres asked for
    alive, mail, doing, held,   \* the clients
    sent, told, by, lost        \* what happened

global == <<window, ident, command, version, reset, timeout, timers, calls,
            looping, tree>>
selection == <<mine, widget, owner, clear, fetches>>
clients == <<alive, mail, doing, held>>
history == <<sent, told, by, lost>>
vars == <<global, selection, clients, history>>

Ids == 1..MaxSends
Nothing == [id |-> 0, code |-> "none"]
Idle == [phase |-> "idle", id |-> 0, code |-> "none"]

\* Are events dispatched?  In the main loop and while the user picks a client.
Dispatching == ~looping /\ \A n \in DOMAIN calls : n = 1 => calls[n].picking

Call(w, cmd) == [w |-> w, cmd |-> cmd, picking |-> FALSE]
-----------------------------------------------------------------------------
(* What becomes of the answer to the command in force.                     *)

Unanswered(id) == id > 0 /\ told[id] = "waiting"
Held(id) == \E c \in Clients : owner = c /\ held[c].id = id
Fetched(id) == \E n \in DOMAIN fetches : fetches[n].value.id = id

\* Only a client that still has it can bring it.
Carries(c, id) ==
    \/ held[c].id = id
    \/ \E n \in DOMAIN fetches :
          fetches[n].asked /\ fetches[n].from = c /\ fetches[n].value.id = id

Destroyed(id) == IF Unanswered(id) /\ Held(id) /\ ~Fetched(id) THEN {id} ELSE {}
-----------------------------------------------------------------------------
(* What Xt and LoseSelection do to the timer when the owner changes.       *)

\* Mutant: the timer of a command that was taken goes on.
StillArmed == timers

Disarmed == timers \ {timeout}

\* Mutant: only the first contact is timed.
ArmedForTree(f, rest) ==
    IF f.cmd = "SendWidgetTree" THEN rest \union {Len(sent) + 1} ELSE rest

Armed(f, rest) == rest \union {Len(sent) + 1}

\* Xt tells a widget of ours that another one has the selection now.
Overruled == mine /\ widget' # widget

\* A client takes the selection to answer; it drops what it held before.
Taken(c) ==
    /\ doing[c].phase = "ready"
    /\ owner' = c
    /\ held' = [[d \in Clients |-> Nothing] EXCEPT ![c] =
                   [id |-> doing[c].id, code |-> doing[c].code]]
    /\ doing' = [doing EXCEPT ![c] = Idle]

\* XtOwnSelection: nothing is done when the same widget still has it, for all
\* that Xt knows; otherwise an older SelectionClear does not count any more.
Owned(w) ==
    /\ mine' = TRUE /\ widget' = w
    /\ IF mine /\ widget = w
       THEN UNCHANGED <<owner, clear, held>>
       ELSE /\ owner' = "meditres" /\ clear' = FALSE
            /\ held' = [c \in Clients |-> Nothing]
    /\ UNCHANGED doing

\* It fails when a client takes the selection before Xt asks whose it is.  The
\* SelectionClear goes to a widget that Xt does not watch: an older owner still
\* believes that it has the selection.
Forestalled(w) ==
    /\ ~(mine /\ widget = w)
    /\ \E c \in Clients : Taken(c)
    /\ UNCHANGED <<mine, widget, clear>>

OwnSelection(w) == Owned(w) \/ Forestalled(w)

\* LoseSelection asks the server for the value of whoever has the selection;
\* meditres itself has none.
Asked == IF owner \in Clients
         THEN Append(fetches, [w |-> widget, from |-> owner, asked |-> TRUE,
                               value |-> held[owner]])
         ELSE fetches
-----------------------------------------------------------------------------
(* SetCommand and BuildHeader.                                             *)

Lowered(f) == f.cmd = "SendWidgetTree" /\ reset

\* Mutant: the level is kept when another client is asked for its tree.
LevelKept(f) == version

Level(f) == IF Lowered(f) THEN CURRENT_PROTOCOL_VERSION ELSE version

SetCommand(f, to) ==
    LET id == Len(sent) + 1
    IN  /\ Len(sent) < MaxSends
        /\ ident' = id /\ command' = f.cmd
        /\ version' = Level(f)
        /\ reset' = (reset \/ f.cmd = "SendWidgetTree")
        /\ by' = IF Lowered(f) THEN {} ELSE by
        /\ OwnSelection(f.w)
        /\ sent' = Append(sent, [w |-> f.w, cmd |-> f.cmd, to |-> to, level |-> Level(f),
                                 by |-> by', owned |-> mine' /\ widget' = f.w])
        /\ LET rest == IF Overruled THEN Disarmed ELSE timers
           IN  IF alive[to]
               THEN /\ window' = to /\ calls' = Tail(calls)
                    /\ timers' = Armed(f, rest) /\ timeout' = id
                    /\ mail' = [mail EXCEPT ![to] =
                                   Append(@, [id |-> id, level |-> Level(f)])]
                    /\ told' = Append(told, "waiting")
               ELSE \* NO_WINDOW
                    /\ window' = None
                    /\ timers' = rest
                    /\ timeout' = IF Overruled THEN 0 ELSE timeout
                    /\ calls' = <<[w |-> f.w, cmd |-> "SendWidgetTree",
                                   picking |-> TRUE]>> \o Tail(calls)
                    /\ told' = Append(told, "no window")
                    /\ UNCHANGED mail
        /\ UNCHANGED <<looping, tree, fetches, alive, lost>>

\* SetCommand as it was called, with or without a client.
Enter ==
    /\ calls # <<>> /\ ~Head(calls).picking
    /\ IF window # None
       THEN SetCommand(Head(calls), window)
       ELSE /\ calls' = <<[Head(calls) EXCEPT !.picking = TRUE]>> \o Tail(calls)
            /\ UNCHANGED <<window, ident, command, version, reset, timeout,
                           timers, looping, tree, selection, clients, history>>

\* GetClientWindow is left with a client, in the innermost call: at the release
\* of the button ...
Pick(c) ==
    /\ calls # <<>> /\ Head(calls).picking /\ ~looping /\ alive[c]
    /\ SetCommand(Head(calls), c)

\* ... while the event of a key is dispatched again and again: nothing reads
\* the next one.
PickByKey ==
    /\ calls # <<>> /\ Head(calls).picking /\ ~looping
    /\ looping' = TRUE
    /\ UNCHANGED <<window, ident, command, version, reset, timeout, timers, calls,
                   tree, selection, clients, history>>

Escape ==
    /\ calls # <<>> /\ Head(calls).picking /\ ~looping
    /\ window' = None /\ calls' = Tail(calls)
    /\ UNCHANGED <<ident, command, version, reset, timeout, timers, looping,
                   tree, selection, clients, history>>
-----------------------------------------------------------------------------
(* The menu.                                                               *)

Menu(list) ==
    /\ calls = <<>> /\ Len(sent) + Len(list) <= MaxSends
    /\ calls' = list
    /\ UNCHANGED <<ident, command, version, reset, timeout, timers, looping,
                   tree, selection, clients, history>>

SetClient == Menu(<<Call("set", "SendWidgetTree")>>) /\ window' = None
Refresh == Menu(<<Call("refresh", "SendWidgetTree")>>) /\ UNCHANGED window
GetResourceList ==
    /\ tree # None /\ UNCHANGED window
    /\ \E n \in 1..MaxLoop : Menu([i \in 1..n |-> Call("tree", "GetResources")])
-----------------------------------------------------------------------------
(* ConvertCommand, LoseSelection, GetClientValue and ClientTimedOut.       *)

\* Its timer was stopped by the answer to another command.
Robbed(id) == IF Unanswered(id) /\ ~Held(id) /\ ~Fetched(id) THEN {id} ELSE {}

LoseSelection ==
    /\ Dispatching /\ clear
    /\ clear' = FALSE /\ mine' = FALSE
    /\ timers' = Disarmed /\ timeout' = 0 /\ fetches' = Asked
    /\ lost' = lost \union (IF ident \in timers /\ ident \notin timers'
                            THEN Robbed(ident) ELSE {})
    /\ UNCHANGED <<window, ident, command, version, reset, calls, looping, tree, widget,
                   owner, clients, sent, told, by>>

\* Mutant: any answer is taken for that of the command in force.
AnyIdent(v) == TRUE

SameIdent(v) == v.id = ident

Told(v, how) == told' = [told EXCEPT ![v.id] = how]

\* The answer to another command: the selection is taken back.
WrongIdent(f) ==
    /\ ~SameIdent(f.value)
    /\ OwnSelection(f.w)
    /\ timers' = IF Overruled THEN Disarmed ELSE timers
    /\ timeout' = IF Overruled THEN 0 ELSE timeout
    /\ lost' = lost \union (IF mine /\ widget = f.w THEN {} ELSE Destroyed(ident))
                    \union (IF ident \in timers /\ ident \notin timers'
                            THEN Robbed(ident) ELSE {})
    /\ UNCHANGED <<window, ident, command, version, reset, calls, looping, tree, sent,
                   told, by>>

Handled(f) ==
    /\ SameIdent(f.value) /\ f.value.code = "Answer"
    /\ Told(f.value, "answered")
    /\ \/ \* Failure, or there is nothing more to ask for
          UNCHANGED <<tree, calls>>
       \/ command = "SendWidgetTree" /\ tree' = sent[f.value.id].to /\ UNCHANGED calls
       \/ \* OpenAdditionalResourceBoxes
          /\ command = "GetResources"
          /\ Len(calls) < MaxCalls /\ Len(sent) < MaxSends
          /\ calls' = <<Call("tree", "GetResources")>> \o calls
          /\ UNCHANGED tree
    /\ UNCHANGED <<window, ident, command, version, reset, timeout, timers, looping,
                   mine, widget, owner, clear, held, sent, by, lost>>

ProtocolMismatch(f) ==
    /\ SameIdent(f.value) /\ f.value.code = "Mismatch" /\ Len(calls) < MaxCalls
    /\ Told(f.value, "mismatch")
    /\ version' = version - 1 /\ reset' = FALSE
    /\ by' = by \union {sent[f.value.id].to}
    /\ calls' = <<Call(f.w, "SendWidgetTree")>> \o calls
    /\ UNCHANGED <<window, ident, command, timeout, timers, looping, tree, mine, widget,
                   owner, clear, held, sent, lost>>

GetClientValue ==
    /\ Dispatching /\ fetches # <<>> /\ ~Head(fetches).asked
    /\ fetches' = Tail(fetches)
    /\ \/ WrongIdent(Head(fetches))
       \/ Handled(Head(fetches)) /\ UNCHANGED doing
       \/ ProtocolMismatch(Head(fetches)) /\ UNCHANGED doing
    /\ UNCHANGED <<alive, mail>>

First == CHOOSE t \in timers : \A u \in timers : t <= u

\* The widget of a timer is that of its command.  The selection is given up
\* after LoseSelection, which asks for the value of a client that has it.
ClientTimedOut ==
    /\ Dispatching /\ timers # {}
    /\ ident' = 0
    /\ told' = IF ident > 0 /\ told[ident] = "waiting"
               THEN [told EXCEPT ![ident] = IF ident = First THEN "timed out" ELSE "cut short"]
               ELSE told
    /\ IF mine /\ widget = sent[First].w
       THEN /\ mine' = FALSE /\ timers' = (timers \ {First}) \ {timeout}
            /\ timeout' = 0 /\ fetches' = Asked
            /\ owner' = None /\ clear' = FALSE
            /\ held' = [c \in Clients |-> Nothing]
       ELSE /\ timers' = timers \ {First}
            /\ UNCHANGED <<mine, timeout, fetches, owner, clear, held>>
    /\ UNCHANGED <<window, command, version, reset, calls, looping, tree, widget,
                   alive, mail, doing, sent, by, lost>>
-----------------------------------------------------------------------------
(* The clients, and the X server that serves what meditres asks for.       *)

\* A message; one of another version is refused at once.
Read(c) ==
    /\ doing[c] = Idle /\ mail[c] # <<>>
    /\ mail' = [mail EXCEPT ![c] = Tail(@)]
    /\ doing' = [doing EXCEPT ![c] =
          IF Head(mail[c]).level = Speaks[c]
          THEN [phase |-> "asking", id |-> Head(mail[c]).id, code |-> "none"]
          ELSE [phase |-> "ready", id |-> Head(mail[c]).id, code |-> "Mismatch"]]
    /\ UNCHANGED <<global, selection, alive, held, history>>

\* ConvertCommand: the command that is in the stream now.  Whether the client
\* could do it is not told apart before its answer is unpacked.
ConvertCommand(c) ==
    /\ Dispatching /\ doing[c].phase = "asking" /\ owner = "meditres"
    /\ doing' = [doing EXCEPT ![c] = IF @.id = Len(sent)
                     THEN [phase |-> "ready", id |-> @.id, code |-> "Answer"]
                     ELSE Idle]
    /\ UNCHANGED <<global, selection, alive, mail, held, history>>

Refused(c) ==
    /\ doing[c].phase = "asking" /\ owner # "meditres"
    /\ doing' = [doing EXCEPT ![c] = Idle]
    /\ UNCHANGED <<global, selection, alive, mail, held, history>>

Answer(c) ==
    /\ Taken(c)
    /\ clear' = (clear \/ owner = "meditres")
    /\ lost' = lost \union Destroyed(ident)
    /\ UNCHANGED <<global, mine, widget, fetches, alive, mail, sent, told, by>>

Dies(c) ==
    /\ alive[c] /\ c \in Mortal
    /\ alive' = [alive EXCEPT ![c] = FALSE]
    /\ mail' = [mail EXCEPT ![c] = <<>>] /\ doing' = [doing EXCEPT ![c] = Idle]
    /\ held' = [held EXCEPT ![c] = Nothing]
    /\ owner' = IF owner = c THEN None ELSE owner
    /\ lost' = IF Unanswered(ident) /\ Carries(c, ident) THEN lost \union {ident} ELSE lost
    /\ UNCHANGED <<global, mine, widget, clear, fetches, sent, told, by>>

Client(c) == Read(c) \/ ConvertCommand(c) \/ Refused(c) \/ Answer(c)

\* A value is brought; it comes from the client the X server asked for it.
Served ==
    /\ \E n \in DOMAIN fetches :
         /\ fetches[n].asked
         /\ \A k \in 1..(n - 1) : ~fetches[k].asked
         /\ fetches' = IF alive[fetches[n].from]
                       THEN [fetches EXCEPT ![n].asked = FALSE]
                       ELSE SubSeq(fetches, 1, n - 1) \o SubSeq(fetches, n + 1, Len(fetches))
    /\ UNCHANGED <<global, mine, widget, owner, clear, clients, history>>
-----------------------------------------------------------------------------
Init ==
    /\ window = None /\ ident = 0 /\ command = "SendWidgetTree"
    /\ version = CURRENT_PROTOCOL_VERSION /\ reset = TRUE
    /\ timeout = 0 /\ timers = {} /\ calls = <<>> /\ looping = FALSE
    /\ tree = None
    /\ mine = FALSE /\ widget = "set" /\ owner = None /\ clear = FALSE
    /\ fetches = <<>>
    /\ alive = [c \in Clients |-> TRUE]
    /\ mail = [c \in Clients |-> <<>>]
    /\ doing = [c \in Clients |-> Idle]
    /\ held = [c \in Clients |-> Nothing]
    /\ sent = <<>> /\ told = <<>> /\ by = {} /\ lost = {}

User == SetClient \/ Refresh \/ GetResourceList \/ PickByKey \/ Escape \/ \E c \in Clients : Pick(c)
Meditres == Enter \/ LoseSelection \/ GetClientValue

Next == \/ User \/ Meditres \/ ClientTimedOut \/ Served
        \/ \E c \in Clients : Client(c) \/ Dies(c)

Spec == /\ Init /\ [][Next]_vars
        /\ WF_vars(Enter) /\ WF_vars(Served)
        /\ SF_vars(LoseSelection) /\ SF_vars(GetClientValue) /\ SF_vars(ClientTimedOut)
        /\ \A c \in Clients : WF_vars(Client(c))
-----------------------------------------------------------------------------
(* Properties.                                                             *)

\* comm.c:665: an answer is unpacked as the answer to the command it was made
\* for, the last one sent, and in the version of the protocol it was written
\* in, however late it comes and whatever was sent meanwhile.
AnswerMatches ==
    [][\A k \in DOMAIN told :
         told[k] = "waiting" /\ told'[k] \in {"answered", "mismatch"} =>
            /\ k = Len(sent) /\ sent[k].cmd = command
            /\ (told'[k] = "answered" => version = Speaks[sent[k].to])]_vars

\* comm.c:587: LoseSelection stops a timer that runs, never one that is over
\* and whose record Xt has given to another; and no timer of a command that
\* was answered is left to tell the user that its client does not understand.
\* Excluded is the timer of a command that was sent although meditres had not
\* got the selection: at its end XtDisownSelection finds nothing to lose, and
\* nobody clears the number of the timer that is over (comm.c:417, comm.c:127).
TimersTrue ==
    /\ timeout \in timers \union {0} \/ ~sent[timeout].owned
    /\ \A t \in timers : told[t] \notin {"answered", "mismatch"}

\* comm.c:725: a client that is not newer than meditres is never asked in a
\* version below its own, or the retries would go on for ever.  Excluded is a
\* version that the answer of another client has lowered: SetCommand, called
\* again for the retry, lets the user pick a client of a later version.
NegotiationDescends ==
    [][\A k \in DOMAIN told :
         told[k] = "waiting" /\ told'[k] = "mismatch"
            /\ Speaks[sent[k].to] <= CURRENT_PROTOCOL_VERSION
            /\ sent[k].by \subseteq {sent[k].to}
            => version' >= Speaks[sent[k].to]]_vars

\* The bound MaxSends keeps a call of SetCommand from going on.
AtBound == Len(sent) + Len(calls) > MaxSends

\* comm.c:469: the user who waits for a client is told something in the end:
\* an answer comes or the timer runs out.  The code loses a command in these
\* ways only (lost): its timer is stopped by the answer to an earlier command,
\* its answer is thrown away when meditres takes the selection back from a
\* late one, another client answers an earlier message over it, or the client
\* ends while it holds it.  Nor is anything told in the endless loop after a key.
NoSilentWait == []<>(~Unanswered(ident) \/ ident \in lost \/ looping \/ AtBound)

\* comm.c:275: Return and Space select a client, as the button does.
KeysSelect == looping ~> ~looping
==============================================================================
