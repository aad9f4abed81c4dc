------------------------------- MODULE Ghostview ------------------------------
(***************************************************************************)
(* The Ghostview widget of mgv and the program around it: the Ghostscript  *)
(* it forks, the sections of the file it feeds to it through a pipe, the   *)
(* PAGE and DONE messages that come back through the X server, and the     *)
(* user who turns pages, resizes the window and opens other files.         *)
(*                                                                         *)
(* g is the state of the widget with what hangs on it; every routine of    *)
(* Ghostview.c is an operator from one such state to the next, so that a   *)
(* callback is the composition of the routines it calls.  Ghostscript's    *)
(* window is "cur" or, once its process was killed, "old".                 *)
(***************************************************************************)
EXTENDS Naturals, Sequences, SequencesExt

CONSTANTS
    Pages,          \* the pages of a document with DSC comments
    FirstPage,
    Prolog, Setups, \* its other sections
    Oriented,       \* the pages with an orientation of their own
    Length,         \* the bytes of each section
    BufSize,        \* GV_BUFSIZ
    PipeSize,       \* what the pipe to Ghostscript holds
    MaxEvents,      \* bound on the messages in the X queue
    MaxSent,        \* bound on the sections queued for one interpreter
    Faults          \* may fork or fread fail and Ghostscript die by itself?

Parts == {Prolog, Setups} \union Pages
ASSUME PageAssumption == /\ FirstPage \in Pages /\ Oriented \subseteq Pages
                         /\ Prolog # Setups /\ {Prolog, Setups} \intersect Pages = {}
ASSUME LengthAssumption == Length \in [Parts -> Nat] /\ \A p \in Pages : Length[p] > 0
ASSUME SizeAssumption == {BufSize, PipeSize, MaxEvents, MaxSent} \subseteq Nat \ {0}
ASSUME FaultAssumption == Faults \in BOOLEAN

VARIABLES
    pc,     \* "main": XtAppMainLoop, "input": the loop of Input, or "exited"
    doc,    \* what is open: "none", a "dsc" file, or a "plain" one
    page,   \* m->page
    g       \* the widget

vars == <<pc, doc, page, g>>

\* The bytes of a section.
Contents(p) == [k \in 1..Length[p] |-> <<p, k>>]

Forks == IF Faults THEN BOOLEAN ELSE {TRUE}

ViewerType ==
    [disable_start : BOOLEAN, changed : BOOLEAN,
     sized : BOOLEAN,               \* gs_width and gs_height are the window's
     pid : BOOLEAN,                 \* interpreter_pid is not -1
     gs : {"none", "run", "wait", "dead"},
     input : BOOLEAN,               \* interpreter_input is not -1
     input_id : BOOLEAN,            \* and Input is registered for it
     out : SUBSET {"stdout", "stderr"},
     busy : BOOLEAN,
     mwin : {"none", "cur", "old"},
     ps_input : Seq([part : Parts, seek_needed : BOOLEAN]),
     bytes_left : Nat,
     buffer : Seq(Parts \X Nat),    \* the buffer_bytes_left bytes to write
     fp : [part : Parts, at : Nat], \* where the file is read next
     sent : Seq(Parts),             \* queued for this interpreter
     written : Seq(Parts \X Nat), nread : Nat,      \* its pipe
     events : Seq([type : {"PAGE", "DONE"}, from : {"cur", "old"}])]

Blank == [disable_start |-> FALSE, changed |-> FALSE, sized |-> FALSE,
          pid |-> FALSE, gs |-> "none", input |-> FALSE, input_id |-> FALSE,
          out |-> {}, busy |-> FALSE, mwin |-> "none", ps_input |-> <<>>,
          bytes_left |-> 0, buffer |-> <<>>,
          fp |-> [part |-> Prolog, at |-> 0],
          sent |-> <<>>, written |-> <<>>, nread |-> 0, events |-> <<>>]
-----------------------------------------------------------------------------
(* The routines of Ghostview.c. *)

\* The windows of a killed Ghostscript; its messages stay in the queue.
Old(s) == [k \in DOMAIN s |-> [s[k] EXCEPT !.from = "old"]]

StopInterpreter(v) ==
    [v EXCEPT !.pid = FALSE, !.gs = "none", !.out = {}, !.busy = FALSE,
              !.input = FALSE, !.input_id = FALSE,
              !.ps_input = IF v.input THEN <<>> ELSE @,
              !.events = Old(@), !.mwin = IF @ = "cur" THEN "old" ELSE @]

\* GvNfilename is set for a plain file; fork may fail.
StartInterpreter(v, forked) ==
    LET s == StopInterpreter(v)
    IN  IF s.disable_start THEN s
        ELSE [s EXCEPT !.changed = FALSE, !.busy = TRUE,
                       !.pid = forked, !.gs = IF forked THEN "run" ELSE "none",
                       !.input = doc # "plain",
                       !.out = {"stdout", "stderr"},
                       !.sent = <<>>, !.written = <<>>, !.nread = 0]

\* Setup returns early when there is nothing to do.
Settled(v) == ~v.changed /\ v.sized
Setup(v, forked) ==
    IF Settled(v) THEN v
    ELSE StartInterpreter([StopInterpreter(v) EXCEPT !.sized = TRUE], forked)

DisableInterpreter(v) == StopInterpreter([v EXCEPT !.disable_start = TRUE])
EnableInterpreter(v, forked) ==
    StartInterpreter([v EXCEPT !.disable_start = FALSE], forked)

\* Mutant: a page that is still being drawn counts as finished.
IsReadyBusy(v) == v.pid /\ v.ps_input = <<>>

IsInterpreterReady(v) == v.pid /\ ~v.busy /\ v.ps_input = <<>>

\* The first section of an empty queue resets the buffer and registers Input.
SendPS(v, part) ==
    LET new == [part |-> part, seek_needed |-> TRUE]
    IN  IF ~v.input THEN v
        ELSE IF v.ps_input = <<>>
        THEN [v EXCEPT !.ps_input = <<new>>, !.bytes_left = Length[part],
                       !.buffer = <<>>, !.input_id = TRUE,
                       !.sent = Append(@, part)]
        ELSE [v EXCEPT !.ps_input = Append(@, new), !.sent = Append(@, part)]

CanTurn(v) == v.pid /\ v.mwin # "none" /\ ~v.busy

\* Mutant: NEXT does not reach the interpreter.
NextPageLost(v) == IF CanTurn(v) THEN [v EXCEPT !.busy = TRUE] ELSE v

\* The NEXT message; XSync waits until the server has taken it.
NextPage(v) ==
    IF ~CanTurn(v) THEN v
    ELSE [v EXCEPT !.busy = TRUE,
                   !.gs = IF v.mwin = "cur" /\ @ = "wait" THEN "run" ELSE @]

\* A message to the window of a dead Ghostscript is a BadWindow error, and
\* nothing in mgv replaces Xlib's handler, which exits.
BadWindow(v) == CanTurn(v) /\ (v.mwin = "old" \/ v.gs = "dead")
-----------------------------------------------------------------------------
(* The routines of mgv.c. *)

\* mgv_refresh
Refreshed(v, p) ==
    IF doc = "dsc" THEN SendPS(SendPS(SendPS(v, Prolog), Setups), p) ELSE v

\* mgv_orient disables the interpreter although the orientation stays.
Turned(v, p) == IF p \in Oriented THEN DisableInterpreter(v) ELSE v

\* mgv_show of a document.
Shown(v, p, forked) ==
    LET t == Turned(v, p)
        r == IF IsInterpreterReady(t) THEN NextPage(t)
             ELSE SendPS(SendPS(EnableInterpreter(t, forked), Prolog), Setups)
    IN  SendPS(r, p)

\* mgv_show of a file without DSC comments: the next page, or a bell.
ShownPlain(v, forked) ==
    IF ~v.pid THEN EnableInterpreter(v, forked)
    ELSE IF IsInterpreterReady(v) THEN NextPage(v)
    ELSE v

Refused(v, p) ==
    IF doc = "dsc" THEN LET t == Turned(v, p) IN IsInterpreterReady(t) /\ BadWindow(t)
    ELSE IsInterpreterReady(v) /\ BadWindow(v)

mgv_show(v, p, forked) ==
    /\ page' = p
    /\ g' = CASE doc = "dsc" -> Shown(v, p, forked)
              [] doc = "plain" -> ShownPlain(v, forked)
              [] OTHER -> v
    /\ pc' = IF doc # "none" /\ Refused(v, p) THEN "exited" ELSE "main"
    /\ UNCHANGED doc
-----------------------------------------------------------------------------
(* The user. *)

\* mgv starts without a file: Realize has called Setup, the interpreter waits.
Init == /\ pc = "main" /\ doc = "none" /\ page = FirstPage
        /\ g = [Blank EXCEPT !.sized = TRUE, !.busy = TRUE, !.pid = TRUE,
                             !.gs = "run", !.input = TRUE,
                             !.out = {"stdout", "stderr"}]

\* page->next, page->previous, the page list, redisplay.
ShowPage(p) == /\ pc = "main" /\ doc # "none"
               /\ doc = "plain" => p = page
               /\ Len(g.sent) < MaxSent
               /\ \E forked \in Forks : mgv_show(g, p, forked)

\* mgv_options_palette: SetValues starts one interpreter, mgv_show the next.
Palette == /\ pc = "main" /\ doc # "none"
           /\ \E forked \in Forks :
                mgv_show(Setup([g EXCEPT !.changed = TRUE], forked), page, forked)

\* mgv_options_antialias, mgv_magnify and mgv_orientation: disabled, then changed.
Antialias ==
    /\ pc = "main" /\ doc # "none"
    /\ \E forked \in Forks :
         mgv_show(Setup([DisableInterpreter(g) EXCEPT !.changed = TRUE], forked),
                  page, forked)

\* Another size of the window: Setup, and "Refresh" when it returns True.
Resize ==
    /\ pc = "main"
    /\ \E forked \in Forks :
         LET s == Setup([g EXCEPT !.sized = FALSE], forked)
         IN  g' = IF doc # "plain" THEN Refreshed(s, page) ELSE s
    /\ UNCHANGED <<pc, doc, page>>

\* mgv_close and openit; SetValues finds the new file name.
Open(d) ==
    /\ pc = "main"
    /\ doc' = d
    /\ page' = FirstPage
    /\ g' = [DisableInterpreter(g) EXCEPT !.changed = TRUE, !.sized = TRUE]
    /\ UNCHANGED pc
-----------------------------------------------------------------------------
(* Input: one pass of its loop, which Ghostscript may run beside. *)

InterpreterFailed(v) == StopInterpreter(v)

\* The section that was read to its end is dropped, the next one sought.
Popped(v) == IF v.ps_input # <<>> /\ v.bytes_left = 0
             THEN [v EXCEPT !.ps_input = Tail(@)] ELSE v

\* Mutant: the file is not repositioned.
SoughtNot(v) ==
    IF v.ps_input # <<>> /\ v.ps_input[1].seek_needed
    THEN LET s == v.ps_input[1].part
         IN  [v EXCEPT !.ps_input[1].seek_needed = FALSE, !.bytes_left = Length[s]]
    ELSE v

Sought(v) ==
    IF v.ps_input # <<>> /\ v.ps_input[1].seek_needed
    THEN LET s == v.ps_input[1].part
         IN  [v EXCEPT !.ps_input[1].seek_needed = FALSE, !.bytes_left = Length[s],
                       !.fp = IF Length[s] > 0 THEN [part |-> s, at |-> 0] ELSE @]
    ELSE v

\* fread of n bytes from where the file stands.
Read(v, n) ==
    [v EXCEPT !.buffer = [k \in 1..n |-> <<v.fp.part, v.fp.at + k>>],
              !.bytes_left = @ - n, !.fp.at = @ + n]

Least(a, b) == IF a <= b THEN a ELSE b

\* A file that was truncated meanwhile ends early: fread returns 0.
Reads(v) == LET n == Least(Sought(Popped(v)).bytes_left, BufSize)
            IN  IF v.buffer # <<>> THEN {0}
                ELSE IF Faults THEN {0, n} ELSE {n}

Filled(v, n) ==
    LET s == Sought(Popped(v))
    IN  IF v.buffer # <<>> THEN v
        ELSE IF s.bytes_left > 0 /\ n = 0 THEN InterpreterFailed(s)
        ELSE Read(s, n)

Room(v) == PipeSize - (Len(v.written) - v.nread)

Take(v, m) == [v EXCEPT !.written = @ \o SubSeq(v.buffer, 1, m),
                        !.buffer = SubSeq(@, m + 1, Len(@))]

\* write(): some bytes, EAGAIN when the pipe is full, SIGPIPE when nobody reads.
Broken(v) == v.buffer # <<>> /\ v.gs \notin {"run", "wait"}
Writes(v) == LET m == Least(Len(v.buffer), Room(v))
             IN  IF m = 0 \/ Broken(v) THEN {0} ELSE 1..m
Wrote(v, m) == IF Broken(v) THEN InterpreterFailed(v) ELSE Take(v, m)

Detached(v) == IF v.ps_input = <<>> /\ v.buffer = <<>>
               THEN [v EXCEPT !.input_id = FALSE] ELSE v

Input ==
    /\ pc = "input" \/ (pc = "main" /\ g.input_id)
    /\ \E n \in Reads(g) : \E m \in Writes(Filled(g, n)) :
         LET w == Wrote(Filled(g, n), m)
             more == w.ps_input # <<>> /\ w.buffer = <<>>
         IN  /\ pc' = IF more THEN "input" ELSE "main"
             /\ g' = IF more THEN w ELSE Detached(w)
    /\ UNCHANGED <<doc, page>>

\* Output: the end of a pipe whose writer is gone.
Output(d) ==
    /\ pc = "main" /\ d \in g.out /\ g.gs \in {"none", "dead"}
    /\ g' = [g EXCEPT !.out = @ \ {d}]
    /\ UNCHANGED <<pc, doc, page>>

\* Mutant: a page that is finished is not noticed.
PageDoneNot(v) == v

PageDone(v) == [v EXCEPT !.busy = FALSE]

\* Message: the sender is remembered, whoever it is.
Message ==
    /\ pc = "main" /\ g.events # <<>>
    /\ LET m == Head(g.events)
           v == [g EXCEPT !.events = Tail(@), !.mwin = m.from]
       IN  g' = IF m.type = "PAGE" THEN PageDone(v) ELSE StopInterpreter(v)
    /\ UNCHANGED <<pc, doc, page>>
-----------------------------------------------------------------------------
(* Ghostscript.  It sends PAGE after each page and waits for NEXT.         *)

Tells(v, type) == [v EXCEPT !.events = Append(@, [type |-> type, from |-> "cur"])]

GsRead ==
    /\ pc # "exited" /\ g.gs = "run" /\ g.nread < Len(g.written)
    /\ LET b == g.written[g.nread + 1]
           v == [g EXCEPT !.nread = @ + 1]
       IN  IF b[1] \in Pages /\ b[2] = Length[b[1]]
           THEN /\ Len(g.events) < MaxEvents
                /\ g' = [Tells(v, "PAGE") EXCEPT !.gs = "wait"]
           ELSE g' = v
    /\ UNCHANGED <<pc, doc, page>>

\* A plain file, which it reads itself: another page, or the end.
GsPlain ==
    /\ pc # "exited" /\ g.gs = "run" /\ ~g.input
    /\ Len(g.events) < MaxEvents
    /\ \/ g' = [Tells(g, "PAGE") EXCEPT !.gs = "wait"]
       \/ g' = [Tells(g, "DONE") EXCEPT !.gs = "dead"]
    /\ UNCHANGED <<pc, doc, page>>

GsDies == /\ Faults /\ pc # "exited" /\ g.gs \in {"run", "wait"}
          /\ g' = [g EXCEPT !.gs = "dead"]
          /\ UNCHANGED <<pc, doc, page>>

Exited == pc = "exited" /\ UNCHANGED vars
-----------------------------------------------------------------------------
User == \/ (\E p \in Pages : ShowPage(p))
        \/ Palette \/ Antialias \/ Resize
        \/ (\E d \in {"dsc", "plain"} : Open(d))

\* What Xt dispatches without the user.
Dispatch == Input \/ Message \/ (\E d \in {"stdout", "stderr"} : Output(d))

Gs == GsRead \/ GsPlain

Next == User \/ Dispatch \/ Gs \/ GsDies \/ Exited

Spec == Init /\ [][Next]_vars

\* Xt serves every source, Ghostscript runs; the user may do nothing.
FairSpec == /\ Spec
            /\ WF_vars(Input) /\ WF_vars(Message) /\ WF_vars(Gs)
            /\ \A d \in {"stdout", "stderr"} : WF_vars(Output(d))
-----------------------------------------------------------------------------
TypeOK == /\ pc \in {"main", "input", "exited"}
          /\ doc \in {"none", "dsc", "plain"}
          /\ page \in Pages
          /\ g \in ViewerType

FeedInOrder ==
    IsPrefix(g.written, FlattenSeq([k \in DOMAIN g.sent |-> Contents(g.sent[k])]))

DocumentInOrder ==
    \A k \in DOMAIN g.sent :
        /\ k = 1 <=> g.sent[k] = Prolog
        /\ k = 2 <=> g.sent[k] = Setups

\* What reaches an interpreter's standard input is what was queued for it, from
\* the first byte and without a gap, whatever failed for the one before: the
\* buffer, the file position and the count of bytes left all outlive a restart.
\* And what is queued is a document: the prolog, the setup, then pages.
SentInOrder == TypeOK /\ FeedInOrder /\ DocumentInOrder

\* When Ghostscript has drawn a page of a document and waits, it is the page
\* that was asked for last, whatever was turned, resized or restarted meanwhile.
PageOnScreen ==
    pc # "exited" /\ doc = "dsc" /\ g.gs = "wait" =>
        g.nread > 0 /\ g.written[g.nread][1] = page

\* Once the user has stopped, what is queued is fed to the end or given up.
QueueDrains ==
    <>[][~User]_vars =>
        (g.ps_input # <<>> ~> g.ps_input = <<>> \/ pc = "exited")

\* Once the user has stopped, an interpreter at work on a file shows a page or
\* ends; the busy cursor does not stay over one that waits.
BusyEnds ==
    <>[][~User]_vars =>
        (g.busy /\ g.gs \in {"run", "wait"} /\ doc # "none"
           ~> ~g.busy \/ g.gs \in {"none", "dead"} \/ pc = "exited")
=============================================================================
