# A verification model of dtextra

dtextra is a collection of Motif programs, each with its own sources and its own
process; they share no run-time state (Xlt is a widget library that meditres
is built with). What they have in common is how they are built: one thread in an Xt
main loop, callbacks, timers and signal handlers that all assign the same static
variables, and a partner outside (pppd, Ghostscript, an IRC server, the mount table,
an Editres client, a host on a socket, the program in a terminal window) that answers
late, twice or not at all. This directory models the programs for which that is the
difficulty, each from its own sources.

## 1. Inventory

| Component | State it keeps | Operations | Talks to | Module |
|---|---|---|---|---|
| mppp, dialer (`mppp.c`, `motif.c`, `setget.c`) | `s_is_dialing`, `s_cancel_dialing`, `s_modemfd`, `pppd_id`, `s_pppd_state`, `s_pppd_is_dead`, `s_start_time`, the button, the timer, `smppp` | `ConnectCb`, `QuitCb`, `startPPP`, `waitFor`, `openDevice`, `hangupModem`, `execPPP`, `terminatePPPD`, `zombieCollect` | modem (tty), pppd (fork, kill, wait), X server, log file | MpppDialer, MpppSession |
| mppp, console (`mppp.c`, `utils.c`, `main.c`) | the same, `g_quit`, `g_quit_time` | the three ends of `startPPP`, `waitforEnter` | stdin, pppd | MpppConsole (the ends only) |
| mppp, parsers (`readmpppConfig`, `script.c`, `futils.c`) | `Mppp`: numbers, bauds, limits; the script's list | `readmpppConfig`, `readScript`, tokenising | files | - |
| mppp, containers (`llist.c`) | array list, linked list | add, delete, iterate | parsers, script | - |
| mgv, Ghostview widget (`Ghostview.c`, `mgv.c`, `options.c`, `page.c`) | interpreter pid and pipes, queue of sections (`ps_input`), `busy`, `changed`, `gv_mwin` | `Setup`, `StartInterpreter`, `StopInterpreter`, `SendPS`, `NextPage`, `Input`, `Output`, `Message` | Ghostscript (pipes, ClientMessages), the application's callbacks | Ghostview |
| nebula (`network.c`, `signals.c`, `interpreter.c`, `userlist.c`) | connection, the two buffers of `readLine`, user list | `readLine`, connect, disconnect, the commands of user and server | a TCP stream | Nebula (one channel) |
| xplore (`devmount.c`, `mnttable.c`, `dirs.c`, `curdir.c`, `fileops.c`, `signals.c`) | use count of each device, directory records, the copy of the mount table | mount, umount, open, update, free, move | mount(8), other programs that mount | XploreDevices (one device) |
| xterm_177_motif, emulator (`charproc.c`, `VTPrsTbl.c`, `cursor.c`, `util.c`, `screen.c`, `tabs.c`, `scrollbar_motif.c`) | parser state, cursor, margins, tabs, saved cursors, lines, pending scrolls | about 100 control functions, resizes, scrolls, exposures | the program in the window, the X server, the user's scrollbar | VTParser, VTCursor, VTScroll |
| meditres (`comm.c`, `handler.c`) | `global_client`: ident, command, window, timer; protocol version | `SetCommand`, `GetClientWindow`, `ConvertCommand`, `LoseSelection`, `GetClientValue`, `ClientTimedOut` | another X client, through a selection | Editres (two of the commands) |
| Xlt, Host (`Host.c`) | output and input queues, throttle, mode, two timers | `SendByte`, `InputHandler`, `ProcessByte`, `Connect`, `Disconnect`, the public calls | a host on a socket | XltHost (the client type) |
| Xlt, the rest (`ListTree.c`, `Stroke.c`, ...) | the tree's links, strokes | widget methods | | - |
| dtscan | file name, counter, toggles | scan, preview, the toggle callbacks | scanimage | - |
| dtexec | none after start | one callback that reads a pipe to its end | a command | - |
| xmastm (`scorem.c`, `setscore.c`, `commitcb.c`) | the board, the score | `ScoreMove`, commit | user | - |
| xmbibtex, xtar, xps, pixmap, patches, mxascii, mxkill | forms, file lists, pixel buffers | Motif callbacks, one at a time | files | - |
| mxterm-129 | an older xterm | as xterm_177_motif | | - |

What is hard:

* **Re-entry.** `waitFor` (mppp) dispatches `ConnectCb` from inside `startPPP`;
  `SendByte`, `InputHandler` and `Connect` (Host) run event loops of their own;
  `GetClientWindow` (meditres) dispatches events while the user picks a window.
* **Signals at any step.** `zombieCollect` closes the modem, resets the id and the
  state, writes the log and repaints the window, whoever died and wherever the
  thread is; SIGCHLDs do not queue and the handler waits once.
* **Answers to what is over.** A PAGE of a Ghostscript that was killed, an answer to an
  earlier Editres command, a timer whose record belongs to somebody else by now,
  a descriptor or a pid that was used again.
* **State that outlives its use.** Buffers, positions and counts of one interpreter,
  connection or control sequence that the next one starts with.
* **Work put off.** The window scrolls later than the buffer, text is drawn at
  a later byte, messages wait in the X queue: what happens in between must either
  join it or have it done first.
* **Counters that must agree.** `attempt`, `ntry`, `nloop` and `this_num` of the
  dialer, the use count of a device and those who hold it, `scroll_amt` and
  `refresh_amt`.
* **Partial failure.** `fork`, `fread`, the mount commands and the connection fail at
  one step of several.

`hazards` in PROJECT.json lists each place where this may go wrong, with the
properties that look at it.

## 2. Modules

    MpppSession      what the user is promised: down, dialing (a limited number of calls), up
        ^  implements (refinement mapping at the end of MpppDialer)
    MpppDialer       xmppp: startPPP, waitFor, ConnectCb, QuitCb, the handler, pppd, modem, user
        ^ EXTENDS            ^ EXTENDS
    MpppDialerProofs     MCMpppDialer      (TLAPS)  (TLC instances)

    MpppConsole      mppp without Motif: the three ends of startPPP, waitforEnter, the handler
    Ghostview        mgv: the widget, the program around it and Ghostscript
    Nebula           nebula and its IRC server
    XploreDevices    xplore: one device, its directory records, other programs
    VTParser         xterm_177_motif: what a byte means after those before it
    VTCursor         xterm_177_motif: cursor, margins, tabs, saved cursors, resizes
    VTScroll         xterm_177_motif: lines, saved lines, and the window that lags behind
    Editres          meditres and the clients it edits
    XltHost          the Host widget of Xlt as a client

Each has an `MC...` module with its TLC instance, and its proofs are in a `...Proofs`
module. Two of these extend two models each: VTProofs has the proofs of VTParser and of
VTCursor, ConnectionProofs those of MpppConsole and of XltHost. (For that the parser's
specification is `ParserSpec`, with `ParserInit` and `ParserNext`, and that of the console
`ConsoleSpec`, with `ConsoleInit` and `ConsoleNext`.) The programs do not interact, so no module composes two of them;
the three VT modules are three views of one emulator. What a control function is
and which parameters it has is decided in VTParser, what it does to the cursor in
VTCursor and to the lines in VTScroll. They share no variable but the margins and the
cursor's row, which VTScroll changes more freely than VTCursor does (any row, any
region that `Region` has, and whatever `CursorSet` may reach), so what VTScroll shows
holds for every cursor movement, but for the two states that VTCursor finds beyond them: the row
below the screen (`OnlyBackLeaves`) and the margins that memory lock crosses (`LockCrosses`).

### MpppDialer

The variables have the names of the static variables and locals of the code.
`pc` is where the one thread stands. A step is what the thread does between two
places where the handler, a click or the modem can make a difference:

| `pc` | place in the code |
|---|---|
| `idle` | `XtAppMainLoop` |
| `redial` | label `DialAgain` of `startPPP` (mppp.c:1530) |
| `init` | `waitFor` after the modem's init strings (1656-1675) |
| `dial` | `waitFor` after ATDT (1737-1796) |
| `script` | the loop over the script's entries (1849-1902), `sc` its index |
| `exec` | before `fork` in `execPPP` |
| `forked` | `fork` has returned, `setpppdId` has not run (1187-1190) |
| `started` | before `startPPP` reads `pppd_pid` back (1942) |
| `mark` | the id was good, `setPPPDState(1)` has not run (1961) |
| `hangup` | `ConnectCb` has seen state 1 (motif.c:1092), `terminatePPPD` has not read the id |
| `kill` | the id is in the local `pppd_id` (`victim`; mppp.c:1231), `kill` has not run |
| `killed` | between `kill` and `setpppdId(-1)` (mppp.c:1235-1244, motif.c:1095) |
| `asking` | the dialog of `QuitCb` |
| `quitting` | its `terminatePPPD` after the id was read |
| `exited` | `exit` |

* `StartPPP`, `CancelIdle`, `Hangup` are the branches of `ConnectCb`, `ReadId`, `Kill` and
  `Hungup` the rest of the last one: SIGCHLD may come between any two of them.
  `StartPPP` also reads both files, and their failures are its other outcomes.
* `NextLoop`, `EmptyPlan`, `GiveUp`, `PlaceCall`, `NoDevice` are one pass through
  `DialAgain`: rewinding, the limits, `openDevice`.
* `InitDone`, `InitFailed`, `DialAnswered`, `DialSilent`, `DialFailed(word)`,
  `CancelDialing` are the ways out of `waitFor` and what `startPPP` does on each.
* `Send`, `Expected`, `ScriptFailed`, `ScriptDone` run the script.
* `Fork`, `ForkFailed`, `setpppdId`, `Started`, `StartedDead`, `Connected` are
  `execPPP` and what follows it.
* `zombieCollect(p)` is the handler; `PppdDied` its branch for the current pppd.
* `Die`, `Click`, `QuitCb`, `QuitKill`, `QuitOther` are the environment; `QuitKilled` goes on
  after `QuitKill` has read the id.

Helpers that assign variables (`hangupModem`, `fixupThings`, `UpdateWindowStates`,
`writeLog`, `Return`) are operators, so each action carries everything the code
calls on that path.

Three variables are not in the code: `call` says whom the telephone line belongs to, `term` which pids got
SIGTERM, `lines` how many lines of the log are about each pid. `click` is the one
click that may wait in the X queue, remembered with the label it was meant for.

What a configuration contains is abstracted to the numbers the redial logic uses and the
kinds of the script's entries. The modem's answer is a choice among the cases that
`startPPP` tells apart.

### MpppSession

Three variables, `link`, `placed`, `budget`: a dialing fixes its budget when it
begins, never makes more calls than that, and the link comes up only out of a
dialing that placed a call. `MpppDialer!ImplementsSession` maps `placed` to
`nloop * MaxBusy + ntry` and `budget` to `(LastLoop + 1) * MaxBusy`.

### MpppConsole

The same handler against the loops that the build without Motif ends in: `-quit 0`
(sleep, exit), `-quit N` (count down, then kill), or wait for Enter. `main` calls
`startPPP` once, so there is one pppd and its variables are scalars. The dialing
before it is that of MpppDialer without the button and is abstracted to its two
results: the line may carry a call or not (`Init`). pppd may die from the moment it
is forked. The handler's effect on a blocked system call is explicit (`Interrupt`):
`select` returns -1, `getchar` returns EOF. `collected`, which is not in the code, remembers where
the thread was when pppd was collected.

### Ghostview

`g` is the widget's record with what hangs on it: the process, its pipe, the X queue.
Each routine of Ghostview.c (`StopInterpreter`, `StartInterpreter`, `Setup`, `SendPS`,
`NextPage`, `InterpreterFailed`, ...) is an operator from one such record to the next,
and a callback composes the routines it calls: `ShowPage`, `Palette`, `Antialias`,
`Resize`, `Open` are the user's, `Input`, `Output` and `Message` those that Xt
dispatches. `Input` is a loop over the pipe with an `fread` in it; each turn
is a step (`pc = "input"`), because the interpreter reads meanwhile. A
section is a sequence of bytes <<section, n>>, so that a byte fed twice, skipped, or
from another file position can be told from the right one. Ghostscript reads its pipe, draws, sends
PAGE and waits, or ends with DONE or without (`Gs`, `GsDies`).

### Nebula

A line on the wire is its text, a CR and an LF, three pieces: `recv` may end
anywhere. `readLine` handles whole lines (a fold of `interpretPiece`), then reads what is left byte by
byte (`pc = "rest"`, `readByte`), with the two buffers of the code. `sendLine`,
`doJoin`, `doPart`, `Nick` and `connectToServer` are the user's commands, `interpret`
what a line does to the list. There is one channel that the user joins; `doPart("other")` is a `/part`
that names some other one. The server, the others in the channel and TCP are outside. `seen` is
history: which of the things happened that the list or the flag does not survive.

### XploreDevices

`s` is the record of the device with the system's mount table and xplore's copy;
`devmount`, `devumount`, `devcheck` give the set of their outcomes, since a command may
fail and the table may be seen late. The records of dirs.c form a forest (`Parent`). The actions
are the routines that take or give the count: `Create`, `Reread`, `Open`, `ScanFails`,
`dirFree`, `remount`, `dirUnmountAll`, `dirUpdate`, `MovBegin` and `MovEnd` of a file
operation, the option, the configuration read again (`initdevs`), `Quit`. The walks over a tree are runs of these, with other
programs between two of them.

### VTParser

`Tables` are the tables of VTPrsTbl.c as functions from bytes to cases; what tables share is
written once (`Sequence`, `Numbered`, `Vt52`). One byte is one step (`Received`), with
the case's action and, in the same step, what the loop does before it (flushing text, keeping string bytes). `CupByte` are
the two bytes after ESC Y, `MenuReset` the reset from the menu between two bytes.
Parameters have no values: what is tracked is which entries of `param` the present sequence has set (`fresh`) and
which a function reads (`read`); a function that depends on a value does one or
the other.

### VTCursor

One action per control function, each from the case of `VTparse` and the routines
it calls; the arithmetic of cursor.c is in operators on rows (`SetRow`, `DownRow`,
`UpRow`, ...) and `BackCell`. `ScreenResize` has the window's rows move as `Shifts`
says; `DECCOLM`, `EnterAlternate`, `RIS` and `DECSTR` are whole handlers.

### VTScroll

`buf` is what the program wrote, `win` what the window shows; a line is one value, and a
row of the window that has parts of two lines is `Garbled`. `FlushScroll` with its
`copy_area`, clearing and `ScrnRefresh` is computed exactly (`FlushedUp`,
`FlushedDown`), for a window that may be scrolled back (`topline`). Every function that
moves or writes lines postpones, joins or flushes as the code does. In eight places the
code leaves the window wrong whatever is flushed later; they are named where they
occur with `Spoils(condition)`: `InsertLine` joining a scroll that starts above it,
`DeleteLine` when the end of the region is below the window, text and `ClearBelow` in
a row that is due to be drawn but is outside the region (`Overrun`), `ClearAbove` when the cursor is
below the window, DECALN, a full reset and `WindowScroll` with a scroll
pending, a soft reset that changes the margins under one. `spoiled` remembers it until the next
exposure.

### Editres

Commands, their timers and idents are numbered alike. `calls` is the stack of
`SetCommand`s (the error path calls it again), `picking` while `GetClientWindow`
dispatches events. `Menu`, `Pick`, `PickByKey`, `Escape`, `SetClient`, `Refresh` are the user's; `LoseSelection`,
`GetClientValue`, `ClientTimedOut`, `ConvertCommand` the program's; a client reads its
messages one after the other, fetches the command, and answers or ends. What Xt believes of the selection
(`mine`, `widget`) and what the server knows (`owner`, `clear`) are apart, since a
SelectionClear may be on its way. `XtOwnSelection` may fail (`Forestalled`): an earlier client takes the
selection before Xt asks the server whose it is. The code tells the user and goes on, so the message is sent and the timer
started all the same; `sent` remembers which command had the selection (`owned`).

### XltHost

`stack` has the calls under way, the innermost first: `SendByte` reads all input before it
sends, `InputHandler` and `Connect` dispatch timers, callbacks call the widget. A byte is the number of
its connection. Timers are records that Xt uses again: `timers` says
what each is used for now, so that removing a stale id removes somebody else's.

### Assumptions of the models of mppp

* `Numbers` has at least one entry; without the line the code indexes a null
  pointer. A negative `MaxRedial` or `MaxLoop` behaves as 0 and is not enumerated.
* `SilentModem` and `EarlyDeath` switch two faults of the environment on: a modem
  that says nothing through five 300 s timeouts, and a pppd that dies between `fork`
  and `setPPPDState(1)`. Properties that need the absence of an early death say so
  in their own text (`~EarlyDeath => ...`); no other property depends on the
  switches.
* The handler runs between steps; the steps are cut where the code reads or writes
  what the handler writes and the order matters to a property. Calls that are not async-signal-safe (Xt, malloc,
  stdio inside the handler) are undefined behaviour that the models do not follow.
* A closed tty drops DTR. A process id is not used twice (each member of `Pids` once).
* The dialog of `QuitCb` is application modal, so no click on the button is
  dispatched while `pc = "asking"`; events behind the answer are not modelled.
* The elapsed-time callback only paints; the timer is the flag whether it is armed.

### Assumptions of the other models

* **VT modules.** Lines have single width, `titeInhibit` is off, `dotext` is the branch
  without wide characters. A window is not wider than `MAX_TABS`. In VTScroll the window has
  a fixed size, is not obscured, `multiscroll` is off, the alternate screen is
  `scrollWidget = FALSE`, nothing is protected. In VTParser the cursor is saved
  in one place; the sets themselves, REP and the replies to the host are left
  out; allocation does not fail.
* **Editres.** Of the commands, the one that fetches the tree and the one that fetches
  resources: the others are sent and answered alike. A client answers each
  command once. Facts of Xt and of the X server (whom a SelectionClear reaches, that an
  owner who ends frees the selection) are external.
* **XltHost.** The client type of the widget, which is not destroyed, without a callback
  for raw input; the callback for a lost connection calls nothing.
* **Nebula.** One channel; a line is at most half of the buffer. `recv` fails with ECONNRESET only.
* **Ghostview.** Errors of `write` other than a full or broken pipe do not occur, nor errors of `read`
  on the pipes that Ghostscript writes to (where `Output` calls `InterpreterFailed`).

## 3. Runs

| Run | Instance | States | Properties |
|---|---|---|---|
| `dialer_safety` | 3 pids, symmetric; configurations 2x2x2, MaxRedial 0, MaxLoop 0 with an empty script; silent modem | 110 957 | `ViewsAgree`, `HangupReachesPppd` |
| `dialer_plan` | 2 pids, early death; the same configurations and 3 calls to each of 3 numbers in 3 passes; fairness | 221 261 | `LivePppdTracked`, `NoLineLeftUp`, `CallOrder`, `ImplementsSession`, `StartPPPReturns`, `KilledIsCollected` |
| `console_ends` | no `-quit`; `-quit` with -2, 0, 1 and 4; fairness | 716 | `EndToldOnce`, `ExitLeavesNoPppd`, `QuitEnds` |
| `ghostview_feed` | 2 pages of 3 bytes, a prolog of 1, an empty setup, a buffer and a pipe of 2; all faults; fairness | 13 703 | `SentInOrder`, `PageOnScreen`, `QueueDrains`, `BusyEnds` |
| `nebula_list` | 3 nicks, 2 servers, 2 lines down and 1 up on their way, 2 turns of the others, or `/nick`s and `/part`s of another channel; fairness | 1 155 977 | `Framed`, `ChannelShown`, `RestEnds` |
| `devices_count` | a directory in the tree, its subdirectory and a shelf, a file operation; both actions, both may fail, another program; fairness | 14 264 | `CountIsHolders`, `LeftAsFound`, `NoUmountUnderReader`, `LostIsNoticed` |
| `vt_cursor` | windows of 3x2, 2x1 and 1x2, parameters to 3, 2 tab columns, one saved cursor | 325 632 | `OnlyBackLeaves`, `RegionHolds`, `MainCursorKept`, `RestoreReturns` |
| `vt_scroll` | 3 rows, 2 saved lines, counts 1 and 3, every pair of margins | 143 784 | `WindowTrue`, `SavedStaysReachable`, `RegionOnly` |
| `vt_parser` | a VT220, 41 bytes, one of every kind the tables tell apart; 2 parameters, 2 characters, strings of 2 | 104 506 | `ReadsOwn`, `StringWhole`, `TextInItsSet`, `FunctionsEnd` |
| `editres_answers` | 2 clients of versions 4 and 5 against 5, one may end; 3 commands, 3 nested calls; fairness | 725 243 | `TimersTrue`, `AnswerMatches`, `NegotiationDescends`, `NoSilentWait` |
| `host_calls` | 3 timers, symmetric; 2 connections, 2 bytes out, 4 in, 2 calls under way | 1 326 767 | `NothingCarriedOver`, `NothingStalls`, `OnePacer` |
| `editres_keys` | `editres_answers` with one command | | `KeysSelect`, violated, see below |

`TypeOK` is a conjunct of `SentInOrder`, `Framed`, `CountIsHolders`, `WindowTrue` and
`ReadsOwn`; of the dialer, the console and the cursor it is proved. `CallInList`,
`LevelMatchesGround`, `OnlyLockCrosses` and `TabForward` have theorems and no run.

### What the properties say

* `ViewsAgree`: a click inside `waitFor` only cancels, button and timer agree with
  `s_pppd_state`, and every connection that is over has a line in the log.
  `HangupReachesPppd`: `terminatePPPD` signals the current pppd; where the handler has run
  between the test of the state and `kill`, the signal may go to nobody or to a stranger, but
  then the window and the log have the death.
* `LivePppdTracked`, `NoLineLeftUp`: a pppd that runs is the one `pppd_id` names, and no way
  out of `startPPP` leaves a call up. `CallOrder`, `ImplementsSession`: each call goes to
  the number that the plan names, and the dialer is MpppSession. `StartPPPReturns`, `KilledIsCollected` are its
  liveness.
* `EndToldOnce`: the loops of the console build know of a pppd that was collected, unless it died
  before its id was stored; a connection has one line in the log at most, and none only after
  `-quit 0`, for a pppd that died before the id was stored or read back, and for one that was
  collected between the last look at the flag and the `kill` after it (`LoggedUnlessBetween`).
  `ExitLeavesNoPppd`, `QuitEnds`: nothing is left behind, and with `-quit` the program ends.
* `SentInOrder`: what reaches an interpreter is its document, whole and in order,
  whatever failed for the one before. `PageOnScreen`: the page that Ghostscript shows
  when it waits is the one asked for last. `QueueDrains`, `BusyEnds`: once the user rests, the queue
  empties and the busy cursor goes.
* `Framed`: the main loop always stands between two lines, however `recv` cuts.
  `ChannelShown`: once everything has arrived, the window has all the others who are in the channel,
  unless two users were after one nick (`clash`), a CR and its LF came apart (`split`) or `/part` named another
  channel (`emptied`, until the server has us leave); nobody else is in it before the first
  `/part`; and what is typed goes to the channel, unless the last join or part was a
  `/part` of another one (`away`).
  `RestEnds`: reading the rest of a line ends.
* `CountIsHolders`: the use count is the number of holders. `LeftAsFound`: what xplore
  mounted it unmounts, unless an unmount that failed was passed over (`failed`) or the configuration
  was read again while the device was mounted (`forgotten`). `NoUmountUnderReader`: and under nobody. `LostIsNoticed`: a
  directory whose device went away is not shown for ever.
* `OnlyBackLeaves`, `RegionHolds`: the cursor leaves the screen by reverse wraparound
  only (by one row), and the scrolling region by no vertical movement, line feed or text.
  `MainCursorKept`, `RestoreReturns`: the saved cursors are those that were saved.
* `WindowTrue`: at any moment, a flush makes the window show the buffer.
  `SavedStaysReachable`: a line that went off at the top can be scrolled back to.
  `RegionOnly`: scrolling changes nothing outside the region.
* `ReadsOwn`: a function reads parameters of its own sequence only. `StringWhole`: a command string is the bytes
  between its start and its end. `TextInItsSet`: a character is drawn in the set selected when it
  arrived. `FunctionsEnd`: after a function comes the ground table.
* `AnswerMatches`: an answer is used for the command it answers. `TimersTrue`: the
  timer that `LoseSelection` would stop is running, unless it is that of a command that was sent without
  the selection (`owned`), and none is left of a command that was answered. `NegotiationDescends`: versions go down, to
  one that the client speaks. `NoSilentWait`: a command gets an answer, a message, or
  its time runs out.
* `NothingCarriedOver`: no byte and no input of one connection reaches the next.
  `NothingStalls`: output that may go has a timer, a binary block that began has its
  time limit. Three losses are named (`lost`), each until the timer is started again: "send", the output's
  timer was removed by the stale id of a binary block; "binary", the block's was removed by
  the output's id, stale after that, at an Xoff or in `XltHostDiscardOutput`; "held",
  output was held back as the connection was made. `OnePacer`: one timer sends.

Properties that hold only outside of a case that the code gets wrong say so in their
own text, by naming the case: `~EarlyDeath`, `Overtaken`, `Alone`, `collected`, `ignored`, `failed`, `forgotten`,
`seen` (`clash`, `split`, `part`, `away`, `emptied`), `spoiled`, `joined`, `Careless`, `owned`,
`lost`, `cut`, `overrun`, `extra`. Each stands for something that the code does; they
are listed below.

### Bounds

There are no state constraints: the bounds are the parameters and the guards that
the constants `Max...` name. Three pids are a pppd that still dies, the current one
and the next one. Two numbers, two attempts and two passes make each
reset of each counter happen, and three of each make "second" and "last" differ.
A page of 3 bytes does not fit into a buffer or a pipe of 2, so that every feed is cut.
Nebula's two servers are the old and the new socket; a line of 3 pieces in a buffer
of 6 is cut in each place. A tree, its subdirectory and a shelf are the three kinds of
holders. Windows of 3x2, 2x1 and 1x2 shrink and grow in both directions and have one
row or one column; three rows are the least with a line above, in and below a
region, and two saved lines fill up. One byte of every kind is what the parser's tables tell
apart, three commands are one that is over, one that waits and one that is new; two connections are the
lost one and the next. `host_calls` also passes with three nested calls (3 716 598
states), outside of the five minutes that a run should take.

**Views and symmetry.** `vt_parser` and `vt_scroll` have a `VIEW` that leaves out what no next
step reads: what the last byte had done, and a window that was left wrong.
Their action properties are about transitions, which TLC checks before it asks
whether the state is new. `dialer_safety` (pids) and `host_calls` (timers) are symmetric and
check no liveness.

**Fairness.** Only what a scheduler or a toolkit owes. In MpppDialer the thread, the pending signal and
a pppd that got SIGTERM; in MpppConsole the process and its handler. In Ghostview
Xt serves every descriptor and message, and Ghostscript runs. In Nebula Xt serves the
socket and the server what it is sent. In XploreDevices the periodic update of a directory and the end of a
file operation, strongly, since other programs may disable them for a moment again
and again. In Editres `SetCommand` runs, the X server delivers, a client that is alive serves its messages;
a SelectionClear, a value and a timer that is due are strongly fair, because
dispatching stops while the user picks a window. Nothing is
assumed of a user, of the modem, of a server's or another program's choice, or
that anything succeeds.

**Deadlock** is checked in each run but two: `editres_answers` and `host_calls` stop
when their bounds are used up and nobody has anything to send, which the programs
may do too. The other models have a state that stutters at the end (`Exited`, `Ended`,
`Dead`), or never stop.

### Where the code and its documentation disagree

`editres_keys` is a run that ends with a counterexample: `GetClientWindow`, left with a key, throws away the
events of keys in a loop that reads no event (comm.c:340); meditres hangs with pointer and keyboard
grabbed. The comment at comm.c:275 says that Escape aborts and Return and Space select.

The following are in the models and excluded from a property by name, or
follow from a theorem, and have no run of their own:

| Where | What happens |
|---|---|
| mppp.c:2249 | `waitFor` falls out of its five timeouts with the rc of success; pppd is started without a call |
| mppp.c:1674 | some returns of `startPPP` leave `s_is_dialing` set; the button only cancels from then on |
| mppp.c:1190, 1961 | pppd dies before its id is stored or its state is set: the window shows Hangup for a dead connection |
| mppp.c:1231, 1235 | the handler runs between the test of the state, the copy of the id and `kill`: the SIGTERM goes to -1, which `terminatePPPD` refuses, or to an id that may be another process's |
| motif.c:1099 | the handler runs after `kill`: both write the line of the log |
| mppp.c:1994, 2021 | pppd is collected between the last look at `s_pppd_is_dead` and `kill`: the connection has no line in the log |
| mppp.c:1288 | one `waitpid` for two deaths: one stays a zombie |
| utils.c:732 | SIGCHLD sends `waitforEnter` into a blocking `getchar` |
| Ghostview.c:403 | a PAGE of a Ghostscript that was killed makes the next one look ready |
| network.c:240 | `readLine` spins when the server is gone in the middle of a line |
| network.c:410 | `/part` of another channel clears `isInChannel` and empties the list, while the server keeps the user in the channel |
| interpreter.c:115 | `/nick` takes the change for granted; a second server is connected to beside the first |
| devmount.c:22, callbacks.c:1972 | reading the configuration again forgets that xplore mounted a device: it is left mounted; xplore.man:239 says that it is unmounted |
| devmount.c:79 | a mount by another program in the second before xplore's own mount fails is taken for xplore's, which will unmount it; the manual says it does not (xplore.man:277) |
| cursor.c:96, charproc.c:1380 | HPA in origin mode goes down by the top margin; ctlseqs.ms:678 says the row is kept |
| cursor.c:123 | reverse wraparound by whole screens puts the cursor a row below the screen |
| charproc.c:1836 | memory lock below the region crosses the margins |
| util.c:237 | a smooth scroll by the height of the region erases the whole screen; util.c:204 says "All done within the scrolling region, of course" |
| VTScroll, `Spoils` | eight functions leave the window wrong until it is exposed |
| charproc.c:876 | `vt52_cup` and `nparam` survive a reset from the menu between ESC Y and its two bytes |
| charproc.c:2027, 2249 | after a stray ST, and after S8C1T at level 1, the next byte is taken for the rest of a sequence |
| charproc.c:1996 | DECSCL, CSI T and the window operations read parameters of earlier sequences |
| charproc.c:2258 | a string that starts inside another one is interpreted with the bytes of both |
| comm.c:469, 587, 665 | a timer's id is written over; a late answer throws away the newer one and stops its timer |
| comm.c:417, 127 | the timer is started although the selection was not got; when it runs out `XtDisownSelection` finds nothing to lose, and `global_client.timeout` keeps its id |
| comm.c:725 | the negotiated version goes down because of another client's answer |
| handler.c:410 | the number of commands of `GetResourceList` is what the stack held |
| Host.c:524 | Xoff and Xon inside `SendByte` start a second sender, which does not keep the delay of XltHost.3:88 |
| Host.c:291 | a stale `BinaryTimeOutId` removes the timer of the output |
| Host.c:384, 1197 | the id of the output, stale after that, removes the time limit of a binary block, which is never given up |
| Host.c:762 | bytes left over when a callback closed the connection begin the first line of the next |
| Host.c:837 | `Connect` clears `Host_Throttle` without starting the timer of held output |
| Host.c:1246 | two reconnections within a second: the first connection is forgotten and read for ever |

## 4. Proofs

TLAPS checks 50 theorems in eight modules, for every value of the constants that
the named assumptions allow. Each module has its inductive invariant (`IInv`, or one per
theorem of mppp, of the parser and of nebula), one lemma for each action, and the theorems at its end.

**MpppDialerProofs**: every set of configurations (any MaxRedial, MaxLoop, list
length and script), any pids, both switches. `TypeCorrect`, `NeverReentered`,
`LineDropped`, `PppdTracked`, `CallsInList`, `CallsInOrder`, `DialerImplementsSession`,
`WindowFaithful`, `EndedLogged`, `ViewsAlwaysAgree`, `HangupSignals`. None of the
properties is inductive. The strengthenings, each given `TypeOK`:

* `FlagInv`: `s_is_dialing` is set wherever `waitFor` can run. `NoReentry` follows.
* `LineInv`: a call that is ours exists only between the modem's answer and `fork`,
  and the descriptor is open then, so every exit on the way reaches it.
* `PidInv`: while a dialing runs, the state is 0 and the id is free until the new
  child's is stored; outside it, state 0 means that there is no id; inside `terminatePPPD`
  an id that is still there is the one that was copied, and after `kill` names a pppd that was
  signalled or is gone. With
  `LivePppdTracked` this says why a late SIGCHLD of an old pppd cannot match `pppd_id`.
* `UpInv`, `LogInv`: given `PidInv` and no early death, state, id, button and timer
  agree, and each child is in the log or is the one the log will be about. `OvertakenInv`: from the
  test of the state to `kill`, state 0 means that the handler has told of the pppd of `start_time`.
* `PlanInv`: `ntry = this_num * MaxRedial + attempt` with `attempt <= MaxRedial`,
  `this_num < n_numbers` and `nloop <= LastLoop`. The list index follows by `ListArithmetic`, the order by
  `DivisionArithmetic`, and the budget of MpppSession by `PassArithmetic` and
  `BudgetArithmetic` (non-linear facts, stated apart because the SMT solver needs
  them as they are).
* `SessionInv`, the conjunction of `TypeOK`, `PidInv` and `PlanInv`, makes each step
  of the dialer a step or a stutter of MpppSession (`NextSession`).

**ConnectionProofs**, the console of mppp: every set of options, also with a time that is not positive.
`TypeCorrect`, `DeathKnown`, `ExitClean`, `LoggedOnlyOnce`, `OnlyBetweenUnlogged`, `EndTold`. The type is proved in two halves
(`Flags`, `Others`) because Boolean facts and arithmetic need different provers. `PppdInv` says which values of
the id, the flag and the child go together at each place of the thread; `LogInv` that
a line is written only by the step that leaves, `BetweenInv` that a loop that is past its look at
the flag has missed only a pppd that was collected since.

**VTProofs**, the cursor: every set of window sizes, every bound and every set of flags.
`TypeCorrect` (cursor in a column of the screen and at most one row below it, margins
and stops inside their arrays), `BackLeaves`, `LockCrosses`, `RegionKept`, `MainKept`, `RestoreCorrect`,
`TabsForward`. The typing invariant is inductive as it stands and carries the action properties, one lemma for
each operator on rows and columns. That a next tab stop exists and is the
least one is by well-founded induction on the library's facts (`Least`, `Greatest`); what
CursorBack does by division is in `DivMod`.

**VTScrollProofs**: every size of the screen and of the scroll back, every order of the
operations. `SpecIInv`, `WindowStaysTrue`, `OnlyTheRegion`, `SavedLinesStay`. `WindowTrue` says what a flush
would show; it is not inductive as it stands, because the next operation is not always a flush. What
is inductive is `Shown`, which says row by row where the pending flush takes a row from: a row that the
copy fills (`Moved`) is right in the window at the row it is copied from, one that is drawn again
(`Fresh`) may hold anything, and every other row is right already. With it go the bounds on
`refresh_amt` and `scroll_amt`, and that nothing is pending when scrolls are not put off. The lemmas `CopyAt`,
`WipeAt`, `RefreshedAt`, `OpenedAt`, `FlushedAt` give what the operators on windows have in
each row; with them `ShownFlushed` shows that `Shown` is `WindowTrue`, and each function either
keeps it or is one that `Spoils`. `SavedLinesStay` rests on `CountedTwice`: counting the saved lines of a
scroll in two steps, now and in the flush, is counting them once.

**VTProofs**, the parser: every terminal, every set of bytes, any size of `param` from 2 and any
bounds. `SequencesEnd`, `StringsWhole`, `TextDrawn`, `LevelKnown`, `ReadsOnlyOwn`. What the tables say is in lemmas
(`Vt52Said`, `OtherSaid`, `LookedSaid`: which cases the tables of the two kinds of terminal
have), so that the steps need not look a byte up again. `LevelInv` ties the ground table to the level and to the table in use,
`CupInv` says when the two bytes of ESC Y are due, `StringInv` that the bytes kept
are those since the start, `TextInv` that pending text belongs to the set in use, `ReadInv` in which
tables which entries of `param` are those of the sequence that is being read.

**XploreDevicesProofs**: every forest of directories, every combination of actions that are
configured. `SpecIInv`, `DeviceCount`, `DeviceLeftAsFound`, `DeviceUnmount`. The count is the number of records that can be
read and of the file operation, counted with `Cardinality`, so each step has to say how many of them it
enters or leaves. What goes beyond the property: a
record that is not there holds nothing, one that can be read holds the device, and a
device that xplore mounted is in both mount tables. Inside a handler the count and the holders
differ, by the records that are still to be counted down; the lemmas carry that number.

**EditresProofs**: every set of clients and of versions, any number of commands and nested calls.
`SpecIInv`, `TimersStayTrue`, `AnswersMatch`, `LevelsDescend`. An answer is compared with nothing but its ident, so what
has to be shown is about the whole way of a command: its number is in one place at most,
a message, the client's hands, the selection, or a value on its way (`Apart`, `Once`); what is in
that place was made in the version the command was sent in (`Carried`); the command in force is the last one, of
the version that `version` still has (`InForce`); a timer that can be stopped, but for that of a command sent without the selection, is that of the widget that
owns the selection (`Timed`); no client has lowered a version below its own
(`Descends`).

**ConnectionProofs**, the Host widget: any number of timers, connections, bytes and calls under way. `SpecIInv`, `HostCarriesNothing`,
`HostStallsNothing`, `HostOnePacer`. The proofs treat the stack as the set of its frames. A frame that a timer called has
that timer's record until it returns (`StackInv`), so no other frame has it and it can be
nobody's output or time limit; a frame that still has bytes has them of the open connection or of
one that the code let go (`Belongs`); `outId` names a running timer but inside of `SendByte`
(`TimerInv`).

**GhostviewProofs**: every document, every length of its sections (none of a page's is 0), every
size of buffer and pipe, with and without failures (of `fork`, of `fread`, of Ghostscript itself).
`Invariant`, `FeedStaysInOrder`, `RightPageShown`. The lemmas at the top say what `FlattenSeq` is
of a sequence with one section more (`FlattenMore`, `UptoAppend`), by well-founded induction on the
length. The invariant is a conjunction
of what each part of the widget has to know. `Queue`: the queue is the end of what was sent. `Begun`:
the file stands where `bytes_left` says, once it was sought. `Fed`: what is written, what waits in the
buffer and what is unread of the section in hand make up the sections so far; it holds as long as
`Input` is registered, since a buffer outlives its interpreter. `Pipe`: what is written is a prefix of what is due. `Told`: there is one PAGE
under way at most, and none while Ghostscript draws, so an interpreter that is not busy either waits or
has told nothing yet; the PAGE of a killed one may clear the flag, but then `mwin` is the
old window, and the NEXT that is sent to it ends mgv. `Asked`: Ghostscript will see no end of a page but that of `page`,
at the end of what is due. One lemma for each routine says what it keeps (`Stops`, `Starts`, `Sends`, `SetsUp`,
`Fills`, `WriteKeeps`, ...), and each callback composes them as the code does. Between two sections of
a refresh `Document` does not hold; there the lemmas carry `Quiet`, that no end of a page is due.

**NebulaProofs**: every set of nicks, every buffer that holds two lines, any number of lines on their
way, of servers and of turns. `FramedAlways`, `ChannelShownAlways`.

`Framed` says only how the next piece begins. What is inductive (`Framing`) is about the whole `Stream`,
what the two buffers of `readLine` hold and then what is on its way: it is a sequence of lines (`Lined`: a text, its
CR, its LF, and again), whole as long as the server is there, and `InHand` says which part of a line
`readLine` may hold in `pc = "rest"`. Each of its steps takes complete lines from the front of the stream and changes the list
as they say (`Advances`; `ReceivedTakes` for what `recv` returned, `ByteTakes` for the bytes that are read one by one).
Where the last complete line ends is the greatest of the positions with an LF (`HighestOf`, by well-founded
induction as in the other modules).

`ChannelShown` speaks of the moment when nothing is under way. What leads there is what the lines under way will make of the
list, which is a fold over a sequence of any length. The
invariant (`Showing`) does not mention the fold: it follows one nick through the pieces of the stream
(`Walk`: the nick changes with a NICK that names it and is gone with a LEAVE). `Listed`: each of the others is where
the walk of somebody ends who is in the list, or whom a later line adds. `Strange`: nobody in the list, and
nobody that a line adds, ends up as somebody who is not there. A step of the server makes the walks a line longer
(`ListedMore`, `StrangeMore`, `MineMore`); one of `readLine` goes along them as far as it has handled lines, piece
by piece with the list (`ListedTakes`, `ListedAdvances`, ...), where `FoldIs` has what the fold is after each piece. `Mine`, `Own` and `Agreed` are about
the user's nick, which the list does not wait for: it is changed before the server has
agreed. `Typed` and `Parted` are about the commands on their way up. All these hold on the
instance of `nebula_list` too.

The assumptions are those that the modules name (`...Assumption`), and TLC evaluates each of
them in a run. Every safety property of the passing runs, invariant or action property, is stated by a
theorem, and so is the refinement. Only model-checked:

* liveness (and with it ENABLED), which is out of the prover's reach: `StartPPPReturns`, `KilledIsCollected`,
  `QuitEnds`, `QueueDrains`, `BusyEnds`, `RestEnds`, `LostIsNoticed`, `NoSilentWait`;
* that `KeysSelect` fails, which is a counterexample.

Of the recursive definitions behind `FlattenSeq` and `FoldLeft` the proofs use what they are for one element more
(`FlattenMore`, `FoldIs`), which well-founded induction on a length gives without an operator as a parameter.

## 5. Not modelled

* **mppp**: widget creation, icons, menus, colours, parsing of files (planned),
  containers, the text of messages, the modem's echo byte by byte. Calls that are not
  async-signal-safe in the handler.
* **mgv**: dialogs, printing (`process.c`, `print.c`), the parser of DSC comments, wlib.
* **nebula**: several channels, private messages, dialogs, messages that only print. A `recv` that
  fails otherwise than with ECONNRESET (network.c:158 goes on with index -1, which is undefined)
  does not occur; a `read` that returns -1 once after a reset counts as one more byte before the end.
* **xplore**: what a file operation does with the files, several devices, the windows.
* **xterm_177_motif**: selections (`button.c`), Tek4014, printing, fonts, menus, double-width
  lines, the character sets and replies, the pty and the process in it. The widget
  code of Motif draws and lays out. That `dotext` draws characters from 128 in the right-hand set and not in
  `curgl` is left out: `TextInItsSet` follows the left-hand set for every character.
* **mxterm-129**: an older version of the same emulator; its parser and screen are those
  that the VT modules model but for what version 177 has added.
* **meditres**: the other commands, `FindChild`, the batch mode, the hangup handler, the
  countdown label, a stream that is reset while an earlier command is converted,
  the windows with the tree and the resources. An answer with an unknown error code (comm.c:737, where
  `error_str` is not initialised) does not come.
* **Xlt**: of Host, the server type (where `Disconnect` leaves the inputs of its clients and
  a failed `accept` is counted), destroying it, raw input, its dialog, a second time limit after
  `BinaryByte`'s callback (Host.c:371: only when two reconnections nested in the callback have begun another block); ListTree, Stroke and
  SciPlot, which are layout and drawing.
* **xmastm**, **dtscan**, the parsers of mppp: sequential; in the plan below.
* **dtexec**, **xmbibtex**, **xtar**, **xps**, **pixmap**, **patches**, **mxascii**,
  **mxkill**: one callback at a time over widgets, files and buffers, no protocol that could
  go wrong between two steps; `regex.c` of mxkill is third-party.

## 6. Plan

Done: the modules above, with the proofs of section 4. Next, in this order:

1. **MpppConfig** (mppp): `howmanyTokens` against `mystrtok`, `readScript`'s last line,
   the bounds of the array list.
2. **MastermindScore** (xmastm): `ScoreMove` against the usual definition.
3. **DtscanNumbering**: the counter and the toggle callbacks.
4. VTParser with the character sets, and VTCursor with lines of double width.
