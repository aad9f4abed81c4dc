--------------------------------- MODULE Nebula -------------------------------
(***************************************************************************)
(* The IRC client nebula and the server it talks to: the lines of a        *)
(* channel, how readLine cuts them out of what recv returns, the commands  *)
(* the user types, and the list of users the window shows.                 *)
(*                                                                         *)
(* A line on the wire is three pieces, its text, a CR and an LF, so that   *)
(* recv may end inside a line or between the CR and the LF.  The server,   *)
(* the other people of the one channel and TCP are outside the program.    *)
(***************************************************************************)
EXTENDS Naturals, Sequences, SequencesExt

CONSTANTS
    Nicks, FirstNick,
    FirstOthers,        \* who is in the channel before
    NoNick, Garbage,    \* no nick yet; a nick with a piece of the next line
    CR, LF,
    MaxCommandLen,      \* MAX_COMMAND_LEN, in pieces
    MaxDown, MaxUp,     \* bounds on the lines on their way
    MaxServers,         \* bound on the connections made
    MaxTurns            \* bound on the /nicks, the parts of other channels and
                        \* on what others do

ASSUME NickAssumption == /\ FirstNick \in Nicks /\ FirstOthers \subseteq Nicks
                         /\ Nicks \intersect {NoNick, Garbage} = {}
\* What the server says, and what the client asks of it.
Msgs == [cmd : {"JOIN", "LEAVE"}, nick : Nicks]
          \union [cmd : {"NICK"}, nick : Nicks, new : Nicks]
          \union [cmd : {"NAMES"}, names : SUBSET Nicks, last : Nicks]
Cmds == [cmd : {"NICK"}, nick : Nicks] \union [cmd : {"JOIN", "PART", "PART other"}]

\* The end of a line is not the text of one.
ASSUME WireAssumption == CR # LF /\ CR \notin Msgs /\ LF \notin Msgs
\* A line of the protocol is at most half of the buffer.
ASSUME SizeAssumption == /\ MaxCommandLen \in Nat /\ MaxCommandLen >= 6
                         /\ {MaxDown, MaxUp, MaxServers, MaxTurns} \subseteq Nat \ {0}

VARIABLES
    pc,             \* "main", "recv" or "rest" (blocked in readLine), "dead"
    isConnected,
    registered,     \* is readLine registered for the socket?
    stale,          \* the sockets of earlier servers it is registered for
    isInChannel, myNick, userList,
    inBuff, inBuff2,        \* the two buffers of readLine, while it runs
    srv,            \* the server's view: who we are, who is in the channel
    up, down,       \* commands and pieces on their way
    closed,         \* "no", "closed" by the server, "reset": it answered so
    seen            \* what happened that the list does not survive

client == <<pc, isConnected, registered, stale, isInChannel, myNick, userList,
            inBuff, inBuff2>>
net == <<up, down, closed>>
vars == <<client, srv, net, seen>>

Line(m) == <<m, CR, LF>>
-----------------------------------------------------------------------------
(* interpreter.c and userlist.c: what a line does to the list.             *)

renameUserInList(old, new, list) ==
    IF old \in list THEN (list \ {old}) \union {new} ELSE list

interpretMessage(list, m) ==
    CASE m.cmd = "JOIN"  -> list \union {m.nick}
      [] m.cmd = "LEAVE" -> list \ {m.nick}          \* QUIT and PART
      [] m.cmd = "NICK"  -> renameUserInList(m.nick, m.new, list)
      [] m.cmd = "NAMES" -> list \union m.names

\* The pieces of complete lines, one after the other: CR LF only ends a text.
interpretPiece(list, x) == IF x \in {CR, LF} THEN list ELSE interpretMessage(list, x)

\* Two lines in one: the end of the first runs into the second.
Garbled(m) ==
    CASE m.cmd = "NICK"  -> [m EXCEPT !.new = Garbage]
      [] m.cmd = "NAMES" -> [m EXCEPT !.names = (@ \ {m.last}) \union {Garbage}]
      [] OTHER -> m

interpret(list, buff) ==
    interpretMessage(list, IF Len(buff) = 1 THEN buff[1] ELSE Garbled(buff[1]))
-----------------------------------------------------------------------------
(* network.c: readLine.                                                    *)

\* Where the last CR LF of a buffer ends, 0 if it has none.
LineEnds(buff) == {k \in 2..Len(buff) : buff[k - 1] = CR /\ buff[k] = LF}
LastEnd(buff) == IF LineEnds(buff) = {} THEN 0
                 ELSE CHOOSE k \in LineEnds(buff) : \A j \in LineEnds(buff) : j <= k

resetStatusToDisconnected ==
    /\ registered' = FALSE /\ isConnected' = FALSE /\ isInChannel' = FALSE
    /\ pc' = "main"
    /\ UNCHANGED <<stale, myNick, userList, inBuff, inBuff2, srv, net, seen>>

\* Mutant: the rest of the buffer is forgotten when lines came before it.
RestForgotten(buff) == IF LastEnd(buff) > 0 THEN <<>> ELSE buff

Rest(buff) == SubSeq(buff, LastEnd(buff) + 1, Len(buff))

\* recv and the complete lines of what it returned.
Received ==
    \E n \in 1..(IF Len(down) < MaxCommandLen THEN Len(down) ELSE MaxCommandLen) :
       LET buff == SubSeq(down, 1, n)
           lines == SubSeq(buff, 1, LastEnd(buff))
       IN  /\ down' = SubSeq(down, n + 1, Len(down))
           /\ userList' = FoldLeft(interpretPiece, userList, lines)
           /\ inBuff' = Rest(buff)
           /\ inBuff2' = <<>>
           /\ pc' = IF Rest(buff) = <<>> THEN "main" ELSE "rest"
           /\ seen' = IF Rest(buff) # <<>> /\ Last(Rest(buff)) = CR
                      THEN seen \union {"split"} ELSE seen
           /\ UNCHANGED <<isConnected, registered, stale, isInChannel, myNick,
                          srv, up, closed>>

readLine ==
    /\ \/ pc = "main" /\ registered /\ (down # <<>> \/ closed # "no")
       \/ pc = "recv" /\ (down # <<>> \/ closed # "no")
    /\ IF down = <<>> THEN resetStatusToDisconnected ELSE Received

\* A socket that was left behind is readable, recv is called for the other one.
readLineStale ==
    /\ pc = "main" /\ stale > 0 /\ isConnected /\ down = <<>> /\ closed = "no"
    /\ pc' = "recv"
    /\ UNCHANGED <<isConnected, registered, stale, isInChannel, myNick, userList,
                   inBuff, inBuff2, srv, net, seen>>

\* Mutant: a CR ends the line.
EndsAtCR(buff) == Last(buff) = CR

\* Mutant: the first two bytes are not looked at together.
LooksLate(buff) == Len(buff) > 2 /\ buff[Len(buff) - 1] = CR /\ Last(buff) = LF

\* gotCR was set by the piece before.
GotNewLine(buff) == Len(buff) > 1 /\ buff[Len(buff) - 1] = CR /\ Last(buff) = LF

\* One byte after the other, until CR LF or until the second buffer is full.
readByte ==
    /\ pc = "rest" /\ down # <<>>
    /\ LET more == Append(inBuff2, Head(down))
           whole == inBuff \o SubSeq(more, 1, Len(more) - 2)
           done == GotNewLine(more) \/ Len(more) = MaxCommandLen
       IN  /\ pc' = IF done THEN "main" ELSE "rest"
           /\ inBuff' = IF done THEN <<>> ELSE inBuff
           /\ inBuff2' = IF done THEN <<>> ELSE more
           /\ userList' = IF GotNewLine(more) /\ Len(whole) < MaxCommandLen
                          THEN interpret(userList, whole) ELSE userList
    /\ down' = Tail(down)
    /\ UNCHANGED <<isConnected, registered, stale, isInChannel, myNick,
                   srv, up, closed, seen>>

\* read returns 0 and the loop does not look at it.  (A -1, which comes once when
\* the connection was reset, counts as one more byte before the zeros.)
Spins == /\ pc = "rest" /\ down = <<>> /\ closed # "no"
         /\ UNCHANGED vars
-----------------------------------------------------------------------------
(* The commands. *)

\* sendLine; nobody handles SIGPIPE, the second write to a closed peer kills.
sendLine(cmd) ==
    /\ Len(up) < MaxUp
    /\ IF ~isConnected THEN UNCHANGED <<pc, net>>
       ELSE CASE closed = "no"     -> up' = Append(up, cmd)
                                      /\ UNCHANGED <<pc, down, closed>>
              [] closed = "closed" -> closed' = "reset" /\ UNCHANGED <<pc, up, down>>
              [] closed = "reset"  -> pc' = "dead" /\ UNCHANGED net

\* Is somebody listed under that nick, or will be or was?
Known(n) ==
    \/ n \in userList \union srv.others
    \/ \E k \in DOMAIN down : /\ down[k] \notin {CR, LF}
                             /\ down[k].cmd \in {"JOIN", "LEAVE", "NICK"}
                             /\ n = down[k].nick

\* /nick: the list and the name change before the server has agreed.
Nick(n) ==
    /\ pc = "main" /\ n # myNick /\ srv.turns < MaxTurns
    /\ userList' = renameUserInList(myNick, n, userList)
    /\ myNick' = n
    /\ sendLine([cmd |-> "NICK", nick |-> n])
    /\ srv' = [srv EXCEPT !.turns = @ + 1]
    /\ seen' = IF Known(n) THEN seen \union {"clash"} ELSE seen
    /\ UNCHANGED <<isConnected, registered, stale, isInChannel, inBuff, inBuff2>>

doJoin ==
    /\ pc = "main"
    /\ isInChannel' = TRUE
    /\ sendLine([cmd |-> "JOIN"])
    /\ seen' = seen \ {"away"}
    /\ UNCHANGED <<isConnected, registered, stale, myNick, userList, inBuff,
                   inBuff2, srv>>

\* /part with "*", with the channel's name, or with the name of another one:
\* strcmp lets the flag stand when the name is that of the current channel, and
\* clears it when it is not.  The list is emptied for each of them.
doPart(name) ==
    /\ pc = "main"
    /\ userList' = {}
    /\ isInChannel' = (name = "#" /\ isInChannel)
    /\ sendLine([cmd |-> IF name = "other" THEN "PART other" ELSE "PART"])
    /\ IF name = "other"
       THEN /\ srv.turns < MaxTurns /\ srv' = [srv EXCEPT !.turns = @ + 1]
            /\ seen' = seen \union {"part", "away", "emptied"}
       ELSE UNCHANGED srv /\ seen' = seen \union {"part"}
    /\ UNCHANGED <<isConnected, registered, stale, myNick, inBuff, inBuff2>>

\* /server: nothing is done about the connection there was.
connectToServer ==
    /\ pc = "main" /\ srv.number < MaxServers
    /\ isConnected' = TRUE /\ registered' = TRUE /\ isInChannel' = FALSE
    /\ stale' = IF registered THEN stale + 1 ELSE stale
    /\ srv' = [srv EXCEPT !.nick = NoNick, !.joined = FALSE, !.number = @ + 1]
    /\ up' = <<[cmd |-> "NICK", nick |-> myNick]>> /\ down' = <<>>
    /\ closed' = "no"
    /\ seen' = (IF userList # {} THEN seen \union {"part"} ELSE seen) \ {"emptied"}
    /\ UNCHANGED <<pc, myNick, userList, inBuff, inBuff2>>
-----------------------------------------------------------------------------
(* The server and the other people, who are outside the program.           *)

Members == srv.others \union (IF srv.joined THEN {srv.nick} ELSE {})

Tell(msg) == IF srv.joined THEN down \o Line(msg) ELSE down
Room == closed = "no" /\ Len(down) <= 3 * (MaxDown - 1)

serverNick(n) ==
    IF n \in srv.others
    THEN seen' = seen \union {"clash"} /\ UNCHANGED <<srv, down>>
    ELSE /\ srv' = [srv EXCEPT !.nick = n]
         /\ down' = IF srv.nick = NoNick \/ srv.nick = n THEN down
                    ELSE down \o Line([cmd |-> "NICK", nick |-> srv.nick, new |-> n])
         /\ UNCHANGED seen

serverJoin ==
    /\ IF srv.nick = NoNick \/ srv.joined THEN UNCHANGED <<srv, down>>
       ELSE LET names == srv.others \union {srv.nick}
            IN  /\ srv' = [srv EXCEPT !.joined = TRUE]
                /\ down' = down \o Line([cmd |-> "JOIN", nick |-> srv.nick])
                                \o Line([cmd |-> "NAMES", names |-> names,
                                         last |-> CHOOSE n \in names : TRUE])
    /\ UNCHANGED seen

serverPart ==
    /\ srv' = [srv EXCEPT !.joined = FALSE]
    /\ down' = Tell([cmd |-> "LEAVE", nick |-> srv.nick])
    /\ seen' = seen \ {"emptied"}

Serve ==
    /\ up # <<>> /\ Room
    /\ CASE Head(up).cmd = "NICK" -> serverNick(Head(up).nick)
         [] Head(up).cmd = "JOIN" -> serverJoin
         [] Head(up).cmd = "PART" -> serverPart
         [] Head(up).cmd = "PART other" -> UNCHANGED <<srv, down, seen>>
    /\ up' = Tail(up)
    /\ UNCHANGED <<client, closed>>

Says(msg) == /\ Room /\ srv.turns < MaxTurns
             /\ down' = Tell(msg)
             /\ UNCHANGED <<client, up, closed>>

\* Somebody takes the nick that the user has asked for.
Takes(n) == seen' = IF n = myNick THEN seen \union {"clash"} ELSE seen

OtherJoins == \E n \in Nicks \ (srv.others \union {srv.nick}) :
    /\ Says([cmd |-> "JOIN", nick |-> n])
    /\ srv' = [srv EXCEPT !.others = @ \union {n}, !.turns = @ + 1]
    /\ Takes(n)

OtherLeaves == \E n \in srv.others :
    /\ Says([cmd |-> "LEAVE", nick |-> n])
    /\ srv' = [srv EXCEPT !.others = @ \ {n}, !.turns = @ + 1]
    /\ UNCHANGED seen

OtherRenames == \E n \in srv.others : \E m \in Nicks \ (srv.others \union {srv.nick}) :
    /\ Says([cmd |-> "NICK", nick |-> n, new |-> m])
    /\ srv' = [srv EXCEPT !.others = (@ \ {n}) \union {m}, !.turns = @ + 1]
    /\ Takes(m)

\* The server ends the connection, which may be in the middle of a line.
Closes == /\ closed = "no" /\ isConnected
          /\ closed' = "closed"
          /\ \E k \in 0..Len(down) : down' = SubSeq(down, 1, k)
          /\ up' = <<>>
          /\ UNCHANGED <<client, srv, seen>>
-----------------------------------------------------------------------------
Init == /\ pc = "main" /\ isConnected = FALSE /\ registered = FALSE /\ stale = 0
        /\ isInChannel = FALSE /\ myNick = FirstNick /\ userList = {}
        /\ inBuff = <<>> /\ inBuff2 = <<>>
        /\ srv = [nick |-> NoNick, joined |-> FALSE, others |-> FirstOthers,
                  number |-> 0, turns |-> 0]
        /\ up = <<>> /\ down = <<>> /\ closed = "closed"
        /\ seen = {}

User == (\E n \in Nicks : Nick(n)) \/ doJoin \/ connectToServer
        \/ doPart("*") \/ doPart("#") \/ doPart("other")

Others == OtherJoins \/ OtherLeaves \/ OtherRenames

Dead == pc = "dead" /\ UNCHANGED vars

Next == User \/ readLine \/ readLineStale \/ readByte \/ Spins \/ Dead
        \/ Serve \/ Others \/ Closes

Spec == Init /\ [][Next]_vars

\* Xt serves the socket, and the server what it is sent.
FairSpec == Spec /\ WF_vars(readLine) /\ WF_vars(readByte) /\ WF_vars(Serve)
-----------------------------------------------------------------------------
TypeOK ==
    /\ pc \in {"main", "recv", "rest", "dead"}
    /\ {isConnected, registered, isInChannel} \subseteq BOOLEAN
    /\ stale \in 0..MaxServers
    /\ myNick \in Nicks
    /\ userList \subseteq Nicks \union (IF "split" \in seen THEN {Garbage} ELSE {})
    /\ Len(inBuff) <= MaxCommandLen /\ Len(inBuff2) <= MaxCommandLen
    /\ srv \in [nick : Nicks \union {NoNick}, joined : BOOLEAN,
                others : SUBSET Nicks, number : 0..MaxServers, turns : 0..MaxTurns]
    /\ closed \in {"no", "closed", "reset"}
    /\ seen \subseteq {"split", "clash", "part", "away", "emptied"}

\* Everything that was sent has arrived and was looked at.
Quiet == /\ pc = "main" /\ isConnected /\ closed = "no"
         /\ up = <<>> /\ down = <<>>

\* Every variable has its type, a line fits in its buffer, and however recv cuts
\* the stream, the main loop always stands between two lines.
Framed ==
    /\ TypeOK
    /\ pc \in {"main", "recv"} /\ down # <<>> => Head(down) \notin {CR, LF}

\* The window lists everybody else who is in the channel, unless the user and
\* somebody else were after one nick (the list takes the change for granted
\* before the server agrees), a CR and its LF came apart, or the user gave /part
\* the name of another channel, which empties the list of this one until the
\* server has us leave it.
OthersListed ==
    Quiet /\ srv.joined /\ seen \intersect {"clash", "split", "emptied"} = {} =>
        srv.others \subseteq userList

\* Before the first /part, it lists nobody who is not there.
NoStrangers ==
    Quiet /\ srv.joined /\ seen = {} => userList \subseteq Members

\* While the server has us in the channel, what is typed goes there, unless the
\* last of the user's joins and parts was a /part of another channel, which the
\* code takes for one of this.
TypedIntoChannel == Quiet /\ srv.joined /\ "away" \notin seen => isInChannel

\* What the window shows of the channel is what the server has, once everything
\* that was sent has arrived: the list of others is complete and has no
\* strangers, up to the cases that they name, and what is typed goes there.
ChannelShown == OthersListed /\ NoStrangers /\ TypedIntoChannel

\* The window answers again after a line that was cut, unless the server is gone,
\* or only its LF was left: then readLine waits for another line to come.
RestEnds == (pc = "rest") ~> (pc # "rest" \/ closed # "no" \/ "split" \in seen)
=============================================================================
