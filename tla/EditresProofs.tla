----------------------------- MODULE EditresProofs ---------------------------
(***************************************************************************)
(* The exchange of meditres with its clients, for any number of clients,   *)
(* commands, nested calls and versions of the protocol.                    *)
(*                                                                         *)
(* What makes the properties hold is that a command is answered at most    *)
(* once: its number is in one place, a message, the client's hands, the    *)
(* selection or a value on its way, or nowhere (Once); and what is in that *)
(* place was made in the version that the command was sent in (Carried).   *)
(***************************************************************************)
EXTENDS Editres, TLAPS

Widgets == {"set", "refresh", "tree"}
Commands == {"SendWidgetTree", "GetResources"}
Outcomes == {"waiting", "no window", "answered", "mismatch", "timed out", "cut short"}
SentType == [w : Widgets, cmd : Commands, to : Clients, level : Int, by : SUBSET Clients,
             owned : BOOLEAN]
CallType == [w : Widgets, cmd : Commands, picking : BOOLEAN]
MailType == [id : Nat, level : Int]
WorkType == [phase : {"idle", "asking", "ready"}, id : Nat, code : {"none", "Answer", "Mismatch"}]
ValueType == [id : Nat, code : {"none", "Answer", "Mismatch"}]
FetchType == [w : Widgets, from : Clients, asked : BOOLEAN, value : ValueType]

TypeInv ==
    /\ window \in Clients \union {None} /\ calls \in Seq(CallType)
    /\ ident \in Nat /\ command \in Commands /\ version \in Int /\ reset \in BOOLEAN
    /\ mine \in BOOLEAN /\ widget \in Widgets /\ clear \in BOOLEAN
    /\ owner \in Clients \union {None, "meditres"}
    /\ fetches \in Seq(FetchType)
    /\ mail \in [Clients -> Seq(MailType)] /\ doing \in [Clients -> WorkType]
    /\ held \in [Clients -> ValueType] /\ alive \in [Clients -> BOOLEAN]
    /\ sent \in Seq(SentType) /\ told \in Seq(Outcomes) /\ Len(told) = Len(sent)
    /\ by \subseteq Clients
    /\ timers \subseteq 1..Len(sent)

\* The timer that can be stopped is that of the widget that has the selection,
\* if it was got for the command, and of the command in force if that has one.
Timed ==
    /\ TimersTrue
    /\ timeout \in 0..Len(sent)
    /\ timeout # 0 /\ sent[timeout].owned => mine /\ widget = sent[timeout].w
    /\ ident \in timers => timeout = ident

InForce ==
    /\ ident \in {0, Len(sent)}
    /\ ident > 0 => /\ command = sent[ident].cmd
                    /\ told[ident] \notin {"timed out", "cut short"}
                    /\ told[ident] = "waiting" => version = sent[ident].level

OldEnough(c, level) == Speaks[c] <= CURRENT_PROTOCOL_VERSION => level >= Speaks[c]

Descends ==
    /\ \A c \in Clients : by \subseteq {c} => OldEnough(c, version)
    /\ \A k \in 1..Len(sent) :
          sent[k].by \subseteq {sent[k].to} => OldEnough(sent[k].to, sent[k].level)

\* Of the commands s, c was sent the command id, and v is an answer of c.
IsSent(s, c, id) == id \in 1..Len(s) /\ s[id].to = c
Answers(s, c, v) ==
    /\ IsSent(s, c, v.id)
    /\ v.code = "Answer" => s[v.id].level = Speaks[c]
    /\ v.code = "Mismatch" => s[v.id].level # Speaks[c]

Carried ==
    /\ \A c \in Clients : \A n \in 1..Len(mail[c]) :
          IsSent(sent, c, mail[c][n].id) /\ mail[c][n].level = sent[mail[c][n].id].level
    /\ \A c \in Clients :
          /\ doing[c].phase = "asking" =>
                IsSent(sent, c, doing[c].id) /\ sent[doing[c].id].level = Speaks[c]
          /\ doing[c].phase = "ready" => Answers(sent, c, doing[c])
    /\ \A c \in Clients : owner = c => Answers(sent, c, held[c])
    /\ \A n \in 1..Len(fetches) :
          /\ Answers(sent, fetches[n].from, fetches[n].value)
          /\ fetches[n].value.id = ident => ident \notin timers

\* The command id has not been answered; its answer lies in the selection and
\* meditres has yet to lose it; the answer is on its way.
Coming(c, id) == \/ \E n \in 1..Len(mail[c]) : mail[c][n].id = id
                 \/ doing[c].phase # "idle" /\ doing[c].id = id
Lying(id) == (clear \/ mine) /\ \E c \in Clients : owner = c /\ held[c].id = id
Brought(id) == \E n \in 1..Len(fetches) : fetches[n].value.id = id

\* A command is nowhere twice.
Apart ==
    /\ \A c \in Clients : \A n \in 1..Len(mail[c]) :
          /\ \A m \in 1..Len(mail[c]) : n # m => mail[c][n].id # mail[c][m].id
          /\ doing[c].phase # "idle" => mail[c][n].id # doing[c].id
    /\ \A n, m \in 1..Len(fetches) : n # m => fetches[n].value.id # fetches[m].value.id

Closed == {"answered", "mismatch", "no window"}

Once ==
    \A id \in 1..Len(sent) :
       /\ Brought(id) => ~Lying(id)
       /\ told[id] \in Closed => ~Brought(id) /\ ~Lying(id)
       /\ \A c \in Clients : Coming(c, id) =>
             ~Brought(id) /\ ~Lying(id) /\ told[id] \notin Closed

\* A client has just put the answer to id into the selection.
Fresh(id) ==
    /\ id \in 1..Len(sent) /\ ~Brought(id) /\ told[id] \notin Closed
    /\ \A d \in Clients : /\ \A n \in 1..Len(mail[d]) : mail[d][n].id # id
                          /\ doing'[d].phase # "idle" => doing'[d].id # id

IInv == TypeInv /\ Timed /\ InForce /\ Descends /\ Carried /\ Apart /\ Once
-----------------------------------------------------------------------------
(* Facts that the steps share. *)

LEMMA Stays ==
    ASSUME IInv, window' \in Clients \union {None}, calls' \in Seq(CallType),
           UNCHANGED <<ident, command, version, reset, timeout, timers, tree>>,
           UNCHANGED <<selection, clients, history>>
    PROVE  IInv'
<1>1. UNCHANGED <<mine, widget, owner, clear, fetches, alive, mail, doing, held, sent, told, by>>
  BY DEF selection, clients, history
<1>2. TypeInv'
  BY <1>1 DEF IInv, TypeInv
<1>3. Timed' /\ InForce' /\ Descends'
  BY <1>1 DEF IInv, Timed, TimersTrue, InForce, Descends, OldEnough
<1>4. Carried'
  <2>1. UNCHANGED <<mail, doing, held, owner, fetches, sent, ident, timers>>
    BY <1>1
  <2> QED  BY <2>1 DEF IInv, Carried
<1>5. Apart' /\ Once'
  <2>1. UNCHANGED <<mail, doing, held, mine, owner, clear, fetches, sent, told>>
    BY <1>1
  <2>2. \A id : /\ Lying(id)' <=> Lying(id)
                /\ Brought(id)' <=> Brought(id)
                /\ \A c : Coming(c, id)' <=> Coming(c, id)
    BY <2>1 DEF Coming, Lying, Brought
  <2>3. Apart'
    BY <2>1 DEF IInv, Apart
  <2>4. Once'
    BY <2>1, <2>2 DEF IInv, Once
  <2> QED  BY <2>3, <2>4
<1> QED  BY <1>2, <1>3, <1>4, <1>5 DEF IInv

\* The menu and the calls of SetCommand that ask for a client first.
LEMMA CallsKeep ==
    ASSUME IInv, \/ PickByKey \/ Escape \/ SetClient \/ Refresh \/ GetResourceList
                 \/ Enter /\ window = None
    PROVE  IInv'
<1>t. calls \in Seq(CallType) /\ window \in Clients \union {None}
  BY DEF IInv, TypeInv
<1>1. CASE PickByKey
  BY <1>1, <1>t, Stays DEF PickByKey
<1>2. CASE Escape
  BY <1>2, <1>t, Stays DEF Escape
<1>3. ASSUME NEW list \in Seq(CallType), Menu(list), window' \in {window, None}
      PROVE  IInv'
  BY <1>3, <1>t, Stays DEF Menu
<1>4. CASE SetClient \/ Refresh
  <2>1. /\ <<Call("set", "SendWidgetTree")>> \in Seq(CallType)
        /\ <<Call("refresh", "SendWidgetTree")>> \in Seq(CallType)
    BY DEF Call, CallType, Widgets, Commands
  <2> QED  BY <1>3, <1>4, <2>1 DEF SetClient, Refresh
<1>5. CASE GetResourceList
  <2>1. PICK n \in 1..MaxLoop : Menu([i \in 1..n |-> Call("tree", "GetResources")])
    BY <1>5 DEF GetResourceList
  <2>2. Call("tree", "GetResources") \in CallType /\ n \in Nat
    BY BoundAssumption DEF Call, CallType, Widgets, Commands
  <2>3. [i \in 1..n |-> Call("tree", "GetResources")] \in Seq(CallType)
    BY <2>2
  <2> QED  BY <1>3, <1>5, <2>1, <2>3 DEF GetResourceList
<1>6. CASE Enter /\ window = None
  <2>1. calls' = <<[Head(calls) EXCEPT !.picking = TRUE]>> \o Tail(calls) /\ calls # <<>>
    BY <1>6 DEF Enter
  <2>2. Head(calls) \in CallType /\ Tail(calls) \in Seq(CallType)
    BY <1>t, <2>1
  <2>3. [Head(calls) EXCEPT !.picking = TRUE] \in CallType
    BY <2>2 DEF CallType
  <2>4. calls' \in Seq(CallType)
    BY <2>1, <2>2, <2>3
  <2> QED  BY <1>6, <1>t, <2>4, Stays DEF Enter
<1> QED  BY <1>1, <1>2, <1>4, <1>5, <1>6

\* The timer of a command is stopped when meditres takes or gives up the selection.
LEMMA StoppedTimers ==
    ASSUME Timed, timers' = timers \ {timeout}, timeout' = 0, UNCHANGED <<ident, told, sent>>,
           Len(sent) \in Nat
    PROVE  Timed'
BY DEF Timed, TimersTrue

LEMMA OnceKeeps ==
    ASSUME Once, Len(sent') = Len(sent),
           \A id \in 1..Len(sent) :
              /\ Brought(id)' => Brought(id)
              /\ Lying(id)' => Lying(id)
              /\ \A c \in Clients : Coming(c, id)' => Coming(c, id)
              /\ told'[id] \in Closed => told[id] \in Closed
    PROVE  Once'
BY DEF Once

\* What a client does leaves meditres alone.
LEMMA ClientKeeps ==
    ASSUME TypeInv, Timed, InForce, Descends, UNCHANGED <<global, mine, widget, sent, told, by>>
    PROVE  Timed' /\ InForce' /\ Descends'
<1>1. UNCHANGED <<ident, command, version, timeout, timers, mine, widget, sent, told, by>>
  BY DEF global
<1>2. Timed'
  BY <1>1 DEF Timed, TimersTrue
<1>3. InForce'
  BY <1>1 DEF InForce
<1>4. Descends'
  BY <1>1 DEF Descends, OldEnough
<1> QED  BY <1>2, <1>3, <1>4
-----------------------------------------------------------------------------
(* The clients. *)

LEMMA ReadKeeps ==
    ASSUME IInv, NEW c \in Clients, Read(c)
    PROVE  IInv'
<1> DEFINE m == mail[c]
           w == IF m[1].level = Speaks[c]
                THEN [phase |-> "asking", id |-> m[1].id, code |-> "none"]
                ELSE [phase |-> "ready", id |-> m[1].id, code |-> "Mismatch"]
<1>t. /\ mail \in [Clients -> Seq(MailType)] /\ doing \in [Clients -> WorkType]
      /\ m \in Seq(MailType)
  BY DEF IInv, TypeInv
<1>1. /\ doing[c] = Idle /\ m # <<>> /\ mail' = [mail EXCEPT ![c] = Tail(m)]
      /\ UNCHANGED <<global, selection, alive, held, history>>
  BY DEF Read
<1>2. doing' = [doing EXCEPT ![c] = w]
  <2>1. Head(m) = m[1]
    BY <1>t, <1>1
  <2> QED  BY <2>1 DEF Read
<1>3. UNCHANGED <<global, mine, widget, owner, clear, fetches, alive, held, sent, told, by>>
  BY <1>1 DEF selection, history
<1>4. m[1] \in MailType /\ 1 \in 1..Len(m) /\ Tail(m) \in Seq(MailType) /\ Len(Tail(m)) = Len(m) - 1
      /\ \A n \in 1..Len(Tail(m)) : Tail(m)[n] = m[n + 1] /\ n + 1 \in 1..Len(m) /\ n + 1 # 1
  BY <1>t, <1>1
<1>5. w \in WorkType /\ w.id = m[1].id /\ w.phase \in {"asking", "ready"}
  BY <1>4 DEF WorkType, MailType
<1>6. /\ mail'[c] = Tail(m) /\ doing'[c] = w
      /\ \A d \in Clients \ {c} : mail'[d] = mail[d] /\ doing'[d] = doing[d]
      /\ mail' \in [Clients -> Seq(MailType)] /\ doing' \in [Clients -> WorkType]
  BY <1>t, <1>1, <1>2, <1>4, <1>5
<1>7. TypeInv'
  BY <1>3, <1>6 DEF IInv, TypeInv, global
<1>8. IsSent(sent, c, m[1].id) /\ m[1].level = sent[m[1].id].level
  BY <1>4 DEF IInv, Carried
<1>9. Carried'
  <2>1. \A d \in Clients : \A n \in 1..Len(mail'[d]) :
          IsSent(sent, d, mail'[d][n].id) /\ mail'[d][n].level = sent[mail'[d][n].id].level
    <3> TAKE d \in Clients
    <3> TAKE n \in 1..Len(mail'[d])
    <3>1. CASE d = c
      <4>1. n + 1 \in 1..Len(mail[c]) /\ mail'[d][n] = mail[c][n + 1]
        BY <1>4, <1>6, <3>1
      <4> QED  BY <3>1, <4>1 DEF IInv, Carried
    <3>2. CASE d # c
      BY <1>6, <3>2 DEF IInv, Carried
    <3> QED  BY <3>1, <3>2
  <2>2. \A d \in Clients :
          /\ doing'[d].phase = "asking" =>
                IsSent(sent, d, doing'[d].id) /\ sent[doing'[d].id].level = Speaks[d]
          /\ doing'[d].phase = "ready" => Answers(sent, d, doing'[d])
    <3> TAKE d \in Clients
    <3>1. CASE d = c
      BY <1>6, <1>8, <3>1 DEF Answers
    <3>2. CASE d # c
      BY <1>6, <3>2 DEF IInv, Carried
    <3> QED  BY <3>1, <3>2
  <2> QED  BY <1>3, <2>1, <2>2 DEF IInv, Carried, global
<1> HIDE DEF w, m
<1>10. Apart'
  <2>1. ASSUME NEW d \in Clients, NEW n \in 1..Len(mail'[d])
        PROVE  /\ \A k \in 1..Len(mail'[d]) : n # k => mail'[d][n].id # mail'[d][k].id
               /\ doing'[d].phase # "idle" => mail'[d][n].id # doing'[d].id
    <3>1. CASE d = c
      <4>1. \A i, j \in 1..Len(m) : i # j => m[i].id # m[j].id
        BY DEF IInv, Apart, m
      <4>2. n + 1 \in 1..Len(m) /\ n + 1 # 1 /\ mail'[d][n] = m[n + 1]
        BY <1>4, <1>6, <2>1, <3>1
      <4>3. \A k \in 1..Len(mail'[d]) : n # k =>
               k + 1 \in 1..Len(m) /\ k + 1 # n + 1 /\ mail'[d][k] = m[k + 1]
        <5> SUFFICES ASSUME NEW k \in 1..Len(mail'[d]), n # k
                     PROVE  k + 1 \in 1..Len(m) /\ k + 1 # n + 1 /\ mail'[d][k] = m[k + 1]
          OBVIOUS
        <5>1. mail'[d] = Tail(m) /\ n \in Int /\ k \in Int
          BY <1>6, <2>1, <3>1
        <5>2. k + 1 \in 1..Len(m) /\ mail'[d][k] = m[k + 1]
          BY <1>4, <5>1
        <5> QED  BY <5>1, <5>2
      <4> QED  BY <1>4, <1>5, <1>6, <3>1, <4>1, <4>2, <4>3
    <3>2. CASE d # c
      BY <1>6, <2>1, <3>2 DEF IInv, Apart
    <3> QED  BY <3>1, <3>2
  <2> QED  BY <1>3, <2>1 DEF IInv, Apart
<1>11. \A d \in Clients : \A id : Coming(d, id)' => Coming(d, id)
  <2> SUFFICES ASSUME NEW d \in Clients, NEW id, Coming(d, id)'  PROVE Coming(d, id)
    OBVIOUS
  <2>1. CASE d = c
    <3>1. doing'[c].id = id => m[1].id = id
      BY <1>5, <1>6
    <3>2. \A n \in 1..Len(mail'[c]) : mail'[c][n].id = id => m[n + 1].id = id /\ n + 1 \in 1..Len(m)
      BY <1>4, <1>6
    <3> QED  BY <1>4, <2>1, <3>1, <3>2 DEF Coming, m
  <2>2. CASE d # c
    BY <1>6, <2>2 DEF Coming
  <2> QED  BY <2>1, <2>2
<1>12. Once'
  BY <1>3, <1>11, OnceKeeps DEF IInv, Lying, Brought
<1>13. Timed' /\ InForce' /\ Descends'
  BY <1>3, ClientKeeps DEF IInv
<1> QED  BY <1>7, <1>9, <1>10, <1>12, <1>13 DEF IInv

LEMMA WorkKeeps ==
    ASSUME IInv, NEW c \in Clients, ConvertCommand(c) \/ Refused(c)
    PROVE  IInv'
<1>t. /\ mail \in [Clients -> Seq(MailType)] /\ doing \in [Clients -> WorkType]
  BY DEF IInv, TypeInv
<1>1. PICK w \in WorkType : /\ doing' = [doing EXCEPT ![c] = w]
                            /\ \/ w.phase = "idle"
                               \/ w.phase = "ready" /\ w.id = doing[c].id /\ w.code = "Answer"
  <2>1. Idle \in WorkType /\ Idle.phase = "idle"
    BY DEF Idle, WorkType
  <2>2. [phase |-> "ready", id |-> doing[c].id, code |-> "Answer"] \in WorkType
    BY <1>t DEF WorkType
  <2> QED  BY <2>1, <2>2 DEF ConvertCommand, Refused
<1>2. doing[c].phase = "asking" /\ UNCHANGED <<global, selection, alive, mail, held, history>>
  BY DEF ConvertCommand, Refused
<1>3. UNCHANGED <<global, mine, widget, owner, clear, fetches, alive, mail, held, sent, told, by>>
  BY <1>2 DEF selection, history
<1>4. /\ doing'[c] = w /\ doing' \in [Clients -> WorkType]
      /\ \A d \in Clients \ {c} : doing'[d] = doing[d]
  BY <1>t, <1>1
<1>5. TypeInv'
  BY <1>3, <1>4 DEF IInv, TypeInv, global
<1>6. Carried'
  <2>1. IsSent(sent, c, doing[c].id) /\ sent[doing[c].id].level = Speaks[c]
    BY <1>2 DEF IInv, Carried
  <2>2. \A d \in Clients :
          /\ doing'[d].phase = "asking" =>
                IsSent(sent, d, doing'[d].id) /\ sent[doing'[d].id].level = Speaks[d]
          /\ doing'[d].phase = "ready" => Answers(sent, d, doing'[d])
    <3> TAKE d \in Clients
    <3>1. CASE d = c
      BY <1>1, <1>4, <2>1, <3>1 DEF Answers
    <3>2. CASE d # c
      BY <1>4, <3>2 DEF IInv, Carried
    <3> QED  BY <3>1, <3>2
  <2> QED  BY <1>3, <2>2 DEF IInv, Carried, global
<1>7. Apart'
  BY <1>1, <1>2, <1>3, <1>4 DEF IInv, Apart
<1>8. \A d \in Clients : \A id : Coming(d, id)' => Coming(d, id)
  BY <1>1, <1>2, <1>3, <1>4 DEF Coming
<1>9. Once'
  BY <1>3, <1>8, OnceKeeps DEF IInv, Lying, Brought
<1>10. Timed' /\ InForce' /\ Descends'
  BY <1>3, ClientKeeps DEF IInv
<1> QED  BY <1>5, <1>6, <1>7, <1>9, <1>10 DEF IInv

\* A client that takes the selection: its answer was in its hands alone.
LEMMA TakenKeeps ==
    ASSUME IInv, NEW c \in Clients, Taken(c)
    PROVE  /\ owner' = c /\ held' \in [Clients -> ValueType] /\ doing' \in [Clients -> WorkType]
           /\ \A d \in Clients : doing'[d].phase # "idle" => doing'[d] = doing[d]
           /\ \A d \in Clients : owner' = d => Fresh(held'[d].id) /\ Answers(sent, d, held'[d])
<1> DEFINE v == [id |-> doing[c].id, code |-> doing[c].code]
<1>t. /\ doing \in [Clients -> WorkType] /\ held \in [Clients -> ValueType]
      /\ Nothing \in ValueType
  BY DEF IInv, TypeInv, Nothing, ValueType
<1>i. PICK i \in Nat : i = doing[c].id
  BY <1>t DEF WorkType
<1>1. /\ doing[c].phase = "ready" /\ owner' = c
      /\ held' = [[d \in Clients |-> Nothing] EXCEPT ![c] = v]
      /\ doing' = [doing EXCEPT ![c] = Idle]
  BY DEF Taken
<1>2. v \in ValueType /\ v.id = i /\ Idle \in WorkType /\ Idle.phase = "idle"
  BY <1>t, <1>i DEF WorkType, ValueType, Idle
<1>3. /\ held'[c] = v /\ held' \in [Clients -> ValueType]
      /\ doing'[c] = Idle /\ doing' \in [Clients -> WorkType]
      /\ \A d \in Clients \ {c} : doing'[d] = doing[d]
  BY <1>t, <1>1, <1>2
<1>4. \A d \in Clients : doing'[d].phase # "idle" => doing'[d] = doing[d]
  BY <1>2, <1>3
<1>5. Answers(sent, c, v)
  BY <1>1 DEF IInv, Carried, Answers
<1> HIDE DEF v
<1>6. Coming(c, i) /\ i \in 1..Len(sent)
  BY <1>1, <1>2, <1>5, <1>i DEF Coming, Answers, IsSent
<1>7. ~Brought(i) /\ told[i] \notin Closed
  BY <1>6 DEF IInv, Once
<1>8. ASSUME NEW d \in Clients, Coming(d, i)  PROVE d = c
  <2>1. IsSent(sent, d, i)
    BY <1>8 DEF IInv, Carried, Coming, Answers, TypeInv, WorkType
  <2> QED  BY <1>2, <1>5, <2>1 DEF Answers, IsSent
<1>9. ASSUME NEW d \in Clients
      PROVE  /\ \A n \in 1..Len(mail[d]) : mail[d][n].id # i
             /\ doing'[d].phase # "idle" => doing'[d].id # i
  <2>1. CASE d = c
    BY <1>1, <1>2, <1>3, <1>i, <2>1 DEF IInv, Apart
  <2>2. CASE d # c
    BY <1>3, <1>8, <2>2 DEF Coming
  <2> QED  BY <2>1, <2>2
<1>10. Fresh(i)
  BY <1>6, <1>7, <1>9 DEF Fresh
<1> QED  BY <1>1, <1>2, <1>3, <1>4, <1>5, <1>10

LEMMA HandoverOnce ==
    ASSUME Once, UNCHANGED <<sent, told, mail>>,
           \A id : Brought(id)' => Brought(id),
           \A d \in Clients : doing'[d].phase # "idle" => doing'[d] = doing[d],
           \A id : Lying(id)' => Lying(id) \/ Fresh(id)
    PROVE  Once'
<1>1. \A d \in Clients : \A id : Coming(d, id)' => Coming(d, id)
  BY DEF Coming
<1>2. \A id : Fresh(id) => ~Brought(id) /\ told[id] \notin Closed /\ \A d \in Clients : ~Coming(d, id)'
  BY DEF Fresh, Coming
<1> QED  BY <1>1, <1>2 DEF Once

\* XtOwnSelection leaves what lay in the selection, nothing, or the answer of
\* the client who came before.
LEMMA OwnSelectionKeeps ==
    ASSUME IInv, NEW w \in Widgets, OwnSelection(w)
    PROVE  /\ mine' \in BOOLEAN /\ widget' \in Widgets /\ clear' \in BOOLEAN
           /\ owner' \in Clients \union {None, "meditres"}
           /\ held' \in [Clients -> ValueType] /\ doing' \in [Clients -> WorkType]
           /\ \A d \in Clients : doing'[d].phase # "idle" => doing'[d] = doing[d]
           /\ \A d \in Clients : owner' = d => Answers(sent, d, held'[d])
           /\ \A id : Lying(id)' => Lying(id) \/ Fresh(id)
           /\ (mine' /\ widget' = w) \/ UNCHANGED <<mine, widget>>
<1>t. /\ mine \in BOOLEAN /\ widget \in Widgets /\ clear \in BOOLEAN
      /\ owner \in Clients \union {None, "meditres"}
      /\ held \in [Clients -> ValueType] /\ doing \in [Clients -> WorkType]
      /\ Nothing \in ValueType
  BY DEF IInv, TypeInv, Nothing, ValueType
<1>1. CASE Owned(w) /\ mine /\ widget = w
  <2>1. UNCHANGED <<mine, widget, owner, clear, held, doing>> /\ mine' /\ widget' = w
    BY <1>t, <1>1 DEF Owned
  <2>2. \A id : Lying(id)' => Lying(id)
    BY <2>1 DEF Lying
  <2> QED  BY <1>t, <2>1, <2>2 DEF IInv, Carried
<1>2. CASE Owned(w) /\ ~(mine /\ widget = w)
  <2>1. owner' = "meditres" /\ clear' = FALSE /\ held' = [c \in Clients |-> Nothing]
        /\ mine' = TRUE /\ widget' = w /\ doing' = doing
    BY <1>2 DEF Owned
  <2>2. \A d \in Clients : owner' # d
    BY <2>1, ClientAssumption
  <2>3. \A id : ~Lying(id)'
    BY <2>2 DEF Lying
  <2> QED  BY <1>t, <2>1, <2>2, <2>3
<1>3. CASE Forestalled(w)
  <2>1. PICK c \in Clients : Taken(c)
    BY <1>3 DEF Forestalled
  <2>2. UNCHANGED <<mine, widget, clear>>
    BY <1>3 DEF Forestalled
  <2>3. /\ owner' = c /\ held' \in [Clients -> ValueType] /\ doing' \in [Clients -> WorkType]
        /\ \A d \in Clients : doing'[d].phase # "idle" => doing'[d] = doing[d]
        /\ \A d \in Clients : owner' = d => Fresh(held'[d].id) /\ Answers(sent, d, held'[d])
    BY <2>1, TakenKeeps
  <2>4. \A id : Lying(id)' => Fresh(id)
    BY <2>3 DEF Lying
  <2> QED  BY <1>t, <2>2, <2>3, <2>4
<1> QED  BY <1>1, <1>2, <1>3 DEF OwnSelection

LEMMA AnswerKeeps ==
    ASSUME IInv, NEW c \in Clients, Answer(c)
    PROVE  IInv'
<1>1. /\ Taken(c) /\ clear' = (clear \/ owner = "meditres")
      /\ UNCHANGED <<global, mine, widget, fetches, alive, mail, sent, told, by>>
  BY DEF Answer
<1>2. /\ owner' = c /\ held' \in [Clients -> ValueType] /\ doing' \in [Clients -> WorkType]
      /\ \A d \in Clients : doing'[d].phase # "idle" => doing'[d] = doing[d]
      /\ \A d \in Clients : owner' = d => Fresh(held'[d].id) /\ Answers(sent, d, held'[d])
  BY <1>1, TakenKeeps
<1>3. TypeInv'
  BY <1>1, <1>2 DEF IInv, TypeInv, global
<1>4. Carried'
  <2>1. \A d \in Clients :
          /\ doing'[d].phase = "asking" =>
                IsSent(sent, d, doing'[d].id) /\ sent[doing'[d].id].level = Speaks[d]
          /\ doing'[d].phase = "ready" => Answers(sent, d, doing'[d])
    BY <1>2 DEF IInv, Carried
  <2> QED  BY <1>1, <1>2, <2>1 DEF IInv, Carried, global
<1>5. Apart'
  BY <1>1, <1>2 DEF IInv, Apart
<1>6. Once'
  <2>1. \A id : Brought(id)' => Brought(id)
    BY <1>1 DEF Brought
  <2>2. \A id : Lying(id)' => Fresh(id)
    BY <1>2 DEF Lying
  <2> QED  BY <1>1, <1>2, <2>1, <2>2, HandoverOnce DEF IInv
<1>7. Timed' /\ InForce' /\ Descends'
  BY <1>1, ClientKeeps DEF IInv
<1> QED  BY <1>3, <1>4, <1>5, <1>6, <1>7 DEF IInv

LEMMA DiesKeeps ==
    ASSUME IInv, NEW c \in Clients, Dies(c)
    PROVE  IInv'
<1>t. /\ mail \in [Clients -> Seq(MailType)] /\ doing \in [Clients -> WorkType]
      /\ held \in [Clients -> ValueType] /\ alive \in [Clients -> BOOLEAN]
      /\ Nothing \in ValueType /\ Idle \in WorkType /\ Idle.phase = "idle"
      /\ <<>> \in Seq(MailType) /\ Len(<<>>) = 0
  BY DEF IInv, TypeInv, Nothing, ValueType, Idle, WorkType
<1>1. /\ alive' = [alive EXCEPT ![c] = FALSE] /\ mail' = [mail EXCEPT ![c] = <<>>]
      /\ doing' = [doing EXCEPT ![c] = Idle] /\ held' = [held EXCEPT ![c] = Nothing]
      /\ owner' = (IF owner = c THEN None ELSE owner)
      /\ UNCHANGED <<global, mine, widget, clear, fetches, sent, told, by>>
  BY DEF Dies
<1>2. /\ Len(mail'[c]) = 0 /\ doing'[c].phase = "idle"
      /\ mail' \in [Clients -> Seq(MailType)] /\ doing' \in [Clients -> WorkType]
      /\ held' \in [Clients -> ValueType] /\ alive' \in [Clients -> BOOLEAN]
      /\ \A d \in Clients \ {c} : mail'[d] = mail[d] /\ doing'[d] = doing[d] /\ held'[d] = held[d]
      /\ \A d \in Clients : owner' = d => owner = d /\ d # c
  BY <1>t, <1>1, ClientAssumption
<1>3. TypeInv'
  BY <1>1, <1>2 DEF IInv, TypeInv, global
<1>4. Carried'
  <2>1. \A d \in Clients : \A n \in 1..Len(mail'[d]) : mail'[d] = mail[d]
    BY <1>2
  <2>2. \A d \in Clients : doing'[d].phase # "idle" => doing'[d] = doing[d]
    BY <1>2
  <2>3. \A d \in Clients : owner' = d => owner = d /\ held'[d] = held[d]
    BY <1>2
  <2> QED  BY <1>1, <2>1, <2>2, <2>3 DEF IInv, Carried, global
<1>5. Apart'
  <2>1. ASSUME NEW d \in Clients, NEW n \in 1..Len(mail'[d])
        PROVE  /\ \A m \in 1..Len(mail'[d]) : n # m => mail'[d][n].id # mail'[d][m].id
               /\ doing'[d].phase # "idle" => mail'[d][n].id # doing'[d].id
    <3>1. d # c
      BY <1>2, <2>1
    <3>2. mail'[d] = mail[d] /\ doing'[d] = doing[d]
      BY <1>2, <3>1
    <3> QED  BY <2>1, <3>2 DEF IInv, Apart
  <2>2. fetches' = fetches
    BY <1>1
  <2>3. \A n, m \in 1..Len(fetches) : n # m => fetches[n].value.id # fetches[m].value.id
    BY DEF IInv, Apart
  <2> QED  BY <2>1, <2>2, <2>3 DEF Apart
<1>6. ASSUME NEW d \in Clients, NEW id, Coming(d, id)'  PROVE Coming(d, id)
  <2>1. d # c
    BY <1>2, <1>6 DEF Coming
  <2>2. mail'[d] = mail[d] /\ doing'[d] = doing[d]
    BY <1>2, <2>1
  <2> QED  BY <1>6, <2>2 DEF Coming
<1>7. \A id : Lying(id)' => Lying(id)
  BY <1>1, <1>2 DEF Lying
<1>8. Once'
  BY <1>1, <1>6, <1>7, OnceKeeps DEF IInv, Brought
<1>9. Timed' /\ InForce' /\ Descends'
  BY <1>1, ClientKeeps DEF IInv
<1> QED  BY <1>3, <1>4, <1>5, <1>8, <1>9 DEF IInv
-----------------------------------------------------------------------------
(* The values on their way. *)

\* Nothing becomes of them but what they were: they only get fewer.
LEMMA FetchesShrink ==
    ASSUME IInv, NEW h,
           \A k \in 1..Len(fetches') :
              /\ h[k] \in 1..Len(fetches)
              /\ fetches'[k].from = fetches[h[k]].from
              /\ fetches'[k].value = fetches[h[k]].value,
           \A j, k \in 1..Len(fetches') : j # k => h[j] # h[k]
    PROVE  /\ \A j, k \in 1..Len(fetches') : j # k => fetches'[j].value.id # fetches'[k].value.id
           /\ \A id : Brought(id)' => Brought(id)
           /\ \A k \in 1..Len(fetches') :
                 /\ Answers(sent, fetches'[k].from, fetches'[k].value)
                 /\ fetches'[k].value.id = ident => ident \notin timers
<1>1. ASSUME NEW j \in 1..Len(fetches'), NEW k \in 1..Len(fetches'), j # k
      PROVE  fetches'[j].value.id # fetches'[k].value.id
  <2>1. \A n, m \in 1..Len(fetches) : n # m => fetches[n].value.id # fetches[m].value.id
    BY DEF IInv, Apart
  <2>2. h[j] # h[k] /\ h[j] \in 1..Len(fetches) /\ h[k] \in 1..Len(fetches)
    BY <1>1
  <2> QED  BY <1>1, <2>1, <2>2
<1>2. \A id : Brought(id)' => Brought(id)
  BY DEF Brought
<1>3. \A k \in 1..Len(fetches') :
                 /\ Answers(sent, fetches'[k].from, fetches'[k].value)
                 /\ fetches'[k].value.id = ident => ident \notin timers
  BY DEF IInv, Carried
<1> QED  BY <1>1, <1>2, <1>3

\* The first one is taken.
LEMMA FirstTaken ==
    ASSUME IInv, fetches # <<>>, fetches' = Tail(fetches)
    PROVE  /\ Head(fetches) \in FetchType /\ Head(fetches) = fetches[1] /\ 1 \in 1..Len(fetches)
           /\ fetches' \in Seq(FetchType)
           /\ \A k \in 1..Len(fetches') : fetches'[k].value.id # Head(fetches).value.id
           /\ \A j, k \in 1..Len(fetches') : j # k => fetches'[j].value.id # fetches'[k].value.id
           /\ \A id : Brought(id)' => Brought(id)
           /\ \A k \in 1..Len(fetches') :
                 /\ Answers(sent, fetches'[k].from, fetches'[k].value)
                 /\ fetches'[k].value.id = ident => ident \notin timers
<1> DEFINE h == [k \in 1..Len(fetches') |-> k + 1]
<1>1. fetches \in Seq(FetchType)
  BY DEF IInv, TypeInv
<1>2. /\ Head(fetches) \in FetchType /\ Head(fetches) = fetches[1] /\ 1 \in 1..Len(fetches)
      /\ fetches' \in Seq(FetchType) /\ Len(fetches') = Len(fetches) - 1
      /\ \A k \in 1..Len(fetches') : fetches'[k] = fetches[k + 1] /\ k + 1 \in 1..Len(fetches) /\ k + 1 # 1
  BY <1>1
<1>3. \A k \in 1..Len(fetches') : h[k] = k + 1
  OBVIOUS
<1> HIDE DEF h
<1>4. \A k \in 1..Len(fetches') : /\ h[k] \in 1..Len(fetches)
                                  /\ fetches'[k].from = fetches[h[k]].from
                                  /\ fetches'[k].value = fetches[h[k]].value
  BY <1>2, <1>3
<1>5. \A j, k \in 1..Len(fetches') : j # k => h[j] # h[k]
  BY <1>3
<1>6. \A k \in 1..Len(fetches') : fetches'[k].value.id # Head(fetches).value.id
  BY <1>2 DEF IInv, Apart
<1>7. /\ \A j, k \in 1..Len(fetches') : j # k => fetches'[j].value.id # fetches'[k].value.id
      /\ \A id : Brought(id)' => Brought(id)
      /\ \A k \in 1..Len(fetches') :
            /\ Answers(sent, fetches'[k].from, fetches'[k].value)
            /\ fetches'[k].value.id = ident => ident \notin timers
  BY <1>4, <1>5, FetchesShrink
<1> QED  BY <1>2, <1>6, <1>7

\* Two sequences one after the other, of any set: what is left of the values
\* on their way when one of them has come (Served).
LEMMA Joined ==
    ASSUME NEW S, NEW s \in Seq(S), NEW t \in Seq(S)
    PROVE  /\ s \o t \in Seq(S) /\ Len(s \o t) = Len(s) + Len(t)
           /\ \A k \in 1..Len(s \o t) : (s \o t)[k] = IF k <= Len(s) THEN s[k] ELSE t[k - Len(s)]
OBVIOUS

LEMMA ServedKeeps ==
    ASSUME IInv, Served
    PROVE  IInv'
<1>t. fetches \in Seq(FetchType)
  BY DEF IInv, TypeInv
<1>1. PICK n \in DOMAIN fetches :
         fetches' = IF alive[fetches[n].from] THEN [fetches EXCEPT ![n].asked = FALSE]
                    ELSE SubSeq(fetches, 1, n - 1) \o SubSeq(fetches, n + 1, Len(fetches))
  BY DEF Served
<1>2. UNCHANGED <<global, mine, widget, owner, clear, alive, mail, doing, held, sent, told, by>>
  BY DEF Served, clients, history
<1>3. n \in 1..Len(fetches) /\ n \in Nat /\ Len(fetches) \in Nat
  BY <1>t
<1> DEFINE h == [k \in 1..Len(fetches') |->
                    IF alive[fetches[n].from] \/ k < n THEN k ELSE k + 1]
<1>4. /\ fetches' \in Seq(FetchType)
      /\ \A k \in 1..Len(fetches') : /\ h[k] \in 1..Len(fetches)
                                     /\ fetches'[k].from = fetches[h[k]].from
                                     /\ fetches'[k].value = fetches[h[k]].value
  <2>1. CASE alive[fetches[n].from]
    <3>1. /\ fetches' \in Seq(FetchType) /\ Len(fetches') = Len(fetches)
          /\ \A k \in 1..Len(fetches) : fetches'[k] =
                IF k = n THEN [fetches[k] EXCEPT !.asked = FALSE] ELSE fetches[k]
      <4> DEFINE g == [fetches[n] EXCEPT !.asked = FALSE]
      <4>1. fetches' = [fetches EXCEPT ![n] = g]
        BY <1>1, <2>1
      <4>2. fetches[n] \in FetchType
        BY <1>t, <1>3
      <4>3. g \in FetchType
        BY <4>2 DEF FetchType
      <4>4. \A k \in 1..Len(fetches) : k = n => g = [fetches[k] EXCEPT !.asked = FALSE]
        OBVIOUS
      <4> HIDE DEF g
      <4>5. fetches' \in Seq(FetchType) /\ Len(fetches') = Len(fetches)
        BY <1>t, <1>3, <4>1, <4>3
      <4>6. \A k \in 1..Len(fetches) : fetches'[k] = IF k = n THEN g ELSE fetches[k]
        BY <1>t, <1>3, <4>1
      <4> QED  BY <4>4, <4>5, <4>6
    <3>2. \A k \in 1..Len(fetches) : fetches[k] \in FetchType
      BY <1>t
    <3>3. \A k \in 1..Len(fetches) : /\ fetches'[k].from = fetches[k].from
                                     /\ fetches'[k].value = fetches[k].value
      BY <3>1, <3>2 DEF FetchType
    <3>4. \A k \in 1..Len(fetches') : h[k] = k
      BY <2>1
    <3> QED  BY <3>1, <3>3, <3>4
  <2>2. CASE ~alive[fetches[n].from]
    <3> DEFINE a == SubSeq(fetches, 1, n - 1)
               b == SubSeq(fetches, n + 1, Len(fetches))
    <3>1. /\ a \in Seq(FetchType) /\ Len(a) = n - 1
          /\ \A k \in 1..(n - 1) : a[k] = fetches[k]
      BY <1>t, <1>3
    <3>2. /\ b \in Seq(FetchType) /\ Len(b) = Len(fetches) - n
          /\ \A k \in 1..(Len(fetches) - n) : b[k] = fetches[n + k]
      BY <1>t, <1>3
    <3>3. fetches' = a \o b
      BY <1>1, <2>2
    <3> HIDE DEF a, b
    <3>4. /\ fetches' \in Seq(FetchType) /\ Len(fetches') = Len(fetches) - 1
          /\ \A k \in 1..Len(fetches') : fetches'[k] = IF k < n THEN a[k] ELSE b[k - (n - 1)]
      <4>1. fetches' \in Seq(FetchType)
        BY <3>1, <3>2, <3>3, Joined
      <4>2. Len(fetches') = Len(a) + Len(b)
        BY <3>1, <3>2, <3>3, Joined
      <4>3. \A k \in 1..Len(fetches') :
               fetches'[k] = IF k <= Len(a) THEN a[k] ELSE b[k - Len(a)]
        BY <3>1, <3>2, <3>3, Joined
      <4>4. Len(a) \in Nat /\ Len(b) \in Nat /\ Len(fetches) \in Nat /\ n \in 1..Len(fetches)
        BY <1>3, <1>t, <3>1, <3>2
      <4>5. \A k \in 1..Len(fetches') : k <= Len(a) <=> k < n
        BY <3>1, <4>2, <4>4
      <4>6. Len(fetches') = Len(fetches) - 1
        BY <3>1, <3>2, <4>2, <4>4
      <4> QED  BY <3>1, <4>1, <4>3, <4>5, <4>6
    <3>5. \A k \in 1..Len(fetches') : fetches'[k] = fetches[IF k < n THEN k ELSE k + 1]
      <4> TAKE k \in 1..Len(fetches')
      <4>1. CASE k < n
        BY <1>3, <3>1, <3>4, <4>1
      <4>2. CASE ~(k < n)
        <5>1. k - (n - 1) \in 1..(Len(fetches) - n) /\ n + (k - (n - 1)) = k + 1
          BY <1>3, <3>4, <4>2
        <5> QED  BY <3>2, <3>4, <4>2, <5>1
      <4> QED  BY <4>1, <4>2
    <3>6. \A k \in 1..Len(fetches') : h[k] = IF k < n THEN k ELSE k + 1
      BY <2>2
    <3>7. \A k \in 1..Len(fetches') : h[k] \in 1..Len(fetches)
      BY <1>3, <3>4, <3>6
    <3> HIDE DEF h
    <3> QED  BY <3>4, <3>5, <3>6, <3>7
  <2> QED  BY <2>1, <2>2
<1>5. \A j, k \in 1..Len(fetches') : j # k => h[j] # h[k]
  BY <1>3
<1> HIDE DEF h
<1>6. /\ \A j, k \in 1..Len(fetches') : j # k => fetches'[j].value.id # fetches'[k].value.id
      /\ \A id : Brought(id)' => Brought(id)
      /\ \A k \in 1..Len(fetches') :
            /\ Answers(sent, fetches'[k].from, fetches'[k].value)
            /\ fetches'[k].value.id = ident => ident \notin timers
  BY <1>4, <1>5, FetchesShrink
<1>7. TypeInv'
  BY <1>2, <1>4 DEF IInv, TypeInv, global
<1>8. Carried'
  BY <1>2, <1>6 DEF IInv, Carried, global
<1>9. Apart'
  BY <1>2, <1>6 DEF IInv, Apart
<1>10. Once'
  BY <1>2, <1>6, OnceKeeps DEF IInv, Lying, Coming
<1>11. Timed' /\ InForce' /\ Descends'
  BY <1>2, ClientKeeps DEF IInv
<1> QED  BY <1>7, <1>8, <1>9, <1>10, <1>11 DEF IInv

\* LoseSelection asks for what lies in the selection.
LEMMA AskedKeeps ==
    ASSUME IInv, clear \/ mine, fetches' = Asked
    PROVE  /\ fetches' \in Seq(FetchType)
           /\ \A k \in 1..Len(fetches') : Answers(sent, fetches'[k].from, fetches'[k].value)
           /\ \A j, k \in 1..Len(fetches') : j # k => fetches'[j].value.id # fetches'[k].value.id
           /\ \A id : Brought(id)' => Brought(id) \/ Lying(id)
<1> DEFINE v == [w |-> widget, from |-> owner, asked |-> TRUE, value |-> held[owner]]
<1>t. fetches \in Seq(FetchType) /\ held \in [Clients -> ValueType] /\ widget \in Widgets
  BY DEF IInv, TypeInv
<1>1. fetches' = IF owner \in Clients THEN Append(fetches, v) ELSE fetches
  BY DEF Asked
<1>2. owner \in Clients => /\ v \in FetchType /\ v.from = owner /\ v.value = held[owner]
                           /\ Answers(sent, owner, held[owner]) /\ Lying(held[owner].id)
  BY <1>t DEF FetchType, IInv, Carried, Lying
<1> HIDE DEF v
<1>3. /\ fetches' \in Seq(FetchType)
      /\ \A k \in 1..Len(fetches') :
            \/ k \in 1..Len(fetches) /\ fetches'[k] = fetches[k]
            \/ k = Len(fetches) + 1 /\ owner \in Clients /\ fetches'[k] = v
  <2>1. CASE owner \in Clients
    <3>1. v \in FetchType /\ fetches' = Append(fetches, v)
      BY <1>1, <1>2, <2>1
    <3>2. /\ Append(fetches, v) \in Seq(FetchType) /\ Len(Append(fetches, v)) = Len(fetches) + 1
          /\ Append(fetches, v)[Len(fetches) + 1] = v /\ Len(fetches) \in Nat
          /\ \A k \in 1..Len(fetches) : Append(fetches, v)[k] = fetches[k]
      BY <1>t, <3>1
    <3> QED  BY <2>1, <3>1, <3>2
  <2>2. CASE owner \notin Clients
    BY <1>t, <1>1, <2>2
  <2> QED  BY <2>1, <2>2
<1>4. \A k \in 1..Len(fetches') : Answers(sent, fetches'[k].from, fetches'[k].value)
  BY <1>2, <1>3 DEF IInv, Carried
<1>5. \A id : Brought(id)' => Brought(id) \/ Lying(id)
  BY <1>2, <1>3 DEF Brought
<1>6. \A j, k \in 1..Len(fetches') : j # k => fetches'[j].value.id # fetches'[k].value.id
  <2>1. owner \in Clients => held[owner].id \in 1..Len(sent)
    BY <1>2 DEF Answers, IsSent
  <2>2. owner \in Clients => ~Brought(held[owner].id)
    BY <1>2, <2>1 DEF IInv, Once
  <2>3. owner \in Clients => \A k \in 1..Len(fetches) : fetches[k].value.id # v.value.id
    BY <1>2, <2>2 DEF Brought
  <2> QED  BY <1>3, <2>3 DEF IInv, Apart
<1> QED  BY <1>3, <1>4, <1>5, <1>6

\* ... where nothing lies then.
LEMMA LostOnce ==
    ASSUME Once, UNCHANGED <<sent, mail, doing>>, ~clear', ~mine',
           \A id \in 1..Len(sent) : told'[id] \in Closed => told[id] \in Closed,
           \A id : Brought(id)' => Brought(id) \/ Lying(id)
    PROVE  Once'
<1>1. \A id : ~Lying(id)'
  BY DEF Lying
<1>2. \A c \in Clients : \A id : Coming(c, id)' <=> Coming(c, id)
  BY DEF Coming
<1> QED  BY <1>1, <1>2 DEF Once

LEMMA LoseSelectionKeeps ==
    ASSUME IInv, LoseSelection
    PROVE  IInv'
<1>t. Len(told) = Len(sent) /\ timers \subseteq 1..Len(sent) /\ Len(sent) \in Nat
  BY DEF IInv, TypeInv
<1>1. /\ clear /\ clear' = FALSE /\ mine' = FALSE /\ timers' = timers \ {timeout} /\ timeout' = 0
      /\ fetches' = Asked
      /\ UNCHANGED <<window, ident, command, version, reset, calls, tree, widget, owner>>
      /\ UNCHANGED <<alive, mail, doing, held, sent, told, by>>
  BY DEF LoseSelection, Disarmed, clients
<1>2. /\ fetches' \in Seq(FetchType)
      /\ \A k \in 1..Len(fetches') : Answers(sent, fetches'[k].from, fetches'[k].value)
      /\ \A j, k \in 1..Len(fetches') : j # k => fetches'[j].value.id # fetches'[k].value.id
      /\ \A id : Brought(id)' => Brought(id) \/ Lying(id)
  BY <1>1, AskedKeeps
<1>3. TypeInv'
  BY <1>t, <1>1, <1>2 DEF IInv, TypeInv
<1>4. ident \notin timers'
  BY <1>1 DEF IInv, Timed
<1>5. Timed'
  BY <1>t, <1>1, <1>4 DEF IInv, Timed, TimersTrue
<1>6. InForce' /\ Descends'
  BY <1>1 DEF IInv, InForce, Descends, OldEnough
<1>7. Carried'
  BY <1>1, <1>2, <1>4 DEF IInv, Carried
<1>8. Apart'
  BY <1>1, <1>2 DEF IInv, Apart
<1>9. Once'
  BY <1>1, <1>2, LostOnce DEF IInv
<1> QED  BY <1>3, <1>5, <1>6, <1>7, <1>8, <1>9 DEF IInv

LEMMA WrongIdentKeeps ==
    ASSUME IInv, fetches # <<>>, fetches' = Tail(fetches), WrongIdent(Head(fetches)),
           UNCHANGED <<alive, mail>>
    PROVE  IInv'
<1>1. /\ Head(fetches) \in FetchType /\ fetches' \in Seq(FetchType)
      /\ \A j, k \in 1..Len(fetches') : j # k => fetches'[j].value.id # fetches'[k].value.id
      /\ \A id : Brought(id)' => Brought(id)
      /\ \A k \in 1..Len(fetches') :
            /\ Answers(sent, fetches'[k].from, fetches'[k].value)
            /\ fetches'[k].value.id = ident => ident \notin timers
  BY FirstTaken
<1>2. PICK w \in Widgets : /\ OwnSelection(w)
                           /\ timers' = (IF Overruled THEN Disarmed ELSE timers)
                           /\ timeout' = (IF Overruled THEN 0 ELSE timeout)
  BY <1>1 DEF WrongIdent, FetchType
<1>3. UNCHANGED <<window, ident, command, version, reset, calls, tree, sent, told, by>>
  BY DEF WrongIdent
<1>4. /\ mine' \in BOOLEAN /\ widget' \in Widgets /\ clear' \in BOOLEAN
      /\ owner' \in Clients \union {None, "meditres"}
      /\ held' \in [Clients -> ValueType] /\ doing' \in [Clients -> WorkType]
      /\ \A d \in Clients : doing'[d].phase # "idle" => doing'[d] = doing[d]
      /\ \A d \in Clients : owner' = d => Answers(sent, d, held'[d])
      /\ \A id : Lying(id)' => Lying(id) \/ Fresh(id)
      /\ (mine' /\ widget' = w) \/ UNCHANGED <<mine, widget>>
  BY <1>2, OwnSelectionKeeps
<1>5. timers' \subseteq timers
  BY <1>2 DEF Disarmed
<1>6. TypeInv'
  BY <1>1, <1>3, <1>4, <1>5 DEF IInv, TypeInv
<1>7. Timed'
  <2>1. CASE Overruled
    BY <1>2, <1>3, <2>1, StoppedTimers DEF IInv, TypeInv, Disarmed
  <2>2. CASE ~Overruled
    BY <1>2, <1>3, <1>4, <2>2 DEF IInv, Timed, TimersTrue, Overruled
  <2> QED  BY <2>1, <2>2
<1>8. InForce' /\ Descends'
  BY <1>3 DEF IInv, InForce, Descends, OldEnough
<1>9. Carried'
  <2>1. \A d \in Clients :
          /\ doing'[d].phase = "asking" =>
                IsSent(sent, d, doing'[d].id) /\ sent[doing'[d].id].level = Speaks[d]
          /\ doing'[d].phase = "ready" => Answers(sent, d, doing'[d])
    BY <1>4 DEF IInv, Carried
  <2>2. sent' = sent /\ ident' = ident /\ mail' = mail
    BY <1>3
  <2>3. \A d \in Clients : owner' = d => Answers(sent, d, held'[d])
    BY <1>4
  <2>4. \A k \in 1..Len(fetches') :
            /\ Answers(sent, fetches'[k].from, fetches'[k].value)
            /\ fetches'[k].value.id = ident => ident \notin timers'
    BY <1>1, <1>5
  <2>5. \A d \in Clients : \A n \in 1..Len(mail[d]) :
          IsSent(sent, d, mail[d][n].id) /\ mail[d][n].level = sent[mail[d][n].id].level
    BY DEF IInv, Carried
  <2> QED  BY <2>1, <2>2, <2>3, <2>4, <2>5 DEF Carried
<1>10. Apart'
  <2>1. \A c \in Clients : \A n \in 1..Len(mail[c]) :
          /\ \A m \in 1..Len(mail[c]) : n # m => mail[c][n].id # mail[c][m].id
          /\ doing[c].phase # "idle" => mail[c][n].id # doing[c].id
    BY DEF IInv, Apart
  <2>2. \A c \in Clients : \A n \in 1..Len(mail[c]) :
          doing'[c].phase # "idle" => mail[c][n].id # doing'[c].id
    BY <1>4, <2>1
  <2>3. mail' = mail
    OBVIOUS
  <2>4. \A j, k \in 1..Len(fetches') : j # k => fetches'[j].value.id # fetches'[k].value.id
    BY <1>1
  <2>5. \A c \in Clients : \A n \in 1..Len(mail'[c]) :
          /\ \A m \in 1..Len(mail'[c]) : n # m => mail'[c][n].id # mail'[c][m].id
          /\ doing'[c].phase # "idle" => mail'[c][n].id # doing'[c].id
    BY <2>1, <2>2, <2>3
  <2> QED  BY <2>4, <2>5 DEF Apart
<1>11. Once'
  BY <1>1, <1>3, <1>4, HandoverOnce DEF IInv
<1> QED  BY <1>6, <1>7, <1>8, <1>9, <1>10, <1>11 DEF IInv

\* The answer to the command in force: it was open, and is nowhere any more.
LEMMA ToldKeeps ==
    ASSUME IInv, fetches # <<>>, fetches' = Tail(fetches), SameIdent(Head(fetches).value),
           NEW how \in {"answered", "mismatch"}, Told(Head(fetches).value, how),
           UNCHANGED <<ident, timers, timeout, sent, alive, mail, doing>>,
           UNCHANGED <<mine, widget, owner, clear, held>>
    PROVE  /\ ident \in 1..Len(sent) /\ ident > 0
           /\ Head(fetches) \in FetchType
           /\ Answers(sent, Head(fetches).from, Head(fetches).value)
           /\ told[ident] = "waiting" /\ told'[ident] = how
           /\ \A k \in 1..Len(sent) : k # ident => told'[k] = told[k]
           /\ fetches' \in Seq(FetchType) /\ told' \in Seq(Outcomes) /\ Len(told') = Len(sent)
           /\ Timed' /\ Carried' /\ Apart' /\ Once'
<1> DEFINE f == Head(fetches)
<1>t. told \in Seq(Outcomes) /\ Len(told) = Len(sent) /\ timers \subseteq 1..Len(sent)
      /\ sent \in Seq(SentType)
  BY DEF IInv, TypeInv
<1>1. /\ f \in FetchType /\ f = fetches[1] /\ 1 \in 1..Len(fetches)
      /\ fetches' \in Seq(FetchType)
      /\ \A k \in 1..Len(fetches') : fetches'[k].value.id # f.value.id
      /\ \A j, k \in 1..Len(fetches') : j # k => fetches'[j].value.id # fetches'[k].value.id
      /\ \A id : Brought(id)' => Brought(id)
      /\ \A k \in 1..Len(fetches') :
            /\ Answers(sent, fetches'[k].from, fetches'[k].value)
            /\ fetches'[k].value.id = ident => ident \notin timers
  BY FirstTaken
<1>2. f.value.id = ident /\ told' = [told EXCEPT ![ident] = how]
  BY DEF SameIdent, Told
<1>3. Answers(sent, f.from, f.value) /\ ident \notin timers
  BY <1>1, <1>2 DEF IInv, Carried
<1>4. ident \in 1..Len(sent) /\ ident > 0
  BY <1>2, <1>3 DEF Answers, IsSent
<1>5. /\ told' \in Seq(Outcomes) /\ Len(told') = Len(sent) /\ told'[ident] = how
      /\ \A k \in 1..Len(sent) : k # ident => told'[k] = told[k]
      /\ told[ident] \in Outcomes
  <2>1. how \in Outcomes
    BY DEF Outcomes
  <2> QED  BY <1>t, <1>2, <1>4, <2>1
<1>6. Brought(ident)
  BY <1>1, <1>2 DEF Brought
<1>7. ~Lying(ident) /\ told[ident] \notin Closed /\ \A c \in Clients : ~Coming(c, ident)
  BY <1>4, <1>6 DEF IInv, Once
<1>8. told[ident] = "waiting"
  BY <1>4, <1>5, <1>7 DEF IInv, InForce, Outcomes, Closed
<1> HIDE DEF f
<1>9. Timed'
  BY <1>t, <1>3, <1>5 DEF IInv, Timed, TimersTrue
<1>10. Carried'
  BY <1>1 DEF IInv, Carried
<1>11. Apart'
  BY <1>1 DEF IInv, Apart
<1>12. Once'
  <2>1. \A id : Lying(id)' <=> Lying(id)
    BY DEF Lying
  <2>2. \A c \in Clients : \A id : Coming(c, id)' <=> Coming(c, id)
    BY DEF Coming
  <2>3. PICK i \in 1..Len(sent) : i = ident
    BY <1>4
  <2>4. ~Brought(i)'
    BY <1>1, <1>2, <2>3 DEF Brought
  <2> QED  BY <1>1, <1>5, <1>7, <2>1, <2>2, <2>3, <2>4 DEF IInv, Once
<1> QED  BY <1>1, <1>3, <1>4, <1>5, <1>8, <1>9, <1>10, <1>11, <1>12 DEF f

LEMMA HandledKeeps ==
    ASSUME IInv, fetches # <<>>, fetches' = Tail(fetches), Handled(Head(fetches)),
           UNCHANGED <<alive, mail, doing>>
    PROVE  IInv'
<1>1. /\ SameIdent(Head(fetches).value) /\ Told(Head(fetches).value, "answered")
      /\ UNCHANGED <<window, ident, command, version, reset, timers, timeout, sent, by>>
      /\ UNCHANGED <<mine, widget, owner, clear, held>>
  BY DEF Handled
<1>2. /\ ident > 0 /\ told'[ident] = "answered"
      /\ fetches' \in Seq(FetchType) /\ told' \in Seq(Outcomes) /\ Len(told') = Len(sent)
      /\ Timed' /\ Carried' /\ Apart' /\ Once'
  BY <1>1, ToldKeeps
<1>3. calls' \in Seq(CallType)
  <2>1. calls' = calls \/ calls' = <<Call("tree", "GetResources")>> \o calls
    BY DEF Handled
  <2>2. Call("tree", "GetResources") \in CallType
    BY DEF Call, CallType, Widgets, Commands
  <2>3. calls \in Seq(CallType)
    BY DEF IInv, TypeInv
  <2>4. <<Call("tree", "GetResources")>> \o calls \in Seq(CallType)
    BY <2>2, <2>3
  <2> QED  BY <2>1, <2>3, <2>4
<1>4. TypeInv'
  BY <1>1, <1>2, <1>3 DEF IInv, TypeInv
<1>5. InForce'
  BY <1>1, <1>2 DEF IInv, InForce
<1>6. Descends'
  BY <1>1 DEF IInv, Descends, OldEnough
<1> QED  BY <1>2, <1>4, <1>5, <1>6 DEF IInv

\* One version less is tried, which is not below that of the client who refused.
LEMMA MismatchKeeps ==
    ASSUME IInv, fetches # <<>>, fetches' = Tail(fetches), ProtocolMismatch(Head(fetches)),
           UNCHANGED <<alive, mail, doing>>
    PROVE  /\ IInv'
           /\ sent[ident].by \subseteq {sent[ident].to} => OldEnough(sent[ident].to, version')
<1> DEFINE f == Head(fetches)
<1>1. /\ SameIdent(f.value) /\ Told(f.value, "mismatch") /\ f.value.code = "Mismatch"
      /\ version' = version - 1 /\ reset' = FALSE
      /\ by' = by \union {sent[f.value.id].to}
      /\ calls' = <<Call(f.w, "SendWidgetTree")>> \o calls
      /\ UNCHANGED <<window, ident, command, timers, timeout, sent>>
      /\ UNCHANGED <<mine, widget, owner, clear, held>>
  BY DEF ProtocolMismatch
<1>2. /\ ident \in 1..Len(sent) /\ ident > 0 /\ f \in FetchType
      /\ Answers(sent, f.from, f.value)
      /\ told[ident] = "waiting" /\ told'[ident] = "mismatch"
      /\ fetches' \in Seq(FetchType) /\ told' \in Seq(Outcomes) /\ Len(told') = Len(sent)
      /\ Timed' /\ Carried' /\ Apart' /\ Once'
  BY <1>1, ToldKeeps
<1> HIDE DEF f
<1>3. /\ f.value.id = ident /\ sent[ident] \in SentType
      /\ sent[ident].to = f.from /\ f.from \in Clients
      /\ sent[ident].level # Speaks[f.from]
  <2>1. f.value.id = ident /\ f.from \in Clients
    BY <1>1, <1>2 DEF SameIdent, FetchType
  <2>2. sent[ident] \in SentType
    BY <1>2 DEF IInv, TypeInv
  <2>3. sent[ident].to = f.from /\ sent[ident].level # Speaks[f.from]
    BY <1>1, <1>2, <2>1 DEF Answers, IsSent
  <2> QED  BY <2>1, <2>2, <2>3
<1>4. version = sent[ident].level /\ version \in Int /\ Speaks[f.from] \in Int
  <2>1. version = sent[ident].level
    BY <1>2 DEF IInv, InForce
  <2>2. version \in Int
    BY DEF IInv, TypeInv
  <2> QED  BY <1>3, <2>1, <2>2, VersionAssumption
<1>5. TypeInv'
  <2>1. Call(f.w, "SendWidgetTree") \in CallType
    BY <1>2 DEF Call, CallType, FetchType, Commands
  <2>2. calls' \in Seq(CallType)
    BY <1>1, <2>1 DEF IInv, TypeInv
  <2>3. version' \in Int
    BY <1>1, <1>4
  <2>4. by' \subseteq Clients
    <3>1. by \subseteq Clients /\ by' = by \union {f.from}
      BY <1>1, <1>3 DEF IInv, TypeInv
    <3> QED  BY <1>3, <3>1
  <2> QED  BY <1>1, <1>2, <2>2, <2>3, <2>4 DEF IInv, TypeInv
<1>6. InForce'
  BY <1>1, <1>2 DEF IInv, InForce
<1>7. OldEnough(f.from, version) => OldEnough(f.from, version')
  BY <1>1, <1>3, <1>4 DEF OldEnough
<1>8. Descends'
  <2>1. \A c \in Clients : by' \subseteq {c} => OldEnough(c, version')
    <3> SUFFICES ASSUME NEW c \in Clients, by' \subseteq {c}  PROVE OldEnough(c, version')
      OBVIOUS
    <3>1. c = f.from /\ by \subseteq {c}
      BY <1>1, <1>3
    <3> QED  BY <1>7, <3>1 DEF IInv, Descends
  <2>2. \A k \in 1..Len(sent) :
          sent[k].by \subseteq {sent[k].to} => OldEnough(sent[k].to, sent[k].level)
    BY DEF IInv, Descends
  <2>3. \A c \in Clients : by' \subseteq {c} =>
           (Speaks[c] <= CURRENT_PROTOCOL_VERSION => version' >= Speaks[c])
    BY <2>1 DEF OldEnough
  <2>4. UNCHANGED sent
    BY <1>1
  <2> QED  BY <2>2, <2>3, <2>4 DEF Descends, OldEnough
<1>9. sent[ident].by \subseteq {sent[ident].to} => OldEnough(sent[ident].to, version')
  BY <1>2, <1>3, <1>4, <1>7 DEF IInv, Descends
<1> QED  BY <1>2, <1>5, <1>6, <1>8, <1>9 DEF IInv

LEMMA GetClientValueKeeps == ASSUME IInv, GetClientValue  PROVE IInv'
<1>1. /\ fetches # <<>> /\ fetches' = Tail(fetches) /\ UNCHANGED <<alive, mail>>
      /\ \/ WrongIdent(Head(fetches))
         \/ Handled(Head(fetches)) /\ UNCHANGED doing
         \/ ProtocolMismatch(Head(fetches)) /\ UNCHANGED doing
  BY DEF GetClientValue
<1> QED  BY <1>1, WrongIdentKeeps, HandledKeeps, MismatchKeeps
-----------------------------------------------------------------------------
(* ClientTimedOut and SetCommand. *)

LEMMA TimedOutKeeps ==
    ASSUME IInv, ClientTimedOut
    PROVE  IInv'
<1> DEFINE x == IF ident = First THEN "timed out" ELSE "cut short"
<1>t. /\ told \in Seq(Outcomes) /\ Len(told) = Len(sent) /\ timers \subseteq 1..Len(sent)
      /\ ident \in Nat /\ ident \in {0, Len(sent)} /\ Len(sent) \in Nat
      /\ held \in [Clients -> ValueType] /\ Nothing \in ValueType
  <2>1. Nothing \in ValueType
    BY DEF Nothing, ValueType
  <2>2. sent \in Seq(SentType) /\ ident \in {0, Len(sent)}
    BY DEF IInv, TypeInv, InForce
  <2>3. Len(sent) \in Nat
    BY <2>2
  <2> QED  BY <2>1, <2>2, <2>3 DEF IInv, TypeInv
<1>1. /\ ident' = 0
      /\ told' = IF ident > 0 /\ told[ident] = "waiting"
                 THEN [told EXCEPT ![ident] = x] ELSE told
      /\ \/ /\ mine /\ fetches' = Asked
            /\ timers' = (timers \ {First}) \ {timeout} /\ timeout' = 0 /\ mine' = FALSE
            /\ owner' = None /\ clear' = FALSE /\ held' = [c \in Clients |-> Nothing]
         \/ /\ ~(mine /\ widget = sent[First].w)
            /\ timers' = timers \ {First}
            /\ UNCHANGED <<mine, timeout, fetches, owner, clear, held>>
      /\ UNCHANGED <<window, command, version, reset, calls, tree, widget>>
      /\ UNCHANGED <<alive, mail, doing, sent, by>>
  BY DEF ClientTimedOut
<1> HIDE DEF x
<1>2. x \in {"timed out", "cut short"} /\ x \in Outcomes
  BY DEF x, Outcomes
<1>3. /\ told' \in Seq(Outcomes) /\ Len(told') = Len(sent)
      /\ \A k \in 1..Len(sent) : told'[k] = told[k] \/ told'[k] \in {"timed out", "cut short"}
  <2>1. CASE ident > 0 /\ told[ident] = "waiting"
    <3>1. told' = [told EXCEPT ![ident] = x] /\ ident \in 1..Len(told)
      BY <1>t, <1>1, <2>1
    <3>2. told'[ident] = x /\ \A k \in 1..Len(told) : k # ident => told'[k] = told[k]
      BY <1>t, <3>1
    <3>3. told' \in Seq(Outcomes) /\ Len(told') = Len(told)
      <4>1. told \in Seq(Outcomes) /\ told' = [told EXCEPT ![ident] = x] /\ ident \in 1..Len(told)
            /\ x \in Outcomes
        BY <1>t, <1>2, <3>1
      <4> QED  BY <4>1
    <3> QED  BY <1>t, <1>2, <3>2, <3>3
  <2>2. CASE ~(ident > 0 /\ told[ident] = "waiting")
    BY <1>t, <1>1, <2>2
  <2> QED  BY <2>1, <2>2
<1>4. /\ timers' \subseteq timers
      /\ clear' \in BOOLEAN /\ mine' \in BOOLEAN /\ owner' \in Clients \union {None, "meditres"}
      /\ held' \in [Clients -> ValueType]
      /\ \A c \in Clients : owner' = c => owner = c /\ held'[c] = held[c]
  <2>1. CASE /\ timers' = (timers \ {First}) \ {timeout} /\ mine' = FALSE
             /\ owner' = None /\ clear' = FALSE /\ held' = [c \in Clients |-> Nothing]
    BY <1>t, <2>1, ClientAssumption
  <2>2. CASE timers' = timers \ {First} /\ UNCHANGED <<mine, owner, clear, held>>
    BY <1>t, <2>2 DEF IInv, TypeInv
  <2> QED  BY <1>1, <2>1, <2>2
<1>f. \/ UNCHANGED <<fetches, mine, owner, clear, held>>
      \/ /\ fetches' \in Seq(FetchType)
         /\ \A k \in 1..Len(fetches') : Answers(sent, fetches'[k].from, fetches'[k].value)
         /\ \A j, k \in 1..Len(fetches') : j # k => fetches'[j].value.id # fetches'[k].value.id
         /\ \A id : Brought(id)' => Brought(id) \/ Lying(id)
         /\ ~clear' /\ ~mine'
  BY <1>1, AskedKeeps
<1>5. TypeInv'
  BY <1>1, <1>3, <1>4, <1>f DEF IInv, TypeInv
<1>6. Timed'
  <2>1. /\ timeout' \in timers' \union {0} \/ ~sent'[timeout'].owned
        /\ timeout' \in 0..Len(sent')
        /\ timeout' # 0 /\ sent'[timeout'].owned => mine' /\ widget' = sent'[timeout'].w
    BY <1>t, <1>1 DEF IInv, Timed, TimersTrue
  <2>2. \A t \in timers' : told'[t] \notin {"answered", "mismatch"}
    BY <1>t, <1>3, <1>4 DEF IInv, Timed, TimersTrue
  <2>3. ident' \notin timers'
    BY <1>t, <1>1, <1>4
  <2> QED  BY <2>1, <2>2, <2>3 DEF Timed, TimersTrue
<1>7. InForce' /\ Descends'
  <2>1. InForce'
    BY <1>1 DEF InForce
  <2>2. UNCHANGED <<by, version, sent>>
    BY <1>1
  <2>3. Descends'
    BY <2>2 DEF IInv, Descends, OldEnough
  <2> QED  BY <2>1, <2>3
<1>8. Carried'
  <2>1. \A n \in 1..Len(fetches') : Answers(sent, fetches'[n].from, fetches'[n].value)
    BY <1>f DEF IInv, Carried
  <2>2. \A n \in 1..Len(fetches') : fetches'[n].value.id # 0
    BY <2>1 DEF Answers, IsSent
  <2> QED  BY <1>1, <1>4, <2>1, <2>2 DEF IInv, Carried
<1>9. Apart'
  BY <1>1, <1>f DEF IInv, Apart
<1>10. Once'
  <2>1. \A id \in 1..Len(sent) : told'[id] \in Closed => told[id] \in Closed
    BY <1>3 DEF Closed
  <2>2. \A c \in Clients : \A id : Coming(c, id)' <=> Coming(c, id)
    BY <1>1 DEF Coming
  <2>3. CASE UNCHANGED <<fetches, mine, owner, clear, held>>
    <3>1. \A id : (Lying(id)' <=> Lying(id)) /\ (Brought(id)' <=> Brought(id))
      BY <2>3 DEF Lying, Brought
    <3> QED  BY <1>1, <2>1, <2>2, <3>1, OnceKeeps DEF IInv
  <2>4. CASE (\A id : Brought(id)' => Brought(id) \/ Lying(id)) /\ ~clear' /\ ~mine'
    BY <1>1, <2>1, <2>4, LostOnce DEF IInv
  <2> QED  BY <1>f, <2>3, <2>4
<1> QED  BY <1>5, <1>6, <1>7, <1>8, <1>9, <1>10 DEF IInv

\* What was said of the commands is still true when another one is sent.
LEMMA SentGrows ==
    ASSUME NEW r \in SentType, sent \in Seq(SentType), sent' = Append(sent, r)
    PROVE  /\ sent' \in Seq(SentType) /\ Len(sent') = Len(sent) + 1 /\ Len(sent) \in Nat
           /\ sent'[Len(sent) + 1] = r
           /\ \A k \in 1..Len(sent) : sent'[k] = sent[k] /\ k # Len(sent) + 1 /\ k \in 1..Len(sent')
           /\ \A c, v : Answers(sent, c, v) => Answers(sent', c, v)
           /\ \A c, k : IsSent(sent, c, k) => IsSent(sent', c, k)
<1>1. /\ sent' \in Seq(SentType) /\ Len(sent') = Len(sent) + 1 /\ Len(sent) \in Nat
      /\ sent'[Len(sent) + 1] = r
      /\ \A k \in 1..Len(sent) : sent'[k] = sent[k]
  OBVIOUS
<1>2. \A k \in 1..Len(sent) : k # Len(sent) + 1 /\ k \in 1..Len(sent')
  BY <1>1
<1>3. \A c, k : IsSent(sent, c, k) => IsSent(sent', c, k)
  BY <1>1, <1>2 DEF IsSent
<1>4. ASSUME NEW c, NEW v, Answers(sent, c, v)  PROVE Answers(sent', c, v)
  <2>1. v.id \in 1..Len(sent) /\ IsSent(sent', c, v.id)
    BY <1>3, <1>4 DEF Answers, IsSent
  <2>2. sent'[v.id] = sent[v.id]
    BY <1>1, <2>1
  <2> QED  BY <1>4, <2>1, <2>2 DEF Answers
<1> QED  BY <1>1, <1>2, <1>3, <1>4

\* What SetCommand does, in the terms of the invariant.
AtOnce == {"waiting", "no window"}

LEMMA SetCommandDoes ==
    ASSUME IInv, NEW f \in CallType, NEW to \in Clients, SetCommand(f, to)
    PROVE  \E r \in SentType, o \in AtOnce :
             /\ r.w = f.w /\ r.cmd = f.cmd /\ r.to = to /\ r.level = version' /\ r.by = by'
             /\ r.owned => mine' /\ widget' = f.w
             /\ sent' = Append(sent, r) /\ told' = Append(told, o)
             /\ alive[to] => o = "waiting"
             /\ ident' = Len(sent) + 1 /\ command' = f.cmd /\ reset' \in BOOLEAN
             /\ (version' = CURRENT_PROTOCOL_VERSION /\ by' = {}) \/ UNCHANGED <<version, by>>
<1>t. version \in Int /\ reset \in BOOLEAN /\ by \subseteq Clients
  BY DEF IInv, TypeInv
<1>1. /\ ident' = Len(sent) + 1 /\ command' = f.cmd
      /\ version' = Level(f)
      /\ reset' = (reset \/ f.cmd = "SendWidgetTree")
      /\ by' = IF Lowered(f) THEN {} ELSE by
      /\ sent' = Append(sent, [w |-> f.w, cmd |-> f.cmd, to |-> to, level |-> Level(f),
                               by |-> by', owned |-> mine' /\ widget' = f.w])
      /\ told' = Append(told, IF alive[to] THEN "waiting" ELSE "no window")
  BY DEF SetCommand
<1>2. (version' = CURRENT_PROTOCOL_VERSION /\ by' = {}) \/ UNCHANGED <<version, by>>
  BY <1>1 DEF Level
<1>3. version' \in Int /\ by' \subseteq Clients
  BY <1>t, <1>2, VersionAssumption
<1>o. PICK own \in BOOLEAN : own = (mine' /\ widget' = f.w)
  OBVIOUS
<1> DEFINE r == [w |-> f.w, cmd |-> f.cmd, to |-> to, level |-> version', by |-> by',
                 owned |-> own]
<1>4. r \in SentType
  BY <1>3, <1>o DEF SentType, CallType
<1>5. /\ r.w = f.w /\ r.cmd = f.cmd /\ r.to = to /\ r.level = version' /\ r.by = by'
      /\ r.owned => mine' /\ widget' = f.w
      /\ sent' = Append(sent, r)
  <2>1. r.owned = own /\ (own => mine' /\ widget' = f.w)
    BY <1>o
  <2>2. version' = Level(f) /\ own = (mine' /\ widget' = f.w)
    BY <1>1, <1>o
  <2>3. sent' = Append(sent, r)
    BY <1>1, <2>2
  <2> QED  BY <2>1, <2>3
<1>6. reset' \in BOOLEAN
  BY <1>1
<1>7. (IF alive[to] THEN "waiting" ELSE "no window") \in AtOnce
  BY DEF AtOnce
<1> HIDE DEF r
<1> QED  BY <1>1, <1>2, <1>4, <1>5, <1>6, <1>7

\* A message to the client that has a window, with the number of the command.
Posted(to, m) == mail' = [mail EXCEPT ![to] = Append(@, m)]

LEMMA MailGrows ==
    ASSUME IInv, NEW to \in Clients, NEW m \in MailType, Posted(to, m)
    PROVE  /\ mail' \in [Clients -> Seq(MailType)]
           /\ \A c \in Clients : \A n \in 1..Len(mail'[c]) :
                 \/ n \in 1..Len(mail[c]) /\ mail'[c][n] = mail[c][n]
                 \/ c = to /\ n = Len(mail[c]) + 1 /\ mail'[c][n] = m
<1>1. mail \in [Clients -> Seq(MailType)]
  BY DEF IInv, TypeInv
<1> DEFINE q == Append(mail[to], m)
<1>2. /\ q \in Seq(MailType) /\ Len(q) = Len(mail[to]) + 1 /\ Len(mail[to]) \in Nat
      /\ q[Len(mail[to]) + 1] = m /\ \A n \in 1..Len(mail[to]) : q[n] = mail[to][n]
  BY <1>1
<1>3. mail' = [mail EXCEPT ![to] = q]
  BY DEF Posted
<1> HIDE DEF q
<1>4. mail' \in [Clients -> Seq(MailType)] /\ mail'[to] = q
      /\ \A c \in Clients : c # to => mail'[c] = mail[c]
  BY <1>1, <1>2, <1>3
<1>5. ASSUME NEW c \in Clients, NEW n \in 1..Len(mail'[c])
      PROVE  \/ n \in 1..Len(mail[c]) /\ mail'[c][n] = mail[c][n]
             \/ c = to /\ n = Len(mail[c]) + 1 /\ mail'[c][n] = m
  <2>1. CASE c = to
    <3>1. n \in 1..Len(mail[to]) \/ n = Len(mail[to]) + 1
      BY <1>2, <1>4, <2>1
    <3> QED  BY <1>2, <1>4, <2>1, <3>1
  <2>2. CASE c # to
    BY <1>4, <2>2
  <2> QED  BY <2>1, <2>2
<1> QED  BY <1>4, <1>5

LEMMA SetCommandKeeps ==
    ASSUME IInv, NEW f \in CallType, NEW to \in Clients, calls # <<>>, SetCommand(f, to)
    PROVE  IInv'
<1>t. /\ sent \in Seq(SentType) /\ told \in Seq(Outcomes) /\ Len(told) = Len(sent)
      /\ timers \subseteq 1..Len(sent)
  BY DEF IInv, TypeInv
<1>u. f.w \in Widgets
  BY DEF CallType
<1>v. /\ mail \in [Clients -> Seq(MailType)] /\ doing \in [Clients -> WorkType]
      /\ calls \in Seq(CallType) /\ calls # <<>>
  BY DEF IInv, TypeInv
<1>1. PICK r \in SentType, o \in AtOnce :
             /\ r.w = f.w /\ r.cmd = f.cmd /\ r.to = to /\ r.level = version' /\ r.by = by'
             /\ r.owned => mine' /\ widget' = f.w
             /\ sent' = Append(sent, r) /\ told' = Append(told, o)
             /\ alive[to] => o = "waiting"
             /\ ident' = Len(sent) + 1 /\ command' = f.cmd /\ reset' \in BOOLEAN
             /\ (version' = CURRENT_PROTOCOL_VERSION /\ by' = {}) \/ UNCHANGED <<version, by>>
  BY SetCommandDoes
<1>2. PICK id \in Nat : id = Len(sent) + 1
  BY <1>t
<1>3. /\ sent' \in Seq(SentType) /\ Len(sent') = id /\ id > 0 /\ sent'[id] = r /\ ident' = id
      /\ \A k \in 1..Len(sent) : sent'[k] = sent[k] /\ k # id /\ k \in 1..Len(sent')
      /\ \A k \in 1..Len(sent') : k \in 1..Len(sent) \/ k = id
      /\ id \in 1..Len(sent') /\ id \notin 1..Len(sent)
      /\ \A c, v : Answers(sent, c, v) => Answers(sent', c, v)
      /\ \A c, k : IsSent(sent, c, k) => IsSent(sent', c, k)
  <2>1. sent' = Append(sent, r)
    BY <1>1
  <2>2. /\ sent' \in Seq(SentType) /\ Len(sent') = Len(sent) + 1 /\ Len(sent) \in Nat
        /\ sent'[Len(sent) + 1] = r
        /\ \A k \in 1..Len(sent) : sent'[k] = sent[k] /\ k # Len(sent) + 1 /\ k \in 1..Len(sent')
        /\ \A c, v : Answers(sent, c, v) => Answers(sent', c, v)
        /\ \A c, k : IsSent(sent, c, k) => IsSent(sent', c, k)
    BY <1>t, <2>1, SentGrows
  <2> QED  BY <1>1, <1>2, <2>2
<1>4. /\ told' \in Seq(Outcomes) /\ Len(told') = Len(sent') /\ told'[id] = o
      /\ \A k \in 1..Len(sent) : told'[k] = told[k]
  <2>1. told' = Append(told, o) /\ o \in Outcomes
    BY <1>1 DEF Outcomes, AtOnce
  <2> QED  BY <1>t, <1>2, <1>3, <2>1
<1>5. /\ mine' \in BOOLEAN /\ widget' \in Widgets /\ clear' \in BOOLEAN
      /\ owner' \in Clients \union {None, "meditres"}
      /\ held' \in [Clients -> ValueType] /\ doing' \in [Clients -> WorkType]
      /\ \A d \in Clients : doing'[d].phase # "idle" => doing'[d] = doing[d]
      /\ \A d \in Clients : owner' = d => Answers(sent, d, held'[d])
      /\ \A k : Lying(k)' => Lying(k) \/ Fresh(k)
      /\ (mine' /\ widget' = f.w) \/ UNCHANGED <<mine, widget>>
  <2>1. OwnSelection(f.w)
    BY DEF SetCommand
  <2> QED  BY <1>u, <2>1, OwnSelectionKeeps
<1>6. UNCHANGED <<fetches, alive>>
  BY DEF SetCommand
<1>7. /\ \/ /\ o = "waiting" /\ timeout' = id
            /\ timers' = (IF Overruled THEN Disarmed ELSE timers) \union {id}
         \/ /\ timers' = IF Overruled THEN Disarmed ELSE timers
            /\ timeout' = IF Overruled THEN 0 ELSE timeout
      /\ timers' \subseteq timers \union {id}
  <2>1. CASE alive[to]
    <3>1. o = "waiting"
      BY <1>1, <2>1
    <3> QED  BY <1>2, <2>1, <3>1 DEF SetCommand, Armed, Disarmed
  <2>2. CASE ~alive[to]
    BY <2>2 DEF SetCommand, Disarmed
  <2> QED  BY <2>1, <2>2
<1>8. /\ mail' \in [Clients -> Seq(MailType)]
      /\ \A c \in Clients : \A n \in 1..Len(mail'[c]) :
            \/ n \in 1..Len(mail[c]) /\ mail'[c][n] = mail[c][n]
            \/ /\ c = to /\ n = Len(mail[c]) + 1 /\ mail'[c][n] = [id |-> id, level |-> version']
               /\ o = "waiting"
  <2>1. CASE alive[to]
    <3>1. /\ version' = Level(f) /\ o = "waiting"
          /\ mail' = [mail EXCEPT ![to] = Append(@, [id |-> Len(sent) + 1, level |-> Level(f)])]
      BY <1>1, <2>1 DEF SetCommand
    <3>2. version' \in Int
      BY <1>1 DEF SentType
    <3>3. PICK m \in MailType : m = [id |-> id, level |-> version']
      BY <3>2 DEF MailType
    <3>4. Posted(to, m)
      BY <1>2, <3>1, <3>3 DEF Posted
    <3>5. /\ mail' \in [Clients -> Seq(MailType)]
          /\ \A c \in Clients : \A n \in 1..Len(mail'[c]) :
                \/ n \in 1..Len(mail[c]) /\ mail'[c][n] = mail[c][n]
                \/ c = to /\ n = Len(mail[c]) + 1 /\ mail'[c][n] = m
      BY <3>4, MailGrows
    <3> QED  BY <3>1, <3>3, <3>5
  <2>2. CASE ~alive[to]
    <3>1. mail' = mail
      BY <2>2 DEF SetCommand
    <3> QED  BY <1>v, <3>1
  <2> QED  BY <2>1, <2>2
<1>9. calls' \in Seq(CallType) /\ window' \in Clients \union {None}
  <2>1. Tail(calls) \in Seq(CallType)
    BY <1>v
  <2>2. [w |-> f.w, cmd |-> "SendWidgetTree", picking |-> TRUE] \in CallType
    BY <1>u DEF CallType, Commands
  <2>3. <<[w |-> f.w, cmd |-> "SendWidgetTree", picking |-> TRUE]>> \o Tail(calls) \in Seq(CallType)
    BY <2>1, <2>2
  <2> QED  BY <2>1, <2>3 DEF SetCommand
<1>10. TypeInv'
  <2>1. version' \in Int /\ by' \subseteq Clients /\ command' \in Commands
    BY <1>1 DEF SentType
  <2>2. timers' \subseteq 1..Len(sent')
    BY <1>t, <1>3, <1>7
  <2>3. /\ fetches' \in Seq(FetchType) /\ alive' \in [Clients -> BOOLEAN]
    BY <1>6 DEF IInv, TypeInv
  <2>4. ident' \in Nat /\ mine' \in BOOLEAN /\ widget' \in Widgets /\ reset' \in BOOLEAN
    BY <1>u, <1>1, <1>2, <1>3, <1>5
  <2> QED  BY <1>3, <1>4, <1>5, <1>8, <1>9, <2>1, <2>2, <2>3, <2>4 DEF TypeInv
<1>a. \A k \in 1..Len(fetches) : fetches[k].value.id \in 1..Len(sent)
  BY DEF IInv, Carried, Answers, IsSent
<1>b. \A c \in Clients : owner = c => held[c].id \in 1..Len(sent)
  BY DEF IInv, Carried, Answers, IsSent
<1>c. \A c \in Clients : doing[c].phase # "idle" => doing[c].id \in 1..Len(sent)
  BY <1>v DEF IInv, Carried, Answers, IsSent, WorkType
<1>d. \A c \in Clients : \A n \in 1..Len(mail[c]) : mail[c][n].id \in 1..Len(sent)
  BY DEF IInv, Carried, IsSent
<1>12. Timed'
  <2>1. /\ timeout \in timers \union {0} \/ ~sent[timeout].owned
        /\ timeout \in 0..Len(sent)
        /\ timeout # 0 /\ sent[timeout].owned => mine /\ widget = sent[timeout].w
        /\ \A t \in timers : told[t] \notin {"answered", "mismatch"}
    BY DEF IInv, Timed, TimersTrue
  <2>2. \A t \in timers' : told'[t] \notin {"answered", "mismatch"}
    <3>1. o \notin {"answered", "mismatch"}
      BY DEF AtOnce
    <3> QED  BY <1>t, <1>4, <1>7, <2>1, <3>1
  <2>3. id \in timers' => timeout' = id
    BY <1>t, <1>3, <1>7 DEF Disarmed
  <2>4. /\ timeout' \in timers' \union {0} \/ ~sent'[timeout'].owned
        /\ timeout' \in 0..Len(sent')
        /\ timeout' # 0 /\ sent'[timeout'].owned => mine' /\ widget' = sent'[timeout'].w
    <3>1. CASE timeout' = id
      <4>2. id \in timers'
        BY <1>2, <1>3, <1>7, <2>1, <3>1
      <4> QED  BY <1>1, <1>2, <1>3, <3>1, <4>2
    <3>2. CASE timeout' = 0
      BY <1>2, <1>3, <3>2
    <3>3. CASE timeout' # id /\ timeout' # 0
      <4>1. timeout' = timeout /\ ~Overruled /\ timers' = timers
        BY <1>7, <3>3
      <4>2. timeout \in 1..Len(sent)
        BY <1>t, <1>2, <2>1, <3>3, <4>1
      <4>3. sent'[timeout] = sent[timeout] /\ timeout \in 0..Len(sent')
        BY <1>2, <1>3, <4>2
      <4>4. mine => mine' /\ widget' = widget
        BY <1>5, <4>1 DEF Overruled
      <4> QED  BY <2>1, <3>3, <4>1, <4>3, <4>4
    <3> QED  BY <3>1, <3>2, <3>3
  <2> QED  BY <1>3, <2>2, <2>3, <2>4 DEF Timed, TimersTrue
<1>13. InForce'
  <2>1. o \notin {"timed out", "cut short"}
    BY DEF AtOnce
  <2>2. ident' = Len(sent') /\ command' = sent'[id].cmd /\ version' = sent'[id].level
    BY <1>1, <1>3
  <2> QED  BY <1>3, <1>4, <2>1, <2>2 DEF InForce
<1>14. Descends'
  <2>1. ASSUME NEW c \in Clients, by' \subseteq {c}, Speaks[c] <= CURRENT_PROTOCOL_VERSION
        PROVE  version' >= Speaks[c]
    <3>1. CASE version' = CURRENT_PROTOCOL_VERSION
      BY <2>1, <3>1, VersionAssumption
    <3>2. CASE UNCHANGED <<version, by>>
      BY <2>1, <3>2 DEF IInv, Descends, OldEnough
    <3> QED  BY <1>1, <3>1, <3>2
  <2>2. ASSUME NEW k \in 1..Len(sent'), sent'[k].by \subseteq {sent'[k].to},
               Speaks[sent'[k].to] <= CURRENT_PROTOCOL_VERSION
        PROVE  sent'[k].level >= Speaks[sent'[k].to]
    <3>1. CASE k = id
      BY <1>1, <1>3, <2>1, <2>2, <3>1
    <3>2. CASE k \in 1..Len(sent)
      BY <1>3, <2>2, <3>2 DEF IInv, Descends, OldEnough
    <3> QED  BY <1>3, <3>1, <3>2
  <2> QED  BY <2>1, <2>2 DEF Descends, OldEnough
<1>15. Carried'
  <2>1. \A c \in Clients : \A n \in 1..Len(mail'[c]) :
          IsSent(sent', c, mail'[c][n].id) /\ mail'[c][n].level = sent'[mail'[c][n].id].level
    <3> TAKE c \in Clients
    <3> TAKE n \in 1..Len(mail'[c])
    <3>1. CASE n \in 1..Len(mail[c]) /\ mail'[c][n] = mail[c][n]
      <4>1. /\ IsSent(sent, c, mail[c][n].id) /\ mail[c][n].level = sent[mail[c][n].id].level
        BY <3>1 DEF IInv, Carried
      <4>2. mail[c][n].id \in 1..Len(sent)
        BY <1>d, <3>1
      <4> QED  BY <1>3, <3>1, <4>1, <4>2
    <3>2. CASE c = to /\ mail'[c][n] = [id |-> id, level |-> version']
      BY <1>1, <1>3, <3>2 DEF IsSent
    <3> QED  BY <1>8, <3>1, <3>2
  <2>2. \A c \in Clients :
          /\ doing'[c].phase = "asking" =>
                IsSent(sent', c, doing'[c].id) /\ sent'[doing'[c].id].level = Speaks[c]
          /\ doing'[c].phase = "ready" => Answers(sent', c, doing'[c])
    <3> TAKE c \in Clients
    <3>3. doing'[c].phase # "idle" => doing'[c] = doing[c]
      BY <1>5
    <3>1. doing[c].phase = "asking" => /\ IsSent(sent, c, doing[c].id)
                                       /\ sent[doing[c].id].level = Speaks[c]
      BY DEF IInv, Carried
    <3>2. doing[c].phase = "ready" => Answers(sent, c, doing[c])
      BY DEF IInv, Carried
    <3> QED  BY <1>3, <1>c, <3>1, <3>2, <3>3
  <2>3. \A c \in Clients : owner' = c => Answers(sent', c, held'[c])
    BY <1>3, <1>5 DEF IInv, Carried
  <2>4. \A n \in 1..Len(fetches) : /\ Answers(sent', fetches[n].from, fetches[n].value)
                                   /\ fetches[n].value.id # id
    BY <1>3, <1>a DEF IInv, Carried
  <2> QED  BY <1>3, <1>6, <2>1, <2>2, <2>3, <2>4 DEF Carried
<1>16. Apart'
  <2>1. ASSUME NEW c \in Clients, NEW n \in 1..Len(mail'[c])
        PROVE  /\ \A k \in 1..Len(mail'[c]) : n # k => mail'[c][n].id # mail'[c][k].id
               /\ doing'[c].phase # "idle" => mail'[c][n].id # doing'[c].id
    <3>0. doing'[c].phase # "idle" => doing'[c] = doing[c]
      BY <1>5
    <3>1. /\ \A j, k \in 1..Len(mail[c]) : j # k => mail[c][j].id # mail[c][k].id
          /\ \A k \in 1..Len(mail[c]) : doing[c].phase # "idle" => mail[c][k].id # doing[c].id
      BY DEF IInv, Apart
    <3>3. /\ doing[c].phase # "idle" => doing[c].id # id
          /\ \A k \in 1..Len(mail[c]) : mail[c][k].id # id
      BY <1>3, <1>c, <1>d
    <3>2. \A k \in 1..Len(mail'[c]) :
             \/ k \in 1..Len(mail[c]) /\ mail'[c][k] = mail[c][k]
             \/ k = Len(mail[c]) + 1 /\ mail'[c][k].id = id
      BY <1>8
    <3>4. CASE n \in 1..Len(mail[c]) /\ mail'[c][n] = mail[c][n]
      BY <3>0, <3>1, <3>2, <3>3, <3>4
    <3>5. CASE n = Len(mail[c]) + 1 /\ mail'[c][n].id = id
      BY <3>0, <3>2, <3>3, <3>5
    <3> QED  BY <3>2, <3>4, <3>5
  <2> QED  BY <1>6, <2>1 DEF IInv, Apart
<1>17. Once'
  <2>a. \A k : Brought(k)' <=> Brought(k)
    BY <1>6 DEF Brought
  <2>b. \A k : Lying(k)' => Lying(k) \/ Fresh(k)
    BY <1>5
  <2>c. ASSUME NEW c \in Clients, NEW k, Coming(c, k)'
        PROVE  Coming(c, k) \/ (k = id /\ o = "waiting")
    <3>1. CASE doing'[c].phase # "idle" /\ doing'[c].id = k
      <4>1. doing[c].phase # "idle" /\ doing[c].id = k
        BY <1>5, <3>1
      <4>2. Coming(c, k)
        BY <4>1 DEF Coming
      <4> QED  BY <4>2
    <3>2. ASSUME NEW n \in 1..Len(mail'[c]), mail'[c][n].id = k
          PROVE  Coming(c, k) \/ (k = id /\ o = "waiting")
      <4>1. \/ n \in 1..Len(mail[c]) /\ mail'[c][n] = mail[c][n]
            \/ mail'[c][n] = [id |-> id, level |-> version'] /\ o = "waiting"
        BY <1>8
      <4>2. CASE n \in 1..Len(mail[c]) /\ mail'[c][n] = mail[c][n]
        <5>1. \E i \in 1..Len(mail[c]) : mail[c][i].id = k
          BY <3>2, <4>2
        <5> QED  BY <5>1 DEF Coming
      <4>3. CASE mail'[c][n] = [id |-> id, level |-> version'] /\ o = "waiting"
        BY <3>2, <4>3
      <4> QED  BY <4>1, <4>2, <4>3
    <3> QED  BY <2>c, <3>1, <3>2 DEF Coming
  <2>1. /\ \A k : Brought(k)' <=> Brought(k)
        /\ \A k : Lying(k)' => Lying(k) \/ Fresh(k)
        /\ \A c \in Clients : \A k : Coming(c, k)' => Coming(c, k) \/ (k = id /\ o = "waiting")
    BY <2>a, <2>b, <2>c
  <2>d. ~Brought(id)
    BY <1>3, <1>a DEF Brought
  <2>e. ~Lying(id)
    BY <1>3, <1>b DEF Lying
  <2>2. ~Brought(id) /\ ~Lying(id) /\ \A c \in Clients : ~Coming(c, id)
    BY <1>3, <1>c, <1>d, <2>d, <2>e DEF Coming
  <2>3. "waiting" \notin Closed
    BY DEF Closed
  <2>4. ASSUME NEW k \in 1..Len(sent')
        PROVE  /\ Brought(k)' => ~Lying(k)'
               /\ told'[k] \in Closed => ~Brought(k)' /\ ~Lying(k)'
               /\ \A c \in Clients : Coming(c, k)' =>
                     ~Brought(k)' /\ ~Lying(k)' /\ told'[k] \notin Closed
    <3>1. CASE k = id
      <4>1. ~Fresh(k)
        BY <1>3, <3>1 DEF Fresh
      <4> QED  BY <1>4, <2>1, <2>2, <2>3, <3>1, <4>1
    <3>2. CASE k \in 1..Len(sent)
      <4>1. Fresh(k) => /\ ~Brought(k) /\ told[k] \notin Closed
                        /\ \A c \in Clients : ~Coming(c, k)'
        <5> SUFFICES ASSUME Fresh(k), NEW c \in Clients  PROVE ~Coming(c, k)'
          BY DEF Fresh
        <5>1. k # id /\ (doing'[c].phase # "idle" => doing'[c].id # k)
          BY <1>3, <3>2 DEF Fresh
        <5>2. ASSUME NEW n \in 1..Len(mail'[c])  PROVE mail'[c][n].id # k
          <6>1. CASE n \in 1..Len(mail[c]) /\ mail'[c][n] = mail[c][n]
            BY <6>1 DEF Fresh
          <6>2. CASE mail'[c][n] = [id |-> id, level |-> version']
            BY <5>1, <6>2
          <6> QED  BY <1>8, <6>1, <6>2
        <5> QED  BY <1>3, <3>2, <5>1, <5>2 DEF Coming, Fresh
      <4> QED  BY <1>3, <1>4, <2>1, <3>2, <4>1 DEF IInv, Once
    <3> QED  BY <1>3, <3>1, <3>2
  <2> QED  BY <2>4 DEF Once
<1> QED  BY <1>10, <1>12, <1>13, <1>14, <1>15, <1>16, <1>17 DEF IInv
-----------------------------------------------------------------------------
(* The invariant. *)

LEMMA InitIInv == Init => IInv
<1> SUFFICES ASSUME Init  PROVE IInv
  OBVIOUS
<1>1. /\ Nothing \in ValueType /\ Idle \in WorkType /\ Idle.phase = "idle"
  BY DEF Nothing, ValueType, Idle, WorkType
<1>2. /\ sent = <<>> /\ told = <<>> /\ fetches = <<>> /\ calls = <<>> /\ timers = {} /\ ident = 0
      /\ timeout = 0 /\ owner = None /\ version = CURRENT_PROTOCOL_VERSION /\ by = {}
      /\ mail = [c \in Clients |-> <<>>] /\ doing = [c \in Clients |-> Idle]
      /\ held = [c \in Clients |-> Nothing]
  BY DEF Init
<1>3. \A c \in Clients : mail[c] = <<>> /\ doing[c].phase = "idle" /\ owner # c
  BY <1>1, <1>2, ClientAssumption
<1>4. mail \in [Clients -> Seq(MailType)] /\ doing \in [Clients -> WorkType]
      /\ held \in [Clients -> ValueType]
  BY <1>1, <1>2
<1>5. TypeInv
  <2>1. /\ sent \in Seq(SentType) /\ told \in Seq(Outcomes) /\ Len(told) = Len(sent)
        /\ fetches \in Seq(FetchType) /\ calls \in Seq(CallType) /\ timers \subseteq 1..Len(sent)
    BY <1>2
  <2>2. /\ window \in Clients \union {None} /\ owner \in Clients \union {None, "meditres"}
        /\ ident \in Nat /\ version \in Int /\ by \subseteq Clients
    BY <1>2, VersionAssumption DEF Init
  <2>3. /\ command \in Commands /\ widget \in Widgets /\ reset \in BOOLEAN /\ mine \in BOOLEAN
        /\ clear \in BOOLEAN /\ alive \in [Clients -> BOOLEAN]
    BY DEF Init, Widgets, Commands
  <2> QED  BY <1>4, <2>1, <2>2, <2>3 DEF TypeInv
<1>6. Timed /\ InForce
  BY <1>2 DEF Timed, TimersTrue, InForce
<1>7. Descends
  BY <1>2, VersionAssumption DEF Descends, OldEnough
<1>8. Carried
  BY <1>2, <1>3 DEF Carried
<1>9. Apart /\ Once
  BY <1>2, <1>3 DEF Apart, Once
<1> QED  BY <1>5, <1>6, <1>7, <1>8, <1>9 DEF IInv

LEMMA EnterKeeps == ASSUME IInv, Enter  PROVE IInv'
<1>1. CASE window = None
  BY <1>1, CallsKeep
<1>2. CASE window # None
  <2>1. calls # <<>> /\ SetCommand(Head(calls), window)
    BY <1>2 DEF Enter
  <2>2. window \in Clients /\ calls \in Seq(CallType)
    BY <1>2 DEF IInv, TypeInv
  <2>3. Head(calls) \in CallType
    BY <2>1, <2>2
  <2> QED  BY <2>1, <2>2, <2>3, SetCommandKeeps
<1> QED  BY <1>1, <1>2

LEMMA PickKeeps == ASSUME IInv, NEW c \in Clients, Pick(c)  PROVE IInv'
<1>1. calls # <<>> /\ SetCommand(Head(calls), c)
  BY DEF Pick
<1>2. calls \in Seq(CallType)
  BY DEF IInv, TypeInv
<1>3. Head(calls) \in CallType
  BY <1>1, <1>2
<1> QED  BY <1>1, <1>3, SetCommandKeeps

LEMMA NextIInv == IInv /\ [Next]_vars => IInv'
<1> SUFFICES ASSUME IInv, [Next]_vars  PROVE IInv'
  OBVIOUS
<1>1. CASE User
  BY <1>1, CallsKeep, PickKeeps DEF User
<1>2. CASE Meditres
  BY <1>2, EnterKeeps, LoseSelectionKeeps, GetClientValueKeeps DEF Meditres
<1>3. CASE ClientTimedOut
  BY <1>3, TimedOutKeeps
<1>4. CASE Served
  BY <1>4, ServedKeeps
<1>5. ASSUME NEW c \in Clients, Client(c) \/ Dies(c)
      PROVE  IInv'
  BY <1>5, ReadKeeps, WorkKeeps, AnswerKeeps, DiesKeeps DEF Client
<1>6. CASE UNCHANGED vars
  <2>1. window' = window /\ calls' = calls /\ UNCHANGED <<selection, clients, history>>
        /\ UNCHANGED <<ident, command, version, reset, timeout, timers, tree>>
    BY <1>6 DEF vars, global
  <2>2. window' \in Clients \union {None} /\ calls' \in Seq(CallType)
    BY <2>1 DEF IInv, TypeInv
  <2> QED  BY <2>1, <2>2, Stays
<1> QED  BY <1>1, <1>2, <1>3, <1>4, <1>5, <1>6 DEF Next

\* The number of a command is in one place at most, and what is there was made
\* in the version the command was sent in, however the messages, the answers,
\* the timers and the nested calls of SetCommand follow each other.
THEOREM SpecIInv == Spec => []IInv
BY InitIInv, NextIInv, PTL DEF Spec

\* comm.c:587: the timer that LoseSelection stops runs, unless it is that of a
\* command sent without the selection (comm.c:417), and no timer of a command
\* that was answered is left to run out.
THEOREM TimersStayTrue == Spec => []TimersTrue
<1>1. IInv => TimersTrue
  BY DEF IInv, Timed
<1> QED  BY <1>1, SpecIInv, PTL

\* Only a value that is brought to GetClientValue answers a command.
LEMMA AnswerTold ==
    ASSUME IInv, [Next]_vars, NEW k \in DOMAIN told, told[k] = "waiting",
           told'[k] \in {"answered", "mismatch"}
    PROVE  /\ fetches # <<>> /\ fetches' = Tail(fetches) /\ UNCHANGED <<alive, mail, doing>>
           /\ Handled(Head(fetches)) \/ ProtocolMismatch(Head(fetches))
<1>1. told' # told
  OBVIOUS
<1>2. CASE User \/ Enter
  <2>1. \A f, to : ~SetCommand(f, to)
    <3> SUFFICES ASSUME NEW f, NEW to, SetCommand(f, to)  PROVE FALSE
      OBVIOUS
    <3>1. \E o : told' = Append(told, o)
      BY DEF SetCommand
    <3>2. told \in Seq(Outcomes)
      BY DEF IInv, TypeInv
    <3>3. told'[k] = told[k]
      BY <3>1, <3>2
    <3> QED  BY <3>3
  <2> QED  BY <1>1, <1>2, <2>1 DEF User, Enter, Pick, SetClient, Refresh, GetResourceList, Menu,
                                 PickByKey, Escape, history
<1>3. CASE LoseSelection \/ Served \/ \E c \in Clients : Client(c) \/ Dies(c)
  BY <1>1, <1>3 DEF LoseSelection, Served, Client, Read, ConvertCommand, Refused, Answer, Dies,
                    history
<1>4. CASE UNCHANGED vars
  BY <1>1, <1>4 DEF vars, history
<1>5. CASE ClientTimedOut
  <2>1. told' = IF ident > 0 /\ told[ident] = "waiting"
                THEN [told EXCEPT ![ident] = IF ident = First THEN "timed out" ELSE "cut short"]
                ELSE told
    BY <1>5 DEF ClientTimedOut
  <2>2. told'[k] \in {told[k], "timed out", "cut short"}
    BY <2>1
  <2> QED  BY <2>2
<1>6. CASE GetClientValue
  <2>1. /\ fetches # <<>> /\ fetches' = Tail(fetches) /\ UNCHANGED <<alive, mail>>
        /\ \/ WrongIdent(Head(fetches))
           \/ Handled(Head(fetches)) /\ UNCHANGED doing
           \/ ProtocolMismatch(Head(fetches)) /\ UNCHANGED doing
    BY <1>6 DEF GetClientValue
  <2>2. ~WrongIdent(Head(fetches))
    BY <1>1 DEF WrongIdent
  <2> QED  BY <2>1, <2>2
<1> QED  BY <1>2, <1>3, <1>4, <1>5, <1>6 DEF Next, Meditres

\* comm.c:665: the answer that is unpacked is that to the last command, and
\* the version of the protocol is that of the client who wrote it.
THEOREM AnswersMatch == Spec => AnswerMatches
<1>1. ASSUME IInv, [Next]_vars, NEW k \in DOMAIN told, told[k] = "waiting",
             told'[k] \in {"answered", "mismatch"}
      PROVE  /\ k = Len(sent) /\ sent[k].cmd = command
             /\ told'[k] = "answered" => version = Speaks[sent[k].to]
  <2>1. /\ fetches # <<>> /\ fetches' = Tail(fetches) /\ UNCHANGED <<alive, mail, doing>>
        /\ Handled(Head(fetches)) \/ ProtocolMismatch(Head(fetches))
    BY <1>1, AnswerTold
  <2>2. told \in Seq(Outcomes) /\ Len(told) = Len(sent)
    BY <1>1 DEF IInv, TypeInv
  <2>3. /\ UNCHANGED <<ident, timers, timeout, sent>> /\ UNCHANGED <<mine, widget, owner, clear, held>>
        /\ SameIdent(Head(fetches).value)
        /\ \/ Told(Head(fetches).value, "answered") /\ Head(fetches).value.code = "Answer"
           \/ Told(Head(fetches).value, "mismatch")
    BY <2>1 DEF Handled, ProtocolMismatch
  <2>4. /\ ident \in 1..Len(sent) /\ ident > 0
        /\ Answers(sent, Head(fetches).from, Head(fetches).value)
        /\ told[ident] = "waiting"
        /\ \A i \in 1..Len(sent) : i # ident => told'[i] = told[i]
    BY <1>1, <2>1, <2>3, ToldKeeps
  <2>5. k = ident
    BY <1>1, <2>2, <2>4
  <2>6. k = Len(sent) /\ sent[k].cmd = command /\ version = sent[k].level
    BY <1>1, <2>4, <2>5 DEF IInv, InForce
  <2>7. ASSUME told'[k] = "answered"  PROVE version = Speaks[sent[k].to]
    <3>1. told' = [told EXCEPT ![k] = "mismatch"] => told'[k] = "mismatch"
      BY <1>1
    <3>2. Head(fetches).value.id = k
      BY <2>3, <2>5 DEF SameIdent
    <3>3. Head(fetches).value.code = "Answer"
      BY <2>3, <2>7, <3>1, <3>2 DEF Told
    <3> QED  BY <2>4, <2>6, <3>2, <3>3 DEF Answers, IsSent
  <2> QED  BY <2>6, <2>7
<1>2. IInv /\ [Next]_vars => [\A k \in DOMAIN told :
         told[k] = "waiting" /\ told'[k] \in {"answered", "mismatch"} =>
            /\ k = Len(sent) /\ sent[k].cmd = command
            /\ (told'[k] = "answered" => version = Speaks[sent[k].to])]_vars
  BY <1>1
<1> QED  BY <1>2, SpecIInv, PTL DEF Spec, AnswerMatches

\* comm.c:725: the level that is tried next is not below that of the client
\* who refused, whatever was sent to it before.
THEOREM LevelsDescend == Spec => NegotiationDescends
<1>1. ASSUME IInv, [Next]_vars, NEW k \in DOMAIN told, told[k] = "waiting", told'[k] = "mismatch",
             Speaks[sent[k].to] <= CURRENT_PROTOCOL_VERSION, sent[k].by \subseteq {sent[k].to}
      PROVE  version' >= Speaks[sent[k].to]
  <2>1. /\ fetches # <<>> /\ fetches' = Tail(fetches) /\ UNCHANGED <<alive, mail, doing>>
        /\ Handled(Head(fetches)) \/ ProtocolMismatch(Head(fetches))
    BY <1>1, AnswerTold
  <2>2. told \in Seq(Outcomes) /\ Len(told) = Len(sent)
    BY <1>1 DEF IInv, TypeInv
  <2>3. /\ UNCHANGED <<ident, timers, timeout, sent>> /\ UNCHANGED <<mine, widget, owner, clear, held>>
        /\ SameIdent(Head(fetches).value)
        /\ \/ Told(Head(fetches).value, "answered")
           \/ Told(Head(fetches).value, "mismatch") /\ ProtocolMismatch(Head(fetches))
    BY <2>1 DEF Handled, ProtocolMismatch
  <2>4. \A i \in 1..Len(sent) : i # ident => told'[i] = told[i]
    BY <1>1, <2>1, <2>3, ToldKeeps
  <2>5. k = ident
    BY <1>1, <2>2, <2>4
  <2>6. told' = [told EXCEPT ![k] = "answered"] => told'[k] = "answered"
    BY <1>1
  <2>7. Head(fetches).value.id = k
    BY <2>3, <2>5 DEF SameIdent
  <2>8. ProtocolMismatch(Head(fetches))
    BY <1>1, <2>3, <2>6, <2>7 DEF Told
  <2>9. OldEnough(sent[ident].to, version')
    BY <1>1, <2>1, <2>5, <2>8, MismatchKeeps
  <2> QED  BY <1>1, <2>5, <2>9 DEF OldEnough
<1>2. IInv /\ [Next]_vars => [\A k \in DOMAIN told :
         told[k] = "waiting" /\ told'[k] = "mismatch"
            /\ Speaks[sent[k].to] <= CURRENT_PROTOCOL_VERSION
            /\ sent[k].by \subseteq {sent[k].to}
            => version' >= Speaks[sent[k].to]]_vars
  BY <1>1
<1> QED  BY <1>2, SpecIInv, PTL DEF Spec, NegotiationDescends
=============================================================================
