------------------------------ MODULE NebulaProofs ----------------------------
(***************************************************************************)
(* nebula for every set of nicks, every size of the buffers and any number *)
(* of lines, servers and turns.                                            *)
(*                                                                         *)
(* What readLine holds and what is on its way are one stream of lines, of  *)
(* which each step of readLine takes some from the front (Lined).  What    *)
(* the window will show when all of the stream has arrived is what the     *)
(* nicks in the list, and those that the stream adds, become on their way  *)
(* through the rest of it (Walk); the invariants are about where they end. *)
(***************************************************************************)
EXTENDS Nebula, SequenceTheorems, WellFoundedInduction, TLAPS

Pieces == Msgs \union {CR, LF}
Happenings == {"split", "clash", "part", "away", "emptied"}
-----------------------------------------------------------------------------
(* Numbers and sequences. *)

LEMMA LowestOf ==
  ASSUME NEW T \in SUBSET Nat, T # {}
  PROVE  \E t \in T : \A u \in T : t <= u
<1> DEFINE R == OpToRel(<, Nat)
<1>1. PICK t \in T : \A u \in T : <<u, t>> \notin R
  <2> HIDE DEF R
  <2> QED BY NatLessThanWellFounded, WFMin DEF R
<1>2. \A u \in T : ~(u < t)
  BY <1>1 DEF OpToRel
<1> QED BY <1>2

\* What holds of 0, and of the next number with each, holds up to n.
LEMMA Counting ==
  ASSUME NEW n \in Nat, NEW T, 0 \in T, \A m \in 0..n : m \in T /\ m < n => m + 1 \in T
  PROVE  \A m \in 0..n : m \in T
<1> DEFINE U == {m \in 0..n : m \notin T}
<1> SUFFICES ASSUME U # {} PROVE FALSE
  OBVIOUS
<1>1. U \in SUBSET Nat
  OBVIOUS
<1>2. PICK t \in U : \A u \in U : t <= u
  <2> HIDE DEF U
  <2> QED BY <1>1, LowestOf
<1>3. t \in 1..n /\ t \notin T
  BY <1>2
<1>4. t - 1 \in 0..n /\ t - 1 < n /\ (t - 1) + 1 = t /\ ~(t <= t - 1)
  BY <1>3
<1>5. t - 1 \notin U
  BY <1>2, <1>4
<1>6. t - 1 \in T
  BY <1>4, <1>5
<1> QED BY <1>3, <1>4, <1>6

\* The recursive function that FoldLeft is defined by.
Folding(g, n, list, s) ==
    g = [S \in SUBSET (1..n) |->
            IF S = {} THEN list ELSE interpretPiece(g[S \ {Max(S)}], s[Max(S)])]

LEMMA GreatestIn ==
  ASSUME NEW m \in Nat, NEW S \in SUBSET (1..(m + 1)), m + 1 \in S
  PROVE  Max(S) = m + 1
<1>1. m + 1 \in S /\ \A y \in S : m + 1 >= y
  OBVIOUS
<1>2. ASSUME NEW x \in S, \A y \in S : x >= y  PROVE x = m + 1
  BY <1>1, <1>2
<1> QED BY <1>1, <1>2 DEF Max

LEMMA FoldExists ==
  ASSUME NEW n \in Nat, NEW list, NEW s
  PROVE  \E g : Folding(g, n, list, s)
<1> DEFINE T == {m \in 0..n : \E g : Folding(g, m, list, s)}
<1>1. 0 \in T
  <2> DEFINE g == [S \in SUBSET (1..0) |-> list]
  <2>1. \A S \in SUBSET (1..0) : S = {}
    OBVIOUS
  <2>2. g = [S \in SUBSET (1..0) |->
                IF S = {} THEN list ELSE interpretPiece(g[S \ {Max(S)}], s[Max(S)])]
    BY <2>1
  <2>3. Folding(g, 0, list, s)
    BY <2>2 DEF Folding
  <2>4. 0 \in 0..n
    OBVIOUS
  <2> QED BY <2>3, <2>4
<1>2. ASSUME NEW m \in 0..n, m \in T, m < n  PROVE m + 1 \in T
  <2>1. PICK f : Folding(f, m, list, s)
    BY <1>2
  <2> DEFINE g == [S \in SUBSET (1..(m + 1)) |->
                     IF m + 1 \in S THEN interpretPiece(f[S \ {m + 1}], s[m + 1]) ELSE f[S]]
  <2>2. ASSUME NEW S \in SUBSET (1..(m + 1))
        PROVE  g[S] = IF S = {} THEN list ELSE interpretPiece(g[S \ {Max(S)}], s[Max(S)])
    <3>1. CASE m + 1 \in S
      <4>1. Max(S) = m + 1
        BY <3>1, GreatestIn
      <4>2. S \ {m + 1} \in SUBSET (1..(m + 1)) /\ m + 1 \notin S \ {m + 1}
        OBVIOUS
      <4>3. g[S \ {m + 1}] = f[S \ {m + 1}]
        BY <4>2
      <4>4. g[S] = interpretPiece(f[S \ {m + 1}], s[m + 1])
        BY <3>1
      <4> HIDE DEF g
      <4> QED BY <3>1, <4>1, <4>3, <4>4
    <3>2. CASE m + 1 \notin S
      <4> DEFINE x == Max(S)
      <4> HIDE DEF x
      <4>1. S \in SUBSET (1..m) /\ S \ {x} \in SUBSET (1..(m + 1)) /\ m + 1 \notin S \ {x}
        <5>1. ASSUME NEW y \in S  PROVE y \in 1..m
          <6>1. y \in 1..(m + 1) /\ y # m + 1 /\ m \in Nat
            BY <3>2
          <6> QED BY <6>1
        <5> QED BY <3>2, <5>1, Zenon
      <4>2. g[S] = f[S] /\ g[S \ {x}] = f[S \ {x}]
        BY <3>2, <4>1
      <4>3. f[S] = IF S = {} THEN list ELSE interpretPiece(f[S \ {x}], s[x])
        BY <2>1, <4>1 DEF Folding, x
      <4> HIDE DEF g
      <4>4. g[S] = IF S = {} THEN list ELSE interpretPiece(g[S \ {x}], s[x])
        BY <4>2, <4>3
      <4> QED BY <4>4 DEF x
    <3> QED BY <3>1, <3>2
  <2>3. DOMAIN g = SUBSET (1..(m + 1)) /\ g = [S \in DOMAIN g |-> g[S]]
    OBVIOUS
  <2> HIDE DEF g
  <2>4. Folding(g, m + 1, list, s)
    BY <2>2, <2>3, Zenon DEF Folding
  <2>5. m + 1 \in 0..n
    BY <1>2
  <2> QED BY <2>4, <2>5
<1>3. n \in 0..n
  OBVIOUS
<1> HIDE DEF T
<1>4. n \in T
  BY <1>1, <1>2, <1>3, Counting
<1> QED BY <1>4 DEF T

\* The pieces that are interpreted one after the other, and what each leaves of the list.
Becomes(h, s, e) == \A k \in 1..e : h[k] = interpretPiece(h[k - 1], s[k])

\* FoldLeft, of the pieces of complete lines.
LEMMA FoldIs ==
  ASSUME NEW S, NEW s \in Seq(S), NEW h, Becomes(h, s, Len(s))
  PROVE  FoldLeft(interpretPiece, h[0], s) = h[Len(s)]
<1> DEFINE n == Len(s)
           list == h[0]
           g == CHOOSE f : Folding(f, n, list, s)
<1>1. n \in Nat /\ DOMAIN s = 1..n
  OBVIOUS
<1>2. FoldLeft(interpretPiece, list, s) = g[1..n]
  BY <1>1 DEF FoldLeft, MapThenFoldSet, Folding
<1> HIDE DEF n
<1>3. Folding(g, n, list, s)
  BY <1>1, FoldExists
<1> HIDE DEF g
<1>4. \A Z \in SUBSET (1..n) :
         g[Z] = IF Z = {} THEN list ELSE interpretPiece(g[Z \ {Max(Z)}], s[Max(Z)])
  BY <1>3 DEF Folding
<1> DEFINE T == {m \in 0..n : g[1..m] = h[m]}
<1>5. 0 \in T
  <2>1. 1..0 = {} /\ {} \in SUBSET (1..n) /\ 0 \in 0..n
    BY <1>1
  <2> QED BY <1>4, <2>1
<1>6. ASSUME NEW m \in 0..n, m \in T, m < n  PROVE m + 1 \in T
  <2> DEFINE Z == 1..(m + 1)
  <2>1. m \in Nat /\ Z \in SUBSET (1..n) /\ Z # {} /\ m + 1 \in Z /\ Z \ {m + 1} = 1..m
        /\ Z \in SUBSET (1..(m + 1))
    <3>1. m \in Nat /\ m + 1 \in Z
      BY <1>1
    <3>2. \A k \in Z : k \in 1..n
      BY <1>1, <1>6
    <3>3. \A k : k \in Z /\ k # m + 1 <=> k \in 1..m
      BY <1>1
    <3> HIDE DEF Z
    <3>4. Z \ {m + 1} = 1..m
      BY <3>3
    <3> QED BY <3>1, <3>2, <3>4 DEF Z
  <2>2. m + 1 \in 1..n /\ (m + 1) - 1 = m /\ m + 1 \in 0..n
    BY <1>1, <1>6
  <2> HIDE DEF Z
  <2>3. Max(Z) = m + 1
    BY <2>1, GreatestIn
  <2>4. g[Z] = interpretPiece(g[1..m], s[m + 1])
    <3>1. g[Z] = IF Z = {} THEN list ELSE interpretPiece(g[Z \ {Max(Z)}], s[Max(Z)])
      BY <1>4, <2>1, Zenon
    <3> QED BY <2>1, <2>3, <3>1
  <2>5. h[m + 1] = interpretPiece(h[m], s[m + 1])
    BY <2>2 DEF Becomes, n
  <2>6. g[Z] = h[m + 1]
    BY <1>6, <2>4, <2>5
  <2> QED BY <2>2, <2>6 DEF Z
<1>7. n \in 0..n
  BY <1>1
<1> HIDE DEF T
<1>8. n \in T
  BY <1>1, <1>5, <1>6, <1>7, Counting
<1> QED BY <1>2, <1>8 DEF T, n
-----------------------------------------------------------------------------
(* Sequences of a few pieces. *)

LEMMA TwoIs ==
  ASSUME NEW S, NEW p \in S, NEW q \in S
  PROVE  Append(<<p>>, q) = <<p, q>> /\ <<p, q>> \in Seq(S) /\ Len(<<p, q>>) = 2
<1> DEFINE u == Append(<<p>>, q)
           v == <<p, q>>
<1>1. u \in Seq(S) /\ Len(u) = 2 /\ u[1] = p /\ u[2] = q
  OBVIOUS
<1>2. v \in Seq(S) /\ Len(v) = 2 /\ v[1] = p /\ v[2] = q
  OBVIOUS
<1> HIDE DEF u
<1>3. u = v
  BY <1>1
<1> QED BY <1>2, <1>3 DEF u

LEMMA ThreeIs ==
  ASSUME NEW S, NEW p \in S, NEW q \in S, NEW r \in S
  PROVE  /\ Append(<<p, q>>, r) = <<p, q, r>> /\ <<p, q, r>> \in Seq(S)
         /\ Len(<<p, q, r>>) = 3
<1> DEFINE u == Append(<<p, q>>, r)
<1>1. u \in Seq(S) /\ Len(u) = 3 /\ u[1] = p /\ u[2] = q /\ u[3] = r
  OBVIOUS
<1> HIDE DEF u
<1>2. u = <<p, q, r>>
  BY <1>1
<1> QED BY <1>2 DEF u

LEMMA FourIs ==
  ASSUME NEW m \in Msgs, NEW n \in Msgs
  PROVE  /\ Append(<<LF, n, CR>>, LF) = <<LF, n, CR, LF>> /\ Len(<<LF, n, CR, LF>>) = 4
         /\ SubSeq(<<LF, n, CR, LF>>, 1, 2) = <<LF, n>>
         /\ <<m, CR>> \o <<LF, n>> = <<m, CR, LF, n>> /\ Len(<<m, CR, LF, n>>) = 4
<1> DEFINE u == Append(<<LF, n, CR>>, LF)
           v == SubSeq(<<LF, n, CR, LF>>, 1, 2)
           w == <<m, CR>> \o <<LF, n>>
<1> m \in Pieces /\ n \in Pieces /\ CR \in Pieces /\ LF \in Pieces
  BY DEF Pieces
<1>1. u \in Seq(Pieces) /\ Len(u) = 4 /\ u[1] = LF /\ u[2] = n /\ u[3] = CR /\ u[4] = LF
  OBVIOUS
<1>2. v \in Seq(Pieces) /\ Len(v) = 2 /\ v[1] = LF /\ v[2] = n
  OBVIOUS
<1>3. w \in Seq(Pieces) /\ Len(w) = 4 /\ w[1] = m /\ w[2] = CR /\ w[3] = LF /\ w[4] = n
  OBVIOUS
<1>4. Len(<<LF, n, CR, LF>>) = 4 /\ Len(<<m, CR, LF, n>>) = 4
  OBVIOUS
<1> HIDE DEF u, v, w
<1>5. u = <<LF, n, CR, LF>>
  BY <1>1
<1>6. v = <<LF, n>>
  BY <1>2
<1>7. w = <<m, CR, LF, n>>
  BY <1>3
<1> QED BY <1>4, <1>5, <1>6, <1>7 DEF u, v, w

LEMMA HighestOf ==
  ASSUME NEW n \in Nat, NEW T \in SUBSET (1..n), T # {}
  PROVE  \E t \in T : \A u \in T : u <= t
<1> DEFINE U == {n - t : t \in T}
<1>1. U \in SUBSET Nat /\ U # {}
  <2>1. \A t \in T : n - t \in Nat
    OBVIOUS
  <2> QED BY <2>1
<1>2. PICK d \in U : \A u \in U : d <= u
  <2> HIDE DEF U
  <2> QED BY <1>1, LowestOf
<1>3. PICK t \in T : d = n - t
  BY <1>2
<1>4. ASSUME NEW u \in T  PROVE u <= t
  <2>1. n - t <= n - u
    BY <1>2, <1>3
  <2>2. t \in Nat /\ u \in Nat
    OBVIOUS
  <2> QED BY <2>1, <2>2
<1> QED BY <1>4

\* Two sequences one after the other.
LEMMA JoinedIs ==
  ASSUME NEW S, NEW a \in Seq(S), NEW b \in Seq(S)
  PROVE  /\ a \o b \in Seq(S) /\ Len(a \o b) = Len(a) + Len(b)
         /\ Len(a) \in Nat /\ Len(b) \in Nat
         /\ \A k \in 1..Len(a) : (a \o b)[k] = a[k]
         /\ \A k \in 1..Len(b) : (a \o b)[Len(a) + k] = b[k]
<1>1. a \o b \in Seq(S) /\ Len(a \o b) = Len(a) + Len(b)
  BY ConcatProperties
<1>2. \A k \in 1..Len(a) : (a \o b)[k] = a[k]
  OBVIOUS
<1>3. ASSUME NEW k \in 1..Len(b)  PROVE (a \o b)[Len(a) + k] = b[k]
  <2>1. Len(a) + k > Len(a) /\ Len(a) + k <= Len(a) + Len(b) /\ (Len(a) + k) - Len(a) = k
    OBVIOUS
  <2> QED BY <2>1
<1> QED BY <1>1, <1>2, <1>3

\* What is left behind the first e pieces.
Behind(s, e) == SubSeq(s, e + 1, Len(s))

LEMMA BehindIs ==
  ASSUME NEW S, NEW s \in Seq(S), NEW e \in 0..Len(s)
  PROVE  /\ Behind(s, e) \in Seq(S) /\ Len(Behind(s, e)) = Len(s) - e
         /\ \A k \in 1..(Len(s) - e) : Behind(s, e)[k] = s[k + e] /\ k + e \in 1..Len(s)
<1>1. \A k \in 1..(Len(s) - e) : k + e \in 1..Len(s)
  OBVIOUS
<1>2. Behind(s, e) \in Seq(S) /\ Len(Behind(s, e)) = Len(s) - e
  BY DEF Behind
<1>3. ASSUME NEW k \in 1..(Len(s) - e)  PROVE Behind(s, e)[k] = s[k + e]
  <2>1. (e + 1) + k - 1 = k + e /\ k \in 1..(Len(s) - (e + 1) + 1)
    OBVIOUS
  <2> QED BY <2>1 DEF Behind
<1> QED BY <1>1, <1>2, <1>3

\* A part of the front, and the rest of it, with what comes after them.
LEMMA BehindPart ==
  ASSUME NEW S, NEW s \in Seq(S), NEW n \in 0..Len(s), NEW e \in 0..n
  PROVE  Behind(SubSeq(s, 1, n), e) \o Behind(s, n) = Behind(s, e)
<1> DEFINE b == SubSeq(s, 1, n)
           x == Behind(b, e)
           y == Behind(s, n)
           z == Behind(s, e)
<1>1. b \in Seq(S) /\ Len(b) = n /\ (\A k \in 1..n : b[k] = s[k])
      /\ n \in Nat /\ e \in Nat /\ Len(s) \in Nat /\ n <= Len(s) /\ e <= n /\ e \in 0..Len(s)
  OBVIOUS
<1> HIDE DEF b
<1>2. x \in Seq(S) /\ Len(x) = n - e /\ \A k \in 1..(n - e) : x[k] = b[k + e] /\ k + e \in 1..n
  BY <1>1, BehindIs
<1>3. y \in Seq(S) /\ Len(y) = Len(s) - n /\ \A k \in 1..(Len(s) - n) : y[k] = s[k + n]
  BY <1>1, BehindIs
<1>4. z \in Seq(S) /\ Len(z) = Len(s) - e /\ \A k \in 1..(Len(s) - e) : z[k] = s[k + e]
  BY <1>1, BehindIs
<1> HIDE DEF x, y, z
<1>5. x \o y \in Seq(S) /\ Len(x \o y) = Len(x) + Len(y)
      /\ (\A k \in 1..Len(x) : (x \o y)[k] = x[k])
      /\ \A k \in 1..Len(y) : (x \o y)[Len(x) + k] = y[k]
  <2>1. x \in Seq(S) /\ y \in Seq(S)
    BY <1>2, <1>3
  <2> QED BY <2>1, JoinedIs
<1>6. Len(x \o y) = Len(z)
  BY <1>1, <1>2, <1>3, <1>4, <1>5
<1>7. ASSUME NEW k \in 1..Len(z)  PROVE (x \o y)[k] = z[k]
  <2>1. z[k] = s[k + e]
    BY <1>4
  <2>2. CASE k <= n - e
    <3>1. k \in 1..(n - e) /\ k \in 1..Len(x)
      BY <1>1, <1>2, <1>4, <2>2
    <3>2. k + e \in 1..n
      BY <1>1, <3>1
    <3>3. (x \o y)[k] = x[k] /\ x[k] = b[k + e] /\ b[k + e] = s[k + e]
      BY <1>1, <1>2, <1>5, <3>1, <3>2
    <3> QED BY <2>1, <3>3
  <2>3. CASE ~(k <= n - e)
    <3> DEFINE j == k - (n - e)
    <3>1. j \in 1..(Len(s) - n) /\ j \in 1..Len(y) /\ Len(x) + j = k /\ j + n = k + e
      BY <1>1, <1>2, <1>3, <1>4, <2>3
    <3> HIDE DEF j
    <3>2. (x \o y)[k] = y[j] /\ y[j] = s[j + n]
      BY <1>3, <1>5, <3>1
    <3> QED BY <2>1, <3>1, <3>2
  <2> QED BY <2>2, <2>3
<1> QED BY <1>4, <1>5, <1>6, <1>7, SeqEqual DEF b, x, y, z
-----------------------------------------------------------------------------
(* Messages, and what one does to the list. *)

LEMMA MsgIs ==
  ASSUME NEW m \in Msgs
  PROVE  /\ m.cmd \in {"JOIN", "LEAVE", "NICK", "NAMES"}
         /\ m.cmd # "NAMES" => m.nick \in Nicks
         /\ m.cmd = "NICK" => m.new \in Nicks
         /\ m.cmd = "NAMES" => m.names \in SUBSET Nicks /\ m.last \in Nicks
         /\ m # CR /\ m # LF
BY WireAssumption DEF Msgs

LEMMA MsgsAre ==
  /\ \A n \in Nicks : [cmd |-> "JOIN", nick |-> n] \in Msgs /\ [cmd |-> "LEAVE", nick |-> n] \in Msgs
  /\ \A n, m \in Nicks : [cmd |-> "NICK", nick |-> n, new |-> m] \in Msgs
  /\ \A s \in SUBSET Nicks : \A n \in Nicks : [cmd |-> "NAMES", names |-> s, last |-> n] \in Msgs
BY DEF Msgs

LEMMA CmdsAre ==
  /\ \A n \in Nicks : [cmd |-> "NICK", nick |-> n] \in Cmds
  /\ [cmd |-> "JOIN"] \in Cmds /\ [cmd |-> "PART"] \in Cmds /\ [cmd |-> "PART other"] \in Cmds
  /\ \A c \in Cmds : c.cmd \in {"NICK", "JOIN", "PART", "PART other"} /\ (c.cmd = "NICK" => c.nick \in Nicks)
BY DEF Cmds

LEMMA MessageType ==
  ASSUME NEW N, Nicks \subseteq N, NEW list \in SUBSET N, NEW m \in Msgs
  PROVE  interpretMessage(list, m) \in SUBSET N
<1>1. CASE m.cmd = "JOIN"
  BY <1>1, MsgIs DEF interpretMessage
<1>2. CASE m.cmd = "LEAVE"
  BY <1>2, MsgIs DEF interpretMessage
<1>3. CASE m.cmd = "NICK"
  BY <1>3, MsgIs DEF interpretMessage, renameUserInList
<1>4. CASE m.cmd = "NAMES"
  BY <1>4, MsgIs DEF interpretMessage
<1> QED BY <1>1, <1>2, <1>3, <1>4, MsgIs

LEMMA PieceType ==
  ASSUME NEW N, Nicks \subseteq N, NEW list \in SUBSET N, NEW x \in Pieces
  PROVE  interpretPiece(list, x) \in SUBSET N
BY MessageType DEF interpretPiece, Pieces

\* Two lines that ran into each other.
LEMMA GarbledType ==
  ASSUME NEW list \in SUBSET (Nicks \union {Garbage}), NEW m \in Msgs
  PROVE  interpretMessage(list, Garbled(m)) \in SUBSET (Nicks \union {Garbage})
<1>1. CASE m.cmd = "NICK"
  <2> DEFINE g == [m EXCEPT !.new = Garbage]
  <2>1. m \in [cmd : {"NICK"}, nick : Nicks, new : Nicks]
    BY <1>1 DEF Msgs
  <2>2. Garbled(m) = g /\ g.cmd = "NICK" /\ g.nick = m.nick /\ g.new = Garbage
    BY <1>1, <2>1 DEF Garbled
  <2> HIDE DEF g
  <2>3. interpretMessage(list, g) = renameUserInList(g.nick, g.new, list)
    BY <2>2 DEF interpretMessage
  <2> QED BY <2>2, <2>3 DEF renameUserInList
<1>2. CASE m.cmd = "NAMES"
  <2> DEFINE g == [m EXCEPT !.names = (@ \ {m.last}) \union {Garbage}]
  <2>1. m \in [cmd : {"NAMES"}, names : SUBSET Nicks, last : Nicks]
    BY <1>2 DEF Msgs
  <2>2. Garbled(m) = g /\ g.cmd = "NAMES" /\ g.names = (m.names \ {m.last}) \union {Garbage}
    BY <1>2, <2>1 DEF Garbled
  <2>3. m.names \in SUBSET Nicks
    BY <2>1
  <2> HIDE DEF g
  <2>4. interpretMessage(list, g) = list \union g.names
    BY <2>2 DEF interpretMessage
  <2> QED BY <2>2, <2>3, <2>4
<1>3. CASE m.cmd \in {"JOIN", "LEAVE"}
  <2>1. Garbled(m) = m
    BY <1>3 DEF Garbled
  <2> QED BY <2>1, MessageType
<1> QED BY <1>1, <1>2, <1>3, MsgIs

\* What the pieces of a sequence make of the list, one after the other.
LEMMA Interpreting ==
  ASSUME NEW N, Nicks \subseteq N, NEW list \in SUBSET N, NEW s \in Seq(Pieces)
  PROVE  \E h \in [0..Len(s) -> SUBSET N] : h[0] = list /\ Becomes(h, s, Len(s))
<1> DEFINE n == Len(s)
           T == {m \in 0..n : \E h \in [0..m -> SUBSET N] : h[0] = list /\ Becomes(h, s, m)}
<1>1. n \in Nat /\ \A k \in 1..n : s[k] \in Pieces
  OBVIOUS
<1> HIDE DEF n
<1>2. 0 \in T
  <2> DEFINE h == [k \in 0..0 |-> list]
  <2>1. h \in [0..0 -> SUBSET N] /\ h[0] = list
    OBVIOUS
  <2>2. Becomes(h, s, 0)
    BY DEF Becomes
  <2> HIDE DEF h
  <2>3. 0 \in 0..n
    BY <1>1
  <2> QED BY <2>1, <2>2, <2>3
<1>3. ASSUME NEW m \in 0..n, m \in T, m < n  PROVE m + 1 \in T
  <2>1. PICK h \in [0..m -> SUBSET N] : h[0] = list /\ Becomes(h, s, m)
    BY <1>3
  <2> DEFINE w == interpretPiece(h[m], s[m + 1])
             g == [k \in 0..(m + 1) |-> IF k = m + 1 THEN w ELSE h[k]]
  <2>2. m \in Nat /\ m + 1 \in 1..n /\ m + 1 \in 0..n /\ h[m] \in SUBSET N
    BY <1>1, <1>3
  <2>3. w \in SUBSET N
    BY <1>1, <2>2, PieceType
  <2> HIDE DEF w
  <2>4. g \in [0..(m + 1) -> SUBSET N] /\ g[m + 1] = w /\ (\A k \in 0..m : g[k] = h[k])
    BY <2>2, <2>3
  <2>5. g[0] = list
    BY <2>1, <2>2, <2>4
  <2> HIDE DEF g
  <2>6. ASSUME NEW k \in 1..(m + 1)  PROVE g[k] = interpretPiece(g[k - 1], s[k])
    <3>1. CASE k = m + 1
      <4>1. k - 1 = m /\ m \in 0..m
        BY <2>2, <3>1
      <4> QED BY <2>4, <3>1, <4>1 DEF w
    <3>2. CASE k # m + 1
      <4>1. k \in 1..m /\ k \in 0..m /\ k - 1 \in 0..m
        BY <2>2, <3>2
      <4>2. h[k] = interpretPiece(h[k - 1], s[k])
        BY <2>1, <4>1 DEF Becomes
      <4> QED BY <2>4, <4>1, <4>2
    <3> QED BY <3>1, <3>2
  <2>7. Becomes(g, s, m + 1)
    BY <2>6 DEF Becomes
  <2> QED BY <2>2, <2>4, <2>5, <2>7
<1>4. n \in 0..n
  BY <1>1
<1> HIDE DEF T
<1>5. n \in T
  BY <1>1, <1>2, <1>3, <1>4, Counting
<1> QED BY <1>5 DEF T, n
-----------------------------------------------------------------------------
(* Lines, and the stream of them.                                          *)

Follows(x, y) == /\ x \in Msgs => y = CR
                 /\ x = CR => y = LF
                 /\ x = LF => y \in Msgs

\* It begins with a line, and one line comes after the other.
Lined(s) == /\ s \in Seq(Pieces)
            /\ s # <<>> => s[1] \in Msgs
            /\ \A k \in 1..(Len(s) - 1) : Follows(s[k], s[k + 1])

Whole(s) == s # <<>> => s[Len(s)] = LF

LEMMA LinedBehind ==
  ASSUME NEW s, Lined(s), NEW e \in 0..Len(s), e = 0 \/ s[e] = LF
  PROVE  /\ Lined(Behind(s, e))
         /\ Whole(s) => Whole(Behind(s, e))
<1> DEFINE t == Behind(s, e)
<1>1. s \in Seq(Pieces) /\ Len(s) \in Nat /\ e \in Nat
  BY DEF Lined
<1>2. /\ t \in Seq(Pieces) /\ Len(t) = Len(s) - e
      /\ \A k \in 1..(Len(s) - e) : t[k] = s[k + e] /\ k + e \in 1..Len(s)
  BY <1>1, BehindIs
<1> HIDE DEF t
<1>3. ASSUME t # <<>>  PROVE t[1] \in Msgs
  <2>1. Len(t) > 0 /\ 1 \in 1..(Len(s) - e) /\ 1 + e = e + 1
    BY <1>1, <1>2, <1>3
  <2>2. t[1] = s[e + 1]
    BY <1>2, <2>1
  <2>3. CASE e = 0
    BY <1>1, <1>2, <2>1, <2>2, <2>3 DEF Lined
  <2>4. CASE e # 0
    <3>1. e \in 1..(Len(s) - 1)
      BY <1>1, <2>1, <2>4
    <3>2. Follows(s[e], s[e + 1]) /\ s[e] = LF
      BY <2>4, <3>1 DEF Lined
    <3> QED BY <2>2, <3>2 DEF Follows
  <2> QED BY <2>3, <2>4
<1>4. ASSUME NEW k \in 1..(Len(t) - 1)  PROVE Follows(t[k], t[k + 1])
  <2>1. /\ k \in 1..(Len(s) - e) /\ k + 1 \in 1..(Len(s) - e)
        /\ k + e \in 1..(Len(s) - 1) /\ (k + 1) + e = (k + e) + 1
    BY <1>1, <1>2
  <2>2. t[k] = s[k + e] /\ t[k + 1] = s[(k + e) + 1]
    BY <1>2, <2>1
  <2>3. Follows(s[k + e], s[(k + e) + 1])
    BY <2>1 DEF Lined
  <2> QED BY <2>2, <2>3
<1>5. ASSUME Whole(s), t # <<>>  PROVE t[Len(t)] = LF
  <2>1. Len(t) > 0
    BY <1>2, <1>5
  <2>2. Len(t) \in 1..(Len(s) - e) /\ Len(t) + e = Len(s) /\ s # <<>>
    BY <1>1, <1>2, <2>1
  <2> QED BY <1>2, <1>5, <2>2 DEF Whole
<1> QED BY <1>2, <1>3, <1>4, <1>5 DEF Lined, Whole, t

LEMMA LinedFront ==
  ASSUME NEW s, Lined(s), NEW n \in 0..Len(s)
  PROVE  Lined(SubSeq(s, 1, n)) /\ Len(SubSeq(s, 1, n)) = n
         /\ \A k \in 1..n : SubSeq(s, 1, n)[k] = s[k]
<1> DEFINE t == SubSeq(s, 1, n)
<1>1. s \in Seq(Pieces) /\ Len(s) \in Nat /\ n \in Nat
  BY DEF Lined
<1>2. t \in Seq(Pieces) /\ Len(t) = n /\ \A k \in 1..n : t[k] = s[k]
  BY <1>1
<1> HIDE DEF t
<1>3. ASSUME t # <<>>  PROVE t[1] \in Msgs
  <2>1. n > 0 /\ 1 \in 1..n /\ s # <<>>
    BY <1>1, <1>2, <1>3
  <2> QED BY <1>2, <2>1 DEF Lined
<1>4. ASSUME NEW k \in 1..(n - 1)  PROVE Follows(t[k], t[k + 1])
  <2>1. k \in 1..n /\ k + 1 \in 1..n /\ k \in 1..(Len(s) - 1)
    BY <1>1
  <2> QED BY <1>2, <2>1 DEF Lined
<1> QED BY <1>2, <1>3, <1>4 DEF Lined, t

LEMMA LineIs ==
  ASSUME NEW m \in Msgs
  PROVE  /\ Line(m) \in Seq(Pieces) /\ Len(Line(m)) = 3
         /\ Line(m)[1] = m /\ Line(m)[2] = CR /\ Line(m)[3] = LF
BY DEF Line, Pieces

\* t is s and a line.
More(s, t, m) ==
    /\ t \in Seq(Pieces) /\ Len(t) = Len(s) + 3
    /\ \A k \in 1..Len(s) : t[k] = s[k]
    /\ t[Len(s) + 1] = m /\ t[Len(s) + 2] = CR /\ t[Len(s) + 3] = LF

LEMMA MoreIs ==
  ASSUME NEW s \in Seq(Pieces), NEW m \in Msgs
  PROVE  More(s, s \o Line(m), m)
<1> DEFINE l == Line(m)
<1>1. l \in Seq(Pieces) /\ Len(l) = 3 /\ l[1] = m /\ l[2] = CR /\ l[3] = LF
  BY LineIs
<1> HIDE DEF l
<1>2. /\ s \o l \in Seq(Pieces) /\ Len(s \o l) = Len(s) + Len(l)
      /\ (\A k \in 1..Len(s) : (s \o l)[k] = s[k])
      /\ \A k \in 1..Len(l) : (s \o l)[Len(s) + k] = l[k]
  <2>1. l \in Seq(Pieces)
    BY <1>1
  <2> QED BY <2>1, JoinedIs
<1>3. 1 \in 1..Len(l) /\ 2 \in 1..Len(l) /\ 3 \in 1..Len(l)
  BY <1>1
<1> QED BY <1>1, <1>2, <1>3, Zenon DEF More, l

LEMMA LinedMore ==
  ASSUME NEW s, NEW t, NEW m \in Msgs, Lined(s), Whole(s), More(s, t, m)
  PROVE  Lined(t) /\ Whole(t)
<1> DEFINE n == Len(s)
<1>1. n \in Nat /\ t \in Seq(Pieces) /\ Len(t) = n + 3 /\ (\A k \in 1..n : t[k] = s[k])
      /\ t[n + 1] = m /\ t[n + 2] = CR /\ t[n + 3] = LF
  BY DEF Lined, More
<1>2. n > 0 => s # <<>> /\ s[n] = LF /\ s[1] \in Msgs
  BY <1>1 DEF Lined, Whole
<1> HIDE DEF n
<1>3. t[1] \in Msgs
  <2>1. CASE n = 0
    BY <1>1, <2>1
  <2>2. CASE n # 0
    <3>1. 1 \in 1..n
      BY <1>1, <2>2
    <3> QED BY <1>1, <1>2, <3>1
  <2> QED BY <2>1, <2>2
<1>4. ASSUME NEW k \in 1..(Len(t) - 1)  PROVE Follows(t[k], t[k + 1])
  <2>1. k < n \/ k = n \/ k = n + 1 \/ k = n + 2
    BY <1>1
  <2>2. CASE k < n
    <3>1. k \in 1..n /\ k + 1 \in 1..n /\ k \in 1..(n - 1)
      BY <1>1, <2>2
    <3>2. Follows(s[k], s[k + 1])
      BY <3>1 DEF Lined, n
    <3> QED BY <1>1, <3>1, <3>2
  <2>3. CASE k = n
    <3>1. n \in 1..n /\ n > 0
      BY <1>1, <2>3
    <3>2. t[k] = LF /\ t[k + 1] = m
      BY <1>1, <1>2, <2>3, <3>1
    <3> QED BY <3>2, WireAssumption DEF Follows
  <2>4. CASE k = n + 1
    <3>1. t[k] = m /\ t[k + 1] = CR
      <4>1. (n + 1) + 1 = n + 2
        BY <1>1
      <4> QED BY <1>1, <2>4, <4>1
    <3> QED BY <3>1, WireAssumption DEF Follows
  <2>5. CASE k = n + 2
    <3>1. t[k] = CR /\ t[k + 1] = LF
      <4>1. (n + 2) + 1 = n + 3
        BY <1>1
      <4> QED BY <1>1, <2>5, <4>1
    <3> QED BY <3>1, WireAssumption DEF Follows
  <2> QED BY <2>1, <2>2, <2>3, <2>4, <2>5
<1>5. t # <<>> /\ t[Len(t)] = LF
  BY <1>1
<1> QED BY <1>1, <1>3, <1>4, <1>5 DEF Lined, Whole

\* A line that has not ended.
LEMMA LinedShort ==
  ASSUME NEW r, Lined(r), \A k \in 1..Len(r) : r[k] # LF
  PROVE  r = <<>> \/ \E m \in Msgs : r = <<m>> \/ r = <<m, CR>>
<1>1. r \in Seq(Pieces) /\ Len(r) \in Nat
  BY DEF Lined
<1>2. CASE Len(r) = 0
  BY <1>1, <1>2
<1>3. CASE Len(r) = 1
  <2>1. r = <<r[1]>> /\ r # <<>>
    BY <1>1, <1>3
  <2>2. r[1] \in Msgs
    BY <2>1 DEF Lined
  <2> QED BY <2>1, <2>2
<1>4. CASE Len(r) >= 2
  <2>1. r # <<>> /\ 1 \in 1..(Len(r) - 1) /\ 1 + 1 = 2
    BY <1>1, <1>4
  <2>2. r[1] \in Msgs /\ r[2] = CR
    BY <2>1 DEF Lined, Follows
  <2>3. Len(r) = 2
    <3>1. ASSUME Len(r) >= 3  PROVE FALSE
      <4>1. 2 \in 1..(Len(r) - 1) /\ 2 + 1 = 3 /\ 3 \in 1..Len(r)
        BY <1>1, <3>1
      <4>2. r[3] = LF
        BY <2>2, <4>1 DEF Lined, Follows
      <4> QED BY <4>1, <4>2
    <3> DEFINE n == Len(r)
    <3>2. n \in Nat /\ n >= 2 /\ ~(n >= 3)
      BY <1>1, <1>4, <3>1, Zenon
    <3> HIDE DEF n
    <3>3. n = 2
      BY <3>2
    <3> QED BY <3>3 DEF n
  <2>4. r = <<r[1], CR>>
    BY <1>1, <2>2, <2>3
  <2>5. \E m \in Msgs : r = <<m>> \/ r = <<m, CR>>
    <3> DEFINE m == r[1]
    <3>1. m \in Msgs /\ r = <<m, CR>>
      BY <2>2, <2>4
    <3> HIDE DEF m
    <3> QED BY <3>1, Zenon
  <2> QED BY <2>5, Zenon
<1>5. Len(r) = 0 \/ Len(r) = 1 \/ Len(r) >= 2
  <2> DEFINE n == Len(r)
  <2>1. n \in Nat
    BY <1>1
  <2> HIDE DEF n
  <2>2. n = 0 \/ n = 1 \/ n >= 2
    BY <2>1
  <2> QED BY <2>2 DEF n
<1> QED BY <1>2, <1>3, <1>4, <1>5, Zenon

\* The last CR LF of what recv returned.
LEMMA EndIs ==
  ASSUME NEW b, Lined(b)
  PROVE  /\ LastEnd(b) \in 0..Len(b)
         /\ LastEnd(b) = 0 \/ b[LastEnd(b)] = LF
         /\ \A k \in (LastEnd(b) + 1)..Len(b) : b[k] # LF
<1>1. b \in Seq(Pieces) /\ Len(b) \in Nat
  BY DEF Lined
<1>2. ASSUME NEW k \in 1..Len(b), b[k] = LF  PROVE k \in LineEnds(b)
  <2>1. k # 1
    <3> SUFFICES ASSUME k = 1 PROVE FALSE
      OBVIOUS
    <3>1. b # <<>>
      BY <1>1
    <3> QED BY <1>2, <3>1, WireAssumption DEF Lined
  <2>2. k \in 2..Len(b) /\ k - 1 \in 1..(Len(b) - 1) /\ (k - 1) + 1 = k /\ k - 1 \in 1..Len(b)
    BY <1>1, <2>1
  <2>3. Follows(b[k - 1], b[k]) /\ b[k - 1] \in Pieces
    BY <1>1, <2>2 DEF Lined
  <2>4. b[k - 1] = CR
    BY <1>2, <2>3, WireAssumption DEF Follows, Pieces
  <2> QED BY <1>2, <2>2, <2>4 DEF LineEnds
<1>3. CASE LineEnds(b) = {}
  <2>1. LastEnd(b) = 0
    BY <1>3 DEF LastEnd
  <2> QED BY <1>1, <1>2, <1>3, <2>1
<1>4. CASE LineEnds(b) # {}
  <2>1. LineEnds(b) \in SUBSET (1..Len(b))
    BY <1>1 DEF LineEnds
  <2>2. \E k \in LineEnds(b) : \A j \in LineEnds(b) : j <= k
    <3> DEFINE E == LineEnds(b)
               n == Len(b)
    <3>1. n \in Nat /\ E \in SUBSET (1..n) /\ E # {}
      BY <1>1, <1>4, <2>1
    <3> HIDE DEF E, n
    <3>2. \E k \in E : \A j \in E : j <= k
      BY <3>1, HighestOf
    <3> QED BY <3>2 DEF E
  <2>3. LastEnd(b) \in LineEnds(b) /\ \A j \in LineEnds(b) : j <= LastEnd(b)
    BY <1>4, <2>2, Zenon DEF LastEnd
  <2>4. LastEnd(b) \in 1..Len(b) /\ b[LastEnd(b)] = LF
    BY <2>1, <2>3 DEF LineEnds
  <2>5. ASSUME NEW k \in (LastEnd(b) + 1)..Len(b)  PROVE b[k] # LF
    <3>1. k \in 1..Len(b) /\ ~(k <= LastEnd(b))
      BY <1>1, <2>4
    <3> QED BY <1>2, <2>3, <3>1
  <2> QED BY <1>1, <2>4, <2>5
<1> QED BY <1>3, <1>4

LEMMA RestIs ==
  ASSUME NEW b, Lined(b)
  PROVE  /\ Rest(b) = Behind(b, LastEnd(b)) /\ Lined(Rest(b))
         /\ Rest(b) = <<>> \/ \E m \in Msgs : Rest(b) = <<m>> \/ Rest(b) = <<m, CR>>
<1> DEFINE r == Rest(b)
           e == LastEnd(b)
<1>1. b \in Seq(Pieces) /\ e \in 0..Len(b) /\ (e = 0 \/ b[e] = LF) /\ Len(b) \in Nat
      /\ \A k \in (e + 1)..Len(b) : b[k] # LF
  BY EndIs DEF Lined
<1>2. r = Behind(b, e)
  BY DEF Rest, Behind
<1> HIDE DEF e, r
<1>3. Lined(r)
  BY <1>1, <1>2, LinedBehind
<1>4. Len(r) = Len(b) - e /\ \A k \in 1..(Len(b) - e) : r[k] = b[k + e]
  BY <1>1, <1>2, BehindIs
<1>5. ASSUME NEW k \in 1..Len(r)  PROVE r[k] # LF
  <2>1. k \in 1..(Len(b) - e) /\ k + e \in (e + 1)..Len(b)
    BY <1>1, <1>4
  <2> QED BY <1>1, <1>4, <2>1
<1>6. r = <<>> \/ \E m \in Msgs : r = <<m>> \/ r = <<m, CR>>
  BY <1>3, <1>5, LinedShort
<1> QED BY <1>2, <1>3, <1>6 DEF r, e
-----------------------------------------------------------------------------
(* What readLine holds, and what is on its way.                            *)

Stream == inBuff \o inBuff2 \o down

\* Of the line after one that was cut before its LF.
Gap(b) == b = <<>> \/ b = <<LF>> \/ \E m \in Msgs : b = <<LF, m>> \/ b = <<LF, m, CR>>

InHand ==
    /\ pc # "rest" => inBuff = <<>> /\ inBuff2 = <<>>
    /\ pc = "rest" =>
          \/ \E m \in Msgs : inBuff = <<m>> /\ (inBuff2 = <<>> \/ inBuff2 = <<CR>>)
          \/ "split" \in seen /\ (\E m \in Msgs : inBuff = <<m, CR>>) /\ Gap(inBuff2)

Wire == /\ inBuff \in Seq(Pieces) /\ inBuff2 \in Seq(Pieces) /\ down \in Seq(Pieces)
        /\ Lined(Stream)
        /\ closed = "no" => Whole(Stream)
        /\ InHand

\* A step of readLine: pieces of complete lines leave the stream, and the list
\* becomes what they make of it.
Advances ==
    \E e \in 0..Len(Stream) :
       /\ Stream' = Behind(Stream, e)
       /\ e = 0 \/ Stream[e] = LF
       /\ "split" \notin seen' /\ userList \in SUBSET Nicks =>
             \E h \in [0..e -> SUBSET Nicks] :
                h[0] = userList /\ Becomes(h, Stream, e) /\ userList' = h[e]

LEMMA EmptyBefore ==
  ASSUME NEW d \in Seq(Pieces)
  PROVE  (<<>> \o <<>>) \o d = d
OBVIOUS

\* The next piece goes from the stream s, of which n are held, to what is held of it.
Held(a, b, d, s, n) ==
    /\ s \in Seq(Pieces) /\ n \in Nat /\ n + 1 \in 1..Len(s)
    /\ s[n + 1] = Head(d)
    /\ \A k \in 1..Len(b) : s[Len(a) + k] = b[k]
    /\ \A k \in 1..Len(a) : s[k] = a[k]
    /\ Tail(d) = Behind(s, n + 1) /\ Tail(d) \in Seq(Pieces)
    /\ (a \o Append(b, Head(d))) \o Tail(d) = s

LEMMA HeldIs ==
  ASSUME NEW a \in Seq(Pieces), NEW b \in Seq(Pieces), NEW d \in Seq(Pieces), d # <<>>
  PROVE  Held(a, b, d, (a \o b) \o d, Len(a) + Len(b))
<1> DEFINE s == (a \o b) \o d
           n == Len(a) + Len(b)
           x == Head(d)
           t == Tail(d)
           c == a \o b
           b2 == Append(b, x)
           c2 == a \o b2
           z == Behind(s, n + 1)
<1>1. /\ x \in Pieces /\ t \in Seq(Pieces) /\ Len(d) \in Nat \ {0} /\ Len(t) = Len(d) - 1
      /\ d[1] = x /\ \A k \in 1..(Len(d) - 1) : t[k] = d[k + 1]
  OBVIOUS
<1>2. /\ c \in Seq(Pieces) /\ Len(c) = n /\ n \in Nat /\ Len(a) \in Nat /\ Len(b) \in Nat
      /\ (\A k \in 1..Len(a) : c[k] = a[k]) /\ \A k \in 1..Len(b) : c[Len(a) + k] = b[k]
  BY JoinedIs
<1> HIDE DEF c
<1>3. /\ s \in Seq(Pieces) /\ Len(s) = n + Len(d)
      /\ (\A k \in 1..n : s[k] = c[k]) /\ \A k \in 1..Len(d) : s[n + k] = d[k]
  <2>1. c \o d \in Seq(Pieces) /\ Len(c \o d) = Len(c) + Len(d)
        /\ (\A k \in 1..Len(c) : (c \o d)[k] = c[k])
        /\ \A k \in 1..Len(d) : (c \o d)[Len(c) + k] = d[k]
    <3>1. c \in Seq(Pieces)
      BY <1>2
    <3> QED BY <3>1, JoinedIs
  <2> QED BY <1>2, <2>1 DEF c
<1>4. /\ b2 \in Seq(Pieces) /\ Len(b2) = Len(b) + 1 /\ b2[Len(b) + 1] = x
      /\ \A k \in 1..Len(b) : b2[k] = b[k]
  <2> HIDE DEF x
  <2> QED BY <1>1
<1> HIDE DEF x, t, s, b2
<1>5. /\ c2 \in Seq(Pieces) /\ Len(c2) = n + 1
      /\ (\A k \in 1..Len(a) : c2[k] = a[k]) /\ \A k \in 1..Len(b2) : c2[Len(a) + k] = b2[k]
  <2>1. c2 \in Seq(Pieces) /\ Len(c2) = Len(a) + Len(b2)
        /\ (\A k \in 1..Len(a) : c2[k] = a[k]) /\ \A k \in 1..Len(b2) : c2[Len(a) + k] = b2[k]
    <3>1. b2 \in Seq(Pieces)
      BY <1>4
    <3> QED BY <3>1, JoinedIs
  <2> QED BY <1>2, <1>4, <2>1
<1> HIDE DEF c2, n
<1>6. n + 1 \in 1..Len(s) /\ s[n + 1] = x
  <2>1. 1 \in 1..Len(d)
    BY <1>1
  <2> QED BY <1>1, <1>2, <1>3, <2>1
<1>7. \A k \in 1..Len(a) : k \in 1..n /\ s[k] = a[k]
  BY <1>2, <1>3 DEF n
<1>8. \A k \in 1..Len(b) : Len(a) + k \in 1..n /\ s[Len(a) + k] = b[k]
  BY <1>2, <1>3 DEF n
<1>9. t = z
  <2>1. z \in Seq(Pieces) /\ Len(z) = Len(s) - (n + 1)
        /\ \A k \in 1..(Len(s) - (n + 1)) : z[k] = s[k + (n + 1)]
    <3>1. n + 1 \in 0..Len(s)
      BY <1>2, <1>6
    <3> DEFINE e == n + 1
    <3> HIDE DEF e
    <3>2. e \in 0..Len(s) /\ s \in Seq(Pieces)
      BY <1>3, <3>1 DEF e
    <3>3. Behind(s, e) \in Seq(Pieces) /\ Len(Behind(s, e)) = Len(s) - e
          /\ \A k \in 1..(Len(s) - e) : Behind(s, e)[k] = s[k + e]
      BY <3>2, BehindIs
    <3> QED BY <3>3 DEF e
  <2> HIDE DEF z
  <2>2. Len(z) = Len(t)
    BY <1>1, <1>2, <1>3, <2>1
  <2>3. ASSUME NEW k \in 1..Len(t)  PROVE t[k] = z[k]
    <3>1. k \in 1..(Len(s) - (n + 1)) /\ k + 1 \in 1..Len(d) /\ n + (k + 1) = k + (n + 1)
          /\ k \in 1..(Len(d) - 1)
      BY <1>1, <1>2, <1>3
    <3>2. z[k] = s[n + (k + 1)] /\ s[n + (k + 1)] = d[k + 1] /\ t[k] = d[k + 1]
      BY <1>1, <1>3, <2>1, <3>1
    <3> QED BY <3>2
  <2> QED BY <1>1, <2>1, <2>2, <2>3, SeqEqual
<1>10. c2 \o t = s
  <2>1. /\ c2 \o t \in Seq(Pieces) /\ Len(c2 \o t) = (n + 1) + Len(t)
        /\ (\A k \in 1..(n + 1) : (c2 \o t)[k] = c2[k])
        /\ \A k \in 1..Len(t) : (c2 \o t)[(n + 1) + k] = t[k]
    <3>1. /\ c2 \o t \in Seq(Pieces) /\ Len(c2 \o t) = Len(c2) + Len(t)
          /\ (\A k \in 1..Len(c2) : (c2 \o t)[k] = c2[k])
          /\ \A k \in 1..Len(t) : (c2 \o t)[Len(c2) + k] = t[k]
      <4>1. c2 \in Seq(Pieces) /\ t \in Seq(Pieces)
        BY <1>1, <1>5
      <4> QED BY <4>1, JoinedIs
    <3> QED BY <1>5, <3>1, Zenon
  <2>2. Len(c2 \o t) = Len(s)
    BY <1>1, <1>2, <1>3, <2>1
  <2>3. ASSUME NEW k \in 1..Len(s)  PROVE (c2 \o t)[k] = s[k]
    <3>1. k \in 1..Len(a) \/ (k - Len(a) \in 1..Len(b) /\ Len(a) + (k - Len(a)) = k)
          \/ k = n + 1 \/ k - (n + 1) \in 1..Len(t)
      <4> DEFINE A == Len(a)
                 B == Len(b)
                 D == Len(d)
      <4>1. A \in Nat /\ B \in Nat /\ D \in Nat \ {0} /\ k \in 1..(A + B + D)
            /\ n = A + B /\ Len(t) = D - 1
        BY <1>1, <1>2, <1>3 DEF n
      <4> HIDE DEF A, B, D
      <4>2. k \in 1..A \/ (k - A \in 1..B /\ A + (k - A) = k) \/ k = (A + B) + 1
            \/ k - ((A + B) + 1) \in 1..(D - 1)
        BY <4>1
      <4> QED BY <4>1, <4>2 DEF A, B
    <3>2. CASE k \in 1..Len(a)
      <4>1. k \in 1..(n + 1)
        BY <1>2, <3>2 DEF n
      <4> QED BY <1>5, <1>7, <2>1, <3>2, <4>1
    <3>3. CASE k - Len(a) \in 1..Len(b) /\ Len(a) + (k - Len(a)) = k
      <4> DEFINE j == k - Len(a)
      <4>1. j \in 1..Len(b) /\ Len(a) + j = k /\ j \in 1..Len(b2)
        BY <1>2, <1>4, <3>3
      <4>2. k \in 1..(n + 1)
        BY <1>2, <3>3 DEF n
      <4> HIDE DEF j
      <4>3. c2[k] = b2[j] /\ b2[j] = b[j] /\ s[k] = b[j]
        BY <1>4, <1>5, <1>8, <4>1
      <4> QED BY <2>1, <4>2, <4>3
    <3>4. CASE k = n + 1
      <4>1. k \in 1..(n + 1) /\ Len(b) + 1 \in 1..Len(b2) /\ Len(a) + (Len(b) + 1) = k
        BY <1>2, <1>4, <3>4 DEF n
      <4>2. c2[k] = b2[Len(b) + 1]
        BY <1>5, <4>1
      <4> QED BY <1>4, <1>6, <2>1, <3>4, <4>1, <4>2
    <3>5. CASE k - (n + 1) \in 1..Len(t)
      <4> DEFINE j == k - (n + 1)
      <4>1. j \in 1..Len(t) /\ (n + 1) + j = k /\ j + 1 \in 1..Len(d) /\ n + (j + 1) = k
            /\ j \in 1..(Len(d) - 1)
        BY <1>1, <1>2, <3>5
      <4> HIDE DEF j
      <4>2. (c2 \o t)[k] = t[j] /\ t[j] = d[j + 1] /\ s[k] = d[j + 1]
        BY <1>1, <1>3, <2>1, <4>1
      <4> QED BY <4>2
    <3> QED BY <3>1, <3>2, <3>3, <3>4, <3>5
  <2> QED BY <1>3, <2>1, <2>2, <2>3, SeqEqual
<1> QED BY <1>1, <1>2, <1>3, <1>6, <1>7, <1>8, <1>9, <1>10 DEF s, n, x, t, c2, b2, c, Held

\* The types, by what the provers are good at.
Flags == {isConnected, registered, isInChannel} \subseteq BOOLEAN

Names(sn) == Nicks \union (IF "split" \in sn THEN {Garbage} ELSE {})

Numbers == /\ stale \in Nat /\ srv.number \in 0..MaxServers
           /\ closed = "no" => isConnected
           /\ registered => stale + 1 <= srv.number
           /\ stale <= srv.number

Seated == /\ srv.joined => srv.nick # NoNick
          /\ srv.nick \notin srv.others

\* recv, and the complete lines of what it returned.
LEMMA ReceivedTakes ==
  ASSUME pc \in {"main", "recv"}, Wire, seen \subseteq Happenings,
         userList \subseteq Names(seen), Received
  PROVE  /\ Advances /\ Wire'
         /\ userList' \subseteq Names(seen')
         /\ pc' \in {"main", "rest"} /\ Len(inBuff') <= 2 /\ Len(inBuff2') = 0
         /\ seen' \subseteq Happenings /\ seen \subseteq seen'
<1>1. inBuff = <<>> /\ inBuff2 = <<>> /\ down \in Seq(Pieces)
  BY DEF Wire, InHand
<1>2. Stream = down /\ Lined(down)
  BY <1>1, EmptyBefore DEF Stream, Wire
<1>3. PICK n \in 1..Len(down) :
         LET b == SubSeq(down, 1, n)
         IN  /\ down' = SubSeq(down, n + 1, Len(down))
             /\ userList' = FoldLeft(interpretPiece, userList, SubSeq(b, 1, LastEnd(b)))
             /\ inBuff' = Rest(b)
             /\ inBuff2' = <<>>
             /\ pc' = IF Rest(b) = <<>> THEN "main" ELSE "rest"
             /\ seen' = IF Rest(b) # <<>> /\ Last(Rest(b)) = CR
                        THEN seen \union {"split"} ELSE seen
             /\ UNCHANGED <<isConnected, registered, stale, isInChannel, myNick,
                            srv, up, closed>>
  <2>1. PICK n \in 1..(IF Len(down) < MaxCommandLen THEN Len(down) ELSE MaxCommandLen) :
         LET b == SubSeq(down, 1, n)
         IN  /\ down' = SubSeq(down, n + 1, Len(down))
             /\ userList' = FoldLeft(interpretPiece, userList, SubSeq(b, 1, LastEnd(b)))
             /\ inBuff' = Rest(b)
             /\ inBuff2' = <<>>
             /\ pc' = IF Rest(b) = <<>> THEN "main" ELSE "rest"
             /\ seen' = IF Rest(b) # <<>> /\ Last(Rest(b)) = CR
                        THEN seen \union {"split"} ELSE seen
             /\ UNCHANGED <<isConnected, registered, stale, isInChannel, myNick,
                            srv, up, closed>>
    BY Zenon DEF Received
  <2>2. n \in 1..Len(down)
    BY <1>1, SizeAssumption
  <2> QED BY <2>1, <2>2, Zenon
<1> DEFINE b == SubSeq(down, 1, n)
           e == LastEnd(b)
           l == SubSeq(b, 1, e)
<1>4. n \in 0..Len(down) /\ n \in Nat
  BY <1>1
<1>5. Lined(b) /\ Len(b) = n /\ \A k \in 1..n : b[k] = down[k]
  BY <1>2, <1>4, LinedFront
<1>6. Behind(b, e) \o Behind(down, n) = Behind(down, e) /\ e \in 0..n
  <2>1. e \in 0..n
    BY <1>5, EndIs
  <2> HIDE DEF e
  <2> QED BY <1>1, <1>4, <2>1, BehindPart DEF b
<1> HIDE DEF b
<1>7. e = 0 \/ b[e] = LF
  BY <1>5, EndIs
<1>8. /\ Rest(b) = Behind(b, e) /\ Lined(Rest(b))
      /\ Rest(b) = <<>> \/ \E m \in Msgs : Rest(b) = <<m>> \/ Rest(b) = <<m, CR>>
  BY <1>5, RestIs
<1>9. /\ Lined(l) /\ Len(l) = e /\ \A k \in 1..e : l[k] = b[k]
  BY <1>5, <1>6, LinedFront
<1> HIDE DEF e, l
<1>10. /\ down' = Behind(down, n) /\ userList' = FoldLeft(interpretPiece, userList, l)
       /\ inBuff' = Rest(b) /\ inBuff2' = <<>>
       /\ pc' = IF Rest(b) = <<>> THEN "main" ELSE "rest"
       /\ seen' = IF Rest(b) # <<>> /\ Last(Rest(b)) = CR THEN seen \union {"split"} ELSE seen
       /\ closed' = closed /\ up' = up
  BY <1>3 DEF b, e, l, Behind
<1>11. e \in 0..Len(down) /\ (e = 0 \/ down[e] = LF) /\ Len(down) \in Nat
  <2>1. e \in 0..Len(down) /\ Len(down) \in Nat
    BY <1>1, <1>4, <1>6
  <2>2. e # 0 => e \in 1..n
    BY <1>4, <1>6
  <2> QED BY <1>5, <1>7, <2>1, <2>2
<1>12. inBuff' \in Seq(Pieces) /\ down' \in Seq(Pieces)
  <2>1. inBuff' \in Seq(Pieces)
    BY <1>8, <1>10 DEF Lined
  <2>2. Behind(down, n) \in Seq(Pieces)
    BY <1>1, <1>4, BehindIs
  <2> QED BY <1>10, <2>1, <2>2
<1>13. Stream' = Behind(down, e)
  <2>1. inBuff' \o <<>> = inBuff'
    BY <1>12
  <2>2. Stream' = (inBuff' \o inBuff2') \o down'
    BY DEF Stream
  <2>3. Stream' = Rest(b) \o Behind(down, n)
    BY <1>10, <2>1, <2>2, Zenon
  <2> QED BY <1>6, <1>8, <2>3
<1>14. Lined(Stream') /\ (closed' = "no" => Whole(Stream'))
  <2>1. Lined(Behind(down, e)) /\ (Whole(down) => Whole(Behind(down, e)))
    BY <1>2, <1>11, LinedBehind
  <2>2. closed = "no" => Whole(down)
    BY <1>2 DEF Wire
  <2> QED BY <1>10, <1>13, <2>1, <2>2
<1>15. InHand' /\ Len(inBuff') <= 2
  <2>1. CASE Rest(b) = <<>>
    <3>1. pc' = "main" /\ inBuff' = <<>> /\ inBuff2' = <<>>
      BY <1>10, <2>1
    <3> QED BY <3>1 DEF InHand
  <2>2. ASSUME NEW m \in Msgs, Rest(b) = <<m>>  PROVE InHand' /\ Len(inBuff') <= 2
    <3>1. <<m>> # <<>>
      OBVIOUS
    <3>2. pc' = "rest" /\ inBuff' = <<m>> /\ inBuff2' = <<>>
      BY <1>10, <2>2, <3>1
    <3> QED BY <3>2 DEF InHand
  <2>3. ASSUME NEW m \in Msgs, Rest(b) = <<m, CR>>  PROVE InHand' /\ Len(inBuff') <= 2
    <3>1. <<m, CR>> # <<>> /\ Last(<<m, CR>>) = CR
      BY DEF Last
    <3>2. pc' = "rest" /\ inBuff' = <<m, CR>> /\ inBuff2' = <<>> /\ "split" \in seen'
      BY <1>10, <2>3, <3>1
    <3> QED BY <3>2 DEF InHand, Gap
  <2> QED BY <1>8, <2>1, <2>2, <2>3
<1>16. ASSUME NEW N, Nicks \subseteq N, userList \in SUBSET N
       PROVE  \E h \in [0..e -> SUBSET N] :
                 h[0] = userList /\ Becomes(h, Stream, e) /\ userList' = h[e]
  <2>1. l \in Seq(Pieces) /\ Len(l) = e
    BY <1>9 DEF Lined
  <2>2. PICK h \in [0..e -> SUBSET N] : h[0] = userList /\ Becomes(h, l, e)
    BY <1>16, <2>1, Interpreting
  <2>3. FoldLeft(interpretPiece, h[0], l) = h[e]
    BY <2>1, <2>2, FoldIs
  <2>4. ASSUME NEW k \in 1..e  PROVE h[k] = interpretPiece(h[k - 1], down[k])
    <3>1. k \in 1..n
      BY <1>4, <1>6
    <3>2. l[k] = down[k]
      BY <1>5, <1>9, <3>1
    <3> QED BY <2>2, <3>2 DEF Becomes
  <2>5. Becomes(h, Stream, e)
    BY <1>2, <2>4 DEF Becomes
  <2>6. userList' = h[e]
    BY <1>10, <2>2, <2>3
  <2> QED BY <2>2, <2>5, <2>6
<1>17. Advances
  BY <1>2, <1>11, <1>13, <1>16 DEF Advances
<1>18. seen \subseteq seen' /\ seen' \subseteq Happenings
  BY <1>10 DEF Happenings
<1>19. userList' \subseteq Names(seen')
  <2>1. Nicks \subseteq Names(seen) /\ Names(seen) \subseteq Names(seen')
    BY <1>18 DEF Names
  <2>2. PICK h \in [0..e -> SUBSET Names(seen)] : userList' = h[e]
    BY <1>16, <2>1
  <2>3. e \in 0..e
    BY <1>11
  <2>4. userList' \in SUBSET Names(seen)
    BY <2>2, <2>3
  <2> QED BY <2>1, <2>4
<1>20. Wire'
  BY <1>10, <1>12, <1>14, <1>15 DEF Wire
<1>21. pc' \in {"main", "rest"} /\ Len(inBuff2') = 0
  BY <1>10
<1> QED BY <1>15, <1>17, <1>18, <1>19, <1>20, <1>21

\* The pieces of one line, that is whole.
LEMMA OneLine ==
  ASSUME NEW s \in Seq(Pieces), NEW m \in Msgs, Len(s) >= 3, s[1] = m, s[2] = CR, s[3] = LF,
         NEW list \in SUBSET Nicks
  PROVE  \E h \in [0..3 -> SUBSET Nicks] :
            h[0] = list /\ Becomes(h, s, 3) /\ interpretMessage(list, m) = h[3]
<1> DEFINE w == interpretMessage(list, m)
           h == [k \in 0..3 |-> IF k = 0 THEN list ELSE w]
<1>1. w \in SUBSET Nicks
  BY MessageType
<1>2. interpretPiece(list, m) = w /\ interpretPiece(w, CR) = w /\ interpretPiece(w, LF) = w
  BY MsgIs DEF interpretPiece
<1> HIDE DEF w
<1>3. h \in [0..3 -> SUBSET Nicks] /\ h[0] = list /\ h[1] = w /\ h[2] = w /\ h[3] = w
  BY <1>1
<1> HIDE DEF h
<1>4. ASSUME NEW k \in 1..3  PROVE h[k] = interpretPiece(h[k - 1], s[k])
  <2>1. CASE k = 1
    BY <1>2, <1>3, <2>1
  <2>2. CASE k = 2
    BY <1>2, <1>3, <2>2
  <2>3. CASE k = 3
    BY <1>2, <1>3, <2>3
  <2> QED BY <2>1, <2>2, <2>3
<1> QED BY <1>3, <1>4 DEF Becomes, w

\* One more byte, of a line that was cut.
LEMMA ByteTakes ==
  ASSUME Wire, seen \subseteq Happenings, userList \subseteq Names(seen), readByte
  PROVE  /\ Advances /\ Wire'
         /\ userList' \subseteq Names(seen')
         /\ pc' \in {"main", "rest"} /\ Len(inBuff') <= 2 /\ Len(inBuff2') <= 3
<1> DEFINE a == inBuff
           b == inBuff2
           x == Head(down)
           more == Append(inBuff2, x)
           whole == a \o SubSeq(more, 1, Len(more) - 2)
           done == GotNewLine(more) \/ Len(more) = MaxCommandLen
           n == Len(a) + Len(b)
<1>1. /\ pc = "rest" /\ down # <<>>
      /\ pc' = (IF done THEN "main" ELSE "rest")
      /\ inBuff' = (IF done THEN <<>> ELSE a)
      /\ inBuff2' = (IF done THEN <<>> ELSE more)
      /\ userList' = (IF GotNewLine(more) /\ Len(whole) < MaxCommandLen
                      THEN interpret(userList, whole) ELSE userList)
      /\ down' = Tail(down) /\ closed' = closed /\ seen' = seen
  BY DEF readByte
<1>2. a \in Seq(Pieces) /\ b \in Seq(Pieces) /\ down \in Seq(Pieces)
  BY DEF Wire
<1>3. /\ Stream \in Seq(Pieces) /\ n \in Nat /\ n + 1 \in 1..Len(Stream)
      /\ Stream[n + 1] = x
      /\ (\A k \in 1..Len(b) : Stream[Len(a) + k] = b[k])
      /\ (\A k \in 1..Len(a) : Stream[k] = a[k])
      /\ Tail(down) = Behind(Stream, n + 1) /\ Tail(down) \in Seq(Pieces)
      /\ (a \o more) \o Tail(down) = Stream
  <2> DEFINE d == down
  <2>1. a \in Seq(Pieces) /\ b \in Seq(Pieces) /\ d \in Seq(Pieces) /\ d # <<>>
    BY <1>1, <1>2
  <2> HIDE DEF a, b, d
  <2>2. Held(a, b, d, (a \o b) \o d, Len(a) + Len(b))
    BY <2>1, HeldIs, Zenon
  <2> QED BY <2>2, Zenon DEF Stream, a, b, d, Held
<1>4. Lined(Stream) /\ (closed = "no" => Whole(Stream))
  BY DEF Wire
<1>5. x \in Pieces
  BY <1>1, <1>2
<1> HIDE DEF x
\* A byte that does not end the line.
<1>6. ASSUME ~GotNewLine(more), Len(more) <= 3,
             pc' = "rest" => InHand'
      PROVE  /\ Advances /\ Wire' /\ userList' = userList
             /\ pc' = "rest" /\ inBuff' = a /\ inBuff2' = more
  <2>1. ~done
    BY <1>6, SizeAssumption
  <2>2. pc' = "rest" /\ inBuff' = a /\ inBuff2' = more /\ userList' = userList
    BY <1>1, <1>6, <2>1, Zenon
  <2>3. Stream' = Stream
    <3>1. Stream' = (inBuff' \o inBuff2') \o down'
      BY DEF Stream
    <3> QED BY <1>1, <1>3, <2>2, <3>1, Zenon
  <2>4. Behind(Stream, 0) = Stream
    BY <1>3 DEF Behind
  <2>5. userList \in SUBSET Nicks =>
           \E h \in [0..0 -> SUBSET Nicks] :
              h[0] = userList /\ Becomes(h, Stream, 0) /\ userList' = h[0]
    <3> DEFINE h == [k \in 0..0 |-> userList]
    <3> SUFFICES ASSUME userList \in SUBSET Nicks
                 PROVE  \E g \in [0..0 -> SUBSET Nicks] :
                           g[0] = userList /\ Becomes(g, Stream, 0) /\ userList' = g[0]
      OBVIOUS
    <3>1. h \in [0..0 -> SUBSET Nicks] /\ h[0] = userList
      OBVIOUS
    <3>2. Becomes(h, Stream, 0)
      BY DEF Becomes
    <3> HIDE DEF h
    <3> QED BY <2>2, <3>1, <3>2
  <2>6. 0 \in 0..Len(Stream)
    BY <1>3
  <2>7. Advances
    BY <2>3, <2>4, <2>5, <2>6 DEF Advances
  <2>8. inBuff' \in Seq(Pieces) /\ inBuff2' \in Seq(Pieces) /\ down' \in Seq(Pieces)
    <3>1. more \in Seq(Pieces)
      BY <1>2, <1>5
    <3> QED BY <1>1, <1>2, <1>3, <2>2, <3>1
  <2>9. Wire'
    BY <1>1, <1>4, <1>6, <2>2, <2>3, <2>8, Zenon DEF Wire
  <2> QED BY <2>2, <2>7, <2>9
\* The byte that ends it.
<1>7. ASSUME GotNewLine(more), x = LF, Len(whole) < MaxCommandLen,
             "split" \notin seen /\ userList \in SUBSET Nicks =>
                \E h \in [0..(n + 1) -> SUBSET Nicks] :
                   /\ h[0] = userList /\ Becomes(h, Stream, n + 1)
                   /\ interpret(userList, whole) = h[n + 1]
      PROVE  /\ Advances /\ Wire' /\ userList' = interpret(userList, whole)
             /\ pc' = "main" /\ inBuff' = <<>> /\ inBuff2' = <<>>
  <2>1. /\ pc' = "main" /\ inBuff' = <<>> /\ inBuff2' = <<>>
        /\ userList' = interpret(userList, whole)
    BY <1>1, <1>7, Zenon
  <2>2. Stream' = Behind(Stream, n + 1)
    <3>1. Stream' = (inBuff' \o inBuff2') \o down' /\ down' = Tail(down)
      BY <1>1 DEF Stream
    <3>2. (<<>> \o <<>>) \o Tail(down) = Tail(down)
      BY <1>3, EmptyBefore
    <3> QED BY <1>3, <2>1, <3>1, <3>2, Zenon
  <2>3. n + 1 \in 0..Len(Stream) /\ Stream[n + 1] = LF
    BY <1>3, <1>7
  <2>4. Advances
    <3>1. "split" \notin seen' /\ userList \in SUBSET Nicks =>
                \E h \in [0..(n + 1) -> SUBSET Nicks] :
                   h[0] = userList /\ Becomes(h, Stream, n + 1) /\ userList' = h[n + 1]
      BY <1>1, <1>7, <2>1, Zenon
    <3> HIDE DEF n
    <3> QED BY <2>2, <2>3, <3>1, Zenon DEF Advances
  <2>5. Lined(Stream') /\ (closed' = "no" => Whole(Stream'))
    <3>1. Lined(Behind(Stream, n + 1)) /\ (Whole(Stream) => Whole(Behind(Stream, n + 1)))
      BY <1>4, <2>3, LinedBehind
    <3> QED BY <1>1, <1>4, <2>2, <3>1
  <2>6. InHand'
    BY <2>1 DEF InHand
  <2>7. inBuff' \in Seq(Pieces) /\ inBuff2' \in Seq(Pieces) /\ down' \in Seq(Pieces)
    BY <1>1, <1>3, <2>1
  <2>8. Wire'
    BY <2>5, <2>6, <2>7 DEF Wire
  <2> QED BY <2>1, <2>4, <2>8
\* What comes after a piece that is held.
<1>8. ASSUME NEW k \in 1..n, k = n  PROVE Follows(Stream[k], x)
  <2>1. k \in 1..(Len(Stream) - 1) /\ k + 1 = n + 1 /\ Len(Stream) \in Nat
    BY <1>3, <1>8
  <2>2. Follows(Stream[k], Stream[k + 1])
    BY <1>4, <2>1 DEF Lined
  <2> QED BY <1>3, <2>1, <2>2
<1>9. Nicks \subseteq Names(seen) /\ Names(seen) \subseteq Nicks \union {Garbage}
  BY DEF Names
<1>10. ASSUME NEW m \in Msgs, a = <<m>>, b = <<>> \/ b = <<CR>>
       PROVE  /\ Advances /\ Wire' /\ userList' \subseteq Names(seen')
              /\ pc' \in {"main", "rest"} /\ Len(inBuff') <= 2 /\ Len(inBuff2') <= 3
  <2>1. CASE b = <<>>
    <3>1. n = 1 /\ Stream[1] = m
      BY <1>3, <1>10, <2>1
    <3>2. x = CR
      BY <1>8, <3>1 DEF Follows
    <3>3. more = <<CR>> /\ Len(more) = 1
      BY <2>1, <3>2
    <3>4. ~GotNewLine(more)
      BY <3>3 DEF GotNewLine
    <3>5. pc' = "rest" => InHand'
      <4>1. SUFFICES ASSUME pc' = "rest" PROVE InHand'
        OBVIOUS
      <4>2. ~done
        BY <1>1, <4>1
      <4>3. inBuff' = <<m>> /\ inBuff2' = <<CR>>
        BY <1>1, <1>10, <3>3, <4>2
      <4> QED BY <4>1, <4>3 DEF InHand
    <3>6. Advances /\ Wire' /\ userList' = userList /\ pc' = "rest" /\ inBuff' = a /\ inBuff2' = more
      BY <1>6, <3>3, <3>4, <3>5
    <3> QED BY <1>1, <1>10, <3>3, <3>6
  <2>2. CASE b = <<CR>>
    <3>1. n = 2 /\ Stream[1] = m /\ Stream[2] = CR
      <4>1. Len(a) = 1 /\ Len(b) = 1 /\ 1 \in 1..Len(a) /\ 1 \in 1..Len(b) /\ a[1] = m /\ b[1] = CR
        BY <1>10, <2>2
      <4> QED BY <1>3, <4>1
    <3>2. x = LF
      <4>1. Follows(CR, x)
        BY <1>8, <3>1
      <4> QED BY <4>1 DEF Follows
    <3>3. more = <<CR, LF>> /\ Len(more) = 2
      <4>1. Append(<<CR>>, LF) = <<CR, LF>> /\ Len(<<CR, LF>>) = 2
        <5>1. CR \in Pieces /\ LF \in Pieces
          BY DEF Pieces
        <5> QED BY <5>1, TwoIs
      <4> QED BY <2>2, <3>2, <4>1
    <3>4. GotNewLine(more)
      BY <3>3 DEF GotNewLine, Last
    <3>5. whole = <<m>> /\ Len(whole) = 1 /\ Len(whole) < MaxCommandLen
      <4>1. SubSeq(more, 1, Len(more) - 2) = <<>>
        BY <3>3
      <4>2. <<m>> \o <<>> = <<m>> /\ Len(<<m>>) = 1
        OBVIOUS
      <4>3. whole = <<m>>
        BY <1>10, <4>1, <4>2, Zenon
      <4> HIDE DEF whole
      <4> QED BY <4>2, <4>3, SizeAssumption
    <3>6. interpret(userList, whole) = interpretMessage(userList, m)
      <4> HIDE DEF whole
      <4>1. whole[1] = m /\ Len(whole) = 1
        BY <3>5
      <4> QED BY <4>1, Zenon DEF interpret
    <3>7. userList \in SUBSET Nicks =>
                \E h \in [0..(n + 1) -> SUBSET Nicks] :
                   /\ h[0] = userList /\ Becomes(h, Stream, n + 1)
                   /\ interpret(userList, whole) = h[n + 1]
      <4>1. n + 1 = 3 /\ Len(Stream) >= 3 /\ Stream[3] = LF
        BY <1>3, <3>1, <3>2
      <4>2. Stream \in Seq(Pieces) /\ Stream[1] = m /\ Stream[2] = CR
        BY <1>3, <3>1
      <4>3. \A list \in SUBSET Nicks : \E h \in [0..3 -> SUBSET Nicks] :
               h[0] = list /\ Becomes(h, Stream, 3) /\ interpretMessage(list, m) = h[3]
        BY <4>1, <4>2, OneLine
      <4> DEFINE i == n + 1
      <4> HIDE DEF whole
      <4>4. userList \in SUBSET Nicks =>
               \E h \in [0..i -> SUBSET Nicks] :
                  /\ h[0] = userList /\ Becomes(h, Stream, i)
                  /\ interpret(userList, whole) = h[i]
        <5>1. i = 3
          BY <4>1
        <5> HIDE DEF i
        <5> QED BY <3>6, <4>3, <5>1
      <4> QED BY <4>4
    <3>8. /\ Advances /\ Wire' /\ userList' = interpret(userList, whole)
          /\ pc' = "main" /\ inBuff' = <<>> /\ inBuff2' = <<>>
      <4> HIDE DEF n, whole, more
      <4> QED BY <1>7, <3>2, <3>4, <3>5, <3>7
    <3>9. userList' \subseteq Names(seen')
      BY <1>1, <1>9, <3>6, <3>8, MessageType
    <3> QED BY <3>8, <3>9
  <2> QED BY <1>10, <2>1, <2>2
<1>11. ASSUME "split" \in seen, NEW m \in Msgs, a = <<m, CR>>, Gap(b)
       PROVE  /\ Advances /\ Wire' /\ userList' \subseteq Names(seen')
              /\ pc' \in {"main", "rest"} /\ Len(inBuff') <= 2 /\ Len(inBuff2') <= 3
  <2>1. Len(a) = 2 /\ Stream[2] = CR
    <3>1. Len(a) = 2 /\ 2 \in 1..Len(a) /\ a[2] = CR
      BY <1>11
    <3> QED BY <1>3, <3>1
  <2>2. ASSUME ~GotNewLine(more), Len(more) <= 3, Gap(more)
        PROVE  /\ Advances /\ Wire' /\ userList' \subseteq Names(seen')
               /\ pc' \in {"main", "rest"} /\ Len(inBuff') <= 2 /\ Len(inBuff2') <= 3
    <3>1. pc' = "rest" => InHand'
      <4>1. SUFFICES ASSUME pc' = "rest" PROVE InHand'
        OBVIOUS
      <4>2. ~done
        BY <1>1, <4>1
      <4>3. inBuff' = <<m, CR>> /\ inBuff2' = more /\ "split" \in seen'
        BY <1>1, <1>11, <4>2
      <4>4. Gap(inBuff2')
        BY <2>2, <4>3
      <4> QED BY <4>1, <4>3, <4>4, Zenon DEF InHand
    <3>2. Advances /\ Wire' /\ userList' = userList /\ pc' = "rest" /\ inBuff' = a /\ inBuff2' = more
      BY <1>6, <2>2, <3>1
    <3> HIDE DEF more
    <3>3. seen' = seen /\ Len(inBuff') = 2 /\ Len(inBuff2') <= 3 /\ userList' = userList
      BY <1>1, <2>1, <2>2, <3>2
    <3>4. userList' \subseteq Names(seen')
      BY <3>3
    <3>5. pc' \in {"main", "rest"} /\ Len(inBuff') <= 2
      BY <3>2, <3>3
    <3> QED BY <3>2, <3>3, <3>4, <3>5
  <2>3. CASE b = <<>>
    <3>1. n = 2
      BY <2>1, <2>3
    <3>2. x = LF
      <4>1. Follows(CR, x)
        BY <1>8, <2>1, <3>1
      <4> QED BY <4>1 DEF Follows
    <3>3. more = <<LF>> /\ Len(more) = 1
      BY <2>3, <3>2
    <3> QED BY <2>2, <3>3 DEF GotNewLine, Gap
  <2>4. CASE b = <<LF>>
    <3>1. n = 3 /\ Stream[3] = LF
      <4>1. Len(b) = 1 /\ 1 \in 1..Len(b) /\ b[1] = LF
        BY <2>4
      <4> QED BY <1>3, <2>1, <4>1
    <3>2. x \in Msgs
      <4>1. Follows(LF, x)
        BY <1>8, <3>1
      <4> QED BY <4>1 DEF Follows
    <3>3. more = <<LF, x>> /\ Len(more) = 2
      <4>1. Append(<<LF>>, x) = <<LF, x>> /\ Len(<<LF, x>>) = 2
        <5>1. x \in Pieces /\ LF \in Pieces
          BY <1>5 DEF Pieces
        <5> QED BY <5>1, TwoIs
      <4> QED BY <2>4, <4>1
    <3>5. Gap(more)
      BY <3>2, <3>3, Zenon DEF Gap
    <3>4. ~GotNewLine(more)
      BY <3>3, WireAssumption DEF GotNewLine
    <3> HIDE DEF more
    <3>6. Len(more) <= 3
      BY <3>3
    <3> QED BY <2>2, <3>4, <3>5, <3>6, Zenon
  <2>5. ASSUME NEW m2 \in Msgs, b = <<LF, m2>>
        PROVE  /\ Advances /\ Wire' /\ userList' \subseteq Names(seen')
               /\ pc' \in {"main", "rest"} /\ Len(inBuff') <= 2 /\ Len(inBuff2') <= 3
    <3>1. n = 4 /\ Stream[4] = m2
      <4>1. Len(b) = 2 /\ 2 \in 1..Len(b) /\ b[2] = m2
        BY <2>5
      <4> QED BY <1>3, <2>1, <4>1
    <3>2. x = CR
      <4>1. Follows(m2, x)
        BY <1>8, <3>1
      <4> QED BY <4>1 DEF Follows
    <3>3. more = <<LF, m2, CR>> /\ Len(more) = 3
      <4>1. Append(<<LF, m2>>, CR) = <<LF, m2, CR>> /\ Len(<<LF, m2, CR>>) = 3
        <5>1. m2 \in Pieces /\ LF \in Pieces /\ CR \in Pieces
          BY DEF Pieces
        <5> QED BY <5>1, ThreeIs
      <4> QED BY <2>5, <3>2, <4>1
    <3>4. Gap(more)
      BY <3>3 DEF Gap
    <3>5. ~GotNewLine(more)
      BY <3>3, WireAssumption DEF GotNewLine, Last
    <3> QED BY <2>2, <3>3, <3>4, <3>5
  <2>6. ASSUME NEW m2 \in Msgs, b = <<LF, m2, CR>>
        PROVE  /\ Advances /\ Wire' /\ userList' \subseteq Names(seen')
               /\ pc' \in {"main", "rest"} /\ Len(inBuff') <= 2 /\ Len(inBuff2') <= 3
    <3>1. n = 5 /\ Stream[5] = CR
      <4>1. Len(b) = 3 /\ 3 \in 1..Len(b) /\ b[3] = CR
        BY <2>6
      <4> QED BY <1>3, <2>1, <4>1
    <3>2. x = LF
      <4>1. Follows(CR, x)
        BY <1>8, <3>1
      <4> QED BY <4>1 DEF Follows
    <3>3. m \in Pieces /\ m2 \in Pieces /\ LF \in Pieces /\ CR \in Pieces
      BY DEF Pieces
    <3>9. more = <<LF, m2, CR, LF>> /\ Len(more) = 4
      <4>1. Append(<<LF, m2, CR>>, LF) = <<LF, m2, CR, LF>> /\ Len(<<LF, m2, CR, LF>>) = 4
        BY FourIs, Zenon
      <4> QED BY <2>6, <3>2, <4>1
    <3>4. GotNewLine(more)
      BY <3>9 DEF GotNewLine, Last
    <3>5. whole = <<m, CR, LF, m2>> /\ Len(whole) < MaxCommandLen
      <4>1. SubSeq(<<LF, m2, CR, LF>>, 1, 2) = <<LF, m2>>
        BY FourIs, Zenon
      <4>2. <<m, CR>> \o <<LF, m2>> = <<m, CR, LF, m2>> /\ Len(<<m, CR, LF, m2>>) = 4
        BY FourIs, Zenon
      <4>3. SubSeq(more, 1, Len(more) - 2) = <<LF, m2>>
        <5> HIDE DEF more
        <5>1. Len(more) - 2 = 2
          BY <3>9
        <5> QED BY <3>9, <4>1, <5>1
      <4>4. whole = <<m, CR, LF, m2>>
        BY <1>11, <4>2, <4>3, Zenon
      <4> HIDE DEF whole
      <4> QED BY <4>2, <4>4, SizeAssumption
    <3>6. interpret(userList, whole) = interpretMessage(userList, Garbled(m))
      <4> HIDE DEF whole
      <4>1. whole[1] = m /\ Len(whole) # 1
        BY <3>5
      <4> QED BY <4>1, Zenon DEF interpret
    <3>7. /\ Advances /\ Wire' /\ userList' = interpret(userList, whole)
          /\ pc' = "main" /\ inBuff' = <<>> /\ inBuff2' = <<>>
      <4> HIDE DEF n, whole, more
      <4> QED BY <1>7, <1>11, <3>2, <3>4, <3>5
    <3>8. userList' \subseteq Names(seen')
      <4>1. Names(seen) = Nicks \union {Garbage}
        BY <1>11 DEF Names
      <4>2. interpretMessage(userList, Garbled(m)) \in SUBSET (Nicks \union {Garbage})
        BY <4>1, GarbledType
      <4> QED BY <1>1, <3>6, <3>7, <4>1, <4>2
    <3> QED BY <3>7, <3>8
  <2> QED BY <1>11, <2>3, <2>4, <2>5, <2>6 DEF Gap
<1> QED BY <1>1, <1>10, <1>11 DEF Wire, InHand
-----------------------------------------------------------------------------
(* Lines on their way: the types, and where the main loop stands.          *)

Typing == /\ pc \in {"main", "recv", "rest", "dead"}
          /\ myNick \in Nicks
          /\ srv \in [nick : Nicks \union {NoNick}, joined : BOOLEAN,
                      others : SUBSET Nicks, number : 0..MaxServers, turns : 0..MaxTurns]
          /\ closed \in {"no", "closed", "reset"}
          /\ seen \subseteq Happenings
          /\ userList \subseteq Names(seen)
          /\ Len(inBuff) <= 2 /\ Len(inBuff2) <= 3
          /\ up \in Seq(Cmds)

Framing == Typing /\ Flags /\ Numbers /\ Seated /\ Wire

LEMMA Regrouped ==
  ASSUME NEW S, NEW c \in Seq(S), NEW d \in Seq(S), NEW l \in Seq(S)
  PROVE  c \o (d \o l) = (c \o d) \o l
OBVIOUS

LEMMA MoreAfter ==
  ASSUME NEW c \in Seq(Pieces), NEW d \in Seq(Pieces), NEW m \in Msgs
  PROVE  /\ More(c \o d, c \o (d \o Line(m)), m)
         /\ d \o Line(m) \in Seq(Pieces)
<1>1. c \o d \in Seq(Pieces)
  BY ConcatProperties
<1>2. Line(m) \in Seq(Pieces)
  BY LineIs
<1>3. d \o Line(m) \in Seq(Pieces)
  BY <1>2, ConcatProperties
<1>4. PICK l \in Seq(Pieces) : l = Line(m)
  BY <1>2
<1>5. c \o (d \o l) = (c \o d) \o l
  BY Regrouped
<1>6. More(c \o d, (c \o d) \o l, m)
  BY <1>1, <1>4, MoreIs
<1> QED BY <1>3, <1>4, <1>5, <1>6

\* The stream and one line more.
LEMMA StreamMore ==
  ASSUME NEW a \in Seq(Pieces), NEW b \in Seq(Pieces), NEW d \in Seq(Pieces), NEW m \in Msgs
  PROVE  /\ More((a \o b) \o d, (a \o b) \o (d \o Line(m)), m)
         /\ d \o Line(m) \in Seq(Pieces)
<1>1. a \o b \in Seq(Pieces)
  BY ConcatProperties
<1> QED BY <1>1, MoreAfter

\* A step that leaves the stream, of a program that holds no part of a line.
LEMMA WireStays ==
  ASSUME Wire, pc # "rest", pc' # "rest",
         inBuff' = inBuff, inBuff2' = inBuff2, down' = down,
         closed' = "no" => closed = "no"
  PROVE  Wire' /\ Stream' = Stream /\ inBuff = <<>> /\ inBuff2 = <<>>
<1>1. inBuff = <<>> /\ inBuff2 = <<>>
  BY DEF Wire, InHand
<1>2. Stream' = Stream
  BY DEF Stream
<1>3. InHand'
  BY <1>1 DEF InHand
<1> QED BY <1>1, <1>2, <1>3 DEF Wire

\* The same, of a step outside the program that sends it nothing.
LEMMA WireKept ==
  ASSUME Wire, UNCHANGED <<pc, inBuff, inBuff2>>, down' = down, closed' = closed,
         seen \ {"emptied"} \subseteq seen'
  PROVE  Wire' /\ Stream' = Stream
<1>1. Stream' = Stream
  BY DEF Stream
<1>2. InHand'
  BY DEF Wire, InHand
<1> QED BY <1>1, <1>2 DEF Wire

\* Of one that sends it a line.
LEMMA WireGrows ==
  ASSUME Wire, UNCHANGED <<pc, inBuff, inBuff2>>, closed' = closed, closed = "no",
         seen \ {"emptied"} \subseteq seen', NEW m \in Msgs, down' = down \o Line(m)
  PROVE  Wire' /\ More(Stream, Stream', m)
<1>1. inBuff \in Seq(Pieces) /\ inBuff2 \in Seq(Pieces) /\ down \in Seq(Pieces)
  BY DEF Wire
<1>2. Stream' = (inBuff \o inBuff2) \o (down \o Line(m))
  BY DEF Stream
<1>3. More((inBuff \o inBuff2) \o down, (inBuff \o inBuff2) \o (down \o Line(m)), m)
      /\ down \o Line(m) \in Seq(Pieces)
  BY <1>1, StreamMore, Zenon
<1>4. More(Stream, Stream', m)
  BY <1>2, <1>3 DEF Stream
<1>5. Lined(Stream') /\ Whole(Stream')
  <2>1. Lined(Stream) /\ Whole(Stream)
    BY DEF Wire
  <2> QED BY <1>4, <2>1, LinedMore
<1>6. InHand'
  BY DEF Wire, InHand
<1>7. inBuff' \in Seq(Pieces) /\ inBuff2' \in Seq(Pieces) /\ down' \in Seq(Pieces)
  BY <1>1, <1>3
<1> QED BY <1>4, <1>5, <1>6, <1>7 DEF Wire

\* Of one that sends it two.
LEMMA WireGrowsTwice ==
  ASSUME Wire, UNCHANGED <<pc, inBuff, inBuff2>>, closed' = closed, closed = "no",
         seen \ {"emptied"} \subseteq seen', NEW m \in Msgs, NEW n \in Msgs,
         down' = (down \o Line(m)) \o Line(n)
  PROVE  Wire' /\ \E s : More(Stream, s, m) /\ More(s, Stream', n)
<1>1. inBuff \in Seq(Pieces) /\ inBuff2 \in Seq(Pieces) /\ down \in Seq(Pieces)
  BY DEF Wire
<1> DEFINE d == down \o Line(m)
           s == (inBuff \o inBuff2) \o d
<1>2. More(Stream, s, m) /\ d \in Seq(Pieces)
  <2>1. More((inBuff \o inBuff2) \o down, (inBuff \o inBuff2) \o (down \o Line(m)), m)
        /\ down \o Line(m) \in Seq(Pieces)
    BY <1>1, StreamMore, Zenon
  <2> QED BY <2>1 DEF Stream
<1> HIDE DEF d
<1>3. More(s, Stream', n) /\ d \o Line(n) \in Seq(Pieces)
  <2>1. More((inBuff \o inBuff2) \o d, (inBuff \o inBuff2) \o (d \o Line(n)), n)
        /\ d \o Line(n) \in Seq(Pieces)
    BY <1>1, <1>2, StreamMore, Zenon
  <2>2. Stream' = (inBuff \o inBuff2) \o (d \o Line(n))
    BY DEF Stream, d
  <2> QED BY <2>1, <2>2, Zenon
<1> HIDE DEF s
<1>5. Lined(Stream') /\ Whole(Stream')
  <2>1. Lined(Stream) /\ Whole(Stream)
    BY DEF Wire
  <2>2. Lined(s) /\ Whole(s)
    BY <1>2, <2>1, LinedMore
  <2> QED BY <1>3, <2>2, LinedMore
<1>6. InHand'
  BY DEF Wire, InHand
<1>7. inBuff' \in Seq(Pieces) /\ inBuff2' \in Seq(Pieces) /\ down' \in Seq(Pieces)
  BY <1>1, <1>3 DEF d
<1>8. Wire'
  BY <1>5, <1>6, <1>7 DEF Wire
<1> QED BY <1>2, <1>3, <1>8, Zenon

\* What is written to the server.
LEMMA SendIs ==
  ASSUME Framing, pc = "main", NEW c \in Cmds, sendLine(c),
         UNCHANGED <<inBuff, inBuff2>>
  PROVE  /\ Wire' /\ Stream' = Stream /\ inBuff = <<>> /\ inBuff2 = <<>>
         /\ pc' \in {"main", "dead"} /\ down' = down
         /\ closed' \in {"no", "closed", "reset"} /\ up' \in Seq(Cmds)
         /\ closed' = "no" <=> closed = "no"
         /\ closed = "no" => up' = Append(up, c) /\ pc' = pc
         /\ closed # "no" => up' = up
<1>1. closed \in {"no", "closed", "reset"} /\ up \in Seq(Cmds) /\ (closed = "no" => isConnected)
  BY DEF Framing, Typing, Numbers
<1>2. /\ pc' \in {"main", "dead"} /\ down' = down
      /\ closed' \in {"no", "closed", "reset"}
      /\ closed' = "no" <=> closed = "no"
      /\ closed = "no" => up' = Append(up, c) /\ pc' = pc
      /\ closed # "no" => up' = up
  BY <1>1 DEF sendLine, net
<1>3. up' \in Seq(Cmds)
  BY <1>1, <1>2
<1>4. Wire' /\ Stream' = Stream /\ inBuff = <<>> /\ inBuff2 = <<>>
  BY <1>2, WireStays DEF Framing
<1> QED BY <1>2, <1>3, <1>4, Zenon

Srvs == [nick : Nicks \union {NoNick}, joined : BOOLEAN,
         others : SUBSET Nicks, number : 0..MaxServers, turns : 0..MaxTurns]

LEMMA TurnIs ==
  ASSUME NEW s \in Srvs, s.turns < MaxTurns
  PROVE  LET t == [s EXCEPT !.turns = @ + 1]
         IN  t \in Srvs /\ t.nick = s.nick /\ t.joined = s.joined /\ t.others = s.others
             /\ t.number = s.number
<1>1. s.turns + 1 \in 0..MaxTurns
  BY SizeAssumption DEF Srvs
<1> QED BY <1>1 DEF Srvs

LEMMA FramingNick ==
  ASSUME Framing, NEW n \in Nicks, Nick(n)
  PROVE  Framing'
<1>1. /\ pc = "main" /\ srv.turns < MaxTurns
      /\ userList' = renameUserInList(myNick, n, userList) /\ myNick' = n
      /\ sendLine([cmd |-> "NICK", nick |-> n])
      /\ srv' = [srv EXCEPT !.turns = @ + 1]
      /\ seen' = IF Known(n) THEN seen \union {"clash"} ELSE seen
      /\ UNCHANGED <<isConnected, registered, stale, isInChannel, inBuff, inBuff2>>
  BY DEF Nick
<1>2. [cmd |-> "NICK", nick |-> n] \in Cmds
  BY CmdsAre
<1>3. /\ Wire' /\ pc' \in {"main", "dead"} /\ up' \in Seq(Cmds)
      /\ closed' \in {"no", "closed", "reset"} /\ (closed' = "no" <=> closed = "no")
      /\ inBuff' = <<>> /\ inBuff2' = <<>>
  <2>1. UNCHANGED <<inBuff, inBuff2>>
    BY <1>1
  <2> DEFINE c == [cmd |-> "NICK", nick |-> n]
  <2>2. c \in Cmds /\ sendLine(c) /\ pc = "main"
    BY <1>1, <1>2
  <2> HIDE DEF c
  <2>3. /\ Wire' /\ Stream' = Stream /\ inBuff = <<>> /\ inBuff2 = <<>>
        /\ pc' \in {"main", "dead"} /\ down' = down
        /\ closed' \in {"no", "closed", "reset"} /\ up' \in Seq(Cmds)
        /\ closed' = "no" <=> closed = "no"
    BY <2>1, <2>2, SendIs, Zenon
  <2> QED BY <2>1, <2>3
<1>4. seen \subseteq seen' /\ seen' \subseteq Happenings
      /\ ("split" \in seen' <=> "split" \in seen)
  <2>1. seen' = seen \/ seen' = seen \union {"clash"}
    BY <1>1, Zenon
  <2> QED BY <2>1 DEF Framing, Typing, Happenings
<1>5. userList' \subseteq Names(seen')
  <2>1. Names(seen') = Names(seen) /\ Nicks \subseteq Names(seen) /\ userList \subseteq Names(seen)
    BY <1>4, Zenon DEF Names, Framing, Typing
  <2> QED BY <1>1, <2>1 DEF renameUserInList
<1>6. srv' \in [nick : Nicks \union {NoNick}, joined : BOOLEAN,
                others : SUBSET Nicks, number : 0..MaxServers, turns : 0..MaxTurns]
      /\ srv'.nick = srv.nick /\ srv'.joined = srv.joined /\ srv'.others = srv.others
      /\ srv'.number = srv.number
  BY <1>1, TurnIs DEF Framing, Typing, Srvs
<1>7. Len(inBuff') <= 2 /\ Len(inBuff2') <= 3
  BY <1>3
<1>8. Typing'
  BY <1>1, <1>3, <1>4, <1>5, <1>6, <1>7 DEF Typing
<1>9. Flags' /\ Numbers' /\ Seated'
  BY <1>1, <1>3, <1>6 DEF Framing, Flags, Numbers, Seated
<1> QED BY <1>3, <1>8, <1>9 DEF Framing

LEMMA FramingJoin ==
  ASSUME Framing, doJoin
  PROVE  Framing'
<1>1. /\ pc = "main" /\ isInChannel' = TRUE /\ sendLine([cmd |-> "JOIN"])
      /\ seen' = seen \ {"away"}
      /\ UNCHANGED <<isConnected, registered, stale, myNick, userList, inBuff,
                     inBuff2, srv>>
  BY DEF doJoin
<1>3. /\ Wire' /\ pc' \in {"main", "dead"} /\ up' \in Seq(Cmds)
      /\ closed' \in {"no", "closed", "reset"} /\ (closed' = "no" <=> closed = "no")
  <2>1. UNCHANGED <<inBuff, inBuff2>>
    BY <1>1
  <2> DEFINE c == [cmd |-> "JOIN"]
  <2>2. c \in Cmds /\ sendLine(c) /\ pc = "main"
    BY <1>1, CmdsAre
  <2> HIDE DEF c
  <2> QED BY <2>1, <2>2, SendIs, Zenon
<1>4. Typing'
  BY <1>1, <1>3 DEF Typing, Framing, Names
<1>5. Flags' /\ Numbers' /\ Seated'
  BY <1>1, <1>3 DEF Framing, Flags, Numbers, Seated
<1> QED BY <1>3, <1>4, <1>5 DEF Framing

\* A /part of another channel is a turn, the others are not.
LEMMA PartIs ==
  ASSUME Framing, NEW name, doPart(name)
  PROVE  /\ seen' = seen \union (IF name = "other" THEN {"part", "away", "emptied"} ELSE {"part"})
         /\ seen' \subseteq Happenings /\ srv' \in Srvs /\ srv'.nick = srv.nick
         /\ srv'.joined = srv.joined /\ srv'.others = srv.others /\ srv'.number = srv.number
<1>1. srv \in Srvs /\ seen \subseteq Happenings
  BY DEF Framing, Typing, Srvs
<1>2. CASE name = "other"
  <2>1. /\ srv.turns < MaxTurns /\ srv' = [srv EXCEPT !.turns = @ + 1]
        /\ seen' = seen \union {"part", "away", "emptied"}
    BY <1>2 DEF doPart
  <2>2. srv' \in Srvs /\ srv'.nick = srv.nick /\ srv'.joined = srv.joined
        /\ srv'.others = srv.others /\ srv'.number = srv.number
    BY <1>1, <2>1, TurnIs
  <2>3. seen' \subseteq Happenings
    BY <1>1, <2>1 DEF Happenings
  <2> QED BY <1>2, <2>1, <2>2, <2>3
<1>3. CASE name # "other"
  <2>1. srv' = srv /\ seen' = seen \union {"part"}
    BY <1>3 DEF doPart
  <2>2. seen' \subseteq Happenings
    BY <1>1, <2>1 DEF Happenings
  <2> QED BY <1>1, <1>3, <2>1, <2>2
<1> QED BY <1>2, <1>3

LEMMA FramingPart ==
  ASSUME Framing, NEW name, doPart(name)
  PROVE  Framing'
<1>1. /\ pc = "main" /\ userList' = {} /\ isInChannel' = (name = "#" /\ isInChannel)
      /\ sendLine([cmd |-> IF name = "other" THEN "PART other" ELSE "PART"])
      /\ UNCHANGED <<isConnected, registered, stale, myNick, inBuff, inBuff2>>
  BY DEF doPart
<1>2. /\ seen' \subseteq Happenings /\ srv' \in Srvs /\ srv'.nick = srv.nick
      /\ srv'.joined = srv.joined /\ srv'.others = srv.others /\ srv'.number = srv.number
  BY PartIs
<1>3. /\ Wire' /\ pc' \in {"main", "dead"} /\ up' \in Seq(Cmds)
      /\ closed' \in {"no", "closed", "reset"} /\ (closed' = "no" <=> closed = "no")
  <2>1. UNCHANGED <<inBuff, inBuff2>>
    BY <1>1
  <2> DEFINE c == [cmd |-> IF name = "other" THEN "PART other" ELSE "PART"]
  <2>2. c \in Cmds /\ sendLine(c) /\ pc = "main"
    <3>1. c \in Cmds
      BY CmdsAre
    <3> HIDE DEF CmdsAre
    <3> QED BY <1>1, <3>1
  <2> HIDE DEF c
  <2> QED BY <2>1, <2>2, SendIs, Zenon
<1>4. Typing'
  BY <1>1, <1>2, <1>3 DEF Typing, Framing, Srvs
<1>5. Numbers' /\ Seated'
  BY <1>1, <1>2, <1>3 DEF Framing, Numbers, Seated
<1>6. Flags'
  <2>1. isInChannel' \in BOOLEAN
    BY <1>1
  <2> QED BY <1>1, <2>1 DEF Framing, Flags
<1> QED BY <1>3, <1>4, <1>5, <1>6 DEF Framing

LEMMA FramingConnect ==
  ASSUME Framing, connectToServer
  PROVE  Framing'
<1>1. /\ pc = "main" /\ srv.number < MaxServers
      /\ isConnected' = TRUE /\ registered' = TRUE /\ isInChannel' = FALSE
      /\ stale' = (IF registered THEN stale + 1 ELSE stale)
      /\ srv' = [srv EXCEPT !.nick = NoNick, !.joined = FALSE, !.number = @ + 1]
      /\ up' = <<[cmd |-> "NICK", nick |-> myNick]>> /\ down' = <<>> /\ closed' = "no"
      /\ seen' = (IF userList # {} THEN seen \union {"part"} ELSE seen) \ {"emptied"}
      /\ UNCHANGED <<pc, myNick, userList, inBuff, inBuff2>>
  BY DEF connectToServer
<1>2. inBuff = <<>> /\ inBuff2 = <<>>
  BY <1>1 DEF Framing, Wire, InHand
<1>3. Stream' = <<>>
  BY <1>1, <1>2 DEF Stream
<1>4. Wire'
  <2>1. Lined(<<>>) /\ Whole(<<>>)
    BY DEF Lined, Whole
  <2>2. InHand'
    BY <1>1, <1>2 DEF InHand
  <2> QED BY <1>1, <1>2, <1>3, <2>1, <2>2 DEF Wire
<1>5. seen' \subseteq Happenings /\ userList' \subseteq Names(seen')
  <2>1. seen' = seen \ {"emptied"} \/ seen' = (seen \union {"part"}) \ {"emptied"}
    BY <1>1, Zenon
  <2> QED BY <1>1, <2>1 DEF Framing, Typing, Names, Happenings
<1>6. srv' \in [nick : Nicks \union {NoNick}, joined : BOOLEAN,
                others : SUBSET Nicks, number : 0..MaxServers, turns : 0..MaxTurns]
      /\ srv'.nick = NoNick /\ srv'.joined = FALSE /\ srv'.others = srv.others
      /\ srv'.number = srv.number + 1 /\ srv.others \subseteq Nicks /\ srv.number \in Nat
  <2>1. srv \in Srvs
    BY DEF Framing, Typing, Srvs
  <2>2. srv.number \in Nat /\ srv.number + 1 \in 0..MaxServers /\ srv.others \subseteq Nicks
    BY <1>1, <2>1, SizeAssumption DEF Srvs
  <2> QED BY <1>1, <2>1, <2>2 DEF Srvs
<1>7. up' \in Seq(Cmds)
  <2>1. [cmd |-> "NICK", nick |-> myNick] \in Cmds
    BY CmdsAre DEF Framing, Typing
  <2> QED BY <1>1, <2>1
<1>8. Typing'
  BY <1>1, <1>2, <1>5, <1>6, <1>7 DEF Framing, Typing
<1>9. Numbers'
  <2>1. stale \in Nat /\ (registered => stale + 1 <= srv.number) /\ stale <= srv.number
    BY DEF Framing, Numbers
  <2>4. srv'.number \in 0..MaxServers
    BY <1>6
  <2>2. CASE registered
    <3>1. stale' = stale + 1
      BY <1>1, <2>2, Zenon
    <3> QED BY <1>1, <1>6, <2>1, <2>2, <2>4, <3>1 DEF Numbers
  <2>3. CASE ~registered
    <3>1. stale' = stale
      BY <1>1, <2>3, Zenon
    <3> QED BY <1>1, <1>6, <2>1, <2>4, <3>1 DEF Numbers
  <2> QED BY <2>2, <2>3, Zenon
<1>10. Flags'
  BY <1>1 DEF Flags
<1>11. Seated'
  BY <1>6, NickAssumption DEF Seated
<1> QED BY <1>4, <1>8, <1>9, <1>10, <1>11 DEF Framing

LEMMA FramingReset ==
  ASSUME Framing, pc \in {"main", "recv"}, closed # "no", resetStatusToDisconnected
  PROVE  Framing'
<1>1. /\ registered' = FALSE /\ isConnected' = FALSE /\ isInChannel' = FALSE /\ pc' = "main"
      /\ UNCHANGED <<stale, myNick, userList, inBuff, inBuff2, srv, seen>>
      /\ up' = up /\ down' = down /\ closed' = closed
  BY DEF resetStatusToDisconnected, net
<1>2. Wire'
  BY <1>1, WireStays DEF Framing
<1>3. Typing'
  BY <1>1 DEF Framing, Typing
<1>4. Numbers' /\ Seated'
  BY <1>1 DEF Framing, Numbers, Seated
<1>5. Flags'
  BY <1>1 DEF Flags
<1> QED BY <1>2, <1>3, <1>4, <1>5 DEF Framing

LEMMA FramingReceived ==
  ASSUME Framing, pc \in {"main", "recv"}, Received
  PROVE  Framing' /\ Advances
<1>1. /\ Advances /\ Wire' /\ userList' \subseteq Names(seen')
      /\ pc' \in {"main", "rest"} /\ Len(inBuff') <= 2 /\ Len(inBuff2') = 0
      /\ seen' \subseteq Happenings /\ seen \subseteq seen'
  <2>1. Wire /\ seen \subseteq Happenings /\ userList \subseteq Names(seen)
    BY DEF Framing, Typing
  <2> QED BY <2>1, ReceivedTakes
<1>2. UNCHANGED <<isConnected, registered, stale, isInChannel, myNick, srv, up, closed>>
  BY Zenon DEF Received
<1>3. Typing'
  BY <1>1, <1>2 DEF Framing, Typing
<1>4. Flags' /\ Numbers' /\ Seated'
  BY <1>2 DEF Framing, Flags, Numbers, Seated
<1> QED BY <1>1, <1>3, <1>4, Zenon DEF Framing

LEMMA FramingReadLine ==
  ASSUME Framing, readLine
  PROVE  Framing'
<1>1. pc \in {"main", "recv"} /\ (down # <<>> \/ closed # "no")
  BY DEF readLine
<1>2. CASE down = <<>>
  BY <1>1, <1>2, FramingReset DEF readLine
<1>3. CASE down # <<>>
  BY <1>1, <1>3, FramingReceived DEF readLine
<1> QED BY <1>2, <1>3

LEMMA FramingStale ==
  ASSUME Framing, readLineStale
  PROVE  Framing'
<1>1. /\ pc = "main" /\ pc' = "recv"
      /\ UNCHANGED <<isConnected, registered, stale, isInChannel, myNick, userList,
                     inBuff, inBuff2, srv, seen>>
      /\ up' = up /\ down' = down /\ closed' = closed
  BY DEF readLineStale, net
<1>2. Wire'
  BY <1>1, WireStays DEF Framing
<1>3. Typing'
  BY <1>1 DEF Framing, Typing
<1>4. Flags' /\ Numbers' /\ Seated'
  BY <1>1 DEF Framing, Flags, Numbers, Seated
<1> QED BY <1>2, <1>3, <1>4 DEF Framing

LEMMA FramingByte ==
  ASSUME Framing, readByte
  PROVE  Framing' /\ Advances
<1>1. /\ Advances /\ Wire' /\ userList' \subseteq Names(seen')
      /\ pc' \in {"main", "rest"} /\ Len(inBuff') <= 2 /\ Len(inBuff2') <= 3
  <2>1. Wire /\ seen \subseteq Happenings /\ userList \subseteq Names(seen)
    BY DEF Framing, Typing
  <2> QED BY <2>1, ByteTakes
<1>2. UNCHANGED <<isConnected, registered, stale, isInChannel, myNick, srv, up, closed, seen>>
  BY DEF readByte
<1>3. Typing'
  BY <1>1, <1>2 DEF Framing, Typing
<1>4. Flags' /\ Numbers' /\ Seated'
  BY <1>2 DEF Framing, Flags, Numbers, Seated
<1> QED BY <1>1, <1>3, <1>4, Zenon DEF Framing

LEMMA FramingSame ==
  ASSUME Framing, UNCHANGED vars
  PROVE  Framing'
<1>1. /\ UNCHANGED <<pc, isConnected, registered, stale, isInChannel, myNick, userList>>
      /\ UNCHANGED <<inBuff, inBuff2, srv, up, down, closed, seen>>
  BY DEF vars, client, net
<1>2. Wire'
  <2>1. seen \subseteq seen'
    BY <1>1
  <2> QED BY <1>1, <2>1, WireKept DEF Framing
<1>3. Typing'
  BY <1>1 DEF Framing, Typing
<1>4. Flags' /\ Numbers' /\ Seated'
  BY <1>1 DEF Framing, Flags, Numbers, Seated
<1> QED BY <1>2, <1>3, <1>4 DEF Framing

\* What a step outside the program leaves of it.
LEMMA OutsideKeeps ==
  ASSUME Framing, UNCHANGED client, closed' = closed,
         srv' \in Srvs, srv'.number = srv.number, Seated',
         seen \ {"emptied"} \subseteq seen', seen' \subseteq Happenings,
         up' \in Seq(Cmds), Wire'
  PROVE  Framing'
<1>1. UNCHANGED <<pc, isConnected, registered, stale, isInChannel, myNick, userList,
                  inBuff, inBuff2>>
  BY DEF client
<1>2. userList' \subseteq Names(seen')
  <2>1. Names(seen) \subseteq Names(seen')
    BY DEF Names
  <2> QED BY <1>1, <2>1 DEF Framing, Typing
<1>3. Typing'
  BY <1>1, <1>2 DEF Framing, Typing, Srvs
<1>4. Flags' /\ Numbers'
  BY <1>1 DEF Framing, Flags, Numbers
<1> QED BY <1>3, <1>4 DEF Framing

\* What the server sends of a command: nothing, a line, or two.
LEMMA ServeIs ==
  ASSUME Framing, Serve
  PROVE  /\ closed = "no" /\ closed' = closed /\ UNCHANGED client
         /\ up # <<>> /\ Head(up) \in Cmds /\ up' = Tail(up) /\ up' \in Seq(Cmds)
         /\ \/ Head(up).cmd = "NICK" /\ serverNick(Head(up).nick)
            \/ Head(up).cmd = "JOIN" /\ serverJoin
            \/ Head(up).cmd = "PART" /\ serverPart
            \/ Head(up).cmd = "PART other" /\ UNCHANGED <<srv, down, seen>>
<1>1. /\ up # <<>> /\ closed = "no" /\ closed' = closed /\ UNCHANGED client /\ up' = Tail(up)
      /\ up \in Seq(Cmds)
  BY DEF Serve, Room, Framing, Typing
<1>2. Head(up) \in Cmds /\ up' \in Seq(Cmds)
  BY <1>1
<1>3. Head(up).cmd \in {"NICK", "JOIN", "PART", "PART other"}
  BY <1>2, CmdsAre
<1>4. \/ Head(up).cmd = "NICK" /\ serverNick(Head(up).nick)
      \/ Head(up).cmd = "JOIN" /\ serverJoin
      \/ Head(up).cmd = "PART" /\ serverPart
      \/ Head(up).cmd = "PART other" /\ UNCHANGED <<srv, down, seen>>
  BY <1>3 DEF Serve
<1> QED BY <1>1, <1>2, <1>4, Zenon

LEMMA ServeNickIs ==
  ASSUME Framing, NEW n \in Nicks, serverNick(n), closed = "no", closed' = closed, UNCHANGED client
  PROVE  /\ Wire' /\ srv' \in Srvs /\ srv'.number = srv.number /\ Seated'
         /\ seen \ {"emptied"} \subseteq seen' /\ seen' \subseteq Happenings
         /\ srv'.joined = srv.joined /\ srv'.others = srv.others
         /\ \/ n \in srv.others /\ seen' = seen \union {"clash"} /\ srv' = srv /\ Stream' = Stream
            \/ n \notin srv.others /\ srv'.nick = n /\ seen' = seen
               /\ (srv.nick = NoNick \/ srv.nick = n) /\ Stream' = Stream
            \/ n \notin srv.others /\ srv'.nick = n /\ seen' = seen
               /\ srv.nick \in Nicks /\ srv.nick # n
               /\ [cmd |-> "NICK", nick |-> srv.nick, new |-> n] \in Msgs
               /\ More(Stream, Stream', [cmd |-> "NICK", nick |-> srv.nick, new |-> n])
<1>1. /\ Wire /\ srv \in Srvs /\ srv.nick \in Nicks \union {NoNick}
      /\ seen \subseteq Happenings /\ Seated
  BY DEF Framing, Typing, Srvs
<1>2. UNCHANGED <<pc, inBuff, inBuff2>>
  BY DEF client
<1>3. CASE n \in srv.others
  <2>1. seen' = seen \union {"clash"} /\ srv' = srv /\ down' = down
    BY <1>3 DEF serverNick
  <2>2. seen \ {"emptied"} \subseteq seen' /\ seen' \subseteq Happenings
    BY <1>1, <2>1 DEF Happenings
  <2>3. Wire' /\ Stream' = Stream
    BY <1>1, <1>2, <2>1, <2>2, WireKept
  <2>4. Seated'
    BY <1>1, <2>1 DEF Seated
  <2> QED BY <1>1, <1>3, <2>1, <2>2, <2>3, <2>4, Zenon
<1>4. CASE n \notin srv.others
  <2>1. /\ srv' = [srv EXCEPT !.nick = n] /\ seen' = seen
        /\ down' = IF srv.nick = NoNick \/ srv.nick = n THEN down
                   ELSE down \o Line([cmd |-> "NICK", nick |-> srv.nick, new |-> n])
    BY <1>4 DEF serverNick
  <2>2. srv' \in Srvs /\ srv'.nick = n /\ srv'.joined = srv.joined /\ srv'.others = srv.others
        /\ srv'.number = srv.number
    BY <1>1, <2>1 DEF Srvs
  <2>3. Seated'
    BY <1>1, <1>4, <2>2, NickAssumption DEF Seated
  <2>4. CASE srv.nick = NoNick \/ srv.nick = n
    <3>1. down' = down /\ seen \ {"emptied"} \subseteq seen'
      BY <2>1, <2>4
    <3>2. Wire' /\ Stream' = Stream
      BY <1>1, <1>2, <3>1, WireKept
    <3> QED BY <1>1, <1>4, <2>1, <2>2, <2>3, <2>4, <3>2
  <2>5. CASE ~(srv.nick = NoNick \/ srv.nick = n)
    <3> DEFINE m == [cmd |-> "NICK", nick |-> srv.nick, new |-> n]
    <3>1. down' = down \o Line(m) /\ seen \ {"emptied"} \subseteq seen'
      BY <2>1, <2>5
    <3>2. srv.nick \in Nicks /\ srv.nick # n
      BY <1>1, <2>5
    <3>3. m \in Msgs
      BY <3>2, MsgsAre
    <3> HIDE DEF m
    <3>4. Wire' /\ More(Stream, Stream', m)
      BY <1>1, <1>2, <3>1, <3>3, WireGrows
    <3>5. seen' = seen /\ seen' \subseteq Happenings /\ seen \ {"emptied"} \subseteq seen'
      BY <1>1, <2>1
    <3> QED BY <1>4, <2>2, <2>3, <3>2, <3>3, <3>4, <3>5, Zenon DEF m
  <2> QED BY <2>4, <2>5
<1> QED BY <1>3, <1>4

LEMMA ServeJoinIs ==
  ASSUME Framing, serverJoin, closed = "no", closed' = closed, UNCHANGED client
  PROVE  /\ Wire' /\ srv' \in Srvs /\ srv'.number = srv.number /\ Seated' /\ seen' = seen
         /\ srv'.nick = srv.nick /\ srv'.others = srv.others
         /\ \/ (srv.nick = NoNick \/ srv.joined) /\ srv' = srv /\ Stream' = Stream
            \/ srv.nick \in Nicks /\ ~srv.joined /\ srv'.joined
               /\ \E m, n \in Msgs : \E s :
                     /\ m = [cmd |-> "JOIN", nick |-> srv.nick]
                     /\ n.cmd = "NAMES" /\ n.names = srv.others \union {srv.nick}
                     /\ More(Stream, s, m) /\ More(s, Stream', n)
<1>1. /\ Wire /\ srv \in Srvs /\ srv.nick \in Nicks \union {NoNick}
      /\ srv.others \in SUBSET Nicks /\ Seated
  BY DEF Framing, Typing, Srvs
<1>2. UNCHANGED <<pc, inBuff, inBuff2>>
  BY DEF client
<1>3. seen' = seen /\ seen \ {"emptied"} \subseteq seen'
  BY DEF serverJoin
<1>4. CASE srv.nick = NoNick \/ srv.joined
  <2>1. srv' = srv /\ down' = down
    BY <1>4 DEF serverJoin
  <2>2. Wire' /\ Stream' = Stream
    BY <1>1, <1>2, <1>3, <2>1, WireKept
  <2>3. Seated'
    BY <1>1, <2>1 DEF Seated
  <2> QED BY <1>1, <1>3, <1>4, <2>1, <2>2, <2>3
<1>5. CASE ~(srv.nick = NoNick \/ srv.joined)
  <2> DEFINE names == srv.others \union {srv.nick}
             m == [cmd |-> "JOIN", nick |-> srv.nick]
             n == [cmd |-> "NAMES", names |-> names, last |-> CHOOSE x \in names : TRUE]
  <2>1. srv' = [srv EXCEPT !.joined = TRUE] /\ down' = (down \o Line(m)) \o Line(n)
    BY <1>5 DEF serverJoin
  <2>2. srv.nick \in Nicks /\ ~srv.joined /\ names \in SUBSET Nicks
    BY <1>1, <1>5
  <2>3. (CHOOSE x \in names : TRUE) \in Nicks
    <3>1. \E x \in names : TRUE
      OBVIOUS
    <3> HIDE DEF names
    <3>2. (CHOOSE x \in names : TRUE) \in names
      BY <3>1, Zenon
    <3> QED BY <2>2, <3>2
  <2> HIDE DEF names
  <2>4. m \in Msgs /\ n \in Msgs
    BY <2>2, <2>3, MsgsAre
  <2>5. n.cmd = "NAMES" /\ n.names = names /\ m = [cmd |-> "JOIN", nick |-> srv.nick]
    OBVIOUS
  <2> HIDE DEF m, n
  <2>6. Wire' /\ \E s : More(Stream, s, m) /\ More(s, Stream', n)
    BY <1>1, <1>2, <1>3, <2>1, <2>4, WireGrowsTwice
  <2>7. srv' \in Srvs /\ srv'.nick = srv.nick /\ srv'.joined = TRUE /\ srv'.others = srv.others
        /\ srv'.number = srv.number
    BY <1>1, <2>1 DEF Srvs
  <2>8. Seated'
    BY <1>1, <1>5, <2>7 DEF Seated
  <2>9. srv'.joined
    BY <2>7
  <2>10. \E m1, n1 \in Msgs : \E s :
            /\ m1 = [cmd |-> "JOIN", nick |-> srv.nick]
            /\ n1.cmd = "NAMES" /\ n1.names = srv.others \union {srv.nick}
            /\ More(Stream, s, m1) /\ More(s, Stream', n1)
    BY <2>4, <2>5, <2>6, Zenon DEF names
  <2> QED BY <1>3, <2>2, <2>6, <2>7, <2>8, <2>9, <2>10, Zenon
<1> QED BY <1>4, <1>5

LEMMA ServePartIs ==
  ASSUME Framing, serverPart, closed = "no", closed' = closed, UNCHANGED client
  PROVE  /\ Wire' /\ srv' \in Srvs /\ srv'.number = srv.number /\ Seated'
         /\ seen' = seen \ {"emptied"}
         /\ srv'.nick = srv.nick /\ srv'.others = srv.others /\ ~srv'.joined
         /\ \/ ~srv.joined /\ Stream' = Stream
            \/ srv.joined /\ srv.nick \in Nicks
               /\ [cmd |-> "LEAVE", nick |-> srv.nick] \in Msgs
               /\ More(Stream, Stream', [cmd |-> "LEAVE", nick |-> srv.nick])
<1>1. /\ Wire /\ srv \in Srvs /\ srv.nick \in Nicks \union {NoNick} /\ Seated
  BY DEF Framing, Typing, Srvs
<1>2. UNCHANGED <<pc, inBuff, inBuff2>>
  BY DEF client
<1> DEFINE m == [cmd |-> "LEAVE", nick |-> srv.nick]
<1>3. /\ srv' = [srv EXCEPT !.joined = FALSE]
      /\ down' = IF srv.joined THEN down \o Line(m) ELSE down
      /\ seen' = seen \ {"emptied"} /\ seen \ {"emptied"} \subseteq seen'
  BY DEF serverPart, Tell
<1>4. srv' \in Srvs /\ srv'.nick = srv.nick /\ srv'.joined = FALSE /\ srv'.others = srv.others
      /\ srv'.number = srv.number
  BY <1>1, <1>3 DEF Srvs
<1>5. Seated' /\ ~srv'.joined
  BY <1>1, <1>4 DEF Seated
<1>6. CASE ~srv.joined
  <2>1. down' = down
    BY <1>3, <1>6
  <2>2. Wire' /\ Stream' = Stream
    BY <1>1, <1>2, <1>3, <2>1, WireKept
  <2> QED BY <1>3, <1>4, <1>5, <1>6, <2>2, Zenon
<1>7. CASE srv.joined
  <2>1. down' = down \o Line(m)
    BY <1>3, <1>7
  <2>2. srv.nick \in Nicks
    BY <1>1, <1>7 DEF Seated
  <2>3. m \in Msgs
    BY <2>2, MsgsAre
  <2> HIDE DEF m
  <2>4. Wire' /\ More(Stream, Stream', m)
    BY <1>1, <1>2, <1>3, <2>1, <2>3, WireGrows
  <2> QED BY <1>3, <1>4, <1>5, <1>7, <2>2, <2>3, <2>4, Zenon DEF m
<1> QED BY <1>6, <1>7

\* A part of a channel that the user is not in.
LEMMA ServeNothingIs ==
  ASSUME Framing, UNCHANGED <<srv, down, seen>>, closed = "no", closed' = closed,
         UNCHANGED client
  PROVE  /\ Wire' /\ srv' \in Srvs /\ srv'.number = srv.number /\ Seated'
         /\ seen \ {"emptied"} \subseteq seen' /\ seen' \subseteq Happenings
         /\ Stream' = Stream
<1>1. Wire /\ srv \in Srvs /\ Seated /\ seen \subseteq Happenings
  BY DEF Framing, Typing, Srvs
<1>2. UNCHANGED <<pc, inBuff, inBuff2>>
  BY DEF client
<1>3. Wire' /\ Stream' = Stream
  BY <1>1, <1>2, WireKept
<1>4. Seated'
  BY <1>1 DEF Seated
<1> QED BY <1>1, <1>3, <1>4

LEMMA FramingServe ==
  ASSUME Framing, Serve
  PROVE  Framing'
<1>1. /\ closed = "no" /\ closed' = closed /\ UNCHANGED client
      /\ Head(up) \in Cmds /\ up' \in Seq(Cmds)
      /\ \/ Head(up).cmd = "NICK" /\ serverNick(Head(up).nick)
         \/ Head(up).cmd = "JOIN" /\ serverJoin
         \/ Head(up).cmd = "PART" /\ serverPart
         \/ Head(up).cmd = "PART other" /\ UNCHANGED <<srv, down, seen>>
  BY ServeIs
<1>2. /\ Wire' /\ srv' \in Srvs /\ srv'.number = srv.number /\ Seated'
      /\ seen \ {"emptied"} \subseteq seen' /\ seen' \subseteq Happenings
  <2>1. CASE Head(up).cmd = "NICK" /\ serverNick(Head(up).nick)
    <3>1. Head(up).nick \in Nicks
      BY <1>1, <2>1, CmdsAre
    <3> QED BY <1>1, <2>1, <3>1, ServeNickIs
  <2>2. seen \subseteq Happenings
    BY DEF Framing, Typing
  <2>3. CASE serverJoin
    BY <1>1, <2>2, <2>3, ServeJoinIs
  <2>4. CASE serverPart
    BY <1>1, <2>2, <2>4, ServePartIs
  <2>5. CASE UNCHANGED <<srv, down, seen>>
    BY <1>1, <2>5, ServeNothingIs
  <2> QED BY <1>1, <2>1, <2>3, <2>4, <2>5
<1> QED BY <1>1, <1>2, OutsideKeeps

\* What the program hears of the other people: nothing, before it has joined.
LEMMA SaysIs ==
  ASSUME Framing, NEW m \in Msgs, Says(m), seen \subseteq seen'
  PROVE  /\ closed = "no" /\ closed' = closed /\ UNCHANGED client /\ up' = up
         /\ srv.turns < MaxTurns /\ Wire'
         /\ \/ ~srv.joined /\ Stream' = Stream
            \/ srv.joined /\ More(Stream, Stream', m)
<1>1. /\ closed = "no" /\ closed' = closed /\ UNCHANGED client /\ up' = up
      /\ srv.turns < MaxTurns
      /\ down' = IF srv.joined THEN down \o Line(m) ELSE down
  BY DEF Says, Room, Tell
<1>2. UNCHANGED <<pc, inBuff, inBuff2>> /\ Wire
  BY <1>1 DEF client, Framing
<1>3. CASE ~srv.joined
  <2>1. down' = down
    BY <1>1, <1>3
  <2>2. Wire' /\ Stream' = Stream
    BY <1>1, <1>2, <2>1, WireKept
  <2> QED BY <1>1, <1>3, <2>2
<1>4. CASE srv.joined
  <2>1. down' = down \o Line(m)
    BY <1>1, <1>4
  <2>2. Wire' /\ More(Stream, Stream', m)
    BY <1>1, <1>2, <2>1, WireGrows
  <2> QED BY <1>1, <1>4, <2>2
<1> QED BY <1>3, <1>4

\* The three things that others do: m is what is said, O who is there afterwards.
OtherActs(m, O) ==
    /\ Says(m) /\ srv' = [srv EXCEPT !.others = O, !.turns = @ + 1]
    /\ O \in SUBSET Nicks /\ m \in Msgs /\ srv.nick \notin O
    /\ seen \subseteq seen' /\ seen' \subseteq Happenings
    /\ "away" \in seen' => "away" \in seen

LEMMA ActsIs ==
  ASSUME Framing, NEW m, NEW O, OtherActs(m, O)
  PROVE  /\ closed = "no" /\ closed' = closed /\ UNCHANGED client /\ up' = up
         /\ srv'.nick = srv.nick /\ srv'.joined = srv.joined /\ srv'.others = O
         /\ \/ ~srv.joined /\ Stream' = Stream
            \/ srv.joined /\ More(Stream, Stream', m)
         /\ Framing'
<1>1. /\ closed = "no" /\ closed' = closed /\ UNCHANGED client /\ up' = up
      /\ srv.turns < MaxTurns /\ Wire'
      /\ \/ ~srv.joined /\ Stream' = Stream
         \/ srv.joined /\ More(Stream, Stream', m)
  BY SaysIs DEF OtherActs
<1>2. srv \in Srvs /\ Seated /\ up \in Seq(Cmds)
  BY DEF Framing, Typing, Srvs
<1>3. srv' = [srv EXCEPT !.others = O, !.turns = @ + 1] /\ O \in SUBSET Nicks /\ srv.nick \notin O
  BY DEF OtherActs
<1>4. srv.turns + 1 \in 0..MaxTurns
  BY <1>1, <1>2, SizeAssumption DEF Srvs
<1>5. srv' \in Srvs /\ srv'.nick = srv.nick /\ srv'.joined = srv.joined /\ srv'.others = O
      /\ srv'.number = srv.number
  BY <1>2, <1>3, <1>4 DEF Srvs
<1>6. Seated'
  BY <1>2, <1>3, <1>5 DEF Seated
<1>7. Framing'
  <2>1. seen \subseteq seen' /\ seen' \subseteq Happenings /\ up' \in Seq(Cmds)
    BY <1>1, <1>2 DEF OtherActs
  <2> QED BY <1>1, <1>5, <1>6, <2>1, OutsideKeeps
<1> QED BY <1>1, <1>5, <1>7, Zenon

LEMMA OtherJoinsIs ==
  ASSUME Framing, OtherJoins
  PROVE  \E n \in Nicks : /\ OtherActs([cmd |-> "JOIN", nick |-> n], srv.others \union {n})
                          /\ n \notin srv.others /\ n # srv.nick
                          /\ (n = myNick => "clash" \in seen')
                          /\ (n # myNick => seen' = seen)
<1>1. PICK n \in Nicks \ (srv.others \union {srv.nick}) :
         /\ Says([cmd |-> "JOIN", nick |-> n])
         /\ srv' = [srv EXCEPT !.others = @ \union {n}, !.turns = @ + 1]
         /\ Takes(n)
  BY Zenon DEF OtherJoins
<1>2. srv.others \in SUBSET Nicks /\ srv.nick \notin srv.others
      /\ seen \subseteq Happenings
  BY DEF Framing, Typing, Seated
<1>3. seen \subseteq seen' /\ seen' \subseteq Happenings /\ ("away" \in seen' => "away" \in seen)
      /\ (n = myNick => "clash" \in seen') /\ (n # myNick => seen' = seen)
  BY <1>1, <1>2 DEF Takes, Happenings
<1>4. [cmd |-> "JOIN", nick |-> n] \in Msgs /\ n \in Nicks
  BY MsgsAre
<1>5. srv.others \union {n} \in SUBSET Nicks /\ srv.nick \notin srv.others \union {n}
      /\ n \notin srv.others /\ n # srv.nick
  BY <1>2, <1>4
<1>6. OtherActs([cmd |-> "JOIN", nick |-> n], srv.others \union {n})
  <2> DEFINE m == [cmd |-> "JOIN", nick |-> n]
  <2>1. Says(m) /\ m \in Msgs
    BY <1>1, <1>4
  <2> HIDE DEF m
  <2>2. srv' = [srv EXCEPT !.others = srv.others \union {n}, !.turns = @ + 1]
    BY <1>1
  <2>3. OtherActs(m, srv.others \union {n})
    BY <1>1, <1>3, <1>5, <2>1, <2>2, Zenon DEF OtherActs
  <2> QED BY <2>3 DEF m
<1> QED BY <1>3, <1>4, <1>5, <1>6, Zenon

LEMMA OtherLeavesIs ==
  ASSUME Framing, OtherLeaves
  PROVE  \E n \in Nicks : /\ OtherActs([cmd |-> "LEAVE", nick |-> n], srv.others \ {n})
                          /\ n \in srv.others /\ seen' = seen
<1>1. PICK n \in srv.others :
         /\ Says([cmd |-> "LEAVE", nick |-> n])
         /\ srv' = [srv EXCEPT !.others = @ \ {n}, !.turns = @ + 1]
         /\ seen' = seen
  BY Zenon DEF OtherLeaves
<1>2. srv.others \in SUBSET Nicks /\ srv.nick \notin srv.others
      /\ seen \subseteq Happenings
  BY DEF Framing, Typing, Seated
<1>3. seen \subseteq seen' /\ seen' \subseteq Happenings /\ ("away" \in seen' => "away" \in seen)
  BY <1>1, <1>2
<1>4. [cmd |-> "LEAVE", nick |-> n] \in Msgs /\ n \in Nicks
  BY <1>2, MsgsAre
<1>5. srv.others \ {n} \in SUBSET Nicks /\ srv.nick \notin srv.others \ {n}
  BY <1>2
<1>6. OtherActs([cmd |-> "LEAVE", nick |-> n], srv.others \ {n})
  <2> DEFINE m == [cmd |-> "LEAVE", nick |-> n]
  <2>1. Says(m) /\ m \in Msgs
    BY <1>1, <1>4
  <2> HIDE DEF m
  <2>2. srv' = [srv EXCEPT !.others = srv.others \ {n}, !.turns = @ + 1]
    BY <1>1
  <2>3. OtherActs(m, srv.others \ {n})
    BY <1>1, <1>3, <1>5, <2>1, <2>2, Zenon DEF OtherActs
  <2> QED BY <2>3 DEF m
<1> QED BY <1>1, <1>4, <1>6, Zenon

LEMMA OtherRenamesIs ==
  ASSUME Framing, OtherRenames
  PROVE  \E n, k \in Nicks :
            /\ OtherActs([cmd |-> "NICK", nick |-> n, new |-> k], (srv.others \ {n}) \union {k})
            /\ n \in srv.others /\ k \notin srv.others /\ k # srv.nick
            /\ (k = myNick => "clash" \in seen')
            /\ (k # myNick => seen' = seen)
<1>1. PICK n \in srv.others : \E k \in Nicks \ (srv.others \union {srv.nick}) :
         /\ Says([cmd |-> "NICK", nick |-> n, new |-> k])
         /\ srv' = [srv EXCEPT !.others = (@ \ {n}) \union {k}, !.turns = @ + 1]
         /\ Takes(k)
  BY Zenon DEF OtherRenames
<1>2. PICK k \in Nicks \ (srv.others \union {srv.nick}) :
         /\ Says([cmd |-> "NICK", nick |-> n, new |-> k])
         /\ srv' = [srv EXCEPT !.others = (@ \ {n}) \union {k}, !.turns = @ + 1]
         /\ Takes(k)
  BY <1>1
<1>3. srv.others \in SUBSET Nicks /\ srv.nick \notin srv.others
      /\ seen \subseteq Happenings
  BY DEF Framing, Typing, Seated
<1>4. seen \subseteq seen' /\ seen' \subseteq Happenings /\ ("away" \in seen' => "away" \in seen)
      /\ (k = myNick => "clash" \in seen') /\ (k # myNick => seen' = seen)
  BY <1>2, <1>3 DEF Takes, Happenings
<1>5. [cmd |-> "NICK", nick |-> n, new |-> k] \in Msgs /\ n \in Nicks /\ k \in Nicks
  BY <1>3, MsgsAre
<1>6. (srv.others \ {n}) \union {k} \in SUBSET Nicks /\ srv.nick \notin (srv.others \ {n}) \union {k}
      /\ n \in srv.others /\ k \notin srv.others /\ k # srv.nick
  BY <1>3, <1>5
<1>7. OtherActs([cmd |-> "NICK", nick |-> n, new |-> k], (srv.others \ {n}) \union {k})
  <2> DEFINE m == [cmd |-> "NICK", nick |-> n, new |-> k]
  <2>1. Says(m) /\ m \in Msgs
    BY <1>2, <1>5
  <2> HIDE DEF m
  <2>2. srv' = [srv EXCEPT !.others = (srv.others \ {n}) \union {k}, !.turns = @ + 1]
    BY <1>2
  <2>3. OtherActs(m, (srv.others \ {n}) \union {k})
    BY <1>2, <1>4, <1>6, <2>1, <2>2, Zenon DEF OtherActs
  <2> QED BY <2>3 DEF m
<1> QED BY <1>4, <1>5, <1>6, <1>7, Zenon

LEMMA FramingOthers ==
  ASSUME Framing, Others
  PROVE  Framing'
<1>1. \E m, O : OtherActs(m, O)
  BY OtherJoinsIs, OtherLeavesIs, OtherRenamesIs, Zenon DEF Others
<1> QED BY <1>1, ActsIs

\* The end of the connection keeps the front of the stream.
LEMMA FramingCloses ==
  ASSUME Framing, Closes
  PROVE  Framing' /\ closed' = "closed"
<1>1. /\ closed = "no" /\ closed' = "closed" /\ up' = <<>> /\ UNCHANGED <<srv, seen>>
      /\ UNCHANGED <<pc, isConnected, registered, stale, isInChannel, myNick, userList>>
      /\ inBuff' = inBuff /\ inBuff2' = inBuff2
  BY DEF Closes, client
<1>2. PICK k \in 0..Len(down) : down' = SubSeq(down, 1, k)
  BY Zenon DEF Closes
<1>3. /\ inBuff \in Seq(Pieces) /\ inBuff2 \in Seq(Pieces) /\ down \in Seq(Pieces)
      /\ Lined(Stream) /\ InHand
  BY DEF Framing, Wire
<1> DEFINE c == inBuff \o inBuff2
           n == Len(c) + k
<1>4. c \in Seq(Pieces) /\ Len(c) \in Nat /\ k \in Nat /\ Len(down) \in Nat /\ k <= Len(down)
      /\ down' \in Seq(Pieces) /\ Len(down') = k /\ \A i \in 1..k : down'[i] = down[i]
  BY <1>2, <1>3, ConcatProperties
<1>5. Stream = c \o down /\ Stream' = c \o down'
  BY <1>1 DEF Stream
<1> HIDE DEF c
<1>6. /\ Stream \in Seq(Pieces) /\ Len(Stream) = Len(c) + Len(down)
      /\ (\A i \in 1..Len(c) : Stream[i] = c[i])
      /\ \A i \in 1..Len(down) : Stream[Len(c) + i] = down[i]
  <2>1. c \in Seq(Pieces) /\ down \in Seq(Pieces)
    BY <1>3, <1>4
  <2> QED BY <1>5, <2>1, JoinedIs
<1>7. /\ Stream' \in Seq(Pieces) /\ Len(Stream') = Len(c) + Len(down')
      /\ (\A i \in 1..Len(c) : Stream'[i] = c[i])
      /\ \A i \in 1..Len(down') : Stream'[Len(c) + i] = down'[i]
  <2> DEFINE d == down'
             t == Stream'
  <2>1. c \in Seq(Pieces) /\ d \in Seq(Pieces) /\ t = c \o d
    BY <1>4, <1>5
  <2> HIDE DEF d, t
  <2>2. /\ t \in Seq(Pieces) /\ Len(t) = Len(c) + Len(d)
        /\ (\A i \in 1..Len(c) : t[i] = c[i])
        /\ \A i \in 1..Len(d) : t[Len(c) + i] = d[i]
    BY <2>1, JoinedIs
  <2> QED BY <2>2 DEF d, t
<1>8. n \in 0..Len(Stream) /\ Len(Stream') = n
  BY <1>4, <1>6, <1>7
<1>9. \A i \in 1..n : Stream'[i] = Stream[i]
  <2>1. TAKE i \in 1..n
  <2>2. CASE i <= Len(c)
    <3>1. i \in 1..Len(c)
      BY <1>4, <2>2
    <3> QED BY <1>6, <1>7, <3>1
  <2>3. CASE ~(i <= Len(c))
    <3> DEFINE j == i - Len(c)
    <3>1. j \in 1..k /\ j \in 1..Len(down) /\ j \in 1..Len(down') /\ Len(c) + j = i
      BY <1>4, <2>3
    <3> HIDE DEF j
    <3> QED BY <1>4, <1>6, <1>7, <3>1
  <2> QED BY <2>2, <2>3
<1>10. Lined(Stream')
  <2> DEFINE t == SubSeq(Stream, 1, n)
             u == Stream'
  <2>1. Lined(t) /\ Len(t) = n /\ \A i \in 1..n : t[i] = Stream[i]
    BY <1>3, <1>8, LinedFront
  <2> HIDE DEF t, u
  <2>2. u = t
    <3>1. u \in Seq(Pieces) /\ t \in Seq(Pieces) /\ Len(u) = Len(t)
      BY <1>7, <1>8, <2>1 DEF Lined, u
    <3>2. \A i \in 1..Len(t) : u[i] = t[i]
      BY <1>9, <2>1 DEF u
    <3> QED BY <3>1, <3>2, SeqEqual
  <2> QED BY <2>1, <2>2 DEF u
<1>11. InHand'
  BY <1>1, <1>3 DEF InHand
<1>12. Wire'
  BY <1>1, <1>3, <1>4, <1>10, <1>11 DEF Wire
<1>13. Typing'
  BY <1>1 DEF Framing, Typing
<1>14. Flags' /\ Numbers' /\ Seated'
  BY <1>1 DEF Framing, Flags, Numbers, Seated
<1> QED BY <1>1, <1>12, <1>13, <1>14 DEF Framing

LEMMA FramingInit ==
  ASSUME Init
  PROVE  Framing
<1>1. Wire
  <2>1. Stream = <<>>
    BY DEF Init, Stream
  <2>2. Lined(<<>>) /\ Whole(<<>>)
    BY DEF Lined, Whole
  <2>3. InHand
    BY DEF Init, InHand
  <2> QED BY <2>1, <2>2, <2>3 DEF Init, Wire
<1>2. Flags
  BY DEF Init, Flags
<1>3. srv \in Srvs /\ srv.number = 0 /\ srv.nick = NoNick /\ srv.joined = FALSE
      /\ srv.others = FirstOthers
  BY NickAssumption, SizeAssumption DEF Init, Srvs
<1>4. Typing
  BY <1>3, NickAssumption DEF Init, Typing, Names, Srvs
<1>5. Numbers /\ Seated
  BY <1>3, NickAssumption, SizeAssumption DEF Init, Numbers, Seated
<1> QED BY <1>1, <1>2, <1>4, <1>5 DEF Framing

LEMMA FramingNext ==
  ASSUME Framing, [Next]_vars
  PROVE  Framing'
<1>1. CASE User
  <2>1. CASE \E n \in Nicks : Nick(n)
    BY <2>1, FramingNick
  <2>2. CASE doJoin
    BY <2>2, FramingJoin
  <2>3. CASE doPart("*") \/ doPart("#") \/ doPart("other")
    BY <2>3, FramingPart
  <2>4. CASE connectToServer
    BY <2>4, FramingConnect
  <2> QED BY <1>1, <2>1, <2>2, <2>3, <2>4 DEF User
<1>2. CASE readLine
  BY <1>2, FramingReadLine
<1>3. CASE readLineStale
  BY <1>3, FramingStale
<1>4. CASE readByte
  BY <1>4, FramingByte
<1>5. CASE Spins \/ Dead \/ UNCHANGED vars
  <2>1. UNCHANGED vars
    BY <1>5 DEF Spins, Dead
  <2> QED BY <2>1, FramingSame
<1>6. CASE Serve
  BY <1>6, FramingServe
<1>7. CASE Others
  BY <1>7, FramingOthers
<1>8. CASE Closes
  BY <1>8, FramingCloses
<1> QED BY <1>1, <1>2, <1>3, <1>4, <1>5, <1>6, <1>7, <1>8 DEF Next

\* network.c:135: however recv cuts the stream, the main loop stands between two lines,
\* and every variable has its type: what is on its way is a sequence of lines, and
\* readLine holds no part of one when it returns.
THEOREM FramedAlways == Spec => []Framed
<1>1. Init => Framing
  BY FramingInit
<1>2. Framing /\ [Next]_vars => Framing'
  BY FramingNext
<1>3. Framing => Framed
  <2> SUFFICES ASSUME Framing PROVE Framed
    OBVIOUS
  <2>1. TypeOK
    <3>1. stale \in 0..MaxServers
      BY SizeAssumption DEF Framing, Numbers
    <3>2. Len(inBuff) <= MaxCommandLen /\ Len(inBuff2) <= MaxCommandLen
      <4>1. Len(inBuff) \in Nat /\ Len(inBuff2) \in Nat
        BY DEF Framing, Wire
      <4> QED BY <4>1, SizeAssumption DEF Framing, Typing
    <3>3. {isConnected, registered, isInChannel} \subseteq BOOLEAN
      BY Zenon DEF Framing, Flags
    <3> QED BY <3>1, <3>2, <3>3, Zenon DEF Framing, Typing, Names, TypeOK, Happenings
  <2>2. ASSUME pc \in {"main", "recv"}, down # <<>>  PROVE Head(down) \notin {CR, LF}
    <3>1. inBuff = <<>> /\ inBuff2 = <<>> /\ down \in Seq(Pieces)
      BY <2>2 DEF Framing, Wire, InHand
    <3>2. Lined(down)
      BY <3>1, EmptyBefore DEF Framing, Wire, Stream
    <3>3. Head(down) \in Msgs
      BY <2>2, <3>1, <3>2 DEF Lined
    <3> QED BY <3>3, MsgIs, Zenon
  <2> QED BY <2>1, <2>2 DEF Framed
<1> QED BY <1>1, <1>2, <1>3, PTL DEF Spec
-----------------------------------------------------------------------------
(* What becomes of a nick on its way through the stream.                   *)

Persons == Nicks \union {NoNick}

\* Who the one that has nick p is after a piece: nobody, when p has left.
Moved(x, p) == IF x \in {CR, LF} THEN p
               ELSE IF x.cmd = "LEAVE" /\ p = x.nick THEN NoNick
               ELSE IF x.cmd = "NICK" /\ p = x.nick THEN x.new
               ELSE p

\* The nicks that a piece puts on the list, and the one that it makes of another.
Adds(x) == IF x \in {CR, LF} THEN {}
           ELSE IF x.cmd = "JOIN" THEN {x.nick}
           ELSE IF x.cmd = "NAMES" THEN x.names
           ELSE {}
Makes(x) == IF x \in Msgs /\ x.cmd = "NICK" THEN {x.new} ELSE {}

\* c[k] is who it is after k pieces, from the j-th on.
Walk(s, j, c) == \A k \in (j + 1)..Len(s) : c[k] = Moved(s[k], c[k - 1])

\* Everybody in O is where somebody in the list L ends up, which is what the
\* first i pieces have made of it, or somebody that a later piece adds.
ListedIn(L, s, i, O) ==
    \A o \in O : \E c \in [Nat -> Nicks] : \E j \in i..Len(s) :
       /\ Walk(s, j, c) /\ c[Len(s)] = o
       /\ IF j = i THEN c[i] \in L ELSE c[j] \in Adds(s[j])

\* Nobody in the list but the user, and nobody that a later piece puts there,
\* ends up outside Ok.
StrangeIn(L, s, i, me, Ok) ==
    \A c \in [Nat -> Persons] : \A j \in i..Len(s) :
       /\ Walk(s, j, c)
       /\ IF j = i THEN c[i] \in L \ {me} ELSE c[j] \in Adds(s[j]) \union Makes(s[j])
       => c[Len(s)] \in Ok

\* Nor does the user's nick, wherever it begins.
MineIn(s, me, Ok) ==
    \A c \in [Nat -> Persons] : \A j \in 0..Len(s) :
       Walk(s, j, c) /\ c[j] = me => c[Len(s)] \in Ok

LEMMA EndsMove ==
  ASSUME NEW x, x \in {CR, LF}, NEW p
  PROVE  Moved(x, p) = p /\ Adds(x) = {} /\ Makes(x) = {}
BY MsgIs DEF Moved, Adds, Makes

LEMMA MessageMoves ==
  ASSUME NEW m \in Msgs, NEW p
  PROVE  /\ m.cmd = "JOIN" => Moved(m, p) = p /\ Adds(m) = {m.nick} /\ Makes(m) = {}
         /\ m.cmd = "NAMES" => Moved(m, p) = p /\ Adds(m) = m.names /\ Makes(m) = {}
         /\ m.cmd = "LEAVE" => /\ Moved(m, p) = IF p = m.nick THEN NoNick ELSE p
                               /\ Adds(m) = {} /\ Makes(m) = {}
         /\ m.cmd = "NICK" => /\ Moved(m, p) = IF p = m.nick THEN m.new ELSE p
                              /\ Adds(m) = {} /\ Makes(m) = {m.new}
BY MsgIs DEF Moved, Adds, Makes

\* The nick that is listed stays listed, under the name that it gets.
LEMMA ListFollows ==
  ASSUME NEW L \in SUBSET Nicks, NEW x \in Pieces
  PROVE  /\ \A p \in L : Moved(x, p) \in Nicks => Moved(x, p) \in interpretPiece(L, x)
         /\ Adds(x) \subseteq interpretPiece(L, x)
<1>1. CASE x \in {CR, LF}
  BY <1>1, EndsMove DEF interpretPiece
<1>2. CASE x \in Msgs
  <2>1. interpretPiece(L, x) = interpretMessage(L, x)
    BY <1>2, MsgIs DEF interpretPiece
  <2>2. CASE x.cmd = "JOIN"
    BY <1>2, <2>1, <2>2, MessageMoves DEF interpretMessage
  <2>3. CASE x.cmd = "NAMES"
    BY <1>2, <2>1, <2>3, MessageMoves DEF interpretMessage
  <2>4. CASE x.cmd = "LEAVE"
    BY <1>2, <2>1, <2>4, MessageMoves, NickAssumption DEF interpretMessage
  <2>5. CASE x.cmd = "NICK"
    BY <1>2, <2>1, <2>5, MessageMoves DEF interpretMessage, renameUserInList
  <2> QED BY <1>2, <2>2, <2>3, <2>4, <2>5, MsgIs
<1> QED BY <1>1, <1>2 DEF Pieces

\* Who is on the list after a piece was there before, or the piece put him there.
LEMMA ListComesFrom ==
  ASSUME NEW L \in SUBSET Nicks, NEW x \in Pieces, NEW p \in interpretPiece(L, x)
  PROVE  (p \in L /\ Moved(x, p) = p) \/ p \in Adds(x) \union Makes(x)
<1>1. CASE x \in {CR, LF}
  BY <1>1, EndsMove DEF interpretPiece
<1>2. CASE x \in Msgs
  <2>1. interpretPiece(L, x) = interpretMessage(L, x)
    BY <1>2, MsgIs DEF interpretPiece
  <2>2. CASE x.cmd = "JOIN"
    BY <1>2, <2>1, <2>2, MessageMoves DEF interpretMessage
  <2>3. CASE x.cmd = "NAMES"
    BY <1>2, <2>1, <2>3, MessageMoves DEF interpretMessage
  <2>4. CASE x.cmd = "LEAVE"
    BY <1>2, <2>1, <2>4, MessageMoves DEF interpretMessage
  <2>5. CASE x.cmd = "NICK"
    BY <1>2, <2>1, <2>5, MessageMoves DEF interpretMessage, renameUserInList
  <2> QED BY <1>2, <2>2, <2>3, <2>4, <2>5, MsgIs
<1> QED BY <1>1, <1>2 DEF Pieces

\* readLine takes a piece.
LEMMA ListedTakes ==
  ASSUME NEW s \in Seq(Pieces), NEW i \in Nat, i < Len(s), NEW L \in SUBSET Nicks, NEW O,
         ListedIn(L, s, i, O)
  PROVE  ListedIn(interpretPiece(L, s[i + 1]), s, i + 1, O)
<1> DEFINE x == s[i + 1]
           M == interpretPiece(L, x)
<1>1. i + 1 \in 1..Len(s) /\ x \in Pieces /\ Len(s) \in Nat
  OBVIOUS
<1> HIDE DEF x, M
<1> SUFFICES ASSUME NEW o \in O
             PROVE  \E c \in [Nat -> Nicks] : \E j \in (i + 1)..Len(s) :
                       /\ Walk(s, j, c) /\ c[Len(s)] = o
                       /\ IF j = i + 1 THEN c[i + 1] \in M ELSE c[j] \in Adds(s[j])
  BY DEF ListedIn, M, x
<1>2. PICK c \in [Nat -> Nicks] : \E j \in i..Len(s) :
         /\ Walk(s, j, c) /\ c[Len(s)] = o
         /\ IF j = i THEN c[i] \in L ELSE c[j] \in Adds(s[j])
  BY DEF ListedIn
<1>3. PICK j \in i..Len(s) :
         /\ Walk(s, j, c) /\ c[Len(s)] = o
         /\ IF j = i THEN c[i] \in L ELSE c[j] \in Adds(s[j])
  BY <1>2
<1>4. CASE j = i
  <2>1. c[i + 1] = Moved(x, c[i])
    <3>1. i + 1 \in (j + 1)..Len(s) /\ (i + 1) - 1 = i
      BY <1>1, <1>4
    <3> QED BY <1>3, <3>1 DEF Walk, x
  <2>2. c[i + 1] \in Nicks /\ c[i] \in L
    BY <1>3, <1>4
  <2>3. c[i + 1] \in M
    BY <1>1, <2>1, <2>2, ListFollows DEF M
  <2>4. Walk(s, i + 1, c) /\ i + 1 \in (i + 1)..Len(s)
    BY <1>1, <1>3, <1>4 DEF Walk
  <2> QED BY <1>3, <2>3, <2>4
<1>5. CASE j = i + 1
  <2>1. c[i + 1] \in M
    <3>1. c[i + 1] \in Adds(x)
      <4>1. j # i
        BY <1>5
      <4> QED BY <1>3, <1>5, <4>1 DEF x
    <3>2. Adds(x) \subseteq M
      BY <1>1, ListFollows DEF M
    <3> QED BY <3>1, <3>2
  <2> QED BY <1>1, <1>3, <1>5, <2>1
<1>6. CASE j # i /\ j # i + 1
  <2>1. j \in (i + 1)..Len(s)
    BY <1>1, <1>6
  <2> QED BY <1>3, <1>6, <2>1
<1> QED BY <1>4, <1>5, <1>6

LEMMA StrangeTakes ==
  ASSUME NEW s \in Seq(Pieces), NEW i \in Nat, i < Len(s), NEW L \in SUBSET Nicks,
         NEW me, NEW Ok, StrangeIn(L, s, i, me, Ok)
  PROVE  StrangeIn(interpretPiece(L, s[i + 1]), s, i + 1, me, Ok)
<1> DEFINE x == s[i + 1]
           M == interpretPiece(L, x)
<1>1. i + 1 \in 1..Len(s) /\ x \in Pieces /\ Len(s) \in Nat
  OBVIOUS
<1> HIDE DEF x, M
<1> SUFFICES ASSUME NEW c \in [Nat -> Persons], NEW j \in (i + 1)..Len(s), Walk(s, j, c),
                    IF j = i + 1 THEN c[i + 1] \in M \ {me}
                                 ELSE c[j] \in Adds(s[j]) \union Makes(s[j])
             PROVE  c[Len(s)] \in Ok
  BY DEF StrangeIn, M, x
<1>2. \A d \in [Nat -> Persons] : \A k \in i..Len(s) :
         /\ Walk(s, k, d)
         /\ IF k = i THEN d[i] \in L \ {me} ELSE d[k] \in Adds(s[k]) \union Makes(s[k])
         => d[Len(s)] \in Ok
  BY DEF StrangeIn
<1>3. CASE c[j] \in Adds(s[j]) \union Makes(s[j])
  <2>1. j \in i..Len(s) /\ j # i
    BY <1>1
  <2> QED BY <1>2, <1>3, <2>1
<1>4. CASE j = i + 1 /\ c[i + 1] \in M \ {me}
  <2>1. CASE c[i + 1] \in Adds(x) \union Makes(x)
    BY <1>3, <1>4, <2>1 DEF x
  <2>2. CASE c[i + 1] \in L /\ Moved(x, c[i + 1]) = c[i + 1]
    <3> DEFINE p == c[i + 1]
               d == [c EXCEPT ![i] = p]
    <3>1. p \in Persons
      OBVIOUS
    <3>2. d \in [Nat -> Persons] /\ d[i] = p /\ \A k \in Nat : k # i => d[k] = c[k]
      BY <3>1
    <3> HIDE DEF d
    <3>3. Walk(s, i, d)
      <4> SUFFICES ASSUME NEW k \in (i + 1)..Len(s) PROVE d[k] = Moved(s[k], d[k - 1])
        BY DEF Walk
      <4>1. CASE k = i + 1
        <5>1. d[k] = p /\ d[k - 1] = p
          BY <3>2, <4>1
        <5> QED BY <2>2, <4>1, <5>1 DEF x
      <4>2. CASE k # i + 1
        <5>1. k \in (j + 1)..Len(s) /\ k # i /\ k - 1 # i /\ k \in Nat /\ k - 1 \in Nat
          BY <1>1, <1>4, <4>2
        <5>2. c[k] = Moved(s[k], c[k - 1])
          BY <5>1 DEF Walk
        <5> QED BY <3>2, <5>1, <5>2
      <4> QED BY <4>1, <4>2
    <3>4. d[Len(s)] = c[Len(s)] /\ i \in i..Len(s)
      BY <1>1, <3>2
    <3>5. d[i] \in L \ {me}
      BY <1>4, <2>2, <3>2
    <3>6. d[Len(s)] \in Ok
      BY <1>2, <3>2, <3>3, <3>4, <3>5
    <3> QED BY <3>4, <3>6
  <2> QED BY <1>1, <1>4, <2>1, <2>2, ListComesFrom DEF M
<1> QED BY <1>3, <1>4

\* readLine takes e pieces off the front.
LEMMA ListedAdvances ==
  ASSUME NEW s \in Seq(Pieces), NEW e \in 0..Len(s), NEW h \in [0..e -> SUBSET Nicks],
         Becomes(h, s, e), NEW O, ListedIn(h[0], s, 0, O)
  PROVE  ListedIn(h[e], Behind(s, e), 0, O)
<1> DEFINE T == {m \in 0..e : ListedIn(h[m], s, m, O)}
           n == Len(s)
           t == Behind(s, e)
<1>1. e \in Nat /\ n \in Nat /\ e <= n
  OBVIOUS
<1>2. 0 \in T
  BY <1>1
<1>3. ASSUME NEW m \in 0..e, m \in T, m < e  PROVE m + 1 \in T
  <2>1. m \in Nat /\ m < Len(s) /\ m + 1 \in 1..e /\ m + 1 \in 0..e /\ (m + 1) - 1 = m
        /\ h[m] \in SUBSET Nicks
    BY <1>1, <1>3
  <2>2. ListedIn(h[m], s, m, O)
    BY <1>3
  <2>3. ListedIn(interpretPiece(h[m], s[m + 1]), s, m + 1, O)
    BY <2>1, <2>2, ListedTakes
  <2>4. h[m + 1] = interpretPiece(h[m], s[m + 1])
    BY <2>1 DEF Becomes
  <2> QED BY <2>1, <2>3, <2>4
<1>4. e \in 0..e
  BY <1>1
<1> HIDE DEF T
<1>5. e \in T
  BY <1>1, <1>2, <1>3, <1>4, Counting
<1>6. ListedIn(h[e], s, e, O)
  BY <1>5 DEF T
<1>7. t \in Seq(Pieces) /\ Len(t) = n - e /\ \A k \in 1..(n - e) : t[k] = s[k + e]
  BY BehindIs
<1> HIDE DEF t, n
<1> SUFFICES ASSUME NEW o \in O
             PROVE  \E c \in [Nat -> Nicks] : \E j \in 0..Len(t) :
                       /\ Walk(t, j, c) /\ c[Len(t)] = o
                       /\ IF j = 0 THEN c[0] \in h[e] ELSE c[j] \in Adds(t[j])
  BY DEF ListedIn, t
<1>8. PICK c \in [Nat -> Nicks] : \E j \in e..n :
         /\ Walk(s, j, c) /\ c[n] = o
         /\ IF j = e THEN c[e] \in h[e] ELSE c[j] \in Adds(s[j])
  BY <1>6 DEF ListedIn, n
<1>9. PICK j \in e..n :
         /\ Walk(s, j, c) /\ c[n] = o
         /\ IF j = e THEN c[e] \in h[e] ELSE c[j] \in Adds(s[j])
  BY <1>8
<1> DEFINE d == [k \in Nat |-> c[k + e]]
           i == j - e
<1>10. d \in [Nat -> Nicks] /\ \A k \in Nat : d[k] = c[k + e]
  BY <1>1
<1>11. i \in 0..Len(t) /\ i + e = j /\ i \in Nat /\ (i = 0 <=> j = e)
  BY <1>1, <1>7
<1> HIDE DEF d, i
<1>12. Walk(t, i, d)
  <2> SUFFICES ASSUME NEW k \in (i + 1)..Len(t) PROVE d[k] = Moved(t[k], d[k - 1])
    BY DEF Walk
  <2>1. /\ k \in 1..(n - e) /\ k \in Nat /\ k - 1 \in Nat /\ k + e \in (j + 1)..n
        /\ (k - 1) + e = (k + e) - 1
    BY <1>1, <1>7, <1>11
  <2>2. c[k + e] = Moved(s[k + e], c[(k + e) - 1])
    BY <1>9, <2>1 DEF Walk, n
  <2> QED BY <1>7, <1>10, <2>1, <2>2
<1>13. d[Len(t)] = o
  <2>1. Len(t) \in Nat /\ Len(t) + e = n
    BY <1>1, <1>7
  <2> QED BY <1>9, <1>10, <2>1
<1>14. IF i = 0 THEN d[0] \in h[e] ELSE d[i] \in Adds(t[i])
  <2>1. CASE i = 0
    <3>1. d[0] = c[e] /\ j = e
      <4>1. 0 + e = e /\ 0 \in Nat
        BY <1>1
      <4> QED BY <1>10, <1>11, <2>1, <4>1
    <3> QED BY <1>9, <2>1, <3>1
  <2>2. CASE i # 0
    <3>1. i \in 1..(n - e) /\ j # e
      BY <1>1, <1>7, <1>11, <2>2
    <3>2. d[i] = c[j] /\ t[i] = s[j]
      BY <1>7, <1>10, <1>11, <3>1
    <3> QED BY <1>9, <2>2, <3>1, <3>2
  <2> QED BY <2>1, <2>2
<1> QED BY <1>10, <1>11, <1>12, <1>13, <1>14

\* A walk behind the first e pieces is one of the whole.
LEMMA WalkBehind ==
  ASSUME NEW s \in Seq(Pieces), NEW e \in 0..Len(s),
         NEW c \in [Nat -> Persons], NEW j \in 0..Len(Behind(s, e)), Walk(Behind(s, e), j, c)
  PROVE  \E d \in [Nat -> Persons] :
            /\ Walk(s, j + e, d) /\ j + e \in e..Len(s)
            /\ d[j + e] = c[j] /\ d[Len(s)] = c[Len(Behind(s, e))]
            /\ j # 0 => Behind(s, e)[j] = s[j + e]
<1> DEFINE n == Len(s)
           t == Behind(s, e)
           d == [k \in Nat |-> IF k >= e THEN c[k - e] ELSE c[0]]
<1>1. e \in Nat /\ n \in Nat /\ e <= n
  OBVIOUS
<1>2. t \in Seq(Pieces) /\ Len(t) = n - e /\ \A k \in 1..(n - e) : t[k] = s[k + e]
  BY BehindIs
<1> HIDE DEF t
<1>3. j \in Nat /\ j + e \in e..n /\ j \in 0..Len(t)
  <2>1. j \in 0..Len(t)
    BY DEF t
  <2> QED BY <1>1, <1>2, <2>1
<1>4. d \in [Nat -> Persons] /\ \A k \in Nat : k >= e => d[k] = c[k - e]
  BY <1>1
<1> HIDE DEF d, n
<1>5. Walk(s, j + e, d)
  <2> SUFFICES ASSUME NEW k \in ((j + e) + 1)..n PROVE d[k] = Moved(s[k], d[k - 1])
    BY DEF Walk, n
  <2> DEFINE i == k - e
  <2>1. /\ i \in (j + 1)..Len(t) /\ i \in 1..(n - e) /\ i + e = k /\ k \in Nat /\ k - 1 \in Nat
        /\ k >= e /\ k - 1 >= e /\ (k - 1) - e = i - 1
    BY <1>1, <1>2, <1>3
  <2>2. d[k] = c[i] /\ d[k - 1] = c[i - 1]
    BY <1>4, <2>1
  <2> HIDE DEF i
  <2>3. c[i] = Moved(t[i], c[i - 1])
    BY <2>1 DEF Walk, t
  <2> QED BY <1>2, <2>1, <2>2, <2>3
<1>6. d[j + e] = c[j]
  <2>1. j + e \in Nat /\ j + e >= e /\ (j + e) - e = j
    BY <1>1, <1>3
  <2> QED BY <1>4, <2>1
<1>7. d[n] = c[Len(t)]
  BY <1>1, <1>2, <1>4
<1>8. j # 0 => t[j] = s[j + e]
  <2>1. j # 0 => j \in 1..(n - e)
    BY <1>1, <1>2, <1>3
  <2> QED BY <1>2, <2>1
<1> QED BY <1>3, <1>4, <1>5, <1>6, <1>7, <1>8, Zenon DEF t, n

LEMMA MineAdvances ==
  ASSUME NEW s \in Seq(Pieces), NEW e \in 0..Len(s), NEW me, NEW Ok, MineIn(s, me, Ok)
  PROVE  MineIn(Behind(s, e), me, Ok)
<1> SUFFICES ASSUME NEW c \in [Nat -> Persons], NEW j \in 0..Len(Behind(s, e)),
                    Walk(Behind(s, e), j, c), c[j] = me
             PROVE  c[Len(Behind(s, e))] \in Ok
  BY DEF MineIn
<1>1. PICK d \in [Nat -> Persons] :
         /\ Walk(s, j + e, d) /\ j + e \in e..Len(s)
         /\ d[j + e] = c[j] /\ d[Len(s)] = c[Len(Behind(s, e))]
  BY WalkBehind
<1>2. j + e \in 0..Len(s)
  BY <1>1
<1> QED BY <1>1, <1>2 DEF MineIn

LEMMA StrangeAdvances ==
  ASSUME NEW s \in Seq(Pieces), NEW e \in 0..Len(s), NEW h \in [0..e -> SUBSET Nicks],
         Becomes(h, s, e), NEW me, NEW Ok, StrangeIn(h[0], s, 0, me, Ok)
  PROVE  StrangeIn(h[e], Behind(s, e), 0, me, Ok)
<1> DEFINE T == {m \in 0..e : StrangeIn(h[m], s, m, me, Ok)}
<1>1. e \in Nat /\ Len(s) \in Nat /\ e <= Len(s)
  OBVIOUS
<1>2. 0 \in T
  BY <1>1
<1>3. ASSUME NEW m \in 0..e, m \in T, m < e  PROVE m + 1 \in T
  <2>1. m \in Nat /\ m < Len(s) /\ m + 1 \in 1..e /\ m + 1 \in 0..e /\ (m + 1) - 1 = m
        /\ h[m] \in SUBSET Nicks
    BY <1>1, <1>3
  <2>2. StrangeIn(h[m], s, m, me, Ok)
    BY <1>3
  <2>3. StrangeIn(interpretPiece(h[m], s[m + 1]), s, m + 1, me, Ok)
    BY <2>1, <2>2, StrangeTakes
  <2>4. h[m + 1] = interpretPiece(h[m], s[m + 1])
    BY <2>1 DEF Becomes
  <2> QED BY <2>1, <2>3, <2>4
<1>4. e \in 0..e
  BY <1>1
<1> HIDE DEF T
<1>5. e \in T
  BY <1>1, <1>2, <1>3, <1>4, Counting
<1>6. StrangeIn(h[e], s, e, me, Ok)
  BY <1>5 DEF T
<1> DEFINE t == Behind(s, e)
<1> SUFFICES ASSUME NEW c \in [Nat -> Persons], NEW j \in 0..Len(t), Walk(t, j, c),
                    IF j = 0 THEN c[0] \in h[e] \ {me}
                             ELSE c[j] \in Adds(t[j]) \union Makes(t[j])
             PROVE  c[Len(t)] \in Ok
  BY DEF StrangeIn
<1>7. PICK d \in [Nat -> Persons] :
         /\ Walk(s, j + e, d) /\ j + e \in e..Len(s)
         /\ d[j + e] = c[j] /\ d[Len(s)] = c[Len(t)]
         /\ j # 0 => t[j] = s[j + e]
  BY WalkBehind
<1> HIDE DEF t
<1>8. IF j + e = e THEN d[e] \in h[e] \ {me} ELSE d[j + e] \in Adds(s[j + e]) \union Makes(s[j + e])
  <2>0. j \in Nat /\ (j + e = e <=> j = 0)
    BY <1>1, <1>7
  <2>1. CASE j = 0
    <3>1. j + e = e
      BY <2>0, <2>1
    <3> QED BY <1>7, <2>1, <3>1
  <2>2. CASE j # 0
    BY <1>7, <2>0, <2>2
  <2> QED BY <2>1, <2>2
<1> QED BY <1>6, <1>7, <1>8 DEF StrangeIn

\* The stream gets a line more: what was on its way goes through it as well.
LEMMA WalkMore ==
  ASSUME NEW s \in Seq(Pieces), NEW t, NEW m \in Msgs, More(s, t, m),
         NEW c, NEW j \in 0..Len(t), Walk(t, j, c)
  PROVE  /\ Len(t) \in Nat /\ Len(s) \in Nat /\ Len(t) = Len(s) + 3
         /\ j <= Len(s) => Walk(s, j, c) /\ c[Len(t)] = Moved(m, c[Len(s)])
         /\ j > Len(s) => c[Len(t)] = c[j]
<1> DEFINE n == Len(s)
<1>1. /\ n \in Nat /\ Len(t) = n + 3 /\ (\A k \in 1..n : t[k] = s[k])
      /\ t[n + 1] = m /\ t[n + 2] = CR /\ t[n + 3] = LF
  BY DEF More
<1> HIDE DEF n
<1>2. j <= n + 1 => c[n + 2] = c[n + 1]
  <2> SUFFICES ASSUME j <= n + 1 PROVE c[n + 2] = c[n + 1]
    OBVIOUS
  <2>1. n + 2 \in (j + 1)..Len(t) /\ (n + 2) - 1 = n + 1
    BY <1>1
  <2>2. c[n + 2] = Moved(t[n + 2], c[n + 1])
    BY <2>1 DEF Walk
  <2> QED BY <1>1, <2>2, EndsMove
<1>3. j <= n + 2 => c[n + 3] = c[n + 2]
  <2> SUFFICES ASSUME j <= n + 2 PROVE c[n + 3] = c[n + 2]
    OBVIOUS
  <2>1. n + 3 \in (j + 1)..Len(t) /\ (n + 3) - 1 = n + 2
    BY <1>1
  <2>2. c[n + 3] = Moved(t[n + 3], c[n + 2])
    BY <2>1 DEF Walk
  <2> QED BY <1>1, <2>2, EndsMove
<1>4. ASSUME j <= n  PROVE Walk(s, j, c) /\ c[n + 3] = Moved(m, c[n])
  <2>1. Walk(s, j, c)
    <3> SUFFICES ASSUME NEW k \in (j + 1)..n PROVE c[k] = Moved(s[k], c[k - 1])
      BY DEF Walk, n
    <3>1. k \in (j + 1)..Len(t) /\ k \in 1..n
      BY <1>1
    <3>2. c[k] = Moved(t[k], c[k - 1])
      BY <3>1 DEF Walk
    <3> QED BY <1>1, <3>1, <3>2
  <2>2. n + 1 \in (j + 1)..Len(t) /\ (n + 1) - 1 = n /\ j <= n + 1 /\ j <= n + 2
    BY <1>1, <1>4
  <2>3. c[n + 1] = Moved(t[n + 1], c[n])
    BY <2>2 DEF Walk
  <2> QED BY <1>1, <1>2, <1>3, <2>1, <2>2, <2>3
<1>5. ASSUME j > n  PROVE c[n + 3] = c[j]
  <2>1. j = n + 1 \/ j = n + 2 \/ j = n + 3
    BY <1>1, <1>5
  <2>2. n + 1 <= n + 1 /\ n + 1 <= n + 2 /\ n + 2 <= n + 2
    BY <1>1
  <2> QED BY <1>2, <1>3, <2>1, <2>2
<1> QED BY <1>1, <1>4, <1>5 DEF n

\* A walk through the stream goes on through the line.
LEMMA WalkOn ==
  ASSUME NEW s \in Seq(Pieces), NEW t, NEW m \in Msgs, More(s, t, m),
         NEW c \in [Nat -> Nicks], NEW j \in 0..Len(s), Walk(s, j, c),
         NEW v \in Nicks, Moved(m, c[Len(s)]) = v
  PROVE  \E d \in [Nat -> Nicks] :
            /\ Walk(t, j, d) /\ d[Len(t)] = v /\ j \in 0..Len(t)
            /\ d[j] = c[j] /\ (j # 0 => t[j] = s[j])
<1> DEFINE n == Len(s)
           d == [k \in Nat |-> IF k <= n THEN c[k] ELSE v]
<1>1. /\ n \in Nat /\ Len(t) = n + 3 /\ (\A k \in 1..n : t[k] = s[k])
      /\ t[n + 1] = m /\ t[n + 2] = CR /\ t[n + 3] = LF /\ j \in Nat /\ j <= n
  BY DEF More
<1>2. /\ d \in [Nat -> Nicks] /\ (\A k \in Nat : k <= n => d[k] = c[k])
      /\ \A k \in Nat : ~(k <= n) => d[k] = v
  BY <1>1
<1> HIDE DEF n, d
<1>3. Walk(t, j, d)
  <2> SUFFICES ASSUME NEW k \in (j + 1)..Len(t) PROVE d[k] = Moved(t[k], d[k - 1])
    BY DEF Walk
  <2>1. k \in Nat /\ k - 1 \in Nat
    BY <1>1
  <2>2. CASE k <= n
    <3>1. k \in (j + 1)..n /\ k - 1 <= n /\ k \in 1..n
      BY <1>1, <2>2
    <3>2. c[k] = Moved(s[k], c[k - 1])
      BY <3>1 DEF Walk, n
    <3> QED BY <1>1, <1>2, <2>1, <2>2, <3>1, <3>2
  <2>3. CASE k = n + 1
    <3>1. k - 1 = n /\ ~(k <= n) /\ n <= n
      BY <1>1, <2>3
    <3>2. d[k] = v /\ d[k - 1] = c[n]
      BY <1>1, <1>2, <2>1, <3>1
    <3>3. t[k] = m
      BY <1>1, <2>3
    <3> QED BY <3>2, <3>3 DEF n
  <2>4. CASE k = n + 2 \/ k = n + 3
    <3>1. ~(k <= n) /\ ~(k - 1 <= n)
      BY <1>1, <2>4
    <3>2. d[k] = v /\ d[k - 1] = v
      BY <1>2, <2>1, <3>1
    <3>3. t[k] \in {CR, LF}
      BY <1>1, <2>4
    <3> QED BY <3>2, <3>3, EndsMove
  <2>5. k <= n \/ k = n + 1 \/ k = n + 2 \/ k = n + 3
    BY <1>1
  <2> QED BY <2>2, <2>3, <2>4, <2>5
<1>4. d[Len(t)] = v
  <2>1. Len(t) \in Nat /\ ~(Len(t) <= n)
    BY <1>1
  <2> QED BY <1>2, <2>1
<1>5. j \in 0..Len(t) /\ d[j] = c[j] /\ (j # 0 => t[j] = s[j])
  <2>1. j \in 0..Len(t) /\ (j # 0 => j \in 1..n)
    BY <1>1
  <2> QED BY <1>1, <1>2, <2>1
<1> QED BY <1>2, <1>3, <1>4, <1>5, Zenon

\* The others, when those who were there are who they were, or the line adds them.
LEMMA ListedMore ==
  ASSUME NEW s \in Seq(Pieces), NEW t, NEW m \in Msgs, More(s, t, m),
         NEW L, NEW O, ListedIn(L, s, 0, O), NEW Q \in SUBSET Nicks,
         \A o \in Q : o \in Adds(m) \/ \E p \in O : Moved(m, p) = o
  PROVE  ListedIn(L, t, 0, Q)
<1> SUFFICES ASSUME NEW o \in Q
             PROVE  \E d \in [Nat -> Nicks] : \E j \in 0..Len(t) :
                       /\ Walk(t, j, d) /\ d[Len(t)] = o
                       /\ IF j = 0 THEN d[0] \in L ELSE d[j] \in Adds(t[j])
  BY DEF ListedIn
<1>1. o \in Nicks
  OBVIOUS
<1>2. CASE o \in Adds(m)
  <2> DEFINE d == [k \in Nat |-> o]
             j == Len(s) + 1
  <2>1. d \in [Nat -> Nicks] /\ \A k \in Nat : d[k] = o
    BY <1>1
  <2> HIDE DEF d
  <2>2. /\ j \in 0..Len(t) /\ j # 0 /\ t[j] = m /\ j \in Nat /\ Len(t) \in Nat
        /\ \A k \in (j + 1)..Len(t) : t[k] \in {CR, LF} /\ k \in Nat /\ k - 1 \in Nat
    <3> DEFINE n == Len(s)
    <3>1. /\ n \in Nat /\ Len(t) = n + 3 /\ t[n + 1] = m /\ t[n + 2] = CR /\ t[n + 3] = LF
      BY DEF More
    <3> HIDE DEF n
    <3>2. n + 1 \in 0..Len(t) /\ n + 1 # 0 /\ n + 1 \in Nat /\ Len(t) \in Nat
      BY <3>1
    <3>3. ASSUME NEW k \in ((n + 1) + 1)..Len(t)  PROVE t[k] \in {CR, LF} /\ k \in Nat /\ k - 1 \in Nat
      <4>1. (k = n + 2 \/ k = n + 3) /\ k \in Nat /\ k - 1 \in Nat
        BY <3>1
      <4> QED BY <3>1, <4>1
    <3> QED BY <3>1, <3>2, <3>3 DEF n
  <2> HIDE DEF j
  <2>3. Walk(t, j, d)
    <3> SUFFICES ASSUME NEW k \in (j + 1)..Len(t) PROVE d[k] = Moved(t[k], d[k - 1])
      BY DEF Walk
    <3>1. t[k] \in {CR, LF} /\ d[k] = o /\ d[k - 1] = o
      BY <2>1, <2>2
    <3> QED BY <3>1, EndsMove
  <2>4. d[Len(t)] = o /\ d[j] \in Adds(t[j])
    BY <1>2, <2>1, <2>2
  <2> QED BY <2>1, <2>2, <2>3, <2>4
<1>3. ASSUME NEW p \in O, Moved(m, p) = o  PROVE
         \E d \in [Nat -> Nicks] : \E j \in 0..Len(t) :
                       /\ Walk(t, j, d) /\ d[Len(t)] = o
                       /\ IF j = 0 THEN d[0] \in L ELSE d[j] \in Adds(t[j])
  <2>1. PICK c \in [Nat -> Nicks] : \E j \in 0..Len(s) :
           /\ Walk(s, j, c) /\ c[Len(s)] = p
           /\ IF j = 0 THEN c[0] \in L ELSE c[j] \in Adds(s[j])
    BY DEF ListedIn
  <2>2. PICK j \in 0..Len(s) :
           /\ Walk(s, j, c) /\ c[Len(s)] = p
           /\ IF j = 0 THEN c[0] \in L ELSE c[j] \in Adds(s[j])
    BY <2>1
  <2>3. PICK d \in [Nat -> Nicks] :
            /\ Walk(t, j, d) /\ d[Len(t)] = o /\ j \in 0..Len(t)
            /\ d[j] = c[j] /\ (j # 0 => t[j] = s[j])
    BY <1>1, <1>3, <2>2, WalkOn
  <2>4. IF j = 0 THEN d[0] \in L ELSE d[j] \in Adds(t[j])
    BY <2>2, <2>3
  <2> QED BY <2>3, <2>4
<1> QED BY <1>2, <1>3

LEMMA StrangeMore ==
  ASSUME NEW s \in Seq(Pieces), NEW t, NEW m \in Msgs, More(s, t, m),
         NEW L, NEW me, NEW Ok, StrangeIn(L, s, 0, me, Ok), NEW Q,
         \A p \in Ok : Moved(m, p) \in Q, Adds(m) \union Makes(m) \subseteq Q
  PROVE  StrangeIn(L, t, 0, me, Q)
<1> SUFFICES ASSUME NEW c \in [Nat -> Persons], NEW j \in 0..Len(t), Walk(t, j, c),
                    IF j = 0 THEN c[0] \in L \ {me}
                             ELSE c[j] \in Adds(t[j]) \union Makes(t[j])
             PROVE  c[Len(t)] \in Q
  BY DEF StrangeIn
<1> DEFINE n == Len(s)
<1>1. /\ n \in Nat /\ Len(t) = n + 3
      /\ j <= n => Walk(s, j, c) /\ c[Len(t)] = Moved(m, c[n])
      /\ j > n => c[Len(t)] = c[j]
  BY WalkMore
<1>2. (\A k \in 1..n : t[k] = s[k]) /\ t[n + 1] = m /\ t[n + 2] = CR /\ t[n + 3] = LF
  BY DEF More
<1> HIDE DEF n
<1>3. CASE j <= n
  <2>1. j \in 0..n /\ (j # 0 => j \in 1..n)
    BY <1>1, <1>3
  <2>2. IF j = 0 THEN c[0] \in L \ {me} ELSE c[j] \in Adds(s[j]) \union Makes(s[j])
    BY <1>2, <2>1
  <2>3. c[n] \in Ok
    BY <1>1, <1>3, <2>1, <2>2 DEF StrangeIn, n
  <2> QED BY <1>1, <1>3, <2>3
<1>4. CASE j > n
  <2>1. j # 0 /\ (j = n + 1 \/ j = n + 2 \/ j = n + 3)
    BY <1>1, <1>4
  <2>2. c[j] \in Adds(t[j]) \union Makes(t[j])
    BY <2>1
  <2>3. t[j] = m \/ t[j] \in {CR, LF}
    BY <1>2, <2>1
  <2>4. c[j] \in Q
    BY <2>2, <2>3, EndsMove
  <2> QED BY <1>1, <1>4, <2>4
<1>5. j <= n \/ j > n
  BY <1>1
<1> QED BY <1>3, <1>4, <1>5

LEMMA MineMore ==
  ASSUME NEW s \in Seq(Pieces), NEW t, NEW m \in Msgs, More(s, t, m),
         NEW me, NEW Ok, MineIn(s, me, Ok), NEW Q,
         \A p \in Ok : Moved(m, p) \in Q, me \in Q
  PROVE  MineIn(t, me, Q)
<1> SUFFICES ASSUME NEW c \in [Nat -> Persons], NEW j \in 0..Len(t), Walk(t, j, c), c[j] = me
             PROVE  c[Len(t)] \in Q
  BY DEF MineIn
<1> DEFINE n == Len(s)
<1>1. /\ n \in Nat /\ Len(t) = n + 3
      /\ j <= n => Walk(s, j, c) /\ c[Len(t)] = Moved(m, c[n])
      /\ j > n => c[Len(t)] = c[j]
  BY WalkMore
<1> HIDE DEF n
<1>2. CASE j <= n
  <2>1. j \in 0..n
    BY <1>1, <1>2
  <2>2. c[n] \in Ok
    BY <1>1, <1>2, <2>1 DEF MineIn, n
  <2> QED BY <1>1, <1>2, <2>2
<1>3. CASE j > n
  BY <1>1, <1>3
<1>4. j <= n \/ j > n
  BY <1>1
<1> QED BY <1>2, <1>3, <1>4

\* A nick that nobody leaves or changes stays.
LEMMA NobodyMoves ==
  ASSUME NEW s \in Seq(Pieces), NEW p, NEW c, NEW j \in 0..Len(s), Walk(s, j, c), c[j] = p,
         \A k \in 1..Len(s) : s[k] \in Msgs /\ s[k].cmd \in {"LEAVE", "NICK"} => p # s[k].nick
  PROVE  c[Len(s)] = p
<1> DEFINE n == Len(s)
           T == {i \in 0..(n - j) : c[j + i] = p}
<1>1. n \in Nat /\ j \in Nat /\ n - j \in Nat /\ j + (n - j) = n /\ j + 0 = j
      /\ \A k \in 1..n : s[k] \in Pieces
  OBVIOUS
<1>2. 0 \in T
  BY <1>1
<1>3. ASSUME NEW i \in 0..(n - j), i \in T, i < n - j  PROVE i + 1 \in T
  <2> DEFINE k == (j + i) + 1
  <2>1. k \in (j + 1)..n /\ k \in 1..n /\ k - 1 = j + i /\ i + 1 \in 0..(n - j) /\ j + (i + 1) = k
    BY <1>1, <1>3
  <2> HIDE DEF k
  <2>2. c[k] = Moved(s[k], c[k - 1]) /\ c[k - 1] = p
    BY <1>3, <2>1 DEF Walk
  <2>3. Moved(s[k], p) = p
    <3>1. CASE s[k] \in {CR, LF}
      BY <3>1, EndsMove
    <3>2. CASE s[k] \in Msgs
      BY <2>1, <3>2, MessageMoves, MsgIs
    <3> QED BY <1>1, <2>1, <3>1, <3>2 DEF Pieces
  <2>4. c[j + (i + 1)] = p
    BY <2>1, <2>2, <2>3
  <2> QED BY <2>1, <2>4
<1>4. n - j \in 0..(n - j)
  BY <1>1
<1> HIDE DEF T, n
<1>5. n - j \in T
  BY <1>1, <1>2, <1>3, <1>4, Counting
<1> QED BY <1>1, <1>5 DEF T, n
-----------------------------------------------------------------------------
(* The commands on their way.                                              *)

None(q, x) == \A k \in 1..Len(q) : q[k].cmd # x

\* The last nick that is asked for, and a join that no part takes back.
LastAsked(q, n) == \E k \in 1..Len(q) :
    /\ q[k] = [cmd |-> "NICK", nick |-> n]
    /\ \A j \in (k + 1)..Len(q) : q[j].cmd # "NICK"
JoinStands(q) == \E k \in 1..Len(q) :
    /\ q[k].cmd = "JOIN"
    /\ \A j \in (k + 1)..Len(q) : q[j].cmd # "PART"

LEMMA Sent ==
  ASSUME NEW q \in Seq(Cmds), NEW c \in Cmds
  PROVE  /\ Append(q, c) # <<>> /\ (q # <<>> => Append(q, c)[1] = q[1])
         /\ \A x : None(Append(q, c), x) <=> None(q, x) /\ c.cmd # x
         /\ \A n : LastAsked(q, n) /\ c.cmd # "NICK" => LastAsked(Append(q, c), n)
         /\ \A n : c = [cmd |-> "NICK", nick |-> n] => LastAsked(Append(q, c), n)
         /\ JoinStands(Append(q, c)) => c.cmd = "JOIN" \/ (JoinStands(q) /\ c.cmd # "PART")
<1> DEFINE r == Append(q, c)
           n == Len(q)
<1>1. /\ n \in Nat /\ Len(r) = n + 1 /\ r[n + 1] = c /\ r \in Seq(Cmds)
      /\ (\A k \in 1..n : r[k] = q[k]) /\ (q # <<>> => 1 \in 1..n)
  OBVIOUS
<1> HIDE DEF r
<1>2. r # <<>> /\ (q # <<>> => r[1] = q[1])
  BY <1>1
<1> HIDE DEF n
<1>3. ASSUME NEW x  PROVE None(r, x) <=> None(q, x) /\ c.cmd # x
  <2>1. ASSUME None(r, x)  PROVE None(q, x) /\ c.cmd # x
    <3>1. n + 1 \in 1..Len(r) /\ \A k \in 1..n : k \in 1..Len(r)
      BY <1>1
    <3> QED BY <1>1, <2>1, <3>1 DEF None, n
  <2>2. ASSUME None(q, x), c.cmd # x  PROVE None(r, x)
    <3>1. \A k \in 1..Len(r) : k \in 1..n \/ k = n + 1
      BY <1>1
    <3> QED BY <1>1, <2>2, <3>1 DEF None, n
  <2> QED BY <2>1, <2>2
<1>4. ASSUME NEW x, LastAsked(q, x), c.cmd # "NICK"  PROVE LastAsked(r, x)
  <2>1. PICK k \in 1..n : /\ q[k] = [cmd |-> "NICK", nick |-> x]
                          /\ \A j \in (k + 1)..n : q[j].cmd # "NICK"
    BY <1>4 DEF LastAsked, n
  <2>2. k \in 1..Len(r) /\ \A j \in (k + 1)..Len(r) : j = n + 1 \/ (j \in (k + 1)..n /\ j \in 1..n)
    BY <1>1
  <2>3. \A j \in (k + 1)..Len(r) : r[j].cmd # "NICK"
    BY <1>1, <1>4, <2>1, <2>2
  <2>4. r[k] = [cmd |-> "NICK", nick |-> x]
    BY <1>1, <2>1
  <2> QED BY <2>2, <2>3, <2>4, Zenon DEF LastAsked
<1>5. ASSUME NEW x, c = [cmd |-> "NICK", nick |-> x]  PROVE LastAsked(r, x)
  <2>1. n + 1 \in 1..Len(r) /\ r[n + 1] = [cmd |-> "NICK", nick |-> x]
        /\ \A j \in ((n + 1) + 1)..Len(r) : FALSE
    BY <1>1, <1>5
  <2> QED BY <2>1, Zenon DEF LastAsked
<1>6. ASSUME JoinStands(r)  PROVE c.cmd = "JOIN" \/ (JoinStands(q) /\ c.cmd # "PART")
  <2>1. PICK k \in 1..Len(r) : /\ r[k].cmd = "JOIN"
                               /\ \A j \in (k + 1)..Len(r) : r[j].cmd # "PART"
    BY <1>6 DEF JoinStands
  <2>2. CASE k = n + 1
    BY <1>1, <2>1, <2>2
  <2>3. CASE k # n + 1
    <3>1. k \in 1..n /\ n + 1 \in (k + 1)..Len(r)
          /\ \A j \in (k + 1)..n : j \in (k + 1)..Len(r) /\ j \in 1..n
      BY <1>1, <2>3
    <3>2. c.cmd # "PART" /\ q[k].cmd = "JOIN" /\ \A j \in (k + 1)..n : q[j].cmd # "PART"
      BY <1>1, <2>1, <3>1
    <3> QED BY <3>1, <3>2 DEF JoinStands, n
  <2> QED BY <2>2, <2>3
<1> QED BY <1>2, <1>3, <1>4, <1>5, <1>6, Zenon DEF r

LEMMA Served ==
  ASSUME NEW q \in Seq(Cmds), q # <<>>
  PROVE  /\ q[1] = Head(q)
         /\ \A x : None(q, x) <=> None(Tail(q), x) /\ Head(q).cmd # x
         /\ \A n : LastAsked(q, n) =>
               \/ LastAsked(Tail(q), n)
               \/ Head(q) = [cmd |-> "NICK", nick |-> n] /\ None(Tail(q), "NICK")
         /\ JoinStands(Tail(q)) => JoinStands(q)
         /\ Head(q).cmd = "JOIN" /\ None(Tail(q), "PART") => JoinStands(q)
<1> DEFINE r == Tail(q)
           h == Head(q)
           n == Len(q)
<1>1. /\ n \in Nat \ {0} /\ Len(r) = n - 1 /\ q[1] = h /\ r \in Seq(Cmds)
      /\ \A k \in 1..(n - 1) : r[k] = q[k + 1]
  OBVIOUS
<1> HIDE DEF r, h, n
<1>2. /\ 1 \in 1..n /\ (\A k \in 1..(n - 1) : k + 1 \in 1..n)
      /\ \A k \in 1..n : k = 1 \/ (k - 1 \in 1..(n - 1) /\ q[k] = r[k - 1])
  BY <1>1
<1>3. ASSUME NEW x  PROVE None(q, x) <=> None(r, x) /\ h.cmd # x
  <2>1. ASSUME None(q, x)  PROVE None(r, x) /\ h.cmd # x
    BY <1>1, <1>2, <2>1 DEF None, n
  <2>2. ASSUME None(r, x), h.cmd # x  PROVE None(q, x)
    BY <1>1, <1>2, <2>2 DEF None, n
  <2> QED BY <2>1, <2>2
<1>4. ASSUME NEW x, LastAsked(q, x)
      PROVE  LastAsked(r, x) \/ (h = [cmd |-> "NICK", nick |-> x] /\ None(r, "NICK"))
  <2>1. PICK k \in 1..n : /\ q[k] = [cmd |-> "NICK", nick |-> x]
                          /\ \A j \in (k + 1)..n : q[j].cmd # "NICK"
    BY <1>4 DEF LastAsked, n
  <2>2. \A j \in k..Len(r) : r[j].cmd # "NICK"
    <3> SUFFICES ASSUME NEW j \in k..Len(r) PROVE r[j].cmd # "NICK"
      OBVIOUS
    <3>1. j \in 1..(n - 1) /\ j + 1 \in (k + 1)..n
      BY <1>1
    <3> QED BY <1>1, <2>1, <3>1
  <2>3. CASE k = 1
    <3>1. None(r, "NICK")
      BY <2>2, <2>3 DEF None
    <3> QED BY <1>1, <2>1, <2>3, <3>1
  <2>4. CASE k # 1
    <3> DEFINE i == k - 1
    <3>1. i \in 1..Len(r) /\ i + 1 = k
      BY <1>1, <2>4
    <3>2. r[i] = [cmd |-> "NICK", nick |-> x]
      BY <1>1, <2>1, <3>1
    <3> HIDE DEF i
    <3>3. \A j \in (i + 1)..Len(r) : r[j].cmd # "NICK"
      BY <2>2, <3>1
    <3> QED BY <3>1, <3>2, <3>3, Zenon DEF LastAsked
  <2> QED BY <2>3, <2>4
<1>5. ASSUME JoinStands(r)  PROVE JoinStands(q)
  <2>1. PICK k \in 1..Len(r) : /\ r[k].cmd = "JOIN"
                               /\ \A j \in (k + 1)..Len(r) : r[j].cmd # "PART"
    BY <1>5 DEF JoinStands
  <2>2. k + 1 \in 1..n /\ q[k + 1].cmd = "JOIN"
    BY <1>1, <1>2, <2>1
  <2>3. \A j \in ((k + 1) + 1)..n : q[j].cmd # "PART"
    <3> SUFFICES ASSUME NEW j \in ((k + 1) + 1)..n PROVE q[j].cmd # "PART"
      OBVIOUS
    <3>1. j \in 1..n /\ j # 1 /\ j - 1 \in (k + 1)..Len(r)
      BY <1>1
    <3> QED BY <1>2, <2>1, <3>1
  <2> QED BY <2>2, <2>3 DEF JoinStands, n
<1>6. ASSUME h.cmd = "JOIN", None(r, "PART")  PROVE JoinStands(q)
  <2>1. \A j \in (1 + 1)..n : q[j].cmd # "PART"
    <3> SUFFICES ASSUME NEW j \in (1 + 1)..n PROVE q[j].cmd # "PART"
      OBVIOUS
    <3>1. j \in 1..n /\ j # 1 /\ j - 1 \in 1..Len(r)
      BY <1>1
    <3> QED BY <1>2, <1>6, <3>1 DEF None
  <2> QED BY <1>1, <1>2, <1>6, <2>1 DEF JoinStands, n
<1> QED BY <1>1, <1>3, <1>4, <1>5, <1>6, Zenon DEF r, h
-----------------------------------------------------------------------------
(* What the window will show when everything has arrived.                  *)

\* The others whom nobody forgets.
Listed ==
    closed = "no" /\ srv.joined /\ None(up, "PART") /\ seen \intersect {"clash", "split", "emptied"} = {}
    => ListedIn(userList, Stream, 0, srv.others)

There == (IF srv.joined THEN srv.others ELSE {}) \union {srv.nick, NoNick}

\* The list and what is on its way name nobody who is not there.
Strange == closed = "no" /\ seen = {} => StrangeIn(userList, Stream, 0, myNick, There)

\* What is said on the way of the user's nick is said of the user.
Mine == closed = "no" /\ "clash" \notin seen =>
            MineIn(Stream, myNick, {myNick, srv.nick, NoNick})

\* Nobody else has it, unless it is the first one that the server has yet to hear.
Own == "clash" \notin seen =>
          \/ myNick \notin srv.others
          \/ /\ srv.nick = NoNick
             /\ closed = "no" => up # <<>> /\ up[1] = [cmd |-> "NICK", nick |-> myNick]

\* The server has the nick, or it is the last one asked for.
Agreed == closed = "no" /\ "clash" \notin seen =>
             (srv.nick = myNick /\ None(up, "NICK")) \/ LastAsked(up, myNick)

\* The channel that is joined, or will be, is the one that is typed into.
Typed == closed = "no" /\ "away" \notin seen =>
            /\ srv.joined /\ None(up, "PART") => isInChannel
            /\ JoinStands(up) => isInChannel

\* A part that is on its way, or was one of another channel, is known of.
Parted == ~None(up, "PART") \/ "away" \in seen => "part" \in seen

Showing == Listed /\ Strange /\ Mine /\ Own /\ Agreed /\ Typed /\ Parted

LEMMA ShowingInit ==
  ASSUME Init
  PROVE  Showing
<1>1. closed # "no" /\ srv.nick = NoNick /\ None(up, "PART") /\ "away" \notin seen
  BY DEF Init, None
<1> QED BY <1>1 DEF Showing, Listed, Strange, Mine, Own, Agreed, Typed, Parted

\* Without a connection, little is said.
LEMMA ShowingClosed ==
  ASSUME closed' # "no", Own', Parted'
  PROVE  Showing'
BY DEF Showing, Listed, Strange, Mine, Agreed, Typed

\* A step that changes nothing of it.
LEMMA ShowingStays ==
  ASSUME Showing, Stream' = Stream, closed' = closed, closed = "no" => isInChannel' = isInChannel,
         UNCHANGED <<userList, myNick, srv, up, seen>>
  PROVE  Showing'
<1>1. Listed' /\ Strange' /\ Mine'
  BY DEF Showing, Listed, Strange, Mine, There
<1>2. Own' /\ Agreed' /\ Parted'
  BY DEF Showing, Own, Agreed, Parted
<1>3. Typed'
  BY DEF Showing, Typed
<1> QED BY <1>1, <1>2, <1>3 DEF Showing

\* A step of readLine.
LEMMA ShowingAdvances ==
  ASSUME Framing, Showing, Advances, closed' = closed, seen \subseteq seen',
         "away" \in seen' <=> "away" \in seen, UNCHANGED <<isInChannel, myNick, srv, up>>
  PROVE  Showing'
<1>1. Stream \in Seq(Pieces)
  BY DEF Framing, Wire, Lined
<1>2. PICK e \in 0..Len(Stream) :
         /\ Stream' = Behind(Stream, e)
         /\ "split" \notin seen' /\ userList \in SUBSET Nicks =>
             \E h \in [0..e -> SUBSET Nicks] :
                h[0] = userList /\ Becomes(h, Stream, e) /\ userList' = h[e]
  BY Zenon DEF Advances
<1>3. ASSUME "split" \notin seen'
      PROVE  \E h \in [0..e -> SUBSET Nicks] :
                h[0] = userList /\ Becomes(h, Stream, e) /\ userList' = h[e]
  <2>1. "split" \notin seen
    BY <1>3
  <2>2. userList \in SUBSET Nicks
    BY <2>1 DEF Framing, Typing, Names
  <2> QED BY <1>2, <1>3, <2>2
<1>4. Listed'
  <2> SUFFICES ASSUME closed = "no", srv.joined, None(up, "PART"),
                      seen' \intersect {"clash", "split", "emptied"} = {}
               PROVE  ListedIn(userList', Stream', 0, srv.others)
    BY DEF Listed
  <2>1. "split" \notin seen' /\ seen \intersect {"clash", "split", "emptied"} = {}
    OBVIOUS
  <2>2. PICK h \in [0..e -> SUBSET Nicks] :
           h[0] = userList /\ Becomes(h, Stream, e) /\ userList' = h[e]
    BY <1>3, <2>1
  <2>3. ListedIn(h[0], Stream, 0, srv.others)
    BY <2>1, <2>2 DEF Showing, Listed
  <2>4. ListedIn(h[e], Behind(Stream, e), 0, srv.others)
    BY <1>1, <2>2, <2>3, ListedAdvances
  <2> QED BY <1>2, <2>2, <2>4
<1>5. Strange'
  <2> SUFFICES ASSUME closed = "no", seen' = {}
               PROVE  StrangeIn(userList', Stream', 0, myNick, There)
    BY DEF Strange, There
  <2>1. "split" \notin seen' /\ seen = {}
    OBVIOUS
  <2>2. PICK h \in [0..e -> SUBSET Nicks] :
           h[0] = userList /\ Becomes(h, Stream, e) /\ userList' = h[e]
    BY <1>3, <2>1
  <2>3. StrangeIn(h[0], Stream, 0, myNick, There)
    BY <2>1, <2>2 DEF Showing, Strange
  <2>4. StrangeIn(h[e], Behind(Stream, e), 0, myNick, There)
    BY <1>1, <2>2, <2>3, StrangeAdvances
  <2> QED BY <1>2, <2>2, <2>4
<1>6. Mine'
  <2> SUFFICES ASSUME closed = "no", "clash" \notin seen'
               PROVE  MineIn(Stream', myNick, {myNick, srv.nick, NoNick})
    BY DEF Mine
  <2>1. MineIn(Stream, myNick, {myNick, srv.nick, NoNick})
    BY DEF Showing, Mine
  <2> QED BY <1>1, <1>2, <2>1, MineAdvances
<1>7. Own' /\ Agreed' /\ Parted'
  BY DEF Showing, Own, Agreed, Parted
<1>8. Typed'
  BY DEF Showing, Typed
<1> QED BY <1>4, <1>5, <1>6, <1>7, <1>8 DEF Showing

\* /nick, whose change the list and the name take for granted.
LEMMA ShowingNick ==
  ASSUME Framing, Showing, NEW n \in Nicks, Nick(n)
  PROVE  Showing'
<1>1. /\ pc = "main" /\ n # myNick
      /\ userList' = renameUserInList(myNick, n, userList) /\ myNick' = n
      /\ srv' = [srv EXCEPT !.turns = @ + 1]
      /\ seen' = (IF Known(n) THEN seen \union {"clash"} ELSE seen)
      /\ isInChannel' = isInChannel
  BY DEF Nick
<1> DEFINE c == [cmd |-> "NICK", nick |-> n]
<1>2. c \in Cmds /\ c.cmd = "NICK"
  BY CmdsAre
<1>3. /\ Stream' = Stream /\ inBuff = <<>> /\ inBuff2 = <<>>
      /\ (closed' = "no" <=> closed = "no")
      /\ (closed = "no" => up' = Append(up, c)) /\ (closed # "no" => up' = up)
  <2>1. sendLine(c) /\ UNCHANGED <<inBuff, inBuff2>>
    BY DEF Nick
  <2> HIDE DEF c
  <2>2. /\ Wire' /\ Stream' = Stream /\ inBuff = <<>> /\ inBuff2 = <<>>
        /\ pc' \in {"main", "dead"} /\ down' = down
        /\ closed' \in {"no", "closed", "reset"} /\ up' \in Seq(Cmds)
        /\ closed' = "no" <=> closed = "no"
        /\ closed = "no" => up' = Append(up, c) /\ pc' = pc
        /\ closed # "no" => up' = up
    BY <1>1, <1>2, <2>1, SendIs, Zenon
  <2> QED BY <2>2, Zenon
<1>4. srv \in Srvs /\ up \in Seq(Cmds) /\ Seated /\ myNick \in Nicks /\ srv.others \in SUBSET Nicks
  BY DEF Framing, Typing, Srvs
<1>5. srv'.nick = srv.nick /\ srv'.joined = srv.joined /\ srv'.others = srv.others
  BY <1>1, <1>4 DEF Srvs
<1>6. /\ seen \subseteq seen' /\ ("clash" \notin seen' => seen' = seen /\ ~Known(n))
      /\ There' = There
  <2>1. There' = There
    BY <1>5 DEF There
  <2>2. CASE Known(n)
    <3>1. seen' = seen \union {"clash"}
      BY <1>1, <2>2
    <3> QED BY <2>1, <3>1
  <2>3. CASE ~Known(n)
    <3>1. seen' = seen
      BY <1>1, <2>3
    <3> QED BY <2>1, <2>3, <3>1
  <2> QED BY <2>2, <2>3
<1>7. ~Known(n) => n \notin userList /\ n \notin srv.others
  BY DEF Known
<1>8. Own'
  BY <1>1, <1>5, <1>6, <1>7 DEF Own
<1>11. "away" \in seen' <=> "away" \in seen
  BY <1>1
<1>9. CASE closed # "no"
  <2>1. Parted'
    BY <1>3, <1>6, <1>9, <1>11 DEF Showing, Parted
  <2> QED BY <1>3, <1>8, <1>9, <2>1, ShowingClosed
<1>10. CASE closed = "no"
  <2> HIDE DEF c
  <2>1. /\ \A x : None(up', x) <=> None(up, x) /\ c.cmd # x
        /\ LastAsked(up', n)
        /\ JoinStands(up') => JoinStands(up)
    <3>1. up' = Append(up, c) /\ c = [cmd |-> "NICK", nick |-> n]
      BY <1>3, <1>10 DEF c
    <3>2. /\ \A x : None(Append(up, c), x) <=> None(up, x) /\ c.cmd # x
          /\ \A m : c = [cmd |-> "NICK", nick |-> m] => LastAsked(Append(up, c), m)
          /\ JoinStands(Append(up, c)) => c.cmd = "JOIN" \/ (JoinStands(up) /\ c.cmd # "PART")
      BY <1>2, <1>4, Sent
    <3>3. c.cmd # "JOIN"
      BY <1>2
    <3> QED BY <3>1, <3>2, <3>3, Zenon
  <2>2. None(up', "PART") <=> None(up, "PART")
    BY <1>2, <2>1
  <2>3. Parted' /\ Typed' /\ Agreed'
    BY <1>1, <1>3, <1>5, <1>6, <1>11, <2>1, <2>2 DEF Showing, Parted, Typed, Agreed
  <2>4. Listed'
    <3> SUFFICES ASSUME srv.joined, None(up, "PART"), seen' \intersect {"clash", "split", "emptied"} = {}
                 PROVE  ListedIn(userList', Stream, 0, srv.others)
      BY <1>3, <1>5, <2>2 DEF Listed
    <3>1. "clash" \notin seen'
      OBVIOUS
    <3>2. seen' = seen /\ n \notin userList /\ n \notin srv.others
      BY <1>6, <1>7, <3>1
    <3>3. ListedIn(userList, Stream, 0, srv.others)
      BY <1>10, <3>2 DEF Showing, Listed
    <3>4. MineIn(Stream, myNick, {myNick, srv.nick, NoNick})
      BY <1>10, <3>1, <3>2 DEF Showing, Mine
    <3>5. myNick \notin srv.others /\ srv.nick \notin srv.others /\ NoNick \notin srv.others
      BY <1>4, <3>1, <3>2, NickAssumption DEF Showing, Own, Seated
    <3> SUFFICES ASSUME NEW o \in srv.others
                 PROVE  \E d \in [Nat -> Nicks] : \E j \in 0..Len(Stream) :
                           /\ Walk(Stream, j, d) /\ d[Len(Stream)] = o
                           /\ IF j = 0 THEN d[0] \in userList' ELSE d[j] \in Adds(Stream[j])
      BY DEF ListedIn
    <3>6. PICK d \in [Nat -> Nicks] : \E j \in 0..Len(Stream) :
                           /\ Walk(Stream, j, d) /\ d[Len(Stream)] = o
                           /\ IF j = 0 THEN d[0] \in userList ELSE d[j] \in Adds(Stream[j])
      BY <3>3 DEF ListedIn
    <3>7. PICK j \in 0..Len(Stream) :
                           /\ Walk(Stream, j, d) /\ d[Len(Stream)] = o
                           /\ IF j = 0 THEN d[0] \in userList ELSE d[j] \in Adds(Stream[j])
      BY <3>6
    <3>8. d[j] # myNick
      <4> SUFFICES ASSUME d[j] = myNick PROVE FALSE
        OBVIOUS
      <4>1. d \in [Nat -> Persons]
        BY DEF Persons
      <4>2. d[Len(Stream)] \in {myNick, srv.nick, NoNick}
        BY <3>4, <3>7, <4>1 DEF MineIn
      <4> QED BY <3>5, <3>7, <4>2
    <3>9. IF j = 0 THEN d[0] \in userList' ELSE d[j] \in Adds(Stream[j])
      BY <1>1, <3>7, <3>8 DEF renameUserInList
    <3> QED BY <3>7, <3>9
  <2>5. Strange'
    <3> SUFFICES ASSUME seen' = {}
                 PROVE  StrangeIn(userList', Stream, 0, n, There)
      BY <1>1, <1>3, <1>6 DEF Strange
    <3>1. seen = {} /\ n \notin userList
      BY <1>6, <1>7
    <3>2. StrangeIn(userList, Stream, 0, myNick, There)
      BY <1>10, <3>1 DEF Showing, Strange
    <3>3. userList' \ {n} = userList \ {myNick}
      BY <1>1, <3>1 DEF renameUserInList
    <3> QED BY <3>2, <3>3 DEF StrangeIn
  <2>6. Mine'
    <3> SUFFICES ASSUME "clash" \notin seen'
                 PROVE  MineIn(Stream, n, {n, srv.nick, NoNick})
      BY <1>1, <1>3, <1>5 DEF Mine
    <3>1. ~Known(n)
      BY <1>6
    <3>2. Stream = down /\ Stream \in Seq(Pieces)
      BY <1>3, EmptyBefore DEF Stream, Framing, Wire
    <3>3. \A k \in 1..Len(Stream) :
             Stream[k] \in Msgs /\ Stream[k].cmd \in {"LEAVE", "NICK"} => n # Stream[k].nick
      <4> SUFFICES ASSUME NEW k \in 1..Len(Stream), Stream[k] \in Msgs,
                          Stream[k].cmd \in {"LEAVE", "NICK"}, n = Stream[k].nick
                   PROVE  FALSE
        OBVIOUS
      <4>1. k \in DOMAIN down /\ down[k] \notin {CR, LF}
        BY <3>2, MsgIs
      <4> QED BY <3>1, <3>2, <4>1 DEF Known
    <3> SUFFICES ASSUME NEW d \in [Nat -> Persons], NEW j \in 0..Len(Stream),
                        Walk(Stream, j, d), d[j] = n
                 PROVE  d[Len(Stream)] \in {n, srv.nick, NoNick}
      BY DEF MineIn
    <3>4. d[Len(Stream)] = n
      BY <3>2, <3>3, NobodyMoves
    <3> QED BY <3>4
  <2> QED BY <1>8, <2>3, <2>4, <2>5, <2>6 DEF Showing
<1> QED BY <1>9, <1>10

\* /join and /part.
LEMMA ShowingJoin ==
  ASSUME Framing, Showing, doJoin
  PROVE  Showing'
<1>1. /\ pc = "main" /\ isInChannel' = TRUE /\ UNCHANGED <<myNick, userList, srv>>
      /\ \A x \in {"split", "clash", "part", "emptied"} : x \in seen' <=> x \in seen
      /\ "away" \notin seen' /\ (seen' = {} => seen = {} \/ seen = {"away"})
  BY DEF doJoin
<1> DEFINE c == [cmd |-> "JOIN"]
<1>2. c \in Cmds /\ c.cmd = "JOIN"
  BY CmdsAre
<1>3. /\ Stream' = Stream /\ (closed' = "no" <=> closed = "no")
      /\ (closed = "no" => up' = Append(up, c)) /\ (closed # "no" => up' = up)
  <2>1. sendLine(c) /\ UNCHANGED <<inBuff, inBuff2>>
    BY DEF doJoin
  <2> HIDE DEF c
  <2> QED BY <1>1, <1>2, <2>1, SendIs, Zenon
<1>4. up \in Seq(Cmds)
  BY DEF Framing, Typing
<1>5. CASE closed # "no"
  <2>1. Own' /\ Parted'
    BY <1>1, <1>3, <1>5 DEF Showing, Own, Parted
  <2> QED BY <1>3, <1>5, <2>1, ShowingClosed
<1>6. CASE closed = "no"
  <2>1. /\ up' # <<>> /\ (up # <<>> => up'[1] = up[1])
        /\ (None(up', "PART") <=> None(up, "PART")) /\ (None(up', "NICK") <=> None(up, "NICK"))
        /\ (LastAsked(up, myNick) => LastAsked(up', myNick))
    <3> HIDE DEF c
    <3>1. up' = Append(up, c)
      BY <1>3, <1>6
    <3>2. c.cmd # "PART" /\ c.cmd # "NICK"
      BY <1>2
    <3>3. /\ Append(up, c) # <<>> /\ (up # <<>> => Append(up, c)[1] = up[1])
          /\ \A x : None(Append(up, c), x) <=> None(up, x) /\ c.cmd # x
          /\ \A n : LastAsked(up, n) /\ c.cmd # "NICK" => LastAsked(Append(up, c), n)
      BY <1>2, <1>4, Sent
    <3> QED BY <3>1, <3>2, <3>3, Zenon
  <2>2. Listed' /\ Strange' /\ Mine'
    <3>1. seen' = {} => seen = {}
      BY <1>1 DEF Showing, Parted
    <3>2. /\ "clash" \in seen' <=> "clash" \in seen
          /\ seen' \intersect {"clash", "split", "emptied"} = {}
             => seen \intersect {"clash", "split", "emptied"} = {}
      BY <1>1
    <3> QED BY <1>1, <1>3, <2>1, <3>1, <3>2 DEF Showing, Listed, Strange, Mine, There
  <2>3. Own'
    BY <1>1, <1>3, <2>1 DEF Showing, Own
  <2>4. Agreed' /\ Parted'
    BY <1>1, <1>3, <2>1 DEF Showing, Agreed, Parted
  <2>5. Typed'
    BY <1>1 DEF Typed
  <2> QED BY <2>2, <2>3, <2>4, <2>5 DEF Showing
<1> QED BY <1>5, <1>6

LEMMA ShowingPart ==
  ASSUME Framing, Showing, NEW name, doPart(name)
  PROVE  Showing'
<1>1. /\ pc = "main" /\ UNCHANGED myNick /\ srv'.nick = srv.nick
      /\ srv'.joined = srv.joined /\ srv'.others = srv.others
      /\ seen' = seen \union (IF name = "other" THEN {"part", "away", "emptied"} ELSE {"part"})
  BY PartIs DEF doPart
<1> DEFINE c == [cmd |-> IF name = "other" THEN "PART other" ELSE "PART"]
<1>2. /\ c \in Cmds /\ c.cmd \in {"PART", "PART other"}
      /\ c.cmd = "PART other" => {"away", "emptied"} \subseteq seen'
  BY <1>1, CmdsAre
<1>3. /\ Stream' = Stream /\ (closed' = "no" <=> closed = "no")
      /\ (closed = "no" => up' = Append(up, c)) /\ (closed # "no" => up' = up)
  <2>1. sendLine(c) /\ UNCHANGED <<inBuff, inBuff2>>
    BY DEF doPart
  <2> HIDE DEF c
  <2> QED BY <1>1, <1>2, <2>1, SendIs, Zenon
<1>4. up \in Seq(Cmds) /\ "part" \in seen' /\ ("clash" \in seen' <=> "clash" \in seen)
  BY <1>1 DEF Framing, Typing
<1>5. CASE closed # "no"
  <2>1. Own' /\ Parted'
    BY <1>1, <1>3, <1>4, <1>5 DEF Showing, Own, Parted
  <2> QED BY <1>3, <1>5, <2>1, ShowingClosed
<1>6. CASE closed = "no"
  <2>1. /\ up' # <<>> /\ (up # <<>> => up'[1] = up[1])
        /\ ~None(up', "PART") \/ {"away", "emptied"} \subseteq seen'
        /\ (None(up', "NICK") <=> None(up, "NICK"))
        /\ (LastAsked(up, myNick) => LastAsked(up', myNick))
        /\ ~JoinStands(up') \/ "away" \in seen'
    <3> HIDE DEF c
    <3>1. up' = Append(up, c)
      BY <1>3, <1>6
    <3>2. /\ c.cmd # "NICK" /\ c.cmd # "JOIN"
          /\ c.cmd = "PART" \/ ({"away", "emptied"} \subseteq seen' /\ "away" \in seen')
      BY <1>2
    <3>3. /\ Append(up, c) # <<>> /\ (up # <<>> => Append(up, c)[1] = up[1])
          /\ \A x : None(Append(up, c), x) <=> None(up, x) /\ c.cmd # x
          /\ \A n : LastAsked(up, n) /\ c.cmd # "NICK" => LastAsked(Append(up, c), n)
          /\ JoinStands(Append(up, c)) => c.cmd = "JOIN" \/ (JoinStands(up) /\ c.cmd # "PART")
      BY <1>2, <1>4, Sent
    <3> QED BY <3>1, <3>2, <3>3, Zenon
  <2>2. Listed' /\ Strange' /\ Typed' /\ Parted'
    BY <1>4, <2>1 DEF Listed, Strange, Typed, Parted
  <2>3. Mine'
    BY <1>1, <1>3, <1>4 DEF Showing, Mine
  <2>4. Own'
    BY <1>1, <1>3, <1>4, <2>1 DEF Showing, Own
  <2>5. Agreed'
    BY <1>1, <1>3, <1>4, <2>1 DEF Showing, Agreed
  <2> QED BY <2>2, <2>3, <2>4, <2>5 DEF Showing
<1> QED BY <1>5, <1>6

\* /server: the stream begins anew.
LEMMA ShowingConnect ==
  ASSUME Framing, Showing, connectToServer
  PROVE  Showing'
<1>1. /\ pc = "main" /\ isInChannel' = FALSE
      /\ srv' = [srv EXCEPT !.nick = NoNick, !.joined = FALSE, !.number = @ + 1]
      /\ up' = <<[cmd |-> "NICK", nick |-> myNick]>> /\ down' = <<>>
      /\ seen' = (IF userList # {} THEN seen \union {"part"} ELSE seen) \ {"emptied"}
      /\ UNCHANGED <<myNick, userList, inBuff, inBuff2>>
  BY DEF connectToServer
<1>2. inBuff = <<>> /\ inBuff2 = <<>>
  BY <1>1 DEF Framing, Wire, InHand
<1>3. Stream' = <<>>
  BY <1>1, <1>2 DEF Stream
<1>4. srv'.nick = NoNick /\ srv'.joined = FALSE
  BY <1>1 DEF Framing, Typing
<1> DEFINE c == [cmd |-> "NICK", nick |-> myNick]
<1>5. up' = <<c>> /\ up' # <<>> /\ up'[1] = c /\ Len(up') = 1
  BY <1>1
<1>6. None(up', "PART") /\ ~JoinStands(up') /\ LastAsked(up', myNick)
  <2>1. c.cmd = "NICK" /\ \A k \in 1..1 : k = 1
    OBVIOUS
  <2>2. c = [cmd |-> "NICK", nick |-> myNick]
    OBVIOUS
  <2> HIDE DEF c
  <2>3. None(up', "PART") /\ ~JoinStands(up')
    BY <1>5, <2>1 DEF None, JoinStands
  <2>4. 1 \in 1..Len(up') /\ \A j \in (1 + 1)..Len(up') : FALSE
    BY <1>5
  <2>5. LastAsked(up', myNick)
    BY <1>5, <2>2, <2>4, Zenon DEF LastAsked
  <2> QED BY <2>3, <2>5
<1>7. Listed' /\ Typed' /\ Parted' /\ Agreed'
  <2>1. "away" \in seen' => "part" \in seen'
    BY <1>1 DEF Showing, Parted
  <2> QED BY <1>1, <1>4, <1>6, <2>1 DEF Listed, Typed, Parted, Agreed
<1>8. Own'
  BY <1>1, <1>4, <1>5 DEF Own
<1>9. Mine'
  <2>1. MineIn(<<>>, myNick, {myNick, NoNick})
    BY DEF MineIn
  <2> QED BY <1>1, <1>3, <1>4, <2>1 DEF Mine, MineIn
<1>10. Strange'
  <2> SUFFICES ASSUME seen' = {} PROVE StrangeIn(userList', Stream', 0, myNick', There')
    BY DEF Strange
  <2>1. userList' = {}
    BY <1>1
  <2> QED BY <1>3, <2>1 DEF StrangeIn
<1> QED BY <1>7, <1>8, <1>9, <1>10 DEF Showing

\* What a step of the server leaves of what is known.
Kept == seen \ {"emptied"} \subseteq seen' /\ ("away" \in seen' => "away" \in seen)

\* The server has read a command: what it leaves of those that are on their way.
LEMMA ServedQueue ==
  ASSUME Framing, Showing, Serve
  PROVE  /\ up[1] = Head(up) /\ closed = "no" /\ closed' = "no"
         /\ UNCHANGED <<isInChannel, myNick, userList>>
         /\ \A x : Head(up).cmd # x => (None(up', x) <=> None(up, x))
         /\ ~None(up, Head(up).cmd)
         /\ LastAsked(up, myNick) =>
               \/ LastAsked(up', myNick)
               \/ Head(up) = [cmd |-> "NICK", nick |-> myNick] /\ None(up', "NICK")
         /\ JoinStands(up') => JoinStands(up)
         /\ Head(up).cmd = "JOIN" /\ None(up', "PART") => JoinStands(up)
         /\ Kept => Parted'
<1>1. /\ closed = "no" /\ closed' = closed /\ UNCHANGED client
      /\ up # <<>> /\ up' = Tail(up)
  BY ServeIs
<1>2. up \in Seq(Cmds)
  BY DEF Framing, Typing
<1>3. /\ up[1] = Head(up)
      /\ \A x : None(up, x) <=> None(Tail(up), x) /\ Head(up).cmd # x
      /\ \A n : LastAsked(up, n) =>
               \/ LastAsked(Tail(up), n)
               \/ Head(up) = [cmd |-> "NICK", nick |-> n] /\ None(Tail(up), "NICK")
      /\ JoinStands(Tail(up)) => JoinStands(up)
      /\ Head(up).cmd = "JOIN" /\ None(Tail(up), "PART") => JoinStands(up)
  BY <1>1, <1>2, Served
<1>4. ~None(up', "PART") => ~None(up, "PART")
  BY <1>1, <1>3, Zenon
<1>5. Kept => Parted'
  BY <1>4 DEF Showing, Parted, Kept
<1>6. UNCHANGED <<isInChannel, myNick, userList>> /\ closed' = "no"
  BY <1>1 DEF client
<1> QED BY <1>1, <1>3, <1>5, <1>6, Zenon

LEMMA ShowingServeNick ==
  ASSUME Framing, Showing, Serve, Head(up).cmd = "NICK", serverNick(Head(up).nick)
  PROVE  Showing'
<1> DEFINE n == Head(up).nick
           m == [cmd |-> "NICK", nick |-> srv.nick, new |-> n]
<1>1. /\ up[1] = Head(up) /\ closed = "no" /\ closed' = "no"
      /\ UNCHANGED <<isInChannel, myNick, userList>>
      /\ (None(up', "PART") <=> None(up, "PART")) /\ ~None(up, "NICK")
      /\ LastAsked(up, myNick) => LastAsked(up', myNick) \/ (n = myNick /\ None(up', "NICK"))
      /\ JoinStands(up') => JoinStands(up)
      /\ Kept => Parted'
  <2>1. "NICK" # "PART" /\ [cmd |-> "NICK", nick |-> myNick].nick = myNick
    OBVIOUS
  <2> QED BY <2>1, ServedQueue, Zenon
<1>2. n \in Nicks /\ closed' = closed /\ UNCHANGED client
  BY ServeIs, CmdsAre
<1>3. /\ Wire' /\ srv' \in Srvs /\ srv'.number = srv.number /\ Seated'
      /\ seen \ {"emptied"} \subseteq seen' /\ seen' \subseteq Happenings
      /\ srv'.joined = srv.joined /\ srv'.others = srv.others
      /\ \/ n \in srv.others /\ seen' = seen \union {"clash"} /\ srv' = srv /\ Stream' = Stream
         \/ n \notin srv.others /\ srv'.nick = n /\ seen' = seen
            /\ (srv.nick = NoNick \/ srv.nick = n) /\ Stream' = Stream
         \/ n \notin srv.others /\ srv'.nick = n /\ seen' = seen
            /\ srv.nick \in Nicks /\ srv.nick # n /\ m \in Msgs /\ More(Stream, Stream', m)
  BY <1>1, <1>2, ServeNickIs
<1>4. /\ Stream \in Seq(Pieces) /\ srv.others \in SUBSET Nicks /\ srv.nick \notin srv.others
      /\ NoNick \notin Nicks
  BY NickAssumption DEF Framing, Wire, Lined, Typing, Seated
<1>5. Typed' /\ Parted'
  <2>1. Kept /\ ("away" \in seen' <=> "away" \in seen)
    BY <1>3 DEF Kept
  <2> QED BY <1>1, <1>3, <2>1 DEF Showing, Typed
<1>6. m.cmd = "NICK" /\ m.nick = srv.nick /\ m.new = n
  OBVIOUS
<1>7. up[1] = [cmd |-> "NICK", nick |-> myNick] => n = myNick
  BY <1>1
<1> HIDE DEF n, m
<1>8. CASE "clash" \in seen'
  BY <1>5, <1>8 DEF Showing, Listed, Strange, Mine, Own, Agreed
<1>9. CASE "clash" \notin seen'
  <2>1. n \notin srv.others /\ srv'.nick = n /\ seen' = seen
    BY <1>3, <1>9
  <2>2. Own'
    BY <1>1, <1>3, <1>7, <1>9, <2>1 DEF Showing, Own
  <2>3. Agreed'
    BY <1>1, <1>9, <2>1 DEF Showing, Agreed
  <2>4. There' = (IF srv.joined THEN srv.others ELSE {}) \union {n, NoNick}
    BY <1>3, <2>1 DEF There
  <2>5. CASE Stream' = Stream /\ (srv.nick = NoNick \/ srv.nick = n)
    <3>1. Listed'
      BY <1>1, <1>3, <2>1, <2>5 DEF Showing, Listed
    <3>2. There \subseteq There'
      BY <2>4, <2>5 DEF There
    <3>3. Strange'
      <4> SUFFICES ASSUME seen' = {} PROVE StrangeIn(userList, Stream, 0, myNick, There')
        BY <1>1, <2>5 DEF Strange
      <4>1. StrangeIn(userList, Stream, 0, myNick, There)
        BY <1>1, <2>1 DEF Showing, Strange
      <4> DEFINE A == There
                 B == There'
      <4>2. A \subseteq B /\ StrangeIn(userList, Stream, 0, myNick, A)
        BY <3>2, <4>1
      <4> HIDE DEF A, B
      <4>3. StrangeIn(userList, Stream, 0, myNick, B)
        BY <4>2 DEF StrangeIn
      <4> QED BY <4>3 DEF B
    <3>4. Mine'
      <4>1. MineIn(Stream, myNick, {myNick, srv.nick, NoNick})
        BY <1>1, <1>9, <2>1 DEF Showing, Mine
      <4>2. MineIn(Stream, myNick, {myNick, n, NoNick})
        BY <2>5, <4>1 DEF MineIn
      <4> QED BY <1>1, <2>1, <2>5, <4>2 DEF Mine
    <3> QED BY <1>5, <2>2, <2>3, <3>1, <3>3, <3>4 DEF Showing
  <2>6. CASE srv.nick \in Nicks /\ srv.nick # n /\ m \in Msgs /\ More(Stream, Stream', m)
    <3>1. /\ \A p : Moved(m, p) = IF p = srv.nick THEN n ELSE p
          /\ Adds(m) = {} /\ Makes(m) = {n}
      BY <1>6, <2>6, MessageMoves
    <3>2. Listed'
      <4> SUFFICES ASSUME srv.joined, None(up, "PART"), seen \intersect {"clash", "split", "emptied"} = {}
                   PROVE  ListedIn(userList, Stream', 0, srv.others)
        BY <1>1, <1>3, <2>1 DEF Listed
      <4>1. ListedIn(userList, Stream, 0, srv.others)
        BY <1>1 DEF Showing, Listed
      <4>2. \A o \in srv.others : Moved(m, o) = o
        BY <1>4, <3>1
      <4> QED BY <1>4, <2>6, <4>1, <4>2, ListedMore
    <3>3. Strange'
      <4> SUFFICES ASSUME seen' = {} PROVE StrangeIn(userList, Stream', 0, myNick, There')
        BY <1>1 DEF Strange
      <4>1. StrangeIn(userList, Stream, 0, myNick, There)
        BY <1>1, <2>1 DEF Showing, Strange
      <4>2. \A p \in There : Moved(m, p) \in There'
        BY <2>4, <3>1 DEF There
      <4>3. Adds(m) \union Makes(m) \subseteq There'
        BY <2>4, <3>1
      <4> QED BY <1>4, <2>6, <4>1, <4>2, <4>3, StrangeMore
    <3>4. Mine'
      <4>1. MineIn(Stream, myNick, {myNick, srv.nick, NoNick})
        BY <1>1, <1>9, <2>1 DEF Showing, Mine
      <4>2. \A p \in {myNick, srv.nick, NoNick} : Moved(m, p) \in {myNick, n, NoNick}
        BY <3>1
      <4>3. MineIn(Stream', myNick, {myNick, n, NoNick})
        BY <1>4, <2>6, <4>1, <4>2, MineMore
      <4> QED BY <1>1, <2>1, <4>3 DEF Mine
    <3> QED BY <1>5, <2>2, <2>3, <3>2, <3>3, <3>4 DEF Showing
  <2> QED BY <1>3, <2>1, <2>5, <2>6
<1> QED BY <1>8, <1>9

LEMMA ShowingServeJoin ==
  ASSUME Framing, Showing, Serve, Head(up).cmd = "JOIN", serverJoin
  PROVE  Showing'
<1>1. /\ up[1] = Head(up) /\ closed = "no" /\ closed' = "no"
      /\ UNCHANGED <<isInChannel, myNick, userList>>
      /\ (None(up', "PART") <=> None(up, "PART")) /\ (None(up', "NICK") <=> None(up, "NICK"))
      /\ LastAsked(up, myNick) => LastAsked(up', myNick)
      /\ JoinStands(up') => JoinStands(up)
      /\ None(up', "PART") => JoinStands(up)
      /\ Kept => Parted'
  <2>1. "JOIN" # "PART" /\ "JOIN" # "NICK" /\ [cmd |-> "NICK", nick |-> myNick].cmd = "NICK"
    OBVIOUS
  <2> QED BY <2>1, ServedQueue, Zenon
<1>2. closed' = closed /\ UNCHANGED client
  BY ServeIs
<1>3. /\ Wire' /\ srv' \in Srvs /\ srv'.number = srv.number /\ Seated' /\ seen' = seen
      /\ srv'.nick = srv.nick /\ srv'.others = srv.others
      /\ \/ (srv.nick = NoNick \/ srv.joined) /\ srv' = srv /\ Stream' = Stream
         \/ srv.nick \in Nicks /\ ~srv.joined /\ srv'.joined
            /\ \E m, n \in Msgs : \E s :
                  /\ m = [cmd |-> "JOIN", nick |-> srv.nick]
                  /\ n.cmd = "NAMES" /\ n.names = srv.others \union {srv.nick}
                  /\ More(Stream, s, m) /\ More(s, Stream', n)
  BY <1>1, <1>2, ServeJoinIs
<1>4. Stream \in Seq(Pieces) /\ srv.others \in SUBSET Nicks
  BY DEF Framing, Wire, Lined, Typing
<1>5. Parted' /\ Typed'
  <2>1. isInChannel \/ ~JoinStands(up) \/ "away" \in seen
    BY <1>1 DEF Showing, Typed
  <2>2. Kept
    BY <1>3 DEF Kept
  <2> QED BY <1>1, <1>3, <2>1, <2>2 DEF Typed
<1>6. Own'
  <2>1. up[1] # [cmd |-> "NICK", nick |-> myNick]
    BY <1>1
  <2> QED BY <1>1, <1>3, <2>1 DEF Showing, Own
<1>7. Agreed'
  BY <1>1, <1>3 DEF Showing, Agreed
<1>8. CASE srv' = srv /\ Stream' = Stream
  <2>1. Listed' /\ Strange' /\ Mine'
    BY <1>1, <1>3, <1>8 DEF Showing, Listed, Strange, Mine, There
  <2> QED BY <1>5, <1>6, <1>7, <2>1 DEF Showing
<1>9. ASSUME srv.nick \in Nicks, ~srv.joined, srv'.joined, NEW m \in Msgs, NEW n \in Msgs, NEW s,
             m = [cmd |-> "JOIN", nick |-> srv.nick],
             n.cmd = "NAMES", n.names = srv.others \union {srv.nick},
             More(Stream, s, m), More(s, Stream', n)
      PROVE  Showing'
  <2>1. /\ \A p : Moved(m, p) = p /\ Moved(n, p) = p
        /\ Adds(m) = {srv.nick} /\ Makes(m) = {}
        /\ Adds(n) = srv.others \union {srv.nick} /\ Makes(n) = {}
    <3>1. m.cmd = "JOIN" /\ m.nick = srv.nick
      BY <1>9
    <3> QED BY <1>9, <3>1, MessageMoves
  <2>2. s \in Seq(Pieces)
    BY <1>9 DEF More
  <2>3. Listed'
    <3> SUFFICES ListedIn(userList, Stream', 0, srv.others)
      BY <1>1, <1>3 DEF Listed
    <3>1. ListedIn(userList, s, 0, {})
      BY DEF ListedIn
    <3> QED BY <1>4, <1>9, <2>1, <2>2, <3>1, ListedMore
  <2>4. Strange'
    <3> SUFFICES ASSUME seen' = {} PROVE StrangeIn(userList, Stream', 0, myNick, There')
      BY <1>1 DEF Strange
    <3>1. StrangeIn(userList, Stream, 0, myNick, There)
      BY <1>1, <1>3 DEF Showing, Strange
    <3>2. There = {srv.nick, NoNick} /\ There' = srv.others \union {srv.nick, NoNick}
      BY <1>3, <1>9 DEF There
    <3>3. \A p \in There : Moved(m, p) \in There
      BY <2>1
    <3>4. StrangeIn(userList, s, 0, myNick, There)
      <4>1. Adds(m) \union Makes(m) \subseteq There
        BY <2>1, <3>2
      <4> QED BY <1>4, <1>9, <3>1, <3>3, <4>1, StrangeMore
    <3>5. \A p \in There : Moved(n, p) \in There'
      BY <2>1, <3>2
    <3>6. Adds(n) \union Makes(n) \subseteq There'
      BY <2>1, <3>2
    <3> QED BY <1>9, <2>2, <3>4, <3>5, <3>6, StrangeMore
  <2>5. Mine'
    <3> SUFFICES ASSUME "clash" \notin seen'
                 PROVE  MineIn(Stream', myNick, {myNick, srv.nick, NoNick})
      BY <1>1, <1>3 DEF Mine
    <3> DEFINE Ok == {myNick, srv.nick, NoNick}
    <3>1. MineIn(Stream, myNick, Ok)
      BY <1>1, <1>3 DEF Showing, Mine
    <3>2. myNick \in Ok /\ \A p \in Ok : Moved(m, p) \in Ok /\ Moved(n, p) \in Ok
      BY <2>1
    <3> HIDE DEF Ok
    <3>3. MineIn(s, myNick, Ok)
      BY <1>4, <1>9, <3>1, <3>2, MineMore
    <3>4. MineIn(Stream', myNick, Ok)
      BY <1>9, <2>2, <3>2, <3>3, MineMore
    <3> QED BY <3>4 DEF Ok
  <2> QED BY <1>5, <1>6, <1>7, <2>3, <2>4, <2>5 DEF Showing
<1> QED BY <1>3, <1>8, <1>9

LEMMA ShowingServePart ==
  ASSUME Framing, Showing, Serve, Head(up).cmd = "PART", serverPart
  PROVE  Showing'
<1> DEFINE m == [cmd |-> "LEAVE", nick |-> srv.nick]
<1>1. /\ up[1] = Head(up) /\ closed = "no" /\ closed' = "no"
      /\ UNCHANGED <<isInChannel, myNick, userList>>
      /\ ~None(up, "PART") /\ (None(up', "NICK") <=> None(up, "NICK"))
      /\ LastAsked(up, myNick) => LastAsked(up', myNick)
      /\ JoinStands(up') => JoinStands(up)
      /\ Kept => Parted'
  <2>1. "PART" # "NICK" /\ [cmd |-> "NICK", nick |-> myNick].cmd = "NICK"
    OBVIOUS
  <2> QED BY <2>1, ServedQueue, Zenon
<1>2. closed' = closed /\ UNCHANGED client
  BY ServeIs
<1>3. /\ Wire' /\ srv' \in Srvs /\ srv'.number = srv.number /\ Seated'
      /\ seen' = seen \ {"emptied"}
      /\ srv'.nick = srv.nick /\ srv'.others = srv.others /\ ~srv'.joined
      /\ \/ ~srv.joined /\ Stream' = Stream
         \/ srv.joined /\ srv.nick \in Nicks /\ m \in Msgs /\ More(Stream, Stream', m)
  BY <1>1, <1>2, ServePartIs
<1>4. Stream \in Seq(Pieces) /\ "part" \in seen
  BY <1>1 DEF Framing, Wire, Lined, Showing, Parted
<1>10. /\ "part" \in seen' /\ ("clash" \in seen' <=> "clash" \in seen)
       /\ ("away" \in seen' <=> "away" \in seen)
  BY <1>3, <1>4
<1>5. Listed' /\ Strange' /\ Parted' /\ Typed'
  BY <1>1, <1>3, <1>10 DEF Showing, Listed, Strange, Typed, Parted
<1>6. Own'
  <2>1. up[1] # [cmd |-> "NICK", nick |-> myNick]
    BY <1>1
  <2> QED BY <1>1, <1>3, <1>10, <2>1 DEF Showing, Own
<1>7. Agreed'
  BY <1>1, <1>3, <1>10 DEF Showing, Agreed
<1>8. Mine'
  <2> SUFFICES ASSUME "clash" \notin seen
               PROVE  MineIn(Stream', myNick, {myNick, srv.nick, NoNick})
    BY <1>1, <1>3, <1>10 DEF Mine
  <2>1. MineIn(Stream, myNick, {myNick, srv.nick, NoNick})
    BY <1>1 DEF Showing, Mine
  <2>2. CASE Stream' = Stream
    BY <2>1, <2>2
  <2>3. CASE m \in Msgs /\ More(Stream, Stream', m)
    <3>1. m.cmd = "LEAVE" /\ m.nick = srv.nick
      OBVIOUS
    <3> HIDE DEF m
    <3>2. \A p : Moved(m, p) = IF p = srv.nick THEN NoNick ELSE p
      BY <2>3, <3>1, MessageMoves
    <3>3. \A p \in {myNick, srv.nick, NoNick} : Moved(m, p) \in {myNick, srv.nick, NoNick}
      BY <3>2
    <3> QED BY <1>4, <2>1, <2>3, <3>3, MineMore
  <2> QED BY <1>3, <2>2, <2>3
<1> QED BY <1>5, <1>6, <1>7, <1>8 DEF Showing

LEMMA ShowingServeNothing ==
  ASSUME Framing, Showing, Serve, Head(up).cmd = "PART other", UNCHANGED <<srv, down, seen>>
  PROVE  Showing'
<1>1. /\ up[1] = Head(up) /\ closed = "no" /\ closed' = "no"
      /\ UNCHANGED <<isInChannel, myNick, userList>>
      /\ (None(up', "PART") <=> None(up, "PART")) /\ (None(up', "NICK") <=> None(up, "NICK"))
      /\ LastAsked(up, myNick) => LastAsked(up', myNick)
      /\ JoinStands(up') => JoinStands(up)
  <2>1. "PART other" # "PART" /\ "PART other" # "NICK"
        /\ [cmd |-> "NICK", nick |-> myNick].cmd = "NICK"
    OBVIOUS
  <2> QED BY <2>1, ServedQueue, Zenon
<1>2. Stream' = Stream
  BY ServeIs, ServeNothingIs
<1>3. Listed' /\ Strange' /\ Mine'
  BY <1>1, <1>2 DEF Showing, Listed, Strange, Mine, There
<1>4. Own'
  <2>1. up[1] # [cmd |-> "NICK", nick |-> myNick]
    <3>1. up[1].cmd = "PART other" /\ [cmd |-> "NICK", nick |-> myNick].cmd = "NICK"
      BY <1>1
    <3>2. "PART other" # "NICK"
      OBVIOUS
    <3> QED BY <3>1, <3>2, Zenon
  <2> QED BY <1>1, <2>1 DEF Showing, Own
<1>5. Agreed' /\ Typed' /\ Parted'
  BY <1>1 DEF Showing, Agreed, Typed, Parted
<1> QED BY <1>3, <1>4, <1>5 DEF Showing

LEMMA ShowingServe ==
  ASSUME Framing, Showing, Serve
  PROVE  Showing'
BY ServeIs, ShowingServeNick, ShowingServeJoin, ShowingServePart, ShowingServeNothing

\* What the other people do: O are those who are there afterwards.
LEMMA ShowingActs ==
  ASSUME Framing, Showing, NEW m, NEW O, OtherActs(m, O),
         \A o \in O : o \in Adds(m) \/ \E p \in srv.others : Moved(m, p) = o,
         \A p : p \notin srv.others => Moved(m, p) = p,
         \A p \in srv.others : Moved(m, p) \in O \union {NoNick},
         Adds(m) \union Makes(m) \subseteq O,
         "clash" \notin seen' => seen' = seen /\ (myNick \notin srv.others => myNick \notin O)
  PROVE  Showing'
<1>1. /\ closed = "no" /\ closed' = closed /\ UNCHANGED client /\ up' = up
      /\ srv'.nick = srv.nick /\ srv'.joined = srv.joined /\ srv'.others = O
      /\ \/ ~srv.joined /\ Stream' = Stream
         \/ srv.joined /\ More(Stream, Stream', m)
  BY ActsIs
<1>2. UNCHANGED <<isInChannel, myNick, userList>>
  BY <1>1 DEF client
<1>3. /\ Stream \in Seq(Pieces) /\ srv.others \in SUBSET Nicks /\ O \in SUBSET Nicks
      /\ m \in Msgs /\ srv.nick \notin srv.others /\ NoNick \notin Nicks
      /\ (srv.joined => srv.nick # NoNick) /\ seen \subseteq seen'
  BY NickAssumption DEF Framing, Wire, Lined, Typing, Seated, OtherActs
<1>4. Parted' /\ Typed'
  BY <1>1, <1>2, <1>3 DEF Showing, Parted, Typed, OtherActs
<1>5. CASE "clash" \in seen'
  BY <1>4, <1>5 DEF Showing, Listed, Strange, Mine, Own, Agreed
<1>6. CASE "clash" \notin seen'
  <2>1. seen' = seen /\ (myNick \notin srv.others => myNick \notin O)
    BY <1>6
  <2>2. Own' /\ Agreed'
    BY <1>1, <1>2, <2>1 DEF Showing, Own, Agreed
  <2>3. CASE ~srv.joined /\ Stream' = Stream
    <3>1. Listed' /\ Strange' /\ Mine'
      BY <1>1, <1>2, <2>1, <2>3 DEF Showing, Listed, Strange, Mine, There
    <3> QED BY <1>4, <2>2, <3>1 DEF Showing
  <2>4. CASE srv.joined /\ More(Stream, Stream', m)
    <3>1. Listed'
      <4> SUFFICES ASSUME None(up, "PART"), seen \intersect {"clash", "split", "emptied"} = {}
                   PROVE  ListedIn(userList, Stream', 0, O)
        BY <1>1, <1>2, <2>1 DEF Listed
      <4>1. ListedIn(userList, Stream, 0, srv.others)
        BY <1>1, <2>4 DEF Showing, Listed
      <4> QED BY <1>3, <2>4, <4>1, ListedMore
    <3>2. Strange'
      <4> SUFFICES ASSUME seen = {} PROVE StrangeIn(userList, Stream', 0, myNick, There')
        BY <1>2, <2>1 DEF Strange
      <4>1. StrangeIn(userList, Stream, 0, myNick, There)
        BY <1>1 DEF Showing, Strange
      <4>2. There = srv.others \union {srv.nick, NoNick} /\ There' = O \union {srv.nick, NoNick}
        BY <1>1, <2>4 DEF There
      <4>3. \A p \in There : Moved(m, p) \in There'
        <5>1. Moved(m, srv.nick) = srv.nick /\ Moved(m, NoNick) = NoNick
          BY <1>3
        <5> QED BY <4>2, <5>1
      <4>4. Adds(m) \union Makes(m) \subseteq There'
        BY <4>2
      <4> QED BY <1>3, <2>4, <4>1, <4>3, <4>4, StrangeMore
    <3>3. Mine'
      <4> DEFINE Ok == {myNick, srv.nick, NoNick}
      <4>1. MineIn(Stream, myNick, Ok)
        BY <1>1, <1>6, <2>1 DEF Showing, Mine
      <4>2. myNick \notin srv.others
        BY <1>3, <1>6, <2>1, <2>4 DEF Showing, Own
      <4>3. \A p \in Ok : Moved(m, p) \in Ok
        BY <1>3, <4>2
      <4>4. myNick \in Ok
        OBVIOUS
      <4> HIDE DEF Ok
      <4>5. MineIn(Stream', myNick, Ok)
        BY <1>3, <2>4, <4>1, <4>3, <4>4, MineMore
      <4> QED BY <1>1, <1>2, <4>5 DEF Mine, Ok
    <3> QED BY <1>4, <2>2, <3>1, <3>2, <3>3 DEF Showing
  <2> QED BY <1>1, <2>3, <2>4
<1> QED BY <1>5, <1>6

LEMMA ShowingOthers ==
  ASSUME Framing, Showing, Others
  PROVE  Showing'
<1>1. CASE OtherJoins
  <2>1. PICK n \in Nicks : /\ OtherActs([cmd |-> "JOIN", nick |-> n], srv.others \union {n})
                           /\ n \notin srv.others /\ n # srv.nick
                           /\ (n = myNick => "clash" \in seen')
                           /\ (n # myNick => seen' = seen)
    BY <1>1, OtherJoinsIs
  <2> DEFINE m == [cmd |-> "JOIN", nick |-> n]
             O == srv.others \union {n}
  <2>2. m \in Msgs /\ m.cmd = "JOIN" /\ m.nick = n
    BY MsgsAre
  <2> HIDE DEF m
  <2>3. (\A p : Moved(m, p) = p) /\ Adds(m) = {n} /\ Makes(m) = {}
    BY <2>2, MessageMoves
  <2>4. /\ \A o \in O : o \in Adds(m) \/ \E p \in srv.others : Moved(m, p) = o
        /\ \A p : p \notin srv.others => Moved(m, p) = p
        /\ \A p \in srv.others : Moved(m, p) \in O \union {NoNick}
        /\ Adds(m) \union Makes(m) \subseteq O
        /\ "clash" \notin seen' => seen' = seen /\ (myNick \notin srv.others => myNick \notin O)
    BY <2>1, <2>3
  <2>5. OtherActs(m, O)
    BY <2>1 DEF m
  <2> HIDE DEF O
  <2> QED BY <2>4, <2>5, ShowingActs
<1>2. CASE OtherLeaves
  <2>1. PICK n \in Nicks : /\ OtherActs([cmd |-> "LEAVE", nick |-> n], srv.others \ {n})
                           /\ n \in srv.others /\ seen' = seen
    BY <1>2, OtherLeavesIs
  <2> DEFINE m == [cmd |-> "LEAVE", nick |-> n]
             O == srv.others \ {n}
  <2>2. m \in Msgs /\ m.cmd = "LEAVE" /\ m.nick = n
    BY MsgsAre
  <2> HIDE DEF m
  <2>3. (\A p : Moved(m, p) = IF p = n THEN NoNick ELSE p) /\ Adds(m) = {} /\ Makes(m) = {}
    BY <2>2, MessageMoves
  <2>4. /\ \A o \in O : o \in Adds(m) \/ \E p \in srv.others : Moved(m, p) = o
        /\ \A p : p \notin srv.others => Moved(m, p) = p
        /\ \A p \in srv.others : Moved(m, p) \in O \union {NoNick}
        /\ Adds(m) \union Makes(m) \subseteq O
        /\ "clash" \notin seen' => seen' = seen /\ (myNick \notin srv.others => myNick \notin O)
    BY <2>1, <2>3
  <2>5. OtherActs(m, O)
    BY <2>1 DEF m
  <2> HIDE DEF O
  <2> QED BY <2>4, <2>5, ShowingActs
<1>3. CASE OtherRenames
  <2>1. PICK n \in Nicks, k \in Nicks :
            /\ OtherActs([cmd |-> "NICK", nick |-> n, new |-> k], (srv.others \ {n}) \union {k})
            /\ n \in srv.others /\ k \notin srv.others /\ k # srv.nick
            /\ (k = myNick => "clash" \in seen')
            /\ (k # myNick => seen' = seen)
    BY <1>3, OtherRenamesIs
  <2> DEFINE m == [cmd |-> "NICK", nick |-> n, new |-> k]
             O == (srv.others \ {n}) \union {k}
  <2>2. m \in Msgs /\ m.cmd = "NICK" /\ m.nick = n /\ m.new = k
    BY MsgsAre
  <2> HIDE DEF m
  <2>3. (\A p : Moved(m, p) = IF p = n THEN k ELSE p) /\ Adds(m) = {} /\ Makes(m) = {k}
    BY <2>2, MessageMoves
  <2>4. \A o \in O : o \in Adds(m) \/ \E p \in srv.others : Moved(m, p) = o
    BY <2>1, <2>3
  <2>5. /\ \A p : p \notin srv.others => Moved(m, p) = p
        /\ \A p \in srv.others : Moved(m, p) \in O \union {NoNick}
        /\ Adds(m) \union Makes(m) \subseteq O
        /\ "clash" \notin seen' => seen' = seen /\ (myNick \notin srv.others => myNick \notin O)
    BY <2>1, <2>3
  <2>6. OtherActs(m, O)
    BY <2>1 DEF m
  <2> HIDE DEF O
  <2> QED BY <2>4, <2>5, <2>6, ShowingActs
<1> QED BY <1>1, <1>2, <1>3 DEF Others

LEMMA ShowingCloses ==
  ASSUME Framing, Showing, Closes
  PROVE  Showing'
<1>1. closed = "no" /\ closed' = "closed" /\ up' = <<>> /\ UNCHANGED <<srv, seen>> /\ myNick' = myNick
  BY DEF Closes, client
<1>2. Own' /\ Parted'
  BY <1>1 DEF Showing, Own, Parted, None
<1> QED BY <1>1, <1>2, ShowingClosed

LEMMA ShowingNext ==
  ASSUME Framing, Showing, [Next]_vars
  PROVE  Showing'
<1>1. CASE User
  <2>1. CASE \E n \in Nicks : Nick(n)
    BY <2>1, ShowingNick
  <2>2. CASE doJoin
    BY <2>2, ShowingJoin
  <2>3. CASE doPart("*") \/ doPart("#") \/ doPart("other")
    BY <2>3, ShowingPart
  <2>4. CASE connectToServer
    BY <2>4, ShowingConnect
  <2> QED BY <1>1, <2>1, <2>2, <2>3, <2>4 DEF User
<1>2. CASE readLine
  <2>1. pc \in {"main", "recv"} /\ (down # <<>> \/ closed # "no")
    BY <1>2 DEF readLine
  <2>2. CASE down = <<>>
    <3>1. /\ closed # "no" /\ UNCHANGED <<myNick, srv, seen>> /\ up' = up /\ closed' = closed
      BY <1>2, <2>1, <2>2 DEF readLine, resetStatusToDisconnected, net
    <3>2. Own' /\ Parted'
      BY <3>1 DEF Showing, Own, Parted
    <3> QED BY <3>1, <3>2, ShowingClosed
  <2>3. CASE down # <<>>
    <3>1. Received
      BY <1>2, <2>3 DEF readLine
    <3>2. Advances /\ seen \subseteq seen'
      <4>1. Wire /\ seen \subseteq Happenings /\ userList \subseteq Names(seen)
        BY DEF Framing, Typing
      <4> QED BY <2>1, <3>1, <4>1, ReceivedTakes
    <3>3. closed' = closed /\ UNCHANGED <<isInChannel, myNick, srv, up>>
          /\ (seen' = seen \/ seen' = seen \union {"split"})
      BY <3>1, Zenon DEF Received
    <3>4. "away" \in seen' <=> "away" \in seen
      BY <3>3
    <3> QED BY <3>2, <3>3, <3>4, ShowingAdvances
  <2> QED BY <2>2, <2>3
<1>3. CASE readLineStale
  <2>1. /\ pc = "main" /\ pc' = "recv"
        /\ UNCHANGED <<isInChannel, myNick, userList, inBuff, inBuff2, srv, seen>>
        /\ up' = up /\ down' = down /\ closed' = closed
    BY <1>3 DEF readLineStale, net
  <2>2. Stream' = Stream
    BY <2>1 DEF Stream
  <2> QED BY <2>1, <2>2, ShowingStays
<1>4. CASE readByte
  <2>1. Advances
    BY <1>4, FramingByte
  <2>2. closed' = closed /\ UNCHANGED <<isInChannel, myNick, srv, up>> /\ seen \subseteq seen'
        /\ ("away" \in seen' <=> "away" \in seen)
    BY <1>4 DEF readByte
  <2> QED BY <2>1, <2>2, ShowingAdvances
<1>5. CASE Spins \/ Dead \/ UNCHANGED vars
  <2>1. UNCHANGED vars
    BY <1>5 DEF Spins, Dead
  <2>2. /\ UNCHANGED <<isInChannel, myNick, userList, inBuff, inBuff2, srv, seen>>
        /\ up' = up /\ down' = down /\ closed' = closed
    BY <2>1 DEF vars, client, net
  <2>3. Stream' = Stream
    BY <2>2 DEF Stream
  <2> QED BY <2>2, <2>3, ShowingStays
<1>6. CASE Serve
  BY <1>6, ShowingServe
<1>7. CASE Others
  BY <1>7, ShowingOthers
<1>8. CASE Closes
  BY <1>8, ShowingCloses
<1> QED BY <1>1, <1>2, <1>3, <1>4, <1>5, <1>6, <1>7, <1>8 DEF Next

\* interpreter.c:262, network.c:390: once everything that was sent has arrived, the
\* window lists all the others, up to the cases that OthersListed names, and nobody who
\* is not there before the first /part; and while the server has the user in the
\* channel, what is typed goes there, unless the last of his joins and parts was a
\* /part of another channel (network.c:410).
THEOREM ChannelShownAlways == Spec => []ChannelShown
<1>1. Init => Framing /\ Showing
  BY FramingInit, ShowingInit
<1>2. Framing /\ Showing /\ [Next]_vars => (Framing /\ Showing)'
  BY FramingNext, ShowingNext
<1>3. Framing /\ Showing => ChannelShown
  <2> SUFFICES ASSUME Framing, Showing, Quiet, srv.joined
               PROVE  /\ seen \intersect {"clash", "split", "emptied"} = {} => srv.others \subseteq userList
                      /\ seen = {} => userList \subseteq Members
                      /\ "away" \notin seen => isInChannel
    BY DEF ChannelShown, OthersListed, NoStrangers, TypedIntoChannel
  <2>1. closed = "no" /\ up = <<>> /\ None(up, "PART")
    BY DEF Quiet, None
  <2>2. Stream = <<>> /\ Len(Stream) = 0
    <3>1. inBuff = <<>> /\ inBuff2 = <<>> /\ down = <<>>
      BY DEF Quiet, Framing, Wire, InHand
    <3> QED BY <3>1 DEF Stream
  <2>3. ASSUME seen \intersect {"clash", "split", "emptied"} = {}  PROVE srv.others \subseteq userList
    <3>1. ListedIn(userList, Stream, 0, srv.others)
      BY <2>1, <2>3 DEF Showing, Listed
    <3> SUFFICES ASSUME NEW o \in srv.others PROVE o \in userList
      OBVIOUS
    <3>2. PICK c \in [Nat -> Nicks] : \E j \in 0..Len(Stream) :
             /\ Walk(Stream, j, c) /\ c[Len(Stream)] = o
             /\ IF j = 0 THEN c[0] \in userList ELSE c[j] \in Adds(Stream[j])
      BY <3>1 DEF ListedIn
    <3>3. PICK j \in 0..Len(Stream) :
             /\ Walk(Stream, j, c) /\ c[Len(Stream)] = o
             /\ IF j = 0 THEN c[0] \in userList ELSE c[j] \in Adds(Stream[j])
      BY <3>2
    <3>4. j = 0
      BY <2>2
    <3> QED BY <2>2, <3>3, <3>4
  <2>4. ASSUME seen = {}, NEW p \in userList  PROVE p \in Members
    <3>1. p \in Nicks
      BY <2>4 DEF Framing, Typing, Names
    <3>2. CASE p = myNick
      <4>1. ~LastAsked(up, myNick)
        BY <2>1 DEF LastAsked
      <4>2. srv.nick = myNick
        BY <2>1, <2>4, <4>1 DEF Showing, Agreed
      <4> QED BY <3>2, <4>2 DEF Members
    <3>3. CASE p # myNick
      <4>1. StrangeIn(userList, Stream, 0, myNick, There)
        BY <2>1, <2>4 DEF Showing, Strange
      <4> DEFINE c == [k \in Nat |-> p]
      <4>2. c \in [Nat -> Persons] /\ c[0] = p
        BY <3>1 DEF Persons
      <4> HIDE DEF c
      <4>3. Walk(Stream, 0, c) /\ 0 \in 0..Len(Stream)
        BY <2>2 DEF Walk
      <4>4. c[0] \in userList \ {myNick}
        BY <2>4, <3>3, <4>2
      <4>5. c[Len(Stream)] \in There
        BY <4>1, <4>2, <4>3, <4>4 DEF StrangeIn
      <4>6. p \in There
        BY <2>2, <4>2, <4>5
      <4> QED BY <3>1, <4>6, NickAssumption DEF There, Members
    <3> QED BY <3>2, <3>3
  <2>5. "away" \notin seen => isInChannel
    BY <2>1 DEF Showing, Typed
  <2> QED BY <2>3, <2>4, <2>5
<1> QED BY <1>1, <1>2, <1>3, PTL DEF Spec
=============================================================================
