---------------------------- MODULE GhostviewProofs ---------------------------
(***************************************************************************)
(* The Ghostview widget for every document, every size of buffer and pipe, *)
(* and every failure.                                                      *)
(*                                                                         *)
(* What is written to an interpreter, what waits in the buffer and what is *)
(* left of the section that is read make up the sections queued for it, as *)
(* long as Input is registered (Fed); a page that is at work is the last   *)
(* of them (Asked); and the PAGE that clears the busy flag is that of the  *)
(* interpreter that waits, or of one that is gone (Told).                  *)
(***************************************************************************)
EXTENDS Ghostview, SequenceTheorems, WellFoundedInduction, TLAPS

Bytes == Parts \X Nat

\* The bytes of the first n sections of s.
Upto(s, n) == FlattenSeq([k \in 1..n |-> Contents(s[k])])
-----------------------------------------------------------------------------
(* Sequences. *)

LEMMA SmallestOf ==
  ASSUME NEW T \in SUBSET Nat, T # {}
  PROVE  \E t \in T : \A u \in T : t <= u
<1> DEFINE R == OpToRel(<, Nat)
<1>1. PICK t \in T : \A u \in T : <<u, t>> \notin R
  <2> HIDE DEF R
  <2> QED BY NatLessThanWellFounded, WFMin DEF R
<1>2. \A u \in T : ~(u < t)
  BY <1>1 DEF OpToRel
<1> QED BY <1>2

\* A set that has 0 and with each number the next one has them all up to n.
LEMMA Climbs ==
  ASSUME NEW n \in Nat, NEW T, 0 \in T, \A m \in 0..n : m \in T /\ m < n => m + 1 \in T
  PROVE  \A m \in 0..n : m \in T
<1> DEFINE U == {m \in 0..n : m \notin T}
<1> SUFFICES ASSUME U # {} PROVE FALSE
  OBVIOUS
<1>1. U \in SUBSET Nat
  OBVIOUS
<1>2. PICK t \in U : \A u \in U : t <= u
  <2> HIDE DEF U
  <2> QED BY <1>1, SmallestOf
<1>3. t \in 1..n /\ t \notin T
  BY <1>2
<1>4. t - 1 \in 0..n /\ t - 1 < n /\ (t - 1) + 1 = t /\ ~(t <= t - 1)
  BY <1>3
<1>5. t - 1 \notin U
  BY <1>2, <1>4
<1>6. t - 1 \in T
  BY <1>4, <1>5
<1> QED BY <1>3, <1>4, <1>6

\* The recursive function in FlattenSeq exists, and is the only one.
Flattens(h, q, n) ==
    /\ n > 0 => h[1] = q[1]
    /\ \A i \in 1..(n - 1) : h[i + 1] = h[i] \o q[i + 1]

LEMMA Flattening ==
  ASSUME NEW S, NEW n \in Nat, NEW q \in [1..n -> Seq(S)]
  PROVE  \E h \in [1..n -> Seq(S)] : Flattens(h, q, n)
<1> DEFINE T == {m \in 0..n : \E h \in [1..m -> Seq(S)] : Flattens(h, q, m)}
<1>1. 0 \in T
  <2> DEFINE e == [i \in 1..0 |-> <<>>]
  <2>1. e \in [1..0 -> Seq(S)] /\ Flattens(e, q, 0)
    BY DEF Flattens
  <2> HIDE DEF e
  <2>2. \E h \in [1..0 -> Seq(S)] : Flattens(h, q, 0)
    BY <2>1
  <2>3. 0 \in 0..n
    OBVIOUS
  <2> QED BY <2>2, <2>3
<1>2. ASSUME NEW m \in 0..n, m \in T, m < n  PROVE m + 1 \in T
  <2>1. PICK h \in [1..m -> Seq(S)] : Flattens(h, q, m)
    BY <1>2
  <2> DEFINE x == IF m = 0 THEN q[1] ELSE h[m] \o q[m + 1]
             f == [i \in 1..(m + 1) |-> IF i <= m THEN h[i] ELSE x]
  <2>2. q[m + 1] \in Seq(S) /\ (m > 0 => h[m] \in Seq(S))
    BY <1>2
  <2>3. x \in Seq(S)
    BY <1>2, <2>2
  <2>4. (m = 0 => x = q[1]) /\ (m # 0 => x = h[m] \o q[m + 1])
    BY Zenon
  <2> HIDE DEF x
  <2>5. f \in [1..(m + 1) -> Seq(S)]
    BY <1>2, <2>3
  <2>6. (\A i \in 1..m : f[i] = h[i]) /\ f[m + 1] = x
    BY <1>2
  <2> HIDE DEF f
  <2>7. f[1] = q[1]
    BY <1>2, <2>1, <2>4, <2>6 DEF Flattens
  <2>8. ASSUME NEW i \in 1..m  PROVE f[i + 1] = f[i] \o q[i + 1]
    <3>1. CASE i = m
      <4>1. m # 0 /\ f[m] = h[m]
        BY <2>6, <3>1
      <4> QED BY <2>4, <2>6, <3>1, <4>1, Zenon
    <3>2. CASE i # m
      <4>1. i \in 1..(m - 1) /\ i + 1 \in 1..m
        BY <1>2, <3>2
      <4>2. h[i + 1] = h[i] \o q[i + 1]
        BY <2>1, <4>1 DEF Flattens
      <4> QED BY <2>6, <4>1, <4>2
    <3> QED BY <3>1, <3>2
  <2>9. Flattens(f, q, m + 1)
    <3>1. (m + 1) - 1 = m
      BY <1>2
    <3> QED BY <2>7, <2>8, <3>1 DEF Flattens
  <2> QED BY <1>2, <2>5, <2>9
<1>3. n \in 0..n
  OBVIOUS
<1> HIDE DEF T
<1>4. n \in T
  BY <1>1, <1>2, <1>3, Climbs
<1> QED BY <1>4 DEF T

LEMMA FlattenIs ==
  ASSUME NEW S, NEW n \in Nat \ {0}, NEW q \in [1..n -> Seq(S)],
         NEW h \in [1..n -> Seq(S)], Flattens(h, q, n)
  PROVE  FlattenSeq(q) = h[n]
<1>1. Len(q) = n /\ n # 0
  OBVIOUS
<1> DEFINE P(f) == f = [i \in 1..Len(q) |-> IF i = 1 THEN q[i] ELSE f[i - 1] \o q[i]]
           c == CHOOSE f : P(f)
<1>2. P(h)
  <2>1. DOMAIN h = 1..n /\ h = [i \in 1..n |-> h[i]]
    OBVIOUS
  <2>2. ASSUME NEW i \in 1..n  PROVE h[i] = IF i = 1 THEN q[i] ELSE h[i - 1] \o q[i]
    <3>1. CASE i = 1
      BY <3>1 DEF Flattens
    <3>2. CASE i # 1
      <4>1. i - 1 \in 1..(n - 1) /\ (i - 1) + 1 = i
        BY <3>2
      <4>2. h[(i - 1) + 1] = h[i - 1] \o q[(i - 1) + 1]
        BY <4>1 DEF Flattens
      <4> QED BY <3>2, <4>1, <4>2
    <3> QED BY <3>1, <3>2
  <2>3. [i \in 1..n |-> h[i]] = [i \in 1..n |-> IF i = 1 THEN q[i] ELSE h[i - 1] \o q[i]]
    BY <2>2
  <2> QED BY <1>1, <2>1, <2>3
<1>3. P(c)
  <2> HIDE DEF P
  <2> QED BY <1>2, Zenon
<1>4. FlattenSeq(q) = c[Len(q)]
  BY <1>1 DEF FlattenSeq
<1> HIDE DEF c
<1>5. \A i \in 1..n : c[i] = IF i = 1 THEN q[i] ELSE c[i - 1] \o q[i]
  BY <1>1, <1>3
<1> DEFINE T == {i \in 0..n : i = 0 \/ c[i] = h[i]}
<1>6. 0 \in T
  OBVIOUS
<1>7. ASSUME NEW m \in 0..n, m \in T, m < n  PROVE m + 1 \in T
  <2>1. m + 1 \in 0..n
    BY <1>7
  <2>2. CASE m = 0
    <3>1. c[1] = q[1] /\ h[1] = q[1]
      BY <1>5 DEF Flattens
    <3> QED BY <2>1, <2>2, <3>1
  <2>3. CASE m # 0
    <3>1. m \in 1..(n - 1) /\ m + 1 \in 1..n /\ (m + 1) - 1 = m /\ m + 1 # 1 /\ c[m] = h[m]
      BY <1>7, <2>3
    <3>2. c[m + 1] = c[m] \o q[m + 1]
      BY <1>5, <3>1
    <3>3. h[m + 1] = h[m] \o q[m + 1]
      BY <3>1 DEF Flattens
    <3> QED BY <2>1, <3>1, <3>2, <3>3
  <2> QED BY <2>2, <2>3
<1>8. n \in 0..n
  OBVIOUS
<1> HIDE DEF T
<1>9. n \in T
  BY <1>6, <1>7, <1>8, Climbs
<1> QED BY <1>1, <1>4, <1>9 DEF T

\* One more sequence is appended to what the others are.
LEMMA FlattenMore ==
  ASSUME NEW S, NEW n \in Nat, NEW q \in [1..(n + 1) -> Seq(S)],
         NEW p, p = [k \in 1..n |-> q[k]]
  PROVE  /\ FlattenSeq(p) \in Seq(S)
         /\ FlattenSeq(q) = FlattenSeq(p) \o q[n + 1]
<1> DEFINE m == n + 1
<1>1. m \in Nat \ {0} /\ q \in [1..m -> Seq(S)]
  OBVIOUS
<1>2. PICK h \in [1..m -> Seq(S)] : Flattens(h, q, m)
  <2> HIDE DEF m
  <2> QED BY <1>1, Flattening
<1>3. FlattenSeq(q) = h[m]
  <2> HIDE DEF m
  <2> QED BY <1>1, <1>2, FlattenIs
<1>4. h[m] \in Seq(S) /\ q[m] \in Seq(S)
  BY <1>1
<1>5. CASE n = 0
  <2>1. Len(p) = 0 /\ p = <<>>
    BY <1>5
  <2>2. FlattenSeq(p) = <<>>
    BY <2>1 DEF FlattenSeq
  <2>3. h[m] = q[m]
    BY <1>2, <1>5 DEF Flattens
  <2>4. <<>> \o q[m] = q[m] /\ <<>> \in Seq(S)
    BY <1>4
  <2> QED BY <1>3, <2>2, <2>3, <2>4
<1>6. CASE n # 0
  <2> DEFINE f == [k \in 1..n |-> h[k]]
  <2>1. n \in Nat \ {0} /\ p \in [1..n -> Seq(S)] /\ f \in [1..n -> Seq(S)]
    BY <1>6
  <2>2. \A k \in 1..n : f[k] = h[k] /\ p[k] = q[k]
    OBVIOUS
  <2> HIDE DEF f
  <2>3. \A i \in 1..n : h[i + 1] = h[i] \o q[i + 1]
    <3>1. m - 1 = n
      OBVIOUS
    <3> HIDE DEF m
    <3> QED BY <1>2, <3>1 DEF Flattens
  <2>4. Flattens(f, p, n)
    <3>1. f[1] = p[1]
      BY <1>2, <2>1, <2>2 DEF Flattens
    <3>2. \A i \in 1..(n - 1) : i \in 1..n /\ i + 1 \in 1..n
      BY <2>1
    <3>3. \A i \in 1..(n - 1) : f[i + 1] = f[i] \o p[i + 1]
      BY <2>2, <2>3, <3>2
    <3> QED BY <3>1, <3>3 DEF Flattens
  <2>5. FlattenSeq(p) = f[n]
    BY <2>1, <2>4, FlattenIs
  <2>6. n \in 1..n /\ f[n] = h[n] /\ f[n] \in Seq(S)
    BY <2>1, <2>2
  <2>7. h[m] = h[n] \o q[m]
    BY <2>3, <2>6
  <2> QED BY <1>3, <2>5, <2>6, <2>7
<1> QED BY <1>5, <1>6
-----------------------------------------------------------------------------
(* The bytes of the sections. *)

LEMMA ContentsType ==
  ASSUME NEW p \in Parts
  PROVE  /\ Length[p] \in Nat /\ Contents(p) \in Seq(Bytes) /\ Len(Contents(p)) = Length[p]
         /\ DOMAIN Contents(p) = 1..Length[p]
         /\ \A k \in 1..Length[p] : Contents(p)[k] = <<p, k>>
BY LengthAssumption DEF Contents, Bytes

LEMMA UptoStep ==
  ASSUME NEW s \in Seq(Parts), NEW n \in Nat, n < Len(s)
  PROVE  /\ Upto(s, 0) = <<>>
         /\ Upto(s, n) \in Seq(Bytes)
         /\ Upto(s, n + 1) = Upto(s, n) \o Contents(s[n + 1])
<1> DEFINE q == [k \in 1..(n + 1) |-> Contents(s[k])]
           p == [k \in 1..n |-> Contents(s[k])]
<1>1. \A k \in 1..(n + 1) : s[k] \in Parts
  OBVIOUS
<1>2. q \in [1..(n + 1) -> Seq(Bytes)]
  BY <1>1, ContentsType
<1>3. p = [k \in 1..n |-> q[k]]
  OBVIOUS
<1>4. q[n + 1] = Contents(s[n + 1])
  OBVIOUS
<1>5. Upto(s, n) = FlattenSeq(p) /\ Upto(s, n + 1) = FlattenSeq(q)
  BY DEF Upto
<1>6. Upto(s, 0) = <<>>
  <2> DEFINE e == [k \in 1..0 |-> Contents(s[k])]
  <2>1. e = <<>> /\ Len(e) = 0
    OBVIOUS
  <2>2. Upto(s, 0) = FlattenSeq(e)
    BY DEF Upto
  <2> HIDE DEF e
  <2> QED BY <2>1, <2>2 DEF FlattenSeq
<1> HIDE DEF q, p
<1>7. FlattenSeq(q) = FlattenSeq(p) \o q[n + 1] /\ FlattenSeq(p) \in Seq(Bytes)
  BY <1>2, <1>3, FlattenMore
<1>8. Upto(s, n) \in Seq(Bytes)
  BY <1>5, <1>7
<1>9. Upto(s, n + 1) = Upto(s, n) \o Contents(s[n + 1])
  BY <1>4, <1>5, <1>7, Zenon
<1> QED BY <1>6, <1>8, <1>9, Zenon

\* Only the sections that are flattened matter.
LEMMA UptoSame ==
  ASSUME NEW s, NEW t, NEW n, \A k \in 1..n : s[k] = t[k]
  PROVE  Upto(s, n) = Upto(t, n)
<1>1. [k \in 1..n |-> Contents(s[k])] = [k \in 1..n |-> Contents(t[k])]
  OBVIOUS
<1> QED BY <1>1, Zenon DEF Upto

LEMMA UptoType ==
  ASSUME NEW s \in Seq(Parts), NEW n \in 0..Len(s)
  PROVE  Upto(s, n) \in Seq(Bytes)
<1>1. CASE n = 0
  <2> DEFINE e == [k \in 1..0 |-> Contents(s[k])]
  <2>1. e = <<>> /\ Len(e) = 0 /\ <<>> \in Seq(Bytes)
    OBVIOUS
  <2>2. Upto(s, 0) = FlattenSeq(e)
    BY DEF Upto
  <2> HIDE DEF e
  <2>3. Upto(s, 0) = <<>>
    BY <2>1, <2>2 DEF FlattenSeq
  <2> QED BY <1>1, <2>1, <2>3
<1>2. CASE n # 0
  <2>1. n - 1 \in Nat /\ n - 1 < Len(s) /\ (n - 1) + 1 = n /\ s[n] \in Parts
    BY <1>2
  <2>2. Upto(s, n) = Upto(s, n - 1) \o Contents(s[n]) /\ Upto(s, n - 1) \in Seq(Bytes)
    BY <2>1, UptoStep
  <2> QED BY <2>1, <2>2, ContentsType, ConcatProperties
<1> QED BY <1>1, <1>2

LEMMA UptoAppend ==
  ASSUME NEW s \in Seq(Parts), NEW p \in Parts
  PROVE  /\ Append(s, p) \in Seq(Parts) /\ Len(Append(s, p)) = Len(s) + 1
         /\ \A n \in 0..Len(s) : Upto(Append(s, p), n) = Upto(s, n)
         /\ Upto(Append(s, p), Len(s) + 1) = Upto(s, Len(s)) \o Contents(p)
<1> DEFINE t == Append(s, p)
<1>1. t \in Seq(Parts) /\ Len(t) = Len(s) + 1 /\ t[Len(s) + 1] = p /\ Len(s) \in Nat
      /\ \A k \in 1..Len(s) : t[k] = s[k]
  OBVIOUS
<1> HIDE DEF t
<1>2. ASSUME NEW n \in 0..Len(s)  PROVE Upto(t, n) = Upto(s, n)
  BY <1>1, UptoSame
<1>3. Upto(t, Len(s) + 1) = Upto(t, Len(s)) \o Contents(t[Len(s) + 1])
  <2>1. t \in Seq(Parts) /\ Len(s) \in Nat /\ Len(s) < Len(t)
    BY <1>1
  <2> QED BY <2>1, UptoStep, Zenon
<1>4. Len(s) \in 0..Len(s)
  BY <1>1
<1>5. Upto(t, Len(s)) = Upto(s, Len(s))
  BY <1>2, <1>4
<1> QED BY <1>1, <1>2, <1>3, <1>5 DEF t

LEMMA PrefixIs ==
  ASSUME NEW S, NEW a \in Seq(S), NEW b \in Seq(S)
  PROVE  IsPrefix(a, b) <=> Len(a) <= Len(b) /\ \A k \in 1..Len(a) : a[k] = b[k]
<1>1. ASSUME IsPrefix(a, b)  PROVE Len(a) <= Len(b) /\ \A k \in 1..Len(a) : a[k] = b[k]
  <2>1. Len(a) <= Len(b) /\ SubSeq(a, 1, Len(a)) = SubSeq(b, 1, Len(a))
    BY <1>1 DEF IsPrefix
  <2> SUFFICES ASSUME NEW k \in 1..Len(a)  PROVE a[k] = b[k]
    BY <2>1
  <2>2. SubSeq(a, 1, Len(a))[k] = a[k]
    OBVIOUS
  <2>3. SubSeq(b, 1, Len(a))[k] = b[k]
    BY <2>1
  <2> QED BY <2>1, <2>2, <2>3
<1>2. ASSUME Len(a) <= Len(b), \A k \in 1..Len(a) : a[k] = b[k]  PROVE IsPrefix(a, b)
  <2> DEFINE x == SubSeq(a, 1, Len(a))
             y == SubSeq(b, 1, Len(a))
  <2>1. x \in Seq(S) /\ y \in Seq(S) /\ Len(x) = Len(a) /\ Len(y) = Len(a)
    BY <1>2
  <2>2. \A k \in 1..Len(a) : x[k] = a[k] /\ y[k] = b[k]
    BY <1>2
  <2> HIDE DEF x, y
  <2>3. x = y
    BY <1>2, <2>1, <2>2, SeqEqual
  <2> QED BY <1>2, <2>3 DEF IsPrefix, x, y
<1> QED BY <1>1, <1>2

LEMMA PrefixConcat ==
  ASSUME NEW S, NEW a \in Seq(S), NEW b \in Seq(S), NEW c \in Seq(S), IsPrefix(a, b)
  PROVE  IsPrefix(a, b \o c)
<1>1. Len(a) <= Len(b) /\ \A k \in 1..Len(a) : a[k] = b[k]
  BY PrefixIs
<1>2. b \o c \in Seq(S) /\ Len(b \o c) = Len(b) + Len(c) /\ Len(c) \in Nat
  BY ConcatProperties
<1>3. \A k \in 1..Len(b) : (b \o c)[k] = b[k]
  OBVIOUS
<1>4. \A k \in 1..Len(a) : k \in 1..Len(b)
  BY <1>1
<1>5. Len(a) <= Len(b \o c) /\ \A k \in 1..Len(a) : a[k] = (b \o c)[k]
  BY <1>1, <1>2, <1>3, <1>4
<1> QED BY <1>2, <1>5, PrefixIs

LEMMA UptoPrefix ==
  ASSUME NEW s \in Seq(Parts), NEW n \in 0..Len(s), NEW a \in Seq(Bytes), IsPrefix(a, Upto(s, n))
  PROVE  IsPrefix(a, Upto(s, Len(s)))
<1> DEFINE T == {m \in 0..Len(s) : m < n \/ IsPrefix(a, Upto(s, m))}
<1>1. 0 \in T
  <2>1. 0 = n \/ 0 < n
    OBVIOUS
  <2>2. 0 \in 0..Len(s)
    OBVIOUS
  <2> QED BY <2>1, <2>2
<1>2. ASSUME NEW m \in 0..Len(s), m \in T, m < Len(s)  PROVE m + 1 \in T
  <2>1. m + 1 \in 0..Len(s) /\ m \in Nat /\ s[m + 1] \in Parts
    BY <1>2
  <2>2. CASE m + 1 < n
    BY <2>1, <2>2
  <2>3. CASE m + 1 = n
    BY <2>1, <2>3
  <2>4. CASE ~(m < n)
    <3>1. IsPrefix(a, Upto(s, m))
      BY <1>2, <2>4
    <3>2. Upto(s, m + 1) = Upto(s, m) \o Contents(s[m + 1]) /\ Upto(s, m) \in Seq(Bytes)
      BY <1>2, <2>1, UptoStep
    <3>3. Contents(s[m + 1]) \in Seq(Bytes)
      BY <2>1, ContentsType
    <3>4. IsPrefix(a, Upto(s, m + 1))
      BY <3>1, <3>2, <3>3, PrefixConcat
    <3> QED BY <2>1, <3>4
  <2> QED BY <1>2, <2>2, <2>3, <2>4
<1>3. Len(s) \in Nat /\ Len(s) \in 0..Len(s) /\ ~(Len(s) < n)
  OBVIOUS
<1> HIDE DEF T
<1>4. Len(s) \in T
  BY <1>1, <1>2, <1>3, Climbs
<1> QED BY <1>3, <1>4 DEF T

LEMMA ConcatIs ==
  ASSUME NEW S, NEW a \in Seq(S), NEW b \in Seq(S), NEW c \in Seq(S),
         Len(c) = Len(a) + Len(b),
         \A k \in 1..Len(a) : c[k] = a[k],
         \A k \in 1..Len(b) : c[Len(a) + k] = b[k]
  PROVE  a \o b = c
<1>1. a \o b \in Seq(S) /\ Len(a \o b) = Len(c)
  BY ConcatProperties
<1>2. ASSUME NEW k \in 1..Len(c)  PROVE (a \o b)[k] = c[k]
  <2>1. CASE k <= Len(a)
    <3>1. k \in 1..Len(a)
      BY <2>1
    <3> QED BY <3>1
  <2>2. CASE ~(k <= Len(a))
    <3>1. k - Len(a) \in 1..Len(b) /\ Len(a) + (k - Len(a)) = k
      BY <2>2
    <3>2. (a \o b)[k] = b[k - Len(a)]
      BY <2>2, <3>1
    <3> QED BY <3>1, <3>2
  <2> QED BY <2>1, <2>2
<1> QED BY <1>1, <1>2, SeqEqual

\* fread and what is left of the section after it.
LEMMA ReadPart ==
  ASSUME NEW p \in Parts, NEW at \in 0..Length[p], NEW n \in 0..(Length[p] - at)
  PROVE  /\ [k \in 1..n |-> <<p, at + k>>] \in Seq(Bytes)
         /\ SubSeq(Contents(p), at + n + 1, Length[p]) \in Seq(Bytes)
         /\ [k \in 1..n |-> <<p, at + k>>] \o SubSeq(Contents(p), at + n + 1, Length[p])
               = SubSeq(Contents(p), at + 1, Length[p])
<1> DEFINE L == Length[p]
           c == Contents(p)
           b == [k \in 1..n |-> <<p, at + k>>]
           u == SubSeq(c, at + n + 1, L)
           w == SubSeq(c, at + 1, L)
<1>1. L \in Nat /\ c \in Seq(Bytes) /\ Len(c) = L /\ \A k \in 1..L : c[k] = <<p, k>>
  BY ContentsType
<1> HIDE DEF c, L
<1>2. at \in 0..L /\ n \in 0..(L - at)
  BY DEF L
<1>3. b \in Seq(Bytes) /\ Len(b) = n /\ \A k \in 1..n : b[k] = <<p, at + k>>
  <2>1. \A k \in 1..n : <<p, at + k>> \in Bytes
    BY <1>2 DEF Bytes
  <2> QED BY <1>2, <2>1
<1>4. u \in Seq(Bytes) /\ Len(u) = L - at - n /\ \A k \in 1..(L - at - n) : u[k] = c[at + n + k]
  BY <1>1, <1>2
<1>5. w \in Seq(Bytes) /\ Len(w) = L - at /\ \A k \in 1..(L - at) : w[k] = c[at + k]
  BY <1>1, <1>2
<1> HIDE DEF b, u, w
<1>6. Len(w) = Len(b) + Len(u)
  BY <1>1, <1>2, <1>3, <1>4, <1>5
<1>7. ASSUME NEW k \in 1..Len(b)  PROVE w[k] = b[k]
  <2>1. k \in 1..n /\ k \in 1..(L - at) /\ at + k \in 1..L
    BY <1>1, <1>2, <1>3
  <2> QED BY <1>1, <1>3, <1>5, <2>1
<1>8. ASSUME NEW k \in 1..Len(u)  PROVE w[Len(b) + k] = u[k]
  <2>1. k \in 1..(L - at - n) /\ n + k \in 1..(L - at) /\ at + n + k = at + (n + k)
    BY <1>1, <1>2, <1>4
  <2> QED BY <1>3, <1>4, <1>5, <2>1
<1>9. b \o u = w
  BY <1>3, <1>4, <1>5, <1>6, <1>7, <1>8, ConcatIs
<1> QED BY <1>3, <1>4, <1>9 DEF b, u, w, c, L

\* write, of a part of the buffer.
LEMMA TakePart ==
  ASSUME NEW w \in Seq(Bytes), NEW b \in Seq(Bytes), NEW m \in 0..Len(b)
  PROVE  /\ w \o SubSeq(b, 1, m) \in Seq(Bytes) /\ SubSeq(b, m + 1, Len(b)) \in Seq(Bytes)
         /\ Len(w \o SubSeq(b, 1, m)) = Len(w) + m
         /\ (w \o SubSeq(b, 1, m)) \o SubSeq(b, m + 1, Len(b)) = w \o b
<1> DEFINE x == SubSeq(b, 1, m)
           y == SubSeq(b, m + 1, Len(b))
<1>1. x \in Seq(Bytes) /\ y \in Seq(Bytes) /\ Len(x) = m
  OBVIOUS
<1>2. x \o y = b
  <2>1. Len(y) = Len(b) - m /\ (\A k \in 1..m : x[k] = b[k])
        /\ \A k \in 1..(Len(b) - m) : y[k] = b[m + k]
    OBVIOUS
  <2>2. m \in Nat /\ Len(b) \in Nat
    OBVIOUS
  <2> HIDE DEF x, y
  <2>3. Len(b) = Len(x) + Len(y)
    BY <1>1, <2>1, <2>2
  <2>4. \A k \in 1..Len(x) : b[k] = x[k]
    BY <1>1, <2>1
  <2>5. \A k \in 1..Len(y) : b[Len(x) + k] = y[k]
    BY <1>1, <2>1
  <2> QED BY <1>1, <2>3, <2>4, <2>5, ConcatIs, Zenon
<1> HIDE DEF x, y
<1>3. (w \o x) \o y = w \o (x \o y)
  BY <1>1, ConcatAssociative
<1>4. w \o x \in Seq(Bytes) /\ Len(w \o x) = Len(w) + m
  BY <1>1, ConcatProperties
<1> QED BY <1>1, <1>2, <1>3, <1>4 DEF x, y
-----------------------------------------------------------------------------
(* The invariant. *)

Items == [part : Parts, seek_needed : BOOLEAN]
Msgs == [type : {"PAGE", "DONE"}, from : {"cur", "old"}]

Due(v) == Upto(v.sent, Len(v.sent))

\* What the file still holds of the section that is read.
Unread(v) ==
    SubSeq(Contents(v.ps_input[1].part), Length[v.ps_input[1].part] - v.bytes_left + 1,
           Length[v.ps_input[1].part])

\* The queue is what was sent last, and Input is registered while it is not empty.
Queue(v) ==
    /\ v.ps_input # <<>> => v.input_id
    /\ v.input_id => v.input
    /\ v.input_id /\ v.ps_input = <<>> => v.bytes_left = 0
    /\ Len(v.ps_input) <= Len(v.sent)
    /\ \A k \in 1..Len(v.ps_input) :
          v.ps_input[k].part = v.sent[Len(v.sent) - Len(v.ps_input) + k]
    /\ \A k \in 2..Len(v.ps_input) : v.ps_input[k].seek_needed

\* The file stands in the section that is read, where bytes_left says.
Begun(v) == v.ps_input # <<>> =>
    /\ v.bytes_left <= Length[v.ps_input[1].part]
    /\ v.ps_input[1].seek_needed => v.bytes_left = Length[v.ps_input[1].part]
    /\ ~v.ps_input[1].seek_needed /\ v.bytes_left > 0 =>
          v.fp = [part |-> v.ps_input[1].part,
                  at |-> Length[v.ps_input[1].part] - v.bytes_left]

Fed(v) == v.input_id =>
    /\ v.ps_input = <<>> => v.written \o v.buffer = Due(v)
    /\ v.ps_input # <<>> =>
          (v.written \o v.buffer) \o Unread(v)
             = Upto(v.sent, Len(v.sent) - Len(v.ps_input) + 1)

Pipe(v) == v.nread <= Len(v.written) /\ IsPrefix(v.written, Due(v))

\* The PAGE messages of this interpreter that are on their way.
News(v) == {n \in 1..Len(v.events) : v.events[n].type = "PAGE" /\ v.events[n].from = "cur"}

Told(v) ==
    /\ v.pid <=> v.gs # "none"
    /\ v.pid /\ ~v.busy => v.mwin # "none"
    /\ \A n \in News(v) : \A m \in News(v) : n = m
    /\ v.gs = "run" => News(v) = {}
    /\ v.pid /\ ~v.busy /\ v.mwin = "cur" => v.gs # "run" /\ News(v) = {}
    /\ v.gs = "none" => v.mwin # "cur" /\ News(v) = {}

Document(v) ==
    /\ \A k \in 1..Len(v.sent) : /\ k = 1 <=> v.sent[k] = Prolog
                                 /\ k = 2 <=> v.sent[k] = Setups
    /\ Len(v.sent) \notin {1, 2}

Whole(v) == Queue(v) /\ Begun(v) /\ Fed(v) /\ Pipe(v) /\ Told(v)
-----------------------------------------------------------------------------
LEMMA TypeIs == ViewerType =
    [disable_start : BOOLEAN, changed : BOOLEAN, sized : BOOLEAN, pid : BOOLEAN,
     gs : {"none", "run", "wait", "dead"}, input : BOOLEAN, input_id : BOOLEAN,
     out : SUBSET {"stdout", "stderr"}, busy : BOOLEAN,
     mwin : {"none", "cur", "old"}, ps_input : Seq(Items), bytes_left : Nat,
     buffer : Seq(Bytes), fp : [part : Parts, at : Nat], sent : Seq(Parts),
     written : Seq(Bytes), nread : Nat, events : Seq(Msgs)]
BY Zenon DEF ViewerType, Items, Bytes, Msgs

LEMMA Fields ==
  ASSUME NEW v \in ViewerType
  PROVE  /\ v.disable_start \in BOOLEAN /\ v.changed \in BOOLEAN /\ v.sized \in BOOLEAN
         /\ v.pid \in BOOLEAN /\ v.gs \in {"none", "run", "wait", "dead"}
         /\ v.input \in BOOLEAN /\ v.input_id \in BOOLEAN
         /\ v.out \in SUBSET {"stdout", "stderr"} /\ v.busy \in BOOLEAN
         /\ v.mwin \in {"none", "cur", "old"} /\ v.ps_input \in Seq(Items)
         /\ v.bytes_left \in Nat /\ v.buffer \in Seq(Bytes)
         /\ v.fp \in [part : Parts, at : Nat] /\ v.sent \in Seq(Parts)
         /\ v.written \in Seq(Bytes) /\ v.nread \in Nat /\ v.events \in Seq(Msgs)
BY DEF ViewerType, Items, Bytes, Msgs

LEMMA OldIs ==
  ASSUME NEW s \in Seq(Msgs)
  PROVE  Old(s) \in Seq(Msgs) /\ \A n \in 1..Len(Old(s)) : Old(s)[n].from = "old"
<1>1. DOMAIN s = 1..Len(s) /\ Len(s) \in Nat
  OBVIOUS
<1>2. ASSUME NEW k \in 1..Len(s)
      PROVE [s[k] EXCEPT !.from = "old"] \in Msgs /\ [s[k] EXCEPT !.from = "old"].from = "old"
  <2>1. s[k] \in Msgs
    BY <1>2
  <2> QED BY <2>1 DEF Msgs
<1>3. Old(s) = [k \in 1..Len(s) |-> [s[k] EXCEPT !.from = "old"]]
  BY <1>1, Zenon DEF Old
<1>4. Old(s) \in [1..Len(s) -> Msgs]
  BY <1>2, <1>3
<1>5. Old(s) \in Seq(Msgs) /\ Len(Old(s)) = Len(s)
  BY <1>1, <1>4
<1> QED BY <1>2, <1>3, <1>5

LEMMA Stops ==
  ASSUME NEW v \in ViewerType, NEW s, s = StopInterpreter(v)
  PROVE  /\ s \in ViewerType
         /\ ~s.pid /\ ~s.input /\ ~s.input_id /\ ~s.busy
         /\ s.gs = "none" /\ s.mwin # "cur"
         /\ s.disable_start = v.disable_start
         /\ v.input => s.ps_input = <<>>
         /\ ~v.input => s.ps_input = v.ps_input
         /\ s.sent = v.sent /\ s.written = v.written /\ s.nread = v.nread
         /\ s.buffer = v.buffer
         /\ \A n \in 1..Len(s.events) : s.events[n].from = "old"
<1> DEFINE e == Old(v.events)
           q == IF v.input THEN <<>> ELSE v.ps_input
           w == IF v.mwin = "cur" THEN "old" ELSE v.mwin
<1>1. e \in Seq(Msgs) /\ \A n \in 1..Len(e) : e[n].from = "old"
  BY Fields, OldIs
<1>2. (v.input => q = <<>>) /\ (~v.input => q = v.ps_input) /\ q \in Seq(Items)
  <2>1. v.ps_input \in Seq(Items) /\ <<>> \in Seq(Items)
    BY Fields
  <2> QED BY <2>1, Zenon
<1>3. w \in {"none", "old"}
  BY Fields
<1>4. s = [v EXCEPT !.pid = FALSE, !.gs = "none", !.out = {}, !.busy = FALSE,
                    !.input = FALSE, !.input_id = FALSE, !.ps_input = q,
                    !.events = e, !.mwin = w]
  BY Zenon DEF StopInterpreter
<1> HIDE DEF e, q, w
<1>5. s \in ViewerType
  <2>1. e \in Seq(Msgs) /\ q \in Seq(Items) /\ w \in {"none", "cur", "old"}
    BY <1>1, <1>2, <1>3
  <2> HIDE DEF e, q, w
  <2>2. [v EXCEPT !.pid = FALSE, !.gs = "none", !.out = {}, !.busy = FALSE,
                  !.input = FALSE, !.input_id = FALSE, !.ps_input = q,
                  !.events = e, !.mwin = w] \in ViewerType
    BY <2>1, TypeIs
  <2> QED BY <1>4, <2>2, Zenon
<1>6. /\ s.pid = FALSE /\ s.input = FALSE /\ s.input_id = FALSE /\ s.busy = FALSE
      /\ s.gs = "none" /\ s.mwin = w /\ s.disable_start = v.disable_start
      /\ s.ps_input = q /\ s.events = e
      /\ s.sent = v.sent /\ s.written = v.written /\ s.nread = v.nread
      /\ s.buffer = v.buffer
  BY <1>4 DEF ViewerType
<1> QED BY <1>1, <1>2, <1>3, <1>5, <1>6

\* No interpreter, nothing to write to; or a new one that was sent nothing yet.
Idle(v) == v.gs = "none" /\ ~v.input /\ v.ps_input = <<>>

Fresh(v) == /\ v.gs \in {"none", "run"} /\ v.ps_input = <<>>
            /\ v.sent = <<>> /\ v.written = <<>> /\ v.nread = 0

LEMMA OldNews ==
  ASSUME NEW v, \A n \in 1..Len(v.events) : v.events[n].from = "old"
  PROVE  News(v) = {}
BY DEF News

\* Without Input registered, little is to say of the widget.
LEMMA AtRest ==
  ASSUME NEW v \in ViewerType, ~v.input_id, v.ps_input = <<>>
  PROVE  Queue(v) /\ Begun(v) /\ Fed(v)
<1>1. v.sent \in Seq(Parts)
  BY Fields
<1>2. Len(v.ps_input) = 0 /\ Len(v.ps_input) <= Len(v.sent)
  BY <1>1
<1>3. Queue(v)
  BY <1>2 DEF Queue
<1> QED BY <1>3 DEF Begun, Fed

LEMMA StopKeeps ==
  ASSUME NEW v \in ViewerType, Queue(v), Pipe(v)
  PROVE  /\ StopInterpreter(v) \in ViewerType
         /\ Whole(StopInterpreter(v)) /\ Idle(StopInterpreter(v))
         /\ StopInterpreter(v).sent = v.sent
<1> DEFINE s == StopInterpreter(v)
<1>1. /\ s \in ViewerType
      /\ ~s.pid /\ ~s.input /\ ~s.input_id /\ s.gs = "none" /\ s.mwin # "cur"
      /\ v.input => s.ps_input = <<>>
      /\ ~v.input => s.ps_input = v.ps_input
      /\ s.sent = v.sent /\ s.written = v.written /\ s.nread = v.nread
      /\ \A n \in 1..Len(s.events) : s.events[n].from = "old"
  BY Stops
<1> HIDE DEF s
<1>2. ~v.input => v.ps_input = <<>>
  BY Zenon DEF Queue
<1>3. s.ps_input = <<>>
  BY <1>1, <1>2, Zenon
<1>4. News(s) = {}
  BY <1>1, OldNews, Zenon
<1>5. Told(s)
  BY <1>1, <1>4 DEF Told
<1>6. Pipe(s)
  BY <1>1, Zenon DEF Pipe, Due
<1>7. Queue(s) /\ Begun(s) /\ Fed(s)
  BY <1>1, <1>3, AtRest
<1> QED BY <1>1, <1>3, <1>5, <1>6, <1>7 DEF Whole, Idle, s

LEMMA DueNone ==
  ASSUME NEW v, v.sent = <<>>
  PROVE  Due(v) = <<>>
<1> DEFINE e == [k \in 1..0 |-> Contents(v.sent[k])]
<1>1. e = <<>> /\ Len(e) = 0
  OBVIOUS
<1>2. Due(v) = FlattenSeq(e)
  BY DEF Due, Upto
<1> HIDE DEF e
<1> QED BY <1>1, <1>2 DEF FlattenSeq

LEMMA Starts ==
  ASSUME NEW v \in ViewerType, NEW forked \in BOOLEAN, Queue(v), Pipe(v)
  PROVE  /\ StartInterpreter(v, forked) \in ViewerType
         /\ Whole(StartInterpreter(v, forked))
         /\ v.disable_start => Idle(StartInterpreter(v, forked))
                               /\ StartInterpreter(v, forked).sent = v.sent
         /\ ~v.disable_start =>
               /\ Fresh(StartInterpreter(v, forked))
               /\ StartInterpreter(v, forked).busy
               /\ StartInterpreter(v, forked).input <=> doc # "plain"
<1> DEFINE t == StopInterpreter(v)
           s == StartInterpreter(v, forked)
           x == IF forked THEN "run" ELSE "none"
           y == (doc # "plain")
           r == [t EXCEPT !.changed = FALSE, !.busy = TRUE, !.pid = forked,
                          !.gs = x, !.input = y, !.out = {"stdout", "stderr"},
                          !.sent = <<>>, !.written = <<>>, !.nread = 0]
<1>1. /\ t \in ViewerType /\ ~t.input_id /\ t.mwin # "cur"
      /\ t.disable_start = v.disable_start
      /\ \A n \in 1..Len(t.events) : t.events[n].from = "old"
  BY Stops
<1>2. Whole(t) /\ Idle(t) /\ t.sent = v.sent
  BY StopKeeps
<1>3. CASE v.disable_start
  <2>1. s = t
    BY <1>1, <1>3, Zenon DEF StartInterpreter
  <2> QED BY <1>1, <1>2, <1>3, <2>1
<1>4. CASE ~v.disable_start
  <2>1. s = r
    BY <1>1, <1>4, Zenon DEF StartInterpreter
  <2>2. (forked => x = "run") /\ (~forked => x = "none") /\ y \in BOOLEAN
    BY Zenon
  <2> HIDE DEF t, x, y
  <2>3. r \in ViewerType
    <3>1. x \in {"none", "run", "wait", "dead"} /\ <<>> \in Seq(Parts) /\ <<>> \in Seq(Bytes)
      BY <2>2
    <3> DEFINE a == [t EXCEPT !.changed = FALSE, !.busy = TRUE, !.pid = forked]
               b == [a EXCEPT !.gs = x, !.input = y, !.out = {"stdout", "stderr"}]
    <3>2. a \in ViewerType
      BY <1>1, TypeIs
    <3> HIDE DEF a
    <3>3. b \in ViewerType
      BY <2>2, <3>1, <3>2, TypeIs
    <3> HIDE DEF b
    <3>4. [b EXCEPT !.sent = <<>>, !.written = <<>>, !.nread = 0] \in ViewerType
      BY <3>1, <3>3, TypeIs
    <3> QED BY <3>4, Zenon DEF a, b
  <2>4. /\ r.busy = TRUE /\ r.pid = forked /\ r.gs = x /\ r.input = y
        /\ r.sent = <<>> /\ r.written = <<>> /\ r.nread = 0
        /\ r.input_id = t.input_id /\ r.ps_input = t.ps_input
        /\ r.mwin = t.mwin /\ r.events = t.events
    BY <1>1 DEF ViewerType
  <2> HIDE DEF r
  <2>5. ~r.input_id /\ r.ps_input = <<>> /\ r.mwin # "cur" /\ News(r) = {}
    BY <1>1, <1>2, <2>4, OldNews DEF Idle
  <2>6. Told(r)
    <3>1. r.pid <=> r.gs # "none"
      BY <2>2, <2>4
    <3> QED BY <2>4, <2>5, <3>1 DEF Told
  <2>7. Pipe(r)
    <3>1. Due(r) = <<>>
      BY <2>4, DueNone
    <3>2. <<>> \in Seq(Bytes) /\ Len(<<>>) = 0
      OBVIOUS
    <3>3. IsPrefix(<<>>, <<>>)
      BY <3>2 DEF IsPrefix
    <3> QED BY <2>4, <3>1, <3>2, <3>3 DEF Pipe
  <2>8. Whole(r)
    BY <2>3, <2>5, <2>6, <2>7, AtRest DEF Whole
  <2>9. Fresh(r)
    BY <2>2, <2>4, <2>5 DEF Fresh
  <2>10. r.busy /\ (r.input <=> doc # "plain")
    BY <2>4 DEF y
  <2> QED BY <1>4, <2>1, <2>3, <2>8, <2>9, <2>10
<1> QED BY <1>3, <1>4

\* What SendPS leaves alone.
Aside(v) == <<v.pid, v.gs, v.busy, v.mwin, v.events, v.input, v.written, v.nread>>

\* p was queued in v.
Queued(v, p, s) ==
    /\ s \in ViewerType /\ Aside(s) = Aside(v)
    /\ ~v.input => s = v
    /\ v.input =>
         /\ s.sent = Append(v.sent, p)
         /\ v.ps_input = <<>> =>
               /\ s.ps_input = <<[part |-> p, seek_needed |-> TRUE]>>
               /\ s.bytes_left = Length[p] /\ s.buffer = <<>> /\ s.input_id
         /\ v.ps_input # <<>> =>
               /\ s.ps_input = Append(v.ps_input, [part |-> p, seek_needed |-> TRUE])
               /\ s.bytes_left = v.bytes_left /\ s.buffer = v.buffer
               /\ s.input_id = v.input_id /\ s.fp = v.fp

LEMMA Sends ==
  ASSUME NEW v \in ViewerType, NEW p \in Parts
  PROVE  Queued(v, p, SendPS(v, p))
<1> DEFINE s == SendPS(v, p)
           new == [part |-> p, seek_needed |-> TRUE]
           q == <<new>>
           a == Append(v.sent, p)
           b == Append(v.ps_input, new)
           L == Length[p]
           x == [v EXCEPT !.ps_input = q, !.bytes_left = L, !.buffer = <<>>,
                          !.input_id = TRUE, !.sent = a]
           y == [v EXCEPT !.ps_input = b, !.sent = a]
<1>1. new \in Items /\ q \in Seq(Items) /\ L \in Nat /\ <<>> \in Seq(Bytes)
  BY ContentsType DEF Items
<1>2. a \in Seq(Parts) /\ b \in Seq(Items)
  <2>1. v.sent \in Seq(Parts) /\ v.ps_input \in Seq(Items)
    BY Fields
  <2> HIDE DEF new
  <2> QED BY <1>1, <2>1
<1>3. s = IF ~v.input THEN v ELSE IF v.ps_input = <<>> THEN x ELSE y
  BY Zenon DEF SendPS
<1> SUFFICES Queued(v, p, s)
  OBVIOUS
<1> HIDE DEF s
<1>4. x \in ViewerType
  <2> DEFINE c == [v EXCEPT !.ps_input = q, !.bytes_left = L]
  <2> HIDE DEF q, a, L
  <2>1. c \in ViewerType
    BY <1>1, TypeIs
  <2> HIDE DEF c
  <2>2. [c EXCEPT !.buffer = <<>>, !.input_id = TRUE, !.sent = a] \in ViewerType
    BY <1>1, <1>2, <2>1, TypeIs
  <2> QED BY <2>2, Zenon DEF c
<1>5. y \in ViewerType
  <2> HIDE DEF a, b
  <2> QED BY <1>2, TypeIs
<1>6. /\ Aside(x) = Aside(v) /\ x.sent = a /\ x.ps_input = q
      /\ x.bytes_left = L /\ x.buffer = <<>> /\ x.input_id = TRUE
  <2> HIDE DEF a, q, L
  <2> QED BY DEF ViewerType, Aside
<1>7. /\ Aside(y) = Aside(v) /\ y.sent = a /\ y.ps_input = b
      /\ y.bytes_left = v.bytes_left /\ y.buffer = v.buffer
      /\ y.input_id = v.input_id /\ y.fp = v.fp
  <2> HIDE DEF a, b
  <2> QED BY DEF ViewerType, Aside
<1> HIDE DEF x, y
<1>8. CASE ~v.input
  <2>1. s = v
    BY <1>3, <1>8, Zenon
  <2>2. s \in ViewerType /\ Aside(s) = Aside(v) /\ (~v.input => s = v)
    BY <2>1
  <2> QED BY <1>8, <2>2, Zenon DEF Queued
<1>9. CASE v.input /\ v.ps_input = <<>>
  <2>1. s = x
    BY <1>3, <1>9, Zenon
  <2> QED BY <1>4, <1>6, <1>9, <2>1 DEF Queued
<1>10. CASE v.input /\ v.ps_input # <<>>
  <2>1. s = y
    BY <1>3, <1>10, Zenon
  <2> QED BY <1>5, <1>7, <1>10, <2>1 DEF Queued
<1> QED BY <1>8, <1>9, <1>10

LEMMA DueType ==
  ASSUME NEW v \in ViewerType
  PROVE  v.sent \in Seq(Parts) /\ Len(v.sent) \in Nat /\ Due(v) \in Seq(Bytes)
<1>1. v.sent \in Seq(Parts)
  BY Fields
<1>2. Len(v.sent) \in 0..Len(v.sent)
  BY <1>1
<1> QED BY <1>1, <1>2, UptoType DEF Due

LEMMA SendPipe ==
  ASSUME NEW v \in ViewerType, NEW p \in Parts, Pipe(v)
  PROVE  Pipe(SendPS(v, p))
<1> DEFINE s == SendPS(v, p)
<1>0. Queued(v, p, s)
  BY Sends
<1> HIDE DEF s
<1>1. /\ Aside(s) = Aside(v) /\ (~v.input => s = v)
      /\ v.input => s.sent = Append(v.sent, p)
  BY <1>0, Zenon DEF Queued
<1>2. CASE ~v.input
  BY <1>1, <1>2 DEF s
<1>3. CASE v.input
  <2>1. /\ v.sent \in Seq(Parts) /\ Due(v) \in Seq(Bytes)
        /\ v.written \in Seq(Bytes) /\ Contents(p) \in Seq(Bytes)
    BY DueType, Fields, ContentsType
  <2>2. Len(s.sent) = Len(v.sent) + 1
        /\ Upto(s.sent, Len(v.sent) + 1) = Upto(v.sent, Len(v.sent)) \o Contents(p)
    BY <1>1, <1>3, <2>1, UptoAppend
  <2>3. Due(s) = Due(v) \o Contents(p)
    BY <2>2, Zenon DEF Due
  <2>4. IsPrefix(v.written, Due(v)) /\ v.nread <= Len(v.written)
    BY DEF Pipe
  <2>5. IsPrefix(v.written, Due(v) \o Contents(p))
    BY <2>1, <2>4, PrefixConcat
  <2>6. s.written = v.written /\ s.nread = v.nread
    BY <1>1 DEF Aside
  <2> QED BY <2>3, <2>4, <2>5, <2>6 DEF Pipe, s
<1> QED BY <1>2, <1>3

\* What tells only of Ghostscript and its messages.
LEMMA ToldAside ==
  ASSUME NEW v, NEW s, Aside(s) = Aside(v), Told(v)
  PROVE  Told(s)
<1>1. /\ s.pid = v.pid /\ s.gs = v.gs /\ s.busy = v.busy /\ s.mwin = v.mwin
      /\ s.events = v.events
  BY DEF Aside
<1>2. News(s) = News(v)
  BY <1>1, Zenon DEF News
<1> QED BY <1>1, <1>2, Zenon DEF Told

LEMMA SendKeeps ==
  ASSUME NEW v \in ViewerType, NEW p \in Parts, Whole(v),
         v.input /\ v.ps_input = <<>> => v.written = Due(v)
  PROVE  Whole(SendPS(v, p))
<1> DEFINE s == SendPS(v, p)
           new == [part |-> p, seek_needed |-> TRUE]
           c == Contents(p)
<1>0. Queued(v, p, s) /\ Pipe(s)
  BY Sends, SendPipe DEF Whole
<1> HIDE DEF s
<1>1. /\ s \in ViewerType /\ Aside(s) = Aside(v) /\ (~v.input => s = v)
      /\ v.input => s.sent = Append(v.sent, p)
  BY <1>0, Zenon DEF Queued
<1>2. v.input /\ v.ps_input = <<>> =>
         /\ s.ps_input = <<new>> /\ s.bytes_left = Length[p]
         /\ s.buffer = <<>> /\ s.input_id
  BY <1>0, Zenon DEF Queued
<1>3. v.input /\ v.ps_input # <<>> =>
         /\ s.ps_input = Append(v.ps_input, new)
         /\ s.bytes_left = v.bytes_left /\ s.buffer = v.buffer
         /\ s.input_id = v.input_id /\ s.fp = v.fp
  BY <1>0, Zenon DEF Queued
<1>5. Told(s)
  BY <1>1, ToldAside DEF Whole
<1>6. s.written = v.written /\ s.input = v.input
  BY <1>1 DEF Aside
<1>7. /\ v.sent \in Seq(Parts) /\ Due(v) \in Seq(Bytes) /\ Len(v.sent) \in Nat
      /\ v.written \in Seq(Bytes) /\ c \in Seq(Bytes) /\ Len(c) = Length[p]
      /\ Length[p] \in Nat
      /\ v.ps_input \in Seq(Items) /\ v.bytes_left \in Nat
  BY DueType, Fields, ContentsType
<1>8. CASE ~v.input
  BY <1>1, <1>8 DEF s
<1> DEFINE N == Len(v.sent)
           M == Len(v.ps_input)
<1> HIDE DEF new, c, N, M
<1>9. CASE v.input /\ v.ps_input = <<>>
  <2>0. Append(v.sent, p)[N + 1] = p
    BY <1>7 DEF N
  <2>1. /\ s.sent \in Seq(Parts) /\ Len(s.sent) = N + 1 /\ s.sent[N + 1] = p
        /\ Upto(s.sent, N + 1) = Due(v) \o c
    <3>1. /\ Append(v.sent, p) \in Seq(Parts) /\ Len(Append(v.sent, p)) = Len(v.sent) + 1
          /\ Upto(Append(v.sent, p), Len(v.sent) + 1) = Upto(v.sent, Len(v.sent)) \o Contents(p)
      BY <1>7, UptoAppend
    <3> QED BY <1>1, <1>9, <2>0, <3>1, Zenon DEF Due, N, c
  <2>2. Len(s.ps_input) = 1 /\ s.ps_input[1] = new /\ s.ps_input # <<>>
    <3>1. s.ps_input = <<new>>
      BY <1>2, <1>9
    <3>2. Len(<<new>>) = 1 /\ <<new>>[1] = new /\ <<new>> # <<>>
      OBVIOUS
    <3> QED BY <3>1, <3>2, Zenon
  <2>3. Queue(s)
    <3>1. s.ps_input[1].part = s.sent[Len(s.sent) - 1 + 1]
      <4>1. Len(s.sent) - 1 + 1 = N + 1 /\ new.part = p
        BY <1>7, <2>1 DEF N, new
      <4> QED BY <2>1, <2>2, <4>1
    <3>2. \A k \in 1..Len(s.ps_input) : s.ps_input[k].part = s.sent[Len(s.sent) - Len(s.ps_input) + k]
      <4>1. \A k \in 1..Len(s.ps_input) : k = 1
        BY <2>2
      <4> QED BY <2>2, <3>1, <4>1
    <3>3. \A k \in 2..Len(s.ps_input) : s.ps_input[k].seek_needed
      BY <2>2
    <3>4. Len(s.ps_input) <= Len(s.sent)
      BY <1>7, <2>1, <2>2 DEF N
    <3> QED BY <1>2, <1>6, <1>9, <2>2, <3>2, <3>3, <3>4, Zenon DEF Queue
  <2>4. Begun(s)
    <3>1. new.part = p /\ new.seek_needed = TRUE /\ Length[p] <= Length[p]
      BY <1>7 DEF new
    <3> QED BY <1>2, <1>9, <2>2, <3>1 DEF Begun
  <2>5. Unread(s) = c
    <3>1. Length[p] - Length[p] + 1 = 1 /\ s.bytes_left = Length[p] /\ s.ps_input[1].part = p
      BY <1>2, <1>7, <1>9, <2>2 DEF new
    <3>2. SubSeq(c, 1, Length[p]) = c
      BY <1>7, SubSeqFull DEF c
    <3> QED BY <3>1, <3>2 DEF Unread, c
  <2>6. Fed(s)
    <3>1. (v.written \o <<>>) \o c = Due(v) \o c
      <4>1. v.written \o <<>> = v.written
        BY <1>7
      <4> QED BY <1>9, <4>1
    <3>2. Len(s.sent) - Len(s.ps_input) + 1 = N + 1
      BY <1>7, <2>1, <2>2 DEF N
    <3>3. s.buffer = <<>>
      BY <1>2, <1>9
    <3> QED BY <1>6, <2>1, <2>2, <2>5, <3>1, <3>2, <3>3, Zenon DEF Fed
  <2> QED BY <1>0, <1>5, <2>3, <2>4, <2>6 DEF Whole, s
<1>10. CASE v.input /\ v.ps_input # <<>>
  <2>0. Queue(v) /\ Begun(v) /\ Fed(v)
    BY DEF Whole
  <2>00. Append(v.sent, p)[N + 1] = p /\ \A k \in 1..N : Append(v.sent, p)[k] = v.sent[k]
    BY <1>7 DEF N
  <2>1. /\ s.sent \in Seq(Parts) /\ Len(s.sent) = N + 1 /\ s.sent[N + 1] = p
        /\ \A k \in 1..N : s.sent[k] = v.sent[k]
        /\ \A n \in 0..N : Upto(s.sent, n) = Upto(v.sent, n)
    <3>1. /\ Append(v.sent, p) \in Seq(Parts) /\ Len(Append(v.sent, p)) = Len(v.sent) + 1
          /\ \A n \in 0..Len(v.sent) : Upto(Append(v.sent, p), n) = Upto(v.sent, n)
      BY <1>7, UptoAppend
    <3> QED BY <1>1, <1>10, <2>00, <3>1, Zenon DEF N
  <2>2. /\ Len(s.ps_input) = M + 1 /\ s.ps_input # <<>>
        /\ \A k \in 1..M : s.ps_input[k] = v.ps_input[k]
        /\ s.ps_input[M + 1] = new /\ new.part = p /\ new.seek_needed = TRUE
    <3>1. new \in Items /\ new.part = p /\ new.seek_needed = TRUE
      BY DEF new, Items
    <3>2. s.ps_input = Append(v.ps_input, new)
      BY <1>3, <1>10 DEF new
    <3>3. v.ps_input \in Seq(Items)
      BY <1>7
    <3>4. /\ Len(Append(v.ps_input, new)) = M + 1 /\ Append(v.ps_input, new) # <<>>
          /\ \A k \in 1..M : Append(v.ps_input, new)[k] = v.ps_input[k]
          /\ Append(v.ps_input, new)[M + 1] = new
      BY <3>1, <3>3 DEF M
    <3> QED BY <3>1, <3>2, <3>4, Zenon
  <2>3. M \in 1..N /\ N \in Nat
    <3>1. M \in Nat /\ M # 0 /\ M <= N /\ N \in Nat
      BY <1>7, <1>10, <2>0 DEF Queue, M, N
    <3> QED BY <3>1
  <2>4. s.ps_input[1] = v.ps_input[1] /\ s.bytes_left = v.bytes_left /\ s.buffer = v.buffer
        /\ s.input_id = v.input_id /\ s.fp = v.fp
    BY <1>3, <1>10, <2>2, <2>3
  <2>5. Begun(s)
    BY <1>10, <2>0, <2>2, <2>4, Zenon DEF Begun
  <2>6. Queue(s)
    <3>1. ASSUME NEW k \in 1..Len(s.ps_input)
          PROVE s.ps_input[k].part = s.sent[Len(s.sent) - Len(s.ps_input) + k]
      <4>1. Len(s.sent) - Len(s.ps_input) + k = N - M + k
        BY <2>1, <2>2, <2>3
      <4>2. CASE k = M + 1
        <5>1. N - M + k = N + 1
          BY <2>3, <4>2
        <5> QED BY <2>1, <2>2, <4>1, <4>2, <5>1, Zenon
      <4>3. CASE k # M + 1
        <5>1. k \in 1..M /\ N - M + k \in 1..N
          BY <2>2, <2>3, <4>3
        <5>2. v.ps_input[k].part = v.sent[N - M + k]
          BY <2>0, <5>1, Zenon DEF Queue, M, N
        <5> QED BY <2>1, <2>2, <4>1, <5>1, <5>2, Zenon
      <4> QED BY <4>2, <4>3
    <3>2. ASSUME NEW k \in 2..Len(s.ps_input)  PROVE s.ps_input[k].seek_needed
      <4>1. CASE k = M + 1
        BY <2>2, <4>1
      <4>2. CASE k # M + 1
        <5>1. k \in 2..M /\ k \in 1..M
          BY <2>2, <2>3, <4>2
        <5>2. v.ps_input[k].seek_needed
          BY <2>0, <5>1, Zenon DEF Queue, M
        <5> QED BY <2>2, <5>1, <5>2, Zenon
      <4> QED BY <4>1, <4>2
    <3>3. v.input_id
      BY <1>10, <2>0 DEF Queue
    <3>4. Len(s.ps_input) <= Len(s.sent)
      BY <2>1, <2>2, <2>3
    <3> QED BY <1>6, <1>10, <2>2, <2>4, <3>1, <3>2, <3>3, <3>4, Zenon DEF Queue
  <2>7. Unread(s) = Unread(v)
    BY <2>4, Zenon DEF Unread
  <2>8. Fed(s)
    <3>1. Len(s.sent) - Len(s.ps_input) + 1 = N - M + 1 /\ N - M + 1 \in 0..N
      BY <2>1, <2>2, <2>3
    <3>2. Upto(s.sent, N - M + 1) = Upto(v.sent, N - M + 1)
      BY <2>1, <3>1
    <3>3. v.input_id => (v.written \o v.buffer) \o Unread(v) = Upto(v.sent, N - M + 1)
      BY <1>10, <2>0, Zenon DEF Fed, N, M
    <3> QED BY <1>6, <2>2, <2>4, <2>7, <3>1, <3>2, <3>3, Zenon DEF Fed
  <2> QED BY <1>0, <1>5, <2>5, <2>6, <2>8 DEF Whole, s
<1> QED BY <1>8, <1>9, <1>10

\* The last byte of a page.
PageEnd(b) == b[1] \in Pages /\ b[2] = Length[b[1]]

\* Ghostscript will see no end of a page.
Quiet(v) == \A k \in (v.nread + 1)..Len(Due(v)) : ~PageEnd(Due(v)[k])

\* The page that is drawn, or will be, is p, and it is the end of what was sent.
Asked(v, p) ==
    /\ v.gs # "none" => v.sent # <<>>
    /\ v.gs = "run" => \A k \in (v.nread + 1)..Len(Due(v)) :
                          PageEnd(Due(v)[k]) => k = Len(Due(v)) /\ Due(v)[k][1] = p
    /\ v.gs = "wait" => /\ v.nread > 0 /\ v.nread = Len(Due(v))
                        /\ Due(v)[v.nread][1] = p

Fitting(v, d) == v.gs # "none" => (v.input <=> d # "plain")

\* What the invariant looks at.
Core(v) == <<v.ps_input, v.input_id, v.input, v.bytes_left, v.sent, v.buffer, v.written,
             v.nread, v.fp, v.pid, v.gs, v.busy, v.mwin, v.events>>

LEMMA SameCore ==
  ASSUME NEW v, NEW w, Core(v) = Core(w)
  PROVE  /\ Queue(v) => Queue(w)
         /\ Pipe(v) => Pipe(w)
         /\ Whole(v) => Whole(w)
         /\ Document(v) => Document(w)
         /\ Idle(v) => Idle(w)
<1>1. /\ v.ps_input = w.ps_input /\ v.input_id = w.input_id /\ v.input = w.input
      /\ v.bytes_left = w.bytes_left /\ v.sent = w.sent /\ v.buffer = w.buffer
      /\ v.written = w.written /\ v.nread = w.nread /\ v.fp = w.fp /\ v.pid = w.pid
      /\ v.gs = w.gs /\ v.busy = w.busy /\ v.mwin = w.mwin /\ v.events = w.events
  BY DEF Core
<1>2. Due(v) = Due(w) /\ Unread(v) = Unread(w) /\ News(v) = News(w)
  BY <1>1, Zenon DEF Due, Unread, News
<1>3. (Queue(v) => Queue(w)) /\ (Pipe(v) => Pipe(w))
  <2>1. Queue(v) => Queue(w)
    <3>1. /\ v.ps_input = w.ps_input /\ v.input_id = w.input_id /\ v.input = w.input
          /\ v.bytes_left = w.bytes_left /\ v.sent = w.sent
      BY <1>1, Zenon
    <3> QED BY <3>1, ZenonT(40) DEF Queue
  <2>2. Pipe(v) => Pipe(w)
    BY <1>1, <1>2, Zenon DEF Pipe
  <2> QED BY <2>1, <2>2, Zenon
<1>6. (Document(v) => Document(w)) /\ (Idle(v) => Idle(w))
  BY <1>1, ZenonT(40) DEF Document, Idle
<1>4. (Begun(v) => Begun(w)) /\ (Fed(v) => Fed(w))
  BY <1>1, <1>2, Zenon DEF Begun, Fed
<1>5. Told(v) => Told(w)
  BY <1>1, <1>2, Zenon DEF Told
<1> QED BY <1>3, <1>4, <1>5, <1>6, Zenon DEF Whole

\* Sending a section appends its bytes to what is due.
LEMMA SendDue ==
  ASSUME NEW v \in ViewerType, NEW p \in Parts, v.input
  PROVE  Due(SendPS(v, p)) = Due(v) \o Contents(p)
<1> DEFINE s == SendPS(v, p)
<1>1. Queued(v, p, s)
  BY Sends
<1> HIDE DEF s
<1>2. s.sent = Append(v.sent, p)
  BY <1>1, Zenon DEF Queued
<1>3. v.sent \in Seq(Parts)
  BY DueType
<1>4. Len(s.sent) = Len(v.sent) + 1
      /\ Upto(s.sent, Len(v.sent) + 1) = Upto(v.sent, Len(v.sent)) \o Contents(p)
  BY <1>2, <1>3, UptoAppend
<1> QED BY <1>4, Zenon DEF Due, s

\* The bytes of what is due after SendPS.
LEMMA SendBytes ==
  ASSUME NEW v \in ViewerType, NEW p \in Parts, v.input
  PROVE  /\ Len(Due(v)) \in Nat
         /\ Len(Due(SendPS(v, p))) = Len(Due(v)) + Length[p]
         /\ \A k \in 1..Len(Due(v)) : Due(SendPS(v, p))[k] = Due(v)[k]
         /\ \A k \in (Len(Due(v)) + 1)..(Len(Due(v)) + Length[p]) :
               Due(SendPS(v, p))[k] = <<p, k - Len(Due(v))>>
<1> DEFINE a == Due(v)
           c == Contents(p)
           L == Length[p]
<1>1. a \in Seq(Bytes) /\ c \in Seq(Bytes) /\ Len(c) = L /\ L \in Nat
      /\ \A k \in 1..L : c[k] = <<p, k>>
  BY DueType, ContentsType
<1>2. Due(SendPS(v, p)) = a \o c
  BY SendDue
<1> HIDE DEF a, c, L
<1>3. Len(a) \in Nat /\ Len(a \o c) = Len(a) + L
  <2>1. a \in Seq(Bytes) /\ c \in Seq(Bytes)
    BY <1>1
  <2>2. Len(a) \in Nat /\ Len(a \o c) = Len(a) + Len(c)
    BY <2>1
  <2> QED BY <1>1, <2>2
<1>4. \A k \in 1..Len(a) : (a \o c)[k] = a[k]
  BY <1>1
<1>5. ASSUME NEW k \in (Len(a) + 1)..(Len(a) + L)  PROVE (a \o c)[k] = <<p, k - Len(a)>>
  <2>1. k - Len(a) \in 1..L /\ k \in 1..(Len(a) + L) /\ ~(k <= Len(a))
    BY <1>1, <1>3
  <2>2. (a \o c)[k] = c[k - Len(a)]
    BY <1>1, <1>3, <2>1
  <2> QED BY <1>1, <2>1, <2>2
<1> QED BY <1>2, <1>3, <1>4, <1>5, Zenon DEF a, L

LEMMA SendQuiet ==
  ASSUME NEW v \in ViewerType, NEW p \in Parts, p \notin Pages, Quiet(v)
  PROVE  Quiet(SendPS(v, p))
<1> DEFINE s == SendPS(v, p)
           n == Len(Due(v))
           L == Length[p]
<1>1. Queued(v, p, s)
  BY Sends
<1>2. v.input => /\ n \in Nat /\ Len(Due(s)) = n + L
                 /\ \A k \in 1..n : Due(s)[k] = Due(v)[k]
                 /\ \A k \in (n + 1)..(n + L) : Due(s)[k] = <<p, k - n>>
  BY SendBytes, Zenon
<1> HIDE DEF s, n, L
<1>3. CASE ~v.input
  <2>1. s = v
    BY <1>1, <1>3, Zenon DEF Queued
  <2> QED BY <2>1 DEF s
<1>4. CASE v.input
  <2>1. s.nread = v.nread /\ v.nread \in Nat /\ L \in Nat
    BY <1>1, Fields, ContentsType DEF Queued, Aside, L
  <2>2. ASSUME NEW k \in (v.nread + 1)..(n + L), PageEnd(Due(s)[k])  PROVE FALSE
    <3>1. CASE k <= n
      <4>1. k \in 1..n /\ k \in (v.nread + 1)..n
        BY <1>2, <1>4, <2>1, <3>1
      <4> QED BY <1>2, <1>4, <2>2, <4>1 DEF Quiet, n
    <3>2. CASE ~(k <= n)
      <4>1. k \in (n + 1)..(n + L)
        BY <1>2, <1>4, <2>1, <3>2
      <4>2. Due(s)[k][1] = p
        BY <1>2, <1>4, <4>1
      <4> QED BY <2>2, <4>2 DEF PageEnd
    <3> QED BY <3>1, <3>2
  <2> QED BY <1>2, <1>4, <2>1, <2>2 DEF Quiet, s
<1> QED BY <1>3, <1>4

LEMMA SendAsked ==
  ASSUME NEW v \in ViewerType, NEW p \in Pages, Quiet(v),
         v.gs # "wait", v.gs # "none" => v.input
  PROVE  Asked(SendPS(v, p), p)
<1> DEFINE s == SendPS(v, p)
           n == Len(Due(v))
           L == Length[p]
<1>0. p \in Parts
  BY DEF Parts
<1>1. Queued(v, p, s)
  BY <1>0, Sends
<1>2. v.input => /\ n \in Nat /\ Len(Due(s)) = n + L
                 /\ \A k \in 1..n : Due(s)[k] = Due(v)[k]
                 /\ \A k \in (n + 1)..(n + L) : Due(s)[k] = <<p, k - n>>
  BY <1>0, SendBytes, Zenon
<1> HIDE DEF s, n, L
<1>3. s.gs = v.gs /\ s.nread = v.nread
  BY <1>1 DEF Queued, Aside
<1>4. CASE ~v.input
  BY <1>3, <1>4 DEF Asked, s
<1>5. CASE v.input
  <2>1. v.nread \in Nat /\ L \in Nat
    BY <1>0, Fields, ContentsType DEF L
  <2>2. s.sent # <<>>
    <3>1. s.sent = Append(v.sent, p) /\ v.sent \in Seq(Parts)
      BY <1>1, <1>5, Fields DEF Queued
    <3> QED BY <3>1
  <2>3. ASSUME NEW k \in (v.nread + 1)..(n + L), PageEnd(Due(s)[k])
        PROVE  k = n + L /\ Due(s)[k][1] = p
    <3>1. CASE k <= n
      <4>1. k \in 1..n /\ k \in (v.nread + 1)..n
        BY <1>2, <1>5, <2>1, <3>1
      <4> QED BY <1>2, <1>5, <2>3, <4>1 DEF Quiet, n
    <3>2. CASE ~(k <= n)
      <4>1. k \in (n + 1)..(n + L)
        BY <1>2, <1>5, <2>1, <3>2
      <4>2. Due(s)[k][1] = p /\ Due(s)[k][2] = k - n
        BY <1>2, <1>5, <4>1
      <4>3. k - n = L
        BY <2>3, <4>2 DEF PageEnd, L
      <4> QED BY <1>2, <1>5, <4>1, <4>2, <4>3
    <3> QED BY <3>1, <3>2
  <2> QED BY <1>2, <1>3, <1>5, <2>2, <2>3 DEF Asked, s
<1> QED BY <1>4, <1>5

LEMMA FreshQuiet ==
  ASSUME NEW v, Fresh(v)
  PROVE  Due(v) = <<>> /\ v.written = Due(v) /\ Quiet(v)
<1>1. v.sent = <<>> /\ v.written = <<>> /\ v.nread = 0
  BY DEF Fresh
<1>2. Due(v) = <<>>
  BY <1>1, DueNone
<1>3. Len(<<>>) = 0
  OBVIOUS
<1> QED BY <1>1, <1>2, <1>3 DEF Quiet

\* After the first section the queue is not empty, and the others only join it.
LEMMA SendMore ==
  ASSUME NEW v \in ViewerType, NEW p \in Parts, v.input
  PROVE  /\ SendPS(v, p) \in ViewerType /\ SendPS(v, p).input
         /\ SendPS(v, p).ps_input # <<>> /\ SendPS(v, p).gs = v.gs
         /\ SendPS(v, p).sent = Append(v.sent, p)
<1> DEFINE s == SendPS(v, p)
           new == [part |-> p, seek_needed |-> TRUE]
<1>1. Queued(v, p, s)
  BY Sends
<1> HIDE DEF s
<1>2. s.ps_input # <<>>
  <2>1. s.ps_input = <<new>> \/ s.ps_input = Append(v.ps_input, new)
    BY <1>1, Zenon DEF Queued
  <2>2. v.ps_input \in Seq(Items) /\ new \in Items
    BY Fields DEF Items
  <2> HIDE DEF new
  <2>3. <<new>> # <<>> /\ Append(v.ps_input, new) # <<>>
    BY <2>2
  <2> QED BY <2>1, <2>3, Zenon
<1>3. s.input = v.input /\ s.gs = v.gs
  BY <1>1 DEF Queued, Aside
<1>4. s \in ViewerType /\ s.sent = Append(v.sent, p)
  BY <1>1 DEF Queued
<1> QED BY <1>2, <1>3, <1>4 DEF s

\* The sections of a page, for an interpreter that was just started, or for none.
LEMMA Refreshes ==
  ASSUME NEW v \in ViewerType, NEW p \in Pages, Whole(v),
         (Idle(v) /\ Document(v)) \/ (Fresh(v) /\ v.input),
         NEW z, z = SendPS(SendPS(SendPS(v, Prolog), Setups), p)
  PROVE  /\ z \in ViewerType /\ Whole(z) /\ Document(z) /\ Asked(z, p)
         /\ z.gs = v.gs /\ z.input = v.input
<1> DEFINE x == SendPS(v, Prolog)
           y == SendPS(x, Setups)
<1>0. /\ Prolog \in Parts /\ Setups \in Parts /\ p \in Parts
      /\ Prolog \notin Pages /\ Setups \notin Pages /\ Prolog # Setups
      /\ p # Prolog /\ p # Setups
  BY PageAssumption DEF Parts
<1>1. CASE Idle(v) /\ Document(v)
  <2>1. ~v.input /\ v.gs = "none"
    BY <1>1 DEF Idle
  <2>2. x = v
    BY <2>1 DEF SendPS
  <2>3. y = v
    BY <2>1, <2>2 DEF SendPS
  <2>4. z = v
    BY <2>1, <2>3 DEF SendPS
  <2>5. Asked(z, p)
    BY <2>1, <2>4 DEF Asked
  <2> QED BY <1>1, <2>4, <2>5
<1>2. CASE Fresh(v) /\ v.input
  <2>1. v.written = Due(v) /\ Quiet(v) /\ v.gs \in {"none", "run"} /\ v.sent = <<>>
    BY <1>2, FreshQuiet DEF Fresh
  <2>2. x \in ViewerType /\ x.input /\ x.ps_input # <<>> /\ x.gs = v.gs
        /\ x.sent = Append(v.sent, Prolog)
    BY <1>0, <1>2, SendMore
  <2>3. Whole(x) /\ Quiet(x)
    BY <1>0, <2>1, SendKeeps, SendQuiet
  <2> HIDE DEF x
  <2>4. y \in ViewerType /\ y.input /\ y.ps_input # <<>> /\ y.gs = v.gs
        /\ y.sent = Append(x.sent, Setups)
    BY <1>0, <2>2, SendMore
  <2>5. Whole(y) /\ Quiet(y)
    BY <1>0, <2>2, <2>3, SendKeeps, SendQuiet
  <2> HIDE DEF y
  <2>6. z = SendPS(y, p)
    BY DEF x, y
  <2>7. z \in ViewerType /\ z.input /\ z.gs = v.gs /\ z.sent = Append(y.sent, p)
    <3>1. /\ SendPS(y, p) \in ViewerType /\ SendPS(y, p).input
          /\ SendPS(y, p).gs = y.gs /\ SendPS(y, p).sent = Append(y.sent, p)
      BY <1>0, <2>4, SendMore
    <3> QED BY <2>4, <2>6, <3>1, Zenon
  <2>8. Whole(z) /\ Asked(z, p)
    BY <1>0, <2>1, <2>4, <2>5, <2>6, SendKeeps, SendAsked
  <2>9. x.sent \in Seq(Parts) /\ Len(x.sent) = 1 /\ x.sent[1] = Prolog
    <3>1. Append(<<>>, Prolog) = <<Prolog>>
      OBVIOUS
    <3>2. <<Prolog>> \in Seq(Parts) /\ Len(<<Prolog>>) = 1 /\ <<Prolog>>[1] = Prolog
      BY <1>0
    <3> QED BY <2>1, <2>2, <3>1, <3>2, Zenon
  <2>10. y.sent \in Seq(Parts) /\ Len(y.sent) = 2 /\ y.sent[1] = Prolog /\ y.sent[2] = Setups
    BY <1>0, <2>4, <2>9
  <2>11. Len(z.sent) = 3 /\ z.sent[1] = Prolog /\ z.sent[2] = Setups /\ z.sent[3] = p
    BY <1>0, <2>7, <2>10
  <2>12. Document(z)
    <3>1. \A k \in 1..3 : k = 1 \/ k = 2 \/ k = 3
      OBVIOUS
    <3> QED BY <1>0, <2>11, <3>1 DEF Document
  <2>13. z.input = v.input
    BY <1>2, <2>7, Fields
  <2> QED BY <2>7, <2>8, <2>12, <2>13
<1> QED BY <1>1, <1>2

LEMMA Sizes ==
  ASSUME NEW v \in ViewerType, NEW b \in BOOLEAN
  PROVE  /\ [v EXCEPT !.sized = b] \in ViewerType
         /\ Core([v EXCEPT !.sized = b]) = Core(v)
         /\ [v EXCEPT !.sized = b].disable_start = v.disable_start
         /\ ~b => ~Settled([v EXCEPT !.sized = b])
<1>1. [v EXCEPT !.sized = b] \in ViewerType
  BY TypeIs
<1> QED BY <1>1 DEF ViewerType, Core, Settled

LEMMA Changes ==
  ASSUME NEW v \in ViewerType
  PROVE  /\ [v EXCEPT !.changed = TRUE] \in ViewerType
         /\ Core([v EXCEPT !.changed = TRUE]) = Core(v)
         /\ [v EXCEPT !.changed = TRUE].disable_start = v.disable_start
         /\ ~Settled([v EXCEPT !.changed = TRUE])
<1>1. [v EXCEPT !.changed = TRUE] \in ViewerType
  BY TypeIs
<1> QED BY <1>1 DEF ViewerType, Core, Settled

LEMMA Disables ==
  ASSUME NEW v \in ViewerType, NEW b \in BOOLEAN
  PROVE  /\ [v EXCEPT !.disable_start = b] \in ViewerType
         /\ Core([v EXCEPT !.disable_start = b]) = Core(v)
         /\ [v EXCEPT !.disable_start = b].disable_start = b
<1>1. [v EXCEPT !.disable_start = b] \in ViewerType
  BY TypeIs
<1> QED BY <1>1 DEF ViewerType, Core

LEMMA DisableKeeps ==
  ASSUME NEW v \in ViewerType, Whole(v), Document(v)
  PROVE  /\ DisableInterpreter(v) \in ViewerType
         /\ Whole(DisableInterpreter(v)) /\ Idle(DisableInterpreter(v))
         /\ Document(DisableInterpreter(v))
<1> DEFINE w == [v EXCEPT !.disable_start = TRUE]
           s == StopInterpreter(w)
<1>1. w \in ViewerType /\ Core(w) = Core(v)
  BY Disables
<1>2. Whole(w) /\ Document(w)
  BY <1>1, SameCore
<1> HIDE DEF w
<1>3. s \in ViewerType /\ Whole(s) /\ Idle(s) /\ s.sent = w.sent
  BY <1>1, <1>2, StopKeeps DEF Whole
<1>4. Document(s)
  BY <1>2, <1>3 DEF Document
<1> QED BY <1>3, <1>4 DEF DisableInterpreter, w

LEMMA EnableStarts ==
  ASSUME NEW v \in ViewerType, NEW forked \in BOOLEAN, Whole(v)
  PROVE  /\ EnableInterpreter(v, forked) \in ViewerType
         /\ Whole(EnableInterpreter(v, forked))
         /\ Fresh(EnableInterpreter(v, forked))
         /\ EnableInterpreter(v, forked).input <=> doc # "plain"
<1> DEFINE w == [v EXCEPT !.disable_start = FALSE]
<1>1. w \in ViewerType /\ Core(w) = Core(v) /\ w.disable_start = FALSE
  BY Disables
<1>2. Whole(w)
  BY <1>1, SameCore
<1> HIDE DEF w
<1>3. /\ StartInterpreter(w, forked) \in ViewerType /\ Whole(StartInterpreter(w, forked))
      /\ Fresh(StartInterpreter(w, forked))
      /\ StartInterpreter(w, forked).input <=> doc # "plain"
  BY <1>1, <1>2, Starts DEF Whole
<1> QED BY <1>3 DEF EnableInterpreter, w

\* Setup of a widget that is not settled starts anew, or stops.
LEMMA SetsUp ==
  ASSUME NEW v \in ViewerType, NEW forked \in BOOLEAN, Whole(v), Document(v), ~Settled(v)
  PROVE  /\ Setup(v, forked) \in ViewerType
         /\ Whole(Setup(v, forked)) /\ Document(Setup(v, forked))
         /\ \/ Idle(Setup(v, forked))
            \/ /\ Fresh(Setup(v, forked)) /\ Setup(v, forked).busy
               /\ Setup(v, forked).input <=> doc # "plain"
<1> DEFINE t == StopInterpreter(v)
           w == [t EXCEPT !.sized = TRUE]
           s == StartInterpreter(w, forked)
<1>1. t \in ViewerType /\ Whole(t) /\ Idle(t) /\ t.sent = v.sent
  BY StopKeeps DEF Whole
<1>2. w \in ViewerType /\ Core(w) = Core(t)
  <2> HIDE DEF t
  <2> QED BY <1>1, Sizes
<1>3. Document(t)
  BY <1>1 DEF Document
<1>4. Setup(v, forked) = s
  BY Zenon DEF Setup
<1> HIDE DEF t, w
<1>5. Whole(w) /\ Document(w)
  BY <1>1, <1>2, <1>3, SameCore
<1>6. /\ s \in ViewerType /\ Whole(s)
      /\ w.disable_start => Idle(s) /\ s.sent = w.sent
      /\ ~w.disable_start => Fresh(s) /\ s.busy /\ (s.input <=> doc # "plain")
  BY <1>2, <1>5, Starts DEF Whole
<1> HIDE DEF s
<1>7. Document(s)
  <2>1. CASE w.disable_start
    BY <1>5, <1>6, <2>1 DEF Document
  <2>2. CASE ~w.disable_start
    <3>1. s.sent = <<>> /\ Len(<<>>) = 0
      BY <1>6, <2>2 DEF Fresh
    <3> QED BY <3>1 DEF Document
  <2> QED BY <2>1, <2>2
<1> QED BY <1>4, <1>6, <1>7

\* NextPage touches nothing but the busy flag and Ghostscript.
LEMMA Turns ==
  ASSUME NEW v \in ViewerType
  PROVE  /\ NextPage(v) \in ViewerType
         /\ NextPage(v).ps_input = v.ps_input /\ NextPage(v).input_id = v.input_id
         /\ NextPage(v).input = v.input /\ NextPage(v).bytes_left = v.bytes_left
         /\ NextPage(v).sent = v.sent /\ NextPage(v).buffer = v.buffer
         /\ NextPage(v).written = v.written /\ NextPage(v).nread = v.nread
         /\ NextPage(v).fp = v.fp /\ NextPage(v).pid = v.pid
         /\ NextPage(v).mwin = v.mwin /\ NextPage(v).events = v.events
         /\ CanTurn(v) /\ v.mwin = "cur" /\ v.gs = "wait" =>
               NextPage(v).busy /\ NextPage(v).gs = "run"
<1> DEFINE x == IF v.mwin = "cur" /\ v.gs = "wait" THEN "run" ELSE v.gs
           s == [v EXCEPT !.busy = TRUE, !.gs = x]
<1>1. NextPage(v) = IF ~CanTurn(v) THEN v ELSE s
  BY Zenon DEF NextPage
<1>2. x \in {"none", "run", "wait", "dead"} /\ (v.mwin = "cur" /\ v.gs = "wait" => x = "run")
  BY Fields
<1> HIDE DEF x
<1>3. s \in ViewerType
  BY <1>2, TypeIs
<1>4. /\ s.ps_input = v.ps_input /\ s.input_id = v.input_id
      /\ s.input = v.input /\ s.bytes_left = v.bytes_left
      /\ s.sent = v.sent /\ s.buffer = v.buffer
      /\ s.written = v.written /\ s.nread = v.nread
      /\ s.fp = v.fp /\ s.pid = v.pid
      /\ s.mwin = v.mwin /\ s.events = v.events
      /\ s.busy = TRUE /\ s.gs = x
  BY DEF ViewerType
<1> HIDE DEF s
<1>5. CASE CanTurn(v)
  <2>1. NextPage(v) = s
    BY <1>1, <1>5, Zenon
  <2> QED BY <1>2, <1>3, <1>4, <2>1
<1>6. CASE ~CanTurn(v)
  <2>1. NextPage(v) = v
    BY <1>1, <1>6, Zenon
  <2> QED BY <1>6, <2>1
<1> QED BY <1>5, <1>6

LEMMA TurnPipe ==
  ASSUME NEW v \in ViewerType, Pipe(v), Document(v)
  PROVE  Pipe(NextPage(v)) /\ Document(NextPage(v))
<1> DEFINE s == NextPage(v)
<1>1. s.sent = v.sent /\ s.written = v.written /\ s.nread = v.nread
  BY Turns
<1> HIDE DEF s
<1> QED BY <1>1, Zenon DEF Pipe, Document, Due, s

\* A Ghostscript that is ready, and does not end the program, waits for NEXT.
LEMMA TurnKeeps ==
  ASSUME NEW v \in ViewerType, Whole(v), IsInterpreterReady(v), ~BadWindow(v)
  PROVE  v.gs = "wait" /\ Whole(NextPage(v)) /\ NextPage(v).gs = "run"
<1> DEFINE s == NextPage(v)
<1>1. v.pid /\ ~v.busy /\ v.ps_input = <<>>
  BY DEF IsInterpreterReady
<1>2. v.mwin = "cur" /\ CanTurn(v) /\ v.gs # "dead"
  BY <1>1, Fields DEF Whole, Told, BadWindow, CanTurn
<1>3. v.gs = "wait" /\ News(v) = {}
  BY <1>1, <1>2, Fields DEF Whole, Told
<1>4. /\ s \in ViewerType
      /\ s.ps_input = v.ps_input /\ s.input_id = v.input_id
      /\ s.input = v.input /\ s.bytes_left = v.bytes_left
      /\ s.sent = v.sent /\ s.buffer = v.buffer
      /\ s.written = v.written /\ s.nread = v.nread
      /\ s.fp = v.fp /\ s.pid = v.pid
      /\ s.mwin = v.mwin /\ s.events = v.events
      /\ s.busy /\ s.gs = "run"
  BY <1>2, <1>3, Turns
<1> HIDE DEF s
<1>5. Queue(s) /\ Pipe(s)
  BY <1>4, Zenon DEF Whole, Queue, Pipe, Due
<1>6. Begun(s)
  BY <1>4, Zenon DEF Whole, Begun
<1>7. Fed(s)
  <2>1. Due(s) = Due(v) /\ Unread(s) = Unread(v)
    BY <1>4, Zenon DEF Due, Unread
  <2> QED BY <1>4, <2>1, Zenon DEF Whole, Fed
<1>8. Told(s)
  <2>1. News(s) = {}
    BY <1>3, <1>4, Zenon DEF News
  <2> QED BY <1>1, <1>4, <2>1 DEF Told
<1> QED BY <1>3, <1>4, <1>5, <1>6, <1>7, <1>8 DEF Whole, s

\* When a page was shown, all that was sent was written and read.
LEMMA AllRead ==
  ASSUME NEW v \in ViewerType, NEW p, Whole(v), Asked(v, p), v.gs = "wait"
  PROVE  v.written = Due(v) /\ v.nread = Len(Due(v))
<1>1. v.nread = Len(Due(v)) /\ v.nread <= Len(v.written) /\ IsPrefix(v.written, Due(v))
  BY DEF Asked, Whole, Pipe
<1>2. v.written \in Seq(Bytes) /\ Due(v) \in Seq(Bytes)
  BY Fields, DueType
<1>3. Len(v.written) <= Len(Due(v)) /\ \A k \in 1..Len(v.written) : v.written[k] = Due(v)[k]
  BY <1>1, <1>2, PrefixIs
<1>4. Len(v.written) = Len(Due(v))
  <2>1. Len(v.written) \in Nat /\ Len(Due(v)) \in Nat
    BY <1>2
  <2> QED BY <1>1, <1>3, <2>1
<1> QED BY <1>1, <1>2, <1>3, <1>4, SeqEqual

\* One more page in a document.
LEMMA DocumentMore ==
  ASSUME NEW v \in ViewerType, NEW p \in Pages, Document(v), v.input => v.sent # <<>>
  PROVE  Document(SendPS(v, p))
<1> DEFINE s == SendPS(v, p)
           n == Len(v.sent)
<1>0. p \in Parts /\ p # Prolog /\ p # Setups
  BY PageAssumption DEF Parts
<1>1. Queued(v, p, s)
  BY <1>0, Sends
<1> HIDE DEF s
<1>2. CASE ~v.input
  BY <1>1, <1>2 DEF Queued, s
<1>3. CASE v.input
  <2>1. v.sent \in Seq(Parts) /\ n \in Nat
    BY DueType
  <2>2. s.sent = Append(v.sent, p)
    BY <1>1, <1>3 DEF Queued
  <2>3. Len(s.sent) = n + 1 /\ s.sent[n + 1] = p /\ \A k \in 1..n : s.sent[k] = v.sent[k]
    BY <1>0, <2>1, <2>2
  <2>4. n > 2
    <3>1. n # 0
      BY <1>3, <2>1
    <3>2. n \notin {1, 2}
      BY DEF Document
    <3>3. n \in Nat
      BY <2>1
    <3> HIDE DEF n
    <3> QED BY <3>1, <3>2, <3>3
  <2>5. \A k \in 1..n : (k = 1 <=> v.sent[k] = Prolog) /\ (k = 2 <=> v.sent[k] = Setups)
    BY DEF Document
  <2> HIDE DEF n
  <2>6. ASSUME NEW k \in 1..(n + 1)
        PROVE  (k = 1 <=> s.sent[k] = Prolog) /\ (k = 2 <=> s.sent[k] = Setups)
    <3>1. CASE k = n + 1
      <4>1. k # 1 /\ k # 2
        BY <2>1, <2>4, <3>1
      <4> QED BY <1>0, <2>3, <3>1, <4>1
    <3>2. CASE k # n + 1
      <4>1. k \in 1..n
        BY <2>1, <3>2
      <4> QED BY <2>3, <2>5, <4>1, Zenon
    <3> QED BY <3>1, <3>2
  <2>7. n + 1 \notin {1, 2}
    BY <2>1, <2>4
  <2> QED BY <2>3, <2>6, <2>7 DEF Document, s
<1> QED BY <1>2, <1>3

\* mgv_show of a document: v may be anything but ready for another page.
LEMMA Shows ==
  ASSUME NEW v \in ViewerType, NEW p \in Pages, NEW q, NEW forked \in BOOLEAN,
         doc = "dsc", Whole(v), Document(v), Fitting(v, doc), ~v.busy => Asked(v, q)
  PROVE  /\ Shown(v, p, forked) \in ViewerType
         /\ Pipe(Shown(v, p, forked)) /\ Document(Shown(v, p, forked))
         /\ ~Refused(v, p) =>
               /\ Whole(Shown(v, p, forked)) /\ Fitting(Shown(v, p, forked), doc)
               /\ Asked(Shown(v, p, forked), p)
<1> DEFINE t == Turned(v, p)
           e == EnableInterpreter(t, forked)
           r == NextPage(t)
           s == Shown(v, p, forked)
<1>0. p \in Parts
  BY DEF Parts
<1>1. t = v \/ t = DisableInterpreter(v)
  BY Zenon DEF Turned
<1>2. t \in ViewerType /\ Whole(t) /\ Document(t)
  BY <1>1, DisableKeeps
<1>3. Refused(v, p) <=> IsInterpreterReady(t) /\ BadWindow(t)
  BY DEF Refused
<1>4. s = SendPS(IF IsInterpreterReady(t) THEN r ELSE SendPS(SendPS(e, Prolog), Setups), p)
  BY Zenon DEF Shown
<1>5. IsInterpreterReady(t) => t = v
  <2>1. DisableInterpreter(v).gs = "none" /\ Told(DisableInterpreter(v))
    BY DisableKeeps DEF Idle, Whole
  <2>2. ~DisableInterpreter(v).pid
    BY <2>1 DEF Told
  <2> QED BY <1>1, <2>2 DEF IsInterpreterReady
<1> HIDE DEF t, s
<1>6. CASE IsInterpreterReady(t)
  <2>1. s = SendPS(r, p) /\ t = v
    BY <1>4, <1>5, <1>6, Zenon
  <2>2. /\ r \in ViewerType /\ r.sent = v.sent /\ r.input = v.input
        /\ r.ps_input = v.ps_input /\ r.written = v.written /\ r.nread = v.nread
    BY <1>2, <2>1, Turns
  <2>3. Pipe(r) /\ Document(r)
    BY <1>2, <2>1, TurnPipe DEF Whole
  <2>4. Asked(v, q) /\ v.gs # "none" /\ v.input
    <3>1. v.pid /\ ~v.busy
      BY <1>6, <2>1 DEF IsInterpreterReady
    <3>2. v.gs # "none"
      BY <3>1 DEF Whole, Told
    <3> QED BY <3>1, <3>2 DEF Fitting
  <2>5. v.sent # <<>>
    BY <2>4 DEF Asked
  <2> HIDE DEF r
  <2>6. s \in ViewerType /\ Pipe(s) /\ s.gs = r.gs /\ s.input = r.input
    <3>1. r \in ViewerType /\ r.input /\ Pipe(r)
      BY <2>2, <2>3, <2>4, Zenon
    <3>2. s \in ViewerType /\ s.input /\ s.gs = r.gs
      BY <1>0, <2>1, <3>1, SendMore, Zenon
    <3>3. Pipe(s)
      BY <1>0, <2>1, <3>1, SendPipe, Zenon
    <3>4. r.input \in BOOLEAN /\ s.input \in BOOLEAN
      BY <3>1, <3>2, Fields, Zenon
    <3> QED BY <3>1, <3>2, <3>3, <3>4
  <2>7. Document(s)
    BY <2>1, <2>2, <2>3, <2>5, DocumentMore
  <2>8. ASSUME ~Refused(v, p)  PROVE Whole(s) /\ Fitting(s, doc) /\ Asked(s, p)
    <3>1. v.gs = "wait" /\ Whole(r) /\ r.gs = "run"
      BY <1>2, <1>3, <1>6, <2>1, <2>8, TurnKeeps DEF r
    <3>2. v.written = Due(v) /\ v.nread = Len(Due(v))
      BY <2>4, <3>1, AllRead
    <3>3. Due(r) = Due(v)
      BY <2>2, Zenon DEF Due
    <3>4. r.written = Due(r)
      BY <2>2, <3>2, <3>3
    <3>5. Quiet(r)
      <4>1. Len(Due(v)) \in Nat /\ r.nread = Len(Due(r))
        BY <2>2, <3>2, <3>3, Fields
      <4> QED BY <3>3, <4>1 DEF Quiet
    <3>6. Whole(s)
      BY <1>0, <2>1, <2>2, <3>1, <3>4, SendKeeps
    <3>7. Asked(s, p)
      BY <2>1, <2>2, <2>4, <3>1, <3>5, SendAsked
    <3> QED BY <2>2, <2>4, <2>6, <3>6, <3>7 DEF Fitting
  <2> QED BY <2>6, <2>7, <2>8 DEF s
<1>7. CASE ~IsInterpreterReady(t)
  <2>1. s = SendPS(SendPS(SendPS(e, Prolog), Setups), p)
    BY <1>4, <1>7, Zenon
  <2>2. e \in ViewerType /\ Whole(e) /\ Fresh(e) /\ e.input
    BY <1>2, EnableStarts
  <2> HIDE DEF e
  <2>3. s \in ViewerType /\ Whole(s) /\ Document(s) /\ Asked(s, p) /\ s.input = e.input
    BY <2>1, <2>2, Refreshes
  <2>4. Fitting(s, doc)
    BY <2>2, <2>3 DEF Fitting
  <2> QED BY <2>3, <2>4 DEF s, Whole
<1> QED BY <1>6, <1>7

LEMMA ShowsPlain ==
  ASSUME NEW v \in ViewerType, NEW p, NEW forked \in BOOLEAN,
         doc = "plain", Whole(v), Document(v), Fitting(v, doc)
  PROVE  /\ ShownPlain(v, forked) \in ViewerType
         /\ Pipe(ShownPlain(v, forked)) /\ Document(ShownPlain(v, forked))
         /\ ~Refused(v, p) =>
               Whole(ShownPlain(v, forked)) /\ Fitting(ShownPlain(v, forked), doc)
<1> DEFINE e == EnableInterpreter(v, forked)
           r == NextPage(v)
           s == ShownPlain(v, forked)
<1>1. s = IF ~v.pid THEN e ELSE IF IsInterpreterReady(v) THEN r ELSE v
  BY Zenon DEF ShownPlain
<1>2. Refused(v, p) <=> IsInterpreterReady(v) /\ BadWindow(v)
  BY DEF Refused
<1> HIDE DEF s
<1>3. CASE ~v.pid
  <2>1. s = e
    BY <1>1, <1>3, Zenon
  <2>2. e \in ViewerType /\ Whole(e) /\ Fresh(e) /\ ~e.input
    BY EnableStarts
  <2> HIDE DEF e
  <2>3. Document(e)
    <3>1. e.sent = <<>> /\ Len(<<>>) = 0
      BY <2>2 DEF Fresh
    <3> QED BY <3>1 DEF Document
  <2> QED BY <2>1, <2>2, <2>3 DEF s, Fitting, Whole
<1>4. CASE v.pid /\ IsInterpreterReady(v)
  <2>1. s = r
    BY <1>1, <1>4, Zenon
  <2>2. r \in ViewerType /\ r.input = v.input
    BY Turns
  <2>3. Pipe(r) /\ Document(r)
    BY TurnPipe DEF Whole
  <2>4. ASSUME ~Refused(v, p)  PROVE Whole(r) /\ Fitting(r, doc)
    <3>1. v.gs = "wait" /\ Whole(r)
      BY <1>2, <1>4, <2>4, TurnKeeps
    <3> QED BY <2>2, <3>1 DEF Fitting
  <2> QED BY <2>1, <2>2, <2>3, <2>4 DEF s
<1>5. CASE v.pid /\ ~IsInterpreterReady(v)
  <2>1. s = v
    BY <1>1, <1>5, Zenon
  <2> QED BY <2>1 DEF s, Whole
<1> QED BY <1>3, <1>4, <1>5

\* The interpreter of v is stopped, or goes on with what it was sent.
Kept(v, w) == /\ w.sent = v.sent
              /\ \/ w.gs = "none"
                 \/ w.gs = v.gs /\ w.nread = v.nread /\ w.input = v.input

LEMMA KeptKeeps ==
  ASSUME NEW v, NEW w, NEW p, Kept(v, w)
  PROVE  /\ Document(v) => Document(w)
         /\ Fitting(v, doc) => Fitting(w, doc)
         /\ Asked(v, p) => Asked(w, p)
<1>1. w.sent = v.sent /\ Due(w) = Due(v)
  BY Zenon DEF Kept, Due
<1>2. Document(v) => Document(w)
  BY <1>1, Zenon DEF Document
<1>3. CASE w.gs = "none"
  BY <1>2, <1>3 DEF Fitting, Asked
<1>4. CASE w.gs = v.gs /\ w.nread = v.nread /\ w.input = v.input
  <2>1. Fitting(v, doc) => Fitting(w, doc)
    BY <1>4, Zenon DEF Fitting
  <2>2. Asked(v, p) => Asked(w, p)
    BY <1>1, <1>4, Zenon DEF Asked
  <2> QED BY <1>2, <2>1, <2>2
<1> QED BY <1>3, <1>4 DEF Kept

\* What stays when Input has read or written: all but the queue and the bytes.
Beside(v) == <<v.input_id, v.input, v.sent, v.nread, v.pid, v.gs, v.busy, v.mwin, v.events>>

LEMMA BesideKeeps ==
  ASSUME NEW v, NEW w, Beside(w) = Beside(v)
  PROVE  /\ Kept(v, w) /\ Due(w) = Due(v)
         /\ Told(v) => Told(w)
<1>1. /\ w.input = v.input /\ w.sent = v.sent /\ w.nread = v.nread /\ w.pid = v.pid
      /\ w.gs = v.gs /\ w.busy = v.busy /\ w.mwin = v.mwin /\ w.events = v.events
  BY DEF Beside
<1>2. News(w) = News(v)
  BY <1>1, Zenon DEF News
<1>3. Told(v) => Told(w)
  BY <1>1, <1>2, Zenon DEF Told
<1> QED BY <1>1, <1>3, Zenon DEF Kept, Due

LEMMA Pops ==
  ASSUME NEW v \in ViewerType, v.ps_input # <<>>, v.bytes_left = 0
  PROVE  /\ Popped(v) \in ViewerType /\ Beside(Popped(v)) = Beside(v)
         /\ Popped(v).ps_input = Tail(v.ps_input) /\ Popped(v).bytes_left = 0
         /\ Popped(v).buffer = v.buffer /\ Popped(v).written = v.written
<1> DEFINE q == Tail(v.ps_input)
           s == [v EXCEPT !.ps_input = q]
<1>1. Popped(v) = s
  BY Zenon DEF Popped
<1>2. q \in Seq(Items)
  BY Fields
<1> HIDE DEF q
<1>3. s \in ViewerType
  BY <1>2, TypeIs
<1>4. /\ Beside(s) = Beside(v) /\ s.ps_input = q /\ s.bytes_left = v.bytes_left
      /\ s.buffer = v.buffer /\ s.written = v.written
  BY DEF ViewerType, Beside
<1> QED BY <1>1, <1>3, <1>4 DEF q

\* The head of the queue after the file was repositioned.
LEMMA Seeks ==
  ASSUME NEW v \in ViewerType, v.ps_input # <<>>, v.ps_input[1].seek_needed, NEW h, h = v.ps_input[1]
  PROVE  /\ Sought(v) \in ViewerType /\ Beside(Sought(v)) = Beside(v)
         /\ Sought(v).ps_input \in Seq(Items)
         /\ Len(Sought(v).ps_input) = Len(v.ps_input)
         /\ \A k \in 2..Len(v.ps_input) : Sought(v).ps_input[k] = v.ps_input[k]
         /\ Sought(v).ps_input[1].part = h.part /\ ~Sought(v).ps_input[1].seek_needed
         /\ Sought(v).bytes_left = Length[h.part]
         /\ Length[h.part] > 0 => Sought(v).fp = [part |-> h.part, at |-> 0]
         /\ Sought(v).buffer = v.buffer /\ Sought(v).written = v.written
<1> DEFINE s == h.part
           i == [h EXCEPT !.seek_needed = FALSE]
           q == [v.ps_input EXCEPT ![1] = i]
           L == Length[s]
           f == IF L > 0 THEN [part |-> s, at |-> 0] ELSE v.fp
           w == [v EXCEPT !.ps_input = q, !.bytes_left = L, !.fp = f]
<1>1. v.ps_input \in Seq(Items) /\ Len(v.ps_input) \in Nat /\ 1 \in 1..Len(v.ps_input)
  BY Fields
<1>2. h \in Items /\ s \in Parts /\ L \in Nat /\ v.fp \in [part : Parts, at : Nat]
  <2>1. h \in Items
    BY <1>1
  <2>2. s \in Parts
    BY <2>1 DEF Items
  <2> HIDE DEF s
  <2> QED BY <2>1, <2>2, Fields, ContentsType
<1>3. i \in Items /\ i.part = s /\ i.seek_needed = FALSE
  BY <1>2 DEF Items
<1>4. /\ q \in Seq(Items) /\ Len(q) = Len(v.ps_input) /\ q[1] = i
      /\ \A k \in 2..Len(v.ps_input) : q[k] = v.ps_input[k]
  <2> HIDE DEF i
  <2> QED BY <1>1, <1>3
<1>5. f \in [part : Parts, at : Nat] /\ (L > 0 => f = [part |-> s, at |-> 0])
  BY <1>2
<1>6. Sought(v) = w
  BY Zenon DEF Sought
<1> HIDE DEF q, L, f
<1>7. w \in ViewerType
  BY <1>2, <1>4, <1>5, TypeIs
<1>8. /\ Beside(w) = Beside(v) /\ w.ps_input = q /\ w.bytes_left = L /\ w.fp = f
      /\ w.buffer = v.buffer /\ w.written = v.written
  BY DEF ViewerType, Beside
<1> HIDE DEF w, i
<1> QED BY <1>3, <1>4, <1>5, <1>6, <1>7, <1>8 DEF L

LEMMA Stays ==
  ASSUME NEW v
  PROVE  /\ v.ps_input = <<>> \/ v.bytes_left # 0 => Popped(v) = v
         /\ v.ps_input = <<>> \/ ~v.ps_input[1].seek_needed => Sought(v) = v
BY Zenon DEF Popped, Sought

\* An empty buffer, and the file where the next byte is.
Set(v) == /\ v.buffer = <<>>
          /\ v.ps_input # <<>> => ~v.ps_input[1].seek_needed

LEMMA SeekKeeps ==
  ASSUME NEW v \in ViewerType, Queue(v), Pipe(v), Told(v), v.input_id, v.buffer = <<>>,
         v.ps_input # <<>>, v.ps_input[1].seek_needed,
         v.written \o Contents(v.ps_input[1].part)
             = Upto(v.sent, Len(v.sent) - Len(v.ps_input) + 1)
  PROVE  /\ Sought(v) \in ViewerType /\ Beside(Sought(v)) = Beside(v)
         /\ Whole(Sought(v)) /\ Set(Sought(v))
<1> DEFINE h == v.ps_input[1]
           s == Sought(v)
           M == Len(v.ps_input)
<1>1. /\ s \in ViewerType /\ Beside(s) = Beside(v)
      /\ s.ps_input \in Seq(Items) /\ Len(s.ps_input) = M
      /\ \A k \in 2..M : s.ps_input[k] = v.ps_input[k]
      /\ s.ps_input[1].part = h.part /\ ~s.ps_input[1].seek_needed
      /\ s.bytes_left = Length[h.part]
      /\ Length[h.part] > 0 => s.fp = [part |-> h.part, at |-> 0]
      /\ s.buffer = v.buffer /\ s.written = v.written
  BY Seeks
<1>2. v.ps_input \in Seq(Items) /\ M \in Nat \ {0} /\ h \in Items /\ h.part \in Parts
  <2>1. v.ps_input \in Seq(Items)
    BY Fields
  <2>2. M \in Nat \ {0} /\ h \in Items
    BY <2>1
  <2> QED BY <2>1, <2>2 DEF Items
<1> HIDE DEF s, h
<1>3. s.input_id /\ s.input = v.input /\ s.sent = v.sent /\ s.nread = v.nread
      /\ s.input_id = v.input_id
  BY <1>1 DEF Beside
<1>4. s.ps_input # <<>>
  BY <1>1, <1>2
<1>5. Told(s) /\ Due(s) = Due(v)
  BY <1>1, BesideKeeps
<1>6. Pipe(s)
  BY <1>1, <1>3, <1>5, Zenon DEF Pipe
<1>7. Queue(s)
  <2>1. ASSUME NEW k \in 1..M  PROVE s.ps_input[k].part = v.sent[Len(v.sent) - M + k]
    <3>1. v.ps_input[k].part = v.sent[Len(v.sent) - M + k]
      BY Zenon DEF Queue
    <3>2. CASE k = 1
      BY <1>1, <3>1, <3>2 DEF h
    <3>3. CASE k # 1
      <4>1. k \in 2..M
        BY <1>2, <3>3
      <4> QED BY <1>1, <3>1, <4>1
    <3> QED BY <3>2, <3>3
  <2>2. \A k \in 2..M : s.ps_input[k].seek_needed
    BY <1>1, Zenon DEF Queue
  <2>3. M <= Len(v.sent) /\ v.input
    BY DEF Queue
  <2> HIDE DEF M
  <2> QED BY <1>1, <1>3, <1>4, <2>1, <2>2, <2>3, Zenon DEF Queue
<1>8. /\ Length[h.part] \in Nat /\ Contents(h.part) \in Seq(Bytes)
      /\ Len(Contents(h.part)) = Length[h.part]
  BY <1>2, ContentsType
<1>9. Begun(s)
  <2>1. Length[h.part] - Length[h.part] = 0 /\ Length[h.part] <= Length[h.part]
    BY <1>8
  <2> QED BY <1>1, <2>1 DEF Begun
<1>10. Unread(s) = Contents(h.part)
  <2>1. Length[h.part] - Length[h.part] + 1 = 1
    BY <1>8
  <2>2. SubSeq(Contents(h.part), 1, Length[h.part]) = Contents(h.part)
    BY <1>8, SubSeqFull
  <2> QED BY <1>1, <2>1, <2>2 DEF Unread
<1>11. Fed(s)
  <2>1. v.written \in Seq(Bytes)
    BY Fields
  <2>2. (v.written \o <<>>) = v.written
    BY <2>1
  <2>3. s.written \o s.buffer = v.written /\ s.sent = v.sent
    BY <1>1, <1>3, <2>2, Zenon
  <2>4. v.written \o Unread(s) = Upto(v.sent, Len(v.sent) - M + 1)
    BY <1>10, Zenon DEF h
  <2> QED BY <1>1, <1>4, <2>3, <2>4, Zenon DEF Fed
<1>12. Set(s)
  BY <1>1 DEF Set
<1> QED BY <1>1, <1>5, <1>6, <1>7, <1>9, <1>11, <1>12 DEF Whole, s

\* The section that was read to its end is dropped, and the next one sought.
LEMMA NextSought ==
  ASSUME NEW v \in ViewerType, Whole(v), v.input_id, v.buffer = <<>>
  PROVE  /\ Sought(Popped(v)) \in ViewerType /\ Beside(Sought(Popped(v))) = Beside(v)
         /\ Whole(Sought(Popped(v))) /\ Set(Sought(Popped(v)))
<1> DEFINE M == Len(v.ps_input)
           N == Len(v.sent)
           x == Popped(v)
<1>1. /\ v.ps_input \in Seq(Items) /\ v.written \in Seq(Bytes) /\ v.bytes_left \in Nat
      /\ v.sent \in Seq(Parts) /\ N \in Nat /\ M \in Nat /\ Due(v) \in Seq(Bytes)
  BY Fields, DueType
<1>2. Queue(v) /\ Begun(v) /\ Fed(v) /\ Pipe(v) /\ Told(v)
  BY DEF Whole
<1>3. v.written \o <<>> = v.written
  BY <1>1
<1>4. CASE v.ps_input = <<>>
  BY <1>4, Stays DEF Set
<1>5. CASE v.ps_input # <<>> /\ v.bytes_left # 0
  <2>1. x = v
    BY <1>5, Stays
  <2>2. CASE ~v.ps_input[1].seek_needed
    BY <1>5, <2>1, <2>2, Stays DEF Set
  <2>3. CASE v.ps_input[1].seek_needed
    <3>1. v.ps_input[1].part \in Parts
      <4>1. v.ps_input[1] \in Items
        BY <1>1, <1>5
      <4> QED BY <4>1 DEF Items
    <3>2. v.bytes_left = Length[v.ps_input[1].part]
      BY <1>2, <1>5, <2>3 DEF Begun
    <3>3. Unread(v) = Contents(v.ps_input[1].part)
      <4>1. v.bytes_left - v.bytes_left + 1 = 1
        BY <1>1
      <4>2. SubSeq(Contents(v.ps_input[1].part), 1, Length[v.ps_input[1].part])
              = Contents(v.ps_input[1].part)
        BY <3>1, ContentsType, SubSeqFull
      <4> QED BY <3>2, <4>1, <4>2 DEF Unread
    <3>4. v.written \o Contents(v.ps_input[1].part) = Upto(v.sent, N - M + 1)
      BY <1>2, <1>3, <1>5, <3>3 DEF Fed
    <3> QED BY <1>2, <1>5, <2>1, <2>3, <3>4, SeekKeeps
  <2> QED BY <2>2, <2>3
<1>6. CASE v.ps_input # <<>> /\ v.bytes_left = 0
  <2>1. /\ x \in ViewerType /\ Beside(x) = Beside(v) /\ x.ps_input = Tail(v.ps_input)
        /\ x.bytes_left = 0 /\ x.buffer = <<>> /\ x.written = v.written
    BY <1>6, Pops
  <2>2. /\ x.input_id = v.input_id /\ x.input = v.input /\ x.sent = v.sent
        /\ x.nread = v.nread
    BY <2>1 DEF Beside
  <2>3. Told(x) /\ Due(x) = Due(v)
    BY <1>2, <2>1, BesideKeeps
  <2>4. M \in 1..N
    <3>1. M # 0
      BY <1>1, <1>6
    <3>2. M <= N
      BY <1>2 DEF Queue
    <3> HIDE DEF M, N
    <3> QED BY <1>1, <3>1, <3>2
  <2>5. /\ Len(x.ps_input) = M - 1 /\ x.ps_input \in Seq(Items)
        /\ \A k \in 1..(M - 1) : x.ps_input[k] = v.ps_input[k + 1]
    BY <1>1, <1>6, <2>1
  <2>6. v.ps_input[1].part \in Parts
    <3>1. v.ps_input[1] \in Items
      BY <1>1, <1>6
    <3> QED BY <3>1 DEF Items
  <2>7. Unread(v) = <<>>
    <3> DEFINE c == Contents(v.ps_input[1].part)
               L == Length[v.ps_input[1].part]
    <3>1. L \in Nat /\ c \in Seq(Bytes) /\ L - 0 + 1 > L
      BY <2>6, ContentsType
    <3> HIDE DEF c, L
    <3>2. SubSeq(c, L - 0 + 1, L) = <<>>
      BY <3>1, SubSeqEmpty
    <3> QED BY <1>6, <3>2 DEF Unread, c, L
  <2>8. v.written = Upto(v.sent, N - M + 1)
    <3>1. (v.written \o <<>>) \o <<>> = Upto(v.sent, N - M + 1)
      BY <1>2, <1>6, <2>7 DEF Fed
    <3> QED BY <1>3, <3>1
  <2> HIDE DEF x, M, N
  <2>9. Pipe(x)
    BY <1>2, <2>1, <2>2, <2>3, Zenon DEF Pipe
  <2>10. Queue(x)
    <3>1. ASSUME NEW k \in 1..(M - 1)
          PROVE  /\ x.ps_input[k].part = v.sent[N - (M - 1) + k]
                 /\ x.ps_input[k].seek_needed
      <4>1. k + 1 \in 1..M /\ k + 1 \in 2..M /\ N - (M - 1) + k = N - M + (k + 1)
        BY <1>1, <2>4
      <4>2. v.ps_input[k + 1].part = v.sent[N - M + (k + 1)] /\ v.ps_input[k + 1].seek_needed
        BY <1>2, <4>1, Zenon DEF Queue, M, N
      <4> QED BY <2>5, <4>1, <4>2
    <3>2. M - 1 <= N /\ \A k \in 2..(M - 1) : k \in 1..(M - 1)
      BY <1>1, <2>4
    <3>3. v.input
      BY <1>2 DEF Queue
    <3>4. \A k \in 2..(M - 1) : x.ps_input[k].seek_needed
      BY <3>1, <3>2
    <3>5. \A k \in 1..(M - 1) : x.ps_input[k].part = v.sent[N - (M - 1) + k]
      BY <3>1
    <3> QED BY <2>1, <2>2, <2>5, <3>2, <3>3, <3>4, <3>5, ZenonT(40) DEF Queue, N
  <2>11. CASE x.ps_input = <<>>
    <3>1. Sought(x) = x
      BY <2>11, Stays
    <3>2. Begun(x) /\ Set(x)
      BY <2>1, <2>11 DEF Begun, Set
    <3>3. Fed(x)
      <4>1. N - M + 1 = N
        <5>1. M - 1 = 0
          BY <2>5, <2>11
        <5> QED BY <1>1, <5>1
      <4>2. v.written = Due(v)
        BY <2>8, <4>1 DEF Due, N
      <4> QED BY <1>3, <2>1, <2>3, <2>11, <4>2 DEF Fed
    <3> QED BY <2>1, <2>3, <2>9, <2>10, <3>1, <3>2, <3>3 DEF Whole, x
  <2>12. CASE x.ps_input # <<>>
    <3>1. M > 1 /\ 1 \in 1..(M - 1)
      <4>1. M - 1 # 0
        BY <2>5, <2>12
      <4> QED BY <1>1, <2>4, <4>1
    <3>2. x.ps_input[1] = v.ps_input[2]
      <4>1. 1 + 1 = 2
        OBVIOUS
      <4> QED BY <2>5, <3>1, <4>1
    <3>3. 2 \in 1..M /\ 2 \in 2..M /\ N - M + 2 \in 1..N /\ N - M + 1 \in Nat
          /\ N - M + 1 < N /\ (N - M + 1) + 1 = N - M + 2 /\ N - (M - 1) + 1 = N - M + 2
      BY <1>1, <2>4, <3>1
    <3>4. v.ps_input[2].part = v.sent[N - M + 2] /\ v.ps_input[2].seek_needed
      BY <1>2, <3>3, Zenon DEF Queue, M, N
    <3>5. Upto(v.sent, (N - M + 1) + 1)
            = Upto(v.sent, N - M + 1) \o Contents(v.sent[(N - M + 1) + 1])
      BY <1>1, <3>3, UptoStep DEF N
    <3>6. x.written \o Contents(x.ps_input[1].part)
            = Upto(x.sent, Len(x.sent) - Len(x.ps_input) + 1)
      BY <2>1, <2>2, <2>5, <2>8, <3>2, <3>3, <3>4, <3>5 DEF N
    <3>7. Sought(x) \in ViewerType /\ Beside(Sought(x)) = Beside(x)
          /\ Whole(Sought(x)) /\ Set(Sought(x))
      BY <2>1, <2>2, <2>3, <2>9, <2>10, <2>12, <3>2, <3>4, <3>6, SeekKeeps
    <3> QED BY <2>1, <3>7 DEF x
  <2> QED BY <2>11, <2>12
<1> QED BY <1>4, <1>5, <1>6

LEMMA ReadIs ==
  ASSUME NEW v \in ViewerType, NEW n \in 0..v.bytes_left
  PROVE  /\ Read(v, n) \in ViewerType /\ Beside(Read(v, n)) = Beside(v)
         /\ Read(v, n).buffer = [k \in 1..n |-> <<v.fp.part, v.fp.at + k>>]
         /\ Read(v, n).bytes_left = v.bytes_left - n
         /\ Read(v, n).fp = [part |-> v.fp.part, at |-> v.fp.at + n]
         /\ Read(v, n).ps_input = v.ps_input /\ Read(v, n).written = v.written
<1> DEFINE b == [k \in 1..n |-> <<v.fp.part, v.fp.at + k>>]
           l == v.bytes_left - n
           f == [v.fp EXCEPT !.at = @ + n]
           w == [v EXCEPT !.buffer = b, !.bytes_left = l, !.fp = f]
<1>1. v.fp \in [part : Parts, at : Nat] /\ v.bytes_left \in Nat /\ n \in Nat
  BY Fields
<1>2. b \in Seq(Bytes)
  <2>1. \A k \in 1..n : <<v.fp.part, v.fp.at + k>> \in Bytes
    BY <1>1 DEF Bytes
  <2> QED BY <1>1, <2>1
<1>3. l \in Nat /\ f \in [part : Parts, at : Nat] /\ f = [part |-> v.fp.part, at |-> v.fp.at + n]
  BY <1>1
<1>4. Read(v, n) = w
  BY Zenon DEF Read
<1> HIDE DEF b, l, f
<1>5. w \in ViewerType
  BY <1>2, <1>3, TypeIs
<1>6. /\ Beside(w) = Beside(v) /\ w.buffer = b /\ w.bytes_left = l /\ w.fp = f
      /\ w.ps_input = v.ps_input /\ w.written = v.written
  BY DEF ViewerType, Beside
<1> HIDE DEF w
<1> QED BY <1>3, <1>4, <1>5, <1>6 DEF b, l

LEMMA ReadKeeps ==
  ASSUME NEW v \in ViewerType, Whole(v), v.input_id, Set(v), NEW n \in 0..v.bytes_left
  PROVE  /\ Read(v, n) \in ViewerType /\ Beside(Read(v, n)) = Beside(v)
         /\ Whole(Read(v, n))
<1> DEFINE s == Read(v, n)
           p == v.ps_input[1].part
           L == Length[p]
           b == [k \in 1..n |-> <<v.fp.part, v.fp.at + k>>]
           at == L - v.bytes_left
<1>1. /\ s \in ViewerType /\ Beside(s) = Beside(v) /\ s.buffer = b
      /\ s.bytes_left = v.bytes_left - n
      /\ s.fp = [part |-> v.fp.part, at |-> v.fp.at + n]
      /\ s.ps_input = v.ps_input /\ s.written = v.written
  BY ReadIs
<1>2. /\ v.ps_input \in Seq(Items) /\ v.written \in Seq(Bytes) /\ v.bytes_left \in Nat
      /\ n \in Nat
  BY Fields
<1>3. Queue(v) /\ Begun(v) /\ Fed(v) /\ Pipe(v) /\ Told(v) /\ v.buffer = <<>>
  BY DEF Whole, Set
<1> HIDE DEF s
<1>4. s.input_id = v.input_id /\ s.input = v.input /\ s.sent = v.sent /\ s.nread = v.nread
  BY <1>1 DEF Beside
<1>5. Told(s) /\ Due(s) = Due(v)
  BY <1>1, <1>3, BesideKeeps
<1>6. Pipe(s)
  BY <1>1, <1>3, <1>4, <1>5, Zenon DEF Pipe
<1>7. Queue(s)
  <2>1. v.ps_input = <<>> => v.bytes_left = 0
    BY <1>3, Zenon DEF Queue
  <2>2. v.bytes_left = 0 => v.bytes_left - n = 0
    <3>1. ASSUME v.bytes_left = 0  PROVE n = 0
      BY <3>1
    <3>2. 0 - 0 = 0
      OBVIOUS
    <3> QED BY <3>1, <3>2
  <2>3. s.ps_input = <<>> => s.bytes_left = 0
    BY <1>1, <2>1, <2>2, Zenon
  <2>4. Queue(v) /\ s.ps_input = v.ps_input
    BY <1>1, <1>3
  <2> QED BY <1>4, <2>3, <2>4, Zenon DEF Queue
<1>8. CASE v.ps_input = <<>>
  <2>1. n = 0
    BY <1>2, <1>3, <1>8 DEF Queue
  <2>2. b = <<>>
    BY <2>1
  <2>3. Fed(s)
    BY <1>1, <1>3, <1>4, <1>5, <1>8, <2>2 DEF Fed
  <2>4. Begun(s)
    BY <1>1, <1>8 DEF Begun
  <2> QED BY <1>1, <1>5, <1>6, <1>7, <2>3, <2>4 DEF Whole, s
<1>9. CASE v.ps_input # <<>>
  <2>1. p \in Parts /\ L \in Nat
    <3>1. v.ps_input[1] \in Items
      BY <1>2, <1>9
    <3>2. p \in Parts
      BY <3>1 DEF Items
    <3> HIDE DEF p
    <3> QED BY <3>2, ContentsType
  <2>2. /\ v.bytes_left <= L /\ ~v.ps_input[1].seek_needed
        /\ v.bytes_left > 0 => v.fp = [part |-> p, at |-> at]
    BY <1>3, <1>9 DEF Begun, Set
  <2>3. v.bytes_left > 0 => v.fp.part = p /\ v.fp.at = at
    BY <2>2
  <2> HIDE DEF p, L, b
  <2>4. at \in 0..L /\ n \in 0..(L - at) /\ L - (v.bytes_left - n) + 1 = at + n + 1
    BY <1>2, <2>1, <2>2
  <2>5. b = [k \in 1..n |-> <<p, at + k>>]
    <3>1. CASE n = 0
      BY <3>1 DEF b
    <3>2. CASE n # 0
      <4>1. v.bytes_left > 0
        BY <1>2, <3>2
      <4> QED BY <2>3, <4>1 DEF b
    <3> QED BY <3>1, <3>2
  <2>6. Begun(s)
    <3>1. v.bytes_left - n <= L
      BY <1>2, <2>1, <2>2
    <3>2. ASSUME v.bytes_left - n > 0
          PROVE  s.fp = [part |-> p, at |-> L - (v.bytes_left - n)]
      <4>1. v.bytes_left > 0 /\ at + n = L - (v.bytes_left - n)
        BY <1>2, <2>1, <3>2, SMTT(40)
      <4> QED BY <1>1, <2>3, <4>1
    <3> QED BY <1>1, <2>2, <3>1, <3>2 DEF Begun, p, L
  <2>7. /\ b \in Seq(Bytes) /\ Unread(s) \in Seq(Bytes)
        /\ b \o Unread(s) = Unread(v)
    <3>1. Unread(s) = SubSeq(Contents(p), at + n + 1, L)
      BY <1>1, <2>4 DEF Unread, p, L
    <3>2. Unread(v) = SubSeq(Contents(p), at + 1, L)
      BY DEF Unread, p, L
    <3>3. /\ [k \in 1..n |-> <<p, at + k>>] \in Seq(Bytes)
          /\ SubSeq(Contents(p), at + n + 1, L) \in Seq(Bytes)
          /\ [k \in 1..n |-> <<p, at + k>>] \o SubSeq(Contents(p), at + n + 1, L)
                = SubSeq(Contents(p), at + 1, L)
      <4> HIDE DEF at
      <4> QED BY <2>1, <2>4, ReadPart DEF L
    <3> QED BY <2>5, <3>1, <3>2, <3>3, Zenon
  <2>8. Fed(s)
    <3>1. (v.written \o b) \o Unread(s) = v.written \o Unread(v)
      <4>1. (v.written \o b) \o Unread(s) = v.written \o (b \o Unread(s))
        <5> DEFINE w == v.written
                   u == Unread(s)
        <5>1. w \in Seq(Bytes) /\ b \in Seq(Bytes) /\ u \in Seq(Bytes)
          BY <1>2, <2>7
        <5> HIDE DEF w, u
        <5>2. (w \o b) \o u = w \o (b \o u)
          BY <5>1, ConcatAssociative, SMTT(40)
        <5> QED BY <5>2 DEF w, u
      <4> QED BY <2>7, <4>1
    <3>2. v.written \o <<>> = v.written
      BY <1>2
    <3>3. v.written \o Unread(v) = Upto(v.sent, Len(v.sent) - Len(v.ps_input) + 1)
      BY <1>3, <1>9, <3>2 DEF Fed
    <3> QED BY <1>1, <1>4, <1>9, <3>1, <3>3, Zenon DEF Fed
  <2> QED BY <1>1, <1>5, <1>6, <1>7, <2>6, <2>8 DEF Whole, s
<1> QED BY <1>8, <1>9

LEMMA PrefixOf ==
  ASSUME NEW S, NEW a \in Seq(S), NEW b \in Seq(S)
  PROVE  IsPrefix(a, a \o b)
<1>1. Len(a) <= Len(a) /\ \A k \in 1..Len(a) : a[k] = a[k]
  OBVIOUS
<1>2. IsPrefix(a, a)
  BY <1>1, PrefixIs
<1> QED BY <1>2, PrefixConcat

LEMMA UnreadType ==
  ASSUME NEW v \in ViewerType, Begun(v), v.ps_input # <<>>
  PROVE  Unread(v) \in Seq(Bytes)
<1> DEFINE p == v.ps_input[1].part
           c == Contents(p)
           L == Length[p]
<1>1. v.ps_input \in Seq(Items) /\ v.bytes_left \in Nat
  BY Fields
<1>2. v.ps_input[1] \in Items
  BY <1>1
<1>3. p \in Parts
  BY <1>2 DEF Items
<1>4. v.bytes_left <= L
  BY DEF Begun
<1> HIDE DEF p
<1>5. c \in Seq(Bytes) /\ Len(c) = L /\ L \in Nat
  BY <1>3, ContentsType
<1> HIDE DEF c, L
<1>6. SubSeq(c, L - v.bytes_left + 1, L) \in Seq(Bytes)
  <2>1. L - v.bytes_left + 1 \in 1..(L + 1)
    BY <1>1, <1>4, <1>5
  <2> QED BY <1>5, <2>1
<1> QED BY <1>6 DEF Unread, p, c, L

LEMMA BegunType ==
  ASSUME NEW v \in ViewerType, Queue(v), v.ps_input # <<>>
  PROVE  Len(v.sent) - Len(v.ps_input) + 1 \in 0..Len(v.sent)
<1> DEFINE M == Len(v.ps_input)
           N == Len(v.sent)
<1>1. v.ps_input \in Seq(Items) /\ v.sent \in Seq(Parts)
  BY Fields
<1>2. M \in Nat /\ M # 0 /\ N \in Nat
  BY <1>1
<1>3. M <= N
  BY DEF Queue
<1> HIDE DEF M, N
<1>4. N - M + 1 \in 0..N
  BY <1>2, <1>3
<1> QED BY <1>4 DEF M, N

LEMMA TakeIs ==
  ASSUME NEW v \in ViewerType, NEW m \in 0..Len(v.buffer)
  PROVE  /\ Take(v, m) \in ViewerType /\ Beside(Take(v, m)) = Beside(v)
         /\ Take(v, m).buffer = SubSeq(v.buffer, m + 1, Len(v.buffer))
         /\ Take(v, m).written = v.written \o SubSeq(v.buffer, 1, m)
         /\ Take(v, m).bytes_left = v.bytes_left /\ Take(v, m).fp = v.fp
         /\ Take(v, m).ps_input = v.ps_input
<1> DEFINE b == SubSeq(v.buffer, m + 1, Len(v.buffer))
           c == v.written \o SubSeq(v.buffer, 1, m)
           w == [v EXCEPT !.written = c, !.buffer = b]
<1>1. b \in Seq(Bytes) /\ c \in Seq(Bytes)
  <2>1. v.buffer \in Seq(Bytes) /\ v.written \in Seq(Bytes)
    BY Fields
  <2> QED BY <2>1, TakePart
<1>2. Take(v, m) = w
  BY Zenon DEF Take
<1> HIDE DEF b, c
<1>3. w \in ViewerType
  BY <1>1, TypeIs
<1>4. /\ Beside(w) = Beside(v) /\ w.buffer = b /\ w.written = c
      /\ w.bytes_left = v.bytes_left /\ w.fp = v.fp /\ w.ps_input = v.ps_input
  BY DEF ViewerType, Beside
<1> QED BY <1>2, <1>3, <1>4 DEF b, c

LEMMA TakeKeeps ==
  ASSUME NEW v \in ViewerType, Whole(v), v.input_id \/ v.buffer = <<>>,
         NEW m \in 0..Len(v.buffer)
  PROVE  /\ Take(v, m) \in ViewerType /\ Beside(Take(v, m)) = Beside(v)
         /\ Whole(Take(v, m))
<1> DEFINE s == Take(v, m)
           x == SubSeq(v.buffer, 1, m)
           y == SubSeq(v.buffer, m + 1, Len(v.buffer))
           N == Len(v.sent)
           B == Len(v.sent) - Len(v.ps_input) + 1
<1>1. /\ s \in ViewerType /\ Beside(s) = Beside(v) /\ s.buffer = y
      /\ s.written = v.written \o x /\ s.bytes_left = v.bytes_left /\ s.fp = v.fp
      /\ s.ps_input = v.ps_input
  BY TakeIs
<1>2. /\ v.buffer \in Seq(Bytes) /\ v.written \in Seq(Bytes) /\ Due(v) \in Seq(Bytes)
      /\ v.sent \in Seq(Parts) /\ N \in Nat /\ v.nread \in Nat
  BY Fields, DueType
<1>3. /\ v.written \o x \in Seq(Bytes) /\ y \in Seq(Bytes)
      /\ Len(v.written \o x) = Len(v.written) + m
      /\ (v.written \o x) \o y = v.written \o v.buffer
  BY <1>2, TakePart
<1>4. Queue(v) /\ Begun(v) /\ Fed(v) /\ Pipe(v) /\ Told(v)
  BY DEF Whole
<1> HIDE DEF s, x, y
<1>5. s.input_id = v.input_id /\ s.input = v.input /\ s.sent = v.sent /\ s.nread = v.nread
  BY <1>1 DEF Beside
<1>6. Told(s) /\ Due(s) = Due(v) /\ Unread(s) = Unread(v)
  <2>1. Unread(s) = Unread(v)
    BY <1>1, Zenon DEF Unread
  <2> QED BY <1>1, <1>4, <2>1, BesideKeeps
<1>7. Queue(s) /\ Begun(s)
  <2>1. Queue(s)
    BY <1>1, <1>4, <1>5, Zenon DEF Queue
  <2>2. Begun(s)
    BY <1>1, <1>4, Zenon DEF Begun
  <2> QED BY <2>1, <2>2
<1>8. Fed(s)
  BY <1>1, <1>3, <1>4, <1>5, <1>6, Zenon DEF Fed
<1>9. IsPrefix(v.written \o x, Due(v))
  <2>1. CASE v.buffer = <<>>
    <3>1. x = <<>> /\ v.written \o <<>> = v.written
      BY <1>2, <2>1 DEF x
    <3> QED BY <1>4, <3>1 DEF Pipe
  <2>2. CASE v.input_id /\ v.ps_input = <<>>
    <3>1. (v.written \o x) \o y = Due(v)
      BY <1>3, <1>4, <2>2 DEF Fed
    <3>2. IsPrefix(v.written \o x, (v.written \o x) \o y)
      BY <1>3, PrefixOf
    <3> QED BY <3>1, <3>2
  <2>3. CASE v.input_id /\ v.ps_input # <<>>
    <3>1. Unread(v) \in Seq(Bytes)
      BY <1>4, <2>3, UnreadType
    <3>2. B \in 0..Len(v.sent)
      BY <1>4, <2>3, BegunType
    <3>3. ((v.written \o x) \o y) \o Unread(v) = Upto(v.sent, B)
      BY <1>3, <1>4, <2>3 DEF Fed
    <3> DEFINE r == v.written \o x
    <3>4. (r \o y) \o Unread(v) = r \o (y \o Unread(v)) /\ y \o Unread(v) \in Seq(Bytes)
      <4> HIDE DEF r
      <4>1. r \in Seq(Bytes)
        BY <1>3 DEF r
      <4> QED BY <1>3, <3>1, <4>1, ConcatAssociative, ConcatProperties, SMTT(40)
    <3>5. IsPrefix(r, r \o (y \o Unread(v)))
      <4> HIDE DEF r
      <4>1. r \in Seq(Bytes)
        BY <1>3 DEF r
      <4> QED BY <3>4, <4>1, PrefixOf
    <3>6. IsPrefix(r, Upto(v.sent, B))
      BY <3>3, <3>4, <3>5
    <3> HIDE DEF r, B
    <3>7. r \in Seq(Bytes)
      BY <1>3 DEF r
    <3>8. IsPrefix(r, Upto(v.sent, Len(v.sent)))
      BY <1>2, <3>2, <3>6, <3>7, UptoPrefix
    <3> QED BY <3>8 DEF r, Due
  <2> QED BY <2>1, <2>2, <2>3
<1>10. Pipe(s)
  <2>1. v.nread <= Len(v.written)
    BY <1>4 DEF Pipe
  <2>2. m \in Nat /\ Len(v.written) \in Nat
    BY <1>2
  <2>3. v.nread <= Len(v.written) + m
    BY <1>2, <2>1, <2>2
  <2> QED BY <1>1, <1>3, <1>5, <1>6, <1>9, <2>3, Zenon DEF Pipe
<1> QED BY <1>1, <1>6, <1>7, <1>8, <1>10 DEF Whole, s

LEMMA StopKept ==
  ASSUME NEW v \in ViewerType, Whole(v)
  PROVE  /\ StopInterpreter(v) \in ViewerType /\ Whole(StopInterpreter(v))
         /\ Kept(v, StopInterpreter(v)) /\ StopInterpreter(v).buffer = v.buffer
<1>1. StopInterpreter(v) \in ViewerType /\ Whole(StopInterpreter(v))
      /\ Idle(StopInterpreter(v)) /\ StopInterpreter(v).sent = v.sent
  BY StopKeeps DEF Whole
<1>2. StopInterpreter(v).buffer = v.buffer
  BY Stops
<1> QED BY <1>1, <1>2 DEF Kept, Idle

\* One fread, or none while the buffer is full.
LEMMA Fills ==
  ASSUME NEW v \in ViewerType, Whole(v), v.input_id, NEW n \in Reads(v)
  PROVE  /\ Filled(v, n) \in ViewerType /\ Whole(Filled(v, n)) /\ Kept(v, Filled(v, n))
         /\ Filled(v, n).input_id \/ Filled(v, n).buffer = <<>>
<1> DEFINE s == Sought(Popped(v))
           f == Filled(v, n)
           r == Read(s, n)
           t == StopInterpreter(s)
<1>1. CASE v.buffer # <<>>
  <2>1. f = v
    BY <1>1, Zenon DEF Filled
  <2>2. Kept(v, v)
    BY DEF Kept
  <2> QED BY <2>1, <2>2
<1>2. CASE v.buffer = <<>>
  <2>1. f = IF s.bytes_left > 0 /\ n = 0 THEN t ELSE r
    BY <1>2, Zenon DEF Filled, InterpreterFailed
  <2>2. s \in ViewerType /\ Beside(s) = Beside(v) /\ Whole(s) /\ Set(s)
    BY <1>2, NextSought
  <2>3. n = 0 \/ n = Least(s.bytes_left, BufSize)
    BY <1>2 DEF Reads
  <2> HIDE DEF s, f
  <2>4. s.input_id /\ Kept(v, s) /\ s.buffer = <<>> /\ s.bytes_left \in Nat
    <3>1. s.input_id = v.input_id
      BY <2>2 DEF Beside
    <3> QED BY <2>2, <3>1, BesideKeeps, Fields DEF Set
  <2>5. CASE s.bytes_left > 0 /\ n = 0
    <3>1. f = t
      BY <2>1, <2>5, Zenon
    <3>2. t \in ViewerType /\ Whole(t) /\ Kept(s, t) /\ t.buffer = s.buffer
      BY <2>2, StopKept
    <3>3. t.gs = "none"
      BY <2>2, Stops
    <3> HIDE DEF t
    <3>4. Kept(v, t)
      BY <2>4, <3>2, <3>3 DEF Kept
    <3> QED BY <2>4, <3>1, <3>2, <3>4 DEF f
  <2>6. CASE ~(s.bytes_left > 0 /\ n = 0)
    <3>1. f = r
      BY <2>1, <2>6, Zenon
    <3>2. n \in 0..s.bytes_left
      BY <2>3, <2>4, SizeAssumption DEF Least
    <3>3. r \in ViewerType /\ Beside(r) = Beside(s) /\ Whole(r)
      BY <2>2, <2>4, <3>2, ReadKeeps
    <3> HIDE DEF r
    <3>4. Kept(v, r)
      <4>1. Beside(r) = Beside(v)
        BY <2>2, <3>3
      <4> QED BY <4>1, BesideKeeps
    <3>5. r.input_id
      BY <2>4, <3>3 DEF Beside
    <3> QED BY <3>1, <3>3, <3>4, <3>5 DEF f
  <2> QED BY <2>5, <2>6
<1> QED BY <1>1, <1>2

\* One write.
LEMMA WriteKeeps ==
  ASSUME NEW v \in ViewerType, Whole(v), v.input_id \/ v.buffer = <<>>, NEW m \in Writes(v)
  PROVE  Wrote(v, m) \in ViewerType /\ Whole(Wrote(v, m)) /\ Kept(v, Wrote(v, m))
<1> DEFINE w == Wrote(v, m)
           l == Len(v.buffer)
           k == Least(l, Room(v))
<1>1. w = IF Broken(v) THEN StopInterpreter(v) ELSE Take(v, m)
  BY Zenon DEF Wrote, InterpreterFailed
<1>2. m \in 0..l
  <2>1. m \in IF k = 0 \/ Broken(v) THEN {0} ELSE 1..k
    BY Zenon DEF Writes
  <2>2. v.buffer \in Seq(Bytes) /\ v.written \in Seq(Bytes) /\ v.nread \in Nat
    BY Fields
  <2>3. l \in Nat /\ Len(v.written) \in Nat /\ PipeSize \in Nat
    BY <2>2, SizeAssumption
  <2>4. Room(v) \in Int
    BY <2>2, <2>3 DEF Room
  <2> HIDE DEF l
  <2>5. k \in Int /\ k <= l
    BY <2>3, <2>4 DEF Least
  <2> HIDE DEF k
  <2> QED BY <2>1, <2>3, <2>5
<1> HIDE DEF w, k
<1>3. CASE Broken(v)
  <2>1. w = StopInterpreter(v)
    BY <1>1, <1>3, Zenon
  <2> QED BY <2>1, StopKept DEF w
<1>4. CASE ~Broken(v)
  <2>1. w = Take(v, m)
    BY <1>1, <1>4, Zenon
  <2>2. Take(v, m) \in ViewerType /\ Beside(Take(v, m)) = Beside(v) /\ Whole(Take(v, m))
    BY <1>2, TakeKeeps
  <2> QED BY <2>1, <2>2, BesideKeeps DEF w
<1> QED BY <1>3, <1>4

LEMMA Detaches ==
  ASSUME NEW v \in ViewerType, Whole(v)
  PROVE  Detached(v) \in ViewerType /\ Whole(Detached(v)) /\ Kept(v, Detached(v))
<1> DEFINE w == [v EXCEPT !.input_id = FALSE]
<1>1. w \in ViewerType
  BY TypeIs
<1>2. /\ w.input_id = FALSE /\ w.ps_input = v.ps_input /\ w.written = v.written
      /\ w.input = v.input /\ w.sent = v.sent /\ w.nread = v.nread /\ w.pid = v.pid
      /\ w.gs = v.gs /\ w.busy = v.busy /\ w.mwin = v.mwin /\ w.events = v.events
  BY DEF ViewerType
<1>3. Detached(v) = IF v.ps_input = <<>> /\ v.buffer = <<>> THEN w ELSE v
  BY Zenon DEF Detached
<1>4. Kept(v, v) /\ Kept(v, w)
  BY <1>2, Zenon DEF Kept
<1> HIDE DEF w
<1>5. CASE v.ps_input = <<>> /\ v.buffer = <<>>
  <2>1. Detached(v) = w
    BY <1>3, <1>5, Zenon
  <2>2. Queue(w) /\ Begun(w) /\ Fed(w)
    BY <1>1, <1>2, <1>5, AtRest
  <2>3. Pipe(w)
    BY <1>2, Zenon DEF Whole, Pipe, Due
  <2>4. Told(w)
    <3>1. News(w) = News(v)
      BY <1>2, Zenon DEF News
    <3> QED BY <1>2, <3>1, Zenon DEF Whole, Told
  <2> QED BY <1>1, <1>4, <2>1, <2>2, <2>3, <2>4 DEF Whole
<1>6. CASE ~(v.ps_input = <<>> /\ v.buffer = <<>>)
  <2>1. Detached(v) = v
    BY <1>3, <1>6, Zenon
  <2> QED BY <1>4, <2>1
<1> QED BY <1>5, <1>6

LEMMA KeptTwice ==
  ASSUME NEW v, NEW f, NEW w, Kept(v, f), Kept(f, w)
  PROVE  Kept(v, w)
<1>1. w.sent = v.sent
  BY DEF Kept
<1>2. CASE w.gs = "none"
  BY <1>1, <1>2 DEF Kept
<1>3. CASE w.gs = f.gs /\ w.nread = f.nread /\ w.input = f.input /\ f.gs = "none"
  BY <1>1, <1>3 DEF Kept
<1>4. CASE /\ w.gs = f.gs /\ w.nread = f.nread /\ w.input = f.input
           /\ f.gs = v.gs /\ f.nread = v.nread /\ f.input = v.input
  BY <1>1, <1>4 DEF Kept
<1> QED BY <1>2, <1>3, <1>4 DEF Kept
-----------------------------------------------------------------------------
(* Ghostscript and its messages. *)

\* What only Ghostscript and the window know.
Afar(v) == <<v.ps_input, v.input_id, v.input, v.bytes_left, v.sent, v.buffer, v.written, v.fp>>

LEMMA AfarKeeps ==
  ASSUME NEW v, NEW w, Afar(w) = Afar(v)
  PROVE  /\ w.sent = v.sent /\ w.input = v.input /\ w.written = v.written
         /\ Due(w) = Due(v)
         /\ Queue(v) => Queue(w)
         /\ Begun(v) => Begun(w)
         /\ Fed(v) => Fed(w)
         /\ w.nread = v.nread /\ Pipe(v) => Pipe(w)
         /\ Document(v) => Document(w)
<1>1. /\ v.ps_input = w.ps_input /\ v.input_id = w.input_id /\ v.input = w.input
      /\ v.bytes_left = w.bytes_left /\ v.sent = w.sent /\ v.buffer = w.buffer
      /\ v.written = w.written /\ v.fp = w.fp
  BY DEF Afar
<1>2. Due(v) = Due(w) /\ Unread(v) = Unread(w)
  BY <1>1, Zenon DEF Due, Unread
<1>3. Queue(v) => Queue(w)
  BY <1>1, Zenon DEF Queue
<1>4. (Begun(v) => Begun(w)) /\ (Fed(v) => Fed(w))
  BY <1>1, <1>2, Zenon DEF Begun, Fed
<1>5. w.nread = v.nread /\ Pipe(v) => Pipe(w)
  BY <1>1, <1>2, Zenon DEF Pipe
<1>6. Document(v) => Document(w)
  BY <1>1, Zenon DEF Document
<1> QED BY <1>1, <1>2, <1>3, <1>4, <1>5, <1>6

LEMMA Reading ==
  ASSUME NEW v \in ViewerType
  PROVE  /\ [v EXCEPT !.nread = @ + 1] \in ViewerType
         /\ Afar([v EXCEPT !.nread = @ + 1]) = Afar(v)
         /\ [v EXCEPT !.nread = @ + 1].nread = v.nread + 1
         /\ [v EXCEPT !.nread = @ + 1].pid = v.pid /\ [v EXCEPT !.nread = @ + 1].gs = v.gs
         /\ [v EXCEPT !.nread = @ + 1].busy = v.busy /\ [v EXCEPT !.nread = @ + 1].mwin = v.mwin
         /\ [v EXCEPT !.nread = @ + 1].events = v.events
<1> DEFINE n == v.nread + 1
           w == [v EXCEPT !.nread = n]
<1>1. n \in Nat
  BY Fields
<1> HIDE DEF n
<1>2. w \in ViewerType
  BY <1>1, TypeIs
<1>3. /\ Afar(w) = Afar(v) /\ w.nread = n /\ w.pid = v.pid /\ w.gs = v.gs /\ w.busy = v.busy
      /\ w.mwin = v.mwin /\ w.events = v.events
  BY DEF ViewerType, Afar
<1> QED BY <1>2, <1>3 DEF n

\* w is v after a message to mgv, Ghostscript in the state x.
Said(v, type, x, w) ==
    /\ w \in ViewerType /\ Afar(w) = Afar(v) /\ w.gs = x
    /\ w.nread = v.nread /\ w.pid = v.pid /\ w.busy = v.busy /\ w.mwin = v.mwin
    /\ w.events = Append(v.events, [type |-> type, from |-> "cur"])

LEMMA Telling ==
  ASSUME NEW v \in ViewerType, NEW type \in {"PAGE", "DONE"}, NEW x \in {"wait", "dead"}
  PROVE  Said(v, type, x, [Tells(v, type) EXCEPT !.gs = x])
<1> DEFINE m == [type |-> type, from |-> "cur"]
           e == Append(v.events, m)
           s == [v EXCEPT !.events = e, !.gs = x]
<1>1. v.events \in Seq(Msgs) /\ m \in Msgs
  BY Fields DEF Msgs
<1>2. e \in Seq(Msgs)
  <2> HIDE DEF m
  <2> QED BY <1>1
<1>3. [Tells(v, type) EXCEPT !.gs = x] = s
  BY Zenon DEF Tells
<1> SUFFICES Said(v, type, x, s)
  BY <1>3, Zenon
<1> HIDE DEF e
<1>4. s \in ViewerType
  BY <1>2, TypeIs
<1>5. /\ Afar(s) = Afar(v) /\ s.gs = x /\ s.nread = v.nread /\ s.pid = v.pid
      /\ s.busy = v.busy /\ s.mwin = v.mwin /\ s.events = e
  BY DEF ViewerType, Afar
<1> HIDE DEF s
<1> QED BY <1>4, <1>5, Zenon DEF e, m, Said

\* One message more is not the news of more than one page.
LEMMA ToldOneMore ==
  ASSUME NEW v \in ViewerType, Told(v), v.gs = "run", NEW type \in {"PAGE", "DONE"},
         NEW x \in {"wait", "dead"},
         NEW w, w.gs = x, w.pid = v.pid, w.busy = v.busy, w.mwin = v.mwin,
         w.events = Append(v.events, [type |-> type, from |-> "cur"])
  PROVE  Told(w)
<1>1. v.pid /\ News(v) = {} /\ ~(~v.busy /\ v.mwin = "cur")
  BY DEF Told
<1>2. v.pid /\ ~v.busy => v.mwin # "none"
  BY DEF Told
<1> DEFINE m == [type |-> type, from |-> "cur"]
           l == Len(v.events)
<1>3. v.events \in Seq(Msgs) /\ m \in Msgs
  BY Fields DEF Msgs
<1> HIDE DEF m
<1>4. l \in Nat /\ Len(w.events) = l + 1 /\ \A n \in 1..l : w.events[n] = v.events[n]
  BY <1>3 DEF m
<1> HIDE DEF l
<1>5. ASSUME NEW n \in News(w)  PROVE n = l + 1
  <2>1. n \in 1..(l + 1) /\ w.events[n].type = "PAGE" /\ w.events[n].from = "cur"
    BY <1>4, <1>5 DEF News
  <2>2. CASE n \in 1..l
    <3>1. v.events[n].type = "PAGE" /\ v.events[n].from = "cur"
      BY <1>4, <2>1, <2>2
    <3> QED BY <1>1, <2>2, <3>1 DEF News, l
  <2> QED BY <1>4, <2>1, <2>2
<1>6. \A n \in News(w) : \A k \in News(w) : n = k
  BY <1>5
<1>7. w.pid /\ w.gs # "none" /\ w.gs # "run"
  BY <1>1
<1> QED BY <1>1, <1>2, <1>6, <1>7 DEF Told

LEMMA GsReadKeeps ==
  ASSUME NEW v \in ViewerType, Whole(v), v.gs = "run", v.nread < Len(v.written),
         NEW w \in ViewerType, Afar(w) = Afar(v), w.nread = v.nread + 1, w.gs \in {"run", "wait"},
         Told(w)
  PROVE  /\ Whole(w)
         /\ Document(v) => Document(w)
         /\ Fitting(v, doc) => Fitting(w, doc)
<1>1. Queue(v) /\ Begun(v) /\ Fed(v) /\ Pipe(v)
  BY DEF Whole
<1>2. /\ Queue(w) /\ Begun(w) /\ Fed(w) /\ (Document(v) => Document(w))
      /\ Due(w) = Due(v) /\ w.written = v.written /\ w.input = v.input
  BY <1>1, AfarKeeps
<1>3. v.nread + 1 <= Len(v.written)
  <2>1. v.nread \in Nat /\ v.written \in Seq(Bytes)
    BY Fields
  <2>2. Len(v.written) \in Nat
    BY <2>1
  <2> QED BY <2>1, <2>2
<1>4. Pipe(w)
  BY <1>1, <1>2, <1>3 DEF Pipe
<1>5. Fitting(v, doc) => Fitting(w, doc)
  BY <1>2 DEF Fitting
<1> QED BY <1>2, <1>4, <1>5 DEF Whole

\* The byte that Ghostscript reads is the next one that is due.
LEMMA NextByte ==
  ASSUME NEW v \in ViewerType, Whole(v), v.nread < Len(v.written)
  PROVE  /\ v.nread + 1 \in (v.nread + 1)..Len(Due(v)) /\ Len(Due(v)) \in Nat
         /\ v.written[v.nread + 1] = Due(v)[v.nread + 1]
<1>1. v.nread \in Nat /\ v.written \in Seq(Bytes) /\ Due(v) \in Seq(Bytes)
  BY Fields, DueType
<1>2. IsPrefix(v.written, Due(v))
  BY DEF Whole, Pipe
<1>3. Len(v.written) <= Len(Due(v)) /\ \A k \in 1..Len(v.written) : v.written[k] = Due(v)[k]
  BY <1>1, <1>2, PrefixIs
<1>4. Len(v.written) \in Nat /\ Len(Due(v)) \in Nat
  BY <1>1
<1>5. v.nread + 1 \in 1..Len(v.written) /\ v.nread + 1 <= Len(Due(v))
  BY <1>1, <1>3, <1>4
<1>6. v.nread + 1 \in (v.nread + 1)..Len(Due(v))
  BY <1>1, <1>4, <1>5
<1> QED BY <1>3, <1>4, <1>5, <1>6

LEMMA AskedByte ==
  ASSUME NEW v \in ViewerType, NEW p, Whole(v), Asked(v, p), v.gs = "run",
         v.nread < Len(v.written), ~PageEnd(v.written[v.nread + 1]),
         NEW w, Afar(w) = Afar(v), w.nread = v.nread + 1, w.gs = "run"
  PROVE  Asked(w, p)
<1>1. w.sent = v.sent /\ Due(w) = Due(v)
  BY AfarKeeps
<1>2. v.nread \in Nat /\ Len(Due(v)) \in Nat
  BY Fields, NextByte
<1>3. ASSUME NEW k \in (w.nread + 1)..Len(Due(w)), PageEnd(Due(w)[k])
      PROVE  k = Len(Due(w)) /\ Due(w)[k][1] = p
  <2>1. k \in (v.nread + 1)..Len(Due(v))
    BY <1>1, <1>2
  <2> QED BY <1>1, <1>3, <2>1 DEF Asked
<1>4. w.sent # <<>>
  BY <1>1 DEF Asked
<1> QED BY <1>3, <1>4 DEF Asked

LEMMA AskedPage ==
  ASSUME NEW v \in ViewerType, NEW p, Whole(v), Asked(v, p), v.gs = "run",
         v.nread < Len(v.written), PageEnd(v.written[v.nread + 1]),
         NEW w, Afar(w) = Afar(v), w.nread = v.nread + 1, w.gs = "wait"
  PROVE  Asked(w, p)
<1>1. w.sent = v.sent /\ Due(w) = Due(v)
  BY AfarKeeps
<1>2. /\ v.nread + 1 \in (v.nread + 1)..Len(Due(v)) /\ PageEnd(Due(v)[v.nread + 1])
      /\ v.nread \in Nat
  BY Fields, NextByte
<1>3. v.nread + 1 = Len(Due(v)) /\ Due(v)[v.nread + 1][1] = p
  BY <1>2 DEF Asked
<1>4. w.nread > 0 /\ w.nread = Len(Due(w)) /\ Due(w)[w.nread][1] = p
  BY <1>1, <1>2, <1>3
<1>5. w.sent # <<>>
  BY <1>1 DEF Asked
<1> QED BY <1>4, <1>5 DEF Asked

\* A PAGE that arrives clears the busy flag of an interpreter that waits.
LEMMA PageArrives ==
  ASSUME NEW v \in ViewerType, Whole(v), v.events # <<>>, Head(v.events).type = "PAGE",
         NEW w, Afar(w) = Afar(v), w.nread = v.nread, w.gs = v.gs, w.pid = v.pid, ~w.busy,
         w.events = Tail(v.events), w.mwin = Head(v.events).from
  PROVE  Whole(w) /\ Kept(v, w)
<1> DEFINE m == Head(v.events)
           l == Len(v.events)
<1>1. v.events \in Seq(Msgs) /\ m \in Msgs /\ m = v.events[1] /\ l \in Nat /\ l > 0
  <2>1. v.events \in Seq(Msgs)
    BY Fields
  <2>2. m = v.events[1] /\ l \in Nat /\ l > 0
    BY <2>1
  <2>3. m \in Msgs
    BY <2>1, HeadTailProperties
  <2> QED BY <2>1, <2>2, <2>3
<1>2. Len(w.events) = l - 1 /\ \A n \in 1..(l - 1) : w.events[n] = v.events[n + 1]
  BY <1>1
<1> HIDE DEF m, l
<1>3. m.from \in {"cur", "old"}
  BY <1>1 DEF Msgs
<1>4. Told(v) /\ Queue(v) /\ Begun(v) /\ Fed(v) /\ Pipe(v)
  BY DEF Whole
<1>5. ASSUME NEW n \in News(w)  PROVE n \in Nat /\ n > 0 /\ n + 1 \in News(v)
  <2>1. n \in 1..(l - 1) /\ w.events[n].type = "PAGE" /\ w.events[n].from = "cur"
    BY <1>2, <1>5 DEF News
  <2>2. n + 1 \in 1..l /\ n \in Nat /\ n > 0
    BY <1>1, <2>1
  <2> QED BY <1>2, <2>1, <2>2 DEF News, l
<1>6. m.from = "cur" => 1 \in News(v)
  BY <1>1 DEF News, m, l
<1>7. Told(w)
  <2>1. \A n \in News(w) : \A k \in News(w) : n = k
    <3> SUFFICES ASSUME NEW n \in News(w), NEW k \in News(w)  PROVE n = k
      OBVIOUS
    <3>1. n + 1 = k + 1 /\ n \in Nat /\ k \in Nat
      BY <1>4, <1>5 DEF Told
    <3> QED BY <3>1
  <2>2. ASSUME News(v) = {}  PROVE News(w) = {}
    BY <1>5, <2>2
  <2>3. ASSUME w.mwin = "cur"  PROVE w.gs # "run" /\ News(w) = {} /\ w.gs # "none"
    <3>1. 1 \in News(v)
      BY <1>6, <2>3 DEF m
    <3>2. ASSUME NEW n \in News(w)  PROVE FALSE
      <4>1. n + 1 = 1 /\ n \in Nat /\ n > 0
        BY <1>4, <1>5, <3>1 DEF Told
      <4> QED BY <4>1
    <3>3. v.gs # "run" /\ v.gs # "none"
      BY <1>4, <3>1 DEF Told
    <3> QED BY <3>2, <3>3
  <2>4. w.mwin # "none"
    BY <1>3 DEF m
  <2>5. (w.pid <=> w.gs # "none") /\ (w.gs = "run" => News(w) = {})
        /\ (w.gs = "none" => News(w) = {})
    BY <1>4, <2>2 DEF Told
  <2> QED BY <2>1, <2>3, <2>4, <2>5 DEF Told
<1>8. Queue(w) /\ Begun(w) /\ Fed(w) /\ Pipe(w)
  BY <1>4, AfarKeeps
<1>9. Kept(v, w)
  <2>1. w.sent = v.sent /\ w.input = v.input
    BY AfarKeeps
  <2> QED BY <2>1 DEF Kept
<1> QED BY <1>7, <1>8, <1>9 DEF Whole

LEMMA DoneArrives ==
  ASSUME NEW v \in ViewerType, Whole(v), NEW w \in ViewerType, Afar(w) = Afar(v),
         w.nread = v.nread
  PROVE  /\ StopInterpreter(w) \in ViewerType /\ Whole(StopInterpreter(w))
         /\ Kept(v, StopInterpreter(w))
<1>1. Queue(v) /\ Pipe(v)
  BY DEF Whole
<1>2. Queue(w) /\ Pipe(w) /\ w.sent = v.sent
  BY <1>1, AfarKeeps
<1>3. /\ StopInterpreter(w) \in ViewerType /\ Whole(StopInterpreter(w))
      /\ Idle(StopInterpreter(w)) /\ StopInterpreter(w).sent = w.sent
  BY <1>2, StopKeeps
<1> QED BY <1>2, <1>3 DEF Kept, Idle
-----------------------------------------------------------------------------
(* Every step. *)

IInv ==
    /\ TypeOK /\ Pipe(g) /\ Document(g)
    /\ pc # "exited" =>
          /\ Whole(g) /\ Fitting(g, doc)
          /\ doc = "dsc" => Asked(g, page)
          /\ pc = "input" => g.input_id /\ g.ps_input # <<>>

\* A step within a file keeps the invariant if it keeps that of the widget.
LEMMA Within ==
  ASSUME IInv, pc # "exited", UNCHANGED <<doc, page>>, pc' \in {"main", "input"},
         g' \in ViewerType, Whole(g'), Document(g'), Fitting(g', doc),
         doc = "dsc" => Asked(g', page),
         pc' = "input" => g'.input_id /\ g'.ps_input # <<>>
  PROVE  IInv'
<1>1. TypeOK'
  BY DEF IInv, TypeOK
<1>2. Pipe(g')
  BY DEF Whole
<1> QED BY <1>1, <1>2 DEF IInv

\* The same for a step that goes on with the sections that were sent.
LEMMA Going ==
  ASSUME IInv, pc # "exited", UNCHANGED <<doc, page>>, pc' \in {"main", "input"},
         g' \in ViewerType, Whole(g'), Kept(g, g'),
         pc' = "input" => g'.input_id /\ g'.ps_input # <<>>
  PROVE  IInv'
<1>1. Document(g) /\ Fitting(g, doc) /\ (doc = "dsc" => Asked(g, page))
  BY DEF IInv
<1>2. Document(g') /\ Fitting(g', doc) /\ (doc = "dsc" => Asked(g', page))
  BY <1>1, KeptKeeps
<1> QED BY <1>2, Within

LEMMA InitKeeps == Init => IInv
<1> SUFFICES ASSUME Init PROVE IInv
  OBVIOUS
<1> DEFINE w == [Blank EXCEPT !.sized = TRUE, !.busy = TRUE, !.pid = TRUE,
                              !.gs = "run", !.input = TRUE,
                              !.out = {"stdout", "stderr"}]
           a == [Blank EXCEPT !.sized = TRUE, !.busy = TRUE, !.pid = TRUE]
           none == [part |-> Prolog, at |-> 0]
<1>1. pc = "main" /\ doc = "none" /\ page = FirstPage /\ g = w
  BY Zenon DEF Init
<1>2. /\ Blank \in ViewerType /\ Blank.input_id = FALSE /\ Blank.mwin = "none"
      /\ Blank.ps_input = <<>> /\ Blank.sent = <<>> /\ Blank.written = <<>>
      /\ Blank.nread = 0 /\ Blank.events = <<>>
  <2>1. none \in [part : Parts, at : Nat]
    BY DEF Parts
  <2> HIDE DEF none
  <2>2. /\ <<>> \in Seq(Items) /\ <<>> \in Seq(Bytes) /\ <<>> \in Seq(Parts)
        /\ <<>> \in Seq(Msgs) /\ {} \in SUBSET {"stdout", "stderr"}
    OBVIOUS
  <2>3. Blank = [disable_start |-> FALSE, changed |-> FALSE, sized |-> FALSE,
                 pid |-> FALSE, gs |-> "none", input |-> FALSE, input_id |-> FALSE,
                 out |-> {}, busy |-> FALSE, mwin |-> "none", ps_input |-> <<>>,
                 bytes_left |-> 0, buffer |-> <<>>, fp |-> none,
                 sent |-> <<>>, written |-> <<>>, nread |-> 0, events |-> <<>>]
    BY Zenon DEF Blank, none
  <2> QED BY <2>1, <2>2, <2>3, TypeIs
<1>3. a \in ViewerType
  BY <1>2, TypeIs
<1> HIDE DEF a
<1>4. [a EXCEPT !.gs = "run", !.input = TRUE, !.out = {"stdout", "stderr"}] \in ViewerType
  BY <1>3, TypeIs
<1>5. /\ g \in ViewerType /\ g.pid = TRUE /\ g.gs = "run" /\ g.input = TRUE
      /\ g.input_id = FALSE /\ g.busy = TRUE
      /\ g.mwin = "none" /\ g.ps_input = <<>> /\ g.sent = <<>> /\ g.written = <<>>
      /\ g.nread = 0 /\ g.events = <<>>
  <2>1. g = [a EXCEPT !.gs = "run", !.input = TRUE, !.out = {"stdout", "stderr"}]
    BY <1>1, Zenon DEF a
  <2>2. /\ a.pid = TRUE /\ a.input_id = FALSE /\ a.busy = TRUE /\ a.mwin = "none"
        /\ a.ps_input = <<>> /\ a.sent = <<>> /\ a.written = <<>>
        /\ a.nread = 0 /\ a.events = <<>>
    BY <1>2 DEF a, ViewerType
  <2>3. g \in ViewerType
    BY <1>4, <2>1, Zenon
  <2> QED BY <1>3, <2>1, <2>2, <2>3 DEF ViewerType
<1>6. Len(<<>>) = 0
  OBVIOUS
<1>7. TypeOK
  BY <1>1, <1>5, PageAssumption DEF TypeOK
<1>8. Pipe(g)
  <2>1. Due(g) = <<>>
    BY <1>5, DueNone
  <2>2. IsPrefix(<<>>, <<>>)
    BY <1>6 DEF IsPrefix
  <2> QED BY <1>5, <1>6, <2>1, <2>2 DEF Pipe
<1>9. Document(g)
  BY <1>5, <1>6 DEF Document
<1>10. Told(g)
  <2>1. News(g) = {}
    BY <1>5, <1>6 DEF News
  <2> QED BY <1>5, <2>1 DEF Told
<1>11. Whole(g)
  BY <1>5, <1>8, <1>10, AtRest DEF Whole
<1> QED BY <1>1, <1>5, <1>7, <1>8, <1>9, <1>11 DEF IInv, Fitting

LEMMA ShowKeeps ==
  ASSUME IInv, NEW v \in ViewerType, NEW p \in Pages, NEW forked \in Forks, pc = "main",
         doc # "none", Whole(v), Document(v), Fitting(v, doc),
         doc = "dsc" /\ ~v.busy => Asked(v, page),
         mgv_show(v, p, forked)
  PROVE  IInv'
<1>1. doc' = doc /\ page' = p /\ doc \in {"dsc", "plain"} /\ forked \in BOOLEAN
  BY DEF mgv_show, IInv, TypeOK, Forks
<1>2. pc' = IF Refused(v, p) THEN "exited" ELSE "main"
  BY DEF mgv_show
<1>3. CASE doc = "dsc"
  <2>1. g' = Shown(v, p, forked)
    BY <1>3 DEF mgv_show
  <2>2. /\ g' \in ViewerType /\ Pipe(g') /\ Document(g')
        /\ ~Refused(v, p) => Whole(g') /\ Fitting(g', doc) /\ Asked(g', p)
    BY <1>1, <1>3, <2>1, Shows
  <2>3. TypeOK'
    BY <1>1, <1>2, <2>2 DEF TypeOK
  <2> QED BY <1>1, <1>2, <2>2, <2>3 DEF IInv
<1>4. CASE doc = "plain"
  <2>1. g' = ShownPlain(v, forked)
    BY <1>4 DEF mgv_show
  <2>2. /\ g' \in ViewerType /\ Pipe(g') /\ Document(g')
        /\ ~Refused(v, p) => Whole(g') /\ Fitting(g', doc)
    BY <1>1, <1>4, <2>1, ShowsPlain
  <2>3. TypeOK'
    BY <1>1, <1>2, <2>2 DEF TypeOK
  <2> QED BY <1>1, <1>2, <1>4, <2>2, <2>3 DEF IInv
<1> QED BY <1>1, <1>3, <1>4

\* A widget that Setup found changed, whichever way.
LEMMA SetupFits ==
  ASSUME NEW v \in ViewerType, NEW forked \in Forks, Whole(v), Document(v), ~Settled(v)
  PROVE  /\ Setup(v, forked) \in ViewerType
         /\ Whole(Setup(v, forked)) /\ Document(Setup(v, forked))
         /\ Fitting(Setup(v, forked), doc)
         /\ ~Setup(v, forked).busy => Setup(v, forked).gs = "none"
         /\ \/ Idle(Setup(v, forked))
            \/ Fresh(Setup(v, forked)) /\ (Setup(v, forked).input <=> doc # "plain")
<1> DEFINE s == Setup(v, forked)
<1>1. forked \in BOOLEAN
  BY DEF Forks
<1>2. /\ s \in ViewerType /\ Whole(s) /\ Document(s)
      /\ Idle(s) \/ (Fresh(s) /\ s.busy /\ (s.input <=> doc # "plain"))
  BY <1>1, SetsUp
<1> HIDE DEF s
<1>3. Fitting(s, doc) /\ (~s.busy => s.gs = "none")
  BY <1>2 DEF Fitting, Idle
<1> QED BY <1>2, <1>3 DEF s

LEMMA ShowPageKeeps ==
  ASSUME IInv, NEW p \in Pages, ShowPage(p)
  PROVE  IInv'
<1>1. pc = "main" /\ doc # "none" /\ \E forked \in Forks : mgv_show(g, p, forked)
  BY DEF ShowPage
<1>2. g \in ViewerType /\ Whole(g) /\ Document(g) /\ Fitting(g, doc)
      /\ (doc = "dsc" => Asked(g, page))
  BY <1>1 DEF IInv, TypeOK
<1> QED BY <1>1, <1>2, ShowKeeps

LEMMA PaletteKeeps ==
  ASSUME IInv, Palette
  PROVE  IInv'
<1> DEFINE c == [g EXCEPT !.changed = TRUE]
<1>1. pc = "main" /\ doc # "none"
  BY DEF Palette
<1>2. PICK forked \in Forks : mgv_show(Setup(c, forked), page, forked)
  BY DEF Palette
<1>3. g \in ViewerType /\ Whole(g) /\ Document(g) /\ page \in Pages
  BY <1>1 DEF IInv, TypeOK
<1>4. c \in ViewerType /\ Core(c) = Core(g) /\ ~Settled(c)
  BY <1>3, Changes
<1>5. Whole(c) /\ Document(c)
  BY <1>3, <1>4, SameCore
<1> HIDE DEF c
<1> DEFINE s == Setup(c, forked)
<1>6. /\ s \in ViewerType /\ Whole(s) /\ Document(s) /\ Fitting(s, doc)
      /\ ~s.busy => s.gs = "none"
  BY <1>4, <1>5, SetupFits
<1> HIDE DEF s
<1>7. ~s.busy => Asked(s, page)
  BY <1>6 DEF Asked
<1>8. mgv_show(s, page, forked)
  BY <1>2 DEF s
<1> QED BY <1>1, <1>3, <1>6, <1>7, <1>8, ShowKeeps

LEMMA AntialiasKeeps ==
  ASSUME IInv, Antialias
  PROVE  IInv'
<1> DEFINE d == DisableInterpreter(g)
           c == [d EXCEPT !.changed = TRUE]
<1>1. pc = "main" /\ doc # "none"
  BY DEF Antialias
<1>2. PICK forked \in Forks : mgv_show(Setup(c, forked), page, forked)
  BY DEF Antialias
<1>3. g \in ViewerType /\ Whole(g) /\ Document(g) /\ page \in Pages
  BY <1>1 DEF IInv, TypeOK
<1>4. d \in ViewerType /\ Whole(d) /\ Document(d)
  BY <1>3, DisableKeeps
<1> HIDE DEF d
<1>5. c \in ViewerType /\ Core(c) = Core(d) /\ ~Settled(c)
  BY <1>4, Changes
<1>6. Whole(c) /\ Document(c)
  BY <1>4, <1>5, SameCore
<1> HIDE DEF c
<1> DEFINE s == Setup(c, forked)
<1>7. /\ s \in ViewerType /\ Whole(s) /\ Document(s) /\ Fitting(s, doc)
      /\ ~s.busy => s.gs = "none"
  BY <1>5, <1>6, SetupFits
<1> HIDE DEF s
<1>8. ~s.busy => Asked(s, page)
  BY <1>7 DEF Asked
<1>9. mgv_show(s, page, forked)
  BY <1>2 DEF s
<1> QED BY <1>1, <1>3, <1>7, <1>8, <1>9, ShowKeeps

LEMMA ResizeKeeps ==
  ASSUME IInv, Resize
  PROVE  IInv'
<1> DEFINE c == [g EXCEPT !.sized = FALSE]
<1>1. pc = "main" /\ UNCHANGED <<pc, doc, page>>
  BY DEF Resize
<1>2. PICK forked \in Forks :
        g' = IF doc # "plain" THEN Refreshed(Setup(c, forked), page) ELSE Setup(c, forked)
  BY DEF Resize
<1>3. g \in ViewerType /\ Whole(g) /\ Document(g) /\ page \in Pages
  BY <1>1 DEF IInv, TypeOK
<1>4. c \in ViewerType /\ Core(c) = Core(g) /\ ~Settled(c)
  BY <1>3, Sizes
<1>5. Whole(c) /\ Document(c)
  BY <1>3, <1>4, SameCore
<1> HIDE DEF c
<1> DEFINE s == Setup(c, forked)
<1>6. /\ s \in ViewerType /\ Whole(s) /\ Document(s) /\ Fitting(s, doc)
      /\ Idle(s) \/ (Fresh(s) /\ (s.input <=> doc # "plain"))
  BY <1>4, <1>5, SetupFits
<1>7. g' = IF doc # "plain" THEN Refreshed(s, page) ELSE s
  BY <1>2
<1> HIDE DEF s
<1>8. CASE doc = "dsc"
  <2>1. g' = SendPS(SendPS(SendPS(s, Prolog), Setups), page)
    BY <1>7, <1>8 DEF Refreshed
  <2>2. (Idle(s) /\ Document(s)) \/ (Fresh(s) /\ s.input)
    BY <1>6, <1>8
  <2>3. /\ g' \in ViewerType /\ Whole(g') /\ Document(g') /\ Asked(g', page)
        /\ g'.gs = s.gs /\ g'.input = s.input
    BY <1>3, <1>6, <2>1, <2>2, Refreshes
  <2>4. Fitting(g', doc)
    BY <1>6, <2>3 DEF Fitting
  <2> QED BY <1>1, <2>3, <2>4, Within
<1>9. CASE doc # "dsc"
  <2>1. g' = s
    BY <1>7, <1>9 DEF Refreshed
  <2> QED BY <1>1, <1>6, <1>9, <2>1, Within
<1> QED BY <1>8, <1>9

LEMMA OpenKeeps ==
  ASSUME IInv, NEW d \in {"dsc", "plain"}, Open(d)
  PROVE  IInv'
<1> DEFINE t == DisableInterpreter(g)
           c == [t EXCEPT !.changed = TRUE]
           s == [c EXCEPT !.sized = TRUE]
<1>1. pc = "main" /\ pc' = pc /\ doc' = d /\ page' = FirstPage /\ FirstPage \in Pages
  BY PageAssumption DEF Open
<1>2. g' = s
  BY DEF Open
<1>3. g \in ViewerType /\ Whole(g) /\ Document(g)
  BY <1>1 DEF IInv, TypeOK
<1>4. t \in ViewerType /\ Whole(t) /\ Idle(t) /\ Document(t)
  BY <1>3, DisableKeeps
<1> HIDE DEF t
<1>5. c \in ViewerType /\ Core(c) = Core(t)
  BY <1>4, Changes
<1> HIDE DEF c
<1>6. s \in ViewerType /\ Core(s) = Core(c)
  BY <1>5, Sizes
<1> HIDE DEF s
<1>7. Core(t) = Core(s)
  BY <1>5, <1>6
<1>8. Whole(s) /\ Idle(s) /\ Document(s)
  BY <1>4, <1>7, SameCore
<1>9. s.gs = "none" /\ Pipe(s)
  BY <1>8 DEF Idle, Whole
<1>10. Fitting(s, d) /\ Asked(s, FirstPage)
  BY <1>9 DEF Fitting, Asked
<1>11. TypeOK'
  BY <1>1, <1>2, <1>6 DEF TypeOK
<1> QED BY <1>1, <1>2, <1>8, <1>9, <1>10, <1>11 DEF IInv

LEMMA InputKeeps ==
  ASSUME IInv, Input
  PROVE  IInv'
<1>1. pc # "exited" /\ UNCHANGED <<doc, page>>
  BY DEF Input
<1>2. g \in ViewerType /\ Whole(g) /\ g.input_id
  <2>1. g \in ViewerType /\ Whole(g)
    BY <1>1 DEF IInv, TypeOK
  <2>2. g.input_id
    BY DEF IInv, Input
  <2> QED BY <2>1, <2>2
<1>3. PICK n \in Reads(g) : \E m \in Writes(Filled(g, n)) :
        LET w == Wrote(Filled(g, n), m)
            more == w.ps_input # <<>> /\ w.buffer = <<>>
        IN  /\ pc' = IF more THEN "input" ELSE "main"
            /\ g' = IF more THEN w ELSE Detached(w)
  BY DEF Input
<1> DEFINE f == Filled(g, n)
<1>4. PICK m \in Writes(f) :
        /\ pc' = IF Wrote(f, m).ps_input # <<>> /\ Wrote(f, m).buffer = <<>>
                 THEN "input" ELSE "main"
        /\ g' = IF Wrote(f, m).ps_input # <<>> /\ Wrote(f, m).buffer = <<>>
                THEN Wrote(f, m) ELSE Detached(Wrote(f, m))
  BY <1>3, Zenon
<1>5. f \in ViewerType /\ Whole(f) /\ Kept(g, f) /\ (f.input_id \/ f.buffer = <<>>)
  BY <1>2, Fills
<1> HIDE DEF f
<1> DEFINE w == Wrote(f, m)
<1>6. w \in ViewerType /\ Whole(w) /\ Kept(f, w)
  BY <1>5, WriteKeeps
<1>7. /\ pc' = IF w.ps_input # <<>> /\ w.buffer = <<>> THEN "input" ELSE "main"
      /\ g' = IF w.ps_input # <<>> /\ w.buffer = <<>> THEN w ELSE Detached(w)
  BY <1>4
<1> HIDE DEF w
<1>8. Kept(g, w)
  BY <1>5, <1>6, KeptTwice
<1>9. Detached(w) \in ViewerType /\ Whole(Detached(w)) /\ Kept(w, Detached(w))
  BY <1>6, Detaches
<1>10. Kept(g, Detached(w))
  BY <1>8, <1>9, KeptTwice
<1>11. CASE w.ps_input # <<>> /\ w.buffer = <<>>
  <2>1. pc' = "input" /\ g' = w
    BY <1>7, <1>11, Zenon
  <2>2. w.input_id
    BY <1>6, <1>11 DEF Whole, Queue
  <2> QED BY <1>1, <1>6, <1>8, <1>11, <2>1, <2>2, Going
<1>12. CASE ~(w.ps_input # <<>> /\ w.buffer = <<>>)
  <2>1. pc' = "main" /\ g' = Detached(w)
    BY <1>7, <1>12, Zenon
  <2> QED BY <1>1, <1>9, <1>10, <2>1, Going
<1> QED BY <1>11, <1>12

LEMMA OutputKeeps ==
  ASSUME IInv, NEW d, Output(d)
  PROVE  IInv'
<1> DEFINE o == g.out \ {d}
           w == [g EXCEPT !.out = o]
<1>1. pc = "main" /\ UNCHANGED <<pc, doc, page>> /\ g' = w
  BY DEF Output
<1>2. g \in ViewerType /\ Whole(g)
  BY <1>1 DEF IInv, TypeOK
<1>3. o \in SUBSET {"stdout", "stderr"}
  BY <1>2, Fields
<1> HIDE DEF o
<1>4. w \in ViewerType
  BY <1>2, <1>3, TypeIs
<1>5. Core(g) = Core(w) /\ w.sent = g.sent /\ w.gs = g.gs /\ w.nread = g.nread
      /\ w.input = g.input
  BY <1>2 DEF ViewerType, Core
<1> HIDE DEF w
<1>6. Whole(w) /\ Kept(g, w)
  BY <1>2, <1>5, SameCore DEF Kept
<1> QED BY <1>1, <1>4, <1>6, Going

LEMMA MessageKeeps ==
  ASSUME IInv, Message
  PROVE  IInv'
<1> DEFINE m == Head(g.events)
           e == Tail(g.events)
           x == m.from
           v == [g EXCEPT !.events = e, !.mwin = x]
           w == [v EXCEPT !.busy = FALSE]
<1>1. pc = "main" /\ UNCHANGED <<pc, doc, page>> /\ g.events # <<>>
  BY DEF Message
<1>2. g' = IF m.type = "PAGE" THEN w ELSE StopInterpreter(v)
  BY DEF Message, PageDone
<1>3. g \in ViewerType /\ Whole(g)
  BY <1>1 DEF IInv, TypeOK
<1>4. e \in Seq(Msgs) /\ x \in {"none", "cur", "old"}
  <2>1. g.events \in Seq(Msgs)
    BY <1>3, Fields
  <2>2. m \in Msgs /\ e \in Seq(Msgs)
    BY <1>1, <2>1, HeadTailProperties
  <2> QED BY <2>2 DEF Msgs
<1> HIDE DEF m, e, x
<1>5. v \in ViewerType
  BY <1>3, <1>4, TypeIs
<1>6. /\ Afar(v) = Afar(g) /\ v.nread = g.nread /\ v.gs = g.gs /\ v.pid = g.pid
      /\ v.events = e /\ v.mwin = x
  BY <1>3 DEF ViewerType, Afar
<1> HIDE DEF v
<1>7. w \in ViewerType
  BY <1>5, TypeIs
<1>8. /\ Afar(w) = Afar(v) /\ w.nread = v.nread /\ w.gs = v.gs /\ w.pid = v.pid
      /\ w.events = v.events /\ w.mwin = v.mwin /\ w.busy = FALSE
  BY <1>5 DEF ViewerType, Afar
<1> HIDE DEF w
<1>9. CASE m.type = "PAGE"
  <2>1. g' = w
    BY <1>2, <1>9
  <2>2. Afar(w) = Afar(g) /\ w.nread = g.nread /\ w.gs = g.gs /\ w.pid = g.pid /\ ~w.busy
        /\ w.events = Tail(g.events) /\ w.mwin = Head(g.events).from
    BY <1>6, <1>8 DEF e, x, m
  <2>3. Whole(w) /\ Kept(g, w)
    BY <1>1, <1>3, <1>9, <2>2, PageArrives DEF m
  <2> QED BY <1>1, <1>7, <2>1, <2>3, Going
<1>10. CASE m.type # "PAGE"
  <2>1. g' = StopInterpreter(v)
    BY <1>2, <1>10
  <2>2. g' \in ViewerType /\ Whole(g') /\ Kept(g, g')
    BY <1>3, <1>5, <1>6, <2>1, DoneArrives
  <2> QED BY <1>1, <2>2, Going
<1> QED BY <1>9, <1>10
-----------------------------------------------------------------------------
LEMMA GsReadStep ==
  ASSUME IInv, GsRead
  PROVE  IInv'
<1> DEFINE v == [g EXCEPT !.nread = @ + 1]
           b == g.written[g.nread + 1]
           w == [Tells(v, "PAGE") EXCEPT !.gs = "wait"]
<1>1. /\ pc # "exited" /\ g.gs = "run" /\ g.nread < Len(g.written)
      /\ UNCHANGED <<pc, doc, page>>
  BY DEF GsRead
<1>2. g' = IF PageEnd(b) THEN w ELSE v
  BY Zenon DEF GsRead, PageEnd
<1>3. /\ g \in ViewerType /\ Whole(g) /\ Document(g) /\ Fitting(g, doc)
      /\ doc = "dsc" => Asked(g, page)
      /\ pc = "input" => g.input_id /\ g.ps_input # <<>>
      /\ pc \in {"main", "input"}
  BY <1>1 DEF IInv, TypeOK
<1>4. /\ v \in ViewerType /\ Afar(v) = Afar(g) /\ v.nread = g.nread + 1
      /\ v.pid = g.pid /\ v.gs = g.gs /\ v.busy = g.busy /\ v.mwin = g.mwin
      /\ v.events = g.events
  BY <1>3, Reading
<1> HIDE DEF v
<1>5. Told(g) /\ News(v) = News(g)
  BY <1>3, <1>4, Zenon DEF Whole, News
<1>6. Told(v)
  BY <1>4, <1>5, Zenon DEF Told
<1>7. ASSUME NEW x, Afar(x) = Afar(g)
      PROVE  pc' = "input" => x.input_id /\ x.ps_input # <<>>
  <2>1. x.input_id = g.input_id /\ x.ps_input = g.ps_input
    BY <1>7 DEF Afar
  <2> QED BY <1>1, <1>3, <2>1
<1>8. CASE ~PageEnd(b)
  <2>1. g' = v
    BY <1>2, <1>8, Zenon
  <2>2. Whole(v) /\ Document(v) /\ Fitting(v, doc)
    BY <1>1, <1>3, <1>4, <1>6, GsReadKeeps
  <2>3. doc = "dsc" => Asked(v, page)
    BY <1>1, <1>3, <1>4, <1>8, AskedByte
  <2> QED BY <1>1, <1>3, <1>4, <1>7, <2>1, <2>2, <2>3, Within
<1>9. CASE PageEnd(b)
  <2>1. g' = w
    BY <1>2, <1>9, Zenon
  <2>2. /\ w \in ViewerType /\ Afar(w) = Afar(v) /\ w.gs = "wait" /\ w.nread = v.nread
        /\ w.pid = v.pid /\ w.busy = v.busy /\ w.mwin = v.mwin
        /\ w.events = Append(v.events, [type |-> "PAGE", from |-> "cur"])
    BY <1>4, Telling, Zenon DEF Said
  <2> HIDE DEF w
  <2>3. Told(w)
    BY <1>1, <1>4, <1>6, <2>2, ToldOneMore
  <2>4. Afar(w) = Afar(g) /\ w.nread = g.nread + 1
    BY <1>4, <2>2
  <2>5. Whole(w) /\ Document(w) /\ Fitting(w, doc)
    BY <1>1, <1>3, <2>2, <2>3, <2>4, GsReadKeeps
  <2>6. doc = "dsc" => Asked(w, page)
    BY <1>1, <1>3, <1>9, <2>2, <2>4, AskedPage
  <2> QED BY <1>1, <1>3, <1>7, <2>1, <2>2, <2>4, <2>5, <2>6, Within
<1> QED BY <1>8, <1>9

LEMMA GsPlainStep ==
  ASSUME IInv, GsPlain
  PROVE  IInv'
<1>1. pc # "exited" /\ g.gs = "run" /\ ~g.input /\ UNCHANGED <<pc, doc, page>>
  BY DEF GsPlain
<1>2. PICK type \in {"PAGE", "DONE"}, x \in {"wait", "dead"} :
        g' = [Tells(g, type) EXCEPT !.gs = x]
  BY Zenon DEF GsPlain
<1> DEFINE w == [Tells(g, type) EXCEPT !.gs = x]
<1>3. /\ g \in ViewerType /\ Whole(g) /\ Document(g) /\ Fitting(g, doc)
      /\ pc = "input" => g.input_id /\ g.ps_input # <<>>
      /\ pc \in {"main", "input"}
  BY <1>1 DEF IInv, TypeOK
<1>4. /\ w \in ViewerType /\ Afar(w) = Afar(g) /\ w.gs = x /\ w.nread = g.nread
      /\ w.pid = g.pid /\ w.busy = g.busy /\ w.mwin = g.mwin
      /\ w.events = Append(g.events, [type |-> type, from |-> "cur"])
  <2>1. type \in {"PAGE", "DONE"} /\ x \in {"wait", "dead"}
    OBVIOUS
  <2>2. Said(g, type, x, w)
    BY <1>3, <2>1, Telling, Zenon
  <2> QED BY <2>2, Zenon DEF Said
<1>5. g' = w
  BY <1>2
<1> HIDE DEF w
<1>6. doc = "plain"
  BY <1>1, <1>3 DEF Fitting
<1>7. Told(w)
  BY <1>1, <1>3, <1>4, ToldOneMore DEF Whole
<1>8. Whole(w) /\ Document(w) /\ w.input = g.input
  BY <1>3, <1>4, <1>7, AfarKeeps DEF Whole
<1>9. Fitting(w, doc)
  BY <1>1, <1>6, <1>8 DEF Fitting
<1>10. pc' = "input" => w.input_id /\ w.ps_input # <<>>
  <2>1. w.input_id = g.input_id /\ w.ps_input = g.ps_input
    BY <1>4 DEF Afar
  <2> QED BY <1>1, <1>3, <2>1
<1> QED BY <1>1, <1>3, <1>4, <1>5, <1>6, <1>8, <1>9, <1>10, Within

LEMMA GsDiesStep ==
  ASSUME IInv, GsDies
  PROVE  IInv'
<1> DEFINE w == [g EXCEPT !.gs = "dead"]
<1>1. pc # "exited" /\ g.gs \in {"run", "wait"} /\ g' = w /\ UNCHANGED <<pc, doc, page>>
  BY DEF GsDies
<1>2. /\ g \in ViewerType /\ Whole(g) /\ Document(g) /\ Fitting(g, doc)
      /\ doc = "dsc" => Asked(g, page)
      /\ pc = "input" => g.input_id /\ g.ps_input # <<>>
      /\ pc \in {"main", "input"}
  BY <1>1 DEF IInv, TypeOK
<1>3. w \in ViewerType
  BY <1>2, TypeIs
<1>4. /\ Afar(w) = Afar(g) /\ w.gs = "dead" /\ w.nread = g.nread /\ w.pid = g.pid
      /\ w.busy = g.busy /\ w.mwin = g.mwin /\ w.events = g.events
  BY <1>2 DEF ViewerType, Afar
<1> HIDE DEF w
<1>5. Told(w)
  <2>1. News(w) = News(g)
    BY <1>4, Zenon DEF News
  <2> QED BY <1>1, <1>2, <1>4, <2>1 DEF Whole, Told
<1>6. Whole(w) /\ Document(w) /\ w.input = g.input /\ w.sent = g.sent
  BY <1>2, <1>4, <1>5, AfarKeeps DEF Whole
<1>7. Fitting(w, doc)
  BY <1>1, <1>2, <1>4, <1>6 DEF Fitting
<1>8. doc = "dsc" => Asked(w, page)
  BY <1>1, <1>2, <1>4, <1>6 DEF Asked
<1>9. pc' = "input" => w.input_id /\ w.ps_input # <<>>
  <2>1. w.input_id = g.input_id /\ w.ps_input = g.ps_input
    BY <1>4 DEF Afar
  <2> QED BY <1>1, <1>2, <2>1
<1> QED BY <1>1, <1>2, <1>3, <1>6, <1>7, <1>8, <1>9, Within

LEMMA NextKeeps == IInv /\ [Next]_vars => IInv'
<1> SUFFICES ASSUME IInv, [Next]_vars  PROVE IInv'
  OBVIOUS
<1>1. CASE User
  BY <1>1, ShowPageKeeps, PaletteKeeps, AntialiasKeeps, ResizeKeeps, OpenKeeps DEF User
<1>2. CASE Dispatch
  BY <1>2, InputKeeps, MessageKeeps, OutputKeeps DEF Dispatch
<1>3. CASE Gs
  BY <1>3, GsReadStep, GsPlainStep DEF Gs
<1>4. CASE GsDies
  BY <1>4, GsDiesStep
<1>5. CASE Exited \/ UNCHANGED vars
  <2>1. pc' = pc /\ doc' = doc /\ page' = page /\ g' = g
    BY <1>5 DEF Exited, vars
  <2> QED BY <2>1 DEF IInv, TypeOK
<1> QED BY <1>1, <1>2, <1>3, <1>4, <1>5 DEF Next

\* The invariant holds of every behaviour of the widget.
THEOREM Invariant == Spec => []IInv
<1>1. Init => IInv
  BY InitKeeps
<1>2. IInv /\ [Next]_vars => IInv'
  BY NextKeeps
<1> QED BY <1>1, <1>2, PTL DEF Spec

\* Whatever was started, stopped, refused or cut short, in whatever order (the
\* StartInterpreter, StopInterpreter, SendPS, Input and Message of Ghostview.c),
\* the bytes an interpreter was given are a prefix of the sections queued for it,
\* and those are a prolog, a setup and pages.
THEOREM FeedStaysInOrder == Spec => []SentInOrder
<1>1. IInv => SentInOrder
  <2> SUFFICES ASSUME IInv  PROVE SentInOrder
    OBVIOUS
  <2>1. TypeOK /\ Pipe(g) /\ Document(g)
    BY DEF IInv
  <2>2. g.sent \in Seq(Parts)
    BY <2>1, Fields DEF TypeOK
  <2>3. DOMAIN g.sent = 1..Len(g.sent)
    BY <2>2
  <2>4. FeedInOrder
    BY <2>1, <2>3, Zenon DEF FeedInOrder, Pipe, Due, Upto
  <2>5. DocumentInOrder
    BY <2>1, <2>3, Zenon DEF DocumentInOrder, Document
  <2> QED BY <2>1, <2>4, <2>5 DEF SentInOrder
<1> QED BY <1>1, Invariant, PTL

\* A Ghostscript that waits shows the page mgv.c stands at (m->page), although
\* mgv_show, SetValues, Resize and the PAGE message reach the widget in any order
\* and the message may be that of an interpreter that is gone.
THEOREM RightPageShown == Spec => []PageOnScreen
<1>1. IInv => PageOnScreen
  <2> SUFFICES ASSUME IInv, pc # "exited", doc = "dsc", g.gs = "wait"
               PROVE  g.nread > 0 /\ g.written[g.nread][1] = page
    BY DEF PageOnScreen
  <2>1. Asked(g, page) /\ Whole(g) /\ g \in ViewerType
    BY DEF IInv, TypeOK
  <2>2. g.nread > 0 /\ g.nread = Len(Due(g)) /\ Due(g)[g.nread][1] = page
    BY <2>1 DEF Asked
  <2>3. /\ g.nread \in Nat /\ g.written \in Seq(Bytes) /\ Due(g) \in Seq(Bytes)
        /\ g.nread <= Len(g.written) /\ IsPrefix(g.written, Due(g))
    BY <2>1, Fields, DueType DEF Whole, Pipe
  <2>4. \A k \in 1..Len(g.written) : g.written[k] = Due(g)[k]
    BY <2>3, PrefixIs
  <2>5. g.nread \in 1..Len(g.written)
    BY <2>2, <2>3
  <2> QED BY <2>2, <2>4, <2>5
<1> QED BY <1>1, Invariant, PTL
=============================================================================
